----------------------------- MODULE LogProofs -----------------------------
(***************************************************************************)
(* What the saver logs: when main leaves, nothing is open or waiting, and  *)
(* every snapshot counted is in a file; and the files are as current as    *)
(* the cache.  For every set of blocks, number of marshallers and capacity *)
(* of the channels.                                                        *)
(***************************************************************************)
EXTENDS LifecycleProofs

\* Leaves are for Zenon, unless they cite another prover.
USE ZenonT(40)
USE SaverAssumption
USE DEF envVars, cacheVars, connVars, byteVars, repVars, roundVars, exitVars,
        loopVars, frameVars

-----------------------------------------------------------------------------
(* The end of the program. *)

\* When Done.Wait returns, every marshaller has drained its channel and every
\* file ever opened has been closed: main may leave.
THEOREM NothingLostAtExit == Spec => []FilesClosedWhenDone
<1>1. WriterInv /\ CacheInv /\ ExitInv => FilesClosedWhenDone
    <2> SUFFICES ASSUME WriterInv, CacheInv, ExitInv, done = 0
                 PROVE  /\ \A m \in Marshallers : marshalChan[m] = <<>>
                        /\ \A w \in DOMAIN writers : ~writers[w].Open
        BY DEF FilesClosedWhenDone
    <2>1. TypeInv
        BY DEF WriterInv
    <2>2. pc = "done" /\ \A m \in Marshallers : marshalChan[m] = <<>>
        BY <2>1, ExitDrained
    <2>3. \A c \in DOMAIN connections : connections[c].Writer = NilWriter
        <3>1. toClose = {}
            BY <2>2 DEF CacheInv, AllEnded
        <3> QED
            BY <2>2, <3>1 DEF CacheInv, WriterInCache, Closing
    <2>4. ASSUME NEW w \in DOMAIN writers PROVE ~writers[w].Open
        <3>1. ~Current(w)
            <4>1. w # NilWriter
                BY SMTT(40), <2>1, SeqLen DEF TypeInv, TypeOK, WriterTypeOK, NilWriter
            <4> QED
                BY <2>3, <4>1 DEF Current
        <3>2. ~ClosePending(w)
            BY SMTT(40), <2>2 DEF ClosePending
        <3> QED
            BY <3>1, <3>2 DEF WriterInv, NoLeakedWriter
    <2> QED
        BY <2>2, <2>4
<1> QED
    BY <1>1, CacheInvInit, CacheStep, ExitInit, ExitStep, TypeInvariant,
       WriterInvariant, PTL DEF Spec

-----------------------------------------------------------------------------
(* Snapshots counted and snapshots written. *)

\* The positions in a channel of the tasks that write a record.
SavesIn(s) == {i \in DOMAIN s : ~s[i].Close}

LEMMA SavesFinite ==
    ASSUME NEW s \in Seq(Task)
    PROVE  IsFiniteSet(SavesIn(s)) /\ Cardinality(SavesIn(s)) \in Nat
<1>1. DOMAIN s = 1 .. Len(s) /\ Len(s) \in Int /\ 1 \in Int
    BY SMTT(40), SeqLen
<1>2. IsFiniteSet(1 .. Len(s))
    BY <1>1, FS_Interval
<1>3. SavesIn(s) \subseteq 1 .. Len(s)
    BY <1>1 DEF SavesIn
<1> QED
    BY <1>2, <1>3, FS_Subset, FS_CardinalityType

LEMMA SavesAppend ==
    ASSUME NEW s \in Seq(Task), NEW t \in Task
    PROVE  /\ t.Close => SavesIn(Append(s, t)) = SavesIn(s)
           /\ ~t.Close => Cardinality(SavesIn(Append(s, t))) = Cardinality(SavesIn(s)) + 1
<1>1. PICK n \in Nat : n = Len(s) + 1
    BY SMTT(40), SeqLen
<1>2. /\ DOMAIN s = 1 .. n - 1 /\ DOMAIN Append(s, t) = 1 .. n
      /\ Append(s, t)[n] = t
      /\ \A i \in 1 .. n - 1 : Append(s, t)[i] = s[i]
    BY SMTT(40), <1>1, SeqLen, SeqAppend
<1>3. t.Close => SavesIn(Append(s, t)) = SavesIn(s)
    BY SMTT(40), <1>2 DEF SavesIn
<1>4. ASSUME ~t.Close
      PROVE  Cardinality(SavesIn(Append(s, t))) = Cardinality(SavesIn(s)) + 1
    <2>1. SavesIn(Append(s, t)) = SavesIn(s) \cup {n} /\ n \notin SavesIn(s)
        BY SMTT(40), <1>2, <1>4 DEF SavesIn
    <2> QED
        BY <2>1, SavesFinite, FS_AddElement
<1> QED
    BY <1>3, <1>4

LEMMA SavesTail ==
    ASSUME NEW s \in Seq(Task), s # <<>>
    PROVE  /\ Head(s).Close => Cardinality(SavesIn(Tail(s))) = Cardinality(SavesIn(s))
           /\ ~Head(s).Close => Cardinality(SavesIn(s)) = Cardinality(SavesIn(Tail(s))) + 1
<1>1. PICK n \in Nat : n = Len(s) /\ n # 0
    BY SeqLen, SeqEmpty
<1>2. /\ DOMAIN s = 1 .. n /\ DOMAIN Tail(s) = 1 .. n - 1
      /\ Head(s) = s[1]
      /\ \A i \in 1 .. n - 1 : Tail(s)[i] = s[i + 1]
      /\ Tail(s) \in Seq(Task)
    BY SMTT(40), <1>1, SeqLen, SeqHeadTail
<1>3. PICK A : A = SavesIn(Tail(s))
    OBVIOUS
<1>4. PICK B : B = SavesIn(s) \ {1}
    OBVIOUS
<1>5. PICK f : f = [i \in A |-> i + 1]
    OBVIOUS
<1>6. f \in [A -> B]
    BY SMTT(40), <1>2, <1>3, <1>4, <1>5 DEF SavesIn
<1>7. \A i, j \in A : f[i] = f[j] => i = j
    BY SMTT(40), <1>2, <1>3, <1>5 DEF SavesIn
<1>8. \A j \in B : \E i \in A : f[i] = j
    <2> SUFFICES ASSUME NEW j \in B PROVE \E i \in A : f[i] = j
        OBVIOUS
    <2>1. j \in 1 .. n /\ j # 1 /\ ~s[j].Close
        BY <1>2, <1>4 DEF SavesIn
    <2>2. j - 1 \in 1 .. n - 1 /\ (j - 1) + 1 = j
        BY SMTT(40), <2>1
    <2>3. j - 1 \in A
        BY <1>2, <1>3, <2>1, <2>2 DEF SavesIn
    <2> QED
        BY <1>5, <2>2, <2>3
<1>9. ExistsBijection(A, B)
    BY <1>6, <1>7, <1>8 DEF ExistsBijection, Bijection, Injection, IsInjective, Surjection
<1>10. IsFiniteSet(A) /\ Cardinality(A) \in Nat /\ IsFiniteSet(SavesIn(s))
    BY <1>2, <1>3, SavesFinite
<1>11. Cardinality(B) = Cardinality(A)
    BY <1>9, <1>10, FS_Bijection
<1>12. CASE Head(s).Close
    <2>1. 1 \notin SavesIn(s)
        BY <1>2, <1>12 DEF SavesIn
    <2>2. B = SavesIn(s)
        BY <1>4, <2>1
    <2> QED
        BY <1>3, <1>11, <1>12, <2>2
<1>13. CASE ~Head(s).Close
    <2>1. 1 \in SavesIn(s)
        BY SMTT(40), <1>1, <1>2, <1>13 DEF SavesIn
    <2>2. Cardinality(B) = Cardinality(SavesIn(s)) - 1
        BY <1>4, <1>10, <2>1, FS_RemoveElement
    <2>3. Cardinality(SavesIn(s)) \in Nat
        BY SavesFinite
    <2> QED
        BY SMTT(40), <1>3, <1>10, <1>11, <1>13, <2>2, <2>3
<1> QED
    BY <1>12, <1>13

\* The records written to each file, and those waiting for each marshaller.
Written(files) == [w \in DOMAIN files |-> Len(files[w]) - 1]
Waiting(chans) == [m \in Marshallers |-> Cardinality(SavesIn(chans[m]))]

LEMMA WaitingType ==
    ASSUME NEW c \in [Marshallers -> Seq(Task)]
    PROVE  /\ SumFunction(Waiting(c)) = SumFunctionOnSet(Waiting(c), Marshallers)
           /\ SumFunction(Waiting(c)) \in Nat
           /\ \A m \in Marshallers : /\ Waiting(c)[m] = Cardinality(SavesIn(c[m]))
                                     /\ Waiting(c)[m] \in Nat
           /\ IsFiniteSet(Marshallers)
<1>1. \A m \in Marshallers : c[m] \in Seq(Task)
    OBVIOUS
<1>2. /\ DOMAIN Waiting(c) = Marshallers
      /\ \A m \in Marshallers : /\ Waiting(c)[m] = Cardinality(SavesIn(c[m]))
                                /\ Waiting(c)[m] \in Nat
    BY <1>1, SavesFinite DEF Waiting
<1>3. SumFunction(Waiting(c)) = SumFunctionOnSet(Waiting(c), Marshallers)
    BY <1>2 DEF SumFunction
<1>4. NumMarshaller - 1 \in Int /\ 0 \in Int
    BY SMTT(40)
<1>5. IsFiniteSet(Marshallers)
    BY <1>4, FS_Interval DEF Marshallers
<1>6. SumFunctionOnSet(Waiting(c), Marshallers) \in Nat
    BY <1>2, <1>5, SumNat
<1> QED
    BY <1>2, <1>3, <1>5, <1>6

\* The channel of one marshaller changes.
LEMMA WaitingChange ==
    ASSUME NEW c \in [Marshallers -> Seq(Task)], NEW d \in [Marshallers -> Seq(Task)],
           NEW m \in Marshallers, \A k \in Marshallers \ {m} : d[k] = c[k]
    PROVE  SumFunction(Waiting(d)) + Cardinality(SavesIn(c[m]))
             = SumFunction(Waiting(c)) + Cardinality(SavesIn(d[m]))
<1>1. PICK f : f = Waiting(c)
    OBVIOUS
<1>2. PICK g : g = Waiting(d)
    OBVIOUS
<1>3. /\ SumFunction(Waiting(c)) = SumFunctionOnSet(f, Marshallers)
      /\ IsFiniteSet(Marshallers) /\ \A k \in Marshallers : f[k] \in Nat
      /\ f[m] = Cardinality(SavesIn(c[m]))
    BY <1>1, WaitingType
<1>4. /\ SumFunction(Waiting(d)) = SumFunctionOnSet(g, Marshallers)
      /\ g[m] = Cardinality(SavesIn(d[m])) /\ g[m] \in Nat
    BY <1>2, WaitingType
<1>5. \A k \in Marshallers \ {m} : g[k] = f[k]
    BY <1>1, <1>2 DEF Waiting
<1>6. SumFunctionOnSet(g, Marshallers) + f[m] = SumFunctionOnSet(f, Marshallers) + g[m]
    BY SMTT(40), <1>3, <1>4, <1>5, SumChange
<1> QED
    BY <1>3, <1>4, <1>6

LEMMA WaitingSent ==
    ASSUME NEW c \in [Marshallers -> Seq(Task)], NEW d \in [Marshallers -> Seq(Task)],
           NEW m \in Marshallers, NEW t \in Task, d[m] = Append(c[m], t),
           \A k \in Marshallers \ {m} : d[k] = c[k]
    PROVE  /\ SumFunction(Waiting(c)) \in Nat
           /\ t.Close => SumFunction(Waiting(d)) = SumFunction(Waiting(c))
           /\ ~t.Close => SumFunction(Waiting(d)) = SumFunction(Waiting(c)) + 1
<1>1. c[m] \in Seq(Task)
    OBVIOUS
<1>2. PICK a : a = Cardinality(SavesIn(c[m]))
    OBVIOUS
<1>3. PICK b : b = Cardinality(SavesIn(d[m]))
    OBVIOUS
<1>4. SumFunction(Waiting(d)) + a = SumFunction(Waiting(c)) + b
    BY <1>1, <1>2, <1>3, WaitingChange
<1>5. a \in Nat /\ SumFunction(Waiting(c)) \in Nat /\ SumFunction(Waiting(d)) \in Nat
    BY <1>1, <1>2, SavesFinite, WaitingType
<1>6. /\ t.Close => b = a
      /\ ~t.Close => b = a + 1
    BY <1>1, <1>2, <1>3, SavesAppend
<1> QED
    BY SMTT(40), <1>4, <1>5, <1>6

LEMMA WaitingTaken ==
    ASSUME NEW c \in [Marshallers -> Seq(Task)], NEW m \in Marshallers, c[m] # <<>>,
           NEW d, d = [c EXCEPT ![m] = Tail(@)]
    PROVE  /\ SumFunction(Waiting(d)) \in Nat
           /\ Head(c[m]).Close => SumFunction(Waiting(d)) = SumFunction(Waiting(c))
           /\ ~Head(c[m]).Close => SumFunction(Waiting(c)) = SumFunction(Waiting(d)) + 1
<1>1. c[m] \in Seq(Task) /\ Tail(c[m]) \in Seq(Task)
    BY SeqHeadTail
<1>2. /\ d[m] = Tail(c[m]) /\ \A k \in Marshallers \ {m} : d[k] = c[k]
      /\ d \in [Marshallers -> Seq(Task)]
    BY <1>1
<1>3. PICK a : a = Cardinality(SavesIn(c[m]))
    OBVIOUS
<1>4. PICK b : b = Cardinality(SavesIn(d[m]))
    OBVIOUS
<1>5. SumFunction(Waiting(d)) + a = SumFunction(Waiting(c)) + b
    BY <1>2, <1>3, <1>4, WaitingChange
<1>6. /\ a \in Nat /\ b \in Nat
      /\ SumFunction(Waiting(c)) \in Nat /\ SumFunction(Waiting(d)) \in Nat
    BY <1>1, <1>2, <1>3, <1>4, SavesFinite, WaitingType
<1>7. /\ Head(c[m]).Close => b = a
      /\ ~Head(c[m]).Close => a = b + 1
    BY <1>1, <1>2, <1>3, <1>4, SavesTail
<1> QED
    BY SMTT(40), <1>5, <1>6, <1>7

\* A file with a header and perhaps records.
Files == Seq(Seq(Record \cup HeaderRecord) \ {<<>>})

LEMMA WrittenType ==
    ASSUME NEW f \in Files
    PROVE  /\ SumFunction(Written(f)) = SumFunctionOnSet(Written(f), DOMAIN f)
           /\ SumFunction(Written(f)) \in Nat
           /\ \A w \in DOMAIN f : Written(f)[w] = Len(f[w]) - 1 /\ Written(f)[w] \in Nat
           /\ IsFiniteSet(DOMAIN f)
<1>1. \A w \in DOMAIN f : f[w] \in Seq(Record \cup HeaderRecord) /\ f[w] # <<>>
    BY SMTT(40) DEF Files
<1>2. \A w \in DOMAIN f : Len(f[w]) \in Nat \ {0}
    BY <1>1, SeqLen, SeqEmpty
<1>3. /\ DOMAIN Written(f) = DOMAIN f
      /\ \A w \in DOMAIN f : Written(f)[w] = Len(f[w]) - 1 /\ Written(f)[w] \in Nat
    BY SMTT(40), <1>2 DEF Written
<1>4. DOMAIN f = 1 .. Len(f) /\ Len(f) \in Int /\ 1 \in Int
    BY SMTT(40), SeqLen DEF Files
<1>5. IsFiniteSet(DOMAIN f)
    BY <1>4, FS_Interval
<1>6. SumFunction(Written(f)) = SumFunctionOnSet(Written(f), DOMAIN f)
    BY <1>3 DEF SumFunction
<1>7. SumFunctionOnSet(Written(f), DOMAIN f) \in Nat
    BY <1>3, <1>5, SumNat
<1> QED
    BY <1>3, <1>5, <1>6, <1>7

LEMMA SumAddZero ==
    ASSUME NEW f, NEW g, NEW S, IsFiniteSet(S), \A y \in S : f[y] \in Nat,
           NEW k, k \notin S, g[k] = 0, \A y \in S : g[y] = f[y]
    PROVE  SumFunctionOnSet(g, S \cup {k}) = SumFunctionOnSet(f, S)
<1>1. PICK T : T = S \cup {k}
    OBVIOUS
<1>2. IsFiniteSet(T) /\ T \ {k} = S /\ k \in T
    <2>1. IsFiniteSet(S \cup {k})
        BY FS_AddElement
    <2>2. T \ {k} = S /\ k \in T
        BY <1>1
    <2> QED
        BY <1>1, <2>1, <2>2
<1>3. \A y \in T : g[y] \in Nat
    BY SMTT(40), <1>1
<1>4. SumFunctionOnSet(g, T) = g[k] + SumFunctionOnSet(g, T \ {k})
    BY SMTT(40), <1>2, <1>3, SumSplit
<1>5. SumFunctionOnSet(f, S) = SumFunctionOnSet(g, S)
    BY SumSame
<1>6. SumFunctionOnSet(g, S) \in Nat
    BY <1>5, SumNat
<1>7. SumFunctionOnSet(g, T) = 0 + SumFunctionOnSet(g, S)
    BY <1>2, <1>4
<1>8. SumFunctionOnSet(g, T) = SumFunctionOnSet(g, S)
    BY SMTT(40), <1>6, <1>7
<1> QED
    BY <1>1, <1>5, <1>8

\* Rotate opens a file and writes its header.
LEMMA WrittenRotate ==
    ASSUME NEW f \in Files, NEW h \in HeaderRecord, NEW g, g = Append(f, <<h>>)
    PROVE  g \in Files /\ SumFunction(Written(g)) = SumFunction(Written(f))
<1>1. <<h>> \in Seq(Record \cup HeaderRecord) \ {<<>>} /\ Len(<<h>>) = 1
    BY SMTT(40)
<1>2. g \in Files
    BY SMTT(40), <1>1 DEF Files
<1>3. PICK n \in Nat : n = Len(f) + 1
    BY SMTT(40), SeqLen DEF Files
<1>4. /\ DOMAIN f = 1 .. n - 1 /\ DOMAIN g = 1 .. n /\ g[n] = <<h>>
      /\ \A w \in 1 .. n - 1 : g[w] = f[w]
    BY SMTT(40), <1>1, <1>3, SeqLen, SeqAppend DEF Files
<1>5. DOMAIN f \cup {n} = DOMAIN g /\ n \notin DOMAIN f
    BY SMTT(40), <1>4
<1>6. PICK a : a = Written(f)
    OBVIOUS
<1>7. PICK b : b = Written(g)
    OBVIOUS
<1>8. /\ IsFiniteSet(DOMAIN f) /\ \A w \in DOMAIN f : a[w] \in Nat
      /\ SumFunction(a) = SumFunctionOnSet(a, DOMAIN f)
      /\ SumFunction(a) \in Nat
    BY <1>6, WrittenType
<1>9. b[n] = 0 /\ SumFunction(b) = SumFunctionOnSet(b, DOMAIN g)
    <2>1. /\ \A w \in DOMAIN g : b[w] = Len(g[w]) - 1
          /\ SumFunction(b) = SumFunctionOnSet(b, DOMAIN g)
        BY <1>2, <1>7, WrittenType
    <2>2. n \in DOMAIN g /\ Len(g[n]) = 1
        BY <1>1, <1>4, <1>5
    <2>3. b[n] = Len(g[n]) - 1
        BY <2>1, <2>2
    <2>4. b[n] = 0
        BY SMTT(40), <2>2, <2>3
    <2> QED
        BY <2>1, <2>4
<1>10. \A w \in DOMAIN f : b[w] = a[w]
    BY SMTT(40), <1>4, <1>6, <1>7 DEF Written
<1>11. SumFunctionOnSet(b, DOMAIN f \cup {n}) = SumFunctionOnSet(a, DOMAIN f)
    <2>1. PICK S : S = DOMAIN f
        OBVIOUS
    <2>2. IsFiniteSet(S) /\ (\A y \in S : a[y] \in Nat) /\ n \notin S /\ b[n] = 0
        BY <1>5, <1>8, <1>9, <2>1
    <2>3. \A y \in S : b[y] = a[y]
        BY <1>10, <2>1
    <2>4. SumFunctionOnSet(b, S \cup {n}) = SumFunctionOnSet(a, S)
        BY SMTT(40), <2>2, <2>3, SumAddZero
    <2> QED
        BY <2>1, <2>4
<1> QED
    BY <1>2, <1>5, <1>6, <1>7, <1>8, <1>9, <1>11

\* A marshaller writes a record.
LEMMA WrittenSave ==
    ASSUME NEW f \in Files, NEW w \in DOMAIN f, NEW r \in Record,
           NEW g, g = [f EXCEPT ![w] = Append(@, r)]
    PROVE  g \in Files /\ SumFunction(Written(g)) = SumFunction(Written(f)) + 1
<1>1. /\ f[w] \in Seq(Record \cup HeaderRecord)
      /\ Append(f[w], r) \in Seq(Record \cup HeaderRecord) \ {<<>>}
      /\ Len(Append(f[w], r)) = Len(f[w]) + 1 /\ Len(f[w]) \in Nat
    BY SMTT(40), SeqLen, SeqAppend DEF Files
<1>2. g \in Files
    <2>1. PICK S : S = Seq(Record \cup HeaderRecord) \ {<<>>}
        OBVIOUS
    <2>2. f \in Seq(S) /\ Append(f[w], r) \in S
        BY <1>1, <2>1 DEF Files
    <2>3. w \in 1 .. Len(f)
        BY <2>2, SeqLen
    <2>4. g = [f EXCEPT ![w] = Append(f[w], r)]
        OBVIOUS
    <2>5. g \in Seq(S)
        BY SMTT(40), <2>2, <2>3, <2>4
    <2> QED
        BY <2>1, <2>5 DEF Files
<1>3. /\ DOMAIN g = DOMAIN f /\ g[w] = Append(f[w], r)
      /\ \A v \in DOMAIN f \ {w} : g[v] = f[v]
    OBVIOUS
<1>4. PICK a : a = Written(f)
    OBVIOUS
<1>5. PICK b : b = Written(g)
    OBVIOUS
<1>6. /\ IsFiniteSet(DOMAIN f) /\ \A v \in DOMAIN f : a[v] \in Nat
      /\ SumFunction(a) = SumFunctionOnSet(a, DOMAIN f)
      /\ SumFunction(a) \in Nat /\ a[w] = Len(f[w]) - 1
    BY <1>4, WrittenType
<1>7. /\ b[w] = Len(g[w]) - 1 /\ b[w] \in Nat
      /\ SumFunction(b) = SumFunctionOnSet(b, DOMAIN f)
    BY <1>2, <1>3, <1>5, WrittenType
<1>8. \A v \in DOMAIN f \ {w} : b[v] = a[v]
    BY <1>3, <1>4, <1>5 DEF Written
<1>9. /\ SumFunctionOnSet(b, DOMAIN f) \in Nat
      /\ SumFunctionOnSet(b, DOMAIN f) + a[w] = SumFunctionOnSet(a, DOMAIN f) + b[w]
    <2>1. PICK S : S = DOMAIN f
        OBVIOUS
    <2>2. /\ IsFiniteSet(S) /\ w \in S /\ b[w] \in Nat /\ \A v \in S : a[v] \in Nat
          /\ \A v \in S \ {w} : b[v] = a[v]
        BY <1>6, <1>7, <1>8, <2>1
    <2>3. SumFunctionOnSet(b, S) \in Nat
        BY <2>2, SumChange
    <2>4. SumFunctionOnSet(b, S) + a[w] = SumFunctionOnSet(a, S) + b[w]
        BY SMTT(40), <2>2, SumChange
    <2> QED
        BY <2>1, <2>3, <2>4
<1>10. b[w] = a[w] + 1
    BY SMTT(40), <1>1, <1>3, <1>6, <1>7
<1> QED
    <2>1. PICK x, y : x = SumFunction(a) /\ y = SumFunction(b)
        OBVIOUS
    <2>2. PICK i, j : i = a[w] /\ j = b[w]
        OBVIOUS
    <2>3. x \in Nat /\ y \in Nat /\ i \in Nat /\ j = i + 1 /\ y + i = x + j
        BY <1>6, <1>7, <1>9, <1>10, <2>1, <2>2
    <2>4. y = x + 1
        BY SMTT(40), <2>3
    <2> QED
        BY <1>2, <1>4, <1>5, <2>1, <2>4

\* A socket whose records can be logged.
Loggable == {d \in InetDiagMsg : d.Cookie # 0 /\ d.Family \in {AF_INET, AF_INET6}}

\* What is queued can be logged.
QueuedInv ==
    /\ pc \in Queueing => pm.RawIDM \in Loggable
    /\ \A m \in Marshallers : \A i \in DOMAIN marshalChan[m] :
          ~marshalChan[m][i].Close => marshalChan[m][i].Message.RawIDM \in Loggable

LEMMA QueuedInit == Init => QueuedInv
<1> SUFFICES ASSUME Init PROVE QueuedInv
    OBVIOUS
<1>1. pc \notin Queueing
    BY DEF Init, Queueing
<1>2. \A m \in Marshallers : DOMAIN marshalChan[m] = {}
    BY SMTT(40) DEF Init
<1> QED
    BY <1>1, <1>2 DEF QueuedInv

LEMMA QueuedSent ==
    ASSUME TypeInv, QueuedInv, NEW m \in Marshallers, NEW t \in Task, Send(m, t),
           t.Close \/ t.Message.RawIDM \in Loggable,
           pc' \in Queueing => pc \in Queueing /\ pm' = pm
    PROVE  QueuedInv'
<1>1. \A k \in Marshallers : \A i \in DOMAIN marshalChan'[k] :
         \/ i \in DOMAIN marshalChan[k] /\ marshalChan'[k][i] = marshalChan[k][i]
         \/ marshalChan'[k][i] = t
    BY SendTasks
<1> QED
    BY <1>1 DEF QueuedInv

LEMMA QueuedEndConn ==
    ASSUME TypeInv, QueuedInv, NEW c \in Nat, endConn(c), pc' \notin Queueing
    PROVE  QueuedInv'
<1>1. CASE UNCHANGED marshalChan
    BY <1>1 DEF QueuedInv
<1>2. CASE c \in DOMAIN connections /\ Send(MarshallerOf(c), CloseTask(connections[c].Writer))
           /\ connections[c].Writer # NilWriter
    <2>1. /\ MarshallerOf(c) \in Marshallers /\ CloseTask(connections[c].Writer) \in Task
          /\ CloseTask(connections[c].Writer).Close
        BY <1>2, MarshallerOfType
           DEF CloseTask, Task, Connection, TypeInv, TypeOK, WriterTypeOK
    <2> QED
        BY <1>2, <2>1, QueuedSent
<1> QED
    BY <1>1, <1>2 DEF endConn

LEMMA QueuedStep ==
    ASSUME TypeInv, DeliveredInv(Loggable), QueuedInv, [Next]_vars
    PROVE  QueuedInv'
<1>1. CASE UNCHANGED marshalChan /\ (pc' \in Queueing => pc \in Queueing /\ pm' = pm)
    BY <1>1 DEF QueuedInv
<1>2. CASE HandleRecord
    <2>1. UNCHANGED marshalChan
        BY <1>2 DEF HandleRecord
    <2>2. pm'.RawIDM \in Loggable \/ pc' = "handle"
        <3>1. PICK ar : /\ ar = MakeArchivalRecord(Head(work).Message, Head(work).Time)
                        /\ SwapNew(ar) \/ SwapChanged(ar) \/ SwapSame(ar)
            BY <1>2 DEF HandleRecord
        <3>2. ar.RawIDM \in Loggable
            BY <1>2, <3>1, DeliveredHead DEF HandleRecord
        <3>3. pm' = ar \/ pc' = pc
            BY <3>1 DEF SwapNew, SwapChanged, SwapSame
        <3> QED
            BY <1>2, <3>2, <3>3 DEF HandleRecord
    <2>3. pc' \in Queueing => pm'.RawIDM \in Loggable
        BY <2>2 DEF Queueing
    <2> QED
        BY <2>1, <2>3 DEF QueuedInv
<1>3. CASE Receive \/ SkipMessage \/ FinishRound \/ Retire \/ Report \/ CloseBegin
             \/ CloseConn \/ CloseEnd
    BY <1>1, <1>3 DEF Receive, SkipMessage, FinishRound, Retire, Report, CloseBegin,
                      CloseConn, CloseEnd, Queueing
<1>4. CASE QueueReject \/ QueueLookup \/ QueueKeep \/ Rotate \/ RotateFails
    BY <1>1, <1>4 DEF QueueReject, QueueLookup, QueueKeep, Rotate, RotateFails, Queueing
<1>5. CASE QueueExpire
    <2>1. pc \in Queueing /\ pc # "queue" /\ conn.Writer # NilWriter
        BY <1>5 DEF QueueExpire, Queueing, Expired
    <2>2. /\ MarshallerOf(pm.RawIDM.Cookie) \in Marshallers /\ CloseTask(conn.Writer) \in Task
          /\ CloseTask(conn.Writer).Close
        BY <2>1, QueueTypes DEF CloseTask, Task, Connection
    <2>3. Send(MarshallerOf(pm.RawIDM.Cookie), CloseTask(conn.Writer)) /\ pm' = pm
        BY <1>5 DEF QueueExpire
    <2> QED
        BY <2>1, <2>2, <2>3, QueuedSent
<1>6. CASE QueueSend
    <2>1. pc \in Queueing /\ pc # "queue" /\ conn.Writer # NilWriter
        BY <1>6 DEF QueueSend, Queueing, TypeInv, QueueOK
    <2>2. /\ MarshallerOf(pm.RawIDM.Cookie) \in Marshallers
          /\ SaveTask(pm, conn.Writer) \in Task
          /\ SaveTask(pm, conn.Writer).Message.RawIDM \in Loggable
        BY <2>1, QueueTypes DEF SaveTask, Task, Connection, QueuedInv
    <2>3. Send(MarshallerOf(pm.RawIDM.Cookie), SaveTask(pm, conn.Writer)) /\ pc' \notin Queueing
        BY <1>6 DEF QueueSend, Queueing
    <2> QED
        BY <2>1, <2>2, <2>3, QueuedSent
<1>7. CASE EndRetired \/ EndClosed
    <2>1. ending \in Nat /\ endConn(ending) /\ pc' \notin Queueing
        BY <1>7 DEF EndRetired, EndClosed, Queueing, TypeInv, TypeOK, RoundTypeOK
    <2> QED
        BY <2>1, QueuedEndConn
<1>8. CASE Tick \/ SendBlock \/ CloseReader \/ Finished \/ UNCHANGED vars
    BY <1>1, <1>8 DEF Tick, SendBlock, CloseReader, Finished, vars
<1>9. ASSUME NEW m \in Marshallers, Marshaller(m) PROVE QueuedInv'
    <2>1. CASE MarshalExit(m)
        BY <1>1, <2>1 DEF MarshalExit
    <2>2. CASE MarshalClose(m) \/ MarshalSave(m)
        <3>1. /\ marshalChan[m] # <<>> /\ marshalChan' = [marshalChan EXCEPT ![m] = Tail(@)]
              /\ UNCHANGED <<pc, pm>>
            BY <2>2 DEF MarshalClose, MarshalSave
        <3>2. \A k \in Marshallers : \A i \in DOMAIN marshalChan'[k] :
                 \E j \in DOMAIN marshalChan[k] : marshalChan'[k][i] = marshalChan[k][j]
            <4>1. \A k \in Marshallers : k # m => marshalChan'[k] = marshalChan[k]
                BY <3>1, TailTasks
            <4>2. \A i \in DOMAIN marshalChan'[m] :
                     i + 1 \in DOMAIN marshalChan[m] /\ marshalChan'[m][i] = marshalChan[m][i + 1]
                BY <3>1, TailTasks
            <4> QED
                BY <4>1, <4>2
        <3> QED
            BY SMTT(40), <3>1, <3>2 DEF QueuedInv
    <2> QED
        BY <1>9, <2>1, <2>2 DEF Marshaller
<1> QED
    BY <1>2, <1>3, <1>4, <1>5, <1>6, <1>7, <1>8, <1>9 DEF Next, SaverStep

Unsaved == IF pc \in Queueing THEN 1 ELSE 0

\* Every file has its header, and every snapshot counted is in the hands of
\* queue, waits for a marshaller or is in a file.
SnapshotInv ==
    /\ lines \in Files
    /\ SumFunction(Written(lines)) + SumFunction(Waiting(marshalChan)) + Unsaved
         = stats.New + stats.Diff

LEMMA SnapshotTypes ==
    ASSUME TypeInv, SnapshotInv
    PROVE  /\ marshalChan \in [Marshallers -> Seq(Task)]
           /\ SumFunction(Written(lines)) \in Nat
           /\ SumFunction(Waiting(marshalChan)) \in Nat
           /\ stats.New \in Nat /\ stats.Diff \in Nat
           /\ Unsaved \in {0, 1}
<1>1. marshalChan \in [Marshallers -> Seq(Task)]
    BY DEF TypeInv, TypeOK, WriterTypeOK
<1>2. SumFunction(Waiting(marshalChan)) \in Nat
    BY <1>1, WaitingType
<1>3. SumFunction(Written(lines)) \in Nat
    BY WrittenType DEF SnapshotInv
<1>4. stats.New \in Nat /\ stats.Diff \in Nat
    BY DEF TypeInv, TypeOK, CountTypeOK
<1> QED
    BY <1>1, <1>2, <1>3, <1>4 DEF Unsaved

LEMMA SnapshotInit == Init => SnapshotInv
<1> SUFFICES ASSUME Init PROVE SnapshotInv
    OBVIOUS
<1>1. lines = <<>> /\ lines \in Files
    BY SMTT(40) DEF Init, Files
<1>2. SumFunction(Written(lines)) = 0
    <2>1. DOMAIN lines = {}
        BY SMTT(40), <1>1
    <2> QED
        BY <1>1, <2>1, WrittenType, SumEmpty
<1>3. SumFunction(Waiting(marshalChan)) = 0
    <2>1. marshalChan \in [Marshallers -> Seq(Task)]
        BY SMTT(40) DEF Init
    <2>2. \A m \in Marshallers : SavesIn(marshalChan[m]) = {}
        BY SMTT(40) DEF Init, SavesIn
    <2>3. \A m \in Marshallers : Waiting(marshalChan)[m] = 0
        BY <2>1, <2>2, WaitingType, FS_EmptySet
    <2> QED
        BY <2>1, <2>3, WaitingType, SumZero
<1>4. Unsaved = 0 /\ stats.New = 0 /\ stats.Diff = 0
    BY DEF Init, Unsaved, Queueing
<1> QED
    BY SMTT(40), <1>1, <1>2, <1>3, <1>4 DEF SnapshotInv

LEMMA SnapshotFrame ==
    ASSUME SnapshotInv, UNCHANGED <<lines, marshalChan>>,
           stats'.New = stats.New, stats'.Diff = stats.Diff,
           pc' \in Queueing <=> pc \in Queueing
    PROVE  SnapshotInv'
<1>1. Unsaved' = Unsaved
    BY DEF Unsaved
<1> QED
    BY <1>1 DEF SnapshotInv

LEMMA SnapshotHandleRecord ==
    ASSUME TypeInv, SnapshotInv, HandleRecord
    PROVE  SnapshotInv'
<1>1. pc \notin Queueing /\ UNCHANGED <<lines, marshalChan>>
    BY DEF HandleRecord, Queueing
<1>2. stats \in [Total : Nat, New : Nat, Diff : Nat, Expired : Nat]
    BY DEF TypeInv, TypeOK, CountTypeOK
<1>3. PICK ar : SwapNew(ar) \/ SwapChanged(ar) \/ SwapSame(ar)
    BY DEF HandleRecord
<1>4. CASE SwapSame(ar)
    BY <1>1, <1>2, <1>4, SnapshotFrame DEF SwapSame, Inc
<1>5. CASE SwapNew(ar) \/ SwapChanged(ar)
    <2>1. pc' \in Queueing /\ stats'.New + stats'.Diff = stats.New + stats.Diff + 1
        BY SMTT(40), <1>2, <1>5 DEF SwapNew, SwapChanged, Inc, Queueing
    <2>2. Unsaved = 0 /\ Unsaved' = 1
        BY <1>1, <2>1 DEF Unsaved
    <2> QED
        BY SMTT(40), <1>1, <2>1, <2>2, SnapshotTypes DEF SnapshotInv
<1> QED
    BY <1>3, <1>4, <1>5

\* Sending a close task moves no snapshot.
LEMMA SnapshotCloseSent ==
    ASSUME TypeInv, SnapshotInv, NEW m \in Marshallers, NEW t \in Task, t.Close, Send(m, t),
           UNCHANGED lines, stats'.New = stats.New, stats'.Diff = stats.Diff,
           pc' \in Queueing <=> pc \in Queueing
    PROVE  SnapshotInv'
<1>1. PICK d : d = marshalChan'
    OBVIOUS
<1>2. d = [marshalChan EXCEPT ![m] = Append(@, t)]
    BY <1>1 DEF Send
<1>3. SumFunction(Waiting(d)) = SumFunction(Waiting(marshalChan))
    <2>1. PICK c \in [Marshallers -> Seq(Task)] : c = marshalChan
        BY SnapshotTypes
    <2>2. /\ d \in [Marshallers -> Seq(Task)] /\ d[m] = Append(c[m], t)
          /\ \A k \in Marshallers \ {m} : d[k] = c[k]
        BY SMTT(40), <1>2, <2>1
    <2>3. SumFunction(Waiting(d)) = SumFunction(Waiting(c))
        BY <2>1, <2>2, WaitingSent
    <2> QED
        BY <2>1, <2>3
<1>4. Unsaved' = Unsaved
    BY DEF Unsaved
<1> QED
    BY <1>1, <1>3, <1>4 DEF SnapshotInv

LEMMA SnapshotEndConn ==
    ASSUME TypeInv, SnapshotInv, NEW c \in Nat, endConn(c), UNCHANGED lines,
           stats'.New = stats.New, stats'.Diff = stats.Diff,
           pc' \in Queueing <=> pc \in Queueing
    PROVE  SnapshotInv'
<1>1. CASE UNCHANGED marshalChan
    BY <1>1, SnapshotFrame
<1>2. CASE c \in DOMAIN connections /\ Send(MarshallerOf(c), CloseTask(connections[c].Writer))
           /\ connections[c].Writer # NilWriter
    <2>1. /\ MarshallerOf(c) \in Marshallers /\ CloseTask(connections[c].Writer) \in Task
          /\ CloseTask(connections[c].Writer).Close
        BY <1>2, MarshallerOfType
           DEF CloseTask, Task, Connection, TypeInv, TypeOK, WriterTypeOK
    <2> QED
        BY <1>2, <2>1, SnapshotCloseSent
<1> QED
    BY <1>1, <1>2 DEF endConn

LEMMA SnapshotQueue ==
    ASSUME TypeInv, SnapshotInv, QueueExpire \/ Rotate \/ QueueSend
    PROVE  SnapshotInv'
<1>1. pc \in Queueing /\ pc # "queue" /\ UNCHANGED stats
    BY DEF QueueExpire, Rotate, QueueSend, Queueing
<1>2. MarshallerOf(pm.RawIDM.Cookie) \in Marshallers /\ conn \in Connection /\ pm \in Record
    BY <1>1, QueueTypes
<1>3. CASE QueueExpire
    <2>1. CloseTask(conn.Writer) \in Task /\ CloseTask(conn.Writer).Close
        BY <1>2, <1>3 DEF QueueExpire, Expired, CloseTask, Task, Connection
    <2>2. pc' \in Queueing /\ UNCHANGED lines
        BY <1>3 DEF QueueExpire, Queueing
    <2>3. Send(MarshallerOf(pm.RawIDM.Cookie), CloseTask(conn.Writer))
        BY <1>3 DEF QueueExpire
    <2> QED
        BY <1>1, <1>2, <2>1, <2>2, <2>3, SnapshotCloseSent
<1>4. CASE Rotate
    <2>1. Header \in HeaderRecord
        BY <1>2 DEF Header, HeaderRecord, Connection
    <2>2. PICK g : g = lines' /\ g = Append(lines, <<Header>>)
        BY <1>4 DEF Rotate
    <2>3. g \in Files /\ SumFunction(Written(g)) = SumFunction(Written(lines))
        BY <2>1, <2>2, WrittenRotate DEF SnapshotInv
    <2>4. Unsaved' = Unsaved /\ UNCHANGED marshalChan
        BY <1>1, <1>4 DEF Rotate, Unsaved, Queueing
    <2> QED
        BY <1>1, <2>2, <2>3, <2>4 DEF SnapshotInv
<1>5. CASE QueueSend
    <2>1. PICK m \in Marshallers : m = MarshallerOf(pm.RawIDM.Cookie)
        BY <1>2
    <2>2. PICK t \in Task : t = SaveTask(pm, conn.Writer) /\ ~t.Close
        <3>1. conn.Writer \in Nat \ {NilWriter}
            BY <1>2, <1>5 DEF QueueSend, TypeInv, QueueOK, Connection
        <3>2. SaveTask(pm, conn.Writer) \in Task
            BY <1>2, <3>1 DEF SaveTask, Task
        <3>3. ~SaveTask(pm, conn.Writer).Close
            BY DEF SaveTask
        <3> QED
            BY <3>2, <3>3
    <2>3. PICK d : d = marshalChan' /\ d = [marshalChan EXCEPT ![m] = Append(@, t)]
        BY <1>5, <2>1, <2>2 DEF QueueSend, Send
    <2>4. SumFunction(Waiting(d)) = SumFunction(Waiting(marshalChan)) + 1
        <3>1. PICK c \in [Marshallers -> Seq(Task)] : c = marshalChan
            BY SnapshotTypes
        <3>2. /\ d \in [Marshallers -> Seq(Task)] /\ d[m] = Append(c[m], t)
              /\ \A k \in Marshallers \ {m} : d[k] = c[k]
            BY SMTT(40), <2>3, <3>1
        <3>3. m \in Marshallers /\ t \in Task /\ ~t.Close /\ c \in [Marshallers -> Seq(Task)]
            BY <2>1, <2>2, <3>1
        <3>4. SumFunction(Waiting(d)) = SumFunction(Waiting(c)) + 1
            BY <3>2, <3>3, WaitingSent
        <3> QED
            BY <3>1, <3>4
    <2>5. Unsaved = 1 /\ Unsaved' = 0 /\ UNCHANGED lines
        BY <1>1, <1>5 DEF QueueSend, Unsaved, Queueing
    <2>6. SumFunction(Written(lines)) + SumFunction(Waiting(d)) + 0 = stats.New + stats.Diff
        BY SMTT(40), <2>4, <2>5, SnapshotTypes DEF SnapshotInv
    <2> QED
        BY <1>1, <2>3, <2>5, <2>6 DEF SnapshotInv
<1> QED
    BY <1>3, <1>4, <1>5

LEMMA SnapshotMarshaller ==
    ASSUME TypeInv, NoUseAfterClose, QueuedInv, SnapshotInv,
           NEW m \in Marshallers, Marshaller(m)
    PROVE  SnapshotInv'
<1>1. UNCHANGED <<stats, pc>>
    BY DEF Marshaller, MarshalExit, MarshalClose, MarshalSave
<1>2. CASE MarshalExit(m)
    BY <1>2, SnapshotFrame DEF MarshalExit
<1>3. Unsaved' = Unsaved
    BY <1>1 DEF Unsaved
<1>4. CASE MarshalClose(m)
    <2>1. PICK d : d = marshalChan' /\ d = [marshalChan EXCEPT ![m] = Tail(@)]
        BY <1>4 DEF MarshalClose
    <2>2. SumFunction(Waiting(d)) = SumFunction(Waiting(marshalChan))
        BY <1>4, <2>1, WaitingTaken, SnapshotTypes DEF MarshalClose
    <2>3. UNCHANGED lines
        BY <1>4 DEF MarshalClose
    <2> QED
        BY <1>1, <1>3, <2>1, <2>2, <2>3 DEF SnapshotInv
<1>5. CASE MarshalSave(m)
    <2>1. PICK d : d = marshalChan' /\ d = [marshalChan EXCEPT ![m] = Tail(@)]
        BY <1>5 DEF MarshalSave
    <2>2. /\ SumFunction(Waiting(d)) \in Nat
          /\ SumFunction(Waiting(marshalChan)) = SumFunction(Waiting(d)) + 1
        BY <1>5, <2>1, WaitingTaken, SnapshotTypes DEF MarshalSave
    <2>3. PICK t \in Task : t = Head(marshalChan[m]) /\ ~t.Close
        BY <1>5, MarshalHead DEF MarshalSave
    <2>4. marshalChan[m] # <<>> /\ 1 \in DOMAIN marshalChan[m] /\ t = marshalChan[m][1]
        BY <1>5, <2>1, <2>3, TailTasks DEF MarshalSave
    <2>5. t.Writer \in DOMAIN writers /\ writers[t.Writer].Open
        BY <2>4 DEF NoUseAfterClose
    <2>6. t.Message \in Record /\ t.Message.RawIDM \in Loggable
        BY <2>3, <2>4 DEF QueuedInv, Task
    <2>7. CanAnonymize(t.Message)
        BY <2>6 DEF Loggable, CanAnonymize
    <2>8. PICK r \in Record : r = Anonymize(t.Message, Anonymizer)
        BY <2>6, AnonymizeKeeps
    <2>9. PICK g : g = lines' /\ g = [lines EXCEPT ![t.Writer] = Append(@, r)]
        BY <1>5, <2>3, <2>5, <2>7, <2>8 DEF MarshalSave
    <2>10. DOMAIN lines = DOMAIN writers
        BY SeqLen DEF TypeInv, TypeOK, WriterTypeOK
    <2>11. g \in Files /\ SumFunction(Written(g)) = SumFunction(Written(lines)) + 1
        <3>1. PICK f \in Files : f = lines
            BY DEF SnapshotInv
        <3>2. PICK w \in DOMAIN f : w = t.Writer
            BY <2>5, <2>10, <3>1
        <3>3. g = [f EXCEPT ![w] = Append(@, r)]
            BY <2>9, <3>1, <3>2
        <3>4. g \in Files
            BY <3>3, WrittenSave
        <3>5. SumFunction(Written(g)) = SumFunction(Written(f)) + 1
            BY <3>3, WrittenSave
        <3> QED
            BY <3>1, <3>4, <3>5
    <2>12. SumFunction(Written(g)) + SumFunction(Waiting(d)) + Unsaved = stats.New + stats.Diff
        BY SMTT(40), <2>2, <2>11, SnapshotTypes DEF SnapshotInv
    <2> QED
        BY <1>1, <1>3, <2>1, <2>9, <2>11, <2>12 DEF SnapshotInv
<1> QED
    BY <1>2, <1>4, <1>5 DEF Marshaller

LEMMA SnapshotStep ==
    ASSUME TypeInv, NoUseAfterClose, QueuedInv, SnapshotInv, ~CreateMayFail, [Next]_vars
    PROVE  SnapshotInv'
<1>1. CASE Receive \/ SkipMessage \/ FinishRound \/ Retire \/ Report \/ CloseBegin
             \/ CloseConn \/ CloseEnd
    BY <1>1, SnapshotFrame DEF Receive, SkipMessage, FinishRound, Retire, Report,
                               CloseBegin, CloseConn, CloseEnd, Queueing
<1>2. CASE QueueReject \/ RotateFails
    <2>1. pc \in Queueing => pm.RawIDM.Cookie # 0
        BY DEF QueuedInv, Loggable
    <2> QED
        BY <1>2, <2>1 DEF QueueReject, RotateFails, Queueing
<1>3. CASE QueueLookup \/ QueueKeep
    BY <1>3, SnapshotFrame DEF QueueLookup, QueueKeep, Queueing
<1>4. CASE EndRetired \/ EndClosed
    <2>1. /\ ending \in Nat /\ endConn(ending) /\ UNCHANGED lines
          /\ pc' \notin Queueing /\ pc \notin Queueing
        BY <1>4 DEF EndRetired, EndClosed, Queueing, TypeInv, TypeOK, RoundTypeOK
    <2>2. stats'.New = stats.New /\ stats'.Diff = stats.Diff
        BY <1>4 DEF EndRetired, EndClosed, Inc, TypeInv, TypeOK, CountTypeOK
    <2> QED
        BY <2>1, <2>2, SnapshotEndConn
<1>5. CASE Tick \/ SendBlock \/ CloseReader \/ Finished \/ UNCHANGED vars
    BY <1>5, SnapshotFrame DEF Tick, SendBlock, CloseReader, Finished, vars
<1> QED
    BY <1>1, <1>2, <1>3, <1>4, <1>5, SnapshotHandleRecord, SnapshotQueue, SnapshotMarshaller
       DEF Next, SaverStep

LEMMA SnapshotsWritten ==
    ASSUME TypeInv, ExitInv, SnapshotInv
    PROVE  SnapshotsOnDisk
<1> SUFFICES ASSUME done = 0
             PROVE  SumFunction(Written(lines)) = stats.New + stats.Diff
    BY DEF SnapshotsOnDisk, Written
<1>1. pc = "done" /\ \A m \in Marshallers : marshalChan[m] = <<>>
    BY ExitDrained
<1>2. Unsaved = 0
    BY <1>1 DEF Unsaved, Queueing
<1>3. SumFunction(Waiting(marshalChan)) = 0
    <2>1. marshalChan \in [Marshallers -> Seq(Task)]
        BY SnapshotTypes
    <2>2. \A m \in Marshallers : SavesIn(marshalChan[m]) = {}
        BY SMTT(40), <1>1 DEF SavesIn
    <2>3. \A m \in Marshallers : Waiting(marshalChan)[m] = 0
        BY <2>1, <2>2, WaitingType, FS_EmptySet
    <2> QED
        BY <2>1, <2>3, WaitingType, SumZero
<1> QED
    BY SMTT(40), <1>2, <1>3, SnapshotTypes DEF SnapshotInv

LEMMA QueuedInvariant ==
    ASSUME BlocksAbout(Loggable)
    PROVE  Spec => [](DeliveredInv(Loggable) /\ QueuedInv)
<1>1. Init => DeliveredInv(Loggable) /\ QueuedInv
    BY DeliveredInit, QueuedInit
<1>2. TypeInv /\ DeliveredInv(Loggable) /\ QueuedInv /\ [Next]_vars
        => (DeliveredInv(Loggable) /\ QueuedInv)'
    <2> SUFFICES ASSUME TypeInv, DeliveredInv(Loggable), QueuedInv, [Next]_vars
                 PROVE  (DeliveredInv(Loggable) /\ QueuedInv)'
        OBVIOUS
    <2>1. DeliveredInv(Loggable)'
        BY DeliveredStep, DeliveredSendBlock DEF Next
    <2> QED
        BY <2>1, QueuedStep
<1> QED
    BY <1>1, <1>2, TypeInvariant, PTL DEF Spec

(***************************************************************************)
(* Where files can be created and the kernel reports TCP sockets with      *)
(* their cookies, no snapshot counted by swapAndQueue is lost between the  *)
(* saver and the files: when Done.Wait returns, the files hold exactly as  *)
(* many records as IncNewCount and IncDiffCount have counted.              *)
(***************************************************************************)
THEOREM AllSnapshotsWritten ==
    ASSUME ~CreateMayFail, BlocksAbout(Loggable)
    PROVE  Spec => []SnapshotsOnDisk
<1>1. TypeInv /\ ExitInv /\ SnapshotInv => SnapshotsOnDisk
    BY SnapshotsWritten
<1>2. WriterInv => NoUseAfterClose
    BY DEF WriterInv
<1>3. TypeInv /\ NoUseAfterClose /\ QueuedInv /\ SnapshotInv /\ [Next]_vars => SnapshotInv'
    BY SnapshotStep
<1> QED
    BY <1>1, <1>2, <1>3, SnapshotInit, QueuedInvariant, ExitInit, ExitStep, TypeInvariant,
       WriterInvariant, PTL DEF Spec

-----------------------------------------------------------------------------
(* The record last queued for a connection. *)

WaitingFor(s, w) == {i \in DOMAIN s : s[i].Writer = w}

\* r is the last record on the way to writer w, which is behind channel s and
\* has the file f.
IsLast(s, f, w, r) ==
    \/ \E i \in WaitingFor(s, w) : r = s[i].Message /\ \A j \in WaitingFor(s, w) : j <= i
    \/ WaitingFor(s, w) = {} /\ r = f[Len(f)]

LEMMA LastUnique ==
    ASSUME TypeInv, NEW m \in Marshallers, NEW w, NEW r, IsLast(marshalChan[m], lines[w], w, r)
    PROVE  LastQueued(w, m) = r
<1>1. PICK s \in Seq(Task) : s = marshalChan[m]
    BY DEF TypeInv, TypeOK, WriterTypeOK
<1>2. PICK P : P = WaitingFor(s, w)
    OBVIOUS
<1>3. P = {i \in DOMAIN marshalChan[m] : marshalChan[m][i].Writer = w}
    BY <1>1, <1>2 DEF WaitingFor
<1>4. CASE P = {}
    BY <1>1, <1>2, <1>3, <1>4 DEF IsLast, LastQueued
<1>5. CASE P # {}
    <2>1. PICK i \in P : r = s[i].Message /\ \A j \in P : j <= i
        BY <1>1, <1>2, <1>5 DEF IsLast
    <2>2. Len(s) \in Nat /\ P \subseteq 0 .. Len(s)
        BY SMTT(40), <1>2, SeqLen DEF WaitingFor
    <2>3. Max(P) \in P /\ \A x \in P : Max(P) >= x
        BY <1>5, <2>2, MaxOfBounded
    <2>4. Max(P) = i
        <3>1. Max(P) <= i /\ Max(P) >= i
            BY <2>1, <2>3
        <3>2. P \subseteq Int
            BY SMTT(40), <2>2
        <3>3. i \in Int /\ Max(P) \in Int
            BY <2>1, <2>3, <3>2
        <3> QED
            BY SMTT(40), <3>1, <3>3
    <2> QED
        BY <1>1, <1>3, <1>5, <2>1, <2>4 DEF LastQueued
<1> QED
    BY <1>4, <1>5

LEMMA LastAppendOther ==
    ASSUME NEW s \in Seq(Task), NEW t \in Task, NEW f, NEW w, NEW r,
           IsLast(s, f, w, r), t.Writer # w
    PROVE  IsLast(Append(s, t), f, w, r)
<1>1. PICK n \in Nat : n = Len(s) + 1
    BY SMTT(40), SeqLen
<1>2. /\ DOMAIN s = 1 .. n - 1 /\ DOMAIN Append(s, t) = 1 .. n
      /\ Append(s, t)[n] = t
      /\ \A i \in 1 .. n - 1 : Append(s, t)[i] = s[i]
    BY SMTT(40), <1>1, SeqLen, SeqAppend
<1>3. WaitingFor(Append(s, t), w) = WaitingFor(s, w)
    BY SMTT(40), <1>2 DEF WaitingFor
<1>4. \A i \in WaitingFor(s, w) : Append(s, t)[i] = s[i]
    BY <1>2 DEF WaitingFor
<1> QED
    BY <1>3, <1>4 DEF IsLast

LEMMA LastAppendSame ==
    ASSUME NEW s \in Seq(Task), NEW t \in Task, NEW f
    PROVE  IsLast(Append(s, t), f, t.Writer, t.Message)
<1>1. PICK n \in Nat : n = Len(s) + 1
    BY SMTT(40), SeqLen
<1>2. DOMAIN Append(s, t) = 1 .. n /\ Append(s, t)[n] = t /\ n >= 1
    BY SMTT(40), <1>1, SeqLen, SeqAppend
<1>3. n \in WaitingFor(Append(s, t), t.Writer)
    BY SMTT(40), <1>2 DEF WaitingFor
<1>4. \A j \in WaitingFor(Append(s, t), t.Writer) : j <= n
    BY SMTT(40), <1>2 DEF WaitingFor
<1> QED
    BY <1>2, <1>3, <1>4 DEF IsLast

\* The task at the head of the channel is of another writer, whose file stays
\* f, or of this one, whose file becomes g.
LEMMA LastTail ==
    ASSUME NEW s \in Seq(Task), s # <<>>, NEW f, NEW g, NEW w, NEW r, IsLast(s, f, w, r),
           \/ Head(s).Writer # w /\ g = f
           \/ Head(s).Writer = w
    PROVE  \/ IsLast(Tail(s), g, w, r)
           \/ /\ Head(s).Writer = w /\ r = Head(s).Message
              /\ IsLast(Tail(s), g, w, g[Len(g)])
<1>1. PICK n \in Nat : n = Len(s) /\ n # 0
    BY SeqLen, SeqEmpty
<1>2. PICK t : t = Tail(s)
    OBVIOUS
<1>3. /\ DOMAIN s = 1 .. n /\ DOMAIN t = 1 .. n - 1
      /\ Head(s) = s[1]
      /\ \A i \in 1 .. n - 1 : t[i] = s[i + 1]
    BY SMTT(40), <1>1, <1>2, SeqLen, SeqHeadTail
<1>4. \A i \in WaitingFor(t, w) : i \in Int /\ i + 1 \in WaitingFor(s, w) /\ t[i] = s[i + 1]
    BY SMTT(40), <1>3 DEF WaitingFor
<1>5. \A i \in WaitingFor(s, w) : /\ i \in Int
                                  /\ i # 1 => i - 1 \in WaitingFor(t, w) /\ t[i - 1] = s[i]
    BY SMTT(40), <1>3 DEF WaitingFor
<1>6. CASE WaitingFor(t, w) # {}
    <2>1. PICK k \in WaitingFor(t, w) : TRUE
        BY <1>6
    <2>2. k + 1 \in WaitingFor(s, w) /\ k >= 1 /\ k \in Int
        BY SMTT(40), <1>3, <1>4, <2>1 DEF WaitingFor
    <2>3. PICK i \in WaitingFor(s, w) : r = s[i].Message /\ \A j \in WaitingFor(s, w) : j <= i
        BY <2>2 DEF IsLast
    <2>4. k + 1 <= i /\ i \in Int
        BY <1>5, <2>2, <2>3
    <2>5. i # 1
        BY SMTT(40), <2>2, <2>4
    <2>6. i - 1 \in WaitingFor(t, w) /\ t[i - 1].Message = r
        BY <1>5, <2>3, <2>5
    <2>7. \A j \in WaitingFor(t, w) : j <= i - 1
        BY SMTT(40), <1>4, <2>3, <2>4
    <2> QED
        BY <1>2, <2>6, <2>7 DEF IsLast
<1>7. CASE WaitingFor(t, w) = {}
    <2>1. WaitingFor(s, w) \subseteq {1}
        BY <1>5, <1>7
    <2>2. CASE Head(s).Writer # w /\ g = f
        <3>1. WaitingFor(s, w) = {}
            BY <1>3, <2>1, <2>2 DEF WaitingFor
        <3> QED
            BY <1>2, <1>7, <2>2, <3>1 DEF IsLast
    <2>3. CASE Head(s).Writer = w
        <3>1. 1 \in WaitingFor(s, w)
            BY SMTT(40), <1>1, <1>3, <2>3 DEF WaitingFor
        <3>2. r = s[1].Message
            BY <2>1, <3>1 DEF IsLast
        <3>3. IsLast(t, g, w, g[Len(g)])
            BY <1>7 DEF IsLast
        <3> QED
            BY <1>2, <1>3, <2>3, <3>2, <3>3
    <2> QED
        BY <2>2, <2>3
<1> QED
    BY <1>6, <1>7

\* last is r as it was saved, or differs from it in nothing significant.
Matches(r, last) ==
    \/ SameSignificant(r, last)
    \/ /\ last.Timestamp = r.Timestamp
       /\ last.Attributes = r.Attributes
       /\ last.RawIDM.State = r.RawIDM.State

LEMMA MatchesSame ==
    ASSUME NEW q \in Record, NEW r \in Record, NEW last \in Record,
           SameSignificant(q, r), Matches(r, last)
    PROVE  Matches(q, last)
<1>1. CASE SameSignificant(r, last)
    <2>1. \A x \in Record : DOMAIN x.Attributes = 1 .. Len(x.Attributes)
        BY SeqLen DEF Record
    <2>2. DOMAIN last.Attributes = DOMAIN r.Attributes
        BY <1>1, <2>1 DEF SameSignificant
    <2>3. SameSignificant(q, last)
        BY <1>1, <2>2 DEF SameSignificant
    <2> QED
        BY <2>3 DEF Matches
<1>2. CASE last.Attributes = r.Attributes /\ last.RawIDM.State = r.RawIDM.State
    <2>1. SameSignificant(q, last)
        BY <1>2 DEF SameSignificant, HasTCPInfo, HasDiagInfo, TCPInfo
    <2> QED
        BY <2>1 DEF Matches
<1> QED
    BY <1>1, <1>2 DEF Matches

LEMMA MatchesAnonymized ==
    ASSUME NEW r \in Record, NEW last \in Record, Matches(r, last)
    PROVE  Anonymize(last, Anonymizer) \in Record /\ Matches(r, Anonymize(last, Anonymizer))
<1>1. PICK an : an = Anonymize(last, Anonymizer)
    OBVIOUS
<1>3. /\ an \in Record /\ an.Attributes = last.Attributes /\ an.Timestamp = last.Timestamp
      /\ an.RawIDM.State = last.RawIDM.State
    BY <1>1, AnonymizeKeeps
<1>4. HasTCPInfo(an) = HasTCPInfo(last) /\ TCPInfo(an) = TCPInfo(last)
    BY <1>3 DEF HasTCPInfo, HasDiagInfo, TCPInfo
<1>5. SameSignificant(r, last) => SameSignificant(r, an)
    BY <1>3, <1>4 DEF SameSignificant
<1> QED
    BY <1>1, <1>3, <1>5 DEF Matches

\* The record last queued for connection c agrees with r.
Logged(c, r) ==
    \E last \in Record :
        /\ IsLast(marshalChan[MarshallerOf(c)], lines[connections[c].Writer],
                  connections[c].Writer, last)
        /\ Matches(r, last)

\* The record in hand, of the socket queue is working on, is not logged yet.
InHand(c) == pc \in Queueing /\ c = pm.RawIDM.Cookie

LogInv ==
    /\ pc \in Queueing => current[pm.RawIDM.Cookie] = pm
    /\ pc \notin Closing =>
          /\ \A c \in DOMAIN current : InHand(c) \/ Logged(c, current[c])
          /\ \A c \in DOMAIN previous : InHand(c) \/ Logged(c, previous[c])

LEMMA LogInit == Init => LogInv
    BY EmptyMapIs DEF Init, CacheInit, LogInv, Queueing

LEMMA LoggedFrame ==
    ASSUME NEW c, NEW r, Logged(c, r),
           connections'[c].Writer = connections[c].Writer,
           marshalChan'[MarshallerOf(c)] = marshalChan[MarshallerOf(c)],
           lines'[connections[c].Writer] = lines[connections[c].Writer]
    PROVE  Logged(c, r)'
    BY DEF Logged, MarshallerOf

\* A task for another writer is sent.
LEMMA LoggedSent ==
    ASSUME TypeInv, NEW c \in Nat, NEW r, Logged(c, r), NEW m \in Marshallers, NEW t \in Task,
           Send(m, t), UNCHANGED lines,
           connections'[c].Writer = connections[c].Writer,
           t.Writer # connections[c].Writer
    PROVE  Logged(c, r)'
<1>1. MarshallerOf(c) \in Marshallers
    BY MarshallerOfType
<1>2. marshalChan \in [Marshallers -> Seq(Task)]
    BY DEF TypeInv, TypeOK, WriterTypeOK
<1>3. CASE MarshallerOf(c) # m
    <2>1. marshalChan'[MarshallerOf(c)] = marshalChan[MarshallerOf(c)]
        BY <1>1, <1>2, <1>3 DEF Send
    <2> QED
        BY <2>1, LoggedFrame
<1>4. CASE MarshallerOf(c) = m
    <2>1. PICK s \in Seq(Task) : s = marshalChan[m]
        BY <1>2
    <2>2. marshalChan'[m] = Append(s, t)
        BY <1>2, <2>1 DEF Send
    <2>3. PICK w : w = connections[c].Writer
        OBVIOUS
    <2>4. PICK f : f = lines[w]
        OBVIOUS
    <2>5. PICK last \in Record : IsLast(s, f, w, last) /\ Matches(r, last)
        BY <1>4, <2>1, <2>3, <2>4 DEF Logged
    <2>6. IsLast(Append(s, t), f, w, last)
        BY <2>3, <2>5, LastAppendOther
    <2>7. lines'[w] = f /\ connections'[c].Writer = w
        BY <2>3, <2>4
    <2>8. MarshallerOf(c)' = m
        BY <1>4 DEF MarshallerOf
    <2> QED
        BY <2>2, <2>5, <2>6, <2>7, <2>8 DEF Logged
<1> QED
    BY <1>3, <1>4

\* A marshaller takes a task.
LEMMA LoggedMarshal ==
    ASSUME WriterInv, QueuedInv, NEW c, NEW r \in Record, Logged(c, r), HasFile(c),
           NEW m \in Marshallers, Marshaller(m)
    PROVE  Logged(c, r)'
<1>1. connections' = connections /\ TypeInv
    BY DEF Marshaller, MarshalExit, MarshalClose, MarshalSave, WriterInv
<1>2. CASE MarshalExit(m)
    BY <1>1, <1>2, LoggedFrame DEF MarshalExit
<1>3. CASE MarshalClose(m) \/ MarshalSave(m)
    <2>1. PICK w : w = connections[c].Writer
        OBVIOUS
    <2>2. c \in Nat /\ w \in DOMAIN writers /\ CookieOf(w) = c /\ Current(w)
        BY <1>1, <2>1 DEF HasFile, WriterInv, ConnWriters, TypeInv, TypeOK, WriterTypeOK, Current
    <2>3. MarshallerOf(c) \in Marshallers
        BY <2>2, MarshallerOfType
    <2>4. /\ marshalChan[m] # <<>>
          /\ marshalChan' = [marshalChan EXCEPT ![m] = Tail(@)]
          /\ marshalChan \in [Marshallers -> Seq(Task)]
        BY <1>1, <1>3 DEF MarshalClose, MarshalSave, TypeInv, TypeOK, WriterTypeOK
    <2>5. PICK s \in Seq(Task) : s = marshalChan[m] /\ s # <<>>
        BY <2>4
    <2>6. marshalChan'[m] = Tail(s)
        BY <2>4, <2>5
    <2>7. PICK t \in Task : t = Head(s)
        BY <2>5, SeqHeadTail
    <2>8. 1 \in DOMAIN marshalChan[m] /\ t = marshalChan[m][1]
        BY <1>1, <2>4, <2>5, <2>7, TailTasks
    <2>9. t.Writer = w => ~t.Close /\ m = MarshallerOf(c)
        BY SMTT(40), <2>2, <2>8 DEF WriterInv, NoUseAfterClose, TasksRouted
    <2>10. w \in DOMAIN lines
        BY <1>1, <2>2, SeqLen DEF TypeInv, TypeOK, WriterTypeOK
    <2>11. CASE t.Writer # w
        <3>1. lines'[w] = lines[w]
            <4>1. \/ lines' = lines
                  \/ lines' = [lines EXCEPT ![t.Writer] = Append(@, Anonymize(t.Message, Anonymizer))]
                BY <1>3, <2>5, <2>7 DEF MarshalClose, MarshalSave
            <4> QED
                BY <2>11, <2>10, <4>1
        <3>2. CASE MarshallerOf(c) # m
            <4>1. marshalChan'[MarshallerOf(c)] = marshalChan[MarshallerOf(c)]
                BY <2>3, <2>4, <3>2
            <4> QED
                BY <1>1, <2>1, <3>1, <4>1, LoggedFrame
        <3>3. CASE MarshallerOf(c) = m
            <4>1. PICK f : f = lines[w]
                OBVIOUS
            <4>2. PICK last \in Record : IsLast(s, f, w, last) /\ Matches(r, last)
                BY <2>1, <2>5, <3>3, <4>1 DEF Logged
            <4>3. IsLast(Tail(s), f, w, last)
                BY <2>5, <2>7, <2>11, <4>2, LastTail
            <4>4. MarshallerOf(c)' = m
                BY <3>3 DEF MarshallerOf
            <4> QED
                BY <1>1, <2>1, <2>6, <3>1, <4>1, <4>2, <4>3, <4>4 DEF Logged
        <3> QED
            BY <3>2, <3>3
    <2>12. CASE t.Writer = w
        <3>1. MarshalSave(m) /\ MarshallerOf(c) = m /\ ~t.Close
            BY <1>3, <2>5, <2>7, <2>9, <2>12 DEF MarshalClose
        <3>2. t.Message \in Record /\ t.Message.RawIDM \in Loggable
            BY <2>8, <3>1 DEF QueuedInv, Task
        <3>3. CanAnonymize(t.Message) /\ writers[t.Writer].Open
            BY <2>8, <3>2 DEF Loggable, CanAnonymize, WriterInv, NoUseAfterClose
        <3>4. lines' = [lines EXCEPT ![w] = Append(@, Anonymize(t.Message, Anonymizer))]
            BY <2>5, <2>7, <2>12, <3>1, <3>3 DEF MarshalSave
        <3>5. PICK a \in Record : a = Anonymize(t.Message, Anonymizer)
            BY <3>2, AnonymizeKeeps
        <3>6. PICK f \in Seq(Record \cup HeaderRecord) : f = lines[w]
            BY <1>1, <2>10, SeqElement, SeqLen DEF TypeInv, TypeOK, WriterTypeOK
        <3>7. PICK g : g = lines'[w]
            OBVIOUS
        <3>8. g = Append(f, a)
            BY <2>10, <3>4, <3>5, <3>6, <3>7
        <3>9. g[Len(g)] = a
            BY SMTT(40), <3>6, <3>8, SeqAppend
        <3>10. PICK last \in Record : IsLast(s, f, w, last) /\ Matches(r, last)
            BY <2>1, <2>5, <3>1, <3>6 DEF Logged
        <3>11. \/ IsLast(Tail(s), g, w, last)
               \/ last = t.Message /\ IsLast(Tail(s), g, w, a)
            BY <2>5, <2>7, <2>12, <3>9, <3>10, LastTail
        <3>12. last = t.Message => Matches(r, a)
            BY <3>5, <3>10, MatchesAnonymized
        <3>13. \E x \in Record : IsLast(Tail(s), g, w, x) /\ Matches(r, x)
            BY <3>5, <3>10, <3>11, <3>12
        <3>14. MarshallerOf(c)' = m
            BY <3>1 DEF MarshallerOf
        <3> QED
            BY <1>1, <2>1, <2>6, <3>7, <3>13, <3>14 DEF Logged
    <2> QED
        BY <2>11, <2>12
<1> QED
    BY <1>2, <1>3 DEF Marshaller

Cached == DOMAIN current \cup DOMAIN previous

\* What the step lemmas below start from.
LogBase == WriterInv /\ GenerationInv /\ ConnectedInv /\ QueuedInv /\ LogInv

\* A cached socket not in hand has a file of its own.
LEMMA CachedFile ==
    ASSUME LogBase, pc \notin Closing, NEW c \in Cached, ~InHand(c)
    PROVE  /\ c \in Nat /\ HasFile(c)
           /\ connections[c].Writer \in DOMAIN lines
           /\ CookieOf(connections[c].Writer) = c
<1>1. c \in Known /\ HasFile(c)
    BY DEF LogBase, Cached, Known, InHand, ConnectedInv, Queueing
<1>2. TypeInv /\ connections[c].Writer \in DOMAIN writers /\ CookieOf(connections[c].Writer) = c
    BY <1>1 DEF LogBase, WriterInv, ConnWriters, HasFile
<1> QED
    BY <1>1, <1>2, SeqLen DEF TypeInv, TypeOK, WriterTypeOK, HasFile

\* The cache is left alone, and the log of the sockets not in hand.
LEMMA LogKept ==
    ASSUME LogBase, pc \notin Closing, UNCHANGED <<current, previous>>,
           \/ pc \in Queueing /\ pc' \in Queueing /\ pm' = pm
           \/ pc \notin Queueing /\ pc' \notin Queueing,
           \A c \in Cached : ~InHand(c) => \A r \in Record : Logged(c, r) => Logged(c, r)'
    PROVE  LogInv'
<1>1. IsCacheMap(current) /\ IsCacheMap(previous)
    BY DEF LogBase, WriterInv, TypeInv, TypeOK, RoundTypeOK
<1>2. CASE pc \in Queueing /\ pc' \in Queueing /\ pm' = pm
    <2>1. \A c : InHand(c)' <=> InHand(c)
        BY <1>2 DEF InHand
    <2> QED
        BY <1>1, <1>2, <2>1 DEF LogInv, LogBase, Cached, IsCacheMap
<1>3. CASE pc \notin Queueing /\ pc' \notin Queueing
    BY <1>1, <1>3 DEF LogInv, LogBase, Cached, IsCacheMap, InHand
<1> QED
    BY <1>2, <1>3

\* The channels, the files and the connections are left alone.
LEMMA LogQuiet ==
    ASSUME LogBase, pc \notin Closing, UNCHANGED <<current, previous, connVars>>,
           \/ pc \in Queueing /\ pc' \in Queueing /\ pm' = pm
           \/ pc \notin Queueing /\ pc' \notin Queueing
    PROVE  LogInv'
<1>1. \A c, r : Logged(c, r) => Logged(c, r)'
    BY LoggedFrame
<1> QED
    BY <1>1, LogKept

LEMMA LogHandleRecord == ASSUME LogBase, HandleRecord PROVE LogInv'
<1>1. TypeInv /\ pc = "handle" /\ pc \notin Closing /\ pc \notin Queueing
    BY DEF LogBase, WriterInv, HandleRecord, Closing, Queueing
<1>2. PICK ar : /\ ar = MakeArchivalRecord(Head(work).Message, Head(work).Time)
                /\ Update(ar)
                /\ SwapNew(ar) \/ SwapChanged(ar) \/ SwapSame(ar)
    BY DEF HandleRecord
<1>3. ar \in Record
    <2>1. Head(work) \in TimedMessage
        BY <1>1, SeqHeadTail DEF HandleRecord, TypeInv, TypeOK, RoundTypeOK
    <2> QED
        BY <1>2, <2>1, RecordType DEF TimedMessage
<1>4. PICK k : k = ar.RawIDM.Cookie
    OBVIOUS
<1>5. /\ DOMAIN current' = DOMAIN current \cup {k} /\ current'[k] = ar
      /\ \A c \in DOMAIN current \ {k} : current'[c] = current[c]
      /\ DOMAIN previous' = DOMAIN previous \ {k}
      /\ \A c \in DOMAIN previous \ {k} : previous'[c] = previous[c]
    BY <1>2, <1>4 DEF Update, MapPut, MapDelete, Restrict
<1>6. \A c, r : Logged(c, r) => Logged(c, r)'
    BY LoggedFrame DEF HandleRecord
<1>7. /\ \A c \in DOMAIN current : Logged(c, current[c])
      /\ \A c \in DOMAIN previous : Logged(c, previous[c])
    BY <1>1 DEF LogBase, LogInv, InHand
<1>8. /\ \A c \in DOMAIN current' \ {k} : Logged(c, current[c])'
      /\ \A c \in DOMAIN previous' : Logged(c, previous[c])'
    BY <1>5, <1>6, <1>7
<1>9. CASE SwapNew(ar) \/ SwapChanged(ar)
    <2>1. pc' = "queue" /\ pm' = ar
        BY <1>9 DEF SwapNew, SwapChanged
    <2>2. InHand(k)'
        BY <1>4, <2>1 DEF InHand, Queueing
    <2>3. \A c \in DOMAIN current' : InHand(c)' \/ Logged(c, current[c])'
        BY <1>8, <2>2
    <2> QED
        BY <1>4, <1>5, <1>8, <2>1, <2>3 DEF LogInv
<1>10. CASE SwapSame(ar)
    <2>1. pc' = "handle" /\ pc' \notin Queueing
        BY <1>1, <1>10 DEF SwapSame, Queueing
    <2>2. PICK old \in Record : old = previous[k] /\ k \in DOMAIN previous
        BY SMTT(40), <1>1, <1>4, <1>10 DEF SwapSame, TypeInv, TypeOK, RoundTypeOK, IsCacheMap
    <2>3. SameSignificant(ar, old)
        BY <1>3, <1>4, <1>10, <2>2, CompareExact DEF SwapSame
    <2>4. Logged(k, old)
        BY <1>7, <2>2
    <2>5. Logged(k, ar)
        <3>1. PICK last \in Record :
                 /\ IsLast(marshalChan[MarshallerOf(k)], lines[connections[k].Writer],
                           connections[k].Writer, last)
                 /\ Matches(old, last)
            BY <2>4 DEF Logged
        <3>2. Matches(ar, last)
            BY <1>3, <2>2, <2>3, <3>1, MatchesSame
        <3> QED
            BY <3>1, <3>2 DEF Logged
    <2>6. \A c \in DOMAIN current' : Logged(c, current[c])'
        BY <1>5, <1>6, <1>8, <2>5
    <2> QED
        BY <1>8, <2>1, <2>6 DEF LogInv
<1> QED
    BY <1>2, <1>9, <1>10

LEMMA LogFinishRound == ASSUME LogBase, FinishRound PROVE LogInv'
<1>1. pc = "handle" /\ pc' = "retire" /\ previous' = current /\ DOMAIN current' = {}
    BY EmptyMapIs DEF FinishRound, EndCycle
<1>2. \A c, r : Logged(c, r) => Logged(c, r)'
    BY LoggedFrame DEF FinishRound
<1>3. \A c \in DOMAIN current : Logged(c, current[c])
    BY <1>1 DEF LogBase, LogInv, InHand, Queueing, Closing
<1>4. \A c \in DOMAIN previous' : Logged(c, previous[c])'
    BY <1>1, <1>2, <1>3
<1> QED
    BY <1>1, <1>4 DEF LogInv, Queueing

\* Queue, but for its last step.
LEMMA LogQueue ==
    ASSUME LogBase, QueueLookup \/ QueueExpire \/ QueueKeep \/ Rotate
    PROVE  LogInv'
<1>1. /\ TypeInv /\ pc \notin Closing /\ UNCHANGED <<current, previous, pm>>
      /\ pc \in Queueing /\ pc' \in Queueing
    BY DEF LogBase, WriterInv, QueueLookup, QueueExpire, QueueKeep, Rotate, Closing, Queueing
<1>2. PICK k : k = pm.RawIDM.Cookie
    OBVIOUS
<1>3. SUFFICES ASSUME NEW c \in Cached, ~InHand(c), NEW r \in Record, Logged(c, r)
               PROVE  Logged(c, r)'
    BY <1>1, LogKept
<1>4. c # k
    BY <1>1, <1>2, <1>3 DEF InHand
<1>5. /\ c \in Nat /\ HasFile(c)
      /\ connections[c].Writer \in DOMAIN lines
      /\ CookieOf(connections[c].Writer) = c
    BY <1>1, <1>3, CachedFile
<1>6. connections'[c] = connections[c]
    <2>1. \/ connections' = connections
          \/ connections' = MapPut(connections, k, newConnection(pm.Timestamp))
          \/ \E x : connections' = [connections EXCEPT ![k] = x]
        BY <1>2 DEF QueueLookup, QueueExpire, QueueKeep, Rotate, SetConn
    <2> QED
        BY <1>4, <1>5, <2>1 DEF MapPut, HasFile
<1>7. CASE QueueLookup \/ QueueKeep
    BY <1>3, <1>6, <1>7, LoggedFrame DEF QueueLookup, QueueKeep
<1>8. CASE Rotate
    <2>1. lines'[connections[c].Writer] = lines[connections[c].Writer]
        <3>1. PICK f \in Seq(Seq(Record \cup HeaderRecord)) : f = lines
            BY <1>1 DEF TypeInv, TypeOK, WriterTypeOK
        <3>2. PICK h : lines' = Append(f, h)
            BY <1>8, <3>1 DEF Rotate
        <3>3. PICK w \in DOMAIN f : w = connections[c].Writer
            BY <1>5, <3>1
        <3>4. Append(f, h)[w] = f[w]
            BY SMTT(40), SeqLen
        <3> QED
            BY <3>1, <3>2, <3>3, <3>4
    <2> QED
        BY <1>3, <1>6, <1>8, <2>1, LoggedFrame DEF Rotate
<1>9. CASE QueueExpire
    <2>1. PICK w : w = conn.Writer /\ w # NilWriter
        BY <1>9 DEF QueueExpire, Expired
    <2>2. k \in DOMAIN connections /\ w = connections[k].Writer
        BY <1>1, <1>2, <1>9, <2>1 DEF QueueExpire, TypeInv, QueueOK, conn
    <2>3. w # connections[c].Writer
        BY <1>4, <1>5, <2>1, <2>2 DEF LogBase, WriterInv, ConnWriters
    <2>4. PICK m \in Marshallers : m = MarshallerOf(k)
        BY <1>1, <1>2, QueueTypes
    <2>5. PICK t \in Task : t = CloseTask(w) /\ t.Writer = w
        <3>1. CloseTask(w) \in Task
            BY <1>1, <2>1, <2>2 DEF CloseTask, Task, TypeInv, TypeOK, WriterTypeOK, Connection
        <3>2. CloseTask(w).Writer = w
            BY DEF CloseTask
        <3> QED
            BY <3>1, <3>2
    <2>6. Send(m, t) /\ UNCHANGED lines
        BY <1>2, <1>9, <2>1, <2>4, <2>5 DEF QueueExpire
    <2> QED
        BY <1>1, <1>3, <1>5, <1>6, <2>3, <2>5, <2>6, LoggedSent
<1> QED
    BY <1>7, <1>8, <1>9

LEMMA LogQueueSend == ASSUME LogBase, QueueSend PROVE LogInv'
<1>1. /\ TypeInv /\ pc \notin Closing /\ UNCHANGED <<current, previous, connections, lines>>
      /\ pc \in Queueing /\ pc' = "handle" /\ pc' \notin Queueing /\ pc = "send"
    BY DEF LogBase, WriterInv, QueueSend, Closing, Queueing
<1>2. PICK k : k = pm.RawIDM.Cookie
    OBVIOUS
<1>3. PICK w : w = connections[k].Writer
    OBVIOUS
<1>4. /\ k \in DOMAIN connections /\ w = conn.Writer /\ w # NilWriter /\ k \in DOMAIN current
      /\ w \in Nat
    BY <1>1, <1>2, <1>3
       DEF TypeInv, TypeOK, WriterTypeOK, Connection, QueueOK, conn
<1>5. PICK m \in Marshallers : m = MarshallerOf(k)
    BY <1>1, <1>2, QueueTypes
<1>6. PICK t \in Task : t = SaveTask(pm, w) /\ t.Writer = w /\ t.Message = pm
    <2>1. SaveTask(pm, w) \in Task
        BY <1>1, <1>4, QueueTypes DEF SaveTask, Task
    <2>2. SaveTask(pm, w).Writer = w /\ SaveTask(pm, w).Message = pm
        BY DEF SaveTask
    <2> QED
        BY <2>1, <2>2
<1>7. Send(m, t)
    BY <1>2, <1>4, <1>5, <1>6 DEF QueueSend
<1>8. ASSUME NEW c \in Cached, c # k, NEW r \in Record, Logged(c, r)
      PROVE  Logged(c, r)'
    <2>1. /\ c \in Nat /\ HasFile(c)
          /\ CookieOf(connections[c].Writer) = c
        BY <1>1, <1>2, <1>8, CachedFile DEF InHand
    <2>2. w # connections[c].Writer
        BY <1>3, <1>4, <1>8, <2>1 DEF LogBase, WriterInv, ConnWriters
    <2> QED
        BY <1>1, <1>6, <1>7, <1>8, <2>1, <2>2, LoggedSent
<1>9. PICK p \in Record : p = pm
    BY <1>1, QueueTypes
<1>10. Logged(k, p)'
    <2>1. PICK s \in Seq(Task) : s = marshalChan[m]
        BY <1>1 DEF TypeInv, TypeOK, WriterTypeOK
    <2>2. marshalChan'[m] = Append(s, t)
        BY <1>1, <1>7, <2>1 DEF Send, TypeInv, TypeOK, WriterTypeOK
    <2>3. IsLast(Append(s, t), lines[w], w, p)
        BY <1>6, <1>9, <2>1, LastAppendSame
    <2>4. Matches(p, p)
        BY DEF Matches
    <2>5. MarshallerOf(k)' = m /\ connections'[k].Writer = w /\ lines' = lines
        BY <1>1, <1>3, <1>5 DEF MarshallerOf
    <2> QED
        BY <1>9, <2>2, <2>3, <2>4, <2>5 DEF Logged
<1>11. k \notin DOMAIN previous /\ current[k] = p
    BY <1>1, <1>2, <1>4, <1>9 DEF LogBase, GenerationInv, LogInv
<1>12. \A c \in DOMAIN current : Logged(c, current[c])'
    <2>1. SUFFICES ASSUME NEW c \in DOMAIN current, c # k PROVE Logged(c, current[c])'
        BY <1>1, <1>10, <1>11
    <2>2. Logged(c, current[c]) /\ current[c] \in Record
        BY <1>1, <1>2, <2>1
           DEF LogBase, LogInv, InHand, TypeInv, TypeOK, RoundTypeOK, IsCacheMap
    <2> QED
        BY <1>1, <1>8, <2>1, <2>2 DEF Cached
<1>13. \A c \in DOMAIN previous : Logged(c, previous[c])'
    <2>1. \A c \in DOMAIN previous : Logged(c, previous[c]) /\ previous[c] \in Record /\ c # k
        BY <1>1, <1>2, <1>11
           DEF LogBase, LogInv, InHand, TypeInv, TypeOK, RoundTypeOK, IsCacheMap
    <2> QED
        BY <1>1, <1>8, <2>1 DEF Cached
<1> QED
    BY <1>1, <1>12, <1>13 DEF LogInv

LEMMA LogEndRetired == ASSUME LogBase, EndRetired PROVE LogInv'
<1>1. /\ TypeInv /\ pc \notin Closing /\ UNCHANGED <<current, previous, lines>>
      /\ pc = "endRetired" /\ pc \notin Queueing /\ pc' \notin Queueing
    BY DEF LogBase, WriterInv, EndRetired, Closing, Queueing
<1>2. PICK k : k = ending
    OBVIOUS
<1>3. HasFile(k) /\ endConn(k) /\ k \in Nat /\ k \notin Cached
    BY <1>1, <1>2 DEF EndRetired, LogBase, ConnectedInv, GenerationInv, Known, Cached,
                      TypeInv, TypeOK, RoundTypeOK
<1>4. PICK w : w = connections[k].Writer /\ w # NilWriter /\ w \in Nat
    BY <1>1, <1>3 DEF HasFile, TypeInv, TypeOK, WriterTypeOK, Connection
<1>5. PICK m \in Marshallers : m = MarshallerOf(k)
    BY <1>3, MarshallerOfType
<1>6. PICK t \in Task : t = CloseTask(w) /\ t.Writer = w
    <2>1. CloseTask(w) \in Task
        BY <1>4 DEF CloseTask, Task
    <2>2. CloseTask(w).Writer = w
        BY DEF CloseTask
    <2> QED
        BY <2>1, <2>2
<1>7. Send(m, t)
    BY <1>3, <1>4, <1>5, <1>6 DEF endConn, HasFile
<1>8. SUFFICES ASSUME NEW c \in Cached, ~InHand(c), NEW r \in Record, Logged(c, r)
               PROVE  Logged(c, r)'
    BY <1>1, LogKept
<1>9. /\ c \in Nat /\ HasFile(c)
      /\ CookieOf(connections[c].Writer) = c
    BY <1>1, <1>8, CachedFile
<1>10. w # connections[c].Writer
    BY <1>3, <1>4, <1>8, <1>9 DEF LogBase, WriterInv, ConnWriters, HasFile
<1>11. connections'[c] = connections[c]
    BY <1>3, <1>8, <1>9, EndConnRemoves DEF HasFile
<1> QED
    BY <1>1, <1>6, <1>7, <1>8, <1>9, <1>10, <1>11, LoggedSent

LEMMA LogStep ==
    ASSUME LogBase, ~CreateMayFail, [Next]_vars
    PROVE  LogInv'
<1>1. CASE pc' \in Closing
    BY <1>1 DEF LogInv, Closing, Queueing
<1>2. CASE Receive \/ SkipMessage \/ Retire \/ Report
    BY <1>2, LogQuiet DEF Receive, SkipMessage, Retire, Report, Queueing, Closing
<1>3. CASE QueueReject \/ RotateFails
    BY <1>3 DEF QueueReject, RotateFails, Queueing, LogBase, QueuedInv, Loggable
<1>4. CASE CloseBegin \/ CloseConn \/ EndClosed \/ CloseEnd
    BY <1>1, <1>4 DEF CloseBegin, CloseConn, EndClosed, CloseEnd, Closing
<1>5. CASE Tick \/ SendBlock \/ CloseReader \/ Finished \/ UNCHANGED vars
    <2>1. UNCHANGED <<current, previous, connVars, pc, pm>>
        BY <1>5 DEF Tick, SendBlock, CloseReader, Finished, vars
    <2> QED
        BY <1>1, <2>1, LogQuiet
<1>6. ASSUME NEW m \in Marshallers, Marshaller(m) PROVE LogInv'
    <2>1. UNCHANGED <<current, previous, pc, pm>>
        BY <1>6 DEF Marshaller, MarshalClose, MarshalSave, MarshalExit
    <2>2. CASE pc \notin Closing
        <3>1. ASSUME NEW c \in Cached, ~InHand(c), NEW r \in Record, Logged(c, r)
              PROVE  Logged(c, r)'
            <4>1. HasFile(c)
                BY <2>2, <3>1, CachedFile
            <4> QED
                BY <1>6, <3>1, <4>1, LoggedMarshal DEF LogBase
        <3> QED
            BY <2>1, <2>2, <3>1, LogKept
    <2> QED
        BY <1>1, <2>1, <2>2
<1> QED
    BY <1>2, <1>3, <1>4, <1>5, <1>6, LogHandleRecord, LogFinishRound, LogQueue, LogQueueSend,
       LogEndRetired DEF Next, SaverStep

LEMMA LogCurrent == ASSUME LogBase PROVE LogIsCurrent
<1> SUFFICES ASSUME pc = "recv", NEW c \in DOMAIN previous
             PROVE  /\ HasFile(c)
                    /\ LET last == LastQueued(connections[c].Writer, MarshallerOf(c))
                       IN  \/ SameSignificant(previous[c], last)
                           \/ /\ last.Timestamp = previous[c].Timestamp
                              /\ last.Attributes = previous[c].Attributes
    BY DEF LogIsCurrent, HasFile
<1>1. TypeInv /\ pc \notin Closing /\ ~InHand(c) /\ c \in Cached
    BY DEF LogBase, WriterInv, Closing, InHand, Queueing, Cached
<1>2. c \in Nat /\ HasFile(c)
    BY <1>1, CachedFile
<1>3. PICK last \in Record :
         /\ IsLast(marshalChan[MarshallerOf(c)], lines[connections[c].Writer],
                   connections[c].Writer, last)
         /\ Matches(previous[c], last)
    BY <1>1 DEF LogBase, LogInv, Logged
<1>4. LastQueued(connections[c].Writer, MarshallerOf(c)) = last
    BY <1>1, <1>2, <1>3, LastUnique, MarshallerOfType
<1> QED
    BY <1>2, <1>3, <1>4 DEF Matches

(***************************************************************************)
(* The log is current.  Where files can be created and the kernel reports  *)
(* TCP sockets with their cookies, at every return to the channel of       *)
(* blocks the record last handed to the marshaller of a socket, or last    *)
(* written by it, agrees with the cached record in everything that         *)
(* Compare calls significant, for any number of polls, rotations and       *)
(* marshallers: swapAndQueue compares with the last poll, not with the     *)
(* last record saved, and still no change is missed.                       *)
(***************************************************************************)
THEOREM LogAlwaysCurrent ==
    ASSUME ~CreateMayFail, BlocksAbout(Loggable)
    PROVE  Spec => []LogIsCurrent
<1>1. CookiesInBlocks
    BY DEF CookiesInBlocks, BlocksAbout, About, Loggable, WithCookie
<1>2. WriterInv /\ GenerationInv /\ ConnectedInv /\ QueuedInv /\ LogInv /\ [Next]_vars => LogInv'
    BY LogStep DEF LogBase
<1>3. WriterInv /\ GenerationInv /\ ConnectedInv /\ QueuedInv /\ LogInv => LogIsCurrent
    BY LogCurrent DEF LogBase
<1>4. Spec => []LifeInv
    BY <1>1, LifeInvariant
<1>5. LifeInv => ConnectedInv
    BY DEF LifeInv
<1> QED
    BY <1>2, <1>3, <1>4, <1>5, LogInit, QueuedInvariant, CacheInvariant, WriterInvariant, PTL
       DEF Spec

=============================================================================
