-------------------------- MODULE LifecycleProofs --------------------------
(***************************************************************************)
(* The life of a connection in the saver, for every set of blocks, number  *)
(* of marshallers and capacity of the channels: the writers it hands to    *)
(* the marshallers, that it is retired once, that its events alternate,    *)
(* and that nothing is written that has not been anonymized.               *)
(***************************************************************************)
EXTENDS SaverProofs

\* Leaves are for Zenon, unless they cite another prover.
USE ZenonT(40)

-----------------------------------------------------------------------------
(* Writers.  The invariants of module SaverProperties are proved together   *)
(* with four facts they rest on: a connection's writer is open and is its   *)
(* own, a task waits in the channel its cookie selects, a writer that a     *)
(* later one has replaced belongs to no connection, and the close of a      *)
(* replaced writer is ahead of all tasks of the writers that replaced it.   *)

CookieOf(w) == writers[w].Name.Cookie

ConnWriters ==
    \A c \in DOMAIN connections :
        connections[c].Writer # NilWriter =>
            /\ connections[c].Writer \in DOMAIN writers
            /\ writers[connections[c].Writer].Open
            /\ CookieOf(connections[c].Writer) = c

TasksRouted ==
    \A m \in Marshallers : \A i \in DOMAIN marshalChan[m] :
        MarshallerOf(CookieOf(marshalChan[m][i].Writer)) = m

Superseded ==
    \A v, w \in DOMAIN writers :
        v < w /\ CookieOf(v) = CookieOf(w) => ~Current(v)

ClosesInOrder ==
    \A m \in Marshallers : \A i, j \in DOMAIN marshalChan[m] :
        LET v == marshalChan[m][i].Writer
            w == marshalChan[m][j].Writer
        IN  marshalChan[m][i].Close /\ v < w /\ CookieOf(v) = CookieOf(w) => i < j

WriterInv ==
    /\ TypeInv
    /\ ConnWriters
    /\ TasksRouted
    /\ NoUseAfterClose
    /\ NoLeakedWriter
    /\ Superseded
    /\ ClosesInOrder
    /\ OneFileAtATime

-----------------------------------------------------------------------------
(* Sending and receiving a task. *)

LEMMA SendTasks ==
    ASSUME TypeInv, NEW m \in Marshallers, NEW t \in Task, Send(m, t)
    PROVE  LET n == Len(marshalChan[m]) + 1 IN
           /\ \A k \in Marshallers : \A i \in DOMAIN marshalChan[k] :
                 i \in DOMAIN marshalChan'[k] /\ marshalChan'[k][i] = marshalChan[k][i]
           /\ \A k \in Marshallers : \A i \in DOMAIN marshalChan'[k] :
                 i \in DOMAIN marshalChan[k] \/ (k = m /\ i = n)
           /\ n \in DOMAIN marshalChan'[m] /\ marshalChan'[m][n] = t
           /\ \A i \in DOMAIN marshalChan[m] : i < n
<1> DEFINE n == Len(marshalChan[m]) + 1
<1>1. \A k \in Marshallers : marshalChan[k] \in Seq(Task)
    BY DEF TypeInv, TypeOK, WriterTypeOK
<1>2. marshalChan' = [marshalChan EXCEPT ![m] = Append(@, t)]
      /\ marshalChan \in [Marshallers -> Seq(Task)]
    BY DEF Send, TypeInv, TypeOK, WriterTypeOK
<1>3. marshalChan'[m] = Append(marshalChan[m], t)
    BY <1>2
<1>4. \A k \in Marshallers : k # m => marshalChan'[k] = marshalChan[k]
    BY <1>2
<1>5. /\ DOMAIN marshalChan[m] = 1 .. Len(marshalChan[m])
      /\ Len(marshalChan[m]) \in Nat
    BY <1>1, SeqLen
<1>6. /\ DOMAIN marshalChan'[m] = 1 .. n
      /\ marshalChan'[m][n] = t
      /\ \A i \in 1 .. Len(marshalChan[m]) : marshalChan'[m][i] = marshalChan[m][i]
    BY SMTT(40), <1>1, <1>3, <1>5, SeqAppend, SeqLen
<1> QED
    BY SMTT(40), <1>4, <1>5, <1>6

LEMMA TailTasks ==
    ASSUME TypeInv, NEW m \in Marshallers, marshalChan[m] # <<>>,
           marshalChan' = [marshalChan EXCEPT ![m] = Tail(@)]
    PROVE  /\ 1 \in DOMAIN marshalChan[m] /\ marshalChan[m][1] = Head(marshalChan[m])
           /\ \A k \in Marshallers : k # m => marshalChan'[k] = marshalChan[k]
           /\ \A i \in DOMAIN marshalChan'[m] :
                 /\ i \in Nat /\ i + 1 \in DOMAIN marshalChan[m]
                 /\ i + 1 > 1
                 /\ marshalChan'[m][i] = marshalChan[m][i + 1]
           /\ \A i \in DOMAIN marshalChan[m] :
                 i # 1 => /\ i - 1 \in DOMAIN marshalChan'[m]
                          /\ marshalChan'[m][i - 1] = marshalChan[m][i]
<1>1. /\ marshalChan[m] \in Seq(Task)
      /\ marshalChan \in [Marshallers -> Seq(Task)]
    BY DEF TypeInv, TypeOK, WriterTypeOK
<1>2. marshalChan'[m] = Tail(marshalChan[m])
    BY <1>1
<1>3. \A k \in Marshallers : k # m => marshalChan'[k] = marshalChan[k]
    BY <1>1
<1>4. /\ Len(marshalChan[m]) \in Nat \ {0}
      /\ DOMAIN marshalChan[m] = 1 .. Len(marshalChan[m])
    BY <1>1, SeqEmpty, SeqLen
<1>5. /\ DOMAIN marshalChan'[m] = 1 .. Len(marshalChan[m]) - 1
      /\ \A i \in 1 .. Len(marshalChan[m]) - 1 : marshalChan'[m][i] = marshalChan[m][i + 1]
    BY <1>1, <1>2, <1>4, SeqHeadTail, SeqLen
<1>6. marshalChan[m][1] = Head(marshalChan[m])
    BY SMTT(40), <1>1, <1>4
<1> QED
    BY SMTT(40), <1>3, <1>4, <1>5, <1>6

\* Writers are numbered from 1.
LEMMA WriterNumbers ==
    ASSUME TypeInv
    PROVE  \A w \in DOMAIN writers : w \in Nat \ {NilWriter}
<1>1. writers \in Seq(Writer)
    BY DEF TypeInv, TypeOK, WriterTypeOK
<1> QED
    BY SMTT(40), <1>1, SeqLen DEF NilWriter

-----------------------------------------------------------------------------
(* A connection gives up its writer: queue at the end of the period, and    *)
(* endConn.                                                                 *)

LEMMA ReleaseWriter ==
    ASSUME WriterInv, TypeInv', NEW c \in DOMAIN connections,
           NEW w, w = connections[c].Writer, w # NilWriter,
           Send(MarshallerOf(c), CloseTask(w)),
           UNCHANGED <<writers, lines>>,
           \A x \in DOMAIN connections' :
               /\ x \in DOMAIN connections
               /\ x = c => connections'[x].Writer = NilWriter
               /\ x # c => connections'[x].Writer = connections[x].Writer,
           \A x \in DOMAIN connections : x # c => x \in DOMAIN connections'
    PROVE  WriterInv'
<1> DEFINE m == MarshallerOf(c)
           n == Len(marshalChan[m]) + 1
<1>1. /\ w \in DOMAIN writers /\ writers[w].Open /\ CookieOf(w) = c
      /\ Current(w)
    BY DEF WriterInv, ConnWriters, Current
<1>2. m \in Marshallers /\ CloseTask(w) \in Task
    BY MarshallerOfType
       DEF WriterInv, TypeInv, TypeOK, WriterTypeOK, Connection, CloseTask, Task
<1>3. /\ \A k \in Marshallers : \A i \in DOMAIN marshalChan[k] :
            i \in DOMAIN marshalChan'[k] /\ marshalChan'[k][i] = marshalChan[k][i]
      /\ \A k \in Marshallers : \A i \in DOMAIN marshalChan'[k] :
            i \in DOMAIN marshalChan[k] \/ (k = m /\ i = n)
      /\ n \in DOMAIN marshalChan'[m] /\ marshalChan'[m][n] = CloseTask(w)
      /\ \A i \in DOMAIN marshalChan[m] : i < n
    BY <1>2, SendTasks DEF WriterInv
<1>4. CloseTask(w).Writer = w /\ CloseTask(w).Close
    BY DEF CloseTask
<1>5. ~Current(w)'
    BY SMTT(40), <1>1 DEF Current, WriterInv, ConnWriters
<1>6. \A v \in DOMAIN writers :
        /\ Current(v)' => Current(v)
        /\ Current(v) /\ v # w => Current(v)'
    BY WriterNumbers DEF Current, WriterInv
<1> HIDE DEF m, n
<1>7. \A v : CookieOf(v)' = CookieOf(v)
    BY DEF CookieOf
<1>8. ConnWriters'
    <2> SUFFICES ASSUME NEW x \in DOMAIN connections', connections'[x].Writer # NilWriter
                 PROVE  /\ connections'[x].Writer \in DOMAIN writers
                        /\ writers[connections'[x].Writer].Open
                        /\ CookieOf(connections'[x].Writer) = x
        BY <1>7 DEF ConnWriters
    <2> QED
        BY DEF WriterInv, ConnWriters
<1>9. TasksRouted'
    <2> SUFFICES ASSUME NEW k \in Marshallers, NEW i \in DOMAIN marshalChan'[k]
                 PROVE  MarshallerOf(CookieOf(marshalChan'[k][i].Writer)) = k
        BY <1>7 DEF TasksRouted, MarshallerOf
    <2>1. CASE i \in DOMAIN marshalChan[k]
        BY SMTT(40), <1>3, <2>1 DEF WriterInv, TasksRouted
    <2>2. CASE k = m /\ i = n
        BY <1>1, <1>3, <1>4, <2>2 DEF m
    <2> QED
        BY <1>3, <2>1, <2>2
<1>10. NoUseAfterClose'
    <2> SUFFICES ASSUME NEW k \in Marshallers, NEW i \in DOMAIN marshalChan'[k],
                        NEW t, t = marshalChan'[k][i], NEW v, v = t.Writer
                 PROVE  /\ v \in DOMAIN writers /\ writers[v].Open
                        /\ t.Close =>
                              /\ ~Current(v)'
                              /\ \A j \in DOMAIN marshalChan'[k] :
                                    j > i => marshalChan'[k][j].Writer # v
        BY SMTT(40) DEF NoUseAfterClose, Current
    <2>1. CASE i \in DOMAIN marshalChan[k]
        <3>1. marshalChan[k][i] = t
            BY <1>3, <2>1
        <3>2. /\ v \in DOMAIN writers /\ writers[v].Open
              /\ t.Close => /\ ~Current(v)
                            /\ \A j \in DOMAIN marshalChan[k] :
                                  j > i => marshalChan[k][j].Writer # v
            BY SMTT(40), <2>1, <3>1 DEF WriterInv, NoUseAfterClose
        <3>3. t.Close => v # w
            BY <1>1, <3>2
        <3>4. t.Close => \A j \in DOMAIN marshalChan'[k] :
                            j > i => marshalChan'[k][j].Writer # v
            BY SMTT(40), <1>3, <1>4, <3>2, <3>3
        <3> QED
            BY <1>6, <3>2, <3>4
    <2>2. CASE k = m /\ i = n
        <3>1. marshalChan'[k][i] = CloseTask(w)
            BY <1>3, <2>2
        <3>2. \A j \in DOMAIN marshalChan'[k] : ~(j > i)
            <4>1. \A j \in DOMAIN marshalChan[m] : j < n /\ j \in Int
                BY SMTT(40), <1>2, <1>3, SeqLen DEF WriterInv, TypeInv, TypeOK, WriterTypeOK
            <4>2. n \in Int
                BY SMTT(40), <1>2, SeqLen DEF n, WriterInv, TypeInv, TypeOK, WriterTypeOK
            <4> QED
                BY SMTT(40), <1>3, <2>2, <4>1, <4>2
        <3> QED
            BY <1>1, <1>4, <1>5, <3>1, <3>2
    <2> QED
        BY <1>3, <2>1, <2>2
<1>11. NoLeakedWriter'
    <2> SUFFICES ASSUME NEW v \in DOMAIN writers, writers[v].Open
                 PROVE  Current(v)' \/ ClosePending(v)'
        BY DEF NoLeakedWriter, Current, ClosePending
    <2>1. CASE v = w
        BY <1>2, <1>3, <2>1 DEF ClosePending
    <2>2. CASE v # w /\ Current(v)
        BY <1>6, <2>2
    <2>3. CASE ClosePending(v)
        BY <1>3, <2>3 DEF ClosePending, CloseTask
    <2> QED
        BY <2>1, <2>2, <2>3 DEF WriterInv, NoLeakedWriter
<1>12. Superseded'
    <2> SUFFICES ASSUME NEW v \in DOMAIN writers, NEW u \in DOMAIN writers,
                        v < u, CookieOf(v) = CookieOf(u)
                 PROVE  ~Current(v)'
        BY <1>7 DEF Superseded, Current
    <2> QED
        BY <1>6 DEF WriterInv, Superseded
<1>13. ClosesInOrder'
    <2> SUFFICES ASSUME NEW k \in Marshallers,
                        NEW i \in DOMAIN marshalChan'[k], NEW j \in DOMAIN marshalChan'[k],
                        marshalChan'[k][i].Close,
                        marshalChan'[k][i].Writer < marshalChan'[k][j].Writer,
                        CookieOf(marshalChan'[k][i].Writer) = CookieOf(marshalChan'[k][j].Writer)
                 PROVE  i < j
        BY <1>7 DEF ClosesInOrder
    <2>1. CASE i \in DOMAIN marshalChan[k] /\ j \in DOMAIN marshalChan[k]
        BY SMTT(40), <1>3, <2>1 DEF WriterInv, ClosesInOrder
    <2>2. CASE i \in DOMAIN marshalChan[k] /\ k = m /\ j = n
        BY <1>3, <2>2
    <2>3. CASE k = m /\ i = n
        <3>1. marshalChan'[k][i].Writer = w
            BY <1>3, <1>4, <2>3
        <3>2. marshalChan'[k][j].Writer \in DOMAIN writers
            BY <1>10 DEF NoUseAfterClose
        <3> QED
            BY <1>1, <3>1, <3>2 DEF WriterInv, Superseded
    <2> QED
        BY <1>3, <2>1, <2>2, <2>3
<1>14. OneFileAtATime'
    BY DEF WriterInv, OneFileAtATime
<1> QED
    BY <1>8, <1>9, <1>10, <1>11, <1>12, <1>13, <1>14 DEF WriterInv

-----------------------------------------------------------------------------
(* The other steps. *)

\* A step that changes neither files nor channels, and in connections at most
\* adds one that has no writer.
LEMMA KeepWriters ==
    ASSUME WriterInv, TypeInv', UNCHANGED <<writers, lines, marshalChan>>,
           \A x \in DOMAIN connections :
               x \in DOMAIN connections' /\ connections'[x] = connections[x],
           \A x \in DOMAIN connections' :
               x \in DOMAIN connections \/ connections'[x].Writer = NilWriter
    PROVE  WriterInv'
<1>1. \A v \in DOMAIN writers : Current(v)' <=> Current(v)
    BY WriterNumbers DEF WriterInv, Current
<1>2. \A v : CookieOf(v)' = CookieOf(v) /\ ClosePending(v)' <=> ClosePending(v)
    BY DEF CookieOf, ClosePending
<1>3. ConnWriters'
    <2> SUFFICES ASSUME NEW x \in DOMAIN connections', connections'[x].Writer # NilWriter
                 PROVE  /\ connections'[x].Writer \in DOMAIN writers
                        /\ writers[connections'[x].Writer].Open
                        /\ CookieOf(connections'[x].Writer) = x
        BY DEF ConnWriters, CookieOf
    <2> QED
        BY DEF WriterInv, ConnWriters
<1>4. TasksRouted' /\ ClosesInOrder' /\ OneFileAtATime'
    BY DEF WriterInv, TasksRouted, ClosesInOrder, OneFileAtATime, CookieOf, MarshallerOf
<1>5. NoUseAfterClose'
    <2> SUFFICES ASSUME NEW k \in Marshallers, NEW i \in DOMAIN marshalChan[k],
                        NEW t, t = marshalChan[k][i], NEW v, v = t.Writer
                 PROVE  /\ v \in DOMAIN writers /\ writers[v].Open
                        /\ t.Close =>
                              /\ ~Current(v)'
                              /\ \A j \in DOMAIN marshalChan[k] :
                                    j > i => marshalChan[k][j].Writer # v
        BY SMTT(40) DEF NoUseAfterClose, Current
    <2> QED
        BY <1>1 DEF WriterInv, NoUseAfterClose
<1>6. NoLeakedWriter'
    <2> SUFFICES ASSUME NEW v \in DOMAIN writers, writers[v].Open
                 PROVE  Current(v)' \/ ClosePending(v)'
        BY DEF NoLeakedWriter, Current, ClosePending
    <2> QED
        BY <1>1 DEF WriterInv, NoLeakedWriter, ClosePending
<1>7. Superseded'
    <2> SUFFICES ASSUME NEW v \in DOMAIN writers, NEW u \in DOMAIN writers,
                        v < u, CookieOf(v) = CookieOf(u)
                 PROVE  ~Current(v)'
        BY DEF Superseded, Current, CookieOf
    <2> QED
        BY <1>1 DEF WriterInv, Superseded
<1> QED
    BY <1>3, <1>4, <1>5, <1>6, <1>7 DEF WriterInv

\* A save task goes to a connection's current writer.
LEMMA SendToCurrent ==
    ASSUME WriterInv, TypeInv', NEW c \in DOMAIN connections,
           NEW w, w = connections[c].Writer, w # NilWriter,
           NEW t \in Task, t.Writer = w, ~t.Close, Send(MarshallerOf(c), t),
           UNCHANGED <<connections, writers, lines>>
    PROVE  WriterInv'
<1> DEFINE m == MarshallerOf(c)
           n == Len(marshalChan[m]) + 1
<1>1. /\ w \in DOMAIN writers /\ writers[w].Open /\ CookieOf(w) = c
      /\ Current(w)
    BY DEF WriterInv, ConnWriters, Current
<1>2. m \in Marshallers
    BY MarshallerOfType DEF WriterInv, TypeInv, TypeOK, WriterTypeOK
<1>3. /\ \A k \in Marshallers : \A i \in DOMAIN marshalChan[k] :
            i \in DOMAIN marshalChan'[k] /\ marshalChan'[k][i] = marshalChan[k][i]
      /\ \A k \in Marshallers : \A i \in DOMAIN marshalChan'[k] :
            i \in DOMAIN marshalChan[k] \/ (k = m /\ i = n)
      /\ n \in DOMAIN marshalChan'[m] /\ marshalChan'[m][n] = t
      /\ \A i \in DOMAIN marshalChan[m] : i < n
    BY <1>2, SendTasks DEF WriterInv
<1>4. \A v : CookieOf(v)' = CookieOf(v) /\ (Current(v)' <=> Current(v))
    BY DEF CookieOf, Current
<1> HIDE DEF m, n
<1>5. ConnWriters' /\ Superseded' /\ OneFileAtATime'
    BY SMTT(40) DEF WriterInv, ConnWriters, Superseded, OneFileAtATime, CookieOf, Current
<1>6. TasksRouted'
    <2> SUFFICES ASSUME NEW k \in Marshallers, NEW i \in DOMAIN marshalChan'[k]
                 PROVE  MarshallerOf(CookieOf(marshalChan'[k][i].Writer)) = k
        BY DEF TasksRouted, MarshallerOf, CookieOf
    <2>1. CASE i \in DOMAIN marshalChan[k]
        BY SMTT(40), <1>3, <2>1 DEF WriterInv, TasksRouted
    <2>2. CASE k = m /\ i = n
        BY <1>1, <1>3, <2>2 DEF m
    <2> QED
        BY <1>3, <2>1, <2>2
<1>7. NoUseAfterClose'
    <2> SUFFICES ASSUME NEW k \in Marshallers, NEW i \in DOMAIN marshalChan'[k],
                        NEW s, s = marshalChan'[k][i], NEW v, v = s.Writer
                 PROVE  /\ v \in DOMAIN writers /\ writers[v].Open
                        /\ s.Close =>
                              /\ ~Current(v)
                              /\ \A j \in DOMAIN marshalChan'[k] :
                                    j > i => marshalChan'[k][j].Writer # v
        BY SMTT(40) DEF NoUseAfterClose, Current
    <2>1. CASE i \in DOMAIN marshalChan[k]
        <3>1. marshalChan[k][i] = s
            BY <1>3, <2>1
        <3>2. /\ v \in DOMAIN writers /\ writers[v].Open
              /\ s.Close => /\ ~Current(v)
                            /\ \A j \in DOMAIN marshalChan[k] :
                                  j > i => marshalChan[k][j].Writer # v
            BY SMTT(40), <2>1, <3>1 DEF WriterInv, NoUseAfterClose
        <3>3. s.Close => v # w
            BY <1>1, <3>2
        <3> QED
            BY <1>3, <3>2, <3>3
    <2>2. CASE k = m /\ i = n
        BY <1>1, <1>3, <2>2
    <2> QED
        BY <1>3, <2>1, <2>2
<1>8. NoLeakedWriter'
    <2> SUFFICES ASSUME NEW v \in DOMAIN writers, writers[v].Open
                 PROVE  Current(v) \/ ClosePending(v)'
        BY DEF NoLeakedWriter, Current, ClosePending
    <2> QED
        BY SMTT(40), <1>3 DEF WriterInv, NoLeakedWriter, ClosePending, CloseTask
<1>9. ClosesInOrder'
    <2> SUFFICES ASSUME NEW k \in Marshallers,
                        NEW i \in DOMAIN marshalChan'[k], NEW j \in DOMAIN marshalChan'[k],
                        marshalChan'[k][i].Close,
                        marshalChan'[k][i].Writer < marshalChan'[k][j].Writer,
                        CookieOf(marshalChan'[k][i].Writer) = CookieOf(marshalChan'[k][j].Writer)
                 PROVE  i < j
        BY DEF ClosesInOrder, CookieOf
    <2>1. i \in DOMAIN marshalChan[k]
        BY <1>3
    <2>2. CASE j \in DOMAIN marshalChan[k]
        BY <1>3, <2>1, <2>2 DEF WriterInv, ClosesInOrder
    <2>3. CASE k = m /\ j = n
        BY <1>3, <2>1, <2>3
    <2> QED
        BY <1>3, <2>2, <2>3
<1> QED
    BY <1>5, <1>6, <1>7, <1>8, <1>9 DEF WriterInv

\* A connection without a writer gets a new one.
LEMMA NewWriter ==
    ASSUME WriterInv, TypeInv', NEW c \in DOMAIN connections,
           connections[c].Writer = NilWriter,
           NEW new \in Writer, new.Open, new.Name.Cookie = c, NEW h,
           NEW w, w = Len(writers) + 1,
           writers' = Append(writers, new), lines' = Append(lines, <<h>>),
           UNCHANGED marshalChan,
           DOMAIN connections' = DOMAIN connections,
           connections'[c].Writer = w,
           \A x \in DOMAIN connections : x # c => connections'[x] = connections[x]
    PROVE  WriterInv'
<1>1. /\ w \notin DOMAIN writers /\ w \in Nat \ {NilWriter}
      /\ DOMAIN writers' = DOMAIN writers \cup {w}
      /\ writers'[w] = new
      /\ \A v \in DOMAIN writers : writers'[v] = writers[v] /\ v < w
    <2>1. writers \in Seq(Writer)
        BY DEF WriterInv, TypeInv, TypeOK, WriterTypeOK
    <2>2. Len(writers) \in Nat /\ DOMAIN writers = 1 .. Len(writers)
        BY <2>1, SeqLen
    <2>3. /\ DOMAIN writers' = 1 .. w
          /\ writers'[w] = new
          /\ \A v \in 1 .. Len(writers) : writers'[v] = writers[v]
        BY SMTT(40), <2>1, <2>2, SeqAppend, SeqLen
    <2> QED
        BY SMTT(40), <2>2, <2>3 DEF NilWriter
<1>2. /\ ~(Len(lines'[w]) > 1)
      /\ \A v \in DOMAIN writers : lines'[v] = lines[v]
    <2>1. /\ lines \in Seq(Seq(Record \cup HeaderRecord)) /\ Len(lines) = Len(writers)
          /\ lines' \in Seq(Seq(Record \cup HeaderRecord))
          /\ DOMAIN writers = 1 .. Len(writers)
        BY SeqLen DEF WriterInv, TypeInv, TypeOK, WriterTypeOK
    <2>2. lines'[w] = <<h>> /\ \A v \in DOMAIN writers : lines'[v] = lines[v]
        BY SMTT(40), <2>1, SeqLen
    <2>3. Len(lines'[w]) = 1
        BY <2>2
    <2> QED
        BY ONLY SMTT(40), <2>2, <2>3
<1>3. CookieOf(w)' = c /\ \A v \in DOMAIN writers : CookieOf(v)' = CookieOf(v)
    BY <1>1 DEF CookieOf
<1>4. \A v \in DOMAIN writers : Current(v)' <=> Current(v)
    <2> SUFFICES ASSUME NEW v \in DOMAIN writers
                 PROVE  Current(v)' <=> Current(v)
        OBVIOUS
    <2>1. v # w /\ v # NilWriter
        BY <1>1, WriterNumbers DEF WriterInv
    <2>2. \A x \in DOMAIN connections :
            connections'[x].Writer = v <=> connections[x].Writer = v
        BY <2>1
    <2> QED
        BY <2>2 DEF Current
<1>5. \A k \in Marshallers : \A i \in DOMAIN marshalChan[k] :
         marshalChan[k][i].Writer \in DOMAIN writers
    BY DEF WriterInv, NoUseAfterClose
<1>6. ConnWriters'
    <2> SUFFICES ASSUME NEW x \in DOMAIN connections, connections'[x].Writer # NilWriter,
                        NEW v, v = connections'[x].Writer
                 PROVE  v \in DOMAIN writers' /\ writers'[v].Open /\ CookieOf(v)' = x
        BY DEF ConnWriters, CookieOf
    <2>1. CASE x = c
        BY SMTT(40), <1>1, <1>3, <2>1
    <2>2. CASE x # c
        <3>1. v \in DOMAIN writers /\ writers[v].Open /\ CookieOf(v) = x
            BY <2>2 DEF WriterInv, ConnWriters
        <3> QED
            BY <1>1, <1>3, <3>1
    <2> QED
        BY <2>1, <2>2
<1>7. TasksRouted'
    <2> SUFFICES ASSUME NEW k \in Marshallers, NEW i \in DOMAIN marshalChan[k],
                        NEW v, v = marshalChan[k][i].Writer
                 PROVE  MarshallerOf(CookieOf(v)') = k
        BY DEF TasksRouted, MarshallerOf, CookieOf
    <2> QED
        BY <1>3, <1>5 DEF WriterInv, TasksRouted
<1>8. NoUseAfterClose'
    <2> SUFFICES ASSUME NEW k \in Marshallers, NEW i \in DOMAIN marshalChan[k],
                        NEW t, t = marshalChan[k][i], NEW v, v = t.Writer
                 PROVE  /\ v \in DOMAIN writers' /\ writers'[v].Open
                        /\ t.Close =>
                              /\ ~Current(v)'
                              /\ \A j \in DOMAIN marshalChan[k] :
                                    j > i => marshalChan[k][j].Writer # v
        BY SMTT(40) DEF NoUseAfterClose, Current
    <2>1. /\ v \in DOMAIN writers /\ writers[v].Open
          /\ t.Close => /\ ~Current(v)
                        /\ \A j \in DOMAIN marshalChan[k] :
                              j > i => marshalChan[k][j].Writer # v
        BY DEF WriterInv, NoUseAfterClose
    <2> QED
        BY <1>1, <1>4, <2>1
<1>9. NoLeakedWriter'
    <2> SUFFICES ASSUME NEW v \in DOMAIN writers', writers'[v].Open
                 PROVE  Current(v)' \/ ClosePending(v)'
        BY DEF NoLeakedWriter, Current, ClosePending
    <2>1. CASE v = w
        BY <2>1 DEF Current
    <2>2. CASE v \in DOMAIN writers
        BY <1>1, <1>4, <2>2 DEF WriterInv, NoLeakedWriter, ClosePending
    <2> QED
        BY <1>1, <2>1, <2>2
<1>10. Superseded'
    <2> SUFFICES ASSUME NEW v \in DOMAIN writers', NEW u \in DOMAIN writers',
                        v < u, CookieOf(v)' = CookieOf(u)'
                 PROVE  ~Current(v)'
        BY DEF Superseded, Current, CookieOf
    <2>1. v \in DOMAIN writers
        BY SMTT(40), <1>1, WriterNumbers DEF WriterInv
    <2>2. CASE u \in DOMAIN writers
        BY <1>3, <1>4, <2>1, <2>2 DEF WriterInv, Superseded
    <2>3. CASE u = w
        <3>1. CookieOf(v) = c
            BY <1>3, <2>1, <2>3
        <3>2. ~Current(v)
            BY <2>1, <3>1, WriterNumbers DEF WriterInv, ConnWriters, Current
        <3> QED
            BY <1>4, <2>1, <3>2
    <2> QED
        BY <1>1, <2>2, <2>3
<1>11. ClosesInOrder'
    <2> SUFFICES ASSUME NEW k \in Marshallers,
                        NEW i \in DOMAIN marshalChan[k], NEW j \in DOMAIN marshalChan[k],
                        marshalChan[k][i].Close,
                        marshalChan[k][i].Writer < marshalChan[k][j].Writer,
                        writers'[marshalChan[k][i].Writer].Name.Cookie
                            = writers'[marshalChan[k][j].Writer].Name.Cookie
                 PROVE  i < j
        BY DEF ClosesInOrder, CookieOf
    <2>1. CookieOf(marshalChan[k][i].Writer) = CookieOf(marshalChan[k][j].Writer)
        BY <1>1, <1>5 DEF CookieOf
    <2> QED
        BY <2>1 DEF WriterInv, ClosesInOrder
<1>12. OneFileAtATime'
    <2> SUFFICES ASSUME NEW v \in DOMAIN writers', NEW u \in DOMAIN writers', v < u,
                        writers'[v].Name.Cookie = writers'[u].Name.Cookie,
                        Len(lines'[u]) > 1
                 PROVE  ~writers'[v].Open
        BY DEF OneFileAtATime
    <2>1. u \in DOMAIN writers
        BY <1>1, <1>2
    <2>2. v \in DOMAIN writers
        BY SMTT(40), <1>1, <2>1, WriterNumbers DEF WriterInv
    <2> QED
        BY ZenonT(20), <1>1, <1>2, <2>1, <2>2 DEF WriterInv, OneFileAtATime
<1> QED
    BY <1>6, <1>7, <1>8, <1>9, <1>10, <1>11, <1>12 DEF WriterInv

-----------------------------------------------------------------------------
(* The marshaller takes the first task from its channel. *)

\* What does not depend on the files: the remaining tasks keep their order.
LEMMA TakeTask ==
    ASSUME WriterInv, NEW m \in Marshallers, marshalChan[m] # <<>>,
           marshalChan' = [marshalChan EXCEPT ![m] = Tail(@)],
           \A v \in DOMAIN writers : CookieOf(v)' = CookieOf(v)
    PROVE  /\ TasksRouted'
           /\ ClosesInOrder'
<1>1. /\ \A k \in Marshallers : k # m => marshalChan'[k] = marshalChan[k]
      /\ \A i \in DOMAIN marshalChan'[m] :
            /\ i \in Nat /\ i + 1 \in DOMAIN marshalChan[m]
            /\ marshalChan'[m][i] = marshalChan[m][i + 1]
    BY TailTasks DEF WriterInv
<1>2. \A k \in Marshallers : \A i \in DOMAIN marshalChan[k] :
         marshalChan[k][i].Writer \in DOMAIN writers
    BY DEF WriterInv, NoUseAfterClose
<1>3. \A k \in Marshallers : \A i \in DOMAIN marshalChan'[k] :
         writers'[marshalChan'[k][i].Writer].Name.Cookie = CookieOf(marshalChan'[k][i].Writer)
    BY SMTT(40), <1>1, <1>2 DEF CookieOf
<1>4. TasksRouted'
    <2> SUFFICES ASSUME NEW k \in Marshallers, NEW i \in DOMAIN marshalChan'[k]
                 PROVE  MarshallerOf(CookieOf(marshalChan'[k][i].Writer)) = k
        BY ZenonT(20), <1>3 DEF TasksRouted, MarshallerOf, CookieOf
    <2> QED
        BY SMTT(40), <1>1 DEF WriterInv, TasksRouted
<1>5. ClosesInOrder'
    <2> SUFFICES ASSUME NEW k \in Marshallers,
                        NEW i \in DOMAIN marshalChan'[k], NEW j \in DOMAIN marshalChan'[k],
                        marshalChan'[k][i].Close,
                        marshalChan'[k][i].Writer < marshalChan'[k][j].Writer,
                        writers'[marshalChan'[k][i].Writer].Name.Cookie
                            = writers'[marshalChan'[k][j].Writer].Name.Cookie
                 PROVE  i < j
        BY DEF ClosesInOrder, CookieOf
    <2>1. CookieOf(marshalChan'[k][i].Writer) = CookieOf(marshalChan'[k][j].Writer)
        BY <1>3 DEF CookieOf
    <2>2. CASE k # m
        BY <1>1, <2>1, <2>2 DEF WriterInv, ClosesInOrder
    <2>3. CASE k = m
        <3>1. i + 1 < j + 1
            <4>1. /\ i + 1 \in DOMAIN marshalChan[m] /\ j + 1 \in DOMAIN marshalChan[m]
                  /\ marshalChan'[k][i] = marshalChan[m][i + 1]
                  /\ marshalChan'[k][j] = marshalChan[m][j + 1]
                BY <1>1, <2>3
            <4>2. /\ marshalChan[m][i + 1].Close
                  /\ marshalChan[m][i + 1].Writer < marshalChan[m][j + 1].Writer
                  /\ CookieOf(marshalChan[m][i + 1].Writer)
                        = CookieOf(marshalChan[m][j + 1].Writer)
                BY <2>1, <4>1
            <4> QED
                BY <4>1, <4>2 DEF WriterInv, ClosesInOrder
        <3> QED
            BY SMTT(40), <1>1, <2>3, <3>1
    <2> QED
        BY <2>2, <2>3
<1> QED
    BY <1>4, <1>5

LEMMA WriterMarshalClose ==
    ASSUME WriterInv, TypeInv', NEW m \in Marshallers, MarshalClose(m)
    PROVE  WriterInv'
<1>1. PICK w : w = Head(marshalChan[m]).Writer
    OBVIOUS
<1>2. /\ marshalChan[m] # <<>> /\ Head(marshalChan[m]).Close
      /\ marshalChan' = [marshalChan EXCEPT ![m] = Tail(@)]
      /\ writers' = [writers EXCEPT ![w].Open = FALSE]
      /\ UNCHANGED <<connections, lines>>
    BY <1>1 DEF MarshalClose
<1>3. /\ 1 \in DOMAIN marshalChan[m] /\ marshalChan[m][1] = Head(marshalChan[m])
      /\ \A k \in Marshallers : k # m => marshalChan'[k] = marshalChan[k]
      /\ \A i \in DOMAIN marshalChan'[m] :
            /\ i \in Nat /\ i + 1 \in DOMAIN marshalChan[m]
            /\ i + 1 > 1
            /\ marshalChan'[m][i] = marshalChan[m][i + 1]
      /\ \A i \in DOMAIN marshalChan[m] :
            i # 1 => /\ i - 1 \in DOMAIN marshalChan'[m]
                     /\ marshalChan'[m][i - 1] = marshalChan[m][i]
    BY <1>2, TailTasks DEF WriterInv
<1>4. /\ w \in DOMAIN writers /\ ~Current(w)
      /\ \A j \in DOMAIN marshalChan[m] : j > 1 => marshalChan[m][j].Writer # w
    BY SMTT(40), <1>1, <1>2, <1>3 DEF WriterInv, NoUseAfterClose
<1>5. /\ DOMAIN writers' = DOMAIN writers
      /\ \A v \in DOMAIN writers : v # w => writers'[v] = writers[v]
      /\ \A v \in DOMAIN writers : writers'[v].Name = writers[v].Name
      /\ ~writers'[w].Open
    <2>1. \A v \in DOMAIN writers : writers[v] \in Writer
        BY SMTT(40) DEF WriterInv, TypeInv, TypeOK, WriterTypeOK
    <2>2. \A x \in Writer : LET y == [x EXCEPT !.Open = FALSE]
                            IN  y.Name = x.Name /\ ~y.Open
        BY DEF Writer
    <2> QED
        BY <1>2, <1>4, <2>1, <2>2
<1>6. \A v : Current(v)' <=> Current(v)
    BY <1>2 DEF Current
<1>7. \A v \in DOMAIN writers : CookieOf(v)' = CookieOf(v)
    BY <1>5 DEF CookieOf
<1>8. \A k \in Marshallers : \A i \in DOMAIN marshalChan'[k] :
         \E j \in DOMAIN marshalChan[k] :
            /\ marshalChan'[k][i] = marshalChan[k][j]
            /\ marshalChan[k][j].Writer # w
    <2> SUFFICES ASSUME NEW k \in Marshallers, NEW i \in DOMAIN marshalChan'[k]
                 PROVE  \E j \in DOMAIN marshalChan[k] :
                            /\ marshalChan'[k][i] = marshalChan[k][j]
                            /\ marshalChan[k][j].Writer # w
        OBVIOUS
    <2>1. CASE k = m
        BY <1>3, <1>4, <2>1
    <2>2. CASE k # m
        <3>1. MarshallerOf(CookieOf(w)) = m
            BY <1>1, <1>3 DEF WriterInv, TasksRouted
        <3>2. MarshallerOf(CookieOf(marshalChan[k][i].Writer)) = k
            BY <1>3, <2>2 DEF WriterInv, TasksRouted
        <3> QED
            BY <1>3, <2>2, <3>1, <3>2
    <2> QED
        BY <2>1, <2>2
<1>9. TasksRouted' /\ ClosesInOrder'
    BY <1>2, <1>7, TakeTask
<1>10. ConnWriters'
    <2> SUFFICES ASSUME NEW x \in DOMAIN connections, connections[x].Writer # NilWriter,
                        NEW v, v = connections[x].Writer
                 PROVE  v \in DOMAIN writers /\ writers'[v].Open /\ CookieOf(v)' = x
        BY SMTT(40), <1>2, <1>5 DEF ConnWriters, CookieOf
    <2>1. v # w
        BY <1>4 DEF Current
    <2> QED
        BY <1>5, <1>7, <2>1 DEF WriterInv, ConnWriters
<1>11. NoUseAfterClose'
    <2> SUFFICES ASSUME NEW k \in Marshallers, NEW i \in DOMAIN marshalChan'[k],
                        NEW t, t = marshalChan'[k][i], NEW v, v = t.Writer
                 PROVE  /\ v \in DOMAIN writers /\ writers'[v].Open
                        /\ t.Close =>
                              /\ ~Current(v)
                              /\ \A j \in DOMAIN marshalChan'[k] :
                                    j > i => marshalChan'[k][j].Writer # v
        BY SMTT(40), <1>5, <1>6 DEF NoUseAfterClose
    <2>1. v \in DOMAIN writers /\ writers[v].Open /\ (t.Close => ~Current(v)) /\ v # w
        BY SMTT(40), <1>8 DEF WriterInv, NoUseAfterClose
    <2>2. CASE k # m
        BY SMTT(40), <1>3, <1>5, <2>1, <2>2 DEF WriterInv, NoUseAfterClose
    <2>3. CASE k = m
        <3>1. t.Close => \A j \in DOMAIN marshalChan[m] :
                            j > i + 1 => marshalChan[m][j].Writer # v
            <4>1. i + 1 \in DOMAIN marshalChan[m] /\ t = marshalChan[m][i + 1]
                BY <1>3, <2>3
            <4> QED
                BY SMTT(40), <4>1 DEF WriterInv, NoUseAfterClose
        <3>2. t.Close => \A j \in DOMAIN marshalChan'[m] :
                            j > i => marshalChan'[m][j].Writer # v
            BY SMTT(40), <1>3, <2>3, <3>1
        <3> QED
            BY <1>5, <2>1, <2>3, <3>2
    <2> QED
        BY <2>2, <2>3
<1>12. NoLeakedWriter'
    <2> SUFFICES ASSUME NEW v \in DOMAIN writers, writers'[v].Open
                 PROVE  Current(v) \/ ClosePending(v)'
        BY <1>5, <1>6 DEF NoLeakedWriter
    <2>1. v # w /\ writers[v].Open
        BY <1>5
    <2>2. CASE ClosePending(v)
        <3>1. PICK k \in Marshallers : \E i \in DOMAIN marshalChan[k] :
                marshalChan[k][i] = CloseTask(v)
            BY <2>2 DEF ClosePending
        <3>2. PICK i \in DOMAIN marshalChan[k] : marshalChan[k][i] = CloseTask(v)
            BY <3>1
        <3>3. CloseTask(v).Writer = v
            BY DEF CloseTask
        <3>4. ~(k = m /\ i = 1)
            BY SMTT(40), <1>1, <1>3, <2>1, <3>2, <3>3
        <3>5. CASE k = m
            BY SMTT(40), <1>3, <3>2, <3>4, <3>5 DEF ClosePending, CloseTask
        <3>6. CASE k # m
            BY SMTT(40), <1>3, <3>2, <3>6 DEF ClosePending, CloseTask
        <3> QED
            BY <3>5, <3>6
    <2> QED
        BY <2>1, <2>2 DEF WriterInv, NoLeakedWriter
<1>13. Superseded'
    BY <1>5, <1>6, <1>7 DEF WriterInv, Superseded
<1>14. OneFileAtATime'
    <2> SUFFICES ASSUME NEW v \in DOMAIN writers, NEW u \in DOMAIN writers, v < u,
                        writers[v].Name.Cookie = writers[u].Name.Cookie,
                        Len(lines[u]) > 1
                 PROVE  ~writers'[v].Open
        BY SMTT(40), <1>2, <1>5 DEF OneFileAtATime
    <2> QED
        BY <1>5 DEF WriterInv, OneFileAtATime
<1> QED
    BY <1>9, <1>10, <1>11, <1>12, <1>13, <1>14 DEF WriterInv

\* The heart of OneFileAtATime: the file before the one written to is closed,
\* because its close task would otherwise be ahead of the first task.
LEMMA WriterMarshalSave ==
    ASSUME WriterInv, TypeInv', NEW m \in Marshallers, MarshalSave(m)
    PROVE  WriterInv'
<1>1. PICK w : w = Head(marshalChan[m]).Writer
    OBVIOUS
<1>2. /\ marshalChan[m] # <<>> /\ ~Head(marshalChan[m]).Close
      /\ marshalChan' = [marshalChan EXCEPT ![m] = Tail(@)]
      /\ UNCHANGED <<connections, writers>>
    BY DEF MarshalSave
<1>3. /\ 1 \in DOMAIN marshalChan[m] /\ marshalChan[m][1] = Head(marshalChan[m])
      /\ \A k \in Marshallers : k # m => marshalChan'[k] = marshalChan[k]
      /\ \A i \in DOMAIN marshalChan'[m] :
            /\ i \in Nat /\ i + 1 \in DOMAIN marshalChan[m]
            /\ i + 1 > 1
            /\ marshalChan'[m][i] = marshalChan[m][i + 1]
      /\ \A i \in DOMAIN marshalChan[m] :
            i # 1 => /\ i - 1 \in DOMAIN marshalChan'[m]
                     /\ marshalChan'[m][i - 1] = marshalChan[m][i]
    BY <1>2, TailTasks DEF WriterInv
<1>4. w \in DOMAIN writers
    BY <1>1, <1>3 DEF WriterInv, NoUseAfterClose
<1>5. \A u \in DOMAIN writers : u # w => lines'[u] = lines[u]
    <2>1. DOMAIN lines = DOMAIN writers
        BY SeqLen DEF WriterInv, TypeInv, TypeOK, WriterTypeOK
    <2> QED
        BY <1>1, <2>1 DEF MarshalSave
<1>6. \A v : (Current(v)' <=> Current(v)) /\ CookieOf(v)' = CookieOf(v)
    BY <1>2 DEF Current, CookieOf
<1>7. TasksRouted' /\ ClosesInOrder'
    BY <1>2, <1>6, TakeTask
<1>8. ConnWriters' /\ Superseded'
    BY <1>2, <1>6 DEF WriterInv, ConnWriters, Superseded
<1>9. NoUseAfterClose'
    <2>0. writers' = writers /\ \A v : Current(v)' <=> Current(v)
        BY <1>2, <1>6
    <2> SUFFICES ASSUME NEW k \in Marshallers, NEW i \in DOMAIN marshalChan'[k],
                        NEW t, t = marshalChan'[k][i], NEW v, v = t.Writer
                 PROVE  /\ v \in DOMAIN writers /\ writers[v].Open
                        /\ t.Close =>
                              /\ ~Current(v)
                              /\ \A j \in DOMAIN marshalChan'[k] :
                                    j > i => marshalChan'[k][j].Writer # v
        BY <2>0 DEF NoUseAfterClose
    <2>1. CASE k # m
        <3>1. marshalChan'[k] = marshalChan[k]
            BY <1>3, <2>1
        <3> QED
            BY SMTT(40), <3>1 DEF WriterInv, NoUseAfterClose
    <2>2. CASE k = m
        <3>1. /\ v \in DOMAIN writers /\ writers[v].Open
              /\ t.Close =>
                    /\ ~Current(v)
                    /\ \A j \in DOMAIN marshalChan[m] :
                          j > i + 1 => marshalChan[m][j].Writer # v
            BY SMTT(40), <1>3, <2>2 DEF WriterInv, NoUseAfterClose
        <3> QED
            BY SMTT(40), <1>3, <2>2, <3>1
    <2> QED
        BY <2>1, <2>2
<1>10. NoLeakedWriter'
    <2> SUFFICES ASSUME NEW v \in DOMAIN writers, writers[v].Open
                 PROVE  Current(v) \/ ClosePending(v)'
        BY <1>2, <1>6 DEF NoLeakedWriter
    <2>1. CASE ClosePending(v)
        <3>1. PICK k \in Marshallers : \E i \in DOMAIN marshalChan[k] :
                marshalChan[k][i] = CloseTask(v)
            BY <2>1 DEF ClosePending
        <3>2. PICK i \in DOMAIN marshalChan[k] : marshalChan[k][i] = CloseTask(v)
            BY <3>1
        <3>3. ~(k = m /\ i = 1)
            BY SMTT(40), <1>2, <1>3, <3>2 DEF CloseTask
        <3>4. CASE k = m
            BY SMTT(40), <1>3, <3>2, <3>3, <3>4 DEF ClosePending, CloseTask
        <3>5. CASE k # m
            BY SMTT(40), <1>3, <3>2, <3>5 DEF ClosePending, CloseTask
        <3> QED
            BY <3>4, <3>5
    <2> QED
        BY <2>1 DEF WriterInv, NoLeakedWriter
<1>11. OneFileAtATime'
    <2> SUFFICES ASSUME NEW v \in DOMAIN writers, NEW u \in DOMAIN writers, v < u,
                        CookieOf(v) = CookieOf(u), Len(lines'[u]) > 1
                 PROVE  ~writers[v].Open
        BY <1>2 DEF OneFileAtATime, CookieOf
    <2>1. CASE u # w
        BY <1>5, <2>1 DEF WriterInv, OneFileAtATime, CookieOf
    <2>2. CASE u = w
        <3>1. SUFFICES ASSUME writers[v].Open PROVE FALSE
            OBVIOUS
        <3>2. ~Current(v)
            BY DEF WriterInv, Superseded
        <3>3. PICK k \in Marshallers : \E i \in DOMAIN marshalChan[k] :
                marshalChan[k][i] = CloseTask(v)
            BY <3>1, <3>2 DEF WriterInv, NoLeakedWriter, ClosePending
        <3>4. PICK i \in DOMAIN marshalChan[k] : marshalChan[k][i] = CloseTask(v)
            BY <3>3
        <3>5. marshalChan[k][i].Writer = v /\ marshalChan[k][i].Close
            BY SMTT(40), <3>4 DEF CloseTask
        <3>6. k = m
            <4>1. MarshallerOf(CookieOf(v)) = k
                BY <3>5 DEF WriterInv, TasksRouted
            <4>2. MarshallerOf(CookieOf(w)) = m
                BY <1>1, <1>3 DEF WriterInv, TasksRouted
            <4> QED
                BY <2>2, <4>1, <4>2
        <3>7. i < 1
            BY <1>1, <1>3, <2>2, <3>5, <3>6 DEF WriterInv, ClosesInOrder
        <3>8. i \in Nat \ {0}
            <4>1. marshalChan[k] \in Seq(Task)
                BY DEF WriterInv, TypeInv, TypeOK, WriterTypeOK
            <4>2. DOMAIN marshalChan[k] = 1 .. Len(marshalChan[k])
                BY <4>1, SeqLen
            <4> QED
                BY SMTT(40), <4>2
        <3> QED
            BY SMTT(40), <3>7, <3>8
    <2> QED
        BY <2>1, <2>2
<1> QED
    BY <1>7, <1>8, <1>9, <1>10, <1>11 DEF WriterInv

-----------------------------------------------------------------------------
(* The invariant. *)

LEMMA WriterInit == Init => WriterInv
<1> SUFFICES ASSUME Init PROVE WriterInv
    OBVIOUS
<1>1. DOMAIN connections = {} /\ DOMAIN writers = {}
    BY SMTT(40), EmptyMapIs DEF Init
<1>2. \A m \in Marshallers : DOMAIN marshalChan[m] = {}
    BY SMTT(40) DEF Init
<1> QED
    BY <1>1, <1>2, TypeInit
       DEF WriterInv, ConnWriters, TasksRouted, NoUseAfterClose, NoLeakedWriter,
           Superseded, ClosesInOrder, OneFileAtATime

LEMMA WriterQueueLookup == ASSUME WriterInv, TypeInv', QueueLookup PROVE WriterInv'
<1>1. /\ UNCHANGED <<writers, lines, marshalChan>>
      /\ \A x \in DOMAIN connections :
            x \in DOMAIN connections' /\ connections'[x] = connections[x]
      /\ \A x \in DOMAIN connections' :
            x \in DOMAIN connections \/ connections'[x].Writer = NilWriter
    BY SMTT(40) DEF QueueLookup, MapPut, newConnection
<1> QED
    BY <1>1, KeepWriters

LEMMA WriterQueueExpire == ASSUME WriterInv, TypeInv', QueueExpire PROVE WriterInv'
<1>1. PICK c : c = pm.RawIDM.Cookie
    OBVIOUS
<1>2. PICK w : w = connections[c].Writer
    OBVIOUS
<1>3. pc = "expire" /\ c \in DOMAIN connections /\ w # NilWriter /\ conn = connections[c]
    BY <1>1, <1>2 DEF QueueExpire, Expired, conn, WriterInv, TypeInv, QueueOK
<1>4. /\ Send(MarshallerOf(c), CloseTask(w))
      /\ UNCHANGED <<writers, lines>>
    BY <1>1, <1>2, <1>3 DEF QueueExpire
<1>5. connections' = [connections EXCEPT ![c] = [conn EXCEPT !.Writer = NilWriter]]
    BY <1>1 DEF QueueExpire, SetConn
<1>6. conn \in Connection
    BY <1>3, QueueTypes DEF WriterInv, Queueing
<1>7. [conn EXCEPT !.Writer = NilWriter].Writer = NilWriter
    BY <1>6 DEF Connection
<1>8. /\ \A x \in DOMAIN connections' :
            /\ x \in DOMAIN connections
            /\ x = c => connections'[x].Writer = NilWriter
            /\ x # c => connections'[x].Writer = connections[x].Writer
      /\ \A x \in DOMAIN connections : x # c => x \in DOMAIN connections'
    BY <1>5, <1>7
<1> QED
    BY <1>2, <1>3, <1>4, <1>8, ReleaseWriter

LEMMA WriterEndConn ==
    ASSUME WriterInv, TypeInv', NEW c, endConn(c), UNCHANGED <<writers, lines>>
    PROVE  WriterInv'
<1>1. CASE UNCHANGED <<connections, marshalChan>>
    BY <1>1, KeepWriters
<1>2. CASE /\ c \in DOMAIN connections /\ connections[c].Writer # NilWriter
           /\ Send(MarshallerOf(c), CloseTask(connections[c].Writer))
           /\ connections' = MapDelete(connections, c)
    <2>1. PICK w : w = connections[c].Writer
        OBVIOUS
    <2>2. /\ \A x \in DOMAIN connections' :
                /\ x \in DOMAIN connections
                /\ x = c => connections'[x].Writer = NilWriter
                /\ x # c => connections'[x].Writer = connections[x].Writer
          /\ \A x \in DOMAIN connections : x # c => x \in DOMAIN connections'
        BY <1>2 DEF MapDelete, Restrict
    <2> QED
        BY <1>2, <2>1, <2>2, ReleaseWriter
<1> QED
    BY <1>1, <1>2 DEF endConn

LEMMA WriterRotate == ASSUME WriterInv, TypeInv', Rotate PROVE WriterInv'
<1>1. PICK c : c = pm.RawIDM.Cookie
    OBVIOUS
<1>2. PICK w : w = Len(writers) + 1
    OBVIOUS
<1>3. PICK new : new = [Name |-> FileName, Created |-> now, Open |-> TRUE]
    OBVIOUS
<1>4. /\ pc = "rotate" /\ c \in DOMAIN connections /\ conn = connections[c]
      /\ connections[c].Writer = NilWriter
    BY <1>1 DEF Rotate, conn, WriterInv, TypeInv, QueueOK
<1>5. conn \in Connection /\ c \in Nat /\ now \in Nat
    BY <1>1, <1>4, QueueTypes DEF WriterInv, Queueing, TypeInv, TypeOK, RoundTypeOK
<1>6. new \in Writer /\ new.Open /\ new.Name.Cookie = c
    <2>1. FileName \in [Date : Nat, Cookie : Nat, Sequence : Nat] /\ FileName.Cookie = c
        BY <1>1, <1>5, DateType DEF FileName, Connection
    <2> QED
        BY <1>3, <1>5, <2>1 DEF Writer
<1>7. /\ writers' = Append(writers, new) /\ lines' = Append(lines, <<Header>>)
      /\ UNCHANGED marshalChan
    BY <1>3 DEF Rotate
<1>8. PICK y : y = [conn EXCEPT !.Writer = w, !.Expiration = @ + FilePeriod,
                                !.Sequence = @ + 1]
    OBVIOUS
<1>9. y.Writer = w
    <2>1. \A x \in Connection : \A e, n, v :
            [x EXCEPT !.Writer = v, !.Expiration = e, !.Sequence = n].Writer = v
        BY DEF Connection
    <2> QED
        BY SMTT(40), <1>5, <1>8, <2>1
<1>10. connections' = [connections EXCEPT ![c] = y]
    BY <1>1, <1>2, <1>8 DEF Rotate, SetConn
<1>11. /\ DOMAIN connections' = DOMAIN connections
       /\ connections'[c].Writer = w
       /\ \A x \in DOMAIN connections : x # c => connections'[x] = connections[x]
    BY <1>4, <1>9, <1>10
<1> QED
    BY <1>2, <1>4, <1>6, <1>7, <1>11, NewWriter

LEMMA WriterQueueSend == ASSUME WriterInv, TypeInv', QueueSend PROVE WriterInv'
<1>1. PICK c : c = pm.RawIDM.Cookie
    OBVIOUS
<1>2. PICK w : w = connections[c].Writer
    OBVIOUS
<1>3. pc = "send" /\ c \in DOMAIN connections /\ w # NilWriter /\ conn = connections[c]
    BY <1>1, <1>2 DEF QueueSend, conn, WriterInv, TypeInv, QueueOK
<1>4. pm \in Record /\ conn \in Connection
    BY <1>3, QueueTypes DEF WriterInv, Queueing
<1>5. PICK t : t = SaveTask(pm, w)
    OBVIOUS
<1>6. t \in Task /\ t.Writer = w /\ ~t.Close
    BY <1>2, <1>3, <1>4, <1>5 DEF SaveTask, Task, Connection
<1>7. Send(MarshallerOf(c), t) /\ UNCHANGED <<connections, writers, lines>>
    BY <1>1, <1>2, <1>3, <1>5 DEF QueueSend
<1> QED
    BY <1>2, <1>3, <1>6, <1>7, SendToCurrent

LEMMA WriterStep == WriterInv /\ [Next]_vars => WriterInv'
<1> SUFFICES ASSUME WriterInv, [Next]_vars PROVE WriterInv'
    OBVIOUS
<1>1. TypeInv'
    BY TypeStep DEF WriterInv
<1>2. CASE UNCHANGED connVars
    BY <1>1, <1>2, KeepWriters DEF connVars
<1>3. CASE Tick \/ SendBlock \/ CloseReader \/ Receive \/ SkipMessage
    BY <1>2, <1>3 DEF Tick, SendBlock, CloseReader, Receive, SkipMessage
<1>4. CASE HandleRecord \/ QueueReject \/ QueueKeep \/ RotateFails
    BY <1>2, <1>4 DEF HandleRecord, QueueReject, QueueKeep, RotateFails
<1>5. CASE FinishRound \/ Retire \/ Report \/ CloseBegin \/ CloseConn \/ CloseEnd
    BY <1>2, <1>5 DEF FinishRound, Retire, Report, CloseBegin, CloseConn, CloseEnd
<1>6. CASE QueueLookup \/ QueueExpire \/ Rotate \/ QueueSend
    BY <1>1, <1>6, WriterQueueLookup, WriterQueueExpire, WriterRotate, WriterQueueSend
<1>7. CASE EndRetired \/ EndClosed
    BY <1>1, <1>7, WriterEndConn DEF EndRetired, EndClosed
<1>8. CASE \E m \in Marshallers : Marshaller(m)
    <2>1. PICK m \in Marshallers : Marshaller(m)
        BY <1>8
    <2>2. CASE MarshalExit(m)
        BY <1>2, <2>2 DEF MarshalExit
    <2> QED
        BY <1>1, <2>1, <2>2, WriterMarshalClose, WriterMarshalSave DEF Marshaller
<1>9. CASE Finished \/ UNCHANGED vars
    BY <1>2, <1>9 DEF Finished, vars
<1> QED
    BY <1>3, <1>4, <1>5, <1>6, <1>7, <1>8, <1>9 DEF Next, SaverStep

LEMMA WriterInvariant == Spec => []WriterInv
    BY WriterInit, WriterStep, PTL DEF Spec

\* Whatever the blocks, the number of marshallers and the capacity of their
\* channels, no task ever meets a closed writer and none follows a close.
THEOREM NeverUsedAfterClose == Spec => []NoUseAfterClose
<1>1. WriterInv => NoUseAfterClose
    BY DEF WriterInv
<1> QED
    BY <1>1, WriterInvariant, PTL

\* Every open zstd writer belongs to a connection or is about to be closed.
THEOREM NeverLeaked == Spec => []NoLeakedWriter
<1>1. WriterInv => NoLeakedWriter
    BY DEF WriterInv
<1> QED
    BY <1>1, WriterInvariant, PTL

\* Once a file holds a record, the connection's earlier files are closed.
THEOREM NeverTwoFiles == Spec => []OneFileAtATime
<1>1. WriterInv => OneFileAtATime
    BY DEF WriterInv
<1> QED
    BY <1>1, WriterInvariant, PTL

-----------------------------------------------------------------------------
USE SaverAssumption
USE DEF envVars, cacheVars, connVars, byteVars, repVars, roundVars, exitVars,
        loopVars, frameVars

-----------------------------------------------------------------------------
(* Anonymization. *)

LEMMA AnonymizedStep ==
    TypeInv /\ OnlyAnonymizedOnDisk /\ [Next]_vars => OnlyAnonymizedOnDisk'
<1> SUFFICES ASSUME TypeInv, OnlyAnonymizedOnDisk, [Next]_vars
             PROVE  OnlyAnonymizedOnDisk'
    OBVIOUS
<1> DEFINE Passed(r) == CanAnonymize(r) /\ Anonymize(r, Anonymizer) = r
<1>1. /\ lines \in Seq(Seq(Record \cup HeaderRecord))
      /\ DOMAIN lines = 1 .. Len(lines) /\ Len(lines) \in Nat
    BY SeqLen DEF TypeInv, TypeOK, WriterTypeOK
<1>2. CASE UNCHANGED lines
    BY <1>2 DEF OnlyAnonymizedOnDisk
<1>3. CASE Rotate
    <2>1. lines' = Append(lines, <<Header>>)
        BY <1>3 DEF Rotate
    <2>2. /\ DOMAIN lines' = 1 .. Len(lines) + 1
          /\ \A w \in DOMAIN lines : lines'[w] = lines[w]
          /\ lines'[Len(lines) + 1] = <<Header>>
        BY SMTT(40), <1>1, <2>1
    <2>3. ASSUME NEW w \in DOMAIN lines', NEW i \in 2 .. Len(lines'[w])
          PROVE  Passed(lines'[w][i])
        <3>1. CASE w \in DOMAIN lines
            BY <2>2, <2>3, <3>1 DEF OnlyAnonymizedOnDisk
        <3>2. CASE w = Len(lines) + 1
            <4>1. Len(<<Header>>) = 1
                OBVIOUS
            <4> QED
                BY SMTT(40), <2>2, <2>3, <3>2, <4>1
        <3> QED
            BY SMTT(40), <1>1, <2>2, <2>3, <3>1, <3>2
    <2> QED
        BY <2>3 DEF OnlyAnonymizedOnDisk
<1>4. ASSUME NEW m \in Marshallers, MarshalSave(m)
      PROVE  OnlyAnonymizedOnDisk'
    <2>1. PICK task \in Task : task = Head(marshalChan[m]) /\ ~task.Close
        BY <1>4, MarshalHead DEF MarshalSave
    <2>2. task.Message \in Record
        BY <2>1 DEF Task
    <2>3. PICK r : r = Anonymize(task.Message, Anonymizer)
        OBVIOUS
    <2>4. r \in Record /\ (CanAnonymize(task.Message) => Passed(r))
        BY <2>2, <2>3, AnonymizeKeeps DEF CanAnonymize
    <2>5. CASE /\ lines' = [lines EXCEPT ![task.Writer] = Append(lines[task.Writer], r)]
               /\ CanAnonymize(task.Message)
        <3>1. ASSUME NEW w \in DOMAIN lines', NEW i \in 2 .. Len(lines'[w])
              PROVE  Passed(lines'[w][i])
            <4>1. w \in DOMAIN lines
                BY <2>5, <3>1
            <4>2. CASE w # task.Writer
                BY <2>5, <3>1, <4>1, <4>2 DEF OnlyAnonymizedOnDisk
            <4>3. CASE w = task.Writer
                <5>1. PICK l \in Seq(Record \cup HeaderRecord) : l = lines[w]
                    BY <1>1, <4>1, SeqElement
                <5>2. lines'[w] = Append(l, r)
                    BY <2>5, <4>1, <4>3, <5>1
                <5>3. /\ Len(l) \in Nat /\ Len(lines'[w]) = Len(l) + 1
                      /\ \A k \in 1 .. Len(l) : lines'[w][k] = l[k]
                      /\ lines'[w][Len(l) + 1] = r
                    BY SMTT(40), <2>4, <5>1, <5>2, SeqAppend, SeqLen
                <5>4. CASE i \in 2 .. Len(l)
                    BY SMTT(40), <4>1, <5>1, <5>3, <5>4 DEF OnlyAnonymizedOnDisk
                <5>5. CASE i = Len(l) + 1
                    BY <2>4, <2>5, <5>3, <5>5
                <5> QED
                    BY SMTT(40), <5>3, <5>4, <5>5
            <4> QED
                BY <4>2, <4>3
        <3> QED
            BY <3>1 DEF OnlyAnonymizedOnDisk
    <2> QED
        BY <1>2, <1>4, <2>1, <2>3, <2>5 DEF MarshalSave
<1>5. CASE \E m \in Marshallers : Marshaller(m)
    BY <1>2, <1>4, <1>5 DEF Marshaller, MarshalClose, MarshalExit
<1>6. CASE SaverStep /\ ~Rotate
    BY <1>2, <1>6
       DEF SaverStep, Receive, SkipMessage, HandleRecord, QueueReject, QueueLookup,
           QueueExpire, QueueKeep, RotateFails, QueueSend, FinishRound, Retire,
           EndRetired, Report, CloseBegin, CloseConn, EndClosed, CloseEnd
<1>7. CASE Tick \/ SendBlock \/ CloseReader \/ Finished \/ UNCHANGED vars
    BY <1>2, <1>7 DEF Tick, SendBlock, CloseReader, Finished, vars
<1> QED
    BY <1>3, <1>5, <1>6, <1>7 DEF Next

\* Whichever anonymizer the flag chose, a marshaller writes a record only after
\* Anonymize has returned without error, with both addresses as the anonymizer
\* leaves them, and drops a record of a family that Anonymize does not know.
THEOREM OnlyAnonymized == Spec => []OnlyAnonymizedOnDisk
<1>1. Init => OnlyAnonymizedOnDisk
    <2>1. Init => lines = <<>>
        BY DEF Init
    <2>2. DOMAIN <<>> = {}
        BY SMTT(40)
    <2> QED
        BY <2>1, <2>2 DEF OnlyAnonymizedOnDisk
<1> QED
    BY <1>1, AnonymizedStep, TypeInvariant, PTL DEF Spec

-----------------------------------------------------------------------------
(* Events: no connection is announced twice without having been ended in    *)
(* between, whatever fails.                                                 *)

\* The last event of c, if there is one, is a Close.
Ended(c) ==
    \A i \in DOMAIN events :
        /\ events[i].Cookie = c
        /\ \A j \in DOMAIN events : j > i => events[j].Cookie # c
        => events[i].Event = "Close"

\* A connection is forgotten only after its Close: endConn calls FlowDeleted
\* before it looks at the writer.
EventInv ==
    /\ NoDoubleOpen
    /\ \A c : c \notin DOMAIN connections => Ended(c)
    /\ pc \in {"endRetired", "endClosed"} => Ended(ending)

\* A new event changes none of those before it.
LEMMA AddEvent ==
    ASSUME TypeInv, NEW e \in Event, events' = Append(events, e),
           NEW n \in Nat, n = Len(events)
    PROVE  /\ DOMAIN events = 1 .. n /\ DOMAIN events' = 1 .. n + 1
           /\ \A i \in 1 .. n : events'[i] = events[i] /\ Earlier(i)' = Earlier(i)
           /\ events'[n + 1] = e
           /\ Earlier(n + 1)' = {j \in 1 .. n : events[j].Cookie = e.Cookie}
<1>1. /\ DOMAIN events = 1 .. n /\ DOMAIN events' = 1 .. n + 1
      /\ \A i \in 1 .. n : events'[i] = events[i]
      /\ events'[n + 1] = e
    <2>1. PICK s \in Seq(Event) : s = events
        BY EventsSeq
    <2>2. events' = Append(s, e) /\ n = Len(s)
        BY <2>1
    <2>3. /\ DOMAIN s = 1 .. n /\ DOMAIN Append(s, e) = 1 .. n + 1
          /\ \A i \in 1 .. n : Append(s, e)[i] = s[i]
          /\ Append(s, e)[n + 1] = e
        BY SMTT(40), <2>2, SeqAppend, SeqLen
    <2> QED
        BY <2>1, <2>2, <2>3
<1>2. \A i \in 1 .. n : Earlier(i)' = Earlier(i)
    <2> TAKE i \in 1 .. n
    <2>1. \A j \in 1 .. i - 1 : events'[j] = events[j]
        BY SMTT(40), <1>1
    <2>2. events'[i] = events[i]
        BY <1>1
    <2> QED
        BY <2>1, <2>2 DEF Earlier
<1>3. Earlier(n + 1)' = {j \in 1 .. n : events[j].Cookie = e.Cookie}
    <2>1. 1 .. (n + 1) - 1 = 1 .. n
        BY SMTT(40)
    <2> QED
        BY <1>1, <2>1 DEF Earlier
<1> QED
    BY <1>1, <1>2, <1>3

\* At position i an Open is due: there is no earlier event of the same cookie,
\* or the last one is a Close.
OpenDue(i) == Earlier(i) = {} \/ events[Max(Earlier(i))].Event = "Close"

\* The positions of the events of a cookie.
EventsOf(c) == {j \in 1 .. Len(events) : events[j].Cookie = c}

\* Ended looks at the last event of a cookie.
LEMMA EndedIs ==
    ASSUME TypeInv, NEW c
    PROVE  Ended(c) <=> (EventsOf(c) = {} \/ events[Max(EventsOf(c))].Event = "Close")
<1> DEFINE n == Len(events)
           S == EventsOf(c)
<1>0. n \in Nat /\ S = {j \in 1 .. n : events[j].Cookie = c}
    BY EventsSeq DEF EventsOf
<1> SUFFICES Ended(c) <=> (S = {} \/ events[Max(S)].Event = "Close")
    OBVIOUS
<1> HIDE DEF n, S
<1>1. DOMAIN events = 1 .. n
    BY EventsSeq DEF n
<1>2. CASE S = {}
    <2>1. \A j \in 1 .. n : events[j].Cookie # c
        BY SMTT(40), <1>0, <1>2
    <2> QED
        BY <1>1, <1>2, <2>1 DEF Ended
<1>3. CASE S # {}
    <2>1. Max(S) \in S /\ \A x \in S : Max(S) >= x
        <3>1. S \subseteq 0 .. n
            BY SMTT(40), <1>0
        <3> QED
            BY <1>0, <1>3, <3>1, MaxOfBounded
    <2>2. PICK k \in S : k = Max(S)
        BY <2>1
    <2>3. \A j \in 1 .. n : j > k => events[j].Cookie # c
        <3> SUFFICES ASSUME NEW j \in 1 .. n, j > k, events[j].Cookie = c PROVE FALSE
            OBVIOUS
        <3>1. k >= j
            BY <1>0, <2>1, <2>2
        <3>2. k \in Int /\ j \in Int
            BY SMTT(40), <1>0
        <3> QED
            BY SMTT(40), <3>1, <3>2
    <2>4. k \in 1 .. n /\ events[k].Cookie = c
        BY <1>0
    <2>5. Ended(c) => events[k].Event = "Close"
        BY <1>1, <2>3, <2>4 DEF Ended
    <2>6. ASSUME events[k].Event = "Close",
                 NEW i \in 1 .. n, events[i].Cookie = c,
                 \A j \in 1 .. n : j > i => events[j].Cookie # c
          PROVE  events[i].Event = "Close"
        <3>1. ~(k > i)
            BY <2>4, <2>6
        <3>2. ~(i > k)
            BY <2>3, <2>6
        <3>3. i = k
            BY SMTT(40), <1>0, <2>4, <3>1, <3>2
        <3> QED
            BY <2>6, <3>3
    <2> QED
        BY <1>1, <1>3, <2>2, <2>5, <2>6 DEF Ended
<1> QED
    BY <1>2, <1>3

\* A new event: what is due before it is as it was; at its own place an Open is
\* due if the connection has ended; and then it is the last of its cookie.
LEMMA EventAdded ==
    ASSUME TypeInv, NEW e \in Event, events' = Append(events, e),
           NEW n \in Nat, n = Len(events)
    PROVE  /\ DOMAIN events = 1 .. n /\ DOMAIN events' = 1 .. n + 1
           /\ \A i \in 1 .. n : events'[i] = events[i] /\ (OpenDue(i)' <=> OpenDue(i))
           /\ events'[n + 1] = e /\ (OpenDue(n + 1)' <=> Ended(e.Cookie))
           /\ \A c : c # e.Cookie => (Ended(c)' <=> Ended(c))
           /\ Ended(e.Cookie)' <=> e.Event = "Close"
<1>1. /\ DOMAIN events = 1 .. n /\ DOMAIN events' = 1 .. n + 1
      /\ \A i \in 1 .. n : events'[i] = events[i] /\ Earlier(i)' = Earlier(i)
      /\ events'[n + 1] = e
      /\ Earlier(n + 1)' = {j \in 1 .. n : events[j].Cookie = e.Cookie}
    BY AddEvent
<1>2. ASSUME NEW i \in 1 .. n PROVE OpenDue(i)' <=> OpenDue(i)
    <2>1. Earlier(i)' = Earlier(i)
        BY <1>1
    <2>2. Earlier(i) # {} => Max(Earlier(i)) \in 1 .. n
        <3>1. Earlier(i) \subseteq 0 .. n /\ Earlier(i) \subseteq 1 .. n
            BY SMTT(40) DEF Earlier
        <3> QED
            BY <3>1, MaxOfBounded
    <2> QED
        BY <1>1, <2>1, <2>2 DEF OpenDue
<1>3. OpenDue(n + 1)' <=> Ended(e.Cookie)
    <2>1. PICK S : S = {j \in 1 .. n : events[j].Cookie = e.Cookie}
        OBVIOUS
    <2>2. Earlier(n + 1)' = S
        BY <1>1, <2>1
    <2>3. Ended(e.Cookie) <=> (S = {} \/ events[Max(S)].Event = "Close")
        <3>1. S = EventsOf(e.Cookie)
            BY <2>1 DEF EventsOf
        <3> QED
            BY <3>1, EndedIs
    <2>4. S # {} => Max(S) \in 1 .. n
        <3>1. S \subseteq 0 .. n /\ S \subseteq 1 .. n
            BY SMTT(40), <2>1
        <3> QED
            BY <3>1, MaxOfBounded
    <2>5. S # {} => events'[Max(S)] = events[Max(S)]
        BY <1>1, <2>4
    <2> QED
        BY <2>2, <2>3, <2>5 DEF OpenDue
<1>4. ASSUME NEW c, c # e.Cookie PROVE Ended(c)' <=> Ended(c)
    <2>1. ASSUME Ended(c) PROVE Ended(c)'
        BY SMTT(40), <1>1, <1>4, <2>1 DEF Ended
    <2>2. ASSUME Ended(c)', NEW i \in 1 .. n, events[i].Cookie = c,
                 \A j \in 1 .. n : j > i => events[j].Cookie # c
          PROVE  events[i].Event = "Close"
        <3>1. \A j \in 1 .. n + 1 : j > i => events'[j].Cookie # c
            BY SMTT(40), <1>1, <1>4, <2>2
        <3> QED
            BY SMTT(40), <1>1, <2>2, <3>1 DEF Ended
    <2> QED
        BY <1>1, <2>1, <2>2 DEF Ended
<1>5. Ended(e.Cookie)' <=> e.Event = "Close"
    <2>1. ASSUME Ended(e.Cookie)' PROVE e.Event = "Close"
        <3>1. \A j \in 1 .. n + 1 : ~(j > n + 1)
            BY SMTT(40)
        <3>2. n + 1 \in 1 .. n + 1
            BY SMTT(40)
        <3> QED
            BY <1>1, <2>1, <3>1, <3>2 DEF Ended
    <2>2. ASSUME e.Event = "Close" PROVE Ended(e.Cookie)'
        BY SMTT(40), <1>1, <2>2 DEF Ended
    <2> QED
        BY <2>1, <2>2
<1> QED
    BY <1>1, <1>2, <1>3, <1>4, <1>5

\* A Close, and an Open of a connection that has ended, keep the order.
LEMMA AddEventInOrder ==
    ASSUME TypeInv, NoDoubleOpen, NEW e \in Event, events' = Append(events, e),
           e.Event = "Open" => Ended(e.Cookie)
    PROVE  /\ NoDoubleOpen'
           /\ \A c : c # e.Cookie /\ Ended(c) => Ended(c)'
           /\ e.Event = "Close" => Ended(e.Cookie)'
<1>1. PICK n \in Nat : n = Len(events)
    BY EventsSeq
<1>2. /\ DOMAIN events = 1 .. n /\ DOMAIN events' = 1 .. n + 1
      /\ \A i \in 1 .. n : events'[i] = events[i] /\ (OpenDue(i)' <=> OpenDue(i))
      /\ events'[n + 1] = e /\ (OpenDue(n + 1)' <=> Ended(e.Cookie))
      /\ \A c : c # e.Cookie => (Ended(c)' <=> Ended(c))
      /\ Ended(e.Cookie)' <=> e.Event = "Close"
    BY <1>1, EventAdded
<1>3. \A i \in DOMAIN events : events[i].Event = "Open" => OpenDue(i)
    BY DEF NoDoubleOpen, OpenDue
<1>4. ASSUME NEW i \in DOMAIN events' PROVE events'[i].Event = "Open" => OpenDue(i)'
    <2>1. CASE i \in 1 .. n
        BY <1>2, <1>3, <2>1
    <2>2. CASE i = n + 1
        BY <1>2, <2>2
    <2> QED
        BY SMTT(40), <1>2, <2>1, <2>2
<1>5. NoDoubleOpen'
    BY <1>4 DEF NoDoubleOpen, OpenDue
<1> QED
    BY <1>2, <1>5

LEMMA EventInit == Init => EventInv
<1> SUFFICES ASSUME Init PROVE EventInv
    OBVIOUS
<1>1. events = <<>> /\ pc = "recv"
    BY DEF Init
<1>2. DOMAIN events = {}
    BY SMTT(40), <1>1
<1> QED
    BY <1>1, <1>2 DEF EventInv, NoDoubleOpen, Ended

LEMMA EventFrame ==
    ASSUME EventInv, UNCHANGED events, DOMAIN connections' = DOMAIN connections,
           pc' \in {"endRetired", "endClosed"} => UNCHANGED <<pc, ending>>
    PROVE  EventInv'
<1>1. NoDoubleOpen'
    BY DEF EventInv, NoDoubleOpen, Earlier
<1>2. \A c : Ended(c)' = Ended(c)
    BY DEF Ended
<1>3. pc' \in {"endRetired", "endClosed"} => Ended(ending)'
    BY DEF EventInv, Ended
<1> QED
    BY <1>1, <1>2, <1>3 DEF EventInv

LEMMA EventQueueLookup == ASSUME TypeInv, EventInv, QueueLookup PROVE EventInv'
<1>1. PICK k \in Nat : k = pm.RawIDM.Cookie
    BY QueueTypes DEF QueueLookup, Queueing
<1>2. pc' = "expire"
    BY DEF QueueLookup
<1>3. CASE UNCHANGED <<connections, events>>
    BY <1>2, <1>3, EventFrame
<1>4. CASE k \notin DOMAIN connections
    <2>1. PICK e \in Event : e = [Event |-> "Open", Cookie |-> k]
        BY <1>1 DEF Event
    <2>2. events' = Append(events, e)
        BY <1>1, <1>4, <2>1 DEF QueueLookup, FlowCreated
    <2>3. DOMAIN connections' = DOMAIN connections \cup {k}
        <3>1. connections' = MapPut(connections, k, newConnection(pm.Timestamp))
            BY <1>1, <1>4 DEF QueueLookup
        <3> QED
            BY <3>1 DEF MapPut
    <2>4. Ended(e.Cookie) /\ NoDoubleOpen
        BY <1>4, <2>1 DEF EventInv
    <2>5. NoDoubleOpen' /\ \A c : c # k /\ Ended(c) => Ended(c)'
        BY <2>1, <2>2, <2>4, AddEventInOrder
    <2>6. \A c : c \notin DOMAIN connections' => Ended(c)'
        BY <2>3, <2>5 DEF EventInv
    <2> QED
        BY <1>2, <2>5, <2>6 DEF EventInv
<1> QED
    BY <1>1, <1>3, <1>4 DEF QueueLookup

\* FlowDeleted, for the connection that endConn is about to end.
LEMMA EventDeleted ==
    ASSUME TypeInv, EventInv, NEW k \in Nat, FlowDeleted(k), ending' = k,
           UNCHANGED connections
    PROVE  EventInv'
<1>1. PICK e \in Event : e = [Event |-> "Close", Cookie |-> k]
    BY DEF Event
<1>2. events' = Append(events, e) /\ NoDoubleOpen
    BY <1>1 DEF FlowDeleted, EventInv
<1>3. /\ NoDoubleOpen'
      /\ \A c : c # k /\ Ended(c) => Ended(c)'
      /\ Ended(k)'
    BY <1>1, <1>2, AddEventInOrder
<1>4. \A c : c \notin DOMAIN connections' => Ended(c)'
    BY <1>3 DEF EventInv
<1>5. Ended(ending)'
    BY <1>3 DEF Ended
<1> QED
    BY <1>3, <1>4, <1>5 DEF EventInv

LEMMA EventEndConn ==
    ASSUME EventInv, Ended(ending), endConn(ending), UNCHANGED events,
           pc' \notin {"endRetired", "endClosed"}
    PROVE  EventInv'
<1>1. \A c : c \notin DOMAIN connections' => c = ending \/ c \notin DOMAIN connections
    <2>1. CASE connections' = MapDelete(connections, ending)
        BY <2>1 DEF MapDelete, Restrict
    <2> QED
        BY <2>1 DEF endConn
<1>2. \A c : Ended(c)' = Ended(c)
    BY DEF Ended
<1>3. NoDoubleOpen'
    BY DEF EventInv, NoDoubleOpen, Earlier
<1>4. \A c : c \notin DOMAIN connections' => Ended(c)'
    BY <1>1, <1>2 DEF EventInv
<1> QED
    BY <1>3, <1>4 DEF EventInv

LEMMA EventStep == TypeInv /\ EventInv /\ [Next]_vars => EventInv'
<1> SUFFICES ASSUME TypeInv, EventInv, [Next]_vars PROVE EventInv'
    OBVIOUS
<1>1. CASE QueueLookup
    BY <1>1, EventQueueLookup
<1>2. CASE Retire
    <2>1. PICK k \in DOMAIN residual : FlowDeleted(k) /\ ending' = k
        BY <1>2 DEF Retire
    <2>2. k \in Nat
        BY SMTT(40), <2>1 DEF TypeInv, TypeOK, RoundTypeOK, IsCacheMap, Record, InetDiagMsg
    <2> QED
        BY <1>2, <2>1, <2>2, EventDeleted DEF Retire
<1>3. CASE CloseConn
    <2>1. PICK k \in toClose : FlowDeleted(k) /\ ending' = k
        BY <1>3 DEF CloseConn
    <2>2. k \in Nat
        BY <2>1 DEF TypeInv, TypeOK, RoundTypeOK
    <2> QED
        BY <1>3, <2>1, <2>2, EventDeleted DEF CloseConn
<1>4. CASE EndRetired \/ EndClosed
    BY <1>4, EventEndConn DEF EndRetired, EndClosed, EventInv
<1>5. CASE QueueExpire \/ Rotate
    <2>1. DOMAIN connections' = DOMAIN connections
        BY <1>5 DEF QueueExpire, Rotate, SetConn
    <2> QED
        BY <1>5, <2>1, EventFrame DEF QueueExpire, Rotate
<1>6. CASE Receive \/ SkipMessage \/ HandleRecord \/ FinishRound \/ Report
    <2>1. UNCHANGED <<events, connections>> /\ pc' \notin {"endRetired", "endClosed"}
        BY <1>6 DEF Receive, SkipMessage, HandleRecord, FinishRound, Report,
                    SwapNew, SwapChanged, SwapSame
    <2> QED
        BY <2>1, EventFrame
<1>7. CASE QueueReject \/ QueueKeep \/ RotateFails \/ QueueSend \/ CloseBegin \/ CloseEnd
    <2>1. UNCHANGED <<events, connections>> /\ pc' \notin {"endRetired", "endClosed"}
        BY <1>7 DEF QueueReject, QueueKeep, RotateFails, QueueSend, CloseBegin, CloseEnd
    <2> QED
        BY <2>1, EventFrame
<1>8. CASE Tick \/ SendBlock \/ CloseReader \/ Finished \/ UNCHANGED vars
    BY <1>8, EventFrame DEF Tick, SendBlock, CloseReader, Finished, vars
<1>9. CASE \E m \in Marshallers : Marshaller(m)
    BY <1>9, EventFrame DEF Marshaller, MarshalClose, MarshalSave, MarshalExit
<1> QED
    BY <1>1, <1>2, <1>3, <1>4, <1>5, <1>6, <1>7, <1>8, <1>9 DEF Next, SaverStep

\* The event server never hears of a connection twice without its end in
\* between, even when files cannot be created.
THEOREM NeverOpenedTwice == Spec => []NoDoubleOpen
<1>1. EventInv => NoDoubleOpen
    BY DEF EventInv
<1> QED
    BY <1>1, EventInit, EventStep, TypeInvariant, PTL DEF Spec

-----------------------------------------------------------------------------
(* When files can be created and no socket has the cookie 0, every socket   *)
(* in the cache has a connection with a file, and what is announced is what *)
(* is ended.                                                                *)

\* The messages that give records are about sockets in G.
About(msgs, G) == \A i \in DOMAIN msgs : Archivable(msgs[i]) => msgs[i].IDM \in G

BlocksAbout(G) == \A b \in Blocks : About(b.V4Messages, G) /\ About(b.V6Messages, G)

DeliveredInv(G) ==
    /\ \A i \in DOMAIN readerChannel :
          About(readerChannel[i].V4Messages, G) /\ About(readerChannel[i].V6Messages, G)
    /\ \A i \in DOMAIN work : Archivable(work[i].Message) => work[i].Message.IDM \in G

LEMMA DeliveredInit == ASSUME NEW G, Init PROVE DeliveredInv(G)
<1>1. readerChannel = <<>> /\ work = <<>>
    BY DEF Init
<1>2. DOMAIN readerChannel = {} /\ DOMAIN work = {}
    BY SMTT(40), <1>1
<1> QED
    BY <1>2 DEF DeliveredInv

\* A block joins the channel.
LEMMA DeliveredBlock ==
    ASSUME TypeInv, NEW G, DeliveredInv(G), NEW b \in TimedBlock,
           About(b.V4Messages, G), About(b.V6Messages, G),
           readerChannel' = Append(readerChannel, b), UNCHANGED work
    PROVE  DeliveredInv(G)'
<1>1. readerChannel \in Seq(TimedBlock)
    BY DEF TypeInv, TypeOK, RoundTypeOK
<1>2. \A i \in DOMAIN readerChannel' :
        \/ readerChannel'[i] = b
        \/ i \in DOMAIN readerChannel /\ readerChannel'[i] = readerChannel[i]
    BY SMTT(40), <1>1
<1> QED
    BY <1>2 DEF DeliveredInv

LEMMA DeliveredReceive ==
    ASSUME TypeInv, NEW G, DeliveredInv(G), Receive
    PROVE  DeliveredInv(G)'
<1>1. PICK b \in TimedBlock : b = Head(readerChannel)
    BY SeqHeadTail DEF Receive, TypeInv, TypeOK, RoundTypeOK
<1>2. /\ readerChannel \in Seq(TimedBlock) /\ readerChannel # <<>>
      /\ readerChannel' = Tail(readerChannel)
    BY DEF Receive, TypeInv, TypeOK, RoundTypeOK
<1>3. b = readerChannel[1] /\ 1 \in DOMAIN readerChannel
    BY SMTT(40), <1>1, <1>2
<1>4. About(b.V4Messages, G) /\ About(b.V6Messages, G)
    BY <1>3 DEF DeliveredInv
<1>5. \A i \in DOMAIN readerChannel' :
        i + 1 \in DOMAIN readerChannel /\ readerChannel'[i] = readerChannel[i + 1]
    BY SMTT(40), <1>2
<1>6. \A i \in DOMAIN work' : Archivable(work'[i].Message) => work'[i].Message.IDM \in G
    <2>1. PICK s \in Seq(TimedMessage) : s = Timed(b.V4Time, b.V4Messages)
        BY TimedType DEF TimedBlock
    <2>2. PICK t \in Seq(TimedMessage) : t = Timed(b.V6Time, b.V6Messages)
        BY TimedType DEF TimedBlock
    <2>3. work' = s \o t
        BY <1>1, <2>1, <2>2 DEF Receive
    <2>4. /\ \A i \in DOMAIN s : Archivable(s[i].Message) => s[i].Message.IDM \in G
          /\ \A i \in DOMAIN t : Archivable(t[i].Message) => t[i].Message.IDM \in G
        BY <1>4, <2>1, <2>2 DEF Timed, About
    <2>5. \A i \in DOMAIN work' : \/ i \in DOMAIN s /\ work'[i] = s[i]
                                  \/ \E j \in DOMAIN t : work'[i] = t[j]
        BY SMTT(40), <2>3, SeqConcat, SeqLen
    <2> QED
        BY <2>4, <2>5
<1> QED
    BY <1>5, <1>6 DEF DeliveredInv

\* The message that is handled next.
LEMMA DeliveredHead ==
    ASSUME TypeInv, NEW G, DeliveredInv(G), work # <<>>
    PROVE  /\ Head(work) \in TimedMessage
           /\ Archivable(Head(work).Message) =>
                \A t : MakeArchivalRecord(Head(work).Message, t).RawIDM \in G
<1>1. work \in Seq(TimedMessage)
    BY DEF TypeInv, TypeOK, RoundTypeOK
<1>2. Head(work) = work[1] /\ 1 \in DOMAIN work /\ Head(work) \in TimedMessage
    BY SMTT(40), <1>1
<1>3. \A t : MakeArchivalRecord(Head(work).Message, t).RawIDM = Head(work).Message.IDM
    BY DEF MakeArchivalRecord
<1> QED
    BY <1>2, <1>3 DEF DeliveredInv

\* The steps of the saver and the marshallers.
LEMMA DeliveredStep ==
    ASSUME TypeInv, NEW G, DeliveredInv(G),
           SaverStep \/ Tick \/ CloseReader \/ Finished \/ UNCHANGED vars
             \/ \E m \in Marshallers : Marshaller(m)
    PROVE  DeliveredInv(G)'
<1>1. CASE UNCHANGED <<readerChannel, work>>
    BY <1>1 DEF DeliveredInv
<1>2. CASE SkipMessage \/ HandleRecord
    <2>1. /\ work \in Seq(TimedMessage) /\ work # <<>> /\ work' = Tail(work)
          /\ UNCHANGED readerChannel
        BY <1>2 DEF SkipMessage, HandleRecord, TypeInv, TypeOK, RoundTypeOK
    <2>2. \A i \in DOMAIN work' : i + 1 \in DOMAIN work /\ work'[i] = work[i + 1]
        BY SMTT(40), <2>1
    <2> QED
        BY <2>1, <2>2 DEF DeliveredInv
<1>3. CASE FinishRound \/ Retire \/ EndRetired \/ Report \/ CloseBegin \/ CloseConn
             \/ EndClosed \/ CloseEnd
    BY <1>1, <1>3 DEF FinishRound, Retire, EndRetired, Report, CloseBegin, CloseConn,
                      EndClosed, CloseEnd
<1>4. CASE QueueReject \/ QueueLookup \/ QueueExpire \/ QueueKeep \/ Rotate
             \/ RotateFails \/ QueueSend
    BY <1>1, <1>4 DEF QueueReject, QueueLookup, QueueExpire, QueueKeep, Rotate,
                      RotateFails, QueueSend
<1>5. CASE Tick \/ CloseReader \/ Finished \/ UNCHANGED vars
    BY <1>1, <1>5 DEF Tick, CloseReader, Finished, vars
<1>6. CASE \E m \in Marshallers : Marshaller(m)
    BY <1>1, <1>6 DEF Marshaller, MarshalClose, MarshalSave, MarshalExit
<1> QED
    BY <1>2, <1>3, <1>4, <1>5, <1>6, DeliveredReceive DEF SaverStep

LEMMA DeliveredSendBlock ==
    ASSUME TypeInv, NEW G, DeliveredInv(G), BlocksAbout(G), SendBlock
    PROVE  DeliveredInv(G)'
<1>1. PICK b \in Blocks, t4 \in 0 .. now, t6 \in 0 .. now :
        readerChannel' = Append(readerChannel,
            [V4Time |-> t4, V4Messages |-> b.V4Messages,
             V6Time |-> t6, V6Messages |-> b.V6Messages])
    BY DEF SendBlock
<1>2. PICK tb : tb = [V4Time |-> t4, V4Messages |-> b.V4Messages,
                      V6Time |-> t6, V6Messages |-> b.V6Messages]
    OBVIOUS
<1>3. tb \in TimedBlock
    BY SMTT(40), <1>2 DEF TimedBlock, Block, TypeInv, TypeOK, RoundTypeOK
<1>4. About(tb.V4Messages, G) /\ About(tb.V6Messages, G)
    BY <1>2 DEF BlocksAbout
<1> QED
    BY <1>1, <1>2, <1>3, <1>4, DeliveredBlock DEF SendBlock

\* A socket with a cookie.
WithCookie == {d \in InetDiagMsg : d.Cookie # 0}

CookiesInBlocks == BlocksAbout(WithCookie)

CookieInv == DeliveredInv(WithCookie) /\ 0 \notin Known

LEMMA CookieInit == Init => CookieInv
    BY DeliveredInit, EmptyMapIs DEF Init, CacheInit, Known, CookieInv

LEMMA CookieHandle ==
    ASSUME TypeInv, CookieInv, HandleRecord
    PROVE  0 \notin Known'
<1>1. PICK ar : ar = MakeArchivalRecord(Head(work).Message, Head(work).Time)
    OBVIOUS
<1>2. Update(ar) /\ UNCHANGED residual
    BY <1>1 DEF HandleRecord
<1>3. ar.RawIDM \in WithCookie
    BY <1>1, DeliveredHead DEF HandleRecord, CookieInv
<1>4. ar.RawIDM.Cookie # 0
    BY <1>3 DEF WithCookie
<1>5. /\ DOMAIN current' = DOMAIN current \cup {ar.RawIDM.Cookie}
      /\ DOMAIN previous' = DOMAIN previous \ {ar.RawIDM.Cookie}
    BY <1>2 DEF Update, MapPut, MapDelete, Restrict
<1> QED
    BY <1>2, <1>4, <1>5 DEF CookieInv, Known

\* The cache only learns of new cookies in HandleRecord.
LEMMA CookieStep ==
    ASSUME TypeInv, CookieInv, DeliveredInv(WithCookie)', [Next]_vars
    PROVE  CookieInv'
<1>1. CASE Known' \subseteq Known
    BY <1>1 DEF CookieInv
<1>2. CASE UNCHANGED <<current, previous, residual>>
    BY <1>1, <1>2 DEF Known
<1>3. CASE FinishRound
    BY <1>1, <1>3, EmptyMapIs DEF FinishRound, EndCycle, Known
<1>4. CASE Retire
    <2>1. PICK k : residual' = MapDelete(residual, k)
        BY <1>4 DEF Retire
    <2>2. Known' \subseteq Known
        BY <1>4, <2>1, MapDeleteIs, ZenonT(30) DEF Retire, Known
    <2> QED
        BY <1>1, <2>2
<1>5. CASE Receive \/ SkipMessage \/ EndRetired \/ Report \/ CloseBegin \/ CloseConn
             \/ EndClosed \/ CloseEnd
    BY <1>2, <1>5 DEF Receive, SkipMessage, EndRetired, Report, CloseBegin, CloseConn,
                      EndClosed, CloseEnd
<1>6. CASE QueueReject \/ QueueLookup \/ QueueExpire \/ QueueKeep \/ Rotate
             \/ RotateFails \/ QueueSend
    BY <1>2, <1>6 DEF QueueReject, QueueLookup, QueueExpire, QueueKeep, Rotate,
                      RotateFails, QueueSend
<1>7. CASE Tick \/ SendBlock \/ CloseReader \/ Finished \/ UNCHANGED vars
    BY <1>2, <1>7 DEF Tick, SendBlock, CloseReader, Finished, vars
<1>8. CASE \E m \in Marshallers : Marshaller(m)
    BY <1>2, <1>8 DEF Marshaller, MarshalClose, MarshalSave, MarshalExit
<1>9. CASE HandleRecord
    BY <1>9, CookieHandle DEF CookieInv
<1> QED
    BY <1>3, <1>4, <1>5, <1>6, <1>7, <1>8, <1>9 DEF Next, SaverStep

\* Every cookie in the cache has a connection, but for the one queue is about
\* to look up; every connection has a file, but for the one queue opens a file
\* for; what endConn is called for exists, and Close calls it once for each.
ConnectedInv ==
    /\ pc \notin Closing =>
          \A c \in Known : c \in DOMAIN connections \/ (pc = "queue" /\ c = pm.RawIDM.Cookie)
    /\ \A c \in DOMAIN connections :
          HasFile(c) \/ (pc \in {"expire", "rotate"} /\ c = pm.RawIDM.Cookie)
    /\ pc \in {"endRetired", "endClosed"} => ending \in DOMAIN connections
    /\ pc \in Closing => toClose \subseteq DOMAIN connections
    /\ pc = "endClosed" => ending \notin toClose

LEMMA ConnectedInit == Init => ConnectedInv
    BY EmptyMapIs DEF Init, CacheInit, ConnectedInv, Known, Closing

LEMMA ConnectedRound ==
    ASSUME TypeInv, ConnectedInv,
           Receive \/ SkipMessage \/ HandleRecord \/ FinishRound \/ Retire \/ Report
    PROVE  ConnectedInv'
<1>1. UNCHANGED connections /\ pc \in {"recv", "handle", "retire"} /\ pc' \notin Closing
    BY DEF Receive, SkipMessage, HandleRecord, FinishRound, Retire, Report, Closing,
           SwapNew, SwapChanged, SwapSame
<1>2. \A c \in Known : c \in DOMAIN connections
    BY <1>1 DEF ConnectedInv, Closing
<1>3. \A c \in DOMAIN connections' : HasFile(c)'
    BY <1>1 DEF ConnectedInv, HasFile
<1>4. CASE Known' \subseteq Known /\ pc' # "endRetired"
    BY <1>1, <1>2, <1>3, <1>4 DEF ConnectedInv, Closing
<1>5. CASE Receive \/ SkipMessage \/ FinishRound \/ Report
    BY <1>4, <1>5, EmptyMapIs DEF Receive, SkipMessage, FinishRound, Report, EndCycle, Known
<1>6. CASE HandleRecord
    <2>1. PICK ar : Update(ar) /\ (SwapNew(ar) \/ SwapChanged(ar) \/ SwapSame(ar))
        BY <1>6 DEF HandleRecord
    <2>2. PICK k : k = ar.RawIDM.Cookie
        OBVIOUS
    <2>3. DOMAIN current' = DOMAIN current \cup {k} /\ DOMAIN previous' = DOMAIN previous \ {k}
        BY <2>1, <2>2 DEF Update, MapPut, MapDelete, Restrict
    <2>4. Known' \subseteq Known \cup {k}
        BY <1>6, <2>3 DEF HandleRecord, Known
    <2>5. (pc' = "queue" /\ pm'.RawIDM.Cookie = k) \/ (pc' = "handle" /\ k \in Known)
        BY <1>6, <2>1, <2>2 DEF HandleRecord, SwapNew, SwapChanged, SwapSame, Known
    <2> QED
        BY <1>1, <1>2, <1>3, <2>4, <2>5 DEF ConnectedInv, Closing
<1>7. CASE Retire
    <2>1. PICK k \in DOMAIN residual : residual' = MapDelete(residual, k) /\ ending' = k
        BY <1>7 DEF Retire
    <2>2. Known' \subseteq Known /\ k \in Known
        BY <1>7, <2>1, MapDeleteIs DEF Retire, Known
    <2> QED
        BY <1>1, <1>2, <1>3, <1>7, <2>1, <2>2 DEF ConnectedInv, Closing, Retire
<1> QED
    BY <1>5, <1>6, <1>7

LEMMA ConnectedQueue ==
    ASSUME TypeInv, CookieInv, ConnectedInv, ~CreateMayFail,
           QueueReject \/ QueueLookup \/ QueueExpire \/ QueueKeep \/ Rotate
             \/ RotateFails \/ QueueSend
    PROVE  ConnectedInv'
<1>1. PICK k : k = pm.RawIDM.Cookie
    OBVIOUS
<1>2. /\ pc \in Queueing /\ pc' \in Queueing \cup {"handle"}
      /\ Known' = Known
    BY DEF QueueReject, QueueLookup, QueueExpire, QueueKeep, Rotate, RotateFails,
           QueueSend, Queueing, Known
<1>3. k \in Known /\ k # 0
    BY <1>1, <1>2 DEF TypeInv, QueueOK, CookieInv, Known
<1>4. pc' \notin Closing \cup {"endRetired", "endClosed"} /\ pc \notin Closing
    BY <1>2 DEF Queueing, Closing
<1>5. ~QueueReject /\ ~RotateFails
    BY <1>1, <1>3 DEF QueueReject, RotateFails
<1>6. \A c \in Known \ {k} : c \in DOMAIN connections
    BY <1>1, <1>4 DEF ConnectedInv
<1>7. \A c \in DOMAIN connections \ {k} : HasFile(c)
    BY <1>1 DEF ConnectedInv
<1>8. CASE QueueLookup
    <2>1. pm' = pm /\ pc' = "expire"
        BY <1>8 DEF QueueLookup
    <2>2. /\ DOMAIN connections' = DOMAIN connections \cup {k}
          /\ \A c \in DOMAIN connections \ {k} : connections'[c] = connections[c]
        <3>1. \/ connections' = connections /\ k \in DOMAIN connections
              \/ connections' = MapPut(connections, k, newConnection(pm.Timestamp))
            BY <1>1, <1>8 DEF QueueLookup
        <3> QED
            BY <3>1 DEF MapPut
    <2>3. \A c \in DOMAIN connections' \ {k} : HasFile(c)'
        BY <1>7, <2>2 DEF HasFile
    <2> QED
        BY <1>1, <1>2, <1>4, <1>6, <2>1, <2>2, <2>3 DEF ConnectedInv
<1>9. CASE QueueExpire
    <2>1. pm' = pm /\ pc' = "rotate" /\ k \in DOMAIN connections
        BY <1>1, <1>9 DEF QueueExpire, TypeInv, QueueOK
    <2>2. /\ DOMAIN connections' = DOMAIN connections
          /\ \A c \in DOMAIN connections \ {k} : connections'[c] = connections[c]
        BY <1>1, <1>9 DEF QueueExpire, SetConn
    <2>3. \A c \in DOMAIN connections' \ {k} : HasFile(c)'
        BY <1>7, <2>2 DEF HasFile
    <2> QED
        BY <1>1, <1>2, <1>4, <1>6, <2>1, <2>2, <2>3 DEF ConnectedInv
<1>10. CASE QueueKeep
    <2>1. /\ pm' = pm /\ connections' = connections /\ k \in DOMAIN connections
          /\ pc' = IF conn.Writer = NilWriter THEN "rotate" ELSE "send"
        BY <1>1, <1>10 DEF QueueKeep, TypeInv, QueueOK
    <2>2. pc' = "send" => HasFile(k)
        BY <1>1, <2>1 DEF HasFile, conn
    <2>3. pc' \in {"rotate", "send"}
        BY <2>1
    <2>4. \A c \in DOMAIN connections' \ {k} : HasFile(c)'
        BY <1>7, <2>1 DEF HasFile
    <2>5. pc' = "send" => HasFile(k)'
        BY <2>1, <2>2 DEF HasFile
    <2> QED
        BY <1>1, <1>2, <1>4, <1>6, <2>1, <2>3, <2>4, <2>5 DEF ConnectedInv
<1>11. CASE Rotate
    <2>1. pc' = "send" /\ k \in DOMAIN connections
        BY <1>1, <1>11 DEF Rotate, TypeInv, QueueOK
    <2>2. /\ DOMAIN connections' = DOMAIN connections
          /\ \A c \in DOMAIN connections \ {k} : connections'[c] = connections[c]
        BY <1>1, <1>11 DEF Rotate, SetConn
    <2>3. connections'[k].Writer # NilWriter
        <3>1. TypeInv'
            BY <1>11, TypeRotate
        <3> QED
            BY <1>1, <1>11, <2>1, <3>1 DEF Rotate, TypeInv, QueueOK, conn
    <2>4. \A c \in DOMAIN connections' : HasFile(c)'
        BY <1>7, <2>2, <2>3 DEF HasFile
    <2> QED
        BY <1>2, <1>4, <1>6, <2>1, <2>2, <2>4 DEF ConnectedInv
<1>12. CASE QueueSend
    <2>1. pc' = "handle" /\ connections' = connections /\ k \in DOMAIN connections
        BY <1>1, <1>12 DEF QueueSend, TypeInv, QueueOK
    <2>2. HasFile(k)
        BY <1>1, <1>12, <2>1 DEF QueueSend, TypeInv, QueueOK, conn, HasFile
    <2>3. \A c \in DOMAIN connections' : HasFile(c)'
        BY <1>7, <2>1, <2>2 DEF HasFile
    <2> QED
        BY <1>2, <1>4, <1>6, <2>1, <2>3 DEF ConnectedInv
<1> QED
    BY <1>5, <1>8, <1>9, <1>10, <1>11, <1>12

\* endConn removes a connection that has a file.
LEMMA EndConnRemoves ==
    ASSUME NEW k, HasFile(k), endConn(k)
    PROVE  /\ DOMAIN connections' = DOMAIN connections \ {k}
           /\ \A c \in DOMAIN connections \ {k} : connections'[c] = connections[c]
<1>1. connections' = MapDelete(connections, k)
    BY DEF endConn, HasFile
<1> QED
    BY <1>1 DEF MapDelete, Restrict

LEMMA ConnectedEnd ==
    ASSUME GenerationInv, ConnectedInv,
           EndRetired \/ CloseBegin \/ CloseConn \/ EndClosed \/ CloseEnd
    PROVE  ConnectedInv'
<1>0. \A c \in DOMAIN connections : HasFile(c)
    BY DEF ConnectedInv, EndRetired, CloseBegin, CloseConn, EndClosed, CloseEnd
<1>1. CASE EndRetired \/ EndClosed
    <2>1. HasFile(ending) /\ endConn(ending)
        BY <1>0, <1>1 DEF EndRetired, EndClosed, ConnectedInv
    <2>2. /\ DOMAIN connections' = DOMAIN connections \ {ending}
          /\ \A c \in DOMAIN connections \ {ending} : connections'[c] = connections[c]
        BY <2>1, EndConnRemoves
    <2>3. \A c \in DOMAIN connections' : HasFile(c)'
        BY <1>0, <2>2 DEF HasFile
    <2>4. CASE EndRetired
        <3>1. Known' = Known /\ ending \notin Known /\ pc = "endRetired" /\ pc' = "retire"
            BY <2>4 DEF EndRetired, Known, GenerationInv
        <3> QED
            BY <2>2, <2>3, <3>1 DEF ConnectedInv, Closing
    <2>5. CASE EndClosed
        BY <2>2, <2>3, <2>5 DEF ConnectedInv, Closing, EndClosed
    <2> QED
        BY <1>1, <2>4, <2>5
<1>2. CASE CloseBegin \/ CloseConn \/ CloseEnd
    <2>1. connections' = connections /\ pc' \in Closing
        BY <1>2 DEF CloseBegin, CloseConn, CloseEnd, Closing
    <2>2. \A c \in DOMAIN connections' : HasFile(c)'
        BY <1>0, <2>1 DEF HasFile
    <2>3. /\ toClose' \subseteq DOMAIN connections'
          /\ pc' = "endClosed" => ending' \notin toClose' /\ ending' \in DOMAIN connections'
          /\ pc' # "endRetired"
        BY <1>2, <2>1 DEF CloseBegin, CloseConn, CloseEnd, ConnectedInv, Closing
    <2> QED
        BY <2>1, <2>2, <2>3 DEF ConnectedInv
<1> QED
    BY <1>1, <1>2

LEMMA ConnectedStep ==
    ASSUME TypeInv, GenerationInv, CookieInv, ConnectedInv, ~CreateMayFail, [Next]_vars
    PROVE  ConnectedInv'
<1>1. CASE UNCHANGED <<connections, current, previous, residual, pc, pm, toClose, ending>>
    BY <1>1 DEF ConnectedInv, Known, HasFile
<1>2. CASE Tick \/ SendBlock \/ CloseReader \/ Finished \/ UNCHANGED vars
    BY <1>1, <1>2 DEF Tick, SendBlock, CloseReader, Finished, vars
<1>3. CASE \E m \in Marshallers : Marshaller(m)
    BY <1>1, <1>3 DEF Marshaller, MarshalClose, MarshalSave, MarshalExit
<1> QED
    BY <1>2, <1>3, ConnectedRound, ConnectedQueue, ConnectedEnd DEF Next, SaverStep

\* c is announced and not yet ended.
Announced(c) ==
    c \in DOMAIN connections /\ ~(pc \in {"endRetired", "endClosed"} /\ ending = c)

AlternateInv == EventsAlternate /\ \A c : Announced(c) <=> ~Ended(c)

LEMMA AlternateInit == Init => AlternateInv
<1> SUFFICES ASSUME Init PROVE AlternateInv
    OBVIOUS
<1>1. events = <<>> /\ DOMAIN connections = {}
    BY EmptyMapIs DEF Init
<1>2. DOMAIN events = {}
    BY SMTT(40), <1>1
<1> QED
    BY <1>1, <1>2 DEF AlternateInv, EventsAlternate, Announced, Ended

\* An Open for what has ended, a Close for what has not.
LEMMA AddEventAlternates ==
    ASSUME TypeInv, AlternateInv, NEW e \in Event, events' = Append(events, e),
           e.Event = "Open" <=> ~Announced(e.Cookie),
           \A c : c # e.Cookie => (Announced(c)' <=> Announced(c)),
           Announced(e.Cookie)' <=> e.Event = "Open"
    PROVE  AlternateInv'
<1>1. PICK n \in Nat : n = Len(events)
    BY EventsSeq
<1>2. /\ DOMAIN events = 1 .. n /\ DOMAIN events' = 1 .. n + 1
      /\ \A i \in 1 .. n : events'[i] = events[i] /\ (OpenDue(i)' <=> OpenDue(i))
      /\ events'[n + 1] = e /\ (OpenDue(n + 1)' <=> Ended(e.Cookie))
      /\ \A c : c # e.Cookie => (Ended(c)' <=> Ended(c))
      /\ Ended(e.Cookie)' <=> e.Event = "Close"
    BY <1>1, EventAdded
<1>3. \A i \in DOMAIN events : events[i].Event = "Open" <=> OpenDue(i)
    BY DEF AlternateInv, EventsAlternate, OpenDue
<1>4. e.Event = "Open" <=> Ended(e.Cookie)
    BY DEF AlternateInv
<1>5. ASSUME NEW i \in DOMAIN events' PROVE events'[i].Event = "Open" <=> OpenDue(i)'
    <2>1. i \in 1 .. n \/ i = n + 1
        BY SMTT(40), <1>2
    <2>2. CASE i \in 1 .. n
        <3>1. i \in DOMAIN events /\ events'[i] = events[i] /\ (OpenDue(i)' <=> OpenDue(i))
            BY <1>2, <2>2
        <3> QED
            BY <1>3, <3>1
    <2>3. CASE i = n + 1
        <3>1. events'[i] = e /\ (OpenDue(i)' <=> Ended(e.Cookie))
            BY <1>2, <2>3
        <3> QED
            BY <1>4, <3>1
    <2> QED
        BY <2>1, <2>2, <2>3
<1>6. EventsAlternate'
    BY <1>5 DEF EventsAlternate, OpenDue
<1>7. e.Event = "Open" <=> e.Event # "Close"
    BY DEF Event
<1>8. ASSUME NEW c PROVE Announced(c)' <=> ~(Ended(c)')
    <2>1. CASE c = e.Cookie
        BY <1>2, <1>7, <2>1 DEF Announced, Ended
    <2>2. CASE c # e.Cookie
        BY <1>2, <2>2 DEF AlternateInv
    <2> QED
        BY <2>1, <2>2
<1> QED
    BY <1>6, <1>8 DEF AlternateInv

LEMMA AlternateFrame ==
    ASSUME AlternateInv, UNCHANGED events, \A c : Announced(c)' <=> Announced(c)
    PROVE  AlternateInv'
<1>1. EventsAlternate'
    BY DEF AlternateInv, EventsAlternate, Earlier
<1>2. \A c : Ended(c)' <=> Ended(c)
    BY DEF Ended
<1> QED
    BY <1>1, <1>2 DEF AlternateInv

LEMMA AlternateLookup ==
    ASSUME TypeInv, AlternateInv, QueueLookup
    PROVE  AlternateInv'
<1>1. PICK k \in Nat : k = pm.RawIDM.Cookie
    BY QueueTypes DEF QueueLookup, Queueing
<1>2. pc = "queue" /\ pc' = "expire"
    BY DEF QueueLookup
<1>3. CASE UNCHANGED <<connections, events>>
    BY <1>2, <1>3, AlternateFrame DEF Announced
<1>4. CASE k \notin DOMAIN connections
    <2>1. PICK e \in Event : e = [Event |-> "Open", Cookie |-> k]
        BY <1>1 DEF Event
    <2>2. events' = Append(events, e) /\ e.Event = "Open" /\ e.Cookie = k
        BY <1>1, <1>4, <2>1 DEF QueueLookup, FlowCreated
    <2>3. DOMAIN connections' = DOMAIN connections \cup {k}
        <3>1. connections' = MapPut(connections, k, newConnection(pm.Timestamp))
            BY <1>1, <1>4 DEF QueueLookup
        <3> QED
            BY <3>1 DEF MapPut
    <2>4. /\ \A c : c # k => (Announced(c)' <=> Announced(c))
          /\ Announced(k)' /\ ~Announced(k)
        BY <1>2, <1>4, <2>3 DEF Announced
    <2> QED
        BY <2>1, <2>2, <2>4, AddEventAlternates
<1> QED
    BY <1>1, <1>3, <1>4 DEF QueueLookup

\* FlowDeleted, for a connection that is there.
LEMMA AlternateDeleted ==
    ASSUME TypeInv, AlternateInv, NEW k \in Nat, k \in DOMAIN connections,
           FlowDeleted(k), ending' = k, UNCHANGED connections,
           pc \notin {"endRetired", "endClosed"}, pc' \in {"endRetired", "endClosed"}
    PROVE  AlternateInv'
<1>1. PICK e \in Event : e = [Event |-> "Close", Cookie |-> k]
    BY DEF Event
<1>2. events' = Append(events, e) /\ e.Event = "Close" /\ e.Cookie = k
    BY <1>1 DEF FlowDeleted
<1>3. /\ \A c : c # k => (Announced(c)' <=> Announced(c))
      /\ ~Announced(k)' /\ Announced(k)
    BY DEF Announced
<1> QED
    BY <1>2, <1>3, AddEventAlternates

LEMMA AlternateStep ==
    ASSUME TypeInv, AlternateInv, ConnectedInv, [Next]_vars
    PROVE  AlternateInv'
<1>1. CASE /\ UNCHANGED events /\ DOMAIN connections' = DOMAIN connections
           /\ UNCHANGED <<pc, ending>> \/ {pc, pc'} \cap {"endRetired", "endClosed"} = {}
    BY <1>1, AlternateFrame DEF Announced
<1>2. CASE QueueLookup
    BY <1>2, AlternateLookup
<1>3. CASE Retire
    <2>1. PICK k \in DOMAIN residual : FlowDeleted(k) /\ ending' = k
        BY <1>3 DEF Retire
    <2>2. k \in Nat
        <3>1. residual[k] \in Record /\ residual[k].RawIDM.Cookie = k
            BY <2>1 DEF TypeInv, TypeOK, RoundTypeOK, IsCacheMap
        <3> QED
            BY <3>1 DEF Record, InetDiagMsg
    <2>3. k \in DOMAIN connections
        BY <1>3 DEF Retire, ConnectedInv, Known, Closing
    <2> QED
        BY <1>3, <2>1, <2>2, <2>3, AlternateDeleted DEF Retire
<1>4. CASE CloseConn
    <2>1. PICK k \in toClose : FlowDeleted(k) /\ ending' = k
        BY <1>4 DEF CloseConn
    <2>2. k \in Nat
        BY <2>1 DEF TypeInv, TypeOK, RoundTypeOK
    <2>3. k \in DOMAIN connections
        BY <1>4 DEF CloseConn, ConnectedInv, Closing
    <2> QED
        BY <1>4, <2>1, <2>2, <2>3, AlternateDeleted DEF CloseConn
<1>5. CASE EndRetired \/ EndClosed
    <2>1. HasFile(ending) /\ endConn(ending) /\ pc \in {"endRetired", "endClosed"}
        BY <1>5 DEF EndRetired, EndClosed, ConnectedInv
    <2>2. DOMAIN connections' = DOMAIN connections \ {ending}
        BY <2>1, EndConnRemoves
    <2>3. UNCHANGED events /\ pc' \notin {"endRetired", "endClosed"}
        BY <1>5 DEF EndRetired, EndClosed
    <2> QED
        BY <2>1, <2>2, <2>3, AlternateFrame DEF Announced
<1>6. CASE QueueExpire \/ Rotate
    <2>1. DOMAIN connections' = DOMAIN connections
        BY <1>6 DEF QueueExpire, Rotate, SetConn
    <2> QED
        BY <1>1, <1>6, <2>1 DEF QueueExpire, Rotate
<1>7. CASE Receive \/ SkipMessage \/ HandleRecord \/ FinishRound \/ Report
    BY <1>1, <1>7 DEF Receive, SkipMessage, HandleRecord, FinishRound, Report,
                      SwapNew, SwapChanged, SwapSame
<1>8. CASE QueueReject \/ QueueKeep \/ RotateFails \/ QueueSend \/ CloseBegin \/ CloseEnd
    BY <1>1, <1>8 DEF QueueReject, QueueKeep, RotateFails, QueueSend, CloseBegin, CloseEnd
<1>9. CASE Tick \/ SendBlock \/ CloseReader \/ Finished \/ UNCHANGED vars
    BY <1>1, <1>9 DEF Tick, SendBlock, CloseReader, Finished, vars
<1>10. CASE \E m \in Marshallers : Marshaller(m)
    BY <1>1, <1>10 DEF Marshaller, MarshalClose, MarshalSave, MarshalExit
<1> QED
    BY <1>2, <1>3, <1>4, <1>5, <1>6, <1>7, <1>8, <1>9, <1>10 DEF Next, SaverStep

\* All of it, for a saver whose files can be created and whose blocks have
\* cookies.
LifeInv == CookieInv /\ ConnectedInv /\ AlternateInv

LEMMA LifeInvariant ==
    ASSUME ~CreateMayFail, CookiesInBlocks
    PROVE  Spec => []LifeInv
<1>1. Init => LifeInv
    BY CookieInit, ConnectedInit, AlternateInit DEF LifeInv
<1>2. TypeInv /\ CacheInv /\ GenerationInv /\ LifeInv /\ [Next]_vars => LifeInv'
    <2> SUFFICES ASSUME TypeInv, GenerationInv, LifeInv, [Next]_vars PROVE LifeInv'
        OBVIOUS
    <2>1. DeliveredInv(WithCookie)'
        BY DeliveredStep, DeliveredSendBlock DEF LifeInv, CookieInv, CookiesInBlocks, Next
    <2>2. CookieInv'
        BY <2>1, CookieStep DEF LifeInv
    <2>3. ConnectedInv' /\ AlternateInv'
        BY ConnectedStep, AlternateStep DEF LifeInv
    <2> QED
        BY <2>2, <2>3 DEF LifeInv
<1> QED
    BY <1>1, <1>2, CacheInvariant, PTL DEF Spec

(***************************************************************************)
(* Where Rotate can create its files and the kernel reports a cookie for   *)
(* every socket, the event server is told of each connection an Open, a    *)
(* Close, and an Open again only after that: endConn never announces the   *)
(* end of a connection that queue has not announced, and Close none that   *)
(* endConn has.                                                            *)
(***************************************************************************)
THEOREM EventsInPairs ==
    ASSUME ~CreateMayFail, CookiesInBlocks
    PROVE  Spec => []EventsAlternate
<1>1. LifeInv => EventsAlternate
    BY DEF LifeInv, AlternateInv
<1> QED
    BY <1>1, LifeInvariant, PTL

-----------------------------------------------------------------------------
(* Counting the records of the cache. *)

\* The cookies can be counted.
RetireInv == IsFiniteSet(Known)

\* What RetiredOnce says of a step.
RetiresOnce ==
    stats'.New - stats.New = Accounted' - Accounted + (IF ListedAgain THEN 1 ELSE 0)

\* The number of new cookies stays and so does the sum of the others.
LEMMA NothingNew ==
    ASSUME stats.New \in Nat, stats'.New = stats.New, ~ListedAgain,
           NEW a \in Int, Accounted = a, Accounted' = a
    PROVE  RetiresOnce
<1>1. stats.New - stats.New = 0 /\ a - a + 0 = 0
    BY SMTT(40)
<1> QED
    BY <1>1 DEF RetiresOnce

LEMMA RetireFrame ==
    ASSUME TypeInv, RetireInv, Known' = Known,
           stats'.New = stats.New, stats'.Expired = stats.Expired,
           pc = "endRetired" <=> pc' = "endRetired", ~ListedAgain
    PROVE  RetireInv' /\ RetiresOnce
<1>1. Cardinality(Known) \in Nat /\ stats.New \in Nat /\ stats.Expired \in Nat
    BY FS_CardinalityType DEF RetireInv, TypeInv, TypeOK, CountTypeOK
<1>2. PICK e \in {0, 1} : e = IF pc = "endRetired" THEN 1 ELSE 0
    OBVIOUS
<1>3. PICK a \in Int : a = stats.Expired + Cardinality(Known) + e
    BY SMTT(40), <1>1, <1>2
<1>4. Accounted = a /\ Accounted' = a
    BY <1>2, <1>3 DEF Accounted
<1> QED
    BY <1>1, <1>4, NothingNew DEF RetireInv

LEMMA RetireHandleRecord ==
    ASSUME TypeInv, CacheInv, GenerationInv, RetireInv, HandleRecord
    PROVE  RetireInv' /\ RetiresOnce
<1>1. PICK ar : /\ ar = MakeArchivalRecord(Head(work).Message, Head(work).Time)
                /\ Update(ar) /\ (SwapNew(ar) \/ SwapChanged(ar) \/ SwapSame(ar))
    BY DEF HandleRecord
<1>2. PICK k : k = ar.RawIDM.Cookie /\ k = Head(work).Message.IDM.Cookie
    BY <1>1 DEF MakeArchivalRecord
<1>3. DOMAIN current' = DOMAIN current \cup {k} /\ DOMAIN previous' = DOMAIN previous \ {k}
    BY <1>1, <1>2 DEF Update, MapPut, MapDelete, Restrict
<1>4. Known' = Known \cup {k} /\ pc = "handle" /\ pc' # "endRetired" /\ DOMAIN residual = {}
    BY <1>1, <1>3 DEF HandleRecord, Known, SwapNew, SwapChanged, SwapSame, CacheInv,
                      NothingResidual
<1>5. ListedAgain <=> k \in DOMAIN current
    BY <1>2 DEF HandleRecord, ListedAgain
<1>6. stats \in [Total : Nat, New : Nat, Diff : Nat, Expired : Nat]
    BY DEF TypeInv, TypeOK, CountTypeOK
<1>7. CASE SwapNew(ar)
    <2>1. stats'.New = stats.New + 1 /\ stats'.Expired = stats.Expired
        BY <1>6, <1>7 DEF SwapNew, Inc
    <2>2. ListedAgain <=> k \in Known
        BY <1>2, <1>4, <1>5, <1>7 DEF SwapNew, Known
    <2>3. IsFiniteSet(Known) /\ Cardinality(Known) \in Nat /\ stats.New \in Nat
          /\ stats.Expired \in Nat
        BY <1>6, FS_CardinalityType DEF RetireInv
    <2>4. PICK x \in {0, 1} : x = IF ListedAgain THEN 1 ELSE 0
        OBVIOUS
    <2>5. /\ IsFiniteSet(Known \cup {k})
          /\ Cardinality(Known \cup {k}) = Cardinality(Known) + 1 - x
        <3>1. /\ IsFiniteSet(Known \cup {k})
              /\ Cardinality(Known \cup {k}) =
                    IF k \in Known THEN Cardinality(Known) ELSE Cardinality(Known) + 1
            BY <2>3, FS_AddElement
        <3> QED
            BY SMTT(40), <2>2, <2>3, <2>4, <3>1
    <2>6. Accounted = stats.Expired + Cardinality(Known) + 0
        BY <1>4 DEF Accounted
    <2>7. Accounted' = stats.Expired + Cardinality(Known \cup {k}) + 0
        BY <1>4, <2>1 DEF Accounted
    <2>8. (stats.New + 1) - stats.New = Accounted' - Accounted + x
        BY SMTT(40), <2>3, <2>5, <2>6, <2>7
    <2> QED
        BY <1>4, <2>1, <2>4, <2>5, <2>8 DEF RetireInv, RetiresOnce
<1>8. CASE SwapChanged(ar) \/ SwapSame(ar)
    <2>1. stats'.New = stats.New /\ stats'.Expired = stats.Expired
        BY <1>6, <1>8 DEF SwapChanged, SwapSame, Inc
    <2>2. k \in DOMAIN previous
        BY <1>2, <1>8 DEF SwapChanged, SwapSame
    <2>3. Known' = Known /\ ~ListedAgain
        BY <1>4, <1>5, <2>2 DEF Known, GenerationInv
    <2> QED
        BY <1>4, <2>1, <2>3, RetireFrame
<1> QED
    BY <1>1, <1>7, <1>8

LEMMA RetireRetire ==
    ASSUME TypeInv, GenerationInv, RetireInv, Retire \/ EndRetired
    PROVE  RetireInv' /\ RetiresOnce
<1>1. Cardinality(Known) \in Nat /\ stats.New \in Nat /\ stats.Expired \in Nat
    BY FS_CardinalityType DEF RetireInv, TypeInv, TypeOK, CountTypeOK
<1>2. ~ListedAgain
    BY DEF ListedAgain, Retire, EndRetired
<1>3. CASE Retire
    <2>1. PICK k \in DOMAIN residual : residual' = MapDelete(residual, k)
        BY <1>3 DEF Retire
    <2>2. Known' = Known \ {k} /\ k \in Known
        <3>1. DOMAIN residual' = DOMAIN residual \ {k}
            BY <2>1, MapDeleteIs
        <3>2. k \notin DOMAIN current \cup DOMAIN previous
            BY DEF GenerationInv
        <3>3. UNCHANGED <<current, previous>>
            BY <1>3 DEF Retire
        <3> QED
            BY <3>1, <3>2, <3>3 DEF Known
    <2>3. IsFiniteSet(Known \ {k}) /\ Cardinality(Known \ {k}) = Cardinality(Known) - 1
        BY <2>2, FS_RemoveElement DEF RetireInv
    <2>4. pc = "retire" /\ pc' = "endRetired" /\ stats' = stats
        BY <1>3 DEF Retire
    <2>5. /\ Accounted = stats.Expired + Cardinality(Known) + 0
          /\ Accounted' = stats.Expired + Cardinality(Known \ {k}) + 1
        BY <2>2, <2>4 DEF Accounted
    <2>6. PICK a \in Int : a = stats.Expired + Cardinality(Known) + 0
        BY SMTT(40), <1>1
    <2>7. stats.Expired + Cardinality(Known \ {k}) + 1 = a
        BY SMTT(40), <1>1, <2>3, <2>6
    <2>8. RetiresOnce
        BY <1>1, <1>2, <2>4, <2>5, <2>6, <2>7, NothingNew
    <2> QED
        BY <2>2, <2>3, <2>8 DEF RetireInv
<1>4. CASE EndRetired
    <2>1. stats'.New = stats.New /\ stats'.Expired = stats.Expired + 1
        BY <1>4 DEF EndRetired, Inc, TypeInv, TypeOK, CountTypeOK
    <2>2. Known' = Known /\ pc = "endRetired" /\ pc' # "endRetired"
        BY <1>4 DEF EndRetired, Known
    <2>3. /\ Accounted = stats.Expired + Cardinality(Known) + 1
          /\ Accounted' = (stats.Expired + 1) + Cardinality(Known) + 0
        BY <2>1, <2>2 DEF Accounted
    <2>4. PICK a \in Int : a = stats.Expired + Cardinality(Known) + 1
        BY SMTT(40), <1>1
    <2>5. (stats.Expired + 1) + Cardinality(Known) + 0 = a
        BY SMTT(40), <1>1, <2>4
    <2>6. RetiresOnce
        BY <1>1, <1>2, <2>1, <2>3, <2>4, <2>5, NothingNew
    <2> QED
        BY <2>2, <2>6 DEF RetireInv
<1> QED
    BY <1>3, <1>4

LEMMA RetireStep ==
    ASSUME TypeInv, CacheInv, GenerationInv, RetireInv, [Next]_vars
    PROVE  RetireInv' /\ RetiresOnce
<1>1. CASE /\ UNCHANGED <<current, previous, residual, stats>>
           /\ (pc = "endRetired" <=> pc' = "endRetired")
           /\ ~ListedAgain
    BY <1>1, RetireFrame DEF Known
<1>2. CASE FinishRound
    <2>1. Known' = Known
        BY <1>2, EmptyMapIs DEF FinishRound, EndCycle, Known, CacheInv, NothingResidual
    <2> QED
        BY <1>2, <2>1, RetireFrame DEF FinishRound, ListedAgain
<1>3. CASE Receive \/ SkipMessage \/ Report
    BY <1>1, <1>3 DEF Receive, SkipMessage, Report, ListedAgain
<1>4. CASE QueueReject \/ QueueLookup \/ QueueExpire \/ QueueKeep \/ Rotate
             \/ RotateFails \/ QueueSend
    BY <1>1, <1>4 DEF QueueReject, QueueLookup, QueueExpire, QueueKeep, Rotate,
                      RotateFails, QueueSend, ListedAgain
<1>5. CASE CloseBegin \/ CloseConn \/ EndClosed \/ CloseEnd
    BY <1>1, <1>5 DEF CloseBegin, CloseConn, EndClosed, CloseEnd, ListedAgain
<1>6. CASE UNCHANGED <<current, previous, residual, stats, pc, work>>
    <2>1. work \in Seq(TimedMessage)
        BY DEF TypeInv, TypeOK, RoundTypeOK
    <2>2. work # <<>> => Tail(work) # work
        <3>1. work # <<>> => Len(Tail(work)) = Len(work) - 1
            BY <2>1, SeqHeadTail
        <3>2. Len(work) \in Nat
            BY <2>1, SeqLen
        <3> QED
            BY SMTT(40), <3>1, <3>2
    <2>3. ~ListedAgain
        BY <1>6, <2>2 DEF ListedAgain
    <2> QED
        BY <1>1, <1>6, <2>3
<1>7. CASE Tick \/ SendBlock \/ CloseReader \/ Finished \/ UNCHANGED vars
    BY <1>6, <1>7 DEF Tick, SendBlock, CloseReader, Finished, vars
<1>8. CASE \E m \in Marshallers : Marshaller(m)
    BY <1>6, <1>8 DEF Marshaller, MarshalClose, MarshalSave, MarshalExit
<1> QED
    BY <1>2, <1>3, <1>4, <1>5, <1>7, <1>8, RetireHandleRecord, RetireRetire
       DEF Next, SaverStep

(***************************************************************************)
(* Every cookie the saver counts as new enters the cache, stays in one of  *)
(* its generations, and leaves it through EndCycle's residual to be ended  *)
(* and counted as expired, once: whatever rounds the collector sends, no   *)
(* step drops a cookie, retires one twice or retires one that is cached.   *)
(***************************************************************************)
THEOREM RetiredExactlyOnce == Spec => RetiredOnce
<1>1. Init => RetireInv
    <2>1. Init => Known = {}
        BY EmptyMapIs DEF Init, CacheInit, Known
    <2> QED
        BY <2>1, FS_EmptySet DEF RetireInv
<1>2. TypeInv /\ CacheInv /\ GenerationInv /\ RetireInv /\ [Next]_vars
        => RetireInv' /\ RetiresOnce
    BY RetireStep
<1>3. RetiresOnce => stats'.New - stats.New
                       = Accounted' - Accounted + (IF ListedAgain THEN 1 ELSE 0)
    BY DEF RetiresOnce
<1> QED
    BY <1>1, <1>2, <1>3, CacheInvariant, PTL DEF Spec, RetiredOnce

-----------------------------------------------------------------------------
(* The wait group. *)

\* Done counts the goroutines that have not returned, and a marshaller returns
\* only after the saver has, with its channel drained.
ExitInv ==
    /\ marshalClosed => pc = "done"
    /\ exited # {} => pc = "done"
    /\ \A m \in exited : marshalChan[m] = <<>>
    /\ done = (NumMarshaller - Cardinality(exited)) + (IF pc = "done" THEN 0 ELSE 1)

LEMMA ExitedFinite ==
    ASSUME TypeInv
    PROVE  /\ IsFiniteSet(exited) /\ Cardinality(exited) \in Nat
           /\ IsFiniteSet(Marshallers) /\ Cardinality(Marshallers) = NumMarshaller
           /\ Cardinality(exited) = NumMarshaller => exited = Marshallers
<1>1. NumMarshaller - 1 \in Int /\ 0 \in Int
    BY SMTT(40)
<1>2. IsFiniteSet(Marshallers) /\ Cardinality(Marshallers) = NumMarshaller
    BY SMTT(40), <1>1, FS_Interval DEF Marshallers
<1>3. exited \in SUBSET Marshallers
    BY DEF TypeInv, TypeOK, ExitTypeOK
<1>4. /\ IsFiniteSet(exited)
      /\ Cardinality(Marshallers) = Cardinality(exited) => Marshallers = exited
    BY <1>2, <1>3, FS_Subset
<1>5. Cardinality(exited) \in Nat
    BY <1>4, FS_CardinalityType
<1> QED
    BY <1>2, <1>4, <1>5

LEMMA ExitInit == Init => ExitInv
<1> SUFFICES ASSUME Init PROVE ExitInv
    OBVIOUS
<1>1. Cardinality(exited) = 0
    BY FS_EmptySet DEF Init
<1>2. done = (NumMarshaller - Cardinality(exited)) + (IF pc = "done" THEN 0 ELSE 1)
    BY SMTT(40), <1>1 DEF Init
<1>3. marshalClosed => pc = "done"
    BY DEF Init
<1> QED
    BY <1>2, <1>3 DEF Init, ExitInv

LEMMA ExitMarshaller ==
    ASSUME TypeInv, ExitInv, NEW m \in Marshallers, Marshaller(m)
    PROVE  ExitInv'
<1>1. CASE MarshalExit(m)
    <2>1. /\ exited' = exited \cup {m} /\ m \notin exited /\ done' = done - 1
          /\ marshalChan' = marshalChan /\ marshalChan[m] = <<>>
          /\ pc' = pc
        BY <1>1 DEF MarshalExit
    <2>2. pc = "done"
        BY <1>1 DEF MarshalExit, ExitInv
    <2>3. Cardinality(exited') = Cardinality(exited) + 1 /\ Cardinality(exited) \in Nat
        BY <2>1, ExitedFinite, FS_AddElement
    <2>4. done = NumMarshaller - Cardinality(exited)
        BY SMTT(40), <2>2, <2>3 DEF ExitInv
    <2>5. done' = (NumMarshaller - Cardinality(exited')) + 0
        BY SMTT(40), <2>1, <2>3, <2>4
    <2>6. \A n \in exited' : marshalChan'[n] = <<>>
        BY <2>1 DEF ExitInv
    <2> QED
        BY <2>1, <2>2, <2>5, <2>6 DEF ExitInv
<1>2. CASE MarshalClose(m) \/ MarshalSave(m)
    <2>1. /\ marshalChan[m] # <<>>
          /\ marshalChan' = [marshalChan EXCEPT ![m] = Tail(@)]
          /\ UNCHANGED <<marshalClosed, exited, done, pc>>
        BY <1>2 DEF MarshalClose, MarshalSave
    <2>2. m \notin exited
        BY <2>1 DEF ExitInv
    <2>3. \A n \in exited : marshalChan'[n] = marshalChan[n]
        BY <2>1, <2>2 DEF TypeInv, TypeOK, WriterTypeOK, ExitTypeOK
    <2> QED
        BY <2>1, <2>3 DEF ExitInv
<1> QED
    BY <1>1, <1>2 DEF Marshaller

LEMMA ExitStep == TypeInv /\ ExitInv /\ [Next]_vars => ExitInv'
<1> SUFFICES ASSUME TypeInv, ExitInv, [Next]_vars PROVE ExitInv'
    OBVIOUS
<1>1. CASE Tick \/ SendBlock \/ CloseReader \/ Finished \/ UNCHANGED vars
    <2>1. UNCHANGED <<marshalClosed, exited, done, pc, marshalChan>>
        BY <1>1 DEF Tick, SendBlock, CloseReader, Finished, vars
    <2> QED
        BY <2>1 DEF ExitInv
<1>2. CASE SaverStep /\ ~CloseEnd
    <2>1. UNCHANGED <<marshalClosed, exited, done>> /\ pc # "done" /\ pc' # "done"
        <3>1. CASE Receive \/ SkipMessage \/ HandleRecord \/ FinishRound \/ Retire \/ Report
            BY <3>1 DEF Receive, SkipMessage, HandleRecord, FinishRound, Retire, Report,
                        SwapNew, SwapChanged, SwapSame
        <3>2. CASE QueueReject \/ QueueLookup \/ QueueExpire \/ QueueKeep
                     \/ Rotate \/ RotateFails \/ QueueSend
            BY <3>2 DEF QueueReject, QueueLookup, QueueExpire, QueueKeep, Rotate,
                        RotateFails, QueueSend
        <3>3. CASE EndRetired \/ CloseBegin \/ CloseConn \/ EndClosed
            BY <3>3 DEF EndRetired, CloseBegin, CloseConn, EndClosed
        <3> QED
            BY <1>2, <3>1, <3>2, <3>3 DEF SaverStep
    <2>2. exited = {}
        BY <2>1 DEF ExitInv
    <2> QED
        BY <2>1, <2>2 DEF ExitInv
<1>3. CASE CloseEnd
    <2>1. /\ UNCHANGED <<exited, marshalChan>> /\ pc = "close" /\ pc' = "done"
          /\ done' = done - 1
        BY <1>3 DEF CloseEnd
    <2>2. Cardinality(exited) \in Nat
        BY ExitedFinite
    <2>3. done = (NumMarshaller - Cardinality(exited)) + 1
        BY <2>1 DEF ExitInv
    <2>4. done' = (NumMarshaller - Cardinality(exited)) + 0
        BY SMTT(40), <2>1, <2>2, <2>3
    <2> QED
        BY <2>1, <2>4 DEF ExitInv
<1>4. CASE \E m \in Marshallers : Marshaller(m)
    BY <1>4, ExitMarshaller
<1> QED
    BY <1>1, <1>2, <1>3, <1>4 DEF Next

\* At the end nothing is waiting.
LEMMA ExitDrained ==
    ASSUME TypeInv, ExitInv, done = 0
    PROVE  pc = "done" /\ \A m \in Marshallers : marshalChan[m] = <<>>
<1>1. Cardinality(exited) \in Nat /\ exited \in SUBSET Marshallers
    BY ExitedFinite DEF TypeInv, TypeOK, ExitTypeOK
<1>2. Cardinality(exited) <= NumMarshaller
    BY <1>1, ExitedFinite, FS_Subset
<1>3. pc = "done" /\ Cardinality(exited) = NumMarshaller
    <2>1. CASE pc = "done"
        BY SMTT(40), <1>1, <2>1 DEF ExitInv
    <2>2. CASE pc # "done"
        BY SMTT(40), <1>1, <1>2, <2>2 DEF ExitInv
    <2> QED
        BY <2>1, <2>2
<1> QED
    BY <1>3, ExitedFinite DEF ExitInv

=============================================================================
