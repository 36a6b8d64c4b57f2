---------------------------- MODULE SaverProofs ----------------------------
(***************************************************************************)
(* How records are compared, and that the saver's state stays well-typed,  *)
(* for every set of blocks, number of marshallers and capacity of the      *)
(* channels.  The lemmas on sequences, records, maps and tasks are those   *)
(* the other proofs about the saver rest on.                               *)
(***************************************************************************)
EXTENDS SaverProperties, FiniteSetTheorems, WellFoundedInduction, TLAPS

\* Leaves are for Zenon, unless they cite another prover.
USE ZenonT(40)
USE SaverAssumption
USE DEF envVars, cacheVars, connVars, byteVars, repVars, roundVars, exitVars,
        loopVars, frameVars

-----------------------------------------------------------------------------
(* Sequences. *)

\* What the provers know of sequences, in the shapes the proofs below cite.
LEMMA SeqElement == ASSUME NEW S, NEW s \in Seq(S), NEW i \in 1 .. Len(s) PROVE s[i] \in S
    BY SMTT(20)
LEMMA SeqLen ==
    ASSUME NEW S, NEW s \in Seq(S)
    PROVE  Len(s) \in Nat /\ s \in [1 .. Len(s) -> S] /\ DOMAIN s = 1 .. Len(s)
    BY SMTT(20)
LEMMA SeqEmpty ==
    ASSUME NEW S
    PROVE  /\ <<>> \in Seq(S) /\ Len(<<>>) = 0
           /\ \A s \in Seq(S) : s # <<>> => Len(s) \in Nat \ {0}
    BY SMTT(20)
LEMMA SeqExcept ==
    ASSUME NEW S, NEW s \in Seq(S), NEW i \in 1 .. Len(s), NEW e \in S
    PROVE  LET t == [s EXCEPT ![i] = e]
           IN  /\ t \in Seq(S) /\ Len(t) = Len(s)
               /\ \A j \in 1 .. Len(s) : t[j] = IF j = i THEN e ELSE s[j]
    BY SMTT(20)
LEMMA SeqHeadTail ==
    ASSUME NEW S, NEW s \in Seq(S), s # <<>>
    PROVE  /\ Head(s) \in S /\ Tail(s) \in Seq(S) /\ Len(Tail(s)) = Len(s) - 1
           /\ \A i \in 1 .. Len(Tail(s)) : Tail(s)[i] = s[i + 1]
    BY SMTT(20)
LEMMA SeqConcat ==
    ASSUME NEW S, NEW s \in Seq(S), NEW t \in Seq(S)
    PROVE  /\ s \o t \in Seq(S) /\ Len(s \o t) = Len(s) + Len(t)
           /\ \A i \in 1 .. Len(s) + Len(t) :
                (s \o t)[i] = IF i <= Len(s) THEN s[i] ELSE t[i - Len(s)]
    BY SMTT(20)
LEMMA SeqAppend ==
    ASSUME NEW S, NEW s \in Seq(S), NEW e \in S
    PROVE  /\ Append(s, e) \in Seq(S) /\ Len(Append(s, e)) = Len(s) + 1
           /\ \A i \in 1 .. Len(s) : Append(s, e)[i] = s[i]
           /\ Append(s, e)[Len(s) + 1] = e
    BY SMTT(20)

-----------------------------------------------------------------------------
(* Records. *)

\* The Max of a non-empty set of numbers up to n is one of them, and the
\* largest: the loop for maxAttrType in MakeArchivalRecord computes one.
LEMMA MaxOfBounded ==
    ASSUME NEW n \in Nat, NEW S, S \subseteq 0 .. n, S # {}
    PROVE  /\ Max(S) \in S
           /\ \A x \in S : Max(S) >= x
<1> DEFINE T == {n - x : x \in S}
<1>1. T \subseteq Nat /\ T # {}
    <2>1. PICK s \in S : TRUE
        OBVIOUS
    <2>2. n - s \in T
        OBVIOUS
    <2>3. \A x \in S : n - x \in Nat
        BY SMTT(20)
    <2> QED
        BY <2>2, <2>3
<1>2. \E t \in T : \A y \in T : ~ (<<y, t>> \in OpToRel(<, Nat))
    BY <1>1, NatLessThanWellFounded, WFMin
<1>3. PICK t \in T : \A y \in T : ~ (y < t)
    BY <1>1, <1>2 DEF OpToRel
<1>4. PICK x \in S : t = n - x
    OBVIOUS
<1>5. \A y \in S : x >= y
    <2> TAKE y \in S
    <2>1. n - y \in T
        OBVIOUS
    <2>2. ~ (n - y < n - x)
        BY <1>3, <1>4, <2>1
    <2> QED
        BY SMTT(20), <2>2
<1> QED
    BY <1>5 DEF Max

\* The Attributes slice has between 1 and 2 * INET_DIAG_MAX + 1 elements.
LEMMA MaxAttrTypeRange ==
    ASSUME NEW attrs
    PROVE  maxAttrType(attrs) \in 0 .. 2 * INET_DIAG_MAX
<1> DEFINE S == {t \in 0 .. 2 * INET_DIAG_MAX :
                   t = 0 \/ \E i \in DOMAIN attrs : attrs[i].Type >= t}
<1>1. 2 * INET_DIAG_MAX \in Nat
    BY SMTT(20) DEF INET_DIAG_MAX
<1>2. S \subseteq 0 .. 2 * INET_DIAG_MAX /\ 0 \in S
    BY SMTT(20), <1>1
<1>3. Max(S) \in S
    <2> HIDE DEF S
    <2> QED
        BY <1>1, <1>2, MaxOfBounded
<1> QED
    BY <1>2, <1>3 DEF maxAttrType

\* Every element of the slice is nil or the bytes of one of the attributes.
LEMMA AttributeTableType ==
    ASSUME NEW attrs \in Seq(RouteAttr)
    PROVE  AttributeTable(attrs) \in Seq(Seq(AttrValue))
<1> DEFINE n == maxAttrType(attrs) + 1
           At(k) == Occurrences(attrs, k - 1)
           Cell(k) == IF At(k) = {} THEN <<>> ELSE <<attrs[Max(At(k))].Value>>
<1>1. n \in Nat
    <2>1. maxAttrType(attrs) \in 0 .. 2 * INET_DIAG_MAX
        BY MaxAttrTypeRange
    <2>2. 2 * INET_DIAG_MAX \in Nat
        BY SMTT(20) DEF INET_DIAG_MAX
    <2> QED
        BY SMTT(20), <2>1, <2>2
<1>2. \A k \in 1 .. n : Cell(k) \in Seq(AttrValue)
    <2> TAKE k \in 1 .. n
    <2>1. CASE At(k) = {}
        BY SMTT(20), <2>1
    <2>2. CASE At(k) # {}
        <3>1. Len(attrs) \in Nat /\ At(k) \subseteq 0 .. Len(attrs)
            BY SMTT(20), SeqLen DEF Occurrences
        <3>2. Max(At(k)) \in At(k)
            BY <2>2, <3>1, MaxOfBounded
        <3>3. Max(At(k)) \in 1 .. Len(attrs)
            BY <3>2, SeqLen DEF Occurrences
        <3>4. attrs[Max(At(k))].Value \in AttrValue
            <4>1. attrs[Max(At(k))] \in RouteAttr
                BY <3>3, SeqElement
            <4> QED
                BY <4>1 DEF RouteAttr
        <3> QED
            BY SMTT(20), <2>2, <3>4
    <2> QED
        BY <2>1, <2>2
<1>3. [k \in 1 .. n |-> Cell(k)] \in Seq(Seq(AttrValue))
    <2> HIDE DEF n, Cell
    <2> QED
        BY SMTT(20), <1>1, <1>2
<1> QED
    BY <1>3 DEF AttributeTable

\* MakeArchivalRecord returns a record, with the message's InetDiagMsg.
LEMMA RecordType ==
    ASSUME NEW msg \in NetlinkMessage, NEW t \in Nat
    PROVE  /\ MakeArchivalRecord(msg, t) \in Record
           /\ MakeArchivalRecord(msg, t).RawIDM = msg.IDM
<1>1. msg.IDM \in InetDiagMsg /\ msg.Attrs \in Seq(RouteAttr)
    BY DEF NetlinkMessage
<1> QED
    BY <1>1, AttributeTableType DEF MakeArchivalRecord, Record

\* GetStats returns numbers whatever the attributes are: the length of TCPInfo
\* is tested before the two fields are read.
LEMMA GetStatsType ==
    ASSUME NEW ar \in Record
    PROVE  GetStats(ar) \in [Sent : Nat, Received : Nat]
<1>1. CASE HasTCPInfo(ar)
    <2>1. ar.Attributes \in Seq(Seq(AttrValue))
        BY DEF Record
    <2>2. ar.Attributes[INET_DIAG_INFO + 1] \in Seq(AttrValue)
        BY SMTT(20), <1>1, <2>1, SeqLen, SeqElement
           DEF HasTCPInfo, HasDiagInfo, INET_DIAG_INFO
    <2>3. TCPInfo(ar) \in AttrValue
        BY SMTT(20), <1>1, <2>2, SeqEmpty, SeqElement DEF HasTCPInfo, TCPInfo
    <2> QED
        BY <2>3 DEF GetStats, AttrValue
<1>2. CASE ~HasTCPInfo(ar)
    BY <1>2 DEF GetStats
<1> QED
    BY <1>1, <1>2

-----------------------------------------------------------------------------
(* Comparing records. *)

\* Compare says NoMajorChange exactly when the two records agree in everything
\* significant, whatever attributes they have: none of its early returns
\* hides a later difference.
THEOREM CompareExact ==
    ASSUME NEW ar \in Record, NEW old \in Record
    PROVE  Compare(ar, old) = NoMajorChange <=> SameSignificant(ar, old)
<1> DEFINE a == old.Attributes
           b == ar.Attributes
           changed == {k \in DOMAIN a \ {INET_DIAG_INFO + 1} : a[k] # b[k]}
           change == AttributeChange(a[Min(changed)], b[Min(changed)])
<1> USE DEF NoMajorChange
<1>1. change # 0
    <2>1. \A x, y : AttributeChange(x, y) # 0
        BY SMTT(20) DEF AttributeChange, NewAttribute, LostAttribute, AttributeLength, Other
    <2> QED
        BY <2>1
<1>2. Len(a) \in Nat /\ Len(b) \in Nat
    BY SeqLen DEF Record
<1>3. Compare(ar, old) =
        IF old.RawIDM.State # ar.RawIDM.State THEN IDiagStateChange
        ELSE IF ~HasTCPInfo(old) \/ ~HasTCPInfo(ar) THEN NoTCPInfo
        ELSE IF \/ TCPInfo(old).Counters # TCPInfo(ar).Counters
                \/ TCPInfo(old).Received # TCPInfo(ar).Received
                \/ TCPInfo(old).Early # TCPInfo(ar).Early
             THEN StateOrCounterChange
        ELSE IF Len(a) < Len(b) THEN NewAttribute
        ELSE IF Len(a) > Len(b) THEN LostAttribute
        ELSE IF changed = {} THEN NoMajorChange
        ELSE change
    BY DEF Compare
<1>4. changed = {} <=> \A k \in DOMAIN a \ {INET_DIAG_INFO + 1} : a[k] = b[k]
    OBVIOUS
<1> HIDE DEF changed, change
<1> QED
    BY SMTT(20), <1>1, <1>2, <1>3, <1>4
       DEF SameSignificant, IDiagStateChange, NoTCPInfo, StateOrCounterChange,
           NewAttribute, LostAttribute

\* A record that has not changed since the last poll, when that one had not
\* changed since the last record saved, has not changed since that record:
\* the saver may compare with the last poll and still miss nothing.
THEOREM CompareTransitive ==
    ASSUME NEW r \in Record, NEW s \in Record, NEW t \in Record,
           Compare(s, r) = NoMajorChange, Compare(t, s) = NoMajorChange
    PROVE  Compare(t, r) = NoMajorChange
<1>1. SameSignificant(s, r) /\ SameSignificant(t, s)
    BY CompareExact
<1>2. \A x \in Record : DOMAIN x.Attributes = 1 .. Len(x.Attributes)
    BY SeqLen DEF Record
<1>3. SameSignificant(t, r)
    <2>1. DOMAIN r.Attributes = DOMAIN s.Attributes
        BY <1>1, <1>2 DEF SameSignificant
    <2> QED
        BY <1>1, <2>1 DEF SameSignificant
<1> QED
    BY <1>3, CompareExact

\* Anonymize changes the two addresses only, and a second time nothing.
LEMMA AnonymizeKeeps ==
    ASSUME NEW ar \in Record, NEW anon
    PROVE  LET an == Anonymize(ar, anon)
           IN  /\ an \in Record
               /\ an.Timestamp = ar.Timestamp
               /\ an.Attributes = ar.Attributes
               /\ an.RawIDM.State = ar.RawIDM.State
               /\ an.RawIDM.Cookie = ar.RawIDM.Cookie
               /\ an.RawIDM.Family = ar.RawIDM.Family
               /\ Anonymize(an, anon) = an
<1> DEFINE an == Anonymize(ar, anon)
<1>1. ar.RawIDM \in InetDiagMsg
    BY DEF Record
<1>2. PICK src, dst : /\ src = AnonymizeIP(ar.RawIDM.Src, anon)
                      /\ dst = AnonymizeIP(ar.RawIDM.Dst, anon)
    OBVIOUS
<1>3. src \in Addr /\ dst \in Addr
    BY <1>1, <1>2 DEF AnonymizeIP, InetDiagMsg, Addr
<1>4. AnonymizeIP(src, anon) = src /\ AnonymizeIP(dst, anon) = dst
    BY <1>2 DEF AnonymizeIP
<1>5. an = [ar EXCEPT !.RawIDM = [ar.RawIDM EXCEPT !.Src = src, !.Dst = dst]]
    BY <1>1, <1>2 DEF Anonymize, Record, InetDiagMsg
<1>6. /\ an \in Record
      /\ an.Timestamp = ar.Timestamp /\ an.Attributes = ar.Attributes
      /\ an.RawIDM = [ar.RawIDM EXCEPT !.Src = src, !.Dst = dst]
    BY <1>1, <1>3, <1>5 DEF Record, InetDiagMsg
<1>7. /\ an.RawIDM.Src = src /\ an.RawIDM.Dst = dst
      /\ an.RawIDM.State = ar.RawIDM.State
      /\ an.RawIDM.Cookie = ar.RawIDM.Cookie
      /\ an.RawIDM.Family = ar.RawIDM.Family
      /\ an.RawIDM \in InetDiagMsg
    BY <1>1, <1>6 DEF InetDiagMsg, Record
<1>8. Anonymize(an, anon) = an
    <2> HIDE DEF an
    <2>1. Anonymize(an, anon) = [an EXCEPT !.RawIDM.Src = src, !.RawIDM.Dst = dst]
        BY <1>4, <1>6, <1>7 DEF Anonymize, Record, InetDiagMsg
    <2>2. [an.RawIDM EXCEPT !.Src = src, !.Dst = dst] = an.RawIDM
        BY <1>7 DEF InetDiagMsg
    <2>3. Anonymize(an, anon)
            = [an EXCEPT !.RawIDM = [an.RawIDM EXCEPT !.Src = src, !.Dst = dst]]
        BY <1>6, <2>1 DEF Record
    <2> QED
        BY <1>6, <2>2, <2>3 DEF Record
<1> QED
    BY <1>6, <1>7, <1>8

\* Anonymizing changes nothing the saver reads.  The marshaller anonymizes the
\* record in place while the saver, which has put the same record into the
\* cache, goes on to compare it, add up its bytes and look up its connection
\* by its cookie: none of these can tell whether it has been done.
THEOREM AnonymizeInvisible ==
    ASSUME NEW ar \in Record, NEW old \in Record, NEW anon
    PROVE  /\ Anonymize(ar, anon) \in Record
           /\ Anonymize(ar, anon).RawIDM.Cookie = ar.RawIDM.Cookie
           /\ CanAnonymize(Anonymize(ar, anon)) = CanAnonymize(ar)
           /\ GetStats(Anonymize(ar, anon)) = GetStats(ar)
           /\ Compare(old, Anonymize(ar, anon)) = Compare(old, ar)
           /\ Anonymize(Anonymize(ar, anon), anon) = Anonymize(ar, anon)
<1> DEFINE an == Anonymize(ar, anon)
<1>2. /\ an \in Record
      /\ an.Attributes = ar.Attributes
      /\ an.RawIDM.State = ar.RawIDM.State
      /\ an.RawIDM.Cookie = ar.RawIDM.Cookie
      /\ an.RawIDM.Family = ar.RawIDM.Family
      /\ Anonymize(an, anon) = an
    BY AnonymizeKeeps
<1> HIDE DEF an
<1>4. HasTCPInfo(an) = HasTCPInfo(ar) /\ TCPInfo(an) = TCPInfo(ar)
    BY <1>2 DEF HasTCPInfo, HasDiagInfo, TCPInfo
<1>5. GetStats(an) = GetStats(ar)
    BY <1>4 DEF GetStats
<1>6. Compare(old, an) = Compare(old, ar)
    BY <1>2, <1>4 DEF Compare
<1>7. CanAnonymize(an) = CanAnonymize(ar)
    BY <1>2 DEF CanAnonymize
<1> QED
    BY <1>2, <1>5, <1>6, <1>7 DEF an

-----------------------------------------------------------------------------
(* Maps, channels and arithmetic. *)

LEMMA MapPutIs ==
    ASSUME NEW f, NEW k, NEW v
    PROVE  /\ DOMAIN MapPut(f, k, v) = DOMAIN f \cup {k}
           /\ MapPut(f, k, v)[k] = v
           /\ \A x \in DOMAIN f : x # k => MapPut(f, k, v)[x] = f[x]
    BY DEF MapPut

LEMMA MapDeleteIs ==
    ASSUME NEW f, NEW k
    PROVE  /\ DOMAIN MapDelete(f, k) = DOMAIN f \ {k}
           /\ \A x \in DOMAIN f : x # k => MapDelete(f, k)[x] = f[x]
    BY DEF MapDelete, Restrict

LEMMA EmptyMapIs == DOMAIN EmptyMap = {}
    BY DEF EmptyMap

LEMMA CacheMapPut ==
    ASSUME NEW f, IsCacheMap(f), NEW r \in Record
    PROVE  IsCacheMap(MapPut(f, r.RawIDM.Cookie, r))
    BY DEF MapPut, IsCacheMap

LEMMA CacheMapDelete ==
    ASSUME NEW f, IsCacheMap(f), NEW k
    PROVE  IsCacheMap(MapDelete(f, k))
    BY DEF MapDelete, Restrict, IsCacheMap

LEMMA CacheMapEmpty == IsCacheMap(EmptyMap)
    BY EmptyMapIs DEF IsCacheMap

\* cookie%uint64(len(svr.MarshalChans)) is the index of a marshaller.
LEMMA MarshallerOfType ==
    ASSUME NEW c \in Nat
    PROVE  MarshallerOf(c) \in Marshallers
    BY SMTT(20) DEF MarshallerOf, Marshallers

LEMMA DateType ==
    ASSUME NEW t \in Nat
    PROVE  Date(t) \in Nat
    BY SMTT(20) DEF Date

LEMMA PlusType ==
    ASSUME NEW a \in Bytes, NEW b \in Bytes
    PROVE  Plus(a, b) \in Bytes /\ Minus(a, b) \in Bytes
    BY SMTT(20) DEF Plus, Minus, Bytes

LEMMA StatsType ==
    ASSUME NEW r \in Record
    PROVE  GetStats(r) \in Bytes
    BY SMTT(20), GetStatsType DEF Bytes

LEMMA SendType ==
    ASSUME marshalChan \in [Marshallers -> Seq(Task)],
           NEW m \in Marshallers, NEW t \in Task, Send(m, t)
    PROVE  marshalChan' \in [Marshallers -> Seq(Task)]
    BY SMTT(20) DEF Send

LEMMA FlowEventType ==
    ASSUME events \in Seq(Event), NEW c \in Nat
    PROVE  /\ Append(events, [Event |-> "Open", Cookie |-> c]) \in Seq(Event)
           /\ Append(events, [Event |-> "Close", Cookie |-> c]) \in Seq(Event)
<1>1. /\ [Event |-> "Open", Cookie |-> c] \in Event
      /\ [Event |-> "Close", Cookie |-> c] \in Event
    BY DEF Event
<1> QED
    BY <1>1, SeqAppend

LEMMA TimedType ==
    ASSUME NEW t \in Nat, NEW msgs \in Seq(NetlinkMessage)
    PROVE  Timed(t, msgs) \in Seq(TimedMessage)
<1>1. Len(msgs) \in Nat /\ DOMAIN msgs = 1 .. Len(msgs)
    BY SeqLen
<1>2. \A i \in 1 .. Len(msgs) : [Time |-> t, Message |-> msgs[i]] \in TimedMessage
    BY SeqElement DEF TimedMessage
<1> QED
    BY SMTT(20), <1>1, <1>2 DEF Timed

-----------------------------------------------------------------------------
(* Type correctness.  The type of the connection that queue works on is     *)
(* known only because that connection exists, so TypeOK is not inductive by *)
(* itself: QueueOK says what queue has established at each of its places.   *)

QueueOK ==
    /\ pc \in Queueing => pm.RawIDM.Cookie \in DOMAIN current
    /\ pc \in {"expire", "rotate", "send"} => pm.RawIDM.Cookie \in DOMAIN connections
    /\ pc = "rotate" => conn.Writer = NilWriter
    /\ pc = "send" => conn.Writer # NilWriter

TypeInv == TypeOK /\ QueueOK

LEMMA TypeInit == Init => TypeInv
<1> SUFFICES ASSUME Init PROVE TypeInv
    OBVIOUS
<1>1. RoundTypeOK
    BY SMTT(20), CacheMapEmpty DEF Init, CacheInit, RoundTypeOK, Queueing, Closing
<1>2. WriterTypeOK
    BY SMTT(20), EmptyMapIs DEF Init, WriterTypeOK
<1>3. CountTypeOK
    BY SMTT(20), EmptyMapIs DEF Init, CountTypeOK, NoBytes, Bytes
<1>4. ExitTypeOK
    BY SMTT(20) DEF Init, ExitTypeOK
<1>5. FlagTypeOK
    BY DEF Init, FlagTypeOK
<1>6. QueueOK
    BY DEF Init, QueueOK, Queueing
<1> QED
    BY <1>1, <1>2, <1>3, <1>4, <1>5, <1>6 DEF TypeInv, TypeOK

\* What leaves the variables of a part of TypeInv alone preserves it.
LEMMA TypeFrame ==
    ASSUME TypeInv
    PROVE  /\ UNCHANGED <<envVars, cacheVars, residual, pc, work, pm, ending,
                          blockTime, toClose>> => RoundTypeOK'
           /\ UNCHANGED <<connVars, events>> => WriterTypeOK'
           /\ UNCHANGED <<byteVars, repVars, live, stats>> => CountTypeOK'
           /\ UNCHANGED exitVars => ExitTypeOK'
           /\ UNCHANGED <<readerClosed, marshalClosed>> => FlagTypeOK'
           /\ UNCHANGED <<pc, pm, current, connections>> => QueueOK'
<1> USE DEF TypeInv, TypeOK
<1>1. UNCHANGED <<envVars, cacheVars, residual, pc, work, pm, ending,
                  blockTime, toClose>> => RoundTypeOK'
    BY DEF RoundTypeOK, IsCacheMap
<1>2. UNCHANGED <<connVars, events>> => WriterTypeOK'
    BY DEF WriterTypeOK
<1>3. UNCHANGED <<byteVars, repVars, live, stats>> => CountTypeOK'
    BY DEF CountTypeOK
<1>4. UNCHANGED exitVars => ExitTypeOK'
    BY DEF ExitTypeOK
<1>5. UNCHANGED <<readerClosed, marshalClosed>> => FlagTypeOK'
    BY DEF FlagTypeOK
<1>6. UNCHANGED <<pc, pm, current, connections>> => QueueOK'
    BY DEF QueueOK, conn
<1> QED
    BY <1>1, <1>2, <1>3, <1>4, <1>5, <1>6

-----------------------------------------------------------------------------
\* The record queue works on, and its connection once there is one.
LEMMA QueueTypes ==
    ASSUME TypeInv, pc \in Queueing
    PROVE  /\ pm \in Record
           /\ pm.RawIDM.Cookie \in Nat
           /\ pm.Timestamp \in Nat
           /\ MarshallerOf(pm.RawIDM.Cookie) \in Marshallers
           /\ pc # "queue" => conn \in Connection
<1>1. pm \in Record
    BY DEF TypeInv, TypeOK, RoundTypeOK
<1>2. pm.RawIDM.Cookie \in Nat /\ pm.Timestamp \in Nat
    BY <1>1 DEF Record, InetDiagMsg
<1>3. pc # "queue" => conn \in Connection
    BY DEF conn, TypeInv, TypeOK, QueueOK, WriterTypeOK, Queueing
<1> QED
    BY <1>1, <1>2, <1>3, MarshallerOfType

\* A step of queue: it leaves the round and the counts alone, and reaches the
\* handler or another of its places.
LEMMA TypeQueueStep ==
    ASSUME TypeInv, pc \in Queueing, UNCHANGED <<frameVars, ending, stats>>,
           \/ pc' = "handle"
           \/ pc' \in Queueing /\ pm' = pm,
           WriterTypeOK', QueueOK'
    PROVE  TypeInv'
<1>1. RoundTypeOK'
    BY DEF TypeInv, TypeOK, RoundTypeOK, IsCacheMap, Queueing
<1> QED
    BY <1>1, TypeFrame DEF TypeInv, TypeOK

LEMMA TypeRotate == ASSUME TypeInv, Rotate PROVE TypeInv'
<1> DEFINE w == Len(writers) + 1
           new == [Name |-> FileName, Created |-> now, Open |-> TRUE]
           c == [conn EXCEPT !.Writer = w, !.Expiration = @ + FilePeriod, !.Sequence = @ + 1]
<1>1. pc = "rotate" /\ pc \in Queueing
    BY DEF Rotate, Queueing
<1>2. conn \in Connection /\ pm.RawIDM.Cookie \in Nat /\ now \in Nat
    BY <1>1, QueueTypes DEF TypeInv, TypeOK, RoundTypeOK
<1>3. FileName \in [Date : Nat, Cookie : Nat, Sequence : Nat]
    BY <1>2, DateType DEF FileName, Connection
<1>4. new \in Writer
    BY <1>2, <1>3 DEF Writer
<1>5. w \in Nat \ {0}
    BY SMTT(20), SeqLen DEF TypeInv, TypeOK, WriterTypeOK
<1>6. c \in Connection /\ c.Writer # NilWriter
    <2>1. conn.Expiration + FilePeriod \in Nat /\ conn.Sequence + 1 \in Nat
        BY SMTT(20), <1>2 DEF Connection
    <2>2. \A x \in Connection, e, n \in Nat, v \in Nat \ {0} :
            LET y == [x EXCEPT !.Writer = v, !.Expiration = e, !.Sequence = n]
            IN  y \in Connection /\ y.Writer # NilWriter
        BY DEF Connection, NilWriter
    <2> QED
        BY <1>2, <1>5, <2>1, <2>2
<1>7. \A x \in DOMAIN connections' : x \in Nat /\ connections'[x] \in Connection
    BY <1>6 DEF Rotate, SetConn, TypeInv, TypeOK, WriterTypeOK
<1>8. /\ writers' \in Seq(Writer)
      /\ lines' \in Seq(Seq(Record \cup HeaderRecord))
      /\ Len(lines') = Len(writers')
    <2>1. Header \in HeaderRecord
        BY <1>2 DEF Header, HeaderRecord, Connection
    <2>2. <<Header>> \in Seq(Record \cup HeaderRecord)
        BY SMTT(20), <2>1
    <2>3. writers' = Append(writers, new) /\ lines' = Append(lines, <<Header>>)
        BY DEF Rotate
    <2> HIDE DEF new
    <2> QED
        BY SMTT(20), <1>4, <2>2, <2>3 DEF TypeInv, TypeOK, WriterTypeOK
<1>9. WriterTypeOK'
    BY <1>7, <1>8 DEF Rotate, TypeInv, TypeOK, WriterTypeOK
<1>10. QueueOK'
    BY <1>1, <1>6 DEF Rotate, SetConn, QueueOK, Queueing, conn, TypeInv
<1> QED
    BY <1>1, <1>9, <1>10, TypeQueueStep DEF Rotate, Queueing

-----------------------------------------------------------------------------

LEMMA endConnType ==
    ASSUME TypeInv, NEW c \in Nat, endConn(c), UNCHANGED <<writers, lines, events>>
    PROVE  WriterTypeOK'
<1> USE DEF TypeInv, TypeOK, WriterTypeOK
<1>1. CASE UNCHANGED <<connections, marshalChan>>
    BY <1>1
<1>2. CASE /\ c \in DOMAIN connections /\ connections[c].Writer # NilWriter
           /\ Send(MarshallerOf(c), CloseTask(connections[c].Writer))
           /\ connections' = MapDelete(connections, c)
    <2>1. CloseTask(connections[c].Writer) \in Task
        BY <1>2 DEF CloseTask, Task, Connection
    <2>2. marshalChan' \in [Marshallers -> Seq(Task)]
        BY <1>2, <2>1, MarshallerOfType, SendType
    <2> QED
        BY <1>2, <2>2 DEF MapDelete, Restrict
<1> QED
    BY <1>1, <1>2 DEF endConn

-----------------------------------------------------------------------------
\* The task a marshaller receives, and the channel without it.
LEMMA MarshalHead ==
    ASSUME TypeInv, NEW m \in Marshallers, marshalChan[m] # <<>>
    PROVE  /\ Head(marshalChan[m]) \in Task
           /\ [marshalChan EXCEPT ![m] = Tail(@)] \in [Marshallers -> Seq(Task)]
<1>1. marshalChan[m] \in Seq(Task)
    BY DEF TypeInv, TypeOK, WriterTypeOK
<1>2. Head(marshalChan[m]) \in Task /\ Tail(marshalChan[m]) \in Seq(Task)
    BY <1>1, SeqHeadTail
<1> QED
    BY <1>2 DEF TypeInv, TypeOK, WriterTypeOK

LEMMA TypeStep == TypeInv /\ [Next]_vars => TypeInv'
<1>TypeTick. ASSUME TypeInv, Tick PROVE TypeInv'
    <2> USE <1>TypeTick
    <2>1. RoundTypeOK'
        BY SMTT(20) DEF TypeInv, TypeOK, RoundTypeOK, IsCacheMap, Tick
    <2> QED
        BY <2>1, TypeFrame DEF Tick, TypeInv, TypeOK
<1>TypeSendBlock. ASSUME TypeInv, SendBlock PROVE TypeInv'
    <2> USE <1>TypeSendBlock
    <2>1. PICK b \in Blocks, t4 \in 0 .. now, t6 \in 0 .. now :
            readerChannel' = Append(readerChannel,
                [V4Time |-> t4, V4Messages |-> b.V4Messages,
                 V6Time |-> t6, V6Messages |-> b.V6Messages])
        BY DEF SendBlock
    <2>2. [V4Time |-> t4, V4Messages |-> b.V4Messages,
           V6Time |-> t6, V6Messages |-> b.V6Messages] \in TimedBlock
        BY SMTT(20) DEF TimedBlock, Block, TypeInv, TypeOK, RoundTypeOK
    <2>3. readerChannel' \in Seq(TimedBlock)
        BY SMTT(20), <2>1, <2>2 DEF TypeInv, TypeOK, RoundTypeOK
    <2>4. RoundTypeOK'
        BY SMTT(20), <2>3 DEF TypeInv, TypeOK, RoundTypeOK, IsCacheMap, SendBlock
    <2> QED
        BY <2>4, TypeFrame DEF SendBlock, TypeInv, TypeOK
<1>TypeCloseReader. ASSUME TypeInv, CloseReader PROVE TypeInv'
    <2> USE <1>TypeCloseReader
    <2>1. FlagTypeOK'
        BY DEF TypeInv, TypeOK, FlagTypeOK, CloseReader
    <2>2. RoundTypeOK'
        BY DEF TypeInv, TypeOK, RoundTypeOK, IsCacheMap, CloseReader
    <2> QED
        BY <2>1, <2>2, TypeFrame DEF CloseReader, TypeInv, TypeOK
<1>TypeReceive. ASSUME TypeInv, Receive PROVE TypeInv'
    <2> USE <1>TypeReceive
    <2> DEFINE b == Head(readerChannel)
    <2>1. b \in TimedBlock /\ readerChannel' \in Seq(TimedBlock)
        BY SeqHeadTail DEF Receive, TypeInv, TypeOK, RoundTypeOK
    <2>2. work' \in Seq(TimedMessage) /\ blockTime' \in Nat
        <3>1. /\ Timed(b.V4Time, b.V4Messages) \in Seq(TimedMessage)
              /\ Timed(b.V6Time, b.V6Messages) \in Seq(TimedMessage)
            BY <2>1, TimedType DEF TimedBlock
        <3> QED
            BY <2>1, <3>1, SeqConcat DEF Receive, TimedBlock
    <2>3. RoundTypeOK'
        BY <2>1, <2>2 DEF TypeInv, TypeOK, RoundTypeOK, IsCacheMap, Receive, Queueing
    <2>4. CountTypeOK'
        BY SMTT(20) DEF TypeInv, TypeOK, CountTypeOK, Receive, NoBytes, Bytes
    <2>5. QueueOK'
        BY DEF Receive, QueueOK, Queueing
    <2> QED
        BY <2>3, <2>4, <2>5, TypeFrame DEF Receive, TypeInv, TypeOK
<1>TypeSkipMessage. ASSUME TypeInv, SkipMessage PROVE TypeInv'
    <2> USE <1>TypeSkipMessage
    <2>1. work' \in Seq(TimedMessage)
        BY SeqHeadTail DEF SkipMessage, TypeInv, TypeOK, RoundTypeOK
    <2>2. RoundTypeOK'
        BY <2>1 DEF TypeInv, TypeOK, RoundTypeOK, IsCacheMap, SkipMessage
    <2> QED
        BY <2>2, TypeFrame DEF SkipMessage, TypeInv, TypeOK
<1>TypeHandleRecord. ASSUME TypeInv, HandleRecord PROVE TypeInv'
    <2> USE <1>TypeHandleRecord
    \* ClosingStats stays a map from cookies to byte counts.
    <2>SaveClosingStatsType.
        ASSUME TypeInv, NEW ar \in Record, NEW old \in Record,
               SaveClosingStats(ar, old)
        PROVE  /\ \A c \in DOMAIN closingStats' : c \in Nat /\ closingStats'[c] \in Bytes
               /\ closingTotals' \in Bytes
        <3> USE <2>SaveClosingStatsType
        <3>1. GetStats(old) \in Bytes /\ ar.RawIDM.Cookie \in Nat
            BY StatsType DEF Record, InetDiagMsg
        <3>2. Plus(closingTotals, GetStats(old)) \in Bytes
            BY <3>1, PlusType DEF TypeInv, TypeOK, CountTypeOK
        <3> QED
            BY SMTT(20), <3>1, <3>2 DEF SaveClosingStats, MapPut, TypeInv, TypeOK, CountTypeOK
    <2> DEFINE ar == MakeArchivalRecord(Head(work).Message, Head(work).Time)
               c == ar.RawIDM.Cookie
    <2>1. Head(work) \in TimedMessage /\ work' \in Seq(TimedMessage)
        BY SeqHeadTail DEF HandleRecord, TypeInv, TypeOK, RoundTypeOK
    <2>2. ar \in Record
        BY <2>1, RecordType DEF TimedMessage
    <2>3. /\ IsCacheMap(current') /\ IsCacheMap(previous')
          /\ c \in DOMAIN current' /\ UNCHANGED cycles
        <3>1. Update(ar)
            BY DEF HandleRecord
        <3>2. IsCacheMap(current) /\ IsCacheMap(previous)
            BY DEF TypeInv, TypeOK, RoundTypeOK
        <3> HIDE DEF ar
        <3>3. current' = MapPut(current, c, ar) /\ previous' = MapDelete(previous, c)
            BY <3>1 DEF Update
        <3>4. IsCacheMap(MapPut(current, c, ar)) /\ IsCacheMap(MapDelete(previous, c))
            BY <2>2, <3>2, CacheMapPut, CacheMapDelete
        <3>5. c \in DOMAIN MapPut(current, c, ar)
            BY DEF MapPut
        <3> QED
            BY <3>1, <3>3, <3>4, <3>5 DEF Update, IsCacheMap
    <2>4. live' \in Bytes
        <3>1. GetStats(ar) \in Bytes /\ live' = Plus(live, GetStats(ar))
            BY <2>2, StatsType DEF HandleRecord
        <3> QED
            BY <3>1, PlusType DEF TypeInv, TypeOK, CountTypeOK
    <2>5. SwapNew(ar) \/ SwapChanged(ar) \/ SwapSame(ar)
        BY DEF HandleRecord
    <2>6. c \in DOMAIN previous => previous[c] \in Record
        BY DEF TypeInv, TypeOK, RoundTypeOK, IsCacheMap
    <2>7. pc = "handle" /\ UNCHANGED <<envVars, connVars, closed, repVars, residual,
              blockTime, exitVars, ending, toClose, events>>
        BY DEF HandleRecord
    <2> HIDE DEF ar
    <2>8. \/ pc' = "queue" /\ pm' = ar
          \/ pc' = "handle" /\ pm' = pm
        BY <2>5, <2>7 DEF SwapNew, SwapChanged, SwapSame
    <2>9. RoundTypeOK'
        BY <2>1, <2>2, <2>3, <2>7, <2>8
           DEF TypeInv, TypeOK, RoundTypeOK, IsCacheMap, Queueing
    <2>10. CountTypeOK'
        <3>1. /\ \A x \in DOMAIN closingStats' : x \in Nat /\ closingStats'[x] \in Bytes
              /\ closingTotals' \in Bytes
            <4>1. CASE SwapNew(ar)
                BY <4>1 DEF SwapNew, TypeInv, TypeOK, CountTypeOK
            <4>2. CASE SwapChanged(ar) \/ SwapSame(ar)
                BY <2>2, <2>6, <4>2, <2>SaveClosingStatsType DEF SwapChanged, SwapSame
            <4> QED
                BY <2>5, <4>1, <4>2
        <3>2. stats' \in [Total : Nat, New : Nat, Diff : Nat, Expired : Nat]
            BY SMTT(20), <2>5 DEF SwapNew, SwapChanged, SwapSame, Inc, TypeInv, TypeOK, CountTypeOK
        <3> QED
            BY <2>4, <2>7, <3>1, <3>2 DEF TypeInv, TypeOK, CountTypeOK
    <2>11. QueueOK'
        BY <2>3, <2>8 DEF QueueOK, Queueing
    <2> QED
        BY <2>7, <2>9, <2>10, <2>11, TypeFrame DEF TypeInv, TypeOK
<1>TypeQueueReject. ASSUME TypeInv, QueueReject PROVE TypeInv'
    <2> USE <1>TypeQueueReject
    <2>1. WriterTypeOK' /\ QueueOK'
        BY TypeFrame DEF QueueReject, QueueOK, Queueing
    <2> QED
        BY <2>1, TypeQueueStep DEF QueueReject, Queueing
<1>TypeQueueLookup. ASSUME TypeInv, QueueLookup PROVE TypeInv'
    <2> USE <1>TypeQueueLookup
    <2> DEFINE c == pm.RawIDM.Cookie
    <2>1. pc = "queue" /\ pc \in Queueing
        BY DEF QueueLookup, Queueing
    <2>2. c \in Nat /\ newConnection(pm.Timestamp) \in Connection
        BY <2>1, QueueTypes
           DEF newConnection, Connection, NilWriter, TypeInv, TypeOK, RoundTypeOK
    <2>3. \A x \in DOMAIN connections' : x \in Nat /\ connections'[x] \in Connection
        <3>1. \A x \in DOMAIN connections : x \in Nat /\ connections[x] \in Connection
            BY DEF TypeInv, TypeOK, WriterTypeOK
        <3>2. \/ connections' = connections
              \/ connections' = MapPut(connections, c, newConnection(pm.Timestamp))
            BY DEF QueueLookup
        <3> HIDE DEF c
        <3> QED
            BY SMTT(20), <2>2, <3>1, <3>2 DEF MapPut
    <2>4. events' \in Seq(Event)
        BY <2>2, FlowEventType DEF QueueLookup, FlowCreated, TypeInv, TypeOK, WriterTypeOK
    <2>5. WriterTypeOK'
        BY <2>3, <2>4 DEF QueueLookup, TypeInv, TypeOK, WriterTypeOK
    <2>6. c \in DOMAIN connections'
        BY DEF QueueLookup, MapPut
    <2>7. QueueOK'
        BY <2>1, <2>6 DEF QueueLookup, QueueOK, Queueing, TypeInv
    <2> QED
        BY <2>1, <2>5, <2>7, TypeQueueStep DEF QueueLookup, Queueing
<1>TypeQueueExpire. ASSUME TypeInv, QueueExpire PROVE TypeInv'
    <2> USE <1>TypeQueueExpire
    <2> DEFINE c == pm.RawIDM.Cookie
    <2>1. pc = "expire" /\ pc \in Queueing
        BY DEF QueueExpire, Queueing
    <2>2. conn \in Connection /\ conn.Writer # NilWriter
        BY <2>1, QueueTypes DEF QueueExpire, Expired
    <2>3. CloseTask(conn.Writer) \in Task
        BY <2>2 DEF CloseTask, Task, Connection
    <2>4. marshalChan' \in [Marshallers -> Seq(Task)]
        BY <2>1, <2>3, QueueTypes, SendType
           DEF QueueExpire, TypeInv, TypeOK, WriterTypeOK
    <2>5. [conn EXCEPT !.Writer = NilWriter] \in Connection
        BY <2>2 DEF Connection, NilWriter
    <2>6. \A x \in DOMAIN connections' : x \in Nat /\ connections'[x] \in Connection
        BY <2>5 DEF QueueExpire, SetConn, TypeInv, TypeOK, WriterTypeOK
    <2>7. WriterTypeOK'
        BY <2>4, <2>6 DEF QueueExpire, TypeInv, TypeOK, WriterTypeOK
    <2>8. QueueOK'
        BY <2>1, <2>2 DEF QueueExpire, SetConn, QueueOK, Queueing, conn, TypeInv, Connection
    <2> QED
        BY <2>1, <2>7, <2>8, TypeQueueStep DEF QueueExpire, Queueing
<1>TypeQueueKeep. ASSUME TypeInv, QueueKeep PROVE TypeInv'
    <2> USE <1>TypeQueueKeep
    <2>1. WriterTypeOK'
        BY TypeFrame DEF QueueKeep
    <2>2. QueueOK'
        BY DEF QueueKeep, QueueOK, Queueing, conn, TypeInv
    <2> QED
        BY <2>1, <2>2, TypeQueueStep DEF QueueKeep, Queueing
<1>TypeRotateFails. ASSUME TypeInv, RotateFails PROVE TypeInv'
    <2> USE <1>TypeRotateFails
    <2>1. WriterTypeOK' /\ QueueOK'
        BY TypeFrame DEF RotateFails, QueueOK, Queueing
    <2> QED
        BY <2>1, TypeQueueStep DEF RotateFails, Queueing
<1>TypeQueueSend. ASSUME TypeInv, QueueSend PROVE TypeInv'
    <2> USE <1>TypeQueueSend
    <2>1. pc = "send" /\ pc \in Queueing
        BY DEF QueueSend, Queueing
    <2>2. pm \in Record /\ conn \in Connection /\ conn.Writer # NilWriter
        BY <2>1, QueueTypes DEF TypeInv, QueueOK
    <2>3. SaveTask(pm, conn.Writer) \in Task
        BY <2>2 DEF SaveTask, Task, Connection
    <2>4. marshalChan' \in [Marshallers -> Seq(Task)]
        BY <2>1, <2>3, QueueTypes, SendType
           DEF QueueSend, TypeInv, TypeOK, WriterTypeOK
    <2>5. WriterTypeOK' /\ QueueOK'
        BY <2>4 DEF QueueSend, QueueOK, Queueing, TypeInv, TypeOK, WriterTypeOK
    <2> QED
        BY <2>1, <2>5, TypeQueueStep DEF QueueSend, Queueing
<1>TypeFinishRound. ASSUME TypeInv, FinishRound PROVE TypeInv'
    <2> USE <1>TypeFinishRound
    <2>1. /\ IsCacheMap(current') /\ IsCacheMap(previous') /\ IsCacheMap(residual')
          /\ cycles' \in Nat
        <3>1. current' = EmptyMap /\ previous' = current /\ residual' = previous
            BY DEF FinishRound, EndCycle
        <3> QED
            BY SMTT(20), <3>1, CacheMapEmpty
               DEF FinishRound, EndCycle, TypeInv, TypeOK, RoundTypeOK, IsCacheMap
    <2>2. RoundTypeOK'
        BY <2>1 DEF FinishRound, TypeInv, TypeOK, RoundTypeOK, IsCacheMap, Queueing
    <2>3. QueueOK'
        BY DEF FinishRound, QueueOK, Queueing
    <2> QED
        BY <2>2, <2>3, TypeFrame DEF FinishRound, TypeInv, TypeOK
<1>TypeRetire. ASSUME TypeInv, Retire PROVE TypeInv'
    <2> USE <1>TypeRetire
    <2>CloseBytesType. ASSUME TypeInv, NEW c \in DOMAIN residual, CloseBytes(c)
                       PROVE  /\ closed' \in Bytes /\ closingTotals' \in Bytes
                              /\ \A x \in DOMAIN closingStats' :
                                    x \in Nat /\ closingStats'[x] \in Bytes
        <3> USE <2>CloseBytesType
        <3> USE DEF TypeInv, TypeOK, CountTypeOK
        <3>1. CASE HasDiagInfo(residual[c])
            <4>1. GetStats(residual[c]) \in Bytes
                BY StatsType DEF RoundTypeOK, IsCacheMap
            <4>2. Plus(closed, GetStats(residual[c])) \in Bytes
                BY <4>1, PlusType
            <4> QED
                BY <3>1, <4>2 DEF CloseBytes
        <3>2. CASE ~HasDiagInfo(residual[c]) /\ c \in DOMAIN closingStats
            <4>1. closingStats[c] \in Bytes
                BY <3>2
            <4>2. /\ Plus(closed, closingStats[c]) \in Bytes
                  /\ Minus(closingTotals, closingStats[c]) \in Bytes
                BY <4>1, PlusType
            <4> QED
                BY <3>2, <4>2 DEF CloseBytes, MapDelete, Restrict
        <3>3. CASE ~HasDiagInfo(residual[c]) /\ c \notin DOMAIN closingStats
            BY <3>3 DEF CloseBytes
        <3> QED
            BY <3>1, <3>2, <3>3
    <2>1. PICK c \in DOMAIN residual :
            /\ CloseBytes(c) /\ residual' = MapDelete(residual, c)
            /\ ending' = c /\ FlowDeleted(c)
        BY DEF Retire
    <2>2. c \in Nat
        <3>1. residual[c] \in Record /\ residual[c].RawIDM.Cookie = c
            BY DEF TypeInv, TypeOK, RoundTypeOK, IsCacheMap
        <3> QED
            BY <3>1 DEF Record, InetDiagMsg
    <2>3. IsCacheMap(residual')
        BY <2>1 DEF TypeInv, TypeOK, RoundTypeOK, IsCacheMap, MapDelete, Restrict
    <2>4. RoundTypeOK'
        BY <2>1, <2>2, <2>3
           DEF Retire, TypeInv, TypeOK, RoundTypeOK, IsCacheMap, Queueing
    <2>5. WriterTypeOK'
        BY <2>1, <2>2, FlowEventType
           DEF Retire, FlowDeleted, TypeInv, TypeOK, WriterTypeOK
    <2>6. CountTypeOK'
        BY <2>1, <2>CloseBytesType DEF Retire, TypeInv, TypeOK, CountTypeOK
    <2>7. QueueOK'
        BY DEF Retire, QueueOK, Queueing
    <2> QED
        BY <2>4, <2>5, <2>6, <2>7, TypeFrame DEF Retire, TypeInv, TypeOK
<1>TypeEndRetired. ASSUME TypeInv, EndRetired PROVE TypeInv'
    <2> USE <1>TypeEndRetired
    <2>1. WriterTypeOK'
        BY endConnType DEF EndRetired, TypeInv, TypeOK, RoundTypeOK
    <2>2. RoundTypeOK'
        BY DEF EndRetired, TypeInv, TypeOK, RoundTypeOK, IsCacheMap, Queueing
    <2>3. CountTypeOK'
        <3>1. stats' = Inc(stats, "Expired") /\ UNCHANGED <<byteVars, repVars, live>>
            BY DEF EndRetired
        <3>2. stats' \in [Total : Nat, New : Nat, Diff : Nat, Expired : Nat]
            BY SMTT(20), <3>1 DEF Inc, TypeInv, TypeOK, CountTypeOK
        <3> QED
            BY <3>1, <3>2 DEF TypeInv, TypeOK, CountTypeOK
    <2>4. QueueOK'
        BY DEF EndRetired, QueueOK, Queueing
    <2> QED
        BY <2>1, <2>2, <2>3, <2>4, TypeFrame DEF EndRetired, TypeInv, TypeOK
<1>TypeReport. ASSUME TypeInv, Report PROVE TypeInv'
    <2> USE <1>TypeReport
    <2>1. RoundTypeOK'
        BY DEF Report, TypeInv, TypeOK, RoundTypeOK, IsCacheMap, Queueing
    <2>2. CountTypeOK'
        <3>1. total \in Bytes
            BY PlusType DEF total, TypeInv, TypeOK, CountTypeOK
        <3>2. reported' \in Bytes /\ reports' \in Bytes /\ lastReportTime' \in Int
            <4>1. CASE blockTime > lastReportTime
                <5>1. /\ total.Sent \in Int /\ total.Received \in Int
                      /\ reported.Sent \in Int /\ reported.Received \in Int
                      /\ reports.Sent \in Int /\ reports.Received \in Int
                    BY <3>1 DEF TypeInv, TypeOK, CountTypeOK, Bytes
                <5>2. lastReportTime' = blockTime
                    BY <4>1 DEF Report
                <5>3. blockTime \in Int
                    BY SMTT(20) DEF TypeInv, TypeOK, RoundTypeOK
                <5>4. reported' \in Bytes
                    BY SMTT(20), <4>1, <5>1 DEF Report, Bytes
                <5>5. reports' \in Bytes
                    BY SMTT(20), <4>1, <5>1 DEF Report, Bytes
                <5> QED
                    BY <5>2, <5>3, <5>4, <5>5
            <4>2. CASE ~(blockTime > lastReportTime)
                BY <4>2 DEF Report, TypeInv, TypeOK, CountTypeOK
            <4> QED
                BY <4>1, <4>2
        <3> QED
            BY <3>2 DEF Report, TypeInv, TypeOK, CountTypeOK
    <2>3. QueueOK'
        BY DEF Report, QueueOK, Queueing
    <2> QED
        BY <2>1, <2>2, <2>3, TypeFrame DEF Report, TypeInv, TypeOK
<1>TypeCloseBegin. ASSUME TypeInv, CloseBegin PROVE TypeInv'
    <2> USE <1>TypeCloseBegin
    <2>1. RoundTypeOK'
        BY DEF CloseBegin, TypeInv, TypeOK, RoundTypeOK, WriterTypeOK, IsCacheMap,
               Queueing, Closing
    <2>2. QueueOK'
        BY DEF CloseBegin, QueueOK, Queueing
    <2> QED
        BY <2>1, <2>2, TypeFrame DEF CloseBegin, TypeInv, TypeOK
<1>TypeCloseConn. ASSUME TypeInv, CloseConn PROVE TypeInv'
    <2> USE <1>TypeCloseConn
    <2>1. PICK c \in toClose :
            toClose' = toClose \ {c} /\ ending' = c /\ FlowDeleted(c)
        BY DEF CloseConn
    <2>2. RoundTypeOK'
        BY <2>1 DEF CloseConn, TypeInv, TypeOK, RoundTypeOK, IsCacheMap, Queueing, Closing
    <2>3. WriterTypeOK'
        BY <2>1, FlowEventType
           DEF CloseConn, FlowDeleted, TypeInv, TypeOK, WriterTypeOK, RoundTypeOK
    <2>4. QueueOK'
        BY DEF CloseConn, QueueOK, Queueing
    <2> QED
        BY <2>2, <2>3, <2>4, TypeFrame DEF CloseConn, TypeInv, TypeOK
<1>TypeEndClosed. ASSUME TypeInv, EndClosed PROVE TypeInv'
    <2> USE <1>TypeEndClosed
    <2>1. WriterTypeOK'
        BY endConnType DEF EndClosed, TypeInv, TypeOK, RoundTypeOK
    <2>2. RoundTypeOK'
        BY DEF EndClosed, TypeInv, TypeOK, RoundTypeOK, IsCacheMap, Queueing, Closing
    <2>3. QueueOK'
        BY DEF EndClosed, QueueOK, Queueing
    <2> QED
        BY <2>1, <2>2, <2>3, TypeFrame DEF EndClosed, TypeInv, TypeOK
<1>TypeCloseEnd. ASSUME TypeInv, CloseEnd PROVE TypeInv'
    <2> USE <1>TypeCloseEnd
    <2>1. RoundTypeOK'
        BY DEF CloseEnd, TypeInv, TypeOK, RoundTypeOK, IsCacheMap, Queueing, Closing
    <2>2. ExitTypeOK'
        BY SMTT(20) DEF CloseEnd, TypeInv, TypeOK, ExitTypeOK
    <2>3. FlagTypeOK'
        BY DEF CloseEnd, TypeInv, TypeOK, FlagTypeOK
    <2>4. QueueOK'
        BY DEF CloseEnd, QueueOK, Queueing
    <2> QED
        BY <2>1, <2>2, <2>3, <2>4, TypeFrame DEF CloseEnd, TypeInv, TypeOK
<1>TypeMarshalClose. ASSUME TypeInv, NEW m \in Marshallers, MarshalClose(m)
                     PROVE  TypeInv'
    <2> USE <1>TypeMarshalClose
    <2> DEFINE w == Head(marshalChan[m]).Writer
    <2>1. writers' \in Seq(Writer) /\ Len(writers') = Len(writers)
        <3>1. writers \in Seq(Writer)
            BY DEF TypeInv, TypeOK, WriterTypeOK
        <3>2. CASE w \in DOMAIN writers
            <4>1. w \in 1 .. Len(writers) /\ writers[w] \in Writer
                BY <3>1, <3>2, SeqLen, SeqElement
            <4>2. [writers[w] EXCEPT !.Open = FALSE] \in Writer
                BY <4>1 DEF Writer
            <4>3. writers' = [writers EXCEPT ![w] = [writers[w] EXCEPT !.Open = FALSE]]
                BY DEF MarshalClose
            <4> HIDE DEF w
            <4> QED
                BY SMTT(20), <3>1, <4>1, <4>2, <4>3, SeqExcept
        <3>3. CASE w \notin DOMAIN writers
            <4>1. writers' = writers
                BY <3>1, <3>3, SeqLen DEF MarshalClose
            <4> QED
                BY <3>1, <4>1
        <3> QED
            BY <3>2, <3>3
    <2>2. WriterTypeOK'
        BY <2>1, MarshalHead DEF MarshalClose, TypeInv, TypeOK, WriterTypeOK
    <2> QED
        BY <2>2, TypeFrame DEF MarshalClose, TypeInv, TypeOK
<1>TypeMarshalSave. ASSUME TypeInv, NEW m \in Marshallers, MarshalSave(m)
                    PROVE  TypeInv'
    <2> USE <1>TypeMarshalSave
    <2> DEFINE task == Head(marshalChan[m])
               w == task.Writer
               L == Record \cup HeaderRecord
    <2>1. task \in Task /\ ~task.Close
        BY MarshalHead DEF MarshalSave
    <2>2. task.Message \in Record
        BY <2>1 DEF Task
    <2>3. Anonymize(task.Message, Anonymizer) \in Record
        BY <2>2, AnonymizeKeeps
    <2>4. lines \in Seq(Seq(L))
        BY DEF TypeInv, TypeOK, WriterTypeOK
    <2>5. lines' \in Seq(Seq(L)) /\ Len(lines') = Len(lines)
        <3>1. CASE lines' = lines
            BY <2>4, <3>1
        <3>2. CASE lines' = [lines EXCEPT ![w] = Append(@, Anonymize(task.Message, Anonymizer))]
                   /\ w \in DOMAIN lines
            <4>1. w \in 1 .. Len(lines) /\ lines[w] \in Seq(L)
                BY <2>4, <3>2, SeqLen, SeqElement
            <4>2. Append(lines[w], Anonymize(task.Message, Anonymizer)) \in Seq(L)
                BY <2>3, <4>1, SeqAppend
            <4>3. lines' = [lines EXCEPT ![w] =
                               Append(lines[w], Anonymize(task.Message, Anonymizer))]
                BY <3>2
            <4> HIDE DEF L, w
            <4> QED
                BY SMTT(20), <2>4, <4>1, <4>2, <4>3, SeqExcept
        <3>3. CASE lines' = [lines EXCEPT ![w] = Append(@, Anonymize(task.Message, Anonymizer))]
                   /\ w \notin DOMAIN lines
            <4>1. lines' = lines
                BY <2>4, <3>3, SeqLen
            <4> QED
                BY <2>4, <4>1
        <3> QED
            BY <3>1, <3>2, <3>3 DEF MarshalSave
    <2>6. WriterTypeOK'
        BY <2>5, MarshalHead DEF MarshalSave, TypeInv, TypeOK, WriterTypeOK
    <2> QED
        BY <2>6, TypeFrame DEF MarshalSave, TypeInv, TypeOK
<1>TypeMarshalExit. ASSUME TypeInv, NEW m \in Marshallers, MarshalExit(m)
                    PROVE  TypeInv'
    <2> USE <1>TypeMarshalExit
    <2>1. ExitTypeOK'
        <3>1. exited' = exited \cup {m} /\ done' = done - 1
            BY DEF MarshalExit
        <3>2. exited \subseteq Marshallers /\ done \in Int
            BY DEF TypeInv, TypeOK, ExitTypeOK
        <3> QED
            BY SMTT(20), <3>1, <3>2 DEF ExitTypeOK
    <2> QED
        BY <2>1, TypeFrame DEF MarshalExit, TypeInv, TypeOK
<1> SUFFICES ASSUME TypeInv, [Next]_vars PROVE TypeInv'
    OBVIOUS
<1>1. CASE Tick \/ SendBlock \/ CloseReader
    BY <1>1, <1>TypeTick, <1>TypeSendBlock, <1>TypeCloseReader
<1>2. CASE Receive \/ SkipMessage \/ HandleRecord
    BY <1>2, <1>TypeReceive, <1>TypeSkipMessage, <1>TypeHandleRecord
<1>3. CASE QueueReject \/ QueueLookup \/ QueueExpire \/ QueueKeep
    BY <1>3, <1>TypeQueueReject, <1>TypeQueueLookup, <1>TypeQueueExpire, <1>TypeQueueKeep
<1>4. CASE Rotate \/ RotateFails \/ QueueSend
    BY <1>4, TypeRotate, <1>TypeRotateFails, <1>TypeQueueSend
<1>5. CASE FinishRound \/ Retire \/ EndRetired \/ Report
    BY <1>5, <1>TypeFinishRound, <1>TypeRetire, <1>TypeEndRetired, <1>TypeReport
<1>6. CASE CloseBegin \/ CloseConn \/ EndClosed \/ CloseEnd
    BY <1>6, <1>TypeCloseBegin, <1>TypeCloseConn, <1>TypeEndClosed, <1>TypeCloseEnd
<1>7. CASE \E m \in Marshallers : Marshaller(m)
    BY <1>7, <1>TypeMarshalClose, <1>TypeMarshalSave, <1>TypeMarshalExit DEF Marshaller
<1>8. CASE Finished \/ UNCHANGED vars
    BY <1>8, TypeFrame DEF Finished, vars, TypeInv, TypeOK
<1> QED
    BY <1>1, <1>2, <1>3, <1>4, <1>5, <1>6, <1>7, <1>8 DEF Next, SaverStep

LEMMA EventsSeq ==
    ASSUME TypeInv
    PROVE  /\ events \in Seq(Event) /\ Len(events) \in Nat
           /\ DOMAIN events = 1 .. Len(events)
    BY SeqLen DEF TypeInv, TypeOK, WriterTypeOK

LEMMA TypeInvariant == Spec => []TypeInv
    BY TypeInit, TypeStep, PTL DEF Spec

\* The state of the saver stays well-typed: above all, every record is cached
\* under its own cookie and every task in a channel names a writer.
THEOREM TypeCorrect == Spec => []TypeOK
<1>1. TypeInv => TypeOK
    BY DEF TypeInv
<1> QED
    BY <1>1, TypeInvariant, PTL

-----------------------------------------------------------------------------
(* The generations of the cache. *)

HasFile(c) == c \in DOMAIN connections /\ connections[c].Writer # NilWriter

\* Outside the end of a round nothing waits to be retired, so that the next
\* EndCycle overwrites nothing.
NothingResidual == pc \notin {"retire", "endRetired"} => DOMAIN residual = {}

\* Close has ended every connection before it closes the channels.
AllEnded == pc = "done" => toClose = {}

CacheInv == WriterInCache /\ NothingResidual /\ AllEnded

LEMMA CacheInvInit == Init => CacheInv
    BY EmptyMapIs DEF Init, CacheInv, WriterInCache, NothingResidual, AllEnded

\* Of a step of queue, or one that leaves the connections alone, only that the
\* connection it gives a file to is in the cache.
LEMMA KeepKnown ==
    ASSUME CacheInv,
           pc \notin Closing \cup {"endRetired"}, pc' \notin Closing,
           Known \subseteq Known',
           \A c : HasFile(c)' => HasFile(c) \/ c \in Known'
    PROVE  WriterInCache'
<1>1. \A c : HasFile(c) => c \in Known
    BY DEF CacheInv, WriterInCache, HasFile, Known
<1>2. \A c : HasFile(c)' => c \in Known'
    BY <1>1
<1> QED
    BY <1>2 DEF WriterInCache, HasFile, Known

\* endConn leaves no file to the connection it ends.
LEMMA EndConnForgets ==
    ASSUME NEW k, endConn(k)
    PROVE  \A c : HasFile(c)' => HasFile(c) /\ c # k
<1>1. CASE UNCHANGED connections /\ ~HasFile(k)
    BY <1>1 DEF HasFile
<1>2. CASE connections' = MapDelete(connections, k)
    BY <1>2 DEF HasFile, MapDelete, Restrict
<1> QED
    BY <1>1, <1>2 DEF endConn, HasFile

LEMMA CacheStep == TypeInv /\ CacheInv /\ [Next]_vars => CacheInv'
<1>CacheQueue. ASSUME TypeInv, CacheInv,
                      QueueReject \/ QueueLookup \/ QueueExpire \/ QueueKeep \/ Rotate
                        \/ RotateFails \/ QueueSend
               PROVE  CacheInv'
    <2> USE <1>CacheQueue
    <2> DEFINE k == pm.RawIDM.Cookie
    <2>1. /\ pc \in Queueing /\ pc' \in Queueing \cup {"handle"}
          /\ UNCHANGED <<cacheVars, residual>>
        BY DEF QueueReject, QueueLookup, QueueExpire, QueueKeep, Rotate, RotateFails,
               QueueSend, Queueing
    <2>2. k \in Known
        BY <2>1 DEF TypeInv, QueueOK, Known
    <2>3. \A c : HasFile(c)' => HasFile(c) \/ c = k
        <3>1. CASE UNCHANGED connections
            BY <3>1 DEF HasFile
        <3>2. CASE \E x : connections' = [connections EXCEPT ![k] = x]
            BY <3>2 DEF HasFile
        <3>3. CASE \E x : connections' = MapPut(connections, k, x)
            BY <3>3 DEF HasFile, MapPut
        <3> QED
            BY <3>1, <3>2, <3>3
               DEF QueueReject, QueueLookup, QueueExpire, QueueKeep, Rotate, RotateFails,
                   QueueSend, SetConn
    <2>4. Known' = Known
        BY <2>1 DEF Known
    <2>5. pc \notin Closing \cup {"endRetired"} /\ pc' \notin Closing
        BY <2>1 DEF Queueing, Closing
    <2>6. WriterInCache'
        BY <2>2, <2>3, <2>4, <2>5, KeepKnown
    <2>7. NothingResidual'
        BY <2>1 DEF CacheInv, NothingResidual, Queueing
    <2> QED
        BY <2>5, <2>6, <2>7 DEF CacheInv, AllEnded, Closing
<1>CacheRound. ASSUME CacheInv, Receive \/ SkipMessage \/ HandleRecord \/ FinishRound \/ Report
               PROVE  CacheInv'
    <2> USE <1>CacheRound
    <2>1. UNCHANGED connections /\ pc \notin Closing \cup {"endRetired"} /\ pc' \notin Closing
        BY DEF Receive, SkipMessage, HandleRecord, FinishRound, Report, Closing,
               SwapNew, SwapChanged, SwapSame
    <2>2. Known \subseteq Known' /\ NothingResidual'
        <3>1. CASE HandleRecord
            <4>1. PICK r : Update(r)
                BY <3>1 DEF HandleRecord
            <4>2. /\ DOMAIN current' = DOMAIN current \cup {r.RawIDM.Cookie}
                  /\ DOMAIN previous' = DOMAIN previous \ {r.RawIDM.Cookie}
                BY <4>1 DEF Update, MapPut, MapDelete, Restrict
            <4> QED
                BY <3>1, <4>2 DEF HandleRecord, Known, CacheInv, NothingResidual
        <3>2. CASE FinishRound
            BY <3>2 DEF FinishRound, EndCycle, Known, CacheInv, NothingResidual
        <3>3. CASE Report
            BY <3>3, EmptyMapIs DEF Report, Known, NothingResidual
        <3>4. CASE Receive \/ SkipMessage
            BY <3>4 DEF Receive, SkipMessage, Known, CacheInv, NothingResidual
        <3> QED
            BY <3>1, <3>2, <3>3, <3>4
    <2>3. \A c : HasFile(c)' => HasFile(c)
        BY <2>1 DEF HasFile
    <2>4. WriterInCache'
        BY <2>1, <2>2, <2>3, KeepKnown
    <2> QED
        BY <2>1, <2>2, <2>4 DEF CacheInv, AllEnded, Closing
<1>CacheRetire. ASSUME CacheInv, Retire \/ EndRetired
                PROVE  CacheInv'
    <2> USE <1>CacheRetire
    <2> USE DEF CacheInv, NothingResidual, AllEnded, WriterInCache, Closing
    <2>1. CASE Retire
        <3>1. PICK k \in DOMAIN residual : residual' = MapDelete(residual, k) /\ ending' = k
            BY <2>1 DEF Retire
        <3>2. DOMAIN residual' = DOMAIN residual \ {k}
            BY <3>1, MapDeleteIs
        <3> QED
            BY <2>1, <3>1, <3>2 DEF Retire
    <2>2. CASE EndRetired
        <3>1. \A c : HasFile(c)' => HasFile(c) /\ c # ending
            BY <2>2, EndConnForgets DEF EndRetired
        <3> QED
            BY <2>2, <3>1 DEF EndRetired, HasFile
    <2> QED
        BY <2>1, <2>2
<1>CacheClose. ASSUME CacheInv, CloseBegin \/ CloseConn \/ EndClosed \/ CloseEnd
               PROVE  CacheInv'
    <2> USE <1>CacheClose
    <2> USE DEF CacheInv, NothingResidual, AllEnded, WriterInCache, Closing
    <2>1. CASE CloseBegin
        BY <2>1 DEF CloseBegin
    <2>2. CASE CloseConn
        BY <2>2 DEF CloseConn
    <2>3. CASE EndClosed
        <3>1. \A c : HasFile(c)' => HasFile(c) /\ c # ending
            BY <2>3, EndConnForgets DEF EndClosed
        <3> QED
            BY <2>3, <3>1 DEF EndClosed, HasFile
    <2>4. CASE CloseEnd
        BY <2>4 DEF CloseEnd
    <2> QED
        BY <2>1, <2>2, <2>3, <2>4
<1> SUFFICES ASSUME TypeInv, CacheInv, [Next]_vars PROVE CacheInv'
    OBVIOUS
<1>1. CASE UNCHANGED <<connections, current, previous, residual, pc, toClose, ending>>
    BY <1>1 DEF CacheInv, WriterInCache, NothingResidual, AllEnded
<1>2. CASE Tick \/ SendBlock \/ CloseReader \/ Finished \/ UNCHANGED vars
    BY <1>1, <1>2 DEF Tick, SendBlock, CloseReader, Finished, vars
<1>3. CASE \E m \in Marshallers : Marshaller(m)
    BY <1>1, <1>3 DEF Marshaller, MarshalClose, MarshalSave, MarshalExit
<1> QED
    BY <1>2, <1>3, <1>CacheQueue, <1>CacheRound, <1>CacheRetire, <1>CacheClose DEF Next, SaverStep

\* The generations of the cache do not overlap: a cookie is in one of current,
\* previous and the records to be retired, and the one being retired in none.
GenerationInv ==
    /\ DOMAIN current \cap DOMAIN previous = {}
    /\ DOMAIN residual \cap (DOMAIN current \cup DOMAIN previous) = {}
    /\ pc = "endRetired" => ending \notin Known

LEMMA GenerationInit == Init => GenerationInv
    BY EmptyMapIs DEF Init, CacheInit, GenerationInv

LEMMA GenerationStep == CacheInv /\ GenerationInv /\ [Next]_vars => GenerationInv'
<1> SUFFICES ASSUME CacheInv, GenerationInv, [Next]_vars PROVE GenerationInv'
    OBVIOUS
<1>1. CASE /\ UNCHANGED <<current, previous, residual>>
           /\ pc' = "endRetired" => UNCHANGED <<pc, ending>>
    BY <1>1 DEF GenerationInv, Known
<1>2. CASE HandleRecord
    <2>1. PICK r : Update(r)
        BY <1>2 DEF HandleRecord
    <2>2. /\ DOMAIN current' = DOMAIN current \cup {r.RawIDM.Cookie}
          /\ DOMAIN previous' = DOMAIN previous \ {r.RawIDM.Cookie}
        BY <2>1 DEF Update, MapPut, MapDelete, Restrict
    <2>3. DOMAIN residual' = {} /\ pc' # "endRetired"
        BY <1>2 DEF HandleRecord, CacheInv, NothingResidual, SwapNew, SwapChanged, SwapSame
    <2> QED
        BY <2>2, <2>3 DEF GenerationInv
<1>3. CASE FinishRound
    BY <1>3, EmptyMapIs DEF FinishRound, EndCycle, GenerationInv
<1>4. CASE Retire
    <2>1. PICK k \in DOMAIN residual : residual' = MapDelete(residual, k) /\ ending' = k
        BY <1>4 DEF Retire
    <2>2. DOMAIN residual' = DOMAIN residual \ {k}
        BY <2>1, MapDeleteIs
    <2> QED
        BY <1>4, <2>1, <2>2 DEF Retire, GenerationInv, Known
<1>5. CASE Receive \/ SkipMessage \/ EndRetired \/ Report
    BY <1>1, <1>5 DEF Receive, SkipMessage, EndRetired, Report
<1>6. CASE QueueReject \/ QueueLookup \/ QueueExpire \/ QueueKeep \/ Rotate
             \/ RotateFails \/ QueueSend
    BY <1>1, <1>6 DEF QueueReject, QueueLookup, QueueExpire, QueueKeep, Rotate,
                      RotateFails, QueueSend
<1>7. CASE CloseBegin \/ CloseConn \/ EndClosed \/ CloseEnd
    BY <1>1, <1>7 DEF CloseBegin, CloseConn, EndClosed, CloseEnd
<1>8. CASE Tick \/ SendBlock \/ CloseReader \/ Finished \/ UNCHANGED vars
    BY <1>1, <1>8 DEF Tick, SendBlock, CloseReader, Finished, vars
<1>9. CASE \E m \in Marshallers : Marshaller(m)
    BY <1>1, <1>9 DEF Marshaller, MarshalClose, MarshalSave, MarshalExit
<1> QED
    BY <1>2, <1>3, <1>4, <1>5, <1>6, <1>7, <1>8, <1>9 DEF Next, SaverStep

LEMMA CacheInvariant == Spec => [](TypeInv /\ CacheInv /\ GenerationInv)
<1>1. Init => CacheInv /\ GenerationInv
    BY CacheInvInit, GenerationInit
<1>2. TypeInv /\ (CacheInv /\ GenerationInv) /\ [Next]_vars => (CacheInv /\ GenerationInv)'
    BY CacheStep, GenerationStep
<1> QED
    BY <1>1, <1>2, TypeInvariant, PTL DEF Spec

\* Only connections that the cache knows, or that are being ended, have a file
\* open: endConn is reached for each of them.
THEOREM FilesOnlyForKnown == Spec => []WriterInCache
<1>1. CacheInv => WriterInCache
    BY DEF CacheInv
<1> QED
    BY <1>1, CacheInvInit, CacheStep, TypeInvariant, PTL DEF Spec

-----------------------------------------------------------------------------
(* Sums. *)

\* What SumFunctionOnSet's fold satisfies.
IsSum(f, S, g) ==
    g = [s \in SUBSET S |->
            IF s = {} THEN 0
            ELSE f[CHOOSE x \in s : TRUE] + g[s \ {CHOOSE x \in s : TRUE}]]

\* f[x] tokens for each x in S: there are as many as the sum of f.
Units(f, S) == {p \in S \X Nat : p[2] \in 1 .. f[p[1]]}

LEMMA SumIsFold ==
    ASSUME NEW f, NEW S
    PROVE  SumFunctionOnSet(f, S) = (CHOOSE g : IsSum(f, S, g))[S]
    BY DEF SumFunctionOnSet, FoldFunctionOnSet, MapThenFoldSet, IsSum

LEMMA UnitsSplit ==
    ASSUME NEW f, NEW S, NEW x \in S, f[x] \in Nat
    PROVE  /\ Units(f, S) = Units(f, S \ {x}) \cup ({x} \X (1 .. f[x]))
           /\ Units(f, S \ {x}) \cap ({x} \X (1 .. f[x])) = {}
<1>1. ASSUME NEW p \in Units(f, S) PROVE p \in Units(f, S \ {x}) \cup ({x} \X (1 .. f[x]))
    BY <1>1 DEF Units
<1>2. ASSUME NEW p \in Units(f, S \ {x}) \cup ({x} \X (1 .. f[x])) PROVE p \in Units(f, S)
    BY SMTT(20), <1>2 DEF Units
<1>3. Units(f, S \ {x}) \cap ({x} \X (1 .. f[x])) = {}
    BY DEF Units
<1> QED
    BY <1>1, <1>2, <1>3

LEMMA UnitsFinite ==
    ASSUME NEW f, NEW S, IsFiniteSet(S), \A x \in S : f[x] \in Nat
    PROVE  IsFiniteSet(Units(f, S))
<1> DEFINE g == [x \in S |-> {x} \X (1 .. f[x])]
           T == {g[x] : x \in S}
<1>1. g \in Surjection(S, T)
    BY DEF Surjection
<1>2. IsFiniteSet(T)
    BY <1>1, FS_Surjection
<1>3. ASSUME NEW t \in T PROVE IsFiniteSet(t)
    <2>1. PICK x \in S : t = {x} \X (1 .. f[x])
        BY <1>3
    <2>2. f[x] \in Int /\ 1 \in Int
        BY SMTT(20)
    <2>3. IsFiniteSet({x}) /\ IsFiniteSet(1 .. f[x])
        BY <2>2, FS_Singleton, FS_Interval
    <2>4. IsFiniteSet({x} \X (1 .. f[x]))
        BY <2>3, FS_Product
    <2> QED
        BY <2>1, <2>4
<1>4. IsFiniteSet(UNION T)
    BY <1>2, <1>3, FS_UNION
<1>5. Units(f, S) \subseteq UNION T
    <2> SUFFICES ASSUME NEW p \in Units(f, S) PROVE p \in UNION T
        OBVIOUS
    <2>1. p[1] \in S /\ p \in {p[1]} \X (1 .. f[p[1]])
        BY DEF Units
    <2>2. g[p[1]] \in T /\ p \in g[p[1]]
        BY <2>1
    <2> QED
        BY <2>2
<1> QED
    BY <1>4, <1>5, FS_Subset

LEMMA UnitsCount ==
    ASSUME NEW f, NEW S, IsFiniteSet(S), \A y \in S : f[y] \in Nat, NEW x \in S
    PROVE  /\ Cardinality(Units(f, S)) = f[x] + Cardinality(Units(f, S \ {x}))
           /\ Cardinality(Units(f, S \ {x})) \in Nat
<1>1. IsFiniteSet(S \ {x})
    BY FS_RemoveElement
<1>2. IsFiniteSet(Units(f, S \ {x}))
    BY <1>1, UnitsFinite
<1>3. IsFiniteSet({x} \X (1 .. f[x])) /\ Cardinality({x} \X (1 .. f[x])) = f[x]
    <2>1. IsFiniteSet({x}) /\ Cardinality({x}) = 1
        BY FS_Singleton
    <2>2. f[x] \in Int /\ 1 \in Int /\ f[x] \in Nat
        BY SMTT(20)
    <2>3. IsFiniteSet(1 .. f[x]) /\ Cardinality(1 .. f[x]) = f[x]
        <3>1. PICK n \in Int : n = f[x] /\ n >= 0
            BY SMTT(20), <2>2
        <3>2. IsFiniteSet(1 .. n) /\ Cardinality(1 .. n) = IF 1 > n THEN 0 ELSE n - 1 + 1
            BY <2>2, FS_Interval
        <3>3. (IF 1 > n THEN 0 ELSE n - 1 + 1) = n
            BY SMTT(20), <3>1
        <3> QED
            BY <3>1, <3>2, <3>3
    <2>4. IsFiniteSet({x} \X (1 .. f[x])) /\ Cardinality({x} \X (1 .. f[x])) = 1 * f[x]
        BY <2>1, <2>3, FS_Product, ZenonT(30)
    <2> QED
        BY SMTT(20), <2>2, <2>4
<1>4. Cardinality({}) = 0
    BY FS_EmptySet
<1>5. Cardinality(Units(f, S \ {x})) \in Nat
    BY <1>2, FS_CardinalityType
<1>6. Cardinality(Units(f, S)) = Cardinality(Units(f, S \ {x})) + f[x] - 0
    BY SMTT(20), <1>2, <1>3, <1>4, UnitsSplit, FS_Union
<1> QED
    BY SMTT(20), <1>5, <1>6

\* The fold has the only value its equation allows: the number of units.
LEMMA SumIs ==
    ASSUME NEW f, NEW S, IsFiniteSet(S), \A x \in S : f[x] \in Nat
    PROVE  SumFunctionOnSet(f, S) = Cardinality(Units(f, S))
<1> DEFINE n == [s \in SUBSET S |-> Cardinality(Units(f, s))]
<1>1. Cardinality(Units(f, {})) = 0
    <2>1. Units(f, {}) = {}
        BY DEF Units
    <2> QED
        BY <2>1, FS_EmptySet
<1>2. ASSUME NEW s \in SUBSET S, s # {}, NEW x \in s
      PROVE  n[s] = f[x] + n[s \ {x}]
    <2>1. IsFiniteSet(s)
        BY FS_Subset
    <2> QED
        BY SMTT(20), <1>2, <2>1, UnitsCount
<1>3. ASSUME NEW s \in SUBSET S, s # {}
      PROVE  (CHOOSE x \in s : TRUE) \in s
    BY <1>3
<1>4. IsSum(f, S, n)
    <2>1. ASSUME NEW s \in SUBSET S
          PROVE  n[s] = IF s = {} THEN 0
                        ELSE f[CHOOSE x \in s : TRUE] + n[s \ {CHOOSE x \in s : TRUE}]
        BY <1>1, <1>2, <1>3
    <2> QED
        BY <2>1 DEF IsSum
<1> HIDE DEF n
<1>5. ASSUME NEW g, IsSum(f, S, g) PROVE g[S] = n[S]
    <2> DEFINE D == {s \in SUBSET S : g[s] # n[s]}
    <2>1. ASSUME NEW s \in SUBSET S, \A t \in SUBSET S : t \subseteq s /\ t # s => g[t] = n[t]
          PROVE  g[s] = n[s]
        <3>1. CASE s = {}
            BY <1>4, <1>5, <3>1 DEF IsSum
        <3>2. CASE s # {}
            <4>1. PICK x \in s : x = CHOOSE y \in s : TRUE
                BY <1>3, <3>2
            <4>2. g[s] = f[x] + g[s \ {x}] /\ n[s] = f[x] + n[s \ {x}]
                BY SMTT(20), <1>4, <1>5, <3>2, <4>1 DEF IsSum
            <4>3. g[s \ {x}] = n[s \ {x}]
                BY <2>1
            <4> QED
                BY <4>2, <4>3
        <3> QED
            BY <3>1, <3>2
    <2>2. D = {}
        <3> SUFFICES ASSUME D # {} PROVE FALSE
            OBVIOUS
        <3>1. IsWellFoundedOn(StrictSubsetOrdering(S), SUBSET S)
            BY FS_StrictSubsetOrderingWellFounded, FS_FiniteSubsetsOfFinite
        <3>2. PICK s \in D : \A t \in D : ~(<<t, s>> \in StrictSubsetOrdering(S))
            BY <3>1, WFMin
        <3>3. \A t \in SUBSET S : t \subseteq s /\ t # s => g[t] = n[t]
            BY <3>2 DEF StrictSubsetOrdering
        <3> QED
            BY <2>1, <3>3
    <2> QED
        BY <2>2
<1>6. (CHOOSE g : IsSum(f, S, g))[S] = n[S]
    BY <1>4, <1>5
<1> QED
    BY <1>6, SumIsFold DEF n

LEMMA SumSplit ==
    ASSUME NEW f, NEW S, IsFiniteSet(S), \A y \in S : f[y] \in Nat, NEW x \in S
    PROVE  /\ SumFunctionOnSet(f, S) = f[x] + SumFunctionOnSet(f, S \ {x})
           /\ SumFunctionOnSet(f, S \ {x}) \in Nat
<1>1. IsFiniteSet(S \ {x})
    BY FS_RemoveElement
<1>2. SumFunctionOnSet(f, S \ {x}) = Cardinality(Units(f, S \ {x}))
    BY <1>1, SumIs
<1>3. SumFunctionOnSet(f, S) = Cardinality(Units(f, S))
    BY SumIs
<1>4. /\ Cardinality(Units(f, S)) = f[x] + Cardinality(Units(f, S \ {x}))
      /\ Cardinality(Units(f, S \ {x})) \in Nat
    BY UnitsCount
<1> QED
    BY <1>2, <1>3, <1>4

LEMMA SumNat ==
    ASSUME NEW f, NEW S, IsFiniteSet(S), \A y \in S : f[y] \in Nat
    PROVE  SumFunctionOnSet(f, S) \in Nat
    BY SumIs, UnitsFinite, FS_CardinalityType

LEMMA SumEmpty ==
    ASSUME NEW f
    PROVE  SumFunctionOnSet(f, {}) = 0
<1>1. Units(f, {}) = {}
    BY DEF Units
<1> QED
    BY <1>1, SumIs, FS_EmptySet

\* The sum depends on the values of the function only, and grows with them.
LEMMA SumLess ==
    ASSUME NEW f, NEW g, NEW S, IsFiniteSet(S),
           \A y \in S : f[y] \in Nat /\ g[y] \in Nat /\ f[y] <= g[y]
    PROVE  SumFunctionOnSet(f, S) <= SumFunctionOnSet(g, S)
<1>1. Units(f, S) \in SUBSET Units(g, S)
    BY SMTT(20) DEF Units
<1>2. IsFiniteSet(Units(g, S))
    BY UnitsFinite
<1> QED
    BY SMTT(20), <1>1, <1>2, SumIs, FS_Subset

LEMMA SumSame ==
    ASSUME NEW f, NEW g, NEW S, IsFiniteSet(S), \A y \in S : f[y] \in Nat /\ g[y] = f[y]
    PROVE  SumFunctionOnSet(f, S) = SumFunctionOnSet(g, S)
<1>1. Units(f, S) = Units(g, S)
    BY DEF Units
<1> QED
    BY <1>1, SumIs

\* m[k] = v and delete(m, k) in a map of numbers.
LEMMA SumPut ==
    ASSUME NEW f, NEW g, NEW S, IsFiniteSet(S), \A y \in S : f[y] \in Nat,
           NEW k, NEW T, T = S \cup {k}, g[k] \in Nat, \A y \in S \ {k} : g[y] = f[y]
    PROVE  /\ SumFunctionOnSet(g, T) = g[k] + SumFunctionOnSet(f, S \ {k})
           /\ k \notin S => S \ {k} = S
           /\ k \in S => SumFunctionOnSet(f, S) = f[k] + SumFunctionOnSet(f, S \ {k})
           /\ SumFunctionOnSet(f, S \ {k}) \in Nat
<1>1. IsFiniteSet(T) /\ T \ {k} = S \ {k} /\ IsFiniteSet(S \ {k})
    BY FS_AddElement, FS_RemoveElement
<1>2. k \in T /\ \A y \in T : g[y] \in Nat
    OBVIOUS
<1>3. SumFunctionOnSet(g, T) = g[k] + SumFunctionOnSet(g, T \ {k})
    BY SMTT(20), <1>1, <1>2, SumSplit
<1>4. SumFunctionOnSet(f, S \ {k}) = SumFunctionOnSet(g, S \ {k})
    BY SMTT(20), <1>1, SumSame
<1>5. SumFunctionOnSet(f, S \ {k}) \in Nat
    BY <1>1, SumNat
<1>6. k \in S => SumFunctionOnSet(f, S) = f[k] + SumFunctionOnSet(f, S \ {k})
    BY SMTT(20), SumSplit
<1> QED
    BY <1>1, <1>3, <1>4, <1>5, <1>6

LEMMA SumZero ==
    ASSUME NEW f, NEW S, IsFiniteSet(S), \A y \in S : f[y] = 0
    PROVE  SumFunctionOnSet(f, S) = 0
<1>1. Units(f, S) = {}
    BY SMTT(20) DEF Units
<1>2. \A y \in S : f[y] \in Nat
    BY SMTT(20)
<1>3. SumFunctionOnSet(f, S) = Cardinality(Units(f, S))
    BY <1>2, SumIs
<1> QED
    BY <1>1, <1>3, FS_EmptySet

\* One value of a function changes, and with it its sum.
LEMMA SumChange ==
    ASSUME NEW f, NEW g, NEW S, IsFiniteSet(S), NEW k \in S,
           \A y \in S : f[y] \in Nat, g[k] \in Nat, \A y \in S \ {k} : g[y] = f[y]
    PROVE  /\ SumFunctionOnSet(f, S) \in Nat /\ SumFunctionOnSet(g, S) \in Nat
           /\ SumFunctionOnSet(g, S) + f[k] = SumFunctionOnSet(f, S) + g[k]
<1>1. IsFiniteSet(S \ {k}) /\ \A y \in S : g[y] \in Nat
    BY FS_RemoveElement
<1>2. SumFunctionOnSet(f, S) = f[k] + SumFunctionOnSet(f, S \ {k})
    BY SMTT(20), SumSplit
<1>3. SumFunctionOnSet(g, S) = g[k] + SumFunctionOnSet(g, S \ {k})
    BY SMTT(20), <1>1, SumSplit
<1>4. SumFunctionOnSet(f, S \ {k}) = SumFunctionOnSet(g, S \ {k})
    BY SMTT(20), <1>1, SumSame
<1>5. SumFunctionOnSet(f, S \ {k}) \in Nat
    BY <1>1, SumNat
<1>6. f[k] \in Nat /\ g[k] \in Nat
    OBVIOUS
<1> QED
    BY SMTT(20), <1>2, <1>3, <1>4, <1>5, <1>6

\* The sum of two functions, by the smallest set for which it is not.
LEMMA SumPlus ==
    ASSUME NEW f, NEW g, NEW h, NEW S, IsFiniteSet(S),
           \A y \in S : f[y] \in Nat /\ g[y] \in Nat /\ h[y] = f[y] + g[y]
    PROVE  SumFunctionOnSet(h, S) = SumFunctionOnSet(f, S) + SumFunctionOnSet(g, S)
<1> DEFINE Good(s) == SumFunctionOnSet(h, s) = SumFunctionOnSet(f, s) + SumFunctionOnSet(g, s)
           D == {s \in SUBSET S : ~Good(s)}
<1>1. \A y \in S : h[y] \in Nat
    BY SMTT(20)
<1>2. ASSUME NEW s \in SUBSET S, \A t \in SUBSET S : t \subseteq s /\ t # s => Good(t)
      PROVE  Good(s)
    <2>1. CASE s = {}
        <3>1. SumFunctionOnSet(h, s) = 0 /\ SumFunctionOnSet(f, s) = 0 /\ SumFunctionOnSet(g, s) = 0
            BY <2>1, SumEmpty
        <3> QED
            BY SMTT(20), <3>1
    <2>2. CASE s # {}
        <3>1. PICK x \in s : TRUE
            BY <2>2
        <3>2. IsFiniteSet(s) /\ \A y \in s : f[y] \in Nat /\ g[y] \in Nat /\ h[y] \in Nat
            BY <1>1, FS_Subset
        <3>3. PICK t : t = s \ {x}
            OBVIOUS
        <3>4. Good(t)
            BY <1>2, <3>1, <3>3
        <3>5. ASSUME NEW e, \A y \in s : e[y] \in Nat
              PROVE  /\ SumFunctionOnSet(e, s) = e[x] + SumFunctionOnSet(e, t)
                     /\ SumFunctionOnSet(e, t) \in Nat
            <4>1. IsFiniteSet(s)
                BY <3>2
            <4>2. /\ SumFunctionOnSet(e, s) = e[x] + SumFunctionOnSet(e, s \ {x})
                  /\ SumFunctionOnSet(e, s \ {x}) \in Nat
                BY <3>5, <4>1, SumSplit
            <4> QED
                BY <3>3, <4>2
        <3>6. /\ SumFunctionOnSet(f, s) = f[x] + SumFunctionOnSet(f, t)
              /\ SumFunctionOnSet(f, t) \in Nat
            BY <3>2, <3>5
        <3>7. /\ SumFunctionOnSet(g, s) = g[x] + SumFunctionOnSet(g, t)
              /\ SumFunctionOnSet(g, t) \in Nat
            BY <3>2, <3>5
        <3>8. SumFunctionOnSet(h, s) = h[x] + SumFunctionOnSet(h, t)
            BY <3>2, <3>5
        <3>9. f[x] \in Nat /\ g[x] \in Nat /\ h[x] = f[x] + g[x]
            OBVIOUS
        <3> QED
            BY SMTT(20), <3>4, <3>6, <3>7, <3>8, <3>9
    <2> QED
        BY <2>1, <2>2
<1>3. D = {}
    <2> SUFFICES ASSUME D # {} PROVE FALSE
        OBVIOUS
    <2>1. IsWellFoundedOn(StrictSubsetOrdering(S), SUBSET S)
        BY FS_StrictSubsetOrderingWellFounded, FS_FiniteSubsetsOfFinite
    <2>2. PICK s \in D : \A t \in D : ~(<<t, s>> \in StrictSubsetOrdering(S))
        BY <2>1, WFMin
    <2>3. \A t \in SUBSET S : t \subseteq s /\ t # s => Good(t)
        BY <2>2 DEF StrictSubsetOrdering
    <2> QED
        BY <1>2, <2>3
<1> QED
    BY <1>3

\* What is zero outside a part sums up over that part.
LEMMA SumPart ==
    ASSUME NEW f, NEW g, NEW S, IsFiniteSet(S), NEW T \in SUBSET S,
           \A y \in T : f[y] \in Nat /\ g[y] = f[y], \A y \in S \ T : g[y] = 0
    PROVE  SumFunctionOnSet(g, S) = SumFunctionOnSet(f, T)
<1>1. Units(g, S) = Units(f, T)
    <2>1. ASSUME NEW p \in Units(g, S) PROVE p \in Units(f, T)
        <3>1. p \in S \X Nat /\ p[1] \in S /\ p[2] \in 1 .. g[p[1]]
            BY DEF Units
        <3>2. p[1] \in T
            BY SMTT(20), <3>1
        <3> QED
            BY <3>1, <3>2 DEF Units
    <2>2. ASSUME NEW p \in Units(f, T) PROVE p \in Units(g, S)
        BY <2>2 DEF Units
    <2> QED
        BY <2>1, <2>2
<1>2. IsFiniteSet(T) /\ \A y \in S : g[y] \in Nat
    BY SMTT(20), FS_Subset
<1> QED
    BY <1>1, <1>2, SumIs

-----------------------------------------------------------------------------
(* The bytes put aside. *)

ByteFields == {"Sent", "Received"}
Counters   == [Sent : Nat, Received : Nat]

\* The bytes put aside for the sockets that have lost their TCPInfo.
Aside(f) == [c \in DOMAIN closingStats |-> closingStats[c][f]]

ClosingTypeInv ==
    /\ IsFiniteSet(DOMAIN closingStats)
    /\ \A c \in DOMAIN closingStats : closingStats[c] \in Counters

ClosingInv == ClosingTypeInv /\ ClosingTotalsCover

LEMMA CountersFields ==
    ASSUME NEW v \in Counters, NEW f \in ByteFields
    PROVE  v[f] \in Nat
    BY DEF Counters, ByteFields

LEMMA AsideType ==
    ASSUME ClosingTypeInv, NEW f \in ByteFields
    PROVE  /\ DOMAIN Aside(f) = DOMAIN closingStats
           /\ \A c \in DOMAIN closingStats :
                 Aside(f)[c] = closingStats[c][f] /\ Aside(f)[c] \in Nat
           /\ SumFunction(Aside(f)) = SumFunctionOnSet(Aside(f), DOMAIN closingStats)
           /\ SumFunction(Aside(f)) \in Nat
<1>1. /\ DOMAIN Aside(f) = DOMAIN closingStats
      /\ \A c \in DOMAIN closingStats :
            Aside(f)[c] = closingStats[c][f] /\ Aside(f)[c] \in Nat
    BY CountersFields DEF Aside, ClosingTypeInv
<1>2. SumFunction(Aside(f)) = SumFunctionOnSet(Aside(f), DOMAIN closingStats)
    BY <1>1 DEF SumFunction
<1>3. SumFunctionOnSet(Aside(f), DOMAIN closingStats) \in Nat
    BY <1>1, SumNat DEF ClosingTypeInv
<1> QED
    BY <1>1, <1>2, <1>3

\* SaveClosingStats for a cookie, which may have stats already.
LEMMA AsidePut ==
    ASSUME ClosingTypeInv, NEW k, NEW v \in Counters,
           closingStats' = MapPut(closingStats, k, v)
    PROVE  /\ ClosingTypeInv'
           /\ \A f \in ByteFields :
                 /\ SumFunction(Aside(f))' \in Nat
                 /\ SumFunction(Aside(f))' <= SumFunction(Aside(f)) + v[f]
                 /\ k \notin DOMAIN closingStats =>
                       SumFunction(Aside(f))' = SumFunction(Aside(f)) + v[f]
<1>1. /\ DOMAIN closingStats' = DOMAIN closingStats \cup {k}
      /\ closingStats'[k] = v
      /\ \A c \in DOMAIN closingStats \ {k} : closingStats'[c] = closingStats[c]
    BY DEF MapPut
<1>2. IsFiniteSet(DOMAIN closingStats \cup {k})
    BY FS_AddElement DEF ClosingTypeInv
<1>3. ClosingTypeInv'
    BY <1>1, <1>2 DEF ClosingTypeInv
<1>4. ASSUME NEW f \in ByteFields
      PROVE  /\ SumFunction(Aside(f))' \in Nat
             /\ SumFunction(Aside(f))' <= SumFunction(Aside(f)) + v[f]
             /\ k \notin DOMAIN closingStats =>
                   SumFunction(Aside(f))' = SumFunction(Aside(f)) + v[f]
    <2>1. PICK S : S = DOMAIN closingStats
        OBVIOUS
    <2>2. PICK T : T = S \cup {k}
        OBVIOUS
    <2>3. PICK a : a = Aside(f)
        OBVIOUS
    <2>4. PICK b : b = Aside(f)'
        OBVIOUS
    <2>5. IsFiniteSet(S) /\ SumFunction(Aside(f)) = SumFunctionOnSet(a, S)
        BY <2>1, <2>3, AsideType DEF ClosingTypeInv
    <2>6. \A c \in S : a[c] \in Nat /\ a[c] = closingStats[c][f]
        BY <2>1, <2>3, AsideType
    <2>7. b = [c \in T |-> closingStats'[c][f]]
        BY <1>1, <2>1, <2>2, <2>4 DEF Aside
    <2>8. SumFunction(Aside(f))' = SumFunctionOnSet(b, T)
        BY <2>4, <2>7 DEF SumFunction
    <2>9. b[k] = v[f] /\ v[f] \in Nat
        BY <1>1, <2>2, <2>7, CountersFields
    <2>10. \A c \in S \ {k} : b[c] = a[c]
        BY <1>1, <2>1, <2>2, <2>6, <2>7
    <2>11. /\ SumFunctionOnSet(b, T) = b[k] + SumFunctionOnSet(a, S \ {k})
           /\ k \notin S => S \ {k} = S
           /\ k \in S => SumFunctionOnSet(a, S) = a[k] + SumFunctionOnSet(a, S \ {k})
           /\ SumFunctionOnSet(a, S \ {k}) \in Nat
        <3>1. \A c \in S : a[c] \in Nat
            BY <2>6
        <3>2. b[k] \in Nat
            BY <2>9
        <3>3. SumFunctionOnSet(b, T) = b[k] + SumFunctionOnSet(a, S \ {k})
            BY SMTT(20), <2>2, <2>5, <2>10, <3>1, <3>2, SumPut
        <3>4. SumFunctionOnSet(a, S \ {k}) \in Nat
            BY <2>2, <2>5, <2>10, <3>1, <3>2, SumPut
        <3>5. k \in S => SumFunctionOnSet(a, S) = a[k] + SumFunctionOnSet(a, S \ {k})
            BY SMTT(20), <2>2, <2>5, <2>10, <3>1, <3>2, SumPut
        <3> QED
            BY <3>3, <3>4, <3>5
    <2>12. CASE k \in S
        BY SMTT(20), <2>1, <2>5, <2>6, <2>8, <2>9, <2>11, <2>12
    <2>13. CASE k \notin S
        <3>1. SumFunctionOnSet(b, T) = v[f] + SumFunctionOnSet(a, S)
            BY <2>9, <2>11, <2>13
        <3>2. SumFunctionOnSet(a, S) \in Nat
            BY <2>11, <2>13
        <3> QED
            BY SMTT(20), <2>5, <2>8, <2>9, <3>1, <3>2
    <2> QED
        BY <2>12, <2>13
<1> QED
    BY <1>3, <1>4

\* delete(svr.ClosingStats, cookie)
LEMMA AsideDelete ==
    ASSUME ClosingTypeInv, NEW k \in DOMAIN closingStats,
           closingStats' = MapDelete(closingStats, k)
    PROVE  /\ ClosingTypeInv'
           /\ \A f \in ByteFields :
                 /\ closingStats[k][f] \in Nat /\ SumFunction(Aside(f))' \in Nat
                 /\ SumFunction(Aside(f)) = closingStats[k][f] + SumFunction(Aside(f))'
<1>1. /\ DOMAIN closingStats' = DOMAIN closingStats \ {k}
      /\ \A c \in DOMAIN closingStats \ {k} : closingStats'[c] = closingStats[c]
    BY DEF MapDelete, Restrict
<1>2. IsFiniteSet(DOMAIN closingStats \ {k})
    BY FS_RemoveElement DEF ClosingTypeInv
<1>3. ClosingTypeInv'
    BY <1>1, <1>2 DEF ClosingTypeInv
<1>4. ASSUME NEW f \in ByteFields
      PROVE  /\ closingStats[k][f] \in Nat /\ SumFunction(Aside(f))' \in Nat
             /\ SumFunction(Aside(f)) = closingStats[k][f] + SumFunction(Aside(f))'
    <2>1. PICK S, a, b : S = DOMAIN closingStats /\ a = Aside(f) /\ b = Aside(f)'
        OBVIOUS
    <2>2. /\ IsFiniteSet(S) /\ \A c \in S : a[c] \in Nat /\ a[c] = closingStats[c][f]
          /\ SumFunction(Aside(f)) = SumFunctionOnSet(a, S)
        BY <2>1, AsideType DEF ClosingTypeInv
    <2>3. /\ \A c \in S \ {k} : b[c] = a[c]
          /\ SumFunction(Aside(f))' = SumFunctionOnSet(b, S \ {k})
        <3>1. b = [c \in S \ {k} |-> closingStats'[c][f]]
            BY <1>1, <2>1 DEF Aside
        <3>2. SumFunction(Aside(f))' = SumFunctionOnSet(b, S \ {k})
            BY <2>1, <3>1 DEF SumFunction
        <3> QED
            BY SMTT(20), <1>1, <2>1, <2>2, <3>1, <3>2
    <2>4. SumFunctionOnSet(a, S \ {k}) = SumFunctionOnSet(b, S \ {k})
        BY SMTT(20), <1>2, <2>1, <2>2, <2>3, SumSame
    <2>5. /\ SumFunctionOnSet(a, S) = a[k] + SumFunctionOnSet(a, S \ {k})
          /\ SumFunctionOnSet(a, S \ {k}) \in Nat
        BY SMTT(20), <2>1, <2>2, SumSplit
    <2> QED
        BY <2>1, <2>2, <2>3, <2>4, <2>5
<1> QED
    BY <1>3, <1>4

LEMMA ClosingInit == Init => ClosingInv
<1> SUFFICES ASSUME Init PROVE ClosingInv
    OBVIOUS
<1>1. DOMAIN closingStats = {} /\ closingTotals = NoBytes
    BY EmptyMapIs DEF Init
<1>2. ClosingTypeInv
    BY <1>1, FS_EmptySet DEF ClosingTypeInv
<1>3. \A f \in ByteFields : SumFunction(Aside(f)) = 0
    BY <1>1, <1>2, AsideType, SumEmpty
<1>4. \A f \in ByteFields : closingTotals[f] = 0
    BY SMTT(20), <1>1 DEF NoBytes, ByteFields
<1>5. \A f \in ByteFields : closingTotals[f] >= SumFunction(Aside(f))
    BY SMTT(20), <1>3, <1>4
<1> QED
    BY <1>2, <1>5 DEF ClosingInv, ClosingTotalsCover, ByteFields, Aside

\* The totals, field by field.
LEMMA TotalsFields ==
    ASSUME TypeInv, NEW v \in Counters, NEW f \in ByteFields
    PROVE  /\ closingTotals[f] \in Int
           /\ Plus(closingTotals, v)[f] = closingTotals[f] + v[f]
           /\ Minus(closingTotals, v)[f] = closingTotals[f] - v[f]
    BY SMTT(20) DEF TypeInv, TypeOK, CountTypeOK, Bytes, Counters, ByteFields, Plus, Minus

LEMMA ClosingStep == TypeInv /\ ClosingInv /\ [Next]_vars => ClosingInv'
<1>ClosingHandleRecord. ASSUME TypeInv, ClosingInv, HandleRecord
                        PROVE  ClosingInv'
    <2> USE <1>ClosingHandleRecord
    <2>1. CASE UNCHANGED <<closingStats, closingTotals>>
        BY <2>1 DEF ClosingInv, ClosingTypeInv, ClosingTotalsCover
    <2>2. ASSUME NEW k, NEW old \in Record, closingStats' = MapPut(closingStats, k, GetStats(old)),
                 closingTotals' = Plus(closingTotals, GetStats(old))
          PROVE  ClosingInv'
        <3>1. PICK v \in Counters : v = GetStats(old)
            BY GetStatsType DEF Counters
        <3>2. /\ ClosingTypeInv'
              /\ \A f \in ByteFields : /\ SumFunction(Aside(f))' \in Nat
                                       /\ SumFunction(Aside(f))' <= SumFunction(Aside(f)) + v[f]
            BY <2>2, <3>1, AsidePut DEF ClosingInv
        <3>3. ASSUME NEW f \in ByteFields PROVE closingTotals'[f] >= SumFunction(Aside(f))'
            <4>1. closingTotals[f] >= SumFunction(Aside(f))
                BY DEF ClosingInv, ClosingTotalsCover, ByteFields, Aside
            <4>2. closingTotals'[f] = closingTotals[f] + v[f] /\ closingTotals[f] \in Int
                BY <2>2, <3>1, TotalsFields
            <4>3. v[f] \in Nat /\ SumFunction(Aside(f)) \in Nat
                BY CountersFields, AsideType DEF ClosingInv
            <4> QED
                BY SMTT(20), <3>2, <4>1, <4>2, <4>3
        <3> QED
            BY <3>2, <3>3 DEF ClosingInv, ClosingTotalsCover, ByteFields, Aside
    <2>3. PICK ar : SwapNew(ar) \/ SwapChanged(ar) \/ SwapSame(ar)
        BY DEF HandleRecord
    <2>4. ar.RawIDM.Cookie \in DOMAIN previous => previous[ar.RawIDM.Cookie] \in Record
        BY DEF TypeInv, TypeOK, RoundTypeOK, IsCacheMap
    <2> QED
        BY <2>1, <2>2, <2>3, <2>4 DEF SwapNew, SwapChanged, SwapSame, SaveClosingStats
<1>ClosingRetire. ASSUME TypeInv, ClosingInv, Retire
                  PROVE  ClosingInv'
    <2> USE <1>ClosingRetire
    <2>1. PICK k \in DOMAIN residual : CloseBytes(k)
        BY DEF Retire
    <2>2. CASE UNCHANGED <<closingStats, closingTotals>>
        BY <2>2 DEF ClosingInv, ClosingTypeInv, ClosingTotalsCover
    <2>3. CASE /\ k \in DOMAIN closingStats
               /\ closingTotals' = Minus(closingTotals, closingStats[k])
               /\ closingStats' = MapDelete(closingStats, k)
        <3>1. PICK v \in Counters : v = closingStats[k]
            BY <2>3 DEF ClosingInv, ClosingTypeInv
        <3>2. /\ ClosingTypeInv'
              /\ \A f \in ByteFields :
                    /\ v[f] \in Nat /\ SumFunction(Aside(f))' \in Nat
                    /\ SumFunction(Aside(f)) = v[f] + SumFunction(Aside(f))'
            BY <2>3, <3>1, AsideDelete DEF ClosingInv
        <3>3. ASSUME NEW f \in ByteFields PROVE closingTotals'[f] >= SumFunction(Aside(f))'
            <4>1. closingTotals[f] >= SumFunction(Aside(f))
                BY DEF ClosingInv, ClosingTotalsCover, ByteFields, Aside
            <4>2. closingTotals'[f] = closingTotals[f] - v[f] /\ closingTotals[f] \in Int
                BY <2>3, <3>1, TotalsFields
            <4> QED
                BY SMTT(20), <3>2, <4>1, <4>2
        <3> QED
            BY <3>2, <3>3 DEF ClosingInv, ClosingTotalsCover, ByteFields, Aside
    <2> QED
        BY <2>1, <2>2, <2>3 DEF CloseBytes
<1> SUFFICES ASSUME TypeInv, ClosingInv, [Next]_vars PROVE ClosingInv'
    OBVIOUS
<1>1. CASE UNCHANGED <<closingStats, closingTotals>>
    BY <1>1 DEF ClosingInv, ClosingTypeInv, ClosingTotalsCover
<1>2. CASE Receive \/ SkipMessage \/ FinishRound \/ EndRetired \/ Report
    BY <1>1, <1>2 DEF Receive, SkipMessage, FinishRound, EndRetired, Report
<1>3. CASE QueueReject \/ QueueLookup \/ QueueExpire \/ QueueKeep \/ Rotate
             \/ RotateFails \/ QueueSend
    BY <1>1, <1>3 DEF QueueReject, QueueLookup, QueueExpire, QueueKeep, Rotate,
                      RotateFails, QueueSend
<1>4. CASE CloseBegin \/ CloseConn \/ EndClosed \/ CloseEnd
    BY <1>1, <1>4 DEF CloseBegin, CloseConn, EndClosed, CloseEnd
<1>5. CASE Tick \/ SendBlock \/ CloseReader \/ Finished \/ UNCHANGED vars
    BY <1>1, <1>5 DEF Tick, SendBlock, CloseReader, Finished, vars
<1>6. CASE \E m \in Marshallers : Marshaller(m)
    BY <1>1, <1>6 DEF Marshaller, MarshalClose, MarshalSave, MarshalExit
<1> QED
    BY <1>2, <1>3, <1>4, <1>5, <1>6, <1>ClosingHandleRecord, <1>ClosingRetire DEF Next, SaverStep

LEMMA ClosingInvariant == Spec => []ClosingInv
    BY ClosingInit, ClosingStep, TypeInvariant, PTL DEF Spec

(***************************************************************************)
(* ClosingTotals, unsigned in the code, is never smaller than the sum of   *)
(* the stats put aside: taking those of a connection that is gone from it  *)
(* never wraps around, even when a connection's stats are put aside twice. *)
(***************************************************************************)
THEOREM TotalsNeverWrap == Spec => []ClosingTotalsCover
<1>1. ClosingInv => ClosingTotalsCover
    BY DEF ClosingInv
<1> QED
    BY <1>1, ClosingInvariant, PTL

=============================================================================
