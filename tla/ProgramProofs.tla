--------------------------- MODULE ProgramProofs ---------------------------
(***************************************************************************)
(* The whole program, polling sockets that open, send, close and go, for   *)
(* every set of sockets and number of rounds.                              *)
(***************************************************************************)
EXTENDS SaverProofs, TcpInfo

\* Leaves are for Zenon, unless they cite another prover.
USE ZenonT(40)
USE SaverAssumption, TcpInfoAssumption
USE DEF envVars, cacheVars, connVars, byteVars, repVars, roundVars, exitVars,
        loopVars, frameVars, kernelVars, collectorVars

-----------------------------------------------------------------------------
(* The answer of the kernel. *)

\* The sockets that a dump lists.
Listed(family) ==
    {c \in Sockets : FamilyOf[c] = family /\ sock[c].phase \in {"open", "closing"}}

\* It lists them in the order f.
ListedAs(family, n, f) ==
    /\ \A c \in Listed(family) : \E i \in 1 .. n : f[i] = c
    /\ \A i, j \in 1 .. n : f[i] = f[j] => i = j
    /\ Dump(family) = [i \in 1 .. n |-> MessageOf(f[i])]

\* A dump lists each of its sockets once.
LEMMA DumpIs ==
    ASSUME NEW family
    PROVE  \E n \in Nat : \E f \in [1 .. n -> Listed(family)] : ListedAs(family, n, f)
<1> DEFINE S == Listed(family)
           n == Cardinality(S)
           order == CHOOSE f \in [1 .. n -> S] : IsInjective(f)
<1>1. IsFiniteSet(S) /\ n \in Nat /\ ExistsBijection(1 .. n, S)
    <2>1. IsFiniteSet(S)
        BY FS_Subset DEF Listed
    <2> QED
        BY <2>1, FS_CardinalityType
<1>2. order \in [1 .. n -> S] /\ IsInjective(order)
    <2>1. \E f \in [1 .. n -> S] : IsInjective(f)
        BY <1>1 DEF ExistsBijection, Bijection, Injection
    <2> QED
        BY <2>1
<1>3. \A i, j \in 1 .. n : order[i] = order[j] => i = j
    BY <1>2 DEF IsInjective
<1>4. \A c \in S : \E i \in 1 .. n : order[i] = c
    <2>1. order \in Injection(1 .. n, S)
        BY <1>2 DEF Injection
    <2>2. Cardinality(1 .. n) = n
        <3>1. n \in Int /\ 1 \in Int /\ n >= 0
            BY SMTT(40), <1>1
        <3>2. PICK k \in Int : k = n
            BY <3>1
        <3>3. Cardinality(1 .. k) = IF 1 > k THEN 0 ELSE k - 1 + 1
            BY <3>1, FS_Interval
        <3> QED
            BY SMTT(40), <3>1, <3>2, <3>3
    <2>3. order \in Surjection(1 .. n, S)
        BY <1>1, <2>1, <2>2, FS_Injection
    <2> QED
        BY <2>3 DEF Surjection
<1>5. Dump(family) = [i \in 1 .. n |-> MessageOf(order[i])]
    <2>1. DOMAIN order = 1 .. n
        BY <1>2
    <2> QED
        BY <2>1 DEF Dump, Listed
<1> n \in Nat /\ order \in [1 .. n -> Listed(family)]
    BY <1>1, <1>2
<1> HIDE DEF n, order
<1> WITNESS n \in Nat
<1> WITNESS order \in [1 .. n -> Listed(family)]
<1> QED
    BY <1>3, <1>4, <1>5 DEF ListedAs

-----------------------------------------------------------------------------
(* What a record says of its socket. *)

LEMMA OneAttribute ==
    ASSUME NEW t \in 0 .. 2 * INET_DIAG_MAX, NEW v, NEW attrs,
           attrs = <<[Type |-> t, Malformed |-> FALSE, Value |-> v]>>
    PROVE  AttributeTable(attrs) = [k \in 1 .. t + 1 |-> IF k = t + 1 THEN <<v>> ELSE <<>>]
<1>1. DOMAIN attrs = {1} /\ attrs[1].Type = t /\ attrs[1].Value = v
    BY SMTT(40)
<1>2. maxAttrType(attrs) = t
    <2> DEFINE S == {x \in 0 .. 2 * INET_DIAG_MAX :
                        x = 0 \/ \E i \in DOMAIN attrs : attrs[i].Type >= x}
    <2>1. t \in S /\ \A x \in S : x <= t
        BY SMTT(40), <1>1 DEF INET_DIAG_MAX
    <2>2. 2 * INET_DIAG_MAX \in Nat /\ S \subseteq 0 .. 2 * INET_DIAG_MAX /\ S # {}
        BY SMTT(40), <2>1 DEF INET_DIAG_MAX
    <2>3. Max(S) \in S /\ \A x \in S : Max(S) >= x
        BY <2>2, MaxOfBounded
    <2>4. Max(S) = t
        BY SMTT(40), <2>1, <2>3 DEF INET_DIAG_MAX
    <2> QED
        BY <2>4 DEF maxAttrType
<1>3. ASSUME NEW k \in 1 .. t + 1
      PROVE  (LET at == Occurrences(attrs, k - 1)
              IN  IF at = {} THEN <<>> ELSE <<attrs[Max(at)].Value>>)
               = IF k = t + 1 THEN <<v>> ELSE <<>>
    <2>1. CASE k = t + 1
        <3>1. Occurrences(attrs, k - 1) = {1}
            BY SMTT(40), <1>1, <2>1 DEF Occurrences, INET_DIAG_MAX
        <3>2. Max({1}) = 1
            <4>1. 1 \in Nat /\ {1} \subseteq 0 .. 1 /\ {1} # {}
                BY SMTT(40)
            <4> QED
                BY SMTT(40), <4>1, MaxOfBounded
        <3> QED
            BY <1>1, <2>1, <3>1, <3>2
    <2>2. CASE k # t + 1
        <3>1. Occurrences(attrs, k - 1) = {}
            BY SMTT(40), <1>1, <2>2 DEF Occurrences, INET_DIAG_MAX
        <3> QED
            BY <2>2, <3>1
    <2> QED
        BY <2>1, <2>2
<1> QED
    BY <1>2, <1>3 DEF AttributeTable

LEMMA NoAttribute == AttributeTable(<<>>) = [k \in 1 .. 1 |-> <<>>]
<1>1. maxAttrType(<<>>) = 0
    <2> DEFINE S == {x \in 0 .. 2 * INET_DIAG_MAX :
                        x = 0 \/ \E i \in DOMAIN <<>> : <<>>[i].Type >= x}
    <2>1. S = {0}
        BY SMTT(40) DEF INET_DIAG_MAX
    <2>2. 0 \in Nat /\ {0} \subseteq 0 .. 0 /\ {0} # {}
        BY SMTT(40)
    <2>3. Max(S) = 0
        BY <2>1, <2>2, MaxOfBounded
    <2> QED
        BY <2>3 DEF maxAttrType
<1>2. \A k : Occurrences(<<>>, k) = {}
    BY SMTT(40) DEF Occurrences
<1> QED
    BY SMTT(40), <1>1, <1>2 DEF AttributeTable

\* How far a record says that its socket is: the bytes sent, or beyond them.
Rank(r) == IF HasTCPInfo(r) THEN TCPInfo(r).Sent ELSE MaxBytes + 1

\* A record of an open socket, and of one that has lost its TCPInfo.
OpenRecord(r) ==
    Rank(r) \in 0 .. MaxBytes /\ HasDiagInfo(r) /\ GetStats(r).Sent = Rank(r)

ClosingRecord(r) ==
    Rank(r) = MaxBytes + 1 /\ HasDiagInfo(r) = MarkKept /\ GetStats(r).Sent = 0

RecordOf(m) == MakeArchivalRecord(m, 0)

SocketRecord(r) == r.RawIDM.Cookie \in Sockets /\ (OpenRecord(r) \/ ClosingRecord(r))

SocketMessages ==
    {m \in NetlinkMessage : Archivable(m) /\ SocketRecord(RecordOf(m))}

\* The messages about the sockets of one family.
Info(b) ==
    [Len |-> TCPInfoWithBytes, Early |-> 0, Times |-> 0, Counters |-> b,
     Received |-> 0, Late |-> 0, Sent |-> b]

Message(c, state, attrs) ==
    [Type |-> 20, Short |-> FALSE,
     IDM |-> [Family |-> FamilyOf[c], Cookie |-> c, Src |-> "global", Dst |-> "global",
              State |-> state],
     Attrs |-> attrs]

Attribute(t, v) == <<[Type |-> t, Malformed |-> FALSE, Value |-> v]>>

OpenMessage(c, b) == Message(c, 1, Attribute(INET_DIAG_INFO, Info(b)))
ClosingMessage(c) ==
    Message(c, 5, IF MarkKept THEN Attribute(INET_DIAG_MARK, Mark) ELSE <<>>)

KernelMessages(family) ==
    LET S == {c \in Sockets : FamilyOf[c] = family}
    IN  {OpenMessage(c, b) : c \in S, b \in 0 .. MaxBytes} \cup {ClosingMessage(c) : c \in S}

LEMMA AttributeType ==
    ASSUME NEW t \in Nat, NEW v \in AttrValue
    PROVE  /\ Attribute(t, v) \in Seq(RouteAttr)
           /\ \A i \in DOMAIN Attribute(t, v) : ~Attribute(t, v)[i].Malformed
<1>1. [Type |-> t, Malformed |-> FALSE, Value |-> v] \in RouteAttr
    BY DEF RouteAttr
<1> QED
    BY SMTT(40), <1>1 DEF Attribute

LEMMA MessageIs ==
    ASSUME NEW c \in Sockets, NEW state \in Nat, NEW attrs \in Seq(RouteAttr),
           \A i \in DOMAIN attrs : ~attrs[i].Malformed,
           NEW m, m = Message(c, state, attrs)
    PROVE  /\ m \in NetlinkMessage /\ Archivable(m)
           /\ m.IDM.Cookie = c /\ RecordOf(m).RawIDM.Cookie = c
           /\ RecordOf(m).Attributes = AttributeTable(attrs)
<1>1. c \in Nat /\ FamilyOf[c] \in Nat
    BY SMTT(40) DEF AF_INET, AF_INET6
<1>2. m.IDM \in InetDiagMsg
    BY <1>1 DEF Message, InetDiagMsg, Addr
<1>3. /\ m.Type = 20 /\ m.Short = FALSE /\ m.Attrs = attrs
      /\ m.IDM.Src = "global" /\ m.IDM.Dst = "global" /\ m.IDM.Cookie = c
    BY DEF Message
<1>4. m \in NetlinkMessage
    BY <1>2, <1>3 DEF Message, NetlinkMessage
<1>5. Archivable(m)
    BY <1>3 DEF Archivable, isLocal, LocalAddr, ParseRouteAttrFails
<1> QED
    BY <1>3, <1>4, <1>5 DEF RecordOf, MakeArchivalRecord

LEMMA OpenMessageIs ==
    ASSUME NEW c \in Sockets, NEW b \in 0 .. MaxBytes
    PROVE  /\ OpenMessage(c, b) \in SocketMessages /\ OpenMessage(c, b).IDM.Cookie = c
           /\ Rank(RecordOf(OpenMessage(c, b))) = b
<1> DEFINE m == OpenMessage(c, b)
           r == RecordOf(m)
           a == Attribute(INET_DIAG_INFO, Info(b))
<1>1. INET_DIAG_INFO \in Nat /\ INET_DIAG_INFO \in 0 .. 2 * INET_DIAG_MAX /\ 1 \in Nat
    BY SMTT(40) DEF INET_DIAG_INFO, INET_DIAG_MAX
<1>2. Info(b) \in AttrValue /\ Info(b).Sent = b /\ Info(b).Len >= TCPInfoWithBytes
    BY SMTT(40) DEF Info, AttrValue, TCPInfoWithBytes
<1>3. a \in Seq(RouteAttr) /\ \A i \in DOMAIN a : ~a[i].Malformed
    BY <1>1, <1>2, AttributeType
<1>4. /\ m \in NetlinkMessage /\ Archivable(m) /\ m.IDM.Cookie = c /\ r.RawIDM.Cookie = c
      /\ r.Attributes = AttributeTable(a)
    <2> HIDE DEF a
    <2> QED
        BY SMTT(40), <1>1, <1>3, MessageIs DEF OpenMessage, a
<1>5. Len(r.Attributes) = 3 /\ r.Attributes[3] = <<Info(b)>>
    <2>1. AttributeTable(a) = [k \in 1 .. INET_DIAG_INFO + 1 |->
             IF k = INET_DIAG_INFO + 1 THEN <<Info(b)>> ELSE <<>>]
        BY SMTT(40), <1>1, OneAttribute DEF Attribute
    <2>2. r.Attributes = [k \in 1 .. 3 |-> IF k = 3 THEN <<Info(b)>> ELSE <<>>]
        BY SMTT(40), <1>4, <2>1 DEF INET_DIAG_INFO
    <2> QED
        BY SMTT(40), <2>2
<1>6. HasTCPInfo(r) /\ HasDiagInfo(r) /\ TCPInfo(r) = Info(b)
    <2>1. /\ INET_DIAG_INFO + 1 = 3 /\ 3 > INET_DIAG_INFO
          /\ <<Info(b)>> # <<>> /\ <<Info(b)>>[1] = Info(b)
        BY SMTT(40) DEF INET_DIAG_INFO
    <2> HIDE DEF r
    <2> QED
        BY <1>5, <2>1 DEF HasTCPInfo, HasDiagInfo, TCPInfo
<1>7. Rank(r) = b /\ GetStats(r).Sent = b
    BY <1>2, <1>6 DEF Rank, GetStats
<1>8. OpenRecord(r)
    BY <1>6, <1>7 DEF OpenRecord
<1> QED
    BY <1>4, <1>7, <1>8 DEF SocketMessages, SocketRecord

LEMMA ClosingMessageIs ==
    ASSUME NEW c \in Sockets
    PROVE  /\ ClosingMessage(c) \in SocketMessages /\ ClosingMessage(c).IDM.Cookie = c
           /\ Rank(RecordOf(ClosingMessage(c))) = MaxBytes + 1
<1> DEFINE m == ClosingMessage(c)
           r == RecordOf(m)
           a == IF MarkKept THEN Attribute(INET_DIAG_MARK, Mark) ELSE <<>>
<1>1. INET_DIAG_MARK \in Nat /\ INET_DIAG_MARK \in 0 .. 2 * INET_DIAG_MAX /\ 5 \in Nat
    BY SMTT(40) DEF INET_DIAG_MARK, INET_DIAG_MAX
<1>2. a \in Seq(RouteAttr) /\ \A i \in DOMAIN a : ~a[i].Malformed
    <2>1. Mark \in AttrValue
        BY DEF Mark, AttrValue
    <2> QED
        BY SMTT(40), <1>1, <2>1, AttributeType
<1>3. /\ m \in NetlinkMessage /\ Archivable(m) /\ m.IDM.Cookie = c /\ r.RawIDM.Cookie = c
      /\ r.Attributes = AttributeTable(a)
    <2>1. m = Message(c, 5, a)
        BY DEF ClosingMessage
    <2> HIDE DEF a, m
    <2> QED
        BY SMTT(40), <1>1, <1>2, <2>1, MessageIs
<1>4. HasDiagInfo(r) \in BOOLEAN
    BY SMTT(40) DEF HasDiagInfo
<1>5. ~HasTCPInfo(r) /\ HasDiagInfo(r) = MarkKept
    <2>1. CASE MarkKept
        <3>1. a = Attribute(INET_DIAG_MARK, Mark)
            BY <2>1
        <3>2. AttributeTable(a) = [k \in 1 .. INET_DIAG_MARK + 1 |->
                 IF k = INET_DIAG_MARK + 1 THEN <<Mark>> ELSE <<>>]
            BY SMTT(40), <1>1, <3>1, OneAttribute DEF Attribute
        <3>3. r.Attributes = [k \in 1 .. 16 |-> IF k = 16 THEN <<Mark>> ELSE <<>>]
            BY SMTT(40), <1>3, <3>2 DEF INET_DIAG_MARK
        <3>4. Len(r.Attributes) = 16 /\ r.Attributes[3] = <<>>
            BY SMTT(40), <3>3
        <3>5. ~HasTCPInfo(r) /\ HasDiagInfo(r)
            BY SMTT(40), <3>4 DEF HasTCPInfo, HasDiagInfo, INET_DIAG_INFO
        <3> QED
            BY <1>4, <2>1, <3>5
    <2>2. CASE ~MarkKept
        <3>1. a = <<>>
            BY <2>2
        <3>2. r.Attributes = [k \in 1 .. 1 |-> <<>>]
            BY <1>3, <3>1, NoAttribute
        <3>3. Len(r.Attributes) = 1
            BY SMTT(40), <3>2
        <3>4. ~HasTCPInfo(r) /\ ~HasDiagInfo(r)
            BY SMTT(40), <3>3 DEF HasTCPInfo, HasDiagInfo, INET_DIAG_INFO
        <3> QED
            BY <1>4, <2>2, <3>4
    <2> QED
        BY <2>1, <2>2
<1>6. Rank(r) = MaxBytes + 1 /\ GetStats(r).Sent = 0
    BY <1>5 DEF Rank, GetStats
<1> QED
    BY <1>3, <1>5, <1>6 DEF SocketMessages, SocketRecord, ClosingRecord

\* The messages of the kernel are about its sockets.
LEMMA KernelMessagesAre ==
    ASSUME NEW family, NEW m \in KernelMessages(family)
    PROVE  m \in SocketMessages /\ FamilyOf[m.IDM.Cookie] = family
    BY SMTT(40), OpenMessageIs, ClosingMessageIs DEF KernelMessages

SockType ==
    sock \in [Sockets -> [phase : {"none", "open", "closing", "gone"}, bytes : 0 .. MaxBytes]]

\* What the kernel reports of a socket.
LEMMA MessageOfIs ==
    ASSUME SockType, NEW c \in Sockets, sock[c].phase \in {"open", "closing"}
    PROVE  /\ MessageOf(c) \in KernelMessages(FamilyOf[c])
           /\ MessageOf(c).IDM.Cookie = c
           /\ sock[c].phase = "open" => Rank(RecordOf(MessageOf(c))) = sock[c].bytes
           /\ sock[c].phase = "closing" => Rank(RecordOf(MessageOf(c))) = MaxBytes + 1
<1>1. sock[c].bytes \in 0 .. MaxBytes
    BY DEF SockType
<1>2. CASE sock[c].phase = "open"
    <2>1. MessageOf(c) = OpenMessage(c, sock[c].bytes)
        BY <1>2 DEF MessageOf, OpenMessage, Message, AttrsOf, Attribute, InfoOf, Info
    <2> QED
        BY SMTT(40), <1>1, <1>2, <2>1, OpenMessageIs DEF KernelMessages
<1>3. CASE sock[c].phase = "closing"
    <2>1. MessageOf(c) = ClosingMessage(c)
        <3>1. AttrsOf(c) = IF MarkKept THEN Attribute(INET_DIAG_MARK, Mark) ELSE <<>>
            BY <1>3 DEF AttrsOf, Attribute
        <3> QED
            BY <1>3, <3>1 DEF MessageOf, ClosingMessage, Message
    <2> QED
        BY SMTT(40), <1>3, <2>1, ClosingMessageIs DEF KernelMessages
<1> QED
    BY <1>2, <1>3

\* The time in a record makes no difference.
LEMMA RecordOfIs ==
    ASSUME NEW m \in SocketMessages, NEW t
    PROVE  /\ Archivable(m)
           /\ SocketRecord(MakeArchivalRecord(m, t))
           /\ MakeArchivalRecord(m, t).RawIDM.Cookie = m.IDM.Cookie
           /\ Rank(MakeArchivalRecord(m, t)) = Rank(RecordOf(m))
<1> DEFINE r == MakeArchivalRecord(m, t)
           s == RecordOf(m)
<1>1. r.RawIDM = s.RawIDM /\ r.Attributes = s.Attributes /\ r.RawIDM = m.IDM
    BY DEF MakeArchivalRecord, RecordOf
<1>2. HasDiagInfo(r) = HasDiagInfo(s) /\ HasTCPInfo(r) = HasTCPInfo(s) /\ TCPInfo(r) = TCPInfo(s)
    BY <1>1 DEF HasDiagInfo, HasTCPInfo, TCPInfo
<1>3. GetStats(r) = GetStats(s) /\ Rank(r) = Rank(s)
    BY <1>2 DEF GetStats, Rank
<1>4. OpenRecord(r) = OpenRecord(s) /\ ClosingRecord(r) = ClosingRecord(s)
    BY <1>2, <1>3 DEF OpenRecord, ClosingRecord
<1> HIDE DEF r, s
<1>5. Archivable(m) /\ SocketRecord(s)
    BY DEF SocketMessages, s
<1>6. SocketRecord(r)
    BY <1>1, <1>4, <1>5 DEF SocketRecord
<1> QED
    BY <1>1, <1>3, <1>5, <1>6 DEF r, s

-----------------------------------------------------------------------------
(* What OneType leaves in a block, and what the program does with it. *)

\* The sockets of one family, each once; possibly followed by an error.
Listing(family) ==
    {s \in Seq(KernelMessages(family)) :
        \A i, j \in DOMAIN s : s[i].IDM.Cookie = s[j].IDM.Cookie => i = j}

Replies(family) == Listing(family) \cup {Append(s, ErrorMessage) : s \in Listing(family)}

Collected == [V4Messages : Replies(AF_INET), V6Messages : Replies(AF_INET6)]

LEMMA ListingEmpty == ASSUME NEW family PROVE <<>> \in Listing(family)
    BY SMTT(40) DEF Listing

LEMMA DumpListing ==
    ASSUME SockType, NEW family
    PROVE  Dump(family) \in Listing(family)
<1>1. PICK n \in Nat : \E f \in [1 .. n -> Listed(family)] : ListedAs(family, n, f)
    BY DumpIs
<1>2. PICK f \in [1 .. n -> Listed(family)] :
          /\ \A i, j \in 1 .. n : f[i] = f[j] => i = j
          /\ Dump(family) = [i \in 1 .. n |-> MessageOf(f[i])]
    BY SMTT(40), <1>1 DEF ListedAs
<1>3. \A c \in Listed(family) : /\ MessageOf(c) \in KernelMessages(family)
                                /\ MessageOf(c).IDM.Cookie = c
    BY MessageOfIs DEF Listed
<1>4. \A i \in 1 .. n : /\ MessageOf(f[i]) \in KernelMessages(family)
                        /\ MessageOf(f[i]).IDM.Cookie = f[i]
    BY <1>2, <1>3
<1>5. Dump(family) \in Seq(KernelMessages(family)) /\ DOMAIN Dump(family) = 1 .. n
    BY SMTT(40), <1>2, <1>4
<1>6. \A i \in 1 .. n : Dump(family)[i].IDM.Cookie = f[i]
    BY <1>2, <1>4
<1> QED
    BY SMTT(40), <1>2, <1>5, <1>6 DEF Listing

\* A part of a listing is one.
LEMMA ListingPrefix ==
    ASSUME NEW family, NEW s \in Listing(family), NEW n \in 0 .. Len(s)
    PROVE  SubSeq(s, 1, n) \in Listing(family)
<1>1. s \in Seq(KernelMessages(family)) /\ Len(s) \in Nat /\ DOMAIN s = 1 .. Len(s)
    BY SeqLen DEF Listing
<1>2. /\ SubSeq(s, 1, n) \in Seq(KernelMessages(family))
      /\ DOMAIN SubSeq(s, 1, n) = 1 .. n
      /\ \A i \in 1 .. n : SubSeq(s, 1, n)[i] = s[i]
    BY SMTT(40), <1>1
<1>3. \A i, j \in 1 .. Len(s) : s[i].IDM.Cookie = s[j].IDM.Cookie => i = j
    BY <1>1 DEF Listing
<1>4. 1 .. n \subseteq 1 .. Len(s)
    BY SMTT(40), <1>1
<1>5. \A i, j \in 1 .. n :
         SubSeq(s, 1, n)[i].IDM.Cookie = SubSeq(s, 1, n)[j].IDM.Cookie => i = j
    BY <1>2, <1>3, <1>4
<1> QED
    BY <1>2, <1>5 DEF Listing

LEMMA OneTypeIs ==
    ASSUME SockType, NEW family, NEW res \in OneType(family)
    PROVE  res \in Replies(family) /\ (~DumpMayFail => res = Dump(family))
<1>1. Dump(family) \in Listing(family)
    BY DumpListing
<1>2. CASE res = Dump(family)
    BY <1>1, <1>2 DEF Replies
<1>3. CASE res # Dump(family)
    <2>1. /\ DumpMayFail
          /\ \E n \in 0 .. Len(Dump(family)) :
                res \in {SubSeq(Dump(family), 1, n),
                         Append(SubSeq(Dump(family), 1, n), ErrorMessage)}
        BY <1>3 DEF OneType, Outcomes
    <2>2. PICK n \in 0 .. Len(Dump(family)) :
             res \in {SubSeq(Dump(family), 1, n),
                      Append(SubSeq(Dump(family), 1, n), ErrorMessage)}
        BY <2>1
    <2>3. SubSeq(Dump(family), 1, n) \in Listing(family)
        BY <1>1, ListingPrefix
    <2>4. res \in Replies(family)
        BY <2>2, <2>3 DEF Replies
    <2> QED
        BY <2>1, <2>4
<1> QED
    BY <1>2, <1>3

LEMMA RepliesType ==
    ASSUME NEW family
    PROVE  Replies(family) \subseteq Seq(NetlinkMessage)
<1>1. KernelMessages(family) \subseteq NetlinkMessage
    BY KernelMessagesAre DEF SocketMessages
<1>2. ErrorMessage \in NetlinkMessage
    <2>1. ErrorMessage.IDM \in InetDiagMsg
        BY DEF ErrorMessage, InetDiagMsg, Addr, LocalAddr
    <2>2. <<>> \in Seq(RouteAttr) /\ NLMSG_ERROR \in Nat
        BY SMTT(40) DEF NLMSG_ERROR
    <2> QED
        BY <2>1, <2>2 DEF ErrorMessage, NetlinkMessage
<1>3. Listing(family) \subseteq Seq(NetlinkMessage)
    BY SMTT(40), <1>1 DEF Listing
<1> QED
    BY SMTT(40), <1>2, <1>3, SeqAppend DEF Replies

\* What collectDefaultNamespace and Run keep to.
CollectorInv ==
    /\ collector \in {"collect6", "collect4", "submit", "stop", "wait"}
    /\ buffer \in [V4Time : 0 .. now, V4Messages : Replies(AF_INET),
                   V6Time : 0 .. now, V6Messages : Replies(AF_INET6)]
    /\ collector = "submit" => buffer.V6Time <= buffer.V4Time
    /\ now <= MaxTime
    /\ readerClosed => collector = "wait"
    /\ loops \in Nat /\ sent = loops
    /\ collector \in {"collect6", "collect4", "submit"} => loops < Reps

ProgramInv == TypeInv /\ SockType /\ CollectorInv

LEMMA EmptyBlockIs ==
    EmptyBlock \in [V4Time : {0}, V4Messages : Replies(AF_INET),
                    V6Time : {0}, V6Messages : Replies(AF_INET6)]
    BY ListingEmpty DEF EmptyBlock, Replies

LEMMA ProgramInvInit == ProgramInit => ProgramInv
<1> SUFFICES ASSUME ProgramInit PROVE ProgramInv
    OBVIOUS
<1>1. TypeInv
    BY TypeInit DEF ProgramInit
<1>2. SockType
    BY SMTT(40) DEF ProgramInit, SockType
<1>3. /\ now = 0 /\ sent = 0 /\ readerClosed = FALSE /\ loops = 0 /\ collector = "collect6"
      /\ buffer = EmptyBlock
    BY DEF ProgramInit, Init
<1>4. CollectorInv
    BY SMTT(40), <1>3, EmptyBlockIs DEF CollectorInv
<1> QED
    BY <1>1, <1>2, <1>4 DEF ProgramInv

\* Of the environment, the goroutines only receive, and time passes.
LEMMA GoroutinesEnv ==
    ASSUME Goroutines
    PROVE  /\ UNCHANGED <<readerClosed, sent>>
           /\ UNCHANGED now \/ (now < MaxTime /\ now' = now + 1)
<1>1. CASE SaverStep
    BY <1>1 DEF SaverStep, Receive, SkipMessage, HandleRecord, QueueReject, QueueLookup,
                QueueExpire, QueueKeep, Rotate, RotateFails, QueueSend, FinishRound, Retire,
                EndRetired, Report, CloseBegin, CloseConn, EndClosed, CloseEnd
<1>2. CASE \E m \in Marshallers : Marshaller(m)
    BY <1>2 DEF Marshaller, MarshalClose, MarshalSave, MarshalExit
<1> QED
    BY <1>1, <1>2 DEF Goroutines, Tick, Finished, vars

\* Of the program's steps, only Submit is not a step of the saver's own.
LEMMA StepOfSaver ==
    ASSUME [ProgramNext]_allVars
    PROVE  Submit \/ [Next]_vars
<1>1. CASE KernelStep
    BY <1>1 DEF KernelStep, vars
<1>2. CASE Collect6 \/ Collect4
    BY <1>2 DEF Collect6, Collect4, vars
<1>3. CASE Stop
    BY <1>3 DEF Stop, Next
<1>4. CASE Goroutines
    BY <1>4 DEF Goroutines, Next
<1>5. CASE UNCHANGED allVars
    BY <1>5 DEF allVars, vars
<1> QED
    BY <1>1, <1>2, <1>3, <1>4, <1>5 DEF ProgramNext, CollectorStep

LEMMA ProgramType ==
    ASSUME ProgramInv, [ProgramNext]_allVars
    PROVE  TypeInv'
<1>1. CASE Submit
    <2>1. buffer \in TimedBlock
        BY SMTT(40), RepliesType
           DEF ProgramInv, CollectorInv, TimedBlock, TypeInv, TypeOK, RoundTypeOK
    <2>2. readerChannel' \in Seq(TimedBlock) /\ sent' \in Nat
        BY SMTT(40), <1>1, <2>1 DEF Submit, ProgramInv, TypeInv, TypeOK, RoundTypeOK
    <2>3. RoundTypeOK'
        BY <1>1, <2>2 DEF Submit, ProgramInv, TypeInv, TypeOK, RoundTypeOK, IsCacheMap
    <2> QED
        BY <1>1, <2>3, TypeFrame DEF Submit, ProgramInv, TypeInv, TypeOK
<1> QED
    BY <1>1, StepOfSaver, TypeStep DEF ProgramInv

LEMMA ProgramInvStep == ProgramInv /\ [ProgramNext]_allVars => ProgramInv'
<1>KernelType. ASSUME SockType, [ProgramNext]_allVars
               PROVE  SockType'
    <2> USE <1>KernelType
    <2>1. CASE KernelStep
        BY SMTT(40), <2>1 DEF KernelStep, SocketOpens, SocketCloses, SocketGoes, SocketSends,
                              SetPhase, SockType
    <2> QED
        BY <2>1 DEF SockType, ProgramNext, CollectorStep, Collect6, Collect4, Submit, Stop, allVars
<1>CollectorStepInv. ASSUME ProgramInv, [ProgramNext]_allVars
                     PROVE  CollectorInv'
    <2> USE <1>CollectorStepInv
    <2> USE DEF CollectorInv
    <2>1. SockType /\ CollectorInv /\ now \in Nat /\ sent \in Nat
        BY DEF ProgramInv, TypeInv, TypeOK, RoundTypeOK
    <2>2. CASE UNCHANGED <<collectorVars, now, sent, readerClosed>>
        BY <2>1, <2>2
    <2>3. CASE Collect6
        <3>1. PICK res \in OneType(AF_INET6) :
                 buffer' = [EmptyBlock EXCEPT !.V6Time = now, !.V6Messages = res]
            BY <2>3 DEF Collect6
        <3>2. res \in Replies(AF_INET6)
            BY <2>1, OneTypeIs
        <3>3. buffer' \in [V4Time : 0 .. now, V4Messages : Replies(AF_INET),
                           V6Time : 0 .. now, V6Messages : Replies(AF_INET6)]
            <4>1. buffer' = [V4Time |-> 0, V4Messages |-> <<>>, V6Time |-> now, V6Messages |-> res]
                BY <3>1 DEF EmptyBlock
            <4>2. 0 \in 0 .. now /\ now \in 0 .. now /\ <<>> \in Replies(AF_INET)
                BY SMTT(40), <2>1, ListingEmpty DEF Replies
            <4> QED
                BY <3>2, <4>1, <4>2
        <3>4. UNCHANGED <<now, sent, readerClosed, loops>> /\ collector' = "collect4"
            BY <2>3 DEF Collect6, vars
        <3> QED
            BY <2>1, <2>3, <3>3, <3>4 DEF Collect6
    <2>4. CASE Collect4
        <3>1. PICK res \in OneType(AF_INET) :
                 buffer' = [buffer EXCEPT !.V4Time = now, !.V4Messages = res]
            BY <2>4 DEF Collect4
        <3>2. res \in Replies(AF_INET)
            BY <2>1, OneTypeIs
        <3>3. /\ buffer' \in [V4Time : 0 .. now, V4Messages : Replies(AF_INET),
                              V6Time : 0 .. now, V6Messages : Replies(AF_INET6)]
              /\ buffer'.V6Time <= buffer'.V4Time
            <4>1. buffer' = [V4Time |-> now, V4Messages |-> res,
                             V6Time |-> buffer.V6Time, V6Messages |-> buffer.V6Messages]
                BY <2>1, <3>1
            <4>2. /\ now \in 0 .. now /\ buffer.V6Time \in 0 .. now
                  /\ buffer.V6Messages \in Replies(AF_INET6)
                BY SMTT(40), <2>1
            <4> QED
                BY SMTT(40), <3>2, <4>1, <4>2
        <3>4. UNCHANGED <<now, sent, readerClosed, loops>> /\ collector' = "submit"
            BY <2>4 DEF Collect4, vars
        <3> QED
            BY <2>1, <2>4, <3>3, <3>4 DEF Collect4
    <2>5. CASE Submit
        <3>1. /\ UNCHANGED <<now, readerClosed>> /\ buffer' = EmptyBlock
              /\ loops' = loops + 1 /\ sent' = sent + 1
              /\ collector' = "stop" \/ (collector' = "collect6" /\ loops + 1 < Reps)
            BY <2>5 DEF Submit
        <3> QED
            BY SMTT(40), <2>1, <2>5, <3>1, EmptyBlockIs DEF Submit
    <2>6. CASE Stop
        BY <2>1, <2>6 DEF Stop, CloseReader
    <2>7. CASE Goroutines /\ UNCHANGED <<kernelVars, collectorVars>>
        <3>1. /\ UNCHANGED <<readerClosed, sent>>
              /\ UNCHANGED now \/ (now < MaxTime /\ now' = now + 1)
            BY <2>7, GoroutinesEnv
        <3>2. 0 .. now \subseteq 0 .. now'
            BY SMTT(40), <2>1, <3>1
        <3>3. now' <= MaxTime
            BY SMTT(40), <2>1, <3>1
        <3>4. buffer' \in [V4Time : 0 .. now', V4Messages : Replies(AF_INET),
                           V6Time : 0 .. now', V6Messages : Replies(AF_INET6)]
            BY <2>1, <2>7, <3>2
        <3> QED
            BY <2>1, <2>7, <3>1, <3>3, <3>4
    <2>8. CASE KernelStep \/ UNCHANGED allVars
        BY <2>2, <2>8 DEF KernelStep, allVars, vars
    <2> QED
        BY <2>3, <2>4, <2>5, <2>6, <2>7, <2>8 DEF ProgramNext, CollectorStep
<1> QED
    BY ProgramType, <1>KernelType, <1>CollectorStepInv DEF ProgramInv

LEMMA ProgramInvariant == Program => []ProgramInv
    BY ProgramInvInit, ProgramInvStep, PTL DEF Program

-----------------------------------------------------------------------------
(* The program refines the saver fed by any collector. *)

LEMMA SubmitSends ==
    ASSUME ProgramInv, Submit, Collected \subseteq Blocks, MaxTime <= MaxLag, Reps <= MaxBlocks
    PROVE  SendBlock
<1>1. /\ CollectorInv /\ now \in Nat /\ collector = "submit"
    BY DEF ProgramInv, TypeInv, TypeOK, RoundTypeOK, Submit
<1>2. ~readerClosed /\ sent < MaxBlocks
    BY SMTT(40), <1>1 DEF CollectorInv
<1> DEFINE b == [V4Messages |-> buffer.V4Messages, V6Messages |-> buffer.V6Messages]
<1>3. b \in Blocks
    BY <1>1 DEF CollectorInv, Collected
<1>4. buffer = [V4Time |-> buffer.V4Time, V4Messages |-> buffer.V4Messages,
                V6Time |-> buffer.V6Time, V6Messages |-> buffer.V6Messages]
    BY <1>1 DEF CollectorInv
<1>5. /\ buffer.V4Time \in {t \in 0 .. now : t + MaxLag >= now}
      /\ buffer.V6Time \in {t \in 0 .. now : t + MaxLag >= now}
      /\ buffer.V6Time <= buffer.V4Time
    BY SMTT(40), <1>1 DEF CollectorInv
<1> QED
    BY <1>2, <1>3, <1>4, <1>5 DEF SendBlock, Submit

\* The saver, which is proved for any collector, runs behind this one: every
\* step of the program is a step of the saver and its environment, a Submit
\* that of sending a block.
THEOREM ProgramImplementsSpec ==
    ASSUME Collected \subseteq Blocks, MaxTime <= MaxLag, Reps <= MaxBlocks
    PROVE  Program => Spec
<1>1. ProgramInit => Init
    BY DEF ProgramInit
<1>2. ProgramInv /\ [ProgramNext]_allVars => [Next]_vars
    BY StepOfSaver, SubmitSends DEF Next
<1> QED
    BY <1>1, <1>2, ProgramInvariant, PTL DEF Program, Spec

-----------------------------------------------------------------------------
(* Where the messages are: in the buffer of the collector, in the channel,  *)
(* in the block the saver is working on, and in the cache.                  *)

CollectedBlock == [V4Time : Nat, V4Messages : Replies(AF_INET),
                   V6Time : Nat, V6Messages : Replies(AF_INET6)]

\* The saver is working on a block.
Handling == pc \in {"handle"} \cup Queueing

SocketMap(f) == \A c \in DOMAIN f : SocketRecord(f[c])

\* Each socket is listed once, and not if it is in D.
Fresh(tms, D) ==
    \A i \in DOMAIN tms : Archivable(tms[i].Message) =>
        /\ tms[i].Message \in SocketMessages
        /\ tms[i].Message.IDM.Cookie \notin D
        /\ \A j \in DOMAIN tms : /\ Archivable(tms[j].Message)
                                 /\ tms[j].Message.IDM.Cookie = tms[i].Message.IDM.Cookie
                                 => i = j

WorkInv ==
    /\ Fresh(work, DOMAIN current)
    /\ ~Handling => work = <<>> /\ DOMAIN current = {}

SourceInv ==
    /\ readerChannel \in Seq(CollectedBlock)
    /\ collector \notin {"collect4", "submit"} => buffer = EmptyBlock
    /\ collector = "collect4" => buffer.V4Messages = <<>>
    /\ WorkInv
    /\ SocketMap(current) /\ SocketMap(previous) /\ SocketMap(residual)

LEMMA ErrorNotArchivable == ~Archivable(ErrorMessage)
    BY DEF Archivable, ErrorMessage, NLMSG_ERROR

\* What the program looks at in the answer for one family.
LEMMA RepliesAre ==
    ASSUME NEW family, NEW s \in Replies(family)
    PROVE  \A i \in DOMAIN s : Archivable(s[i]) =>
              /\ s[i] \in SocketMessages /\ FamilyOf[s[i].IDM.Cookie] = family
              /\ \A j \in DOMAIN s :
                    Archivable(s[j]) /\ s[j].IDM.Cookie = s[i].IDM.Cookie => i = j
<1>1. PICK l \in Listing(family) : s = l \/ s = Append(l, ErrorMessage)
    BY DEF Replies
<1>2. l \in Seq(KernelMessages(family)) /\ Len(l) \in Nat /\ DOMAIN l = 1 .. Len(l)
    BY SeqLen DEF Listing
<1>3. \A i \in DOMAIN l : l[i] \in SocketMessages /\ FamilyOf[l[i].IDM.Cookie] = family
    BY SMTT(40), <1>2, KernelMessagesAre
<1>4. \A i, j \in DOMAIN l : l[i].IDM.Cookie = l[j].IDM.Cookie => i = j
    BY DEF Listing
<1>5. \A i \in DOMAIN s : Archivable(s[i]) => i \in DOMAIN l /\ s[i] = l[i]
    <2>1. CASE s = l
        BY <2>1
    <2>2. CASE s = Append(l, ErrorMessage)
        <3>1. /\ DOMAIN s = 1 .. Len(l) + 1 /\ s[Len(l) + 1] = ErrorMessage
              /\ \A i \in 1 .. Len(l) : s[i] = l[i]
            BY SMTT(40), <1>2, <2>2
        <3> QED
            BY SMTT(40), <1>2, <3>1, ErrorNotArchivable
    <2> QED
        BY <1>1, <2>1, <2>2
<1> QED
    BY <1>3, <1>4, <1>5

LEMMA FreshBlock ==
    ASSUME NEW b \in CollectedBlock
    PROVE  Fresh(Timed(b.V4Time, b.V4Messages) \o Timed(b.V6Time, b.V6Messages), {})
<1>1. PICK x \in Replies(AF_INET) : x = b.V4Messages
    BY DEF CollectedBlock
<1>2. PICK y \in Replies(AF_INET6) : y = b.V6Messages
    BY DEF CollectedBlock
<1>3. b.V4Time \in Nat /\ b.V6Time \in Nat
    BY DEF CollectedBlock
<1>4. x \in Seq(NetlinkMessage) /\ y \in Seq(NetlinkMessage)
    BY RepliesType
<1>5. PICK s \in Seq(TimedMessage) : s = Timed(b.V4Time, x)
    BY <1>3, <1>4, TimedType
<1>6. PICK t \in Seq(TimedMessage) : t = Timed(b.V6Time, y)
    BY <1>3, <1>4, TimedType
<1>7. /\ DOMAIN s = DOMAIN x /\ \A i \in DOMAIN x : s[i].Message = x[i]
      /\ DOMAIN t = DOMAIN y /\ \A i \in DOMAIN y : t[i].Message = y[i]
    BY <1>5, <1>6 DEF Timed
<1>8. \A i \in DOMAIN s : Archivable(s[i].Message) =>
         /\ s[i].Message \in SocketMessages /\ FamilyOf[s[i].Message.IDM.Cookie] = AF_INET
         /\ \A j \in DOMAIN s :
               Archivable(s[j].Message) /\ s[j].Message.IDM.Cookie = s[i].Message.IDM.Cookie
                 => i = j
    BY SMTT(40), <1>7, RepliesAre
<1>9. \A i \in DOMAIN t : Archivable(t[i].Message) =>
         /\ t[i].Message \in SocketMessages /\ FamilyOf[t[i].Message.IDM.Cookie] = AF_INET6
         /\ \A j \in DOMAIN t :
               Archivable(t[j].Message) /\ t[j].Message.IDM.Cookie = t[i].Message.IDM.Cookie
                 => i = j
    BY SMTT(40), <1>7, RepliesAre
<1> DEFINE u == s \o t
<1>10. /\ Len(s) \in Nat /\ DOMAIN s = 1 .. Len(s) /\ DOMAIN t = 1 .. Len(t) /\ Len(t) \in Nat
       /\ DOMAIN u = 1 .. Len(s) + Len(t)
       /\ \A i \in DOMAIN u : \/ i \in DOMAIN s /\ u[i] = s[i]
                              \/ i - Len(s) \in DOMAIN t /\ u[i] = t[i - Len(s)]
    BY SMTT(40), SeqConcat, SeqLen
<1>11. AF_INET # AF_INET6
    BY SMTT(40) DEF AF_INET, AF_INET6
<1> HIDE DEF u
<1>12. ASSUME NEW i \in DOMAIN u, Archivable(u[i].Message),
              NEW j \in DOMAIN u, Archivable(u[j].Message),
              u[j].Message.IDM.Cookie = u[i].Message.IDM.Cookie
       PROVE  i = j
    <2>1. CASE i \in DOMAIN s /\ u[i] = s[i]
        <3>1. FamilyOf[u[i].Message.IDM.Cookie] = AF_INET
            BY <1>8, <1>12, <2>1
        <3>2. j \in DOMAIN s /\ u[j] = s[j]
            BY SMTT(40), <1>9, <1>10, <1>11, <1>12, <3>1
        <3> QED
            BY <1>8, <1>12, <2>1, <3>2
    <2>2. CASE i - Len(s) \in DOMAIN t /\ u[i] = t[i - Len(s)]
        <3>1. FamilyOf[u[i].Message.IDM.Cookie] = AF_INET6
            BY <1>9, <1>12, <2>2
        <3>2. j - Len(s) \in DOMAIN t /\ u[j] = t[j - Len(s)]
            BY <1>8, <1>10, <1>11, <1>12, <3>1
        <3>3. i - Len(s) = j - Len(s)
            BY <1>9, <1>12, <2>2, <3>2
        <3> QED
            BY SMTT(40), <1>10, <3>3
    <2> QED
        BY <1>10, <2>1, <2>2
<1>13. \A i \in DOMAIN u : Archivable(u[i].Message) => u[i].Message \in SocketMessages
    BY <1>8, <1>9, <1>10
<1>14. Fresh(u, {})
    BY <1>12, <1>13 DEF Fresh
<1> QED
    BY <1>1, <1>2, <1>5, <1>6, <1>14 DEF u

LEMMA FreshTail ==
    ASSUME NEW tms \in Seq(TimedMessage), tms # <<>>, NEW D, Fresh(tms, D)
    PROVE  /\ Fresh(Tail(tms), D)
           /\ Archivable(Head(tms).Message) =>
                /\ Head(tms).Message \in SocketMessages
                /\ Head(tms).Message.IDM.Cookie \notin D
                /\ Fresh(Tail(tms), D \cup {Head(tms).Message.IDM.Cookie})
<1>1. /\ 1 \in DOMAIN tms /\ Head(tms) = tms[1]
      /\ \A i \in DOMAIN Tail(tms) : /\ i \in Nat /\ i + 1 \in DOMAIN tms /\ i + 1 # 1
                                     /\ Tail(tms)[i] = tms[i + 1]
    BY SMTT(40)
<1>2. \A i, j \in DOMAIN Tail(tms) : i + 1 = j + 1 => i = j
    BY SMTT(40), <1>1
<1>3. Fresh(Tail(tms), D)
    BY SMTT(40), <1>1, <1>2 DEF Fresh
<1>4. ASSUME Archivable(Head(tms).Message)
      PROVE  \A i \in DOMAIN Tail(tms) : Archivable(Tail(tms)[i].Message) =>
                Tail(tms)[i].Message.IDM.Cookie # Head(tms).Message.IDM.Cookie
    BY SMTT(40), <1>1, <1>4 DEF Fresh
<1>5. ASSUME Archivable(Head(tms).Message)
      PROVE  Fresh(Tail(tms), D \cup {Head(tms).Message.IDM.Cookie})
    BY <1>3, <1>4, <1>5 DEF Fresh
<1>6. ASSUME Archivable(Head(tms).Message)
      PROVE  Head(tms).Message \in SocketMessages /\ Head(tms).Message.IDM.Cookie \notin D
    BY <1>1, <1>6 DEF Fresh
<1> QED
    BY <1>3, <1>5, <1>6

\* The saver leaves the messages and the cache as they are.
Quiet ==
    /\ UNCHANGED <<work, current, previous, residual, readerChannel>>
    /\ Handling' <=> Handling

RoundStep == Receive \/ SkipMessage \/ HandleRecord \/ FinishRound \/ Retire

\* The steps of the program, by what they do to the messages.
LEMMA ProgramCases ==
    ASSUME [ProgramNext]_allVars
    PROVE  \/ KernelStep /\ Quiet /\ UNCHANGED <<collector, buffer>>
           \/ (Collect6 \/ Collect4) /\ Quiet
           \/ Submit /\ UNCHANGED <<work, current, previous, residual, pc>>
           \/ RoundStep /\ UNCHANGED <<sock, collector, buffer>>
           \/ /\ Quiet /\ UNCHANGED <<sock, buffer>>
              /\ UNCHANGED collector \/ (collector = "stop" /\ collector' = "wait")
<1> USE DEF Quiet, Handling
<1>1. CASE KernelStep
    BY <1>1 DEF KernelStep, vars
<1>2. CASE Collect6 \/ Collect4
    BY <1>2 DEF Collect6, Collect4, vars
<1>3. CASE Submit
    BY <1>3 DEF Submit
<1>4. CASE Stop
    BY <1>4 DEF Stop, CloseReader
<1>5. CASE UNCHANGED allVars
    BY <1>5 DEF allVars, vars
<1>6. CASE Goroutines /\ UNCHANGED <<kernelVars, collectorVars>>
    <2>1. CASE RoundStep
        BY <1>6, <2>1
    <2>2. CASE QueueReject \/ QueueLookup \/ QueueExpire \/ QueueKeep \/ Rotate
                 \/ RotateFails \/ QueueSend
        BY <1>6, <2>2 DEF QueueReject, QueueLookup, QueueExpire, QueueKeep, Rotate,
                          RotateFails, QueueSend, Queueing
    <2>3. CASE EndRetired \/ Report \/ CloseBegin \/ CloseConn \/ EndClosed \/ CloseEnd
        BY <1>6, <2>3 DEF EndRetired, Report, CloseBegin, CloseConn, EndClosed, CloseEnd,
                          Queueing
    <2>4. CASE Tick \/ Finished \/ \E m \in Marshallers : Marshaller(m)
        BY <1>6, <2>4 DEF Tick, Finished, vars, Marshaller, MarshalClose, MarshalSave,
                          MarshalExit
    <2> QED
        BY <1>6, <2>1, <2>2, <2>3, <2>4 DEF Goroutines, SaverStep, RoundStep
<1> QED
    BY <1>1, <1>2, <1>3, <1>4, <1>5, <1>6 DEF ProgramNext, CollectorStep

LEMMA SourceInit == ProgramInit => SourceInv
<1> SUFFICES ASSUME ProgramInit PROVE SourceInv
    OBVIOUS
<1>1. /\ readerChannel = <<>> /\ work = <<>> /\ pc = "recv" /\ residual = EmptyMap
      /\ current = EmptyMap /\ previous = EmptyMap /\ buffer = EmptyBlock
      /\ collector = "collect6"
    BY DEF ProgramInit, Init, CacheInit
<1>2. DOMAIN work = {} /\ DOMAIN current = {} /\ DOMAIN previous = {} /\ DOMAIN residual = {}
    BY SMTT(40), <1>1, EmptyMapIs
<1>3. WorkInv
    BY <1>1, <1>2 DEF WorkInv, Fresh
<1> QED
    BY SMTT(40), <1>1, <1>2, <1>3 DEF SourceInv, SocketMap

\* The record of the message that is handled.
LEMMA HandledRecord ==
    ASSUME TypeInv, WorkInv, HandleRecord
    PROVE  \E ar : LET m == Head(work).Message  c == m.IDM.Cookie IN
              /\ ar = MakeArchivalRecord(m, Head(work).Time)
              /\ ar \in Record /\ SocketRecord(ar) /\ ar.RawIDM.Cookie = c
              /\ Rank(ar) = Rank(RecordOf(m))
              /\ m \in SocketMessages /\ c \in Sockets /\ c \notin DOMAIN current
              /\ current' = MapPut(current, c, ar)
              /\ previous' = MapDelete(previous, c)
              /\ live' = Plus(live, GetStats(ar))
              /\ SwapNew(ar) \/ SwapChanged(ar) \/ SwapSame(ar)
<1>1. /\ work \in Seq(TimedMessage) /\ work # <<>> /\ Archivable(Head(work).Message)
    BY DEF TypeInv, TypeOK, RoundTypeOK, HandleRecord
<1>2. PICK tm \in TimedMessage : tm = Head(work)
    BY <1>1, SeqHeadTail
<1> DEFINE m == tm.Message
           c == m.IDM.Cookie
           ar == MakeArchivalRecord(m, tm.Time)
<1>3. m \in SocketMessages /\ c \notin DOMAIN current
    BY <1>1, <1>2, FreshTail DEF WorkInv
<1>4. /\ SocketRecord(ar) /\ ar.RawIDM.Cookie = c /\ Rank(ar) = Rank(RecordOf(m))
    BY <1>3, RecordOfIs
<1>5. ar \in Record
    BY <1>1, <1>2, RecordType DEF TimedMessage
<1>6. c \in Sockets
    BY <1>4 DEF SocketRecord
<1>7. /\ live' = Plus(live, GetStats(ar)) /\ Update(ar)
      /\ SwapNew(ar) \/ SwapChanged(ar) \/ SwapSame(ar)
    BY <1>2 DEF HandleRecord
<1>8. current' = MapPut(current, c, ar) /\ previous' = MapDelete(previous, c)
    BY <1>4, <1>7 DEF Update
<1> HIDE DEF ar
<1> QED
    BY <1>2, <1>3, <1>4, <1>5, <1>6, <1>7, <1>8 DEF ar

LEMMA SocketMapPut ==
    ASSUME NEW f, SocketMap(f), NEW k, NEW r, SocketRecord(r)
    PROVE  SocketMap(MapPut(f, k, r))
<1>1. PICK g : g = MapPut(f, k, r)
    OBVIOUS
<1>2. DOMAIN g = DOMAIN f \cup {k} /\ \A c \in DOMAIN g : g[c] = IF c = k THEN r ELSE f[c]
    BY <1>1 DEF MapPut
<1>3. \A c \in DOMAIN g : SocketRecord(g[c])
    BY <1>2 DEF SocketMap
<1> QED
    BY <1>1, <1>3 DEF SocketMap

LEMMA SocketMapDelete ==
    ASSUME NEW f, SocketMap(f), NEW k
    PROVE  SocketMap(MapDelete(f, k))
<1>1. PICK g : g = MapDelete(f, k)
    OBVIOUS
<1>2. DOMAIN g = DOMAIN f \ {k} /\ \A c \in DOMAIN f : c # k => g[c] = f[c]
    BY <1>1, MapDeleteIs
<1>3. \A c \in DOMAIN g : SocketRecord(g[c])
    BY <1>2 DEF SocketMap
<1> QED
    BY <1>1, <1>3 DEF SocketMap

LEMMA SourceStep == ProgramInv /\ SourceInv /\ [ProgramNext]_allVars => SourceInv'
<1>SourceRound. ASSUME ProgramInv, SourceInv, RoundStep, UNCHANGED <<sock, collector, buffer>>
                PROVE  SourceInv'
    <2> USE <1>SourceRound
    <2>WorkRound. ASSUME ProgramInv, SourceInv, RoundStep
                  PROVE  WorkInv'
        <3> USE <2>WorkRound
        <3>1. /\ TypeInv /\ WorkInv /\ work \in Seq(TimedMessage)
            BY DEF ProgramInv, SourceInv, TypeInv, TypeOK, RoundTypeOK
        <3>2. CASE Receive
            <4>1. readerChannel \in Seq(CollectedBlock) /\ readerChannel # <<>>
                BY <3>2 DEF Receive, SourceInv
            <4>2. PICK b \in CollectedBlock : b = Head(readerChannel)
                BY <4>1, SeqHeadTail
            <4>3. work' = Timed(b.V4Time, b.V4Messages) \o Timed(b.V6Time, b.V6Messages)
                BY <3>2, <4>2 DEF Receive
            <4>4. current' = current /\ DOMAIN current = {} /\ Handling'
                BY <3>1, <3>2 DEF Receive, WorkInv, Handling, Queueing
            <4> QED
                BY <4>3, <4>4, FreshBlock DEF WorkInv
        <3>3. CASE SkipMessage
            <4>1. work # <<>> /\ work' = Tail(work) /\ current' = current /\ Handling'
                BY <3>3 DEF SkipMessage, Handling
            <4> QED
                BY <3>1, <4>1, FreshTail DEF WorkInv
        <3>4. CASE HandleRecord
            <4>1. /\ work # <<>> /\ work' = Tail(work)
                  /\ Archivable(Head(work).Message) /\ Handling'
                BY <3>4 DEF HandleRecord, SwapNew, SwapChanged, SwapSame, Handling, Queueing
            <4>2. PICK ar : current' = MapPut(current, Head(work).Message.IDM.Cookie, ar)
                BY <3>1, <3>4, HandledRecord
            <4>3. DOMAIN current' = DOMAIN current \cup {Head(work).Message.IDM.Cookie}
                BY <4>2 DEF MapPut
            <4> QED
                BY <3>1, <4>1, <4>3, FreshTail DEF WorkInv
        <3>5. CASE FinishRound
            <4>1. work' = <<>> /\ current' = EmptyMap /\ ~Handling'
                BY <3>5 DEF FinishRound, EndCycle, Handling, Queueing
            <4> QED
                BY SMTT(40), <4>1, EmptyMapIs DEF WorkInv, Fresh
        <3>6. CASE Retire
            <4>1. work' = work /\ current' = current /\ ~Handling' /\ ~Handling
                BY <3>6 DEF Retire, Handling, Queueing
            <4> QED
                BY <3>1, <4>1 DEF WorkInv
        <3> QED
            BY <3>2, <3>3, <3>4, <3>5, <3>6 DEF RoundStep
    <2>1. TypeInv /\ WorkInv /\ SocketMap(current) /\ SocketMap(previous) /\ SocketMap(residual)
        BY DEF ProgramInv, SourceInv
    <2>2. WorkInv'
        BY <2>WorkRound
    <2>3. readerChannel' \in Seq(CollectedBlock)
        <3>1. CASE Receive
            BY <3>1, SeqHeadTail DEF Receive, SourceInv
        <3> QED
            BY <3>1 DEF RoundStep, SkipMessage, HandleRecord, FinishRound, Retire, SourceInv
    <2>4. SocketMap(current') /\ SocketMap(previous') /\ SocketMap(residual')
        <3>1. CASE Receive \/ SkipMessage
            BY <2>1, <3>1 DEF Receive, SkipMessage
        <3>2. CASE HandleRecord
            <4>1. residual' = residual
                BY <3>2 DEF HandleRecord
            <4> QED
                <5>1. PICK ar : /\ SocketRecord(ar)
                                /\ current' = MapPut(current, Head(work).Message.IDM.Cookie, ar)
                                /\ previous' = MapDelete(previous, Head(work).Message.IDM.Cookie)
                    BY <2>1, <3>2, HandledRecord
                <5> QED
                    BY <2>1, <4>1, <5>1, SocketMapPut, SocketMapDelete
        <3>3. CASE FinishRound
            <4>1. current' = EmptyMap /\ previous' = current /\ residual' = previous
                BY <3>3 DEF FinishRound, EndCycle
            <4>2. SocketMap(EmptyMap)
                BY EmptyMapIs DEF SocketMap
            <4> QED
                BY <2>1, <4>1, <4>2
        <3>4. CASE Retire
            <4>1. PICK k \in DOMAIN residual : residual' = MapDelete(residual, k)
                BY <3>4 DEF Retire
            <4>2. current' = current /\ previous' = previous
                BY <3>4 DEF Retire
            <4> QED
                BY <2>1, <4>1, <4>2, SocketMapDelete
        <3> QED
            BY <3>1, <3>2, <3>3, <3>4 DEF RoundStep
    <2> QED
        BY <2>2, <2>3, <2>4 DEF SourceInv, SocketMap
<1> SUFFICES ASSUME ProgramInv, SourceInv, [ProgramNext]_allVars PROVE SourceInv'
    OBVIOUS
<1>1. CASE /\ Quiet
           /\ collector' \notin {"collect4", "submit"} => buffer' = EmptyBlock
           /\ collector' = "collect4" => buffer'.V4Messages = <<>>
    BY <1>1 DEF Quiet, SourceInv, WorkInv, SocketMap
<1>2. ASSUME UNCHANGED <<work, current, previous, residual>>, Handling' <=> Handling
      PROVE  WorkInv' /\ SocketMap(current') /\ SocketMap(previous') /\ SocketMap(residual')
    BY <1>2 DEF SourceInv, WorkInv, SocketMap
<1>3. CASE Submit /\ UNCHANGED <<work, current, previous, residual, pc>>
    <2>1. buffer \in CollectedBlock
        BY SMTT(40) DEF ProgramInv, CollectorInv, CollectedBlock, TypeInv, TypeOK, RoundTypeOK
    <2>2. readerChannel' \in Seq(CollectedBlock)
        BY SMTT(40), <1>3, <2>1 DEF Submit, SourceInv
    <2>3. buffer' = EmptyBlock /\ collector' \in {"stop", "collect6"}
        BY <1>3 DEF Submit
    <2>4. Handling' <=> Handling
        BY <1>3 DEF Handling
    <2> QED
        BY <1>2, <1>3, <2>2, <2>3, <2>4 DEF SourceInv, SocketMap
<1>4. CASE (Collect6 \/ Collect4) /\ Quiet
    <2>1. collector' = "submit" \/ (collector' = "collect4" /\ buffer'.V4Messages = <<>>)
        BY <1>4 DEF Collect6, Collect4, EmptyBlock
    <2> QED
        BY <1>1, <1>4, <2>1
<1>5. CASE /\ Quiet /\ UNCHANGED buffer
           /\ UNCHANGED collector \/ (collector = "stop" /\ collector' = "wait")
    BY <1>1, <1>5 DEF SourceInv
<1> QED
    BY <1>3, <1>4, <1>5, ProgramCases, <1>SourceRound

-----------------------------------------------------------------------------
(* The pipeline.  What the program holds about the sockets is spread over   *)
(* stages, from the oldest to the newest: the last round, as far as it is   *)
(* not replaced or retired (-1); the round the saver is working on, or has  *)
(* just finished (0); the blocks in the channel (1 .. Len(readerChannel));  *)
(* and the block being collected.                                           *)

MessageSays(m, c, v) == Archivable(m) /\ m.IDM.Cookie = c /\ Rank(RecordOf(m)) = v
MessagesSay(s, c, v) == \E i \in DOMAIN s : MessageSays(s[i], c, v)
BlockSays(b, c, v)   == MessagesSay(b.V4Messages, c, v) \/ MessagesSay(b.V6Messages, c, v)
TimedSays(tms, c, v) == \E i \in DOMAIN tms : MessageSays(tms[i].Message, c, v)
MapSays(f, c, v)     == c \in DOMAIN f /\ Rank(f[c]) = v

OlderSays(c, v) == IF Handling THEN MapSays(previous, c, v) ELSE MapSays(residual, c, v)
NewerSays(c, v) == IF Handling THEN MapSays(current, c, v) \/ TimedSays(work, c, v)
                   ELSE MapSays(previous, c, v)

Stages == -1 .. Len(readerChannel) + 1
Ranks  == 0 .. MaxBytes + 1

\* At stage k socket c has rank v.
Says(k, c, v) ==
    IF k = -1 THEN OlderSays(c, v)
    ELSE IF k = 0 THEN NewerSays(c, v)
    ELSE IF k <= Len(readerChannel) THEN BlockSays(readerChannel[k], c, v)
    ELSE BlockSays(buffer, c, v)

\* What a step may do to the stages: drop what is oldest, move all by one,
\* begin a new one, fill the newest with the answer for one family.
Settles ==
    /\ Len(readerChannel') = Len(readerChannel)
    /\ \A k \in Stages : \A c, v : /\ Says(k, c, v)' => Says(k, c, v)
                                   /\ k # -1 /\ Says(k, c, v) => Says(k, c, v)'

Shifts ==
    /\ Len(readerChannel') + 1 = Len(readerChannel)
    /\ \A k \in Stages' : \A c, v : Says(k, c, v)' <=> Says(k + 1, c, v)

Begins ==
    /\ Len(readerChannel') = Len(readerChannel) + 1
    /\ \A k \in Stages : \A c, v : Says(k, c, v)' <=> Says(k, c, v)
    /\ \A c, v : ~Says(Len(readerChannel) + 1, c, v)'

\* The rank that a dump gives a socket.
RankOf(c) == IF sock[c].phase = "open" THEN sock[c].bytes ELSE MaxBytes + 1

Polls(family) ==
    /\ Len(readerChannel') = Len(readerChannel)
    /\ \A k \in Stages : \A c, v :
          k <= Len(readerChannel) \/ (c \in Sockets /\ FamilyOf[c] # family)
            => (Says(k, c, v)' <=> Says(k, c, v))
    /\ \A c \in Sockets : \A v : FamilyOf[c] = family =>
          /\ Says(Len(readerChannel) + 1, c, v)' => c \in Listed(family) /\ v = RankOf(c)
          /\ ~DumpMayFail /\ c \in Listed(family) => Says(Len(readerChannel) + 1, c, RankOf(c))'

LEMMA ChannelLen ==
    ASSUME TypeInv
    PROVE  /\ Len(readerChannel) \in Nat /\ readerChannel \in Seq(TimedBlock)
           /\ DOMAIN readerChannel = 1 .. Len(readerChannel)
    BY SeqLen DEF TypeInv, TypeOK, RoundTypeOK

LEMMA TimedSaysTail ==
    ASSUME NEW tms \in Seq(TimedMessage), tms # <<>>, NEW c, NEW v
    PROVE  TimedSays(tms, c, v) <=>
              MessageSays(Head(tms).Message, c, v) \/ TimedSays(Tail(tms), c, v)
<1>1. /\ 1 \in DOMAIN tms /\ Head(tms) = tms[1]
      /\ \A i \in DOMAIN Tail(tms) : i + 1 \in DOMAIN tms /\ Tail(tms)[i] = tms[i + 1]
      /\ \A i \in DOMAIN tms : i = 1 \/ (i - 1 \in DOMAIN Tail(tms) /\ Tail(tms)[i - 1] = tms[i])
    BY SMTT(40)
<1> QED
    BY <1>1 DEF TimedSays

LEMMA TimedSaysBlock ==
    ASSUME NEW b \in TimedBlock, NEW c, NEW v
    PROVE  TimedSays(Timed(b.V4Time, b.V4Messages) \o Timed(b.V6Time, b.V6Messages), c, v)
             <=> BlockSays(b, c, v)
<1>1. PICK x \in Seq(NetlinkMessage) : x = b.V4Messages
    BY SMTT(40) DEF TimedBlock
<1>2. PICK y \in Seq(NetlinkMessage) : y = b.V6Messages
    BY SMTT(40) DEF TimedBlock
<1>3. b.V4Time \in Nat /\ b.V6Time \in Nat
    BY SMTT(40) DEF TimedBlock
<1>4. PICK s \in Seq(TimedMessage) : s = Timed(b.V4Time, x)
    BY <1>3, TimedType
<1>5. PICK t \in Seq(TimedMessage) : t = Timed(b.V6Time, y)
    BY <1>3, TimedType
<1>6. /\ \A i \in DOMAIN s : i \in DOMAIN x /\ s[i].Message = x[i]
      /\ \A i \in DOMAIN x : i \in DOMAIN s /\ s[i].Message = x[i]
      /\ \A i \in DOMAIN t : i \in DOMAIN y /\ t[i].Message = y[i]
      /\ \A i \in DOMAIN y : i \in DOMAIN t /\ t[i].Message = y[i]
    BY SMTT(40), <1>4, <1>5 DEF Timed
<1>7. PICK u : u = s \o t
    OBVIOUS
<1>8. /\ \A i \in DOMAIN u : (i \in DOMAIN s /\ u[i] = s[i])
                               \/ (i - Len(s) \in DOMAIN t /\ u[i] = t[i - Len(s)])
      /\ \A i \in DOMAIN s : i \in DOMAIN u /\ u[i] = s[i]
      /\ \A i \in DOMAIN t : i + Len(s) \in DOMAIN u /\ u[i + Len(s)] = t[i]
    BY SMTT(40), <1>7
<1>9. ASSUME NEW i \in DOMAIN u
      PROVE  (\E k \in DOMAIN x : u[i].Message = x[k]) \/ (\E k \in DOMAIN y : u[i].Message = y[k])
    <2>1. CASE i \in DOMAIN s /\ u[i] = s[i]
        BY <1>6, <2>1
    <2>2. CASE i - Len(s) \in DOMAIN t /\ u[i] = t[i - Len(s)]
        BY <1>6, <2>2
    <2> QED
        BY <1>8, <2>1, <2>2
<1>10. /\ \A k \in DOMAIN x : \E i \in DOMAIN u : u[i].Message = x[k]
       /\ \A k \in DOMAIN y : \E i \in DOMAIN u : u[i].Message = y[k]
    <2>1. ASSUME NEW k \in DOMAIN x
          PROVE  \E i \in DOMAIN u : u[i].Message = x[k]
        BY <1>6, <1>8
    <2>2. ASSUME NEW k \in DOMAIN y
          PROVE  \E i \in DOMAIN u : u[i].Message = y[k]
        <3>1. u[k + Len(s)].Message = y[k] /\ k + Len(s) \in DOMAIN u
            BY <1>6, <1>8
        <3> QED
            BY <3>1
    <2> QED
        BY <2>1, <2>2
<1>11. TimedSays(u, c, v) <=> MessagesSay(x, c, v) \/ MessagesSay(y, c, v)
    BY <1>9, <1>10 DEF TimedSays, MessagesSay
<1> QED
    BY <1>1, <1>2, <1>4, <1>5, <1>7, <1>11 DEF BlockSays

LEMMA FreshSays ==
    ASSUME NEW tms, NEW D, Fresh(tms, D), NEW c \in D, NEW v
    PROVE  ~TimedSays(tms, c, v)
    BY DEF Fresh, TimedSays, MessageSays

LEMMA ViewRetire ==
    ASSUME Retire, UNCHANGED buffer
    PROVE  Settles
<1>1. /\ ~Handling /\ ~Handling' /\ UNCHANGED <<readerChannel, previous>>
    BY DEF Retire, Handling, Queueing
<1>2. PICK d \in DOMAIN residual : residual' = MapDelete(residual, d)
    BY DEF Retire
<1>3. /\ DOMAIN residual' = DOMAIN residual \ {d}
      /\ \A c \in DOMAIN residual : c # d => residual'[c] = residual[c]
    BY <1>2, MapDeleteIs
<1>4. ASSUME NEW c, NEW v
      PROVE  (OlderSays(c, v)' => OlderSays(c, v)) /\ (NewerSays(c, v)' <=> NewerSays(c, v))
    BY <1>1, <1>3 DEF OlderSays, NewerSays, MapSays
<1>5. ASSUME NEW k, NEW c, NEW v
      PROVE  /\ Says(k, c, v)' => Says(k, c, v)
             /\ k # -1 /\ Says(k, c, v) => Says(k, c, v)'
    BY <1>1, <1>4 DEF Says
<1> QED
    BY <1>1, <1>5 DEF Settles

LEMMA EmptyBlockSays ==
    ASSUME NEW c, NEW v
    PROVE  ~BlockSays(EmptyBlock, c, v)
<1>1. EmptyBlock.V4Messages = <<>> /\ EmptyBlock.V6Messages = <<>>
    BY DEF EmptyBlock
<1>2. DOMAIN <<>> = {}
    BY SMTT(40)
<1> QED
    BY <1>1, <1>2 DEF BlockSays, MessagesSay

LEMMA RepliesSay ==
    ASSUME NEW family, NEW s \in Replies(family), NEW c, NEW v, MessagesSay(s, c, v)
    PROVE  c \in Sockets /\ FamilyOf[c] = family
<1>1. PICK i \in DOMAIN s : Archivable(s[i]) /\ s[i].IDM.Cookie = c
    BY DEF MessagesSay, MessageSays
<1>2. s[i] \in SocketMessages /\ FamilyOf[c] = family
    BY <1>1, RepliesAre
<1>3. c \in Sockets
    BY <1>1, <1>2, RecordOfIs DEF SocketRecord
<1> QED
    BY <1>2, <1>3

LEMMA SubSeqIs ==
    ASSUME NEW S, NEW s \in Seq(S), NEW l \in 0 .. Len(s)
    PROVE  /\ SubSeq(s, 1, l) \in Seq(S) /\ Len(SubSeq(s, 1, l)) = l
           /\ DOMAIN SubSeq(s, 1, l) = 1 .. l
           /\ \A i \in 1 .. l : SubSeq(s, 1, l)[i] = s[i]
    BY SMTT(40)

\* What an answer says is what the kernel holds, and all of it if nothing fails.
LEMMA AnswerSays ==
    ASSUME SockType, NEW family, NEW res \in OneType(family)
    PROVE  /\ \A c, v : MessagesSay(res, c, v) => c \in Listed(family) /\ v = RankOf(c)
           /\ ~DumpMayFail => \A c \in Listed(family) : MessagesSay(res, c, RankOf(c))
<1>1. PICK n \in Nat : \E f \in [1 .. n -> Listed(family)] : ListedAs(family, n, f)
    BY DumpIs
<1>2. PICK f \in [1 .. n -> Listed(family)] : ListedAs(family, n, f)
    BY <1>1
<1>3. PICK dump : dump = Dump(family)
    OBVIOUS
<1>4. DOMAIN dump = 1 .. n /\ \A i \in 1 .. n : dump[i] = MessageOf(f[i])
    BY <1>2, <1>3 DEF ListedAs
<1>5. ASSUME NEW c \in Listed(family)
      PROVE  /\ Archivable(MessageOf(c)) /\ MessageOf(c).IDM.Cookie = c
             /\ Rank(RecordOf(MessageOf(c))) = RankOf(c)
    <2>1. c \in Sockets /\ sock[c].phase \in {"open", "closing"} /\ FamilyOf[c] = family
        BY DEF Listed
    <2>2. MessageOf(c) \in SocketMessages
        BY <2>1, MessageOfIs, KernelMessagesAre
    <2>3. Archivable(MessageOf(c))
        BY <2>2, RecordOfIs
    <2> QED
        BY <2>1, <2>3, MessageOfIs DEF RankOf
<1>6. \A i \in 1 .. n : \A c, v : MessageSays(dump[i], c, v) <=> c = f[i] /\ v = RankOf(c)
    <2> SUFFICES ASSUME NEW i \in 1 .. n, NEW c, NEW v
                 PROVE  MessageSays(dump[i], c, v) <=> c = f[i] /\ v = RankOf(c)
        OBVIOUS
    <2>1. PICK d \in Listed(family) : d = f[i]
        OBVIOUS
    <2>2. dump[i] = MessageOf(d)
        BY <1>4, <2>1
    <2> QED
        BY <1>5, <2>1, <2>2 DEF MessageSays
<1>7. ASSUME NEW i \in DOMAIN res, Archivable(res[i])
      PROVE  \E k \in 1 .. n : res[i] = dump[k]
    <2>1. CASE res = dump
        BY <1>4, <1>7, <2>1
    <2>2. CASE res # dump
        <3>1. PICK l \in 0 .. Len(dump) : res = SubSeq(dump, 1, l)
                                          \/ res = Append(SubSeq(dump, 1, l), ErrorMessage)
            BY <1>3, <2>2 DEF OneType, Outcomes
        <3>2. dump \in Seq(NetlinkMessage)
            BY <1>3, DumpListing, RepliesType DEF Replies
        <3>3. PICK u \in Seq(NetlinkMessage) : u = SubSeq(dump, 1, l)
            BY <3>2, SubSeqIs
        <3>4. /\ DOMAIN u = 1 .. l /\ Len(u) = l /\ l \in Nat
              /\ \A k \in 1 .. l : k \in 1 .. n /\ u[k] = dump[k]
            <4>1. /\ Len(dump) = n /\ Len(u) = l /\ DOMAIN u = 1 .. l
                  /\ \A k \in 1 .. l : u[k] = dump[k]
                BY SMTT(40), <1>4, <3>2, <3>3, SubSeqIs
            <4> QED
                BY SMTT(40), <4>1
        <3>5. CASE res = u
            BY <3>4, <3>5
        <3>6. CASE res = Append(u, ErrorMessage)
            <4>1. /\ DOMAIN res = 1 .. l + 1 /\ res[l + 1] = ErrorMessage
                  /\ \A k \in 1 .. l : res[k] = u[k]
                BY SMTT(40), <3>4, <3>6
            <4>2. i \in 1 .. l
                BY SMTT(40), <1>7, <3>4, <4>1, ErrorNotArchivable
            <4> QED
                BY <3>4, <4>1, <4>2
        <3> QED
            BY <3>1, <3>3, <3>5, <3>6
    <2> QED
        BY <2>1, <2>2
<1>8. ASSUME NEW c, NEW v, MessagesSay(res, c, v)
      PROVE  c \in Listed(family) /\ v = RankOf(c)
    <2>1. PICK i \in DOMAIN res : MessageSays(res[i], c, v)
        BY <1>8 DEF MessagesSay
    <2>2. PICK k \in 1 .. n : res[i] = dump[k]
        BY <1>7, <2>1 DEF MessageSays
    <2>3. c = f[k] /\ v = RankOf(c)
        BY <1>6, <2>1, <2>2
    <2> QED
        BY <2>3
<1>9. ASSUME ~DumpMayFail, NEW c \in Listed(family)
      PROVE  MessagesSay(res, c, RankOf(c))
    <2>1. res = dump
        BY <1>3, <1>9, OneTypeIs
    <2>2. PICK k \in 1 .. n : f[k] = c
        BY <1>2 DEF ListedAs
    <2>3. k \in DOMAIN res /\ MessageSays(res[k], c, RankOf(c))
        BY <1>4, <1>6, <2>1, <2>2
    <2> QED
        BY <2>3 DEF MessagesSay
<1> QED
    BY <1>8, <1>9

\* What a step of the program does to the stages, and to the sockets.
ViewMove ==
    \/ /\ Settles
       /\ UNCHANGED collector \/ (collector = "stop" /\ collector' = "wait")
       /\ UNCHANGED sock \/ KernelStep
    \/ Shifts /\ UNCHANGED <<sock, collector>>
    \/ /\ Begins /\ UNCHANGED sock
       /\ collector = "submit" /\ collector' \in {"stop", "collect6"}
    \/ Polls(AF_INET6) /\ UNCHANGED sock /\ collector = "collect6" /\ collector' = "collect4"
    \/ Polls(AF_INET) /\ UNCHANGED sock /\ collector = "collect4" /\ collector' = "submit"

LEMMA ViewStep == ProgramInv /\ SourceInv /\ [ProgramNext]_allVars => ViewMove
<1>ViewQuiet. ASSUME Quiet, UNCHANGED buffer
              PROVE  Settles
    <2> USE <1>ViewQuiet
    <2>1. ASSUME NEW c, NEW v
          PROVE  (OlderSays(c, v)' <=> OlderSays(c, v)) /\ (NewerSays(c, v)' <=> NewerSays(c, v))
        BY DEF Quiet, OlderSays, NewerSays
    <2>2. ASSUME NEW k, NEW c, NEW v
          PROVE  Says(k, c, v)' <=> Says(k, c, v)
        BY <2>1 DEF Quiet, Says
    <2> QED
        BY <2>2 DEF Quiet, Settles
\* The steps of the saver that move messages.
<1>ViewSkip. ASSUME TypeInv, SkipMessage, UNCHANGED buffer
             PROVE  Settles
    <2> USE <1>ViewSkip
    <2>1. /\ work \in Seq(TimedMessage) /\ work # <<>> /\ ~Archivable(Head(work).Message)
          /\ work' = Tail(work) /\ Handling /\ Handling'
          /\ UNCHANGED <<current, previous, residual, readerChannel>>
        BY DEF SkipMessage, TypeInv, TypeOK, RoundTypeOK, Handling
    <2>2. ASSUME NEW c, NEW v
          PROVE  (OlderSays(c, v)' <=> OlderSays(c, v)) /\ (NewerSays(c, v)' <=> NewerSays(c, v))
        <3>1. TimedSays(work', c, v) <=> TimedSays(work, c, v)
            BY <2>1, TimedSaysTail DEF MessageSays
        <3> QED
            BY <2>1, <3>1 DEF OlderSays, NewerSays
    <2>3. ASSUME NEW k, NEW c, NEW v
          PROVE  Says(k, c, v)' <=> Says(k, c, v)
        BY <2>1, <2>2 DEF Says
    <2> QED
        BY <2>1, <2>3 DEF Settles
<1>ViewHandle. ASSUME TypeInv, WorkInv, HandleRecord, UNCHANGED buffer
               PROVE  Settles
    <2> USE <1>ViewHandle
    <2>1. /\ work \in Seq(TimedMessage) /\ work # <<>> /\ Archivable(Head(work).Message)
          /\ work' = Tail(work) /\ Handling /\ Handling'
          /\ UNCHANGED <<residual, readerChannel>>
        BY DEF HandleRecord, SwapNew, SwapChanged, SwapSame, TypeInv, TypeOK, RoundTypeOK,
               Handling, Queueing
    <2>2. PICK m : m = Head(work).Message
        OBVIOUS
    <2>3. PICK d : d = m.IDM.Cookie
        OBVIOUS
    <2>4. PICK ar : /\ Rank(ar) = Rank(RecordOf(m)) /\ d \notin DOMAIN current
                    /\ current' = MapPut(current, d, ar)
                    /\ previous' = MapDelete(previous, d)
        BY <2>2, <2>3, HandledRecord
    <2>5. /\ DOMAIN current' = DOMAIN current \cup {d} /\ current'[d] = ar
          /\ \A c \in DOMAIN current : current'[c] = current[c]
        BY <2>4 DEF MapPut
    <2>6. /\ DOMAIN previous' = DOMAIN previous \ {d}
          /\ \A c \in DOMAIN previous : c # d => previous'[c] = previous[c]
        BY <2>4, MapDeleteIs
    <2>7. ASSUME NEW c, NEW v
          PROVE  (OlderSays(c, v)' => OlderSays(c, v)) /\ (NewerSays(c, v)' <=> NewerSays(c, v))
        <3>1. OlderSays(c, v)' => OlderSays(c, v)
            BY <2>1, <2>6 DEF OlderSays, MapSays
        <3>2. TimedSays(work, c, v) <=> MessageSays(m, c, v) \/ TimedSays(work', c, v)
            BY <2>1, <2>2, TimedSaysTail
        <3>3. CASE c # d
            <4>1. ~MessageSays(m, c, v)
                BY <2>3, <3>3 DEF MessageSays
            <4>2. MapSays(current', c, v) <=> MapSays(current, c, v)
                BY <2>5, <3>3 DEF MapSays
            <4> QED
                BY <2>1, <3>1, <3>2, <4>1, <4>2 DEF NewerSays
        <3>4. CASE c = d
            <4>1. MessageSays(m, c, v) <=> Rank(ar) = v
                BY <2>1, <2>2, <2>3, <2>4, <3>4 DEF MessageSays
            <4>2. MapSays(current', c, v) <=> Rank(ar) = v
                BY <2>5, <3>4 DEF MapSays
            <4>3. ~MapSays(current, c, v)
                BY <2>4, <3>4 DEF MapSays
            <4>4. ~TimedSays(work', c, v)
                <5>1. Fresh(work', DOMAIN current \cup {d})
                    BY <2>1, <2>2, <2>3, FreshTail DEF WorkInv
                <5> QED
                    BY <3>4, <5>1, FreshSays
            <4> QED
                BY <2>1, <3>1, <3>2, <4>1, <4>2, <4>3, <4>4 DEF NewerSays
        <3> QED
            BY <3>3, <3>4
    <2>8. ASSUME NEW k, NEW c, NEW v
          PROVE  /\ Says(k, c, v)' => Says(k, c, v)
                 /\ k # -1 /\ Says(k, c, v) => Says(k, c, v)'
        BY <2>1, <2>7 DEF Says
    <2> QED
        BY <2>1, <2>8 DEF Settles
<1>ViewFinish. ASSUME WorkInv, FinishRound, UNCHANGED buffer
               PROVE  Settles
    <2> USE <1>ViewFinish
    <2>1. /\ work = <<>> /\ Handling /\ ~Handling' /\ UNCHANGED readerChannel
          /\ residual' = previous /\ previous' = current
        BY DEF FinishRound, EndCycle, Handling, Queueing
    <2>2. DOMAIN work = {}
        BY SMTT(40), <2>1
    <2>3. ASSUME NEW c, NEW v
          PROVE  (OlderSays(c, v)' <=> OlderSays(c, v)) /\ (NewerSays(c, v)' <=> NewerSays(c, v))
        <3>1. ~TimedSays(work, c, v)
            BY <2>2 DEF TimedSays
        <3> QED
            BY <2>1, <3>1 DEF OlderSays, NewerSays
    <2>4. ASSUME NEW k, NEW c, NEW v
          PROVE  Says(k, c, v)' <=> Says(k, c, v)
        BY <2>1, <2>3 DEF Says
    <2> QED
        BY <2>1, <2>4 DEF Settles
<1>ViewReceive. ASSUME TypeInv, WorkInv, Receive, UNCHANGED buffer
                PROVE  Shifts
    <2> USE <1>ViewReceive
    <2>1. /\ ~Handling /\ Handling' /\ UNCHANGED <<current, previous>> /\ DOMAIN current = {}
          /\ readerChannel # <<>> /\ readerChannel' = Tail(readerChannel)
        BY DEF Receive, WorkInv, Handling, Queueing
    <2>2. PICK n \in Nat : n = Len(readerChannel)
        BY ChannelLen
    <2>3. /\ readerChannel \in Seq(TimedBlock) /\ Head(readerChannel) = readerChannel[1]
          /\ Head(readerChannel) \in TimedBlock /\ n >= 1 /\ Len(readerChannel') = n - 1
          /\ \A k \in 1 .. n - 1 : readerChannel'[k] = readerChannel[k + 1]
        BY SMTT(40), <2>1, <2>2, ChannelLen
    <2>4. ASSUME NEW c, NEW v
          PROVE  NewerSays(c, v)' <=> BlockSays(readerChannel[1], c, v)
        <3>1. PICK b \in TimedBlock : b = Head(readerChannel)
            BY <2>3
        <3>2. work' = Timed(b.V4Time, b.V4Messages) \o Timed(b.V6Time, b.V6Messages)
            BY <3>1 DEF Receive
        <3>3. TimedSays(work', c, v) <=> BlockSays(b, c, v)
            BY <3>2, TimedSaysBlock
        <3>4. ~MapSays(current', c, v)
            BY <2>1 DEF MapSays
        <3> QED
            BY <2>1, <2>3, <3>1, <3>3, <3>4 DEF NewerSays
    <2>5. ASSUME NEW k \in Stages', NEW c, NEW v
          PROVE  Says(k, c, v)' <=> Says(k + 1, c, v)
        <3>1. k \in -1 .. n
            BY SMTT(40), <2>2, <2>3 DEF Stages
        <3>2. CASE k = -1
            <4>1. k + 1 = 0 /\ k + 1 # -1
                BY SMTT(40), <3>2
            <4> QED
                BY <2>1, <3>2, <4>1 DEF Says, OlderSays, NewerSays
        <3>3. CASE k = 0
            <4>1. k + 1 = 1 /\ k + 1 # 0 /\ k + 1 # -1 /\ k # -1 /\ 1 <= n
                BY SMTT(40), <2>3, <3>3
            <4> QED
                BY <2>2, <2>4, <3>3, <4>1 DEF Says
        <3>4. CASE k \in 1 .. n - 1
            <4>1. k + 1 # 0 /\ k + 1 # -1 /\ k # -1 /\ k # 0 /\ k <= n - 1 /\ k + 1 <= n
                BY SMTT(40), <3>4
            <4> QED
                BY <2>2, <2>3, <3>4, <4>1 DEF Says
        <3>5. CASE k = n
            <4>1. k + 1 # 0 /\ k + 1 # -1 /\ k # -1 /\ k # 0 /\ ~(k <= n - 1) /\ ~(k + 1 <= n)
                BY SMTT(40), <2>3, <3>5
            <4> QED
                BY <2>2, <2>3, <4>1 DEF Says
        <3> QED
            BY SMTT(40), <3>1, <3>2, <3>3, <3>4, <3>5
    <2>6. Len(readerChannel') + 1 = Len(readerChannel)
        BY SMTT(40), <2>2, <2>3
    <2> QED
        BY <2>5, <2>6 DEF Shifts
<1>ViewSubmit. ASSUME ProgramInv, Submit, UNCHANGED <<work, current, previous, residual, pc>>
               PROVE  Begins
    <2> USE <1>ViewSubmit
    <2>1. /\ readerChannel' = Append(readerChannel, buffer) /\ buffer' = EmptyBlock
          /\ Handling' <=> Handling
        BY DEF Submit, Handling
    <2>2. PICK n \in Nat : n = Len(readerChannel)
        BY ChannelLen DEF ProgramInv
    <2>3. /\ Len(readerChannel') = n + 1 /\ readerChannel'[n + 1] = buffer
          /\ \A k \in 1 .. n : readerChannel'[k] = readerChannel[k]
        BY SMTT(40), <2>1, <2>2, ChannelLen DEF ProgramInv
    <2>4. ASSUME NEW c, NEW v
          PROVE  (OlderSays(c, v)' <=> OlderSays(c, v)) /\ (NewerSays(c, v)' <=> NewerSays(c, v))
        BY <2>1 DEF OlderSays, NewerSays
    <2>5. ASSUME NEW k \in Stages, NEW c, NEW v
          PROVE  Says(k, c, v)' <=> Says(k, c, v)
        <3>1. k \in -1 .. n + 1
            BY SMTT(40), <2>2 DEF Stages
        <3>2. CASE k \in {-1, 0}
            BY <2>4, <3>2 DEF Says
        <3>3. CASE k \in 1 .. n
            <4>1. k # -1 /\ k # 0 /\ k <= n + 1 /\ k <= n
                BY SMTT(40), <3>3
            <4> QED
                BY <2>2, <2>3, <3>3, <4>1 DEF Says
        <3>4. CASE k = n + 1
            <4>1. k # -1 /\ k # 0 /\ k <= n + 1 /\ ~(k <= n)
                BY SMTT(40), <3>4
            <4> QED
                BY <2>2, <2>3, <3>4, <4>1 DEF Says
        <3> QED
            BY SMTT(40), <3>1, <3>2, <3>3, <3>4
    <2>6. ASSUME NEW c, NEW v
          PROVE  ~Says(Len(readerChannel) + 1, c, v)'
        <3>1. PICK k : k = Len(readerChannel') + 1
            OBVIOUS
        <3>2. k # -1 /\ k # 0 /\ ~(k <= Len(readerChannel'))
            BY SMTT(40), <2>3, <3>1
        <3> QED
            BY <2>1, <3>1, <3>2, EmptyBlockSays DEF Says
    <2> QED
        BY <2>2, <2>3, <2>5, <2>6 DEF Begins
<1>ViewCollect. ASSUME ProgramInv, SourceInv, Collect6 \/ Collect4, Quiet
                PROVE  (Collect6 => Polls(AF_INET6)) /\ (Collect4 => Polls(AF_INET))
    <2> USE <1>ViewCollect
    <2>1. PICK n \in Nat : n = Len(readerChannel)
        BY ChannelLen DEF ProgramInv
    <2>2. readerChannel' = readerChannel /\ sock' = sock
        BY DEF Quiet, Collect6, Collect4
    <2>3. ASSUME NEW c, NEW v
          PROVE  (OlderSays(c, v)' <=> OlderSays(c, v)) /\ (NewerSays(c, v)' <=> NewerSays(c, v))
        BY DEF Quiet, OlderSays, NewerSays
    <2>4. ASSUME NEW k \in Stages, k <= Len(readerChannel), NEW c, NEW v
          PROVE  Says(k, c, v)' <=> Says(k, c, v)
        BY <2>2, <2>3, <2>4 DEF Says
    <2>5. n + 1 # -1 /\ n + 1 # 0 /\ ~(n + 1 <= n)
        BY SMTT(40)
    <2>6. ASSUME NEW c, NEW v
          PROVE  /\ Says(n + 1, c, v) <=> BlockSays(buffer, c, v)
                 /\ Says(n + 1, c, v)' <=> BlockSays(buffer', c, v)
        BY <2>1, <2>2, <2>5 DEF Says
    <2>7. \A k \in Stages : k <= Len(readerChannel) \/ k = n + 1
        BY SMTT(40), <2>1 DEF Stages
    <2>8. AF_INET # AF_INET6 /\ SockType
        BY SMTT(40) DEF AF_INET, AF_INET6, ProgramInv
    <2>9. ASSUME NEW family, NEW res \in OneType(family),
                 \A c, v :
                    FamilyOf[c] = family => (BlockSays(buffer', c, v) <=> MessagesSay(res, c, v)),
                 \A c \in Sockets : \A v : FamilyOf[c] # family =>
                    (BlockSays(buffer', c, v) <=> BlockSays(buffer, c, v))
          PROVE  Polls(family)
        <3>1. /\ \A c, v : MessagesSay(res, c, v) => c \in Listed(family) /\ v = RankOf(c)
              /\ ~DumpMayFail => \A c \in Listed(family) : MessagesSay(res, c, RankOf(c))
            BY <2>8, AnswerSays
        <3>2. ASSUME NEW k \in Stages, NEW c, NEW v,
                     k <= Len(readerChannel) \/ (c \in Sockets /\ FamilyOf[c] # family)
              PROVE  Says(k, c, v)' <=> Says(k, c, v)
            BY <2>4, <2>6, <2>7, <2>9, <3>2
        <3>3. ASSUME NEW c \in Sockets, NEW v, FamilyOf[c] = family, Says(n + 1, c, v)'
              PROVE  c \in Listed(family) /\ v = RankOf(c)
            BY <2>6, <2>9, <3>1, <3>3
        <3>4. ASSUME NEW c \in Listed(family), ~DumpMayFail
              PROVE  Says(n + 1, c, RankOf(c))'
            <4>1. RankOf(c)' = RankOf(c)
                BY <2>2 DEF RankOf
            <4>2. FamilyOf[c] = family
                BY DEF Listed
            <4>3. PICK v : v = RankOf(c)
                OBVIOUS
            <4>4. Says(n + 1, c, v)'
                BY <2>6, <2>9, <3>1, <3>4, <4>2, <4>3
            <4> QED
                BY <4>1, <4>3, <4>4
        <3> QED
            BY <2>1, <2>2, <3>2, <3>3, <3>4 DEF Polls
    <2>10. /\ buffer.V4Messages \in Replies(AF_INET) /\ buffer.V6Messages \in Replies(AF_INET6)
        BY DEF ProgramInv, CollectorInv
    <2>11. \A c, v : ~MessagesSay(<<>>, c, v)
        BY SMTT(40) DEF MessagesSay
    <2>12. CASE Collect6
        <3>1. PICK res \in OneType(AF_INET6) :
                    buffer' = [EmptyBlock EXCEPT !.V6Time = now, !.V6Messages = res]
            BY <2>12 DEF Collect6
        <3>2. buffer'.V4Messages = <<>> /\ buffer'.V6Messages = res
            BY <3>1 DEF EmptyBlock
        <3>3. buffer = EmptyBlock /\ ~Collect4
            BY <2>12 DEF SourceInv, Collect6, Collect4
        <3>4. ASSUME NEW c, NEW v
              PROVE  /\ BlockSays(buffer', c, v) <=> MessagesSay(res, c, v)
                     /\ ~BlockSays(buffer, c, v)
            BY <2>11, <3>2, <3>3, EmptyBlockSays DEF BlockSays
        <3>5. ASSUME NEW c, NEW v, MessagesSay(res, c, v)
              PROVE  FamilyOf[c] = AF_INET6
            BY <2>8, <3>5, AnswerSays DEF Listed
        <3> QED
            BY <2>9, <3>3, <3>4, <3>5
    <2>13. CASE Collect4
        <3>1. PICK res \in OneType(AF_INET) :
                    buffer' = [buffer EXCEPT !.V4Time = now, !.V4Messages = res]
            BY <2>13 DEF Collect4
        <3>2. buffer'.V4Messages = res /\ buffer'.V6Messages = buffer.V6Messages
            BY SMTT(40), <3>1 DEF ProgramInv, CollectorInv
        <3>3. buffer.V4Messages = <<>> /\ ~Collect6
            BY <2>13 DEF SourceInv, Collect6, Collect4
        <3>4. ASSUME NEW c, NEW v
              PROVE  /\ BlockSays(buffer', c, v) <=>
                           MessagesSay(res, c, v) \/ MessagesSay(buffer.V6Messages, c, v)
                     /\ BlockSays(buffer, c, v) <=> MessagesSay(buffer.V6Messages, c, v)
            BY <2>11, <3>2, <3>3 DEF BlockSays
        <3>5. ASSUME NEW c, NEW v, MessagesSay(res, c, v)
              PROVE  FamilyOf[c] = AF_INET
            BY <2>8, <3>5, AnswerSays DEF Listed
        <3>6. ASSUME NEW c, NEW v, MessagesSay(buffer.V6Messages, c, v)
              PROVE  FamilyOf[c] = AF_INET6
            BY <2>10, <3>6, RepliesSay
        <3> QED
            <4>1. ASSUME NEW c, NEW v, FamilyOf[c] = AF_INET
                  PROVE  BlockSays(buffer', c, v) <=> MessagesSay(res, c, v)
                BY <2>8, <3>4, <3>6, <4>1
            <4>2. ASSUME NEW c \in Sockets, NEW v, FamilyOf[c] # AF_INET
                  PROVE  BlockSays(buffer', c, v) <=> BlockSays(buffer, c, v)
                BY <3>4, <3>5, <4>2
            <4> QED
                BY <2>9, <3>3, <4>1, <4>2
    <2> QED
        BY <2>12, <2>13
<1> SUFFICES ASSUME ProgramInv, SourceInv, [ProgramNext]_allVars PROVE ViewMove
    OBVIOUS
<1>1. TypeInv /\ WorkInv
    BY DEF ProgramInv, SourceInv
<1>2. CASE RoundStep /\ UNCHANGED <<sock, collector, buffer>>
    <2>1. Settles \/ Shifts
        BY <1>1, <1>2, <1>ViewReceive, <1>ViewSkip, <1>ViewHandle, <1>ViewFinish, ViewRetire
           DEF RoundStep
    <2> QED
        BY <1>2, <2>1 DEF ViewMove
<1>3. CASE KernelStep /\ Quiet /\ UNCHANGED <<collector, buffer>>
    BY <1>3, <1>ViewQuiet DEF ViewMove
<1>4. CASE (Collect6 \/ Collect4) /\ Quiet
    <2>1. CASE Collect6
        BY <1>4, <2>1, <1>ViewCollect DEF ViewMove, Collect6
    <2>2. CASE Collect4
        BY <1>4, <2>2, <1>ViewCollect DEF ViewMove, Collect4
    <2> QED
        BY <1>4, <2>1, <2>2
<1>5. CASE Submit /\ UNCHANGED <<work, current, previous, residual, pc>>
    <2>1. Begins
        BY <1>5, <1>ViewSubmit
    <2>2. UNCHANGED sock /\ collector = "submit" /\ collector' \in {"stop", "collect6"}
        BY <1>5 DEF Submit
    <2> QED
        BY <2>1, <2>2 DEF ViewMove
<1>6. CASE /\ Quiet /\ UNCHANGED <<sock, buffer>>
           /\ UNCHANGED collector \/ (collector = "stop" /\ collector' = "wait")
    BY <1>6, <1>ViewQuiet DEF ViewMove
<1> QED
    BY <1>2, <1>3, <1>4, <1>5, <1>6, ProgramCases

-----------------------------------------------------------------------------
(* The answers pass through the stages in the order the kernel gave them:    *)
(* a socket's rank never goes down from one stage to the next.               *)

\* What the kernel said of a socket, it still holds.
Within(c, v) ==
    /\ sock[c].phase # "none"
    /\ v <= MaxBytes => v <= sock[c].bytes
    /\ v = MaxBytes + 1 => sock[c].phase \in {"closing", "gone"}

Believed == \A c \in Sockets : \A k \in Stages, v \in Ranks : Says(k, c, v) => Within(c, v)
Ordered  == \A c \in Sockets : \A i, j \in Stages, v, w \in Ranks :
                i < j /\ Says(i, c, v) /\ Says(j, c, w) => v <= w
PipelineInv == Believed /\ Ordered

\* Sockets only move on.
LEMMA KernelAdvances ==
    ASSUME SockType, KernelStep \/ UNCHANGED sock, NEW c \in Sockets
    PROVE  /\ sock[c].phase # "none" => sock'[c].phase # "none"
           /\ sock[c].phase \in {"closing", "gone"} => sock'[c].phase \in {"closing", "gone"}
           /\ sock[c].phase = "gone" => sock'[c] = sock[c]
           /\ sock[c].bytes \in 0 .. MaxBytes /\ sock'[c].bytes \in 0 .. MaxBytes
           /\ sock[c].bytes <= sock'[c].bytes
<1>1. CASE UNCHANGED sock
    BY SMTT(40), <1>1 DEF SockType
<1>2. CASE KernelStep
    <2>1. PICK d \in Sockets : SocketOpens(d) \/ SocketSends(d) \/ SocketCloses(d) \/ SocketGoes(d)
        BY <1>2 DEF KernelStep
    <2>2. sock'[c] = sock[c] \/ c = d
        BY SMTT(40), <2>1 DEF SocketOpens, SocketSends, SocketCloses, SocketGoes, SetPhase, SockType
    <2>3. CASE sock'[c] = sock[c]
        BY SMTT(40), <2>3 DEF SockType
    <2>4. CASE c = d
        BY SMTT(40), <2>1, <2>4
           DEF SocketOpens, SocketSends, SocketCloses, SocketGoes, SetPhase, SockType
    <2> QED
        BY <2>2, <2>3, <2>4
<1> QED
    BY <1>1, <1>2

LEMMA WithinStays ==
    ASSUME SockType, KernelStep \/ UNCHANGED sock, NEW c \in Sockets, NEW v \in Ranks, Within(c, v)
    PROVE  Within(c, v)'
<1>1. /\ sock[c].bytes \in 0 .. MaxBytes /\ sock'[c].bytes \in 0 .. MaxBytes
      /\ sock[c].bytes <= sock'[c].bytes
    BY KernelAdvances
<1>2. (v <= MaxBytes => v <= sock[c].bytes) => (v <= MaxBytes => v <= sock'[c].bytes)
    BY SMTT(40), <1>1 DEF Ranks
<1> QED
    BY <1>2, KernelAdvances DEF Within

LEMMA RankOfIs ==
    ASSUME SockType, NEW c \in Sockets, sock[c].phase \in {"open", "closing"}
    PROVE  /\ RankOf(c) \in Ranks /\ Within(c, RankOf(c))
           /\ \A v \in Ranks : Within(c, v) => v <= RankOf(c)
<1>1. sock[c].bytes \in 0 .. MaxBytes
    BY DEF SockType
<1>2. CASE sock[c].phase = "open"
    <2>1. RankOf(c) = sock[c].bytes
        BY <1>2 DEF RankOf
    <2> QED
        BY SMTT(40), <1>1, <1>2, <2>1 DEF Within, Ranks
<1>3. CASE sock[c].phase = "closing"
    <2>1. RankOf(c) = MaxBytes + 1
        BY <1>3 DEF RankOf
    <2> QED
        BY SMTT(40), <1>3, <2>1 DEF Within, Ranks
<1> QED
    BY <1>2, <1>3

LEMMA StagesMove ==
    ASSUME TypeInv, TypeInv'
    PROVE  /\ Len(readerChannel') = Len(readerChannel) => Stages' = Stages
           /\ Len(readerChannel') + 1 = Len(readerChannel) =>
                \A k \in Stages' : /\ k \in Int /\ k + 1 \in Stages
                                   /\ \A i \in Stages' : i < k => i + 1 < k + 1
           /\ Len(readerChannel') = Len(readerChannel) + 1 =>
                \A k \in Stages' : k \in Stages \/ k = Len(readerChannel') + 1
           /\ \A k \in Stages : k <= Len(readerChannel) \/ k = Len(readerChannel) + 1
           /\ \A k \in Stages : k \in Int /\ ~(k > Len(readerChannel) + 1)
<1>1. PICK n \in Nat : n = Len(readerChannel)
    BY ChannelLen
<1>2. Len(readerChannel') \in Nat
    BY SeqLen DEF TypeInv, TypeOK, RoundTypeOK
<1>3. PICK l \in Nat : l = Len(readerChannel')
    BY <1>2
<1>4. Stages = -1 .. n + 1 /\ Stages' = -1 .. l + 1
    BY <1>1, <1>3 DEF Stages
<1> QED
    BY SMTT(40), <1>1, <1>3, <1>4

LEMMA NothingSaid == ProgramInit => \A k \in Stages : \A c, v : ~Says(k, c, v)
<1> SUFFICES ASSUME ProgramInit, NEW k \in Stages, NEW c, NEW v PROVE ~Says(k, c, v)
    OBVIOUS
<1>1. /\ readerChannel = <<>> /\ pc = "recv" /\ residual = EmptyMap /\ previous = EmptyMap
      /\ buffer = EmptyBlock
    BY DEF ProgramInit, Init, CacheInit
<1>2. ~Handling
    BY <1>1 DEF Handling, Queueing
<1>3. ~OlderSays(c, v) /\ ~NewerSays(c, v)
    BY <1>1, <1>2, EmptyMapIs DEF OlderSays, NewerSays, MapSays
<1>4. k \in {-1, 0} \/ ~(k <= Len(readerChannel))
    BY SMTT(40), <1>1 DEF Stages
<1> QED
    BY <1>1, <1>3, <1>4, EmptyBlockSays DEF Says

LEMMA PipelineInit == ProgramInit => PipelineInv
    BY NothingSaid DEF PipelineInv, Believed, Ordered

LEMMA PipelineStep ==
    ProgramInv /\ TypeInv' /\ SourceInv /\ PipelineInv /\ [ProgramNext]_allVars => PipelineInv'
<1>BelievedStep. ASSUME ProgramInv, TypeInv', Believed, ViewMove
                 PROVE  Believed'
    <2> USE <1>BelievedStep
    <2> SUFFICES ASSUME NEW c \in Sockets, NEW k \in Stages', NEW v \in Ranks, Says(k, c, v)'
                 PROVE  Within(c, v)'
        BY DEF Believed, Ranks
    <2>1. TypeInv /\ SockType
        BY DEF ProgramInv
    <2>2. ASSUME NEW i \in Stages, Says(i, c, v), KernelStep \/ UNCHANGED sock
          PROVE  Within(c, v)'
        BY <2>1, <2>2, WithinStays DEF Believed
    <2>3. CASE Settles /\ (UNCHANGED sock \/ KernelStep)
        <3>1. k \in Stages
            BY <2>1, <2>3, StagesMove DEF Settles
        <3> QED
            BY <2>2, <2>3, <3>1 DEF Settles
    <2>4. CASE Shifts /\ UNCHANGED sock
        <3>1. k + 1 \in Stages
            BY <2>1, <2>4, StagesMove DEF Shifts
        <3> QED
            BY <2>2, <2>4, <3>1 DEF Shifts
    <2>5. CASE Begins /\ UNCHANGED sock
        <3>1. k \in Stages \/ k = Len(readerChannel') + 1
            BY <2>1, <2>5, StagesMove DEF Begins
        <3> QED
            BY <2>2, <2>5, <3>1 DEF Begins
    <2>6. ASSUME NEW family, Polls(family), UNCHANGED sock
          PROVE  Within(c, v)'
        <3>1. k \in Stages /\ (k <= Len(readerChannel) \/ k = Len(readerChannel) + 1)
            BY <2>1, <2>6, StagesMove DEF Polls
        <3>2. CASE k <= Len(readerChannel) \/ FamilyOf[c] # family
            BY <2>2, <2>6, <3>1, <3>2 DEF Polls
        <3>3. CASE k = Len(readerChannel) + 1 /\ FamilyOf[c] = family
            <4>1. Len(readerChannel') = Len(readerChannel)
                BY <2>6 DEF Polls
            <4>2. c \in Listed(family) /\ v = RankOf(c)
                BY <2>6, <3>3, <4>1 DEF Polls
            <4>3. sock[c].phase \in {"open", "closing"}
                BY <4>2 DEF Listed
            <4>4. Within(c, v)
                BY <2>1, <4>2, <4>3, RankOfIs
            <4> QED
                BY <2>6, <4>4 DEF Within
        <3> QED
            BY <3>1, <3>2, <3>3
    <2> QED
        BY <2>3, <2>4, <2>5, <2>6 DEF ViewMove
<1>OrderedStep. ASSUME ProgramInv, TypeInv', PipelineInv, ViewMove
                PROVE  Ordered'
    <2> USE <1>OrderedStep
    <2> SUFFICES ASSUME NEW c \in Sockets, NEW i \in Stages', NEW j \in Stages', i < j,
                        NEW v \in Ranks, NEW w \in Ranks, Says(i, c, v)', Says(j, c, w)'
                 PROVE  v <= w
        BY DEF Ordered, Ranks
    <2>1. TypeInv /\ SockType
        BY DEF ProgramInv
    <2>2. ASSUME NEW k \in Stages, NEW l \in Stages, k < l, Says(k, c, v), Says(l, c, w)
          PROVE  v <= w
        BY <2>2 DEF PipelineInv, Ordered
    <2>3. CASE Settles
        <3>1. i \in Stages /\ j \in Stages
            BY <2>1, <2>3, StagesMove DEF Settles
        <3> QED
            BY <2>2, <2>3, <3>1 DEF Settles
    <2>4. CASE Shifts
        <3>1. i + 1 \in Stages /\ j + 1 \in Stages /\ i + 1 < j + 1
            BY <2>1, <2>4, StagesMove DEF Shifts
        <3> QED
            BY <2>2, <2>4, <3>1 DEF Shifts
    <2>5. CASE Begins
        <3>1. /\ i \in Stages \/ i = Len(readerChannel') + 1
              /\ j \in Stages \/ j = Len(readerChannel') + 1
            BY <2>1, <2>5, StagesMove DEF Begins
        <3> QED
            BY <2>2, <2>5, <3>1 DEF Begins
    <2>6. ASSUME NEW family, Polls(family)
          PROVE  v <= w
        <3>1. /\ i \in Stages /\ j \in Stages
              /\ (j <= Len(readerChannel) \/ j = Len(readerChannel) + 1)
            BY <2>1, <2>6, StagesMove DEF Polls
        <3>2. i <= Len(readerChannel)
            BY SMTT(40), <2>1, <3>1, ChannelLen DEF Stages
        <3>3. Says(i, c, v)
            BY <2>6, <3>1, <3>2 DEF Polls
        <3>4. CASE j <= Len(readerChannel) \/ FamilyOf[c] # family
            BY <2>2, <2>6, <3>1, <3>3, <3>4 DEF Polls
        <3>5. CASE j = Len(readerChannel) + 1 /\ FamilyOf[c] = family
            <4>1. Len(readerChannel') = Len(readerChannel)
                BY <2>6 DEF Polls
            <4>2. c \in Listed(family) /\ w = RankOf(c)
                BY <2>6, <3>5, <4>1 DEF Polls
            <4>3. sock[c].phase \in {"open", "closing"}
                BY <4>2 DEF Listed
            <4>4. Within(c, v)
                BY <3>1, <3>3 DEF PipelineInv, Believed
            <4> QED
                BY <2>1, <4>2, <4>3, <4>4, RankOfIs
        <3> QED
            BY <3>1, <3>4, <3>5
    <2> QED
        BY <2>3, <2>4, <2>5, <2>6 DEF ViewMove
<1> QED
    BY ViewStep, <1>BelievedStep, <1>OrderedStep DEF PipelineInv

-----------------------------------------------------------------------------
(* What the proofs about the whole program share. *)

PollInv == ProgramInv /\ SourceInv /\ CacheInv /\ GenerationInv /\ ClosingInv /\ PipelineInv

LEMMA PollInit == ProgramInit => PollInv
<1>1. ProgramInit => Init
    BY DEF ProgramInit
<1> QED
    BY <1>1, ProgramInvInit, SourceInit, CacheInvInit, GenerationInit, ClosingInit, PipelineInit
       DEF PollInv

LEMMA PollStep == PollInv /\ [ProgramNext]_allVars => PollInv'
<1> SUFFICES ASSUME PollInv, [ProgramNext]_allVars PROVE PollInv'
    OBVIOUS
<1>1. /\ ProgramInv /\ SourceInv /\ CacheInv /\ GenerationInv /\ ClosingInv /\ PipelineInv
      /\ TypeInv
    BY DEF PollInv, ProgramInv
<1>2. ProgramInv' /\ TypeInv'
    BY <1>1, ProgramInvStep, ProgramType
<1>3. SourceInv' /\ PipelineInv'
    BY <1>1, <1>2, SourceStep, PipelineStep
<1>4. CacheInv' /\ GenerationInv' /\ ClosingInv'
    <2>1. CASE Submit
        <3>1. UNCHANGED <<connections, current, previous, residual, pc, toClose, ending,
                          closingStats, closingTotals>>
            BY <2>1 DEF Submit
        <3>2. CacheInv'
            BY <1>1, <3>1 DEF CacheInv, WriterInCache, NothingResidual, AllEnded
        <3>3. GenerationInv'
            BY <1>1, <3>1 DEF GenerationInv, Known
        <3>4. ClosingInv'
            BY <1>1, <3>1 DEF ClosingInv, ClosingTypeInv, ClosingTotalsCover
        <3> QED
            BY <3>2, <3>3, <3>4
    <2>2. CASE [Next]_vars
        BY <1>1, <2>2, CacheStep, GenerationStep, ClosingStep
    <2> QED
        BY <2>1, <2>2, StepOfSaver
<1> QED
    BY <1>2, <1>3, <1>4 DEF PollInv

LEMMA PollInvariant == Program => []PollInv
    BY PollInit, PollStep, PTL DEF Program

\* The steps that may change a connection, a file or an event.
LEMMA FileCases ==
    ASSUME [ProgramNext]_allVars
    PROVE  \/ UNCHANGED <<connections, writers, events, pc, ending>>
           \/ SaverStep /\ UNCHANGED <<sock, collector, buffer>>
           \/ \E m \in Marshallers : MarshalClose(m)
<1>1. CASE KernelStep \/ Collect6 \/ Collect4 \/ Submit \/ Stop \/ UNCHANGED allVars
    BY <1>1 DEF KernelStep, Collect6, Collect4, Submit, Stop, CloseReader, allVars, vars
<1>2. CASE Goroutines /\ UNCHANGED <<kernelVars, collectorVars>>
    <2>1. CASE Tick \/ Finished \/ \E m \in Marshallers : Marshaller(m)
        BY <2>1 DEF Tick, Finished, vars, Marshaller, MarshalSave, MarshalExit
    <2> QED
        BY <1>2, <2>1 DEF Goroutines
<1> QED
    BY <1>1, <1>2 DEF ProgramNext, CollectorStep

\* The steps that count: those on a record, on one that is retired, and those
\* at the two ends of a round.
LEMMA BytesCases ==
    ASSUME [ProgramNext]_allVars
    PROVE  \/ UNCHANGED <<closingStats, closingTotals, closed, live, repVars>>
           \/ /\ Receive \/ HandleRecord \/ Retire \/ Report
              /\ UNCHANGED <<sock, collector, buffer>>
<1>1. CASE KernelStep \/ Collect6 \/ Collect4 \/ Submit \/ Stop \/ UNCHANGED allVars
    BY <1>1 DEF KernelStep, Collect6, Collect4, Submit, Stop, CloseReader, allVars, vars
<1>2. CASE Goroutines /\ UNCHANGED <<kernelVars, collectorVars>>
    <2>1. CASE Receive \/ HandleRecord \/ Retire \/ Report
        BY <1>2, <2>1
    <2>2. CASE QueueReject \/ QueueLookup \/ QueueExpire \/ QueueKeep \/ Rotate
                 \/ RotateFails \/ QueueSend
        BY <2>2 DEF QueueReject, QueueLookup, QueueExpire, QueueKeep, Rotate, RotateFails,
                    QueueSend
    <2>3. CASE SkipMessage \/ FinishRound \/ EndRetired
        BY <2>3 DEF SkipMessage, FinishRound, EndRetired
    <2>4. CASE CloseBegin \/ CloseConn \/ EndClosed \/ CloseEnd
        BY <2>4 DEF CloseBegin, CloseConn, EndClosed, CloseEnd
    <2>5. CASE Tick \/ Finished \/ \E m \in Marshallers : Marshaller(m)
        BY <2>5 DEF Tick, Finished, vars, Marshaller, MarshalClose, MarshalSave, MarshalExit
    <2> QED
        BY <1>2, <2>1, <2>2, <2>3, <2>4, <2>5 DEF Goroutines, SaverStep
<1> QED
    BY <1>1, <1>2 DEF ProgramNext, CollectorStep

-----------------------------------------------------------------------------
(* Closing stats. *)

LEMMA MapRank ==
    ASSUME NEW f, SocketMap(f), NEW c \in DOMAIN f
    PROVE  /\ Rank(f[c]) \in Ranks /\ MapSays(f, c, Rank(f[c])) /\ SocketRecord(f[c])
           /\ ~HasDiagInfo(f[c]) => Rank(f[c]) = MaxBytes + 1
<1>1. SocketRecord(f[c])
    BY DEF SocketMap
<1>2. Rank(f[c]) \in 0 .. MaxBytes \/ Rank(f[c]) = MaxBytes + 1
    BY <1>1 DEF SocketRecord, OpenRecord, ClosingRecord
<1>3. Rank(f[c]) \in Ranks
    BY SMTT(40), <1>2 DEF Ranks
<1> QED
    BY <1>1, <1>3 DEF MapSays, SocketRecord, OpenRecord, ClosingRecord

\* Wherever the cache has a record of the socket, it has none with TCPInfo.
CachedClosing(c) ==
    /\ c \in Known
    /\ c \in DOMAIN current => ~HasDiagInfo(current[c])
    /\ c \in DOMAIN previous => ~HasDiagInfo(previous[c])
    /\ c \in DOMAIN residual => ~HasDiagInfo(residual[c])

AsideInv ==
    /\ closingTotals["Sent"] = SumFunction(Aside("Sent"))
    /\ \A c \in DOMAIN closingStats : CachedClosing(c)

\* A socket that has lost its TCPInfo does not get it back.
LEMMA ClosingStays ==
    ASSUME PollInv, HandleRecord, NEW ar, NEW c,
           c = Head(work).Message.IDM.Cookie, c \in DOMAIN previous,
           ~HasDiagInfo(previous[c]), current' = MapPut(current, c, ar), SocketRecord(ar),
           Rank(ar) = Rank(RecordOf(Head(work).Message)), c \in Sockets
    PROVE  ~HasDiagInfo(ar)
<1>1. /\ SocketMap(previous) /\ Ordered /\ TypeInv
    BY DEF PollInv, SourceInv, PipelineInv, ProgramInv
<1>2. Handling /\ Archivable(Head(work).Message) /\ work # <<>> /\ work \in Seq(TimedMessage)
    BY <1>1 DEF HandleRecord, Handling, TypeInv, TypeOK, RoundTypeOK
<1>3. Rank(previous[c]) = MaxBytes + 1 /\ MapSays(previous, c, MaxBytes + 1)
    BY <1>1, MapRank
<1>4. PICK v : v = Rank(ar)
    OBVIOUS
<1>5. TimedSays(work, c, v)
    BY <1>2, <1>4, TimedSaysTail DEF MessageSays
<1>6. PICK z, i, j : z = MaxBytes + 1 /\ i = -1 /\ j = 0
    OBVIOUS
<1>7. Says(i, c, z) /\ Says(j, c, v)
    <2>1. j # -1
        BY SMTT(40), <1>6
    <2>2. Says(i, c, z)
        BY <1>2, <1>3, <1>6 DEF Says, OlderSays
    <2>3. Says(j, c, v)
        BY <1>2, <1>5, <1>6, <2>1 DEF Says, NewerSays
    <2> QED
        BY <2>2, <2>3
<1>8. i \in Stages /\ j \in Stages /\ i < j /\ z \in Ranks
    BY SMTT(40), <1>1, <1>6, ChannelLen DEF Stages, Ranks
<1>9. v \in 0 .. MaxBytes \/ v = z
    BY <1>4, <1>6 DEF SocketRecord, OpenRecord, ClosingRecord
<1>10. v \in Ranks
    BY SMTT(40), <1>6, <1>9 DEF Ranks
<1>11. z <= v
    BY <1>1, <1>7, <1>8, <1>10 DEF Ordered
<1>12. Rank(ar) \notin 0 .. MaxBytes
    BY SMTT(40), <1>4, <1>6, <1>11
<1>13. ~MarkKept
    BY <1>1, <1>3, MapRank DEF SocketRecord, OpenRecord, ClosingRecord
<1> QED
    BY <1>12, <1>13 DEF SocketRecord, OpenRecord, ClosingRecord

LEMMA AsideStep == PollInv /\ AsideInv /\ [ProgramNext]_allVars => AsideInv'
<1>AsideHandle. ASSUME PollInv, AsideInv, HandleRecord
                PROVE  AsideInv'
    <2> USE <1>AsideHandle
    <2>1. /\ TypeInv /\ WorkInv /\ ClosingTypeInv
          /\ DOMAIN residual = {} /\ residual' = residual
          /\ DOMAIN current \cap DOMAIN previous = {}
        BY DEF PollInv, ProgramInv, SourceInv, CacheInv, NothingResidual, GenerationInv, ClosingInv,
               HandleRecord
    <2>2. PICK k : k = Head(work).Message.IDM.Cookie
        OBVIOUS
    <2>3. PICK ar : /\ ar \in Record /\ SocketRecord(ar) /\ ar.RawIDM.Cookie = k
                    /\ Rank(ar) = Rank(RecordOf(Head(work).Message))
                    /\ k \in Sockets /\ k \notin DOMAIN current
                    /\ current' = MapPut(current, k, ar) /\ previous' = MapDelete(previous, k)
                    /\ SwapNew(ar) \/ SwapChanged(ar) \/ SwapSame(ar)
        BY <2>1, <2>2, HandledRecord
    <2>4. /\ DOMAIN current' = DOMAIN current \cup {k} /\ current'[k] = ar
          /\ \A c \in DOMAIN current : current'[c] = current[c]
        BY <2>3 DEF MapPut
    <2>5. /\ DOMAIN previous' = DOMAIN previous \ {k}
          /\ \A c \in DOMAIN previous : c # k => previous'[c] = previous[c]
        <3>1. previous' = MapDelete(previous, k)
            BY <2>3
        <3> QED
            BY <3>1, MapDeleteIs
    <2>6. k \in DOMAIN closingStats => k \in DOMAIN previous /\ ~HasDiagInfo(previous[k])
        <3>1. CASE k \in DOMAIN closingStats
            <4>1. CachedClosing(k)
                BY <3>1 DEF AsideInv
            <4>2. k \in DOMAIN previous
                BY <2>1, <2>3, <4>1 DEF CachedClosing, Known
            <4> QED
                BY <4>1, <4>2 DEF CachedClosing
        <3> QED
            BY <3>1
    <2>7. k \in DOMAIN closingStats => ~HasDiagInfo(ar)
        <3> SUFFICES ASSUME k \in DOMAIN closingStats PROVE ~HasDiagInfo(ar)
            OBVIOUS
        <3>1. k \in DOMAIN previous /\ ~HasDiagInfo(previous[k])
            BY <2>6
        <3> QED
            BY <2>2, <2>3, <3>1, ClosingStays
    <2>8. ASSUME DOMAIN closingStats' \subseteq DOMAIN closingStats \cup {k},
                 k \in DOMAIN closingStats' => ~HasDiagInfo(ar), NEW c \in DOMAIN closingStats'
          PROVE  CachedClosing(c)'
        <3>1. CASE c = k
            BY <2>1, <2>4, <2>5, <2>8, <3>1 DEF Known, CachedClosing
        <3>2. CASE c # k
            <4>1. c \in DOMAIN closingStats
                BY <2>8, <3>2
            <4>2. CachedClosing(c)
                BY <4>1 DEF AsideInv
            <4> QED
                BY <2>1, <2>4, <2>5, <3>2, <4>2 DEF CachedClosing, Known
        <3> QED
            BY <3>1, <3>2
    <2>9. CASE UNCHANGED <<closingStats, closingTotals>>
        BY <2>7, <2>8, <2>9 DEF AsideInv, Aside
    <2>10. ASSUME k \in DOMAIN previous, ~HasDiagInfo(ar), HasDiagInfo(previous[k]),
                  closingStats' = MapPut(closingStats, k, GetStats(previous[k])),
                  closingTotals' = Plus(closingTotals, GetStats(previous[k]))
           PROVE  AsideInv'
        <3>1. previous[k] \in Record
            BY <2>1, <2>10 DEF TypeInv, TypeOK, RoundTypeOK, IsCacheMap
        <3>2. PICK v \in Counters : v = GetStats(previous[k])
            BY <3>1, GetStatsType DEF Counters
        <3>3. k \notin DOMAIN closingStats
            BY <2>6, <2>10
        <3>4. "Sent" \in ByteFields
            BY DEF ByteFields
        <3>5. SumFunction(Aside("Sent"))' = SumFunction(Aside("Sent")) + v["Sent"]
            BY <2>1, <2>10, <3>2, <3>3, <3>4, AsidePut
        <3>6. closingTotals'["Sent"] = closingTotals["Sent"] + v["Sent"]
            BY <2>1, <2>10, <3>2, <3>4, TotalsFields
        <3>7. DOMAIN closingStats' = DOMAIN closingStats \cup {k}
            BY <2>10 DEF MapPut
        <3> QED
            BY <2>8, <2>10, <3>5, <3>6, <3>7 DEF AsideInv
    <2> QED
        BY <2>3, <2>9, <2>10 DEF SwapNew, SwapChanged, SwapSame, SaveClosingStats
<1>AsideRetire. ASSUME PollInv, AsideInv, Retire
                PROVE  AsideInv'
    <2> USE <1>AsideRetire
    <2>1. TypeInv /\ ClosingTypeInv /\ UNCHANGED <<current, previous>>
        BY DEF PollInv, ProgramInv, ClosingInv, Retire
    <2>2. PICK k \in DOMAIN residual : CloseBytes(k) /\ residual' = MapDelete(residual, k)
        BY DEF Retire
    <2>3. /\ DOMAIN residual' = DOMAIN residual \ {k}
          /\ \A c \in DOMAIN residual : c # k => residual'[c] = residual[c]
        BY <2>2, MapDeleteIs
    <2>4. k \in DOMAIN closingStats => ~HasDiagInfo(residual[k])
        BY DEF AsideInv, CachedClosing
    <2>5. k \notin DOMAIN closingStats'
        BY <2>2, <2>4, MapDeleteIs DEF CloseBytes
    <2>6. ASSUME DOMAIN closingStats' \subseteq DOMAIN closingStats, NEW c \in DOMAIN closingStats'
          PROVE  CachedClosing(c)'
        BY <2>1, <2>3, <2>5, <2>6 DEF AsideInv, CachedClosing, Known
    <2>7. CASE UNCHANGED <<closingStats, closingTotals>>
        BY <2>6, <2>7 DEF AsideInv, Aside
    <2>8. CASE /\ k \in DOMAIN closingStats
               /\ closingTotals' = Minus(closingTotals, closingStats[k])
               /\ closingStats' = MapDelete(closingStats, k)
        <3>1. PICK v \in Counters : v = closingStats[k]
            BY <2>1, <2>8 DEF ClosingTypeInv
        <3>2. "Sent" \in ByteFields
            BY DEF ByteFields
        <3>3. /\ v["Sent"] \in Nat /\ SumFunction(Aside("Sent"))' \in Nat
              /\ SumFunction(Aside("Sent")) = v["Sent"] + SumFunction(Aside("Sent"))'
            BY <2>1, <2>8, <3>1, <3>2, AsideDelete
        <3>4. closingTotals'["Sent"] = closingTotals["Sent"] - v["Sent"]
            BY <2>1, <2>8, <3>1, <3>2, TotalsFields
        <3>5. closingTotals["Sent"] = SumFunction(Aside("Sent"))
            BY DEF AsideInv
        <3>6. closingTotals'["Sent"] = SumFunction(Aside("Sent"))'
            <4>1. PICK x, y, z : /\ x = SumFunction(Aside("Sent"))
                                 /\ y = SumFunction(Aside("Sent"))' /\ z = v["Sent"]
                OBVIOUS
            <4>2. y \in Nat /\ z \in Nat /\ x = z + y /\ closingTotals'["Sent"] = x - z
                BY <3>3, <3>4, <3>5, <4>1
            <4>3. closingTotals'["Sent"] = y
                BY SMTT(40), <4>2
            <4> QED
                BY <4>1, <4>3
        <3>7. DOMAIN closingStats' \subseteq DOMAIN closingStats
            BY <2>8, MapDeleteIs
        <3> QED
            BY <2>6, <3>6, <3>7 DEF AsideInv
    <2> QED
        BY <2>2, <2>7, <2>8 DEF CloseBytes
<1> SUFFICES ASSUME PollInv, AsideInv, [ProgramNext]_allVars PROVE AsideInv'
    OBVIOUS
<1>1. CASE UNCHANGED <<closingStats, closingTotals, current, previous, residual>>
    BY <1>1 DEF AsideInv, CachedClosing, Aside, Known
<1>2. CASE FinishRound /\ UNCHANGED <<closingStats, closingTotals>>
    <2>1. /\ residual' = previous /\ previous' = current /\ current' = EmptyMap
          /\ DOMAIN residual = {}
        BY <1>2 DEF FinishRound, EndCycle, PollInv, CacheInv, NothingResidual
    <2> QED
        BY <1>2, <2>1, EmptyMapIs DEF AsideInv, CachedClosing, Aside, Known
<1>3. CASE UNCHANGED <<closingStats, closingTotals>>
    <2>1. \/ UNCHANGED <<current, previous, residual>>
          \/ RoundStep
        BY ProgramCases DEF Quiet
    <2>2. CASE Receive \/ SkipMessage
        BY <1>1, <1>3, <2>2 DEF Receive, SkipMessage
    <2> QED
        BY <1>1, <1>2, <1>3, <2>1, <2>2, <1>AsideHandle, <1>AsideRetire DEF RoundStep
<1>4. CASE Receive \/ Report
    BY <1>3, <1>4 DEF Receive, Report
<1> QED
    BY <1>3, <1>4, BytesCases, <1>AsideHandle, <1>AsideRetire

LEMMA AsideInvariant == Program => [](PollInv /\ AsideInv)
<1>1. ProgramInit => AsideInv
    <2> SUFFICES ASSUME ProgramInit PROVE AsideInv
        OBVIOUS
    <2>1. DOMAIN closingStats = {} /\ closingTotals = NoBytes /\ ClosingTypeInv
        BY EmptyMapIs, ClosingInit DEF ProgramInit, Init, ClosingInv
    <2>2. SumFunction(Aside("Sent")) = 0
        BY <2>1, AsideType, SumEmpty DEF ByteFields
    <2> QED
        BY <2>1, <2>2 DEF AsideInv, NoBytes
<1> QED
    BY <1>1, PollInvariant, AsideStep, PTL DEF Program

\* No closing stats are left behind: between rounds those put aside belong to
\* sockets in the cache, and ClosingTotals is exactly their sum, whatever the
\* netlink requests return.
THEOREM ClosingStatsAreExact == Program => []ClosingStatsExact
<1>1. PollInv /\ AsideInv => ClosingStatsExact
    <2> SUFFICES ASSUME PollInv, AsideInv PROVE ClosingStatsExact
        OBVIOUS
    <2>1. pc = "recv" => DOMAIN current = {} /\ DOMAIN residual = {}
        BY DEF PollInv, SourceInv, WorkInv, Handling, Queueing, CacheInv, NothingResidual
    <2>2. closingTotals["Sent"]
            = SumFunction([c \in DOMAIN closingStats |-> closingStats[c]["Sent"]])
        BY DEF AsideInv, Aside
    <2> QED
        BY <2>1, <2>2 DEF ClosingStatsExact, AsideInv, CachedClosing, Known
<1> QED
    BY <1>1, AsideInvariant, PTL

=============================================================================
