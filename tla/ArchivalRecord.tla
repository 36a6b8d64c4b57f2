--------------------------- MODULE ArchivalRecord ---------------------------
(***************************************************************************)
(* The netlink message of one socket, the ArchivalRecord made of it, and   *)
(* the functions of netlink/archival-record.go and inetdiag/structs.go     *)
(* that the saver applies to a record.  There is no state in this module.  *)
(*                                                                         *)
(* Byte strings are cut at the offsets the code uses and each piece is a   *)
(* number that only identifies its contents.  A byte slice that may be nil *)
(* is <<>> when it is and <<bytes>> when it is not.                        *)
(***************************************************************************)
EXTENDS Integers, Sequences, FiniteSetsExt

INET_DIAG_INFO == 2
INET_DIAG_MARK == 15
INET_DIAG_MAX  == 19

AF_INET  == 2
AF_INET6 == 10

\* sizeof(BytesSent) after its offset: the shortest TCPInfo with both totals.
TCPInfoWithBytes == 208

\* The classes of address that net.IP's predicates tell apart, and what is left
\* of an address when its last bytes have been cleared.
LocalAddr == {"loopback", "linklocal", "multicast", "unspecified"}
Addr == LocalAddr \cup {"global", "anonymized"}

InetDiagMsg == [Family : Nat, State : Nat, Cookie : Nat, Src : Addr, Dst : Addr]

\* The bytes of an attribute, cut as Compare and GetStats read a TCPInfo:
\* up to LastDataSent, the Last* times, PMTU to BusyTime without and with
\* BytesReceived, the rest without and with BytesSent.
AttrValue == [Len : Nat, Early : Nat, Times : Nat, Counters : Nat,
              Received : Nat, Late : Nat, Sent : Nat]

RouteAttr == [Type : Nat, Malformed : BOOLEAN, Value : AttrValue]

\* Short: the payload is shorter than an aligned InetDiagMsg.
NetlinkMessage == [Type : Nat, Short : BOOLEAN, IDM : InetDiagMsg,
                   Attrs : Seq(RouteAttr)]

Record == [Timestamp : Nat, RawIDM : InetDiagMsg, Attributes : Seq(Seq(AttrValue))]

-----------------------------------------------------------------------------

isLocal(addr) == addr \in LocalAddr

\* An attribute whose length is below the header's or beyond the buffer makes
\* the whole parse fail.
ParseRouteAttrFails(attrs) == \E i \in DOMAIN attrs : attrs[i].Malformed

\* The indices at which attribute type t occurs.
Occurrences(attrs, t) == {i \in DOMAIN attrs : attrs[i].Type = t}

\* The largest type, capped.
maxAttrType(attrs) ==
    Max({t \in 0 .. 2 * INET_DIAG_MAX :
            t = 0 \/ \E i \in DOMAIN attrs : attrs[i].Type >= t})

\* The Attributes slice; the element of type t is at t + 1.  Types beyond the
\* cap are dropped, the last of several attributes of one type is kept.
AttributeTable(attrs) ==
    [k \in 1 .. maxAttrType(attrs) + 1 |->
        LET at == Occurrences(attrs, k - 1)
        IN  IF at = {} THEN <<>> ELSE <<attrs[Max(at)].Value>>]

\* MakeArchivalRecord(msg, TRUE) returns a record: no error, not local.
Archivable(msg) ==
    /\ msg.Type = 20
    /\ ~msg.Short
    /\ ~isLocal(msg.IDM.Src) /\ ~isLocal(msg.IDM.Dst)
    /\ ~ParseRouteAttrFails(msg.Attrs)

\* The record it returns, with the timestamp handleType puts in it.
MakeArchivalRecord(msg, t) ==
    [Timestamp |-> t, RawIDM |-> msg.IDM, Attributes |-> AttributeTable(msg.Attrs)]

HasDiagInfo(pm) == Len(pm.Attributes) > INET_DIAG_INFO

\* The record really carries a TCPInfo.
HasTCPInfo(pm) == HasDiagInfo(pm) /\ pm.Attributes[INET_DIAG_INFO + 1] # <<>>

TCPInfo(pm) == pm.Attributes[INET_DIAG_INFO + 1][1]

GetStats(pm) ==
    IF HasTCPInfo(pm) /\ TCPInfo(pm).Len >= TCPInfoWithBytes
    THEN [Sent |-> TCPInfo(pm).Sent, Received |-> TCPInfo(pm).Received]
    ELSE [Sent |-> 0, Received |-> 0]

-----------------------------------------------------------------------------
\* ChangeType
NoMajorChange        == 0
IDiagStateChange     == 1
NoTCPInfo            == 2
NewAttribute         == 3
LostAttribute        == 4
AttributeLength      == 5
StateOrCounterChange == 6
Other                == 9

\* The kind of change of an attribute, nil or not, that is not the same as it was.
AttributeChange(old, new) ==
    CASE old = <<>> -> NewAttribute
      [] new = <<>> -> LostAttribute
      [] OTHER      -> IF old[1].Len # new[1].Len THEN AttributeLength ELSE Other

\* Mutant: the counters between PMTU and BusyTime are not looked at.
CompareNoCounters(pm, previous) ==
    IF previous.RawIDM.State # pm.RawIDM.State THEN IDiagStateChange
    ELSE IF ~HasTCPInfo(previous) \/ ~HasTCPInfo(pm) THEN NoTCPInfo
    ELSE IF TCPInfo(previous).Early # TCPInfo(pm).Early THEN StateOrCounterChange
    ELSE NoMajorChange

\* The code slices a TCPInfo at fixed offsets, up to BusyTime at 168, and does not
\* look at its length: this is what it computes of a TCPInfo that has those bytes.
Compare(pm, previous) ==
    LET a == previous.Attributes
        b == pm.Attributes
        changed == {k \in DOMAIN a \ {INET_DIAG_INFO + 1} : a[k] # b[k]}
    IN  IF previous.RawIDM.State # pm.RawIDM.State THEN IDiagStateChange
        ELSE IF ~HasTCPInfo(previous) \/ ~HasTCPInfo(pm) THEN NoTCPInfo
        ELSE IF \/ TCPInfo(previous).Counters # TCPInfo(pm).Counters
                \/ TCPInfo(previous).Received # TCPInfo(pm).Received
                \/ TCPInfo(previous).Early # TCPInfo(pm).Early
             THEN StateOrCounterChange
        ELSE IF Len(a) < Len(b) THEN NewAttribute
        ELSE IF Len(a) > Len(b) THEN LostAttribute
        ELSE IF changed = {} THEN NoMajorChange
        ELSE AttributeChange(a[Min(changed)], b[Min(changed)])

\* What a record has to have in common with another one for the saver to drop
\* it: the state, a TCPInfo with the same fields outside Last* and the fields
\* from BusyTime on, and all the other attributes.
SameSignificant(pm, old) ==
    /\ pm.RawIDM.State = old.RawIDM.State
    /\ HasTCPInfo(pm) /\ HasTCPInfo(old)
    /\ TCPInfo(pm).Early = TCPInfo(old).Early
    /\ TCPInfo(pm).Counters = TCPInfo(old).Counters
    /\ TCPInfo(pm).Received = TCPInfo(old).Received
    /\ Len(pm.Attributes) = Len(old.Attributes)
    /\ \A k \in DOMAIN old.Attributes \ {INET_DIAG_INFO + 1} :
          old.Attributes[k] = pm.Attributes[k]

-----------------------------------------------------------------------------
\* The methods of the flag -anonymize.ip, and what the anonymizer of a method makes
\* of an address: None changes nothing, Netblock declines to change a local one.
Methods == {"none", "netblock"}

AnonymizeIP(addr, anon) ==
    IF anon = "none" \/ isLocal(addr) THEN addr ELSE "anonymized"

\* Anonymize succeeds for the two address families it knows, and then applies the
\* anonymizer to both addresses in place.
CanAnonymize(pm) == pm.RawIDM.Family \in {AF_INET, AF_INET6}

Anonymize(pm, anon) ==
    [pm EXCEPT !.RawIDM.Src = AnonymizeIP(@, anon),
               !.RawIDM.Dst = AnonymizeIP(@, anon)]

=============================================================================
