------------------------------ MODULE MCArchive ------------------------------
(***************************************************************************)
(* Messages for CsvTool: a full TCPInfo, a mark and a class id; the shorter*)
(* TCPInfo of an older kernel, with a congestion algorithm; attributes     *)
(* longer than their structs or that Decode does not know; many MD5        *)
(* signatures, whose line no scanner takes.                                *)
(***************************************************************************)
EXTENDS CsvTool

HeaderLine == [Header |-> TRUE]

Attr(t, v) == [Type |-> t, Malformed |-> FALSE, Value |-> v]

Message(c, attrs) ==
    [Type |-> 20, Short |-> FALSE, Attrs |-> attrs,
     IDM |-> [Family |-> AF_INET, State |-> 1, Cookie |-> c,
              Src |-> "global", Dst |-> "global"]]

FullInfo == [Len |-> 232, Early |-> 1, Times |-> 2, Counters |-> 3,
             Received |-> 4, Late |-> 5, Sent |-> 6]
OldInfo  == [FullInfo EXCEPT !.Len = 104, !.Received = 0, !.Late = 0, !.Sent = 0]
OfLen(n) == [Zeros(n) EXCEPT !.Early = n]

Full    == Message(1, <<Attr(INET_DIAG_INFO, FullInfo), Attr(INET_DIAG_MARK, OfLen(4)),
                        Attr(INET_DIAG_CLASS_ID, [Zeros(4) EXCEPT !.Early = 65537])>>)
Old     == Message(2, <<Attr(INET_DIAG_INFO, OldInfo), Attr(INET_DIAG_CONG, OfLen(6)),
                        Attr(8, OfLen(1)), Attr(7, OfLen(32))>>)
Unknown == Message(3, <<Attr(INET_DIAG_INFO, [FullInfo EXCEPT !.Len = 248]),
                        Attr(16, OfLen(20)), Attr(21, OfLen(8)),
                        Attr(1, [OfLen(48) EXCEPT !.Times = 7])>>)
Signed  == Message(4, <<Attr(18, OfLen(60000))>>)

MCLine == {Full, Old, Unknown, Signed}
MCIsLong(l) == l = Signed

=============================================================================
