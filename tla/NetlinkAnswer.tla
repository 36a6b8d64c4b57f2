--------------------------- MODULE NetlinkAnswer ---------------------------
(***************************************************************************)
(* What collectDefaultNamespace finds in the block after OneType, as the   *)
(* program relies on it (module TcpInfo) and as the netlink exchange       *)
(* provides it (module NetlinkDump).                                       *)
(***************************************************************************)
EXTENDS ArchivalRecord

NLMSG_ERROR == 2
NLMSG_DONE  == 3
SOCK_DIAG_BY_FAMILY == 20

\* The NLMSG_ERROR with which the kernel gives up a dump.
ErrorMessage ==
    [Type |-> NLMSG_ERROR, Short |-> TRUE, Attrs |-> <<>>,
     IDM |-> [Family |-> 0, State |-> 0, Cookie |-> 0, Src |-> "unspecified",
              Dst |-> "unspecified"]]

\* The messages of the sockets in dump; when the exchange may go wrong, none of
\* them or the first of them, with or without the NLMSG_ERROR, as if they were
\* the whole answer.
Outcomes(dump, mayFail) ==
    {dump} \cup
    IF mayFail
    THEN LET first == {SubSeq(dump, 1, n) : n \in 0 .. Len(dump)}
         IN  first \cup {Append(f, ErrorMessage) : f \in first}
    ELSE {}

=============================================================================
