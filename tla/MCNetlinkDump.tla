--------------------------- MODULE MCNetlinkDump ---------------------------
(***************************************************************************)
(* An instance of the netlink exchange for TLC.                            *)
(***************************************************************************)
EXTENDS NetlinkDump

\* Four sockets.
FourSockets ==
    [c \in 1 .. 4 |->
        [Type |-> SOCK_DIAG_BY_FAMILY, Short |-> FALSE, Attrs |-> <<>>,
         IDM |-> [Family |-> AF_INET, State |-> 1, Cookie |-> c,
                  Src |-> "global", Dst |-> "global"]]]

=============================================================================
