----------------------------- MODULE MCTcpInfo -----------------------------
(***************************************************************************)
(* Instances of the whole program for TLC.                                 *)
(***************************************************************************)
EXTENDS TcpInfo

\* One socket of either family.
JustV4 == [c \in {1} |-> AF_INET]
JustV6 == [c \in {1} |-> AF_INET6]

\* Every block the collector can fill from at most one socket per family.
Answers ==
    LET Info(n) == <<[Type |-> INET_DIAG_INFO, Malformed |-> FALSE,
                      Value |-> [Len |-> TCPInfoWithBytes, Early |-> 0, Times |-> 0,
                                 Counters |-> n, Received |-> 0, Late |-> 0, Sent |-> n]]>>
        Rest == IF MarkKept
                THEN <<[Type |-> INET_DIAG_MARK, Malformed |-> FALSE, Value |-> Mark]>>
                ELSE <<>>
        Msg(c, state, attrs) ==
            [Type |-> 20, Short |-> FALSE, Attrs |-> attrs,
             IDM |-> [Family |-> FamilyOf[c], State |-> state, Cookie |-> c,
                      Src |-> "global", Dst |-> "global"]]
        Socket(f) == {<<Msg(c, 1, Info(n))>> : c \in {s \in Sockets : FamilyOf[s] = f},
                                               n \in 0 .. MaxBytes}
                      \cup {<<Msg(c, 5, Rest)>> : c \in {s \in Sockets : FamilyOf[s] = f}}
        Answer(f) == {<<>>} \cup Socket(f)
        Reply(f) == Answer(f) \cup {Append(a, ErrorMessage) : a \in Answer(f)}
    IN  [V4Messages : Reply(AF_INET), V6Messages : Reply(AF_INET6)]

=============================================================================
