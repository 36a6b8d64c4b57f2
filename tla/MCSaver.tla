------------------------------ MODULE MCSaver ------------------------------
(***************************************************************************)
(* Instances of the saver for TLC.                                         *)
(***************************************************************************)
EXTENDS SaverProperties

Value(n) ==
    [Len |-> TCPInfoWithBytes, Early |-> 0, Times |-> 0, Counters |-> n,
     Received |-> 0, Late |-> 0, Sent |-> n]

Info(n) == <<[Type |-> INET_DIAG_INFO, Malformed |-> FALSE, Value |-> Value(n)]>>

Msg(family, c, state, attrs) ==
    [Type |-> 20, Short |-> FALSE, Attrs |-> attrs,
     IDM |-> [Family |-> family, State |-> state, Cookie |-> c,
              Src |-> "global", Dst |-> "global"]]

\* An established connection whose counters are n, v4 and v6; one in FIN_WAIT2
\* that has lost its attributes; one of a family Anonymize does not know.
Est(c, n)  == Msg(AF_INET, c, 1, Info(n))
Est6(c, n) == Msg(AF_INET6, c, 1, Info(n))
Fin(c)     == Msg(AF_INET, c, 5, <<>>)
Odd(c)     == Msg(1, c, 1, Info(0))

\* Messages that give no record: the four reasons for it.
NotType20  == [Est(1, 1) EXCEPT !.Type = 3]
TooShort   == [Est(1, 1) EXCEPT !.Short = TRUE]
Loopback   == [Est(1, 1) EXCEPT !.IDM.Dst = "loopback"]
BadAttr    == [Est(1, 1) EXCEPT !.Attrs[1].Malformed = TRUE]

V4(msgs) == [V4Messages |-> msgs, V6Messages |-> <<>>]

\* Two connections, each present with one of two contents or absent.
TwoFlows ==
    [V4Messages : {<<>>, <<Est(1, 0)>>, <<Est(1, 1)>>},
     V6Messages : {<<>>, <<Est6(2, 0)>>, <<Est6(2, 1)>>}]

\* A connection that is absent, changes, loses its TCPInfo and may regain it,
\* is listed twice in one dump, or comes with messages the saver refuses.
OddBlocks ==
    {V4(<<>>), V4(<<Est(1, 0)>>), V4(<<Est(1, 1)>>), V4(<<Fin(1)>>),
     V4(<<Est(1, 1), Est(1, 1)>>), V4(<<Odd(2), Est(0, 1)>>),
     V4(<<NotType20, TooShort, Loopback, BadAttr>>)}

\* One connection, present or absent.
OneFlow == {V4(<<>>), V4(<<Est(1, 0)>>), V4(<<Est(1, 1)>>)}

=============================================================================
