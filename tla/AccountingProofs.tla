-------------------------- MODULE AccountingProofs -------------------------
(***************************************************************************)
(* What the whole program makes of the sockets it polls, for every set of  *)
(* sockets and number of rounds: the files they get, the bytes counted for *)
(* them and the seconds reported.                                          *)
(***************************************************************************)
EXTENDS ProgramProofs

\* Leaves are for Zenon, unless they cite another prover.
USE ZenonT(40)
USE SaverAssumption, TcpInfoAssumption
USE DEF envVars, cacheVars, connVars, byteVars, repVars, roundVars, exitVars,
        loopVars, frameVars, kernelVars, collectorVars

-----------------------------------------------------------------------------
(* Where no netlink request fails, a socket that is missing at a stage is    *)
(* gone for good.                                                            *)

Lists(k, c) == \E v \in Ranks : Says(k, c, v)

\* The collector has read the sockets of c's family in this round.
Polled(c) == collector = "submit" \/ (collector = "collect4" /\ FamilyOf[c] = AF_INET6)

Complete(k, c) == k <= Len(readerChannel) \/ Polled(c)

VanishInv ==
    \A c \in Sockets : \A i, j \in Stages :
        i < j /\ Complete(j, c) /\ Lists(i, c) /\ ~Lists(j, c) =>
            sock[c].phase = "gone" /\ \A k \in Stages : k > j => ~Lists(k, c)

\* The socket is gone and the program has no trace of it any more.
Dead(c) == sock[c].phase = "gone" /\ \A k \in Stages : ~Lists(k, c)

LEMMA ListsMove ==
    ASSUME NEW c
    PROVE  /\ Settles => \A k \in Stages : /\ Lists(k, c)' => Lists(k, c)
                                           /\ k # -1 /\ Lists(k, c) => Lists(k, c)'
           /\ Shifts => \A k \in Stages' : Lists(k, c)' <=> Lists(k + 1, c)
           /\ Begins => /\ \A k \in Stages : Lists(k, c)' <=> Lists(k, c)
                        /\ \A k : k = Len(readerChannel') + 1 => ~Lists(k, c)'
<1>1. ASSUME Settles, NEW k \in Stages
      PROVE  /\ Lists(k, c)' => Lists(k, c)
             /\ k # -1 /\ Lists(k, c) => Lists(k, c)'
    BY <1>1 DEF Settles, Lists, Ranks
<1>2. ASSUME Shifts, NEW k \in Stages'
      PROVE  Lists(k, c)' <=> Lists(k + 1, c)
    BY <1>2 DEF Shifts, Lists, Ranks
<1>3. ASSUME Begins
      PROVE  /\ \A k \in Stages : Lists(k, c)' <=> Lists(k, c)
             /\ \A k : k = Len(readerChannel') + 1 => ~Lists(k, c)'
    BY <1>3 DEF Begins, Lists, Ranks
<1> QED
    BY <1>1, <1>2, <1>3

LEMMA ListsPolled ==
    ASSUME SockType', NEW family, Polls(family), NEW c \in Sockets, NEW k \in Stages
    PROVE  /\ k <= Len(readerChannel) \/ FamilyOf[c] # family => (Lists(k, c)' <=> Lists(k, c))
           /\ FamilyOf[c] = family /\ k = Len(readerChannel) + 1 =>
                 /\ Lists(k, c)' => c \in Listed(family)
                 /\ ~DumpMayFail /\ c \in Listed(family) => Lists(k, c)'
<1>1. k <= Len(readerChannel) \/ FamilyOf[c] # family => (Lists(k, c)' <=> Lists(k, c))
    BY DEF Polls, Lists, Ranks
<1>2. ASSUME FamilyOf[c] = family, k = Len(readerChannel) + 1
      PROVE  /\ Lists(k, c)' => c \in Listed(family)
             /\ ~DumpMayFail /\ c \in Listed(family) => Lists(k, c)'
    <2>1. k = Len(readerChannel') + 1
        BY <1>2 DEF Polls
    <2>2. Lists(k, c)' => c \in Listed(family)
        BY <1>2, <2>1 DEF Polls, Lists, Ranks
    <2>3. ASSUME ~DumpMayFail, c \in Listed(family)
          PROVE  Lists(k, c)'
        <3>1. RankOf(c)' \in Ranks
            <4>1. sock'[c].bytes \in 0 .. MaxBytes
                BY DEF SockType
            <4> QED
                BY SMTT(40), <4>1 DEF RankOf, Ranks
        <3>2. Says(k, c, RankOf(c))'
            BY <1>2, <2>1, <2>3 DEF Polls
        <3> QED
            BY <3>1, <3>2 DEF Lists, Ranks
    <2> QED
        BY <2>2, <2>3
<1> QED
    BY <1>1, <1>2

LEMMA VanishStep ==
    ASSUME ~DumpMayFail, ProgramInv, TypeInv', SockType', Believed, VanishInv, ViewMove
    PROVE  VanishInv'
<1>1. TypeInv /\ SockType
    BY DEF ProgramInv
<1>2. ASSUME NEW c \in Sockets, sock[c].phase = "gone", KernelStep \/ UNCHANGED sock
      PROVE  sock'[c].phase = "gone"
    BY <1>1, <1>2, KernelAdvances
<1> SUFFICES ASSUME NEW c \in Sockets, NEW i \in Stages', NEW j \in Stages', i < j,
                    Complete(j, c)', Lists(i, c)', ~Lists(j, c)'
             PROVE  sock'[c].phase = "gone" /\ \A k \in Stages' : k > j => ~Lists(k, c)'
    BY DEF VanishInv
<1>3. ASSUME NEW x \in Stages, NEW y \in Stages, x < y, Complete(y, c), Lists(x, c), ~Lists(y, c)
      PROVE  sock[c].phase = "gone" /\ \A k \in Stages : k > y => ~Lists(k, c)
    BY <1>3 DEF VanishInv
<1>4. CASE /\ Settles /\ (UNCHANGED sock \/ KernelStep)
           /\ UNCHANGED collector \/ (collector = "stop" /\ collector' = "wait")
    <2>1. Stages' = Stages /\ Len(readerChannel') = Len(readerChannel)
        BY <1>1, <1>4, StagesMove DEF Settles
    <2>2. i \in Stages /\ j \in Stages /\ j # -1
        BY SMTT(40), <2>1, <1>1, ChannelLen DEF Stages
    <2>3. Complete(j, c)
        BY <1>4, <2>1 DEF Complete, Polled
    <2>4. Lists(i, c) /\ ~Lists(j, c)
        BY <1>4, <2>2, ListsMove
    <2>5. sock[c].phase = "gone" /\ \A k \in Stages : k > j => ~Lists(k, c)
        BY <1>3, <2>2, <2>3, <2>4
    <2> QED
        BY <1>2, <1>4, <2>1, <2>5, ListsMove
<1>5. CASE Shifts /\ UNCHANGED <<sock, collector>>
    <2>1. Len(readerChannel') + 1 = Len(readerChannel)
        BY <1>5 DEF Shifts
    <2>2. \A k \in Stages' : k \in Int /\ k + 1 \in Stages
        BY <1>1, <2>1, StagesMove
    <2>3. i + 1 < j + 1 /\ (j <= Len(readerChannel') => j + 1 <= Len(readerChannel))
          /\ \A k \in Stages' : k > j => k + 1 > j + 1
        <3>1. Len(readerChannel') \in Nat
            BY ChannelLen, SeqLen DEF TypeInv, TypeOK, RoundTypeOK
        <3> QED
            BY SMTT(40), <2>1, <2>2, <3>1
    <2>4. Complete(j + 1, c)
        BY <1>5, <2>3 DEF Complete, Polled
    <2>5. Lists(i + 1, c) /\ ~Lists(j + 1, c)
        BY <1>5, ListsMove
    <2>6. sock[c].phase = "gone" /\ \A k \in Stages : k > j + 1 => ~Lists(k, c)
        BY <1>3, <2>2, <2>3, <2>4, <2>5
    <2>7. \A k \in Stages' : k > j => ~Lists(k + 1, c)
        BY <2>2, <2>3, <2>6
    <2> QED
        BY <1>5, <2>6, <2>7, ListsMove
<1>6. CASE /\ Begins /\ UNCHANGED sock
           /\ collector = "submit" /\ collector' \in {"stop", "collect6"}
    <2>1. Len(readerChannel') = Len(readerChannel) + 1
        BY <1>6 DEF Begins
    <2>2. \A k \in Stages' : k \in Stages \/ k = Len(readerChannel') + 1
        BY <1>1, <2>1, StagesMove
    <2>3. i \in Stages
        BY <1>6, <2>2, ListsMove
    <2>4. j \in Stages
        <3>1. j <= Len(readerChannel')
            BY <1>6 DEF Complete, Polled
        <3>2. j # Len(readerChannel') + 1
            BY SMTT(40), <2>1, <3>1, <1>1, ChannelLen
        <3> QED
            BY <2>2, <3>2
    <2>5. Complete(j, c)
        BY <1>6 DEF Complete, Polled
    <2>6. Lists(i, c) /\ ~Lists(j, c)
        BY <1>6, <2>3, <2>4, ListsMove
    <2>7. sock[c].phase = "gone" /\ \A k \in Stages : k > j => ~Lists(k, c)
        BY <1>3, <2>3, <2>4, <2>5, <2>6
    <2> QED
        BY <1>6, <2>2, <2>7, ListsMove
<1>7. ASSUME NEW family, Polls(family), UNCHANGED sock,
             FamilyOf[c] # family /\ Polled(c)' => Polled(c)
      PROVE  sock'[c].phase = "gone" /\ \A k \in Stages' : k > j => ~Lists(k, c)'
    <2>1. Stages' = Stages /\ Len(readerChannel') = Len(readerChannel)
        BY <1>1, <1>7, StagesMove DEF Polls
    <2>2. /\ i \in Stages /\ j \in Stages
          /\ \A k \in Stages : k <= Len(readerChannel) \/ k = Len(readerChannel) + 1
          /\ \A k \in Stages : ~(k > Len(readerChannel) + 1)
        BY <1>1, <2>1, StagesMove
    <2>3. i <= Len(readerChannel)
        BY SMTT(40), <1>1, <2>2, ChannelLen DEF Stages
    <2>4. Lists(i, c)
        BY <1>7, <2>2, <2>3, ListsPolled
    <2>5. CASE FamilyOf[c] # family \/ j <= Len(readerChannel)
        <3>1. ~Lists(j, c)
            <4>1. SockType' /\ Polls(family) /\ j \in Stages
                BY <1>7, <2>2
            <4>2. Lists(j, c)' <=> Lists(j, c)
                BY <2>5, <4>1, ListsPolled
            <4> QED
                BY <4>2
        <3>2. Complete(j, c)
            BY <1>7, <2>1, <2>5 DEF Complete
        <3>3. sock[c].phase = "gone" /\ \A k \in Stages : k > j => ~Lists(k, c)
            BY <1>3, <2>2, <2>4, <3>1, <3>2
        <3>4. c \notin Listed(family)
            BY <3>3 DEF Listed
        <3>5. ASSUME NEW k \in Stages, k > j PROVE ~Lists(k, c)'
            BY <1>7, <2>2, <3>3, <3>4, <3>5, ListsPolled
        <3> QED
            BY <1>7, <2>1, <3>3, <3>5
    <2>6. CASE FamilyOf[c] = family /\ j = Len(readerChannel) + 1
        <3>1. c \notin Listed(family)
            BY <1>7, <2>2, <2>6, ListsPolled
        <3>2. sock[c].phase # "none"
            BY <2>2, <2>4 DEF Believed, Lists, Within
        <3>3. sock[c].phase = "gone"
            <4>1. sock[c].phase \in {"none", "open", "closing", "gone"}
                BY <1>1 DEF SockType
            <4>2. sock[c].phase \notin {"open", "closing"}
                BY <2>6, <3>1 DEF Listed
            <4> QED
                BY <3>2, <4>1, <4>2
        <3> QED
            BY <1>7, <2>1, <2>2, <2>6, <3>3
    <2> QED
        BY <2>2, <2>5, <2>6
<1>8. CASE Polls(AF_INET6) /\ UNCHANGED sock /\ collector = "collect6" /\ collector' = "collect4"
    BY <1>7, <1>8 DEF Polled
<1>9. CASE Polls(AF_INET) /\ UNCHANGED sock /\ collector = "collect4" /\ collector' = "submit"
    <2>1. FamilyOf[c] \in {AF_INET, AF_INET6}
        OBVIOUS
    <2> QED
        BY <1>7, <1>9, <2>1 DEF Polled
<1> QED
    BY <1>4, <1>5, <1>6, <1>8, <1>9 DEF ViewMove

\* What is dead stays dead.
LEMMA DeadStays ==
    ASSUME ProgramInv, TypeInv', SockType', ViewMove, NEW c \in Sockets, Dead(c)
    PROVE  Dead(c)'
<1>1. TypeInv /\ SockType
    BY DEF ProgramInv
<1>2. sock'[c].phase = "gone"
    BY <1>1, KernelAdvances DEF Dead, ViewMove
<1>3. ASSUME NEW family PROVE c \notin Listed(family)
    BY DEF Dead, Listed
<1> SUFFICES ASSUME NEW k \in Stages', Lists(k, c)' PROVE FALSE
    BY <1>2 DEF Dead
<1>4. CASE Settles
    <2>1. k \in Stages
        BY <1>1, <1>4, StagesMove DEF Settles
    <2> QED
        BY <1>4, <2>1, ListsMove DEF Dead
<1>5. CASE Shifts
    <2>1. k + 1 \in Stages
        BY <1>1, <1>5, StagesMove DEF Shifts
    <2> QED
        BY <1>5, <2>1, ListsMove DEF Dead
<1>6. CASE Begins
    <2>1. k \in Stages \/ k = Len(readerChannel') + 1
        BY <1>1, <1>6, StagesMove DEF Begins
    <2> QED
        BY <1>6, <2>1, ListsMove DEF Dead
<1>7. ASSUME NEW family, Polls(family) PROVE FALSE
    <2>1. k \in Stages /\ (k <= Len(readerChannel) \/ k = Len(readerChannel) + 1)
        BY <1>1, <1>7, StagesMove DEF Polls
    <2> QED
        BY <1>3, <1>7, <2>1, ListsPolled DEF Dead
<1> QED
    BY <1>4, <1>5, <1>6, <1>7 DEF ViewMove

\* A record of the cache keeps its socket from being dead; what Retire takes
\* out of the residual is.
LEMMA CachedNotDead ==
    ASSUME PollInv, Handling, NEW c \in DOMAIN current
    PROVE  c \in Sockets /\ ~Dead(c)
<1>1. TypeInv /\ SocketMap(current)
    BY DEF PollInv, ProgramInv, SourceInv
<1>2. c \in Sockets
    <2>1. current[c].RawIDM.Cookie = c
        BY <1>1 DEF TypeInv, TypeOK, RoundTypeOK, IsCacheMap
    <2> QED
        BY <1>1, <2>1 DEF SocketMap, SocketRecord
<1>3. PICK v : v \in Ranks /\ MapSays(current, c, v)
    BY <1>1, MapRank
<1>4. PICK k : k = 0
    OBVIOUS
<1>5. Says(k, c, v)
    BY SMTT(40), <1>3, <1>4 DEF Says, NewerSays
<1>6. k \in Stages
    BY SMTT(40), <1>1, <1>4, ChannelLen DEF Stages
<1> QED
    BY <1>2, <1>3, <1>5, <1>6 DEF Dead, Lists

LEMMA RetiredDead ==
    ASSUME PollInv, VanishInv, TypeInv', Retire, UNCHANGED <<sock, collector, buffer>>
    PROVE  ending' \in Sockets /\ Dead(ending)'
<1>1. /\ TypeInv /\ SocketMap(residual) /\ ~Handling /\ pc' \notin {"handle"} \cup Queueing
      /\ GenerationInv
    BY DEF PollInv, ProgramInv, SourceInv, Retire, Handling, Queueing
<1>2. PICK c \in DOMAIN residual : residual' = MapDelete(residual, c) /\ ending' = c
    BY DEF Retire
<1>3. c \in Sockets
    <2>1. residual[c].RawIDM.Cookie = c
        BY <1>1 DEF TypeInv, TypeOK, RoundTypeOK, IsCacheMap
    <2> QED
        BY <1>1, <2>1 DEF SocketMap, SocketRecord
<1>4. PICK i, j : i = -1 /\ j = 0
    OBVIOUS
<1>5. /\ i \in Stages /\ j \in Stages /\ i < j /\ j <= Len(readerChannel)
      /\ \A k \in Stages : k = i \/ k = j \/ k > j
    BY SMTT(40), <1>1, <1>4, ChannelLen DEF Stages
<1>6. \A v : /\ Says(i, c, v) <=> MapSays(residual, c, v)
             /\ Says(j, c, v) <=> MapSays(previous, c, v)
             /\ Says(i, c, v)' <=> MapSays(residual', c, v)
    BY SMTT(40), <1>1, <1>4 DEF Says, OlderSays, NewerSays, Handling
<1>7. Lists(i, c)
    BY <1>1, <1>6, MapRank DEF Lists
<1>8. ~Lists(j, c)
    BY <1>1, <1>6 DEF Lists, MapSays, GenerationInv
<1>9. Complete(j, c)
    BY <1>5 DEF Complete
<1>10. sock[c].phase = "gone" /\ \A k \in Stages : k > j => ~Lists(k, c)
    BY <1>3, <1>5, <1>7, <1>8, <1>9 DEF VanishInv
<1>11. c \notin DOMAIN residual'
    <2>1. residual' = MapDelete(residual, c)
        BY <1>2
    <2>2. DOMAIN MapDelete(residual, c) = DOMAIN residual \ {c}
        BY MapDeleteIs
    <2> QED
        BY <2>1, <2>2
<1>12. ~Lists(i, c)'
    BY <1>6, <1>11 DEF Lists, MapSays
<1>13. Settles
    BY ViewRetire
<1>14. Stages' = Stages
    BY <1>1, <1>13, StagesMove DEF Settles
<1>15. ASSUME NEW k \in Stages' PROVE ~Lists(k, c)'
    BY <1>5, <1>8, <1>10, <1>12, <1>13, <1>14, ListsMove
<1> QED
    BY <1>2, <1>3, <1>10, <1>15 DEF Dead

\* Until Close, an event of the end of a flow is of a socket that is gone.
GoneInv ==
    pc \notin Closing =>
        \A i \in DOMAIN events : events[i].Event = "Close" =>
            events[i].Cookie \in Sockets /\ sock[events[i].Cookie].phase = "gone"

LEMMA GoneStep ==
    ASSUME PollInv, VanishInv, GoneInv, [ProgramNext]_allVars
    PROVE  GoneInv'
<1>GoneAppend.
    ASSUME TypeInv, GoneInv, pc \notin Closing, NEW kind \in {"Open", "Close"}, NEW c \in Nat,
           events' = Append(events, [Event |-> kind, Cookie |-> c]), UNCHANGED sock,
           kind = "Close" => c \in Sockets /\ sock[c].phase = "gone"
    PROVE  GoneInv'
    <2> USE <1>GoneAppend
    <2>1. PICK n \in Nat : n = Len(events)
        BY EventsSeq
    <2>2. PICK e \in Event : e = [Event |-> kind, Cookie |-> c] /\ e.Event = kind /\ e.Cookie = c
        BY SMTT(40) DEF Event
    <2>3. events' = Append(events, e)
        BY <2>2
    <2>4. /\ DOMAIN events = 1 .. n /\ DOMAIN events' = 1 .. n + 1
          /\ \A i \in 1 .. n : events'[i] = events[i]
          /\ events'[n + 1] = e
        <3>1. PICK s \in Seq(Event) : s = events
            BY EventsSeq
        <3>2. /\ DOMAIN s = 1 .. n /\ DOMAIN Append(s, e) = 1 .. n + 1
              /\ \A i \in 1 .. n : Append(s, e)[i] = s[i]
              /\ Append(s, e)[n + 1] = e
            BY SMTT(40), <2>1, <3>1
        <3> QED
            BY <2>3, <3>1, <3>2
    <2>5. ASSUME NEW i \in 1 .. n + 1, events'[i].Event = "Close"
          PROVE  events'[i].Cookie \in Sockets /\ sock[events'[i].Cookie].phase = "gone"
        <3>1. i \in 1 .. n \/ i = n + 1
            BY SMTT(40)
        <3>2. CASE i \in 1 .. n
            BY <2>4, <2>5, <3>2 DEF GoneInv
        <3>3. CASE i = n + 1
            BY <2>2, <2>4, <2>5, <3>3
        <3> QED
            BY <3>1, <3>2, <3>3
    <2> QED
        BY <2>4, <2>5 DEF GoneInv
<1>1. TypeInv /\ SockType /\ TypeInv' /\ ViewMove
    BY ProgramType, ViewStep DEF PollInv, ProgramInv
<1>2. CASE UNCHANGED events /\ (pc' \notin Closing => pc \notin Closing)
    <2>1. ASSUME NEW c \in Sockets, sock[c].phase = "gone" PROVE sock'[c].phase = "gone"
        BY <1>1, <2>1, KernelAdvances DEF ViewMove
    <2> QED
        BY <1>2, <2>1 DEF GoneInv
<1>3. CASE pc' \in Closing
    BY <1>3 DEF GoneInv
<1>4. CASE SaverStep /\ UNCHANGED <<sock, collector, buffer>>
    <2>1. CASE Receive \/ SkipMessage \/ FinishRound \/ EndRetired \/ Report
        BY <1>2, <2>1 DEF Receive, SkipMessage, FinishRound, EndRetired, Report, Closing
    <2>2. CASE HandleRecord \/ QueueReject \/ QueueExpire \/ QueueKeep \/ Rotate
                 \/ RotateFails \/ QueueSend
        BY <1>2, <2>2 DEF HandleRecord, QueueReject, QueueExpire, QueueKeep, Rotate,
                          RotateFails, QueueSend, Closing
    <2>3. CASE CloseBegin \/ CloseConn \/ EndClosed \/ CloseEnd
        BY <1>3, <2>3 DEF CloseBegin, CloseConn, EndClosed, CloseEnd, Closing
    <2>4. CASE QueueLookup
        <3>1. CASE UNCHANGED events
            BY <1>2, <2>4, <3>1 DEF QueueLookup, Closing
        <3>2. PICK c \in Nat : c = pm.RawIDM.Cookie
            BY <1>1, <2>4, QueueTypes DEF QueueLookup, Queueing
        <3>3. CASE events' = Append(events, [Event |-> "Open", Cookie |-> c])
            <4>1. pc \notin Closing
                BY <2>4 DEF QueueLookup, Closing
            <4> QED
                BY <1>1, <1>4, <3>3, <4>1, <1>GoneAppend
        <3> QED
            BY <2>4, <3>1, <3>2, <3>3 DEF QueueLookup, FlowCreated
    <2>5. CASE Retire
        <3>1. PICK c : c = ending'
            OBVIOUS
        <3>2. c \in Sockets /\ sock[c].phase = "gone"
            BY <1>1, <1>4, <2>5, <3>1, RetiredDead DEF Dead
        <3>3. c \in Nat /\ pc \notin Closing
            BY <2>5, <3>2 DEF Retire, Closing
        <3>4. events' = Append(events, [Event |-> "Close", Cookie |-> c])
            BY <2>5, <3>1 DEF Retire, FlowDeleted
        <3> QED
            BY <1>1, <1>4, <3>2, <3>3, <3>4, <1>GoneAppend
    <2> QED
        BY <1>4, <2>1, <2>2, <2>3, <2>4, <2>5 DEF SaverStep
<1>5. CASE \E m \in Marshallers : MarshalClose(m)
    BY <1>2, <1>5 DEF MarshalClose
<1> QED
    BY <1>2, <1>4, <1>5, FileCases

\* A name that has been used is one of a connection that has counted past it,
\* or of a socket that will not be seen again.
Past(f, n) == n.Cookie \in DOMAIN f /\ n.Sequence < f[n.Cookie].Sequence

Spent(n) == n.Cookie \in Sockets /\ (Past(connections, n) \/ Dead(n.Cookie))

FileInv ==
    /\ NoFileOverwritten
    /\ pc = "endRetired" => ending \in Sockets /\ Dead(ending)
    /\ pc \notin Closing => \A w \in DOMAIN writers : Spent(writers[w].Name)

LEMMA FileStep ==
    ASSUME PollInv, VanishInv, FileInv, [ProgramNext]_allVars
    PROVE  FileInv'
\* No new file, and every connection keeps its count or is one of a socket
\* that is dead.
<1>FileKeep.
    ASSUME ProgramInv, FileInv, TypeInv', SockType', ViewMove,
           DOMAIN writers' = DOMAIN writers,
           \A w \in DOMAIN writers : writers'[w].Name = writers[w].Name,
           \A c \in DOMAIN connections : \/ c \in DOMAIN connections'
                                            /\ connections'[c].Sequence = connections[c].Sequence
                                         \/ c \in Sockets => Dead(c),
           pc' = "endRetired" => ending' \in Sockets /\ Dead(ending)',
           pc' \notin Closing => pc \notin Closing
    PROVE  FileInv'
    <2> USE <1>FileKeep
    <2>1. NoFileOverwritten'
        BY DEF FileInv, NoFileOverwritten
    <2>2. ASSUME NEW n, Spent(n) PROVE Spent(n)'
        <3>1. n.Cookie \in Sockets
            BY <2>2 DEF Spent
        <3>2. CASE Dead(n.Cookie)
            BY <3>1, <3>2, DeadStays DEF Spent
        <3>3. CASE Past(connections, n) /\ ~Dead(n.Cookie)
            BY <3>1, <3>3 DEF Spent, Past
        <3> QED
            BY <2>2, <3>2, <3>3 DEF Spent
    <2>3. ASSUME pc' \notin Closing, NEW w \in DOMAIN writers' PROVE Spent(writers[w].Name)'
        BY <2>2, <2>3 DEF FileInv
    <2> QED
        BY <2>1, <2>3 DEF FileInv
\* Rotate counts past the name it takes; a name of this connection that has
\* been used is another one, since the connection's socket is not dead.
<1>FileRotate. ASSUME PollInv, FileInv, TypeInv', SockType', ViewMove, Rotate
               PROVE  FileInv'
    <2> USE <1>FileRotate
    <2>1. TypeInv /\ ProgramInv /\ pc = "rotate" /\ pc' = "send"
        BY DEF PollInv, ProgramInv, Rotate
    <2>2. PICK c : c = pm.RawIDM.Cookie
        OBVIOUS
    <2>3. c \in DOMAIN current /\ Handling /\ c \in DOMAIN connections
        BY <2>1, <2>2 DEF TypeInv, QueueOK, Queueing, Handling
    <2>4. c \in Sockets /\ ~Dead(c)
        BY <2>3, CachedNotDead
    <2>5. PICK x \in Connection : x = connections[c]
        BY <2>1, <2>2, <2>3, QueueTypes DEF conn, Queueing
    <2>6. PICK q \in Nat : q = x.Sequence
        BY <2>5 DEF Connection
    <2>7. PICK name : name = FileName
        OBVIOUS
    <2>8. name.Cookie = c /\ name.Sequence = q
        BY <2>2, <2>5, <2>6, <2>7 DEF FileName, conn
    <2>9. PICK new : new = [Name |-> name, Created |-> now, Open |-> TRUE]
        OBVIOUS
    <2>10. new.Name = name /\ writers' = Append(writers, new)
        BY <2>7, <2>9 DEF Rotate
    <2>11. PICK n \in Nat : n = Len(writers)
        BY <2>1, SeqLen DEF TypeInv, TypeOK, WriterTypeOK
    <2>12. /\ DOMAIN writers = 1 .. n /\ DOMAIN writers' = 1 .. n + 1
           /\ \A w \in 1 .. n : writers'[w] = writers[w]
           /\ writers'[n + 1] = new
        <3>1. PICK s \in Seq(Writer) : s = writers
            BY <2>1 DEF TypeInv, TypeOK, WriterTypeOK
        <3>2. writers' = Append(s, new) /\ n = Len(s)
            BY <2>10, <2>11, <3>1
        <3>3. /\ DOMAIN s = 1 .. n /\ DOMAIN Append(s, new) = 1 .. n + 1
              /\ \A i \in 1 .. n : Append(s, new)[i] = s[i]
              /\ Append(s, new)[n + 1] = new
            BY SMTT(40), <3>2
        <3> QED
            BY <3>1, <3>2, <3>3
    <2>13. \A w \in 1 .. n + 1 : w \in 1 .. n \/ w = n + 1
        BY SMTT(40)
    <2>14. PICK y : y = [x EXCEPT !.Writer = Len(writers) + 1, !.Expiration = @ + FilePeriod,
                                  !.Sequence = @ + 1]
        OBVIOUS
    <2>15. y.Sequence = q + 1
        <3>1. \A e, v :
                [x EXCEPT !.Writer = v, !.Expiration = e, !.Sequence = q + 1].Sequence = q + 1
            BY SMTT(40) DEF Connection
        <3> QED
            BY <2>6, <2>14, <3>1
    <2>16. connections' = [connections EXCEPT ![c] = y]
        BY <2>2, <2>5, <2>14 DEF Rotate, SetConn, conn
    <2>17. /\ DOMAIN connections' = DOMAIN connections
           /\ connections'[c] = y
           /\ \A d \in DOMAIN connections : d # c => connections'[d] = connections[d]
        BY <2>3, <2>16
    <2>18. ASSUME NEW w \in 1 .. n
           PROVE  Spent(writers[w].Name) /\ writers[w].Name # name
        <3>1. Spent(writers[w].Name)
            BY <2>1, <2>12 DEF FileInv, Closing
        <3>2. ASSUME writers[w].Name = name PROVE FALSE
            <4>1. q < q
                BY <2>4, <2>5, <2>6, <2>8, <3>1, <3>2 DEF Spent, Past
            <4> QED
                BY SMTT(40), <4>1
        <3> QED
            BY <3>1, <3>2
    <2>19. NoFileOverwritten'
        <3> SUFFICES ASSUME NEW v \in 1 .. n + 1, NEW w \in 1 .. n + 1, v # w
                     PROVE  writers'[v].Name # writers'[w].Name
            BY <2>12 DEF NoFileOverwritten
        <3>1. CASE v \in 1 .. n /\ w \in 1 .. n
            BY <2>12, <3>1 DEF FileInv, NoFileOverwritten
        <3>2. CASE v = n + 1 /\ w \in 1 .. n
            BY <2>10, <2>12, <2>18, <3>2
        <3>3. CASE v \in 1 .. n /\ w = n + 1
            BY <2>10, <2>12, <2>18, <3>3
        <3> QED
            BY <2>13, <3>1, <3>2, <3>3
    <2>20. ASSUME NEW f, f.Sequence \in Nat, Spent(f) PROVE Spent(f)'
        <3>1. f.Cookie \in Sockets
            BY <2>20 DEF Spent
        <3>2. CASE Dead(f.Cookie)
            BY <2>1, <3>1, <3>2, DeadStays DEF Spent
        <3>3. CASE Past(connections, f) /\ f.Cookie # c
            BY <2>17, <3>1, <3>3 DEF Spent, Past
        <3>4. CASE Past(connections, f) /\ f.Cookie = c
            <4>1. f.Sequence < q
                BY <2>5, <2>6, <3>4 DEF Past
            <4>2. f.Sequence < q + 1
                BY SMTT(40), <2>20, <4>1
            <4> QED
                BY <2>3, <2>15, <2>17, <3>1, <3>4, <4>2 DEF Spent, Past
        <3> QED
            BY <2>20, <3>2, <3>3, <3>4 DEF Spent
    <2>21. Spent(name)'
        <3>1. q < q + 1
            BY SMTT(40)
        <3> QED
            BY <2>3, <2>4, <2>8, <2>15, <2>17, <3>1 DEF Spent, Past
    <2>22. ASSUME NEW w \in 1 .. n + 1 PROVE Spent(writers[w].Name)'
        <3>1. CASE w \in 1 .. n
            <4>1. Spent(writers[w].Name) /\ writers'[w] = writers[w]
                BY <2>12, <2>18, <3>1
            <4>2. writers[w] \in Writer
                BY <2>1, <2>12, <3>1, SeqElement, <2>11 DEF TypeInv, TypeOK, WriterTypeOK
            <4>3. writers[w].Name.Sequence \in Nat
                BY <4>2 DEF Writer
            <4> QED
                BY <2>20, <4>1, <4>3
        <3>2. CASE w = n + 1
            BY <2>10, <2>12, <2>21, <3>2
        <3> QED
            BY <2>13, <3>1, <3>2
    <2> QED
        BY <2>1, <2>12, <2>19, <2>22 DEF FileInv
<1>1. TypeInv /\ TypeInv' /\ ProgramInv /\ SockType' /\ ViewMove
    BY ProgramType, ProgramInvStep, ViewStep DEF PollInv, ProgramInv
<1>2. ASSUME UNCHANGED writers,
             \A c \in DOMAIN connections : \/ c \in DOMAIN connections'
                                              /\ connections'[c].Sequence = connections[c].Sequence
                                           \/ c \in Sockets => Dead(c),
             pc' # "endRetired", pc' \notin Closing => pc \notin Closing
      PROVE  FileInv'
    BY <1>1, <1>2, <1>FileKeep
<1>3. ASSUME UNCHANGED <<connections, writers>>, pc' # "endRetired",
             pc' \notin Closing => pc \notin Closing
      PROVE  FileInv'
    BY <1>2, <1>3
<1>4. ASSUME pc = "endRetired", UNCHANGED ending
      PROVE  ending' \in Sockets /\ Dead(ending)'
    <2>1. PICK c \in Sockets : c = ending /\ Dead(c)
        BY <1>4 DEF FileInv
    <2>2. Dead(c)'
        BY <1>1, <2>1, DeadStays
    <2> QED
        BY <1>4, <2>1, <2>2
<1>5. CASE UNCHANGED <<connections, writers, events, pc, ending>>
    <2>1. pc' = "endRetired" => ending' \in Sockets /\ Dead(ending)'
        BY <1>4, <1>5
    <2> QED
        BY <1>1, <1>5, <2>1, <1>FileKeep
<1>6. CASE SaverStep /\ UNCHANGED <<sock, collector, buffer>>
    <2>1. CASE Receive \/ SkipMessage \/ FinishRound \/ Report \/ CloseBegin \/ CloseConn
                 \/ CloseEnd
        <3>1. UNCHANGED <<connections, writers>> /\ pc' # "endRetired"
            BY <2>1 DEF Receive, SkipMessage, FinishRound, Report, CloseBegin, CloseConn, CloseEnd
        <3>2. pc' \notin Closing => pc \notin Closing
            BY <2>1 DEF Receive, SkipMessage, FinishRound, Report, CloseBegin, CloseConn, CloseEnd,
                        Closing
        <3> QED
            BY <1>3, <3>1, <3>2
    <2>2. CASE HandleRecord \/ QueueReject \/ QueueKeep \/ RotateFails \/ QueueSend
        <3>1. UNCHANGED <<connections, writers>>
            BY <2>2 DEF HandleRecord, QueueReject, QueueKeep, RotateFails, QueueSend
        <3>2. pc' # "endRetired" /\ pc \notin Closing
            BY <2>2 DEF HandleRecord, SwapNew, SwapChanged, SwapSame, QueueReject, QueueKeep,
                        RotateFails, QueueSend, Closing
        <3> QED
            BY <1>3, <3>1, <3>2
    <2>3. CASE Rotate
        BY <1>1, <2>3, <1>FileRotate
    <2>4. CASE Retire
        <3>1. ending' \in Sockets /\ Dead(ending)'
            BY <1>1, <1>6, <2>4, RetiredDead
        <3>2. UNCHANGED <<connections, writers>> /\ pc \notin Closing
            BY <2>4 DEF Retire, Closing
        <3> QED
            BY <1>1, <3>1, <3>2, <1>FileKeep
    <2>5. CASE QueueLookup
        <3>1. UNCHANGED writers /\ pc' # "endRetired" /\ pc \notin Closing
            BY <2>5 DEF QueueLookup, Closing
        <3>2. \A c \in DOMAIN connections :
                c \in DOMAIN connections' /\ connections'[c].Sequence = connections[c].Sequence
            BY <2>5 DEF QueueLookup, MapPut
        <3> QED
            BY <1>2, <3>1, <3>2
    <2>6. CASE QueueExpire
        <3>1. UNCHANGED writers /\ pc' # "endRetired" /\ pc \notin Closing /\ pc = "expire"
            BY <2>6 DEF QueueExpire, Closing
        <3>2. PICK x \in Connection : x = conn
            BY <1>1, <3>1, QueueTypes DEF Queueing
        <3>3. PICK y : y = [x EXCEPT !.Writer = NilWriter]
            OBVIOUS
        <3>4. y.Sequence = x.Sequence
            BY <3>3 DEF Connection
        <3>5. connections' = [connections EXCEPT ![pm.RawIDM.Cookie] = y]
            BY <2>6, <3>2, <3>3 DEF QueueExpire, SetConn
        <3>6. \A c \in DOMAIN connections :
                c \in DOMAIN connections' /\ connections'[c].Sequence = connections[c].Sequence
            BY <3>2, <3>4, <3>5 DEF conn
        <3> QED
            BY <1>2, <3>1, <3>6
    <2>7. CASE EndRetired
        <3>1. UNCHANGED writers /\ pc' # "endRetired" /\ pc \notin Closing /\ pc = "endRetired"
            BY <2>7 DEF EndRetired, Closing
        <3>2. connections' = MapDelete(connections, ending) \/ UNCHANGED connections
            BY <2>7 DEF EndRetired, endConn
        <3>3. \A c \in DOMAIN connections :
                c = ending \/ (c \in DOMAIN connections' /\ connections'[c] = connections[c])
            BY <3>2 DEF MapDelete, Restrict
        <3>4. ending \in Sockets => Dead(ending)
            BY <3>1 DEF FileInv
        <3> QED
            BY <1>2, <3>1, <3>3, <3>4
    <2>8. CASE EndClosed
        BY <2>8 DEF EndClosed, FileInv, NoFileOverwritten, Closing
    <2> QED
        BY <1>6, <2>1, <2>2, <2>3, <2>4, <2>5, <2>6, <2>7, <2>8 DEF SaverStep
<1>7. CASE \E m \in Marshallers : MarshalClose(m)
    <2>1. PICK k : writers' = [writers EXCEPT ![k].Open = FALSE]
        BY <1>7 DEF MarshalClose
    <2>2. UNCHANGED <<connections, pc, ending>>
        BY <1>7 DEF MarshalClose
    <2>3. DOMAIN writers' = DOMAIN writers
        BY <2>1
    <2>4. ASSUME NEW w \in DOMAIN writers PROVE writers'[w].Name = writers[w].Name
        <3>1. PICK x \in Writer : x = writers[w]
            <4>1. PICK s \in Seq(Writer) : s = writers
                BY <1>1 DEF TypeInv, TypeOK, WriterTypeOK
            <4>2. w \in 1 .. Len(s)
                BY <4>1, SeqLen
            <4> QED
                BY <4>1, <4>2, SeqElement
        <3>2. writers'[w] = x \/ writers'[w] = [x EXCEPT !.Open = FALSE]
            BY <2>1, <3>1
        <3>3. [x EXCEPT !.Open = FALSE].Name = x.Name
            BY DEF Writer
        <3> QED
            BY <3>1, <3>2, <3>3
    <2>5. pc' = "endRetired" => ending' \in Sockets /\ Dead(ending)'
        BY <1>4, <2>2
    <2> QED
        BY <1>1, <2>2, <2>3, <2>4, <2>5, <1>FileKeep
<1> QED
    BY <1>5, <1>6, <1>7, FileCases

LEMMA FileInit == ProgramInit => VanishInv /\ GoneInv /\ FileInv
<1> SUFFICES ASSUME ProgramInit PROVE VanishInv /\ GoneInv /\ FileInv
    OBVIOUS
<1>1. writers = <<>> /\ events = <<>> /\ pc = "recv"
    BY DEF ProgramInit, Init
<1>2. DOMAIN writers = {} /\ DOMAIN events = {}
    BY SMTT(40), <1>1
<1>3. VanishInv
    BY NothingSaid DEF VanishInv, Lists
<1> QED
    BY <1>1, <1>2, <1>3 DEF GoneInv, FileInv, NoFileOverwritten

LEMMA ReliableInvariant ==
    ASSUME ~DumpMayFail
    PROVE  Program => [](PollInv /\ VanishInv /\ GoneInv /\ FileInv)
<1>1. PollInv /\ VanishInv /\ [ProgramNext]_allVars => VanishInv'
    <2> SUFFICES ASSUME PollInv, VanishInv, [ProgramNext]_allVars PROVE VanishInv'
        OBVIOUS
    <2>1. ProgramInv /\ TypeInv' /\ SockType' /\ ViewMove /\ Believed
        BY ProgramType, ProgramInvStep, ViewStep DEF PollInv, ProgramInv, PipelineInv
    <2> QED
        BY <2>1, VanishStep
<1>2. PollInv /\ VanishInv /\ GoneInv /\ FileInv /\ [ProgramNext]_allVars => GoneInv' /\ FileInv'
    BY GoneStep, FileStep
<1> QED
    BY <1>1, <1>2, FileInit, PollInvariant, PTL DEF Program

\* Close means closed: where every netlink request is answered in full, the
\* saver announces the end of a flow only for a socket that the kernel no
\* longer has, however far the saver is behind the collector.
THEOREM CloseIsClosed ==
    ASSUME ~DumpMayFail
    PROVE  Program => []CloseMeansClosed
<1>1. GoneInv => CloseMeansClosed
    BY DEF GoneInv, CloseMeansClosed
<1> QED
    BY <1>1, ReliableInvariant, PTL

\* No file is written over: where every netlink request is answered in full,
\* no two calls of Rotate find the same name.
THEOREM FilesAreNew ==
    ASSUME ~DumpMayFail
    PROVE  Program => []NoFileOverwritten
<1>1. FileInv => NoFileOverwritten
    BY DEF FileInv
<1> QED
    BY <1>1, ReliableInvariant, PTL

-----------------------------------------------------------------------------
(* Bytes.  Of the bytes of a socket, the program counts those of its newest  *)
(* record, or those put aside when the TCPInfo was lost, or, once the socket *)
(* is retired and therefore dead, those it had at the end.                   *)

\* The cache has r as a record of c.
Cached(c, r) ==
    \/ c \in DOMAIN current /\ r = current[c]
    \/ c \in DOMAIN previous /\ r = previous[c]
    \/ c \in DOMAIN residual /\ r = residual[c]

LEMMA CachedIs ==
    ASSUME PollInv, NEW c, NEW r, Cached(c, r)
    PROVE  /\ c \in Sockets /\ ~Dead(c) /\ r \in Record /\ SocketRecord(r)
           /\ GetStats(r).Sent \in Nat /\ GetStats(r).Sent <= sock[c].bytes
           /\ sock[c].bytes \in Nat
<1>1. /\ TypeInv /\ SockType /\ Believed
      /\ SocketMap(current) /\ SocketMap(previous) /\ SocketMap(residual)
    BY DEF PollInv, ProgramInv, SourceInv, PipelineInv
<1>2. r \in Record /\ r.RawIDM.Cookie = c
    BY <1>1 DEF Cached, TypeInv, TypeOK, RoundTypeOK, IsCacheMap
<1>3. SocketRecord(r) /\ Rank(r) \in Ranks
    BY <1>1, MapRank DEF Cached
<1>4. c \in Sockets
    BY <1>2, <1>3 DEF SocketRecord
<1>5. PICK i, j : i = -1 /\ j = 0
    OBVIOUS
<1>6. i \in Stages /\ j \in Stages
    BY SMTT(40), <1>1, <1>5, ChannelLen DEF Stages
<1>7. \A v : /\ Says(i, c, v) <=> OlderSays(c, v)
             /\ Says(j, c, v) <=> NewerSays(c, v)
    BY SMTT(40), <1>5 DEF Says
<1>8. /\ ~Handling => DOMAIN current = {}
      /\ Handling => DOMAIN residual = {}
    BY DEF PollInv, SourceInv, WorkInv, CacheInv, NothingResidual, Handling, Queueing
<1>9. PICK v \in Ranks : v = Rank(r)
    BY <1>3
<1>10. OlderSays(c, v) \/ NewerSays(c, v)
    BY <1>8, <1>9 DEF Cached, OlderSays, NewerSays, MapSays
<1>11. PICK k \in Stages : Says(k, c, v)
    BY <1>6, <1>7, <1>10
<1>12. Within(c, v)
    BY <1>1, <1>4, <1>11 DEF Believed
<1>13. sock[c].bytes \in Nat
    BY SMTT(40), <1>1, <1>4 DEF SockType
<1>14. \/ GetStats(r).Sent = v /\ v \in 0 .. MaxBytes
       \/ GetStats(r).Sent = 0
    BY <1>3, <1>9 DEF SocketRecord, OpenRecord, ClosingRecord
<1>15. GetStats(r).Sent \in Nat /\ GetStats(r).Sent <= sock[c].bytes
    BY SMTT(40), <1>12, <1>13, <1>14 DEF Within
<1> QED
    BY <1>2, <1>3, <1>4, <1>11, <1>13, <1>15 DEF Dead, Lists

\* The records that Receive begins to count anew, and what the three counts are
\* made of.
Counting == IF Handling THEN current ELSE previous

LiveOf == [c \in Sockets |-> IF c \in DOMAIN Counting THEN GetStats(Counting[c]).Sent ELSE 0]
Settled == [c \in Sockets |-> IF Dead(c) THEN sock[c].bytes ELSE 0]
AsideOf == [c \in Sockets |-> IF c \in DOMAIN closingStats THEN closingStats[c].Sent ELSE 0]

\* What is put aside for a socket is at most what it has sent.
BoundInv ==
    \A c \in DOMAIN closingStats : c \in Sockets /\ closingStats[c].Sent <= sock[c].bytes

LiveInv   == live.Sent = SumFunctionOnSet(LiveOf, Sockets)
ClosedInv == closed.Sent \in Nat /\ closed.Sent <= SumFunctionOnSet(Settled, Sockets)

CountInv == BoundInv /\ LiveInv /\ ClosedInv

CountsAreNat ==
    \A c \in Sockets : /\ LiveOf[c] \in Nat /\ Settled[c] \in Nat /\ AsideOf[c] \in Nat
                       /\ sock[c].bytes \in Nat

LEMMA CountTypes == PollInv => CountsAreNat
<1> SUFFICES ASSUME PollInv, NEW c \in Sockets
             PROVE  /\ LiveOf[c] \in Nat /\ Settled[c] \in Nat /\ AsideOf[c] \in Nat
                    /\ sock[c].bytes \in Nat
    BY DEF CountsAreNat
<1>1. sock[c].bytes \in Nat
    BY SMTT(40) DEF PollInv, ProgramInv, SockType
<1>2. AsideOf[c] \in Nat
    <2>1. c \in DOMAIN closingStats => closingStats[c] \in Counters
        BY DEF PollInv, ClosingInv, ClosingTypeInv
    <2> QED
        BY SMTT(40), <2>1 DEF AsideOf, Counters
<1>3. LiveOf[c] \in Nat
    <2>1. c \in DOMAIN Counting => Cached(c, Counting[c])
        BY DEF Counting, Cached
    <2>2. c \in DOMAIN Counting => GetStats(Counting[c]).Sent \in Nat
        BY <2>1, CachedIs
    <2> QED
        BY SMTT(40), <2>2 DEF LiveOf
<1>4. Settled[c] \in Nat
    BY SMTT(40), <1>1 DEF Settled
<1> QED
    BY <1>1, <1>2, <1>3, <1>4

LEMMA CountTypesNext == PollInv' => CountsAreNat'
    BY CountTypes, PTL

\* One socket's number changes, and with it the sum.
LEMMA SocketsChange ==
    ASSUME NEW f, NEW g, NEW k \in Sockets, \A c \in Sockets : f[c] \in Nat,
           g[k] \in Nat, \A c \in Sockets \ {k} : g[c] = f[c]
    PROVE  /\ SumFunctionOnSet(f, Sockets) \in Nat /\ SumFunctionOnSet(g, Sockets) \in Nat
           /\ SumFunctionOnSet(g, Sockets) + f[k] = SumFunctionOnSet(f, Sockets) + g[k]
<1>1. PICK S : S = Sockets
    OBVIOUS
<1>2. /\ IsFiniteSet(S) /\ k \in S /\ \A c \in S : f[c] \in Nat
      /\ g[k] \in Nat /\ \A c \in S \ {k} : g[c] = f[c]
    BY <1>1
<1>3. SumFunctionOnSet(f, S) \in Nat /\ SumFunctionOnSet(g, S) \in Nat
    BY <1>2, SumChange
<1>4. PICK x : x = SumFunctionOnSet(f, S \ {k})
    OBVIOUS
<1>5. SumFunctionOnSet(f, S) = f[k] + x /\ x \in Nat
    BY <1>2, <1>4, SumSplit
<1>6. SumFunctionOnSet(g, S) = g[k] + x
    <2>1. \A c \in S : g[c] \in Nat
        BY <1>2
    <2>2. SumFunctionOnSet(g, S) = g[k] + SumFunctionOnSet(g, S \ {k})
        BY <1>2, <2>1, SumSplit
    <2>3. IsFiniteSet(S \ {k})
        BY <1>2, FS_RemoveElement
    <2>4. \A c \in S \ {k} : f[c] \in Nat /\ g[c] = f[c]
        BY <1>2
    <2>5. SumFunctionOnSet(f, S \ {k}) = SumFunctionOnSet(g, S \ {k})
        BY <2>3, <2>4, SumSame
    <2> QED
        BY <1>4, <2>2, <2>5
<1>7. f[k] \in Nat /\ g[k] \in Nat
    OBVIOUS
<1>8. SumFunctionOnSet(g, S) + f[k] = SumFunctionOnSet(f, S) + g[k]
    BY SMTT(40), <1>5, <1>6, <1>7
<1> QED
    BY <1>1, <1>3, <1>8

\* What the program knows a socket to have sent: what its newest record says,
\* or what was put aside when the record lost its TCPInfo.
Worth(c, r) == IF HasDiagInfo(r) THEN GetStats(r).Sent ELSE AsideOf[c]

Value ==
    [c \in Sockets |-> IF c \in DOMAIN current THEN Worth(c, current[c])
                       ELSE IF c \in DOMAIN previous THEN Worth(c, previous[c])
                       ELSE IF c \in DOMAIN residual THEN Worth(c, residual[c])
                       ELSE 0]

ValuesWithin ==
    \A c \in Sockets : /\ Value[c] \in Nat /\ Value[c] <= sock[c].bytes
                       /\ Dead(c) => Value[c] = 0

LEMMA ValueTypes == PollInv /\ BoundInv => ValuesWithin
<1> SUFFICES ASSUME PollInv, BoundInv, NEW c \in Sockets
             PROVE  /\ Value[c] \in Nat /\ Value[c] <= sock[c].bytes
                    /\ Dead(c) => Value[c] = 0
    BY DEF ValuesWithin
<1>1. /\ AsideOf[c] \in Nat /\ sock[c].bytes \in Nat
    BY CountTypes DEF CountsAreNat
<1>2. AsideOf[c] <= sock[c].bytes
    <2>1. AsideOf[c] = 0 \/ AsideOf[c] <= sock[c].bytes
        BY DEF AsideOf, BoundInv
    <2> QED
        BY SMTT(40), <1>1, <2>1
<1>3. ASSUME NEW r, Cached(c, r)
      PROVE  /\ Worth(c, r) \in Nat /\ Worth(c, r) <= sock[c].bytes /\ ~Dead(c)
    BY <1>1, <1>2, <1>3, CachedIs DEF Worth
<1>4. CASE \E r : Cached(c, r) /\ Value[c] = Worth(c, r)
    BY <1>3, <1>4
<1>5. CASE Value[c] = 0
    BY SMTT(40), <1>1, <1>5
<1> QED
    BY <1>4, <1>5 DEF Value, Cached

LEMMA ValueTypesNext == PollInv' /\ BoundInv' => ValuesWithin'
    BY ValueTypes, PTL

\* Once a round is counted, its total is what the sockets that are retired and
\* those in the cache are known to have sent.
LEMMA CountedTotal ==
    ASSUME PollInv, AsideInv, CountInv, Counted
    PROVE  /\ total.Sent = closed.Sent + SumFunctionOnSet(Value, Sockets)
           /\ SumFunctionOnSet(Value, Sockets) \in Nat
<1>AsideSum. ASSUME PollInv, AsideInv, BoundInv
             PROVE  closingTotals.Sent = SumFunctionOnSet(AsideOf, Sockets)
    <2> USE <1>AsideSum
    <2>1. PICK a : a = Aside("Sent")
        OBVIOUS
    <2>2. PICK T : T = DOMAIN closingStats
        OBVIOUS
    <2>3. ClosingTypeInv /\ "Sent" \in ByteFields
        BY DEF PollInv, ClosingInv, ByteFields
    <2>4. /\ \A c \in T : a[c] = closingStats[c]["Sent"] /\ a[c] \in Nat
          /\ SumFunction(a) = SumFunctionOnSet(a, T)
        BY <2>1, <2>2, <2>3, AsideType
    <2>5. T \in SUBSET Sockets
        BY <2>2 DEF BoundInv
    <2>6. PICK b : b = AsideOf
        OBVIOUS
    <2>7. \A c \in T : b[c] = a[c]
        BY <2>2, <2>4, <2>5, <2>6 DEF AsideOf
    <2>8. \A c \in Sockets \ T : b[c] = 0
        BY <2>2, <2>6 DEF AsideOf
    <2>9. IsFiniteSet(Sockets) /\ \A c \in T : a[c] \in Nat /\ b[c] = a[c]
        BY <2>4, <2>7
    <2>10. SumFunctionOnSet(b, Sockets) = SumFunctionOnSet(a, T)
        <3>1. PICK S : S = Sockets
            OBVIOUS
        <3>2. /\ IsFiniteSet(S) /\ T \in SUBSET S
              /\ \A y \in T : a[y] \in Nat /\ b[y] = a[y]
              /\ \A y \in S \ T : b[y] = 0
            BY <2>5, <2>8, <2>9, <3>1
        <3>3. SumFunctionOnSet(b, S) = SumFunctionOnSet(a, T)
            BY SMTT(40), <3>2, SumPart
        <3> QED
            BY <3>1, <3>3
    <2>11. closingTotals.Sent = SumFunction(a)
        BY <2>1 DEF AsideInv
    <2> QED
        BY <2>4, <2>6, <2>10, <2>11
<1>1. /\ pc = "retire" /\ residual = EmptyMap /\ ~Handling
      /\ BoundInv /\ LiveInv /\ closed.Sent \in Nat
      /\ SocketMap(previous) /\ IsFiniteSet(Sockets)
    BY DEF Counted, Handling, Queueing, CountInv, ClosedInv, PollInv, SourceInv
<1>2. DOMAIN residual = {} /\ DOMAIN current = {} /\ Counting = previous
    BY <1>1, EmptyMapIs DEF PollInv, SourceInv, WorkInv, Counting
<1>3. PICK a, b, v : a = AsideOf /\ b = LiveOf /\ v = Value
    OBVIOUS
<1>4. \A c \in Sockets : a[c] \in Nat /\ b[c] \in Nat
    BY <1>3, CountTypes DEF CountsAreNat
<1>5. ASSUME NEW c \in Sockets PROVE v[c] = a[c] + b[c]
    <2>1. CASE c \in DOMAIN previous
        <3>1. v[c] = Worth(c, previous[c]) /\ b[c] = GetStats(previous[c]).Sent
            BY <1>2, <1>3, <2>1 DEF Value, LiveOf
        <3>2. CASE HasDiagInfo(previous[c])
            <4>1. c \notin DOMAIN closingStats
                BY <2>1, <3>2 DEF AsideInv, CachedClosing
            <4>2. a[c] = 0
                BY <1>3, <4>1 DEF AsideOf
            <4>3. v[c] = b[c]
                BY <3>1, <3>2 DEF Worth
            <4> QED
                BY SMTT(40), <1>4, <4>2, <4>3
        <3>3. CASE ~HasDiagInfo(previous[c])
            <4>1. SocketRecord(previous[c])
                BY <1>1, <2>1 DEF SocketMap
            <4>2. b[c] = 0
                BY <3>1, <3>3, <4>1 DEF SocketRecord, OpenRecord, ClosingRecord
            <4>3. v[c] = a[c]
                BY <1>3, <3>1, <3>3 DEF Worth
            <4> QED
                BY SMTT(40), <1>4, <4>2, <4>3
        <3> QED
            BY <3>2, <3>3
    <2>2. CASE c \notin DOMAIN previous
        <3>1. c \notin DOMAIN closingStats
            BY <1>2, <2>2 DEF AsideInv, CachedClosing, Known
        <3>2. v[c] = 0 /\ b[c] = 0 /\ a[c] = 0
            BY <1>2, <1>3, <2>2, <3>1 DEF Value, LiveOf, AsideOf
        <3> QED
            BY SMTT(40), <3>2
    <2> QED
        BY <2>1, <2>2
<1>6. SumFunctionOnSet(v, Sockets) = SumFunctionOnSet(a, Sockets) + SumFunctionOnSet(b, Sockets)
    <2>1. PICK S : S = Sockets
        OBVIOUS
    <2>2. IsFiniteSet(S) /\ \A y \in S : a[y] \in Nat /\ b[y] \in Nat /\ v[y] = a[y] + b[y]
        BY <1>1, <1>4, <1>5, <2>1
    <2>3. SumFunctionOnSet(v, S) = SumFunctionOnSet(a, S) + SumFunctionOnSet(b, S)
        BY SMTT(40), <2>2, SumPlus
    <2> QED
        BY <2>1, <2>3
<1>7. SumFunctionOnSet(a, Sockets) \in Nat /\ SumFunctionOnSet(b, Sockets) \in Nat
    BY <1>1, <1>4, SumNat
<1>8. closingTotals.Sent = SumFunctionOnSet(a, Sockets) /\ live.Sent = SumFunctionOnSet(b, Sockets)
    BY <1>1, <1>3, <1>AsideSum DEF LiveInv
<1>9. total.Sent = closed.Sent + closingTotals.Sent + live.Sent
    BY DEF total, Plus
<1>10. /\ total.Sent = closed.Sent + SumFunctionOnSet(v, Sockets)
       /\ SumFunctionOnSet(v, Sockets) \in Nat
    BY SMTT(40), <1>1, <1>6, <1>7, <1>8, <1>9
<1> QED
    BY <1>3, <1>10

LEMMA CountStep ==
    ASSUME PollInv, PollInv', VanishInv, CountInv, [ProgramNext]_allVars
    PROVE  CountInv'
<1>BoundStep. ASSUME PollInv, BoundInv, [ProgramNext]_allVars
              PROVE  BoundInv'
    <2> USE <1>BoundStep
    <2>1. TypeInv /\ SockType /\ WorkInv /\ ClosingTypeInv /\ (KernelStep \/ UNCHANGED sock)
        BY ViewStep DEF PollInv, ProgramInv, SourceInv, ClosingInv, ViewMove
    <2>2. ASSUME NEW c \in DOMAIN closingStats
          PROVE  c \in Sockets /\ closingStats[c].Sent <= sock'[c].bytes
        <3>1. c \in Sockets /\ closingStats[c].Sent <= sock[c].bytes
            BY DEF BoundInv
        <3>2. /\ sock[c].bytes \in 0 .. MaxBytes /\ sock'[c].bytes \in 0 .. MaxBytes
              /\ sock[c].bytes <= sock'[c].bytes
            BY <2>1, <3>1, KernelAdvances
        <3>3. closingStats[c].Sent \in Nat
            BY <2>1 DEF ClosingTypeInv, Counters
        <3> QED
            BY SMTT(40), <3>1, <3>2, <3>3
    <2>3. CASE UNCHANGED closingStats
        BY <2>2, <2>3 DEF BoundInv
    <2>4. CASE HandleRecord /\ UNCHANGED sock
        <3>1. PICK k : k = Head(work).Message.IDM.Cookie
            OBVIOUS
        <3>2. PICK ar : /\ ar.RawIDM.Cookie = k
                        /\ SwapNew(ar) \/ SwapChanged(ar) \/ SwapSame(ar)
            BY <2>1, <2>4, <3>1, HandledRecord
        <3>3. CASE /\ k \in DOMAIN previous
                   /\ closingStats' = MapPut(closingStats, k, GetStats(previous[k]))
            <4>1. Cached(k, previous[k])
                BY <3>3 DEF Cached
            <4>2. k \in Sockets /\ GetStats(previous[k]).Sent <= sock[k].bytes
                BY <4>1, CachedIs
            <4>3. /\ DOMAIN closingStats' = DOMAIN closingStats \cup {k}
                  /\ closingStats'[k] = GetStats(previous[k])
                  /\ \A c \in DOMAIN closingStats : c # k => closingStats'[c] = closingStats[c]
                BY <3>3 DEF MapPut
            <4> QED
                BY <2>2, <2>4, <4>2, <4>3 DEF BoundInv
        <3> QED
            BY <2>3, <3>2, <3>3 DEF SwapNew, SwapChanged, SwapSame, SaveClosingStats
    <2>5. CASE Retire /\ UNCHANGED sock
        <3>1. PICK k : CloseBytes(k)
            BY <2>5 DEF Retire
        <3>2. CASE closingStats' = MapDelete(closingStats, k)
            <4>1. /\ DOMAIN closingStats' \subseteq DOMAIN closingStats
                  /\ \A c \in DOMAIN closingStats' : closingStats'[c] = closingStats[c]
                BY <3>2 DEF MapDelete, Restrict
            <4> QED
                BY <2>2, <4>1 DEF BoundInv
        <3> QED
            BY <2>3, <3>1, <3>2 DEF CloseBytes
    <2>6. CASE Receive \/ Report
        BY <2>3, <2>6 DEF Receive, Report
    <2> QED
        BY <2>3, <2>4, <2>5, <2>6, BytesCases
<1>LiveStep. ASSUME PollInv, PollInv', LiveInv, [ProgramNext]_allVars
             PROVE  LiveInv'
    <2> USE <1>LiveStep
    \* What is counted as live changes when a round begins and with each record.
    <2>CountingCases. ASSUME [ProgramNext]_allVars
                      PROVE  UNCHANGED Counting \/ Receive \/ HandleRecord
        <3> USE <2>CountingCases
        <3>1. CASE UNCHANGED <<current, previous>> /\ (Handling' <=> Handling)
            BY <3>1 DEF Counting
        <3>2. CASE FinishRound
            BY <3>2 DEF FinishRound, EndCycle, Counting, Handling, Queueing
        <3>3. CASE SkipMessage \/ Retire
            BY <3>1, <3>3 DEF SkipMessage, Retire, Handling, Queueing
        <3>4. CASE Submit /\ UNCHANGED <<current, previous, pc>>
            BY <3>1, <3>4 DEF Handling
        <3> QED
            BY <3>1, <3>2, <3>3, <3>4, ProgramCases DEF Quiet, RoundStep
    <2>1. TypeInv /\ WorkInv /\ IsFiniteSet(Sockets) /\ CountsAreNat /\ CountsAreNat'
        BY CountTypes, CountTypesNext DEF PollInv, ProgramInv, SourceInv
    <2>2. CASE UNCHANGED <<live, Counting>>
        BY <2>2 DEF LiveInv, LiveOf
    <2>3. CASE Receive
        <3>1. Counting' = current /\ DOMAIN current = {} /\ live' = NoBytes
            BY <2>1, <2>3 DEF Receive, Counting, Handling, Queueing, WorkInv
        <3>2. \A c \in Sockets : LiveOf'[c] = 0
            BY <3>1 DEF LiveOf
        <3>3. SumFunctionOnSet(LiveOf', Sockets) = 0
            BY <2>1, <3>2, SumZero
        <3> QED
            BY <3>1, <3>3 DEF LiveInv, NoBytes
    <2>4. CASE HandleRecord
        <3>1. PICK k : k = Head(work).Message.IDM.Cookie
            OBVIOUS
        <3>2. PICK ar : /\ ar \in Record /\ k \in Sockets /\ k \notin DOMAIN current
                        /\ current' = MapPut(current, k, ar) /\ live' = Plus(live, GetStats(ar))
            BY <2>1, <2>4, <3>1, HandledRecord
        <3>3. Counting = current /\ Counting' = MapPut(current, k, ar)
            BY <2>4, <3>2 DEF HandleRecord, SwapNew, SwapChanged, SwapSame, Counting,
                             Handling, Queueing
        <3>4. /\ DOMAIN Counting' = DOMAIN current \cup {k} /\ Counting'[k] = ar
              /\ \A c \in DOMAIN current : Counting'[c] = current[c]
            BY <3>2, <3>3 DEF MapPut
        <3>5. PICK x : x = GetStats(ar).Sent
            OBVIOUS
        <3>6. LiveOf[k] = 0 /\ LiveOf'[k] = x /\ \A c \in Sockets \ {k} : LiveOf'[c] = LiveOf[c]
            BY <3>2, <3>3, <3>4, <3>5 DEF LiveOf
        <3>7. \A c \in Sockets : LiveOf[c] \in Nat /\ LiveOf'[c] \in Nat
            BY <2>1 DEF CountsAreNat
        <3>8. PICK f, g : f = LiveOf /\ g = LiveOf'
            OBVIOUS
        <3>9. /\ SumFunctionOnSet(f, Sockets) \in Nat /\ SumFunctionOnSet(g, Sockets) \in Nat
              /\ SumFunctionOnSet(g, Sockets) + f[k] = SumFunctionOnSet(f, Sockets) + g[k]
            <4>1. /\ \A c \in Sockets : f[c] \in Nat
                  /\ g[k] \in Nat /\ \A c \in Sockets \ {k} : g[c] = f[c]
                BY <3>2, <3>6, <3>7, <3>8
            <4> QED
                BY <3>2, <4>1, SocketsChange
        <3>10. live'.Sent = live.Sent + x
            BY <3>2, <3>5 DEF Plus
        <3>11. live.Sent = SumFunctionOnSet(f, Sockets) /\ f[k] = 0 /\ g[k] = x
            BY <3>6, <3>8 DEF LiveInv
        <3>12. live'.Sent = SumFunctionOnSet(g, Sockets)
            BY SMTT(40), <3>9, <3>10, <3>11
        <3> QED
            BY <3>8, <3>12 DEF LiveInv
    <2>5. CASE Retire \/ Report
        <3>1. UNCHANGED live /\ ~Receive /\ ~HandleRecord
            BY <2>5 DEF Retire, Report, Receive, HandleRecord
        <3> QED
            BY <2>2, <3>1, <2>CountingCases
    <2> QED
        BY <2>2, <2>3, <2>4, <2>5, BytesCases, <2>CountingCases
<1>ClosedStep. ASSUME PollInv, PollInv', VanishInv, BoundInv, ClosedInv, [ProgramNext]_allVars
               PROVE  ClosedInv'
    <2> USE <1>ClosedStep
    \* A socket's bytes settle when it is retired, no more than it has sent.
    <2>SettledGrows. ASSUME PollInv, PollInv', [ProgramNext]_allVars, NEW c \in Sockets
                     PROVE  Settled[c] <= Settled'[c] /\ Settled[c] \in Nat /\ Settled'[c] \in Nat
        <3> USE <2>SettledGrows
        <3>1. /\ ProgramInv /\ TypeInv' /\ SockType' /\ SockType /\ ViewMove
              /\ CountsAreNat /\ CountsAreNat'
            BY CountTypes, CountTypesNext, ViewStep DEF PollInv, ProgramInv
        <3>2. Settled[c] \in Nat /\ Settled'[c] \in Nat
            BY <3>1 DEF CountsAreNat
        <3>3. CASE Dead(c)
            <4>1. Dead(c)' /\ sock'[c] = sock[c]
                BY <3>1, <3>3, DeadStays, KernelAdvances DEF Dead, ViewMove
            <4>2. Settled'[c] = Settled[c]
                BY <3>3, <4>1 DEF Settled
            <4> QED
                BY SMTT(40), <3>2, <4>2
        <3>4. CASE ~Dead(c)
            <4>1. Settled[c] = 0
                BY <3>4 DEF Settled
            <4> QED
                BY SMTT(40), <3>2, <4>1
        <3> QED
            BY <3>3, <3>4
    <2>1. TypeInv /\ TypeInv' /\ ClosingTypeInv /\ CountsAreNat /\ IsFiniteSet(Sockets)
        BY CountTypes DEF PollInv, ProgramInv, ClosingInv
    <2>2. PICK f, g : f = Settled /\ g = Settled'
        OBVIOUS
    <2>3. \A c \in Sockets : f[c] <= g[c] /\ f[c] \in Nat /\ g[c] \in Nat
        BY <2>2, <2>SettledGrows
    <2>4. SumFunctionOnSet(f, Sockets) \in Nat /\ SumFunctionOnSet(g, Sockets) \in Nat
        BY <2>1, <2>3, SumNat
    <2>5. closed.Sent \in Nat /\ closed.Sent <= SumFunctionOnSet(f, Sockets)
        BY <2>2 DEF ClosedInv
    <2>6. CASE UNCHANGED closed
        <3>1. SumFunctionOnSet(f, Sockets) <= SumFunctionOnSet(g, Sockets)
            BY <2>1, <2>3, SumLess
        <3>2. closed.Sent <= SumFunctionOnSet(g, Sockets)
            BY SMTT(40), <2>4, <2>5, <3>1
        <3> QED
            BY <2>2, <2>5, <2>6, <3>2 DEF ClosedInv
    <2>7. CASE Retire /\ UNCHANGED <<sock, collector, buffer>>
        <3>1. PICK k \in DOMAIN residual : CloseBytes(k) /\ ending' = k
            BY <2>7 DEF Retire
        <3>2. Cached(k, residual[k])
            BY DEF Cached
        <3>3. /\ k \in Sockets /\ ~Dead(k) /\ residual[k] \in Record
              /\ GetStats(residual[k]).Sent \in Nat /\ GetStats(residual[k]).Sent <= sock[k].bytes
              /\ sock[k].bytes \in Nat
            BY <3>2, CachedIs
        <3>4. Dead(k)'
            BY <2>1, <2>7, <3>1, RetiredDead
        <3>5. f[k] = 0 /\ g[k] = sock[k].bytes
            BY <2>2, <2>7, <3>3, <3>4 DEF Settled
        <3>6. ASSUME NEW v, closed' = Plus(closed, v), v.Sent \in Nat, v.Sent <= sock[k].bytes
              PROVE  ClosedInv'
            <4>1. PICK x \in Nat : x = v.Sent
                BY <3>6
            <4>2. closed'.Sent = closed.Sent + x
                BY <3>6, <4>1 DEF Plus
            <4>3. PICK h : h = [c \in Sockets |-> IF c = k THEN sock[k].bytes ELSE f[c]]
                OBVIOUS
            <4>4. /\ h[k] = sock[k].bytes /\ h[k] \in Nat /\ \A c \in Sockets \ {k} : h[c] = f[c]
                BY <3>3, <4>3
            <4>5. \A c \in Sockets : h[c] \in Nat /\ g[c] \in Nat /\ h[c] <= g[c]
                <5> TAKE c \in Sockets
                <5>1. CASE c = k
                    BY SMTT(40), <2>3, <3>3, <3>5, <4>4, <5>1
                <5>2. CASE c # k
                    BY <2>3, <4>4, <5>2
                <5> QED
                    BY <5>1, <5>2
            <4>6. /\ SumFunctionOnSet(h, Sockets) \in Nat
                  /\ SumFunctionOnSet(h, Sockets) + f[k] = SumFunctionOnSet(f, Sockets) + h[k]
                BY <2>3, <3>3, <4>4, SocketsChange
            <4>7. SumFunctionOnSet(h, Sockets) <= SumFunctionOnSet(g, Sockets)
                BY <2>1, <4>5, SumLess
            <4>8. x <= h[k]
                BY <3>6, <4>1, <4>4
            <4>9. closed'.Sent \in Nat /\ closed'.Sent <= SumFunctionOnSet(g, Sockets)
                BY SMTT(40), <2>4, <2>5, <3>5, <4>2, <4>4, <4>6, <4>7, <4>8
            <4> QED
                BY <2>2, <4>9 DEF ClosedInv
        <3>7. CASE closed' = Plus(closed, GetStats(residual[k]))
            BY <3>3, <3>6, <3>7
        <3>8. CASE k \in DOMAIN closingStats /\ closed' = Plus(closed, closingStats[k])
            <4>1. closingStats[k].Sent \in Nat /\ closingStats[k].Sent <= sock[k].bytes
                BY <2>1, <3>8 DEF BoundInv, ClosingTypeInv, Counters
            <4> QED
                BY <3>6, <3>8, <4>1
        <3> QED
            BY <2>6, <3>1, <3>7, <3>8 DEF CloseBytes
    <2>8. CASE Receive \/ HandleRecord \/ Report
        BY <2>6, <2>8 DEF Receive, HandleRecord, Report
    <2> QED
        BY <2>6, <2>7, <2>8, BytesCases
<1> QED
    BY <1>BoundStep, <1>LiveStep, <1>ClosedStep DEF CountInv

LEMMA CountInit == ProgramInit => CountInv
<1> SUFFICES ASSUME ProgramInit PROVE CountInv
    OBVIOUS
<1>1. /\ DOMAIN closingStats = {} /\ closed = NoBytes /\ live = NoBytes /\ pc = "recv"
      /\ DOMAIN previous = {} /\ PollInv /\ IsFiniteSet(Sockets)
    BY EmptyMapIs, PollInit DEF ProgramInit, Init, CacheInit
<1>2. \A c \in Sockets : LiveOf[c] = 0 /\ Settled[c] \in Nat
    BY <1>1, CountTypes DEF CountsAreNat, LiveOf, Counting, Handling, Queueing
<1>3. SumFunctionOnSet(LiveOf, Sockets) = 0
    BY <1>1, <1>2, SumZero
<1>4. SumFunctionOnSet(Settled, Sockets) \in Nat
    BY <1>1, <1>2, SumNat
<1>5. live.Sent = 0 /\ closed.Sent = 0
    BY <1>1 DEF NoBytes
<1>6. closed.Sent \in Nat /\ closed.Sent <= SumFunctionOnSet(Settled, Sockets)
    BY SMTT(40), <1>4, <1>5
<1> QED
    BY <1>1, <1>3, <1>5, <1>6 DEF CountInv, BoundInv, LiveInv, ClosedInv

LEMMA CountInvariant ==
    ASSUME ~DumpMayFail
    PROVE  Program => [](PollInv /\ AsideInv /\ CountInv)
<1>1. PollInv /\ PollInv' /\ VanishInv /\ CountInv /\ [ProgramNext]_allVars => CountInv'
    BY CountStep
<1> QED
    BY <1>1, CountInit, ReliableInvariant, AsideInvariant, PTL DEF Program

\* The total of a round is no more than the sockets have sent.
LEMMA TotalWithin ==
    ASSUME PollInv, AsideInv, CountInv, Counted
    PROVE  total.Sent <= BytesSent /\ total.Sent \in Nat
<1>1. PICK s, v, b : /\ s = Settled /\ v = Value /\ b = [c \in Sockets |-> sock[c].bytes]
    OBVIOUS
<1>2. PICK S : S = Sockets
    OBVIOUS
<1>3. PICK h : h = [c \in S |-> s[c] + v[c]]
    OBVIOUS
<1>4. ASSUME NEW c \in S
      PROVE  /\ s[c] \in Nat /\ v[c] \in Nat /\ b[c] \in Nat /\ h[c] = s[c] + v[c]
             /\ h[c] \in Nat /\ h[c] <= b[c]
    <2>1. /\ s[c] \in Nat /\ b[c] \in Nat /\ b[c] = sock[c].bytes
        BY <1>1, <1>2, CountTypes DEF CountsAreNat
    <2>2. v[c] \in Nat /\ v[c] <= b[c] /\ (Dead(c) => v[c] = 0)
        BY <1>1, <1>2, <2>1, ValueTypes DEF ValuesWithin, CountInv
    <2>3. s[c] = IF Dead(c) THEN b[c] ELSE 0
        BY <1>1, <1>2, <2>1 DEF Settled
    <2>4. h[c] = s[c] + v[c]
        BY <1>3
    <2>5. h[c] \in Nat /\ h[c] <= b[c]
        BY SMTT(40), <2>1, <2>2, <2>3, <2>4
    <2> QED
        BY <2>1, <2>2, <2>4, <2>5
<1>5. IsFiniteSet(S)
    BY <1>2
<1>6. SumFunctionOnSet(h, S) = SumFunctionOnSet(s, S) + SumFunctionOnSet(v, S)
    BY SMTT(40), <1>4, <1>5, SumPlus
<1>7. SumFunctionOnSet(h, S) <= SumFunctionOnSet(b, S)
    BY <1>4, <1>5, SumLess
<1>8. SumFunctionOnSet(s, S) \in Nat /\ SumFunctionOnSet(v, S) \in Nat
      /\ SumFunctionOnSet(b, S) \in Nat
    BY <1>4, <1>5, SumNat
<1>9. closed.Sent \in Nat /\ closed.Sent <= SumFunctionOnSet(s, S)
    BY <1>1, <1>2 DEF CountInv, ClosedInv
<1>10. total.Sent = closed.Sent + SumFunctionOnSet(v, S)
    BY <1>1, <1>2, CountedTotal
<1>11. BytesSent = SumFunctionOnSet(b, S)
    BY <1>1, <1>2 DEF BytesSent, SumFunction
<1> QED
    BY SMTT(40), <1>6, <1>7, <1>8, <1>9, <1>10, <1>11

\* Bytes are counted once: where every netlink request is answered in full, the
\* total that a round reports never exceeds what the sockets have sent, although
\* the bytes of a socket move from live to closing to closed in several steps.
THEOREM NoBytesTwice ==
    ASSUME ~DumpMayFail
    PROVE  Program => []BytesCountedOnce
<1>1. PollInv /\ AsideInv /\ CountInv => BytesCountedOnce
    BY TotalWithin DEF BytesCountedOnce
<1> QED
    BY <1>1, CountInvariant, PTL

-----------------------------------------------------------------------------
(* Reports.  Where a closing socket has no attributes at all, what is known  *)
(* of a socket never gets less, from its first record to its retirement.     *)

LEMMA HandledInOrder ==
    ASSUME PollInv, HandleRecord, NEW ar, NEW c \in Sockets,
           c = Head(work).Message.IDM.Cookie, c \in DOMAIN previous, SocketRecord(ar),
           Rank(ar) = Rank(RecordOf(Head(work).Message))
    PROVE  Rank(previous[c]) <= Rank(ar)
<1>1. /\ SocketMap(previous) /\ Ordered /\ TypeInv
    BY DEF PollInv, SourceInv, PipelineInv, ProgramInv
<1>2. Handling /\ Archivable(Head(work).Message) /\ work # <<>> /\ work \in Seq(TimedMessage)
    BY <1>1 DEF HandleRecord, Handling, TypeInv, TypeOK, RoundTypeOK
<1>3. Rank(previous[c]) \in Ranks /\ MapSays(previous, c, Rank(previous[c]))
    BY <1>1, MapRank
<1>4. PICK v, w : v = Rank(previous[c]) /\ w = Rank(ar)
    OBVIOUS
<1>5. TimedSays(work, c, w)
    BY <1>2, <1>4, TimedSaysTail DEF MessageSays
<1>6. PICK i, j : i = -1 /\ j = 0
    OBVIOUS
<1>7. Says(i, c, v) /\ Says(j, c, w)
    BY SMTT(40), <1>2, <1>3, <1>4, <1>5, <1>6 DEF Says, OlderSays, NewerSays
<1>8. i \in Stages /\ j \in Stages /\ i < j
    BY SMTT(40), <1>1, <1>6, ChannelLen DEF Stages
<1>9. w \in 0 .. MaxBytes \/ w = MaxBytes + 1
    BY <1>4 DEF SocketRecord, OpenRecord, ClosingRecord
<1>10. w \in Ranks
    BY SMTT(40), <1>9 DEF Ranks
<1> QED
    BY <1>1, <1>3, <1>4, <1>7, <1>8, <1>10 DEF Ordered

LEMMA WorthGrows ==
    ASSUME ~MarkKept, PollInv, PollInv', CountInv, CountInv', [ProgramNext]_allVars
    PROVE  /\ SumFunctionOnSet(Value, Sockets) \in Nat
           /\ SumFunctionOnSet(Value', Sockets) \in Nat
           /\ closed.Sent + SumFunctionOnSet(Value, Sockets)
                <= closed'.Sent + SumFunctionOnSet(Value', Sockets)
<1>ValueHandle. ASSUME ~MarkKept, PollInv, ValuesWithin, ValuesWithin', HandleRecord
                PROVE  \A c \in Sockets : Value[c] <= Value'[c]
    <2> USE <1>ValueHandle
    <2>1. /\ TypeInv /\ WorkInv /\ DOMAIN residual = {} /\ residual' = residual
          /\ SocketMap(previous)
        BY DEF PollInv, ProgramInv, SourceInv, CacheInv, NothingResidual, HandleRecord
    <2>2. PICK k : k = Head(work).Message.IDM.Cookie
        OBVIOUS
    <2>3. PICK ar : /\ ar \in Record /\ SocketRecord(ar) /\ ar.RawIDM.Cookie = k
                    /\ Rank(ar) = Rank(RecordOf(Head(work).Message))
                    /\ k \in Sockets /\ k \notin DOMAIN current
                    /\ current' = MapPut(current, k, ar) /\ previous' = MapDelete(previous, k)
                    /\ SwapNew(ar) \/ SwapChanged(ar) \/ SwapSame(ar)
        BY <2>1, <2>2, HandledRecord
    <2>4. /\ DOMAIN current' = DOMAIN current \cup {k} /\ current'[k] = ar
          /\ \A c \in DOMAIN current : current'[c] = current[c]
        BY <2>3 DEF MapPut
    <2>5. /\ DOMAIN previous' = DOMAIN previous \ {k}
          /\ \A c \in DOMAIN previous : c # k => previous'[c] = previous[c]
        <3>1. previous' = MapDelete(previous, k)
            BY <2>3
        <3> QED
            BY <3>1 DEF MapDelete, Restrict
    <2>6. \/ k \notin DOMAIN previous /\ UNCHANGED closingStats
          \/ k \in DOMAIN previous /\ SaveClosingStats(ar, previous[k])
        BY <2>3 DEF SwapNew, SwapChanged, SwapSame
    <2>7. \A c \in Sockets : c # k => AsideOf'[c] = AsideOf[c]
        <3>1. CASE UNCHANGED closingStats
            BY <3>1 DEF AsideOf
        <3>2. CASE closingStats' = MapPut(closingStats, k, GetStats(previous[k]))
            BY <3>2 DEF MapPut, AsideOf
        <3> QED
            BY <2>3, <2>6, <3>1, <3>2 DEF SaveClosingStats
    <2>8. ASSUME NEW c \in Sockets, c # k PROVE Value[c] <= Value'[c]
        <3>1. Value'[c] = Value[c]
            BY <2>1, <2>4, <2>5, <2>7, <2>8 DEF Value, Worth
        <3>2. Value[c] \in Nat
            BY DEF ValuesWithin
        <3> QED
            BY SMTT(40), <3>1, <3>2
    <2>9. Value'[k] = IF HasDiagInfo(ar) THEN GetStats(ar).Sent ELSE AsideOf'[k]
        BY <2>3, <2>4 DEF Value, Worth
    <2>10. Value[k] \in Nat /\ Value'[k] \in Nat
        BY <2>3 DEF ValuesWithin
    <2>11. CASE k \notin DOMAIN previous
        <3>1. Value[k] = 0
            BY <2>1, <2>3, <2>11 DEF Value
        <3>2. Value[k] <= Value'[k]
            BY SMTT(40), <2>10, <3>1
        <3> QED
            BY <2>8, <3>2
    <2>12. CASE k \in DOMAIN previous
        <3>1. PICK old : old = previous[k]
            OBVIOUS
        <3>2. Value[k] = IF HasDiagInfo(old) THEN GetStats(old).Sent ELSE AsideOf[k]
            BY <2>3, <2>12, <3>1 DEF Value, Worth
        <3>3. SocketRecord(old)
            BY <2>1, <2>12, <3>1 DEF SocketMap
        <3>4. CASE HasDiagInfo(ar)
            <4>1. OpenRecord(ar)
                BY <2>3, <3>4 DEF SocketRecord, ClosingRecord
            <4>2. HasDiagInfo(old)
                BY <2>2, <2>3, <2>12, <3>1, <3>4, ClosingStays
            <4>3. OpenRecord(old)
                BY <3>3, <4>2 DEF SocketRecord, ClosingRecord
            <4>4. Rank(old) <= Rank(ar)
                BY <2>2, <2>3, <2>12, <3>1, HandledInOrder
            <4>5. Value[k] = Rank(old) /\ Value'[k] = Rank(ar)
                BY <2>9, <3>2, <3>4, <4>1, <4>2, <4>3 DEF OpenRecord
            <4>6. Value[k] <= Value'[k]
                BY <4>4, <4>5
            <4> QED
                BY <2>8, <4>6
        <3>5. CASE ~HasDiagInfo(ar)
            <4>1. Value'[k] = Value[k]
                <5>1. Value'[k] = AsideOf'[k]
                    BY <2>9, <3>5
                <5>2. CASE HasDiagInfo(old)
                    <6>1. closingStats' = MapPut(closingStats, k, GetStats(old))
                        BY <2>3, <2>6, <2>12, <3>1, <3>5, <5>2 DEF SaveClosingStats
                    <6>2. AsideOf'[k] = GetStats(old).Sent
                        BY <2>3, <6>1 DEF MapPut, AsideOf
                    <6> QED
                        BY <3>2, <5>1, <5>2, <6>2
                <5>3. CASE ~HasDiagInfo(old)
                    <6>1. UNCHANGED closingStats
                        BY <2>6, <2>12, <3>1, <5>3 DEF SaveClosingStats
                    <6> QED
                        BY <2>3, <3>2, <5>1, <5>3, <6>1 DEF AsideOf
                <5> QED
                    BY <5>2, <5>3
            <4>2. Value[k] <= Value'[k]
                BY SMTT(40), <2>10, <4>1
            <4> QED
                BY <2>8, <4>2
        <3> QED
            BY <3>4, <3>5
    <2> QED
        BY <2>11, <2>12
\* What a retired connection was worth moves to closed.
<1>ValueRetire. ASSUME PollInv, BoundInv, ValuesWithin, closed.Sent \in Nat, Retire
                PROVE  closed.Sent + SumFunctionOnSet(Value, Sockets)
                         = closed'.Sent + SumFunctionOnSet(Value', Sockets)
    <2> USE <1>ValueRetire
    <2>1. /\ GenerationInv /\ ClosingTypeInv /\ UNCHANGED <<current, previous>>
        BY DEF PollInv, ClosingInv, Retire
    <2>2. PICK k \in DOMAIN residual : CloseBytes(k) /\ residual' = MapDelete(residual, k)
        BY DEF Retire
    <2>3. PICK r : r = residual[k]
        OBVIOUS
    <2>4. k \in Sockets
        BY <2>3, CachedIs DEF Cached
    <2>5. k \notin DOMAIN current /\ k \notin DOMAIN previous
        BY <2>1 DEF GenerationInv
    <2>6. /\ DOMAIN residual' = DOMAIN residual \ {k}
          /\ \A c \in DOMAIN residual : c # k => residual'[c] = residual[c]
        <3>1. residual' = MapDelete(residual, k)
            BY <2>2
        <3> QED
            BY <3>1 DEF MapDelete, Restrict
    <2>7. \A c \in Sockets : c # k => AsideOf'[c] = AsideOf[c]
        <3>1. CASE UNCHANGED closingStats
            BY <3>1 DEF AsideOf
        <3>2. CASE closingStats' = MapDelete(closingStats, k)
            BY <3>2 DEF MapDelete, Restrict, AsideOf
        <3> QED
            BY <2>2, <3>1, <3>2 DEF CloseBytes
    <2>8. PICK f, g : f = Value /\ g = Value'
        OBVIOUS
    <2>9. ASSUME NEW c \in Sockets, c # k PROVE g[c] = f[c]
        BY <2>1, <2>6, <2>7, <2>8, <2>9 DEF Value, Worth
    <2>10. g[k] = 0 /\ f[k] = Worth(k, r)
        BY <2>1, <2>3, <2>4, <2>5, <2>6, <2>8 DEF Value
    <2>11. closed'.Sent = closed.Sent + f[k]
        <3>1. CASE HasDiagInfo(r)
            <4>1. closed' = Plus(closed, GetStats(r)) /\ f[k] = GetStats(r).Sent
                BY <2>2, <2>3, <2>10, <3>1 DEF CloseBytes, Worth
            <4> QED
                BY <4>1 DEF Plus
        <3>2. CASE ~HasDiagInfo(r) /\ k \in DOMAIN closingStats
            <4>1. closed' = Plus(closed, closingStats[k])
                BY <2>2, <2>3, <3>2 DEF CloseBytes
            <4>2. f[k] = closingStats[k].Sent
                BY <2>4, <2>10, <3>2 DEF Worth, AsideOf
            <4> QED
                BY <4>1, <4>2 DEF Plus
        <3>3. CASE ~HasDiagInfo(r) /\ k \notin DOMAIN closingStats
            <4>1. UNCHANGED closed
                BY <2>2, <2>3, <3>3 DEF CloseBytes
            <4>2. f[k] = 0
                BY <2>4, <2>10, <3>3 DEF Worth, AsideOf
            <4> QED
                BY SMTT(40), <4>1, <4>2
        <3> QED
            BY <3>1, <3>2, <3>3
    <2>12. /\ \A c \in Sockets : f[c] \in Nat
           /\ g[k] \in Nat /\ \A c \in Sockets \ {k} : g[c] = f[c]
        <3>1. \A c \in Sockets : f[c] \in Nat
            BY <2>8 DEF ValuesWithin
        <3>2. g[k] \in Nat
            BY SMTT(40), <2>10
        <3> QED
            BY <2>9, <3>1, <3>2
    <2>13. /\ SumFunctionOnSet(f, Sockets) \in Nat /\ SumFunctionOnSet(g, Sockets) \in Nat
           /\ SumFunctionOnSet(g, Sockets) + f[k] = SumFunctionOnSet(f, Sockets) + g[k]
        BY <2>4, <2>12, SocketsChange
    <2>14. f[k] \in Nat
        BY <2>4, <2>12
    <2>15. closed.Sent + SumFunctionOnSet(f, Sockets) = closed'.Sent + SumFunctionOnSet(g, Sockets)
        BY SMTT(40), <2>10, <2>11, <2>13, <2>14
    <2> QED
        BY <2>8, <2>15
<1>1. /\ ValuesWithin /\ ValuesWithin' /\ IsFiniteSet(Sockets)
      /\ closed.Sent \in Nat /\ closed'.Sent \in Nat /\ BoundInv
    BY ValueTypes, ValueTypesNext DEF CountInv, ClosedInv
<1>2. PICK f, g : f = Value /\ g = Value'
    OBVIOUS
<1>3. \A c \in Sockets : f[c] \in Nat /\ g[c] \in Nat
    BY <1>1, <1>2 DEF ValuesWithin
<1>4. SumFunctionOnSet(f, Sockets) \in Nat /\ SumFunctionOnSet(g, Sockets) \in Nat
    BY <1>1, <1>3, SumNat
<1>5. ASSUME UNCHANGED closed, \A c \in Sockets : f[c] <= g[c]
      PROVE  closed.Sent + SumFunctionOnSet(f, Sockets)
               <= closed'.Sent + SumFunctionOnSet(g, Sockets)
    <2>1. SumFunctionOnSet(f, Sockets) <= SumFunctionOnSet(g, Sockets)
        BY <1>1, <1>3, <1>5, SumLess
    <2> QED
        BY SMTT(40), <1>1, <1>4, <1>5, <2>1
<1>6. ASSUME UNCHANGED closed, g = f
      PROVE  closed.Sent + SumFunctionOnSet(f, Sockets)
               <= closed'.Sent + SumFunctionOnSet(g, Sockets)
    BY SMTT(40), <1>1, <1>4, <1>6
<1>7. CASE UNCHANGED <<closed, closingStats, current, previous, residual>>
    <2>1. g = f
        BY <1>2, <1>7 DEF Value, Worth, AsideOf
    <2> QED
        BY <1>2, <1>4, <1>6, <1>7, <2>1
<1>8. CASE HandleRecord
    <2>1. UNCHANGED closed
        BY <1>8 DEF HandleRecord
    <2>2. \A c \in Sockets : f[c] <= g[c]
        BY <1>1, <1>2, <1>8, <1>ValueHandle
    <2> QED
        BY <1>2, <1>4, <1>5, <2>1, <2>2
<1>9. CASE Retire
    <2>1. closed.Sent + SumFunctionOnSet(f, Sockets) = closed'.Sent + SumFunctionOnSet(g, Sockets)
        BY <1>1, <1>2, <1>9, <1>ValueRetire
    <2>2. closed.Sent + SumFunctionOnSet(f, Sockets) <= closed'.Sent + SumFunctionOnSet(g, Sockets)
        BY SMTT(40), <1>1, <1>4, <2>1
    <2> QED
        BY <1>2, <1>4, <2>2
<1>10. CASE FinishRound
    <2>1. /\ residual' = previous /\ previous' = current /\ current' = EmptyMap
          /\ UNCHANGED <<closed, closingStats>>
          /\ DOMAIN residual = {} /\ DOMAIN current \cap DOMAIN previous = {}
        BY <1>10 DEF FinishRound, EndCycle, PollInv, CacheInv, NothingResidual, GenerationInv
    <2>2. AsideOf' = AsideOf
        BY <2>1 DEF AsideOf
    <2>3. ASSUME NEW c \in Sockets PROVE Value'[c] = Value[c]
        BY <2>1, <2>2, EmptyMapIs DEF Value, Worth
    <2>4. g = f
        BY <1>2, <2>3 DEF Value
    <2> QED
        BY <1>2, <1>4, <1>6, <2>1, <2>4
<1>11. CASE UNCHANGED <<closed, closingStats>>
    <2>1. UNCHANGED <<current, previous, residual>> \/ RoundStep
        BY ProgramCases DEF Quiet
    <2>2. CASE Receive \/ SkipMessage
        BY <1>7, <1>11, <2>2 DEF Receive, SkipMessage
    <2> QED
        BY <1>7, <1>8, <1>9, <1>10, <1>11, <2>1, <2>2 DEF RoundStep
<1>12. CASE Receive \/ Report
    BY <1>11, <1>12 DEF Receive, Report
<1> QED
    BY <1>8, <1>9, <1>11, <1>12, BytesCases

\* No more has been reported than what is known to have been sent.
ReportInv ==
    /\ reported.Sent \in Nat
    /\ reported.Sent <= closed.Sent + SumFunctionOnSet(Value, Sockets)

LEMMA ReportStep ==
    ASSUME ~MarkKept, PollInv, PollInv', AsideInv, CountInv, CountInv', ReportInv,
           [ProgramNext]_allVars
    PROVE  ReportInv'
<1>1. PICK a, b : /\ a = closed.Sent + SumFunctionOnSet(Value, Sockets)
                  /\ b = closed'.Sent + SumFunctionOnSet(Value', Sockets)
    OBVIOUS
<1>2. a \in Nat /\ b \in Nat /\ a <= b
    <2>1. closed.Sent \in Nat /\ closed'.Sent \in Nat
        BY DEF CountInv, ClosedInv
    <2>2. /\ SumFunctionOnSet(Value, Sockets) \in Nat /\ SumFunctionOnSet(Value', Sockets) \in Nat
          /\ a <= b
        BY <1>1, WorthGrows
    <2> QED
        BY SMTT(40), <1>1, <2>1, <2>2
<1>3. reported.Sent \in Nat /\ reported.Sent <= a
    BY <1>1 DEF ReportInv
<1>4. ASSUME reported'.Sent = reported.Sent \/ reported'.Sent = a PROVE ReportInv'
    <2>1. reported'.Sent \in Nat /\ reported'.Sent <= b
        BY SMTT(40), <1>2, <1>3, <1>4
    <2> QED
        BY <1>1, <2>1 DEF ReportInv
<1>5. CASE UNCHANGED repVars
    BY <1>4, <1>5
<1>6. CASE Report
    <2>1. total.Sent = a
        BY <1>1, <1>6, CountedTotal DEF Report, Counted
    <2>2. CASE blockTime > lastReportTime
        <3>1. reported'.Sent = IF Credible(total.Sent, reported.Sent) THEN total.Sent
                               ELSE reported.Sent
            BY SMTT(40), <1>6, <2>2 DEF Report
        <3> QED
            BY <1>4, <2>1, <3>1
    <2>3. CASE ~(blockTime > lastReportTime)
        BY <1>5, <1>6, <2>3 DEF Report
    <2> QED
        BY <2>2, <2>3
<1>7. CASE Receive \/ HandleRecord \/ Retire
    BY <1>5, <1>7 DEF Receive, HandleRecord, Retire
<1> QED
    BY <1>5, <1>6, <1>7, BytesCases

LEMMA ReportInit == ProgramInit => ReportInv
<1> SUFFICES ASSUME ProgramInit PROVE ReportInv
    OBVIOUS
<1>1. PollInv /\ CountInv /\ reported.Sent = 0 /\ IsFiniteSet(Sockets)
    BY PollInit, CountInit DEF ProgramInit, Init, NoBytes
<1>2. \A c \in Sockets : Value[c] \in Nat
    BY <1>1, ValueTypes DEF CountInv, ValuesWithin
<1>3. SumFunctionOnSet(Value, Sockets) \in Nat
    BY <1>1, <1>2, SumNat
<1>4. closed.Sent \in Nat
    BY <1>1 DEF CountInv, ClosedInv
<1>5. reported.Sent \in Nat /\ reported.Sent <= closed.Sent + SumFunctionOnSet(Value, Sockets)
    BY SMTT(40), <1>1, <1>3, <1>4
<1> QED
    BY <1>5 DEF ReportInv

\* Every second is reported: where every netlink request is answered in full, a
\* closing socket has no attributes and all the sockets together do not send
\* more than a report is believed for, each round that begins a new second adds
\* one observation to the histogram of bytes sent.
THEOREM EverySecondReported ==
    ASSUME ~DumpMayFail, ~MarkKept, SumFunction([c \in Sockets |-> MaxBytes]) <= ReportLimit
    PROVE  Program => ReportsEverySecond
<1>1. ~MarkKept => (PollInv /\ PollInv' /\ AsideInv /\ CountInv /\ CountInv' /\ ReportInv
                      /\ [ProgramNext]_allVars => ReportInv')
    BY ReportStep
<1>2. SumFunction([c \in Sockets |-> MaxBytes]) <= ReportLimit =>
        (PollInv /\ AsideInv /\ CountInv /\ ReportInv /\ [ProgramNext]_allVars =>
            [lastReportTime' # lastReportTime => reports'.Sent = reports.Sent + 1]_allVars)
    <2> SUFFICES ASSUME SumFunction([c \in Sockets |-> MaxBytes]) <= ReportLimit,
                        PollInv, AsideInv, CountInv, ReportInv, [ProgramNext]_allVars,
                        lastReportTime' # lastReportTime
                 PROVE  reports'.Sent = reports.Sent + 1
        OBVIOUS
    <2>1. Report /\ Counted /\ lastReportTime' # lastReportTime
        <3>1. Report
            BY BytesCases DEF Receive, HandleRecord, Retire
        <3> QED
            BY <3>1 DEF Report, Counted
    <2>2. reports'.Sent = reports.Sent + (IF Credible(total.Sent, reported.Sent) THEN 1 ELSE 0)
        <3>1. blockTime > lastReportTime
            BY <2>1 DEF Report
        <3> QED
            BY SMTT(40), <2>1, <3>1 DEF Report
    <2>3. /\ total.Sent <= BytesSent /\ total.Sent \in Nat
          /\ total.Sent = closed.Sent + SumFunctionOnSet(Value, Sockets)
        BY <2>1, TotalWithin, CountedTotal
    <2>4. reported.Sent \in Nat /\ reported.Sent <= total.Sent
        BY <2>3 DEF ReportInv
    <2>5. PICK b, m : b = [c \in Sockets |-> sock[c].bytes] /\ m = [c \in Sockets |-> MaxBytes]
        OBVIOUS
    <2>6. \A c \in Sockets : b[c] \in Nat /\ m[c] \in Nat /\ b[c] <= m[c]
        BY SMTT(40), <2>5 DEF PollInv, ProgramInv, SockType
    <2>7. /\ BytesSent = SumFunctionOnSet(b, Sockets)
          /\ SumFunctionOnSet(m, Sockets) <= ReportLimit
        BY <2>5 DEF BytesSent, SumFunction
    <2>8. /\ SumFunctionOnSet(b, Sockets) <= SumFunctionOnSet(m, Sockets)
          /\ SumFunctionOnSet(b, Sockets) \in Nat /\ SumFunctionOnSet(m, Sockets) \in Nat
        BY <2>6, SumLess, SumNat
    <2>9. Credible(total.Sent, reported.Sent)
        BY SMTT(40), <2>3, <2>4, <2>7, <2>8 DEF Credible
    <2> QED
        BY <2>2, <2>9
<1>3. Program => [](PollInv /\ AsideInv /\ CountInv)
    BY CountInvariant
<1> QED
    BY <1>1, <1>2, <1>3, ReportInit, PTL DEF Program, ReportsEverySecond

=============================================================================
