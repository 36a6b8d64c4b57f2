---------------------------- MODULE SystemProofs ----------------------------
(***************************************************************************)
(* The program with its event server and the clients: what the saver tells *)
(* the server and what a client hears of it, from the invariants of the    *)
(* two, for every number of sockets, rounds and clients and every capacity *)
(* of the channels.                                                        *)
(***************************************************************************)
EXTENDS LifecycleProofs, ProgramProofs, System

\* Leaves are for Zenon, unless they cite another prover.
USE ZenonT(40)
USE SaverAssumption, TcpInfoAssumption
USE DEF envVars, cacheVars, connVars, byteVars, repVars, roundVars, exitVars,
        loopVars, frameVars, kernelVars, collectorVars, serverVars

\* What is proved of the server.
S == INSTANCE EventSocketProofs WITH pc <- server, conn <- peer, buffer <- line

USE DEF E!chanVars, E!sendVars, E!peerVars, E!lineVars, E!worldVars, E!eventVars,
        S!chanVars, S!sendVars, S!peerVars, S!lineVars, S!worldVars, S!eventVars

-----------------------------------------------------------------------------
(* The steps of the server are those the proofs are about. *)

LEMMA SameInit == E!EventInit => S!EventInit
    BY DEF E!EventInit, S!EventInit

LEMMA SameListen == E!Listen => S!Listen
    BY DEF E!Listen, S!Listen, E!Goto, S!Goto

LEMMA SameFlow == E!Flow => S!Flow
    BY DEF E!Flow, S!Flow

LEMMA SameServe == E!Serve => S!Serve
    BY DEF E!Serve, S!Serve, E!ServeStart, S!ServeStart, E!Loop, S!Loop, E!Accept, S!Accept,
           E!addClient, S!addClient, E!Goto, S!Goto, E!Listening, S!Listening,
           E!MutexFree, S!MutexFree, E!broadcast, S!broadcast

LEMMA SameNotify == E!notifyClients => S!notifyClients
    BY DEF E!notifyClients, S!notifyClients, E!NotifyStart, S!NotifyStart, E!Loop, S!Loop,
           E!NotifyReceive, S!NotifyReceive, E!NotifyLock, S!NotifyLock,
           E!NotifyWrite, S!NotifyWrite, E!Write, S!Write, E!WriteFails, S!WriteFails,
           E!NotifyUnlock, S!NotifyUnlock, E!Goto, S!Goto, E!clients, S!clients

LEMMA SameClient ==
    ASSUME NEW c \in Clients
    PROVE  (E!Dial(c) => S!Dial(c)) /\ (E!Handle(c) => S!Handle(c))
    BY DEF E!Dial, S!Dial, E!Handle, S!Handle, E!Listening, S!Listening

-----------------------------------------------------------------------------
(* The events of the saver. *)

\* A step of the program calls FlowCreated or FlowDeleted at most once.
LEMMA EventsGrow ==
    ASSUME [ProgramNext]_allVars, events' # events
    PROVE  \E e : events' = Append(events, e)
<1>1. SaverStep
    BY FileCases DEF MarshalClose
<1>2. QueueLookup \/ Retire \/ CloseConn
    BY <1>1 DEF SaverStep, Receive, SkipMessage, HandleRecord, FinishRound, Report,
                SwapNew, SwapChanged, SwapSame, QueueReject, QueueExpire, Rotate,
                QueueKeep, RotateFails, QueueSend, CloseBegin, CloseEnd, EndRetired, EndClosed
<1> QED
    BY <1>2 DEF QueueLookup, Retire, CloseConn, FlowCreated, FlowDeleted

LEMMA EventsStep == ProgramInv /\ EventInv /\ [ProgramNext]_allVars => EventInv'
<1> SUFFICES ASSUME ProgramInv, EventInv, [ProgramNext]_allVars PROVE EventInv'
    OBVIOUS
<1>1. CASE Submit
    BY <1>1, EventFrame DEF Submit
<1>2. CASE [Next]_vars
    BY <1>2, EventStep DEF ProgramInv
<1> QED
    BY <1>1, <1>2, StepOfSaver

-----------------------------------------------------------------------------
(* The two together.  main never cancels the context, and no client leaves:  *)
(* no event is refused, and the server has been given all there are.         *)

SystemInv ==
    /\ S!ServerInv
    /\ ~crashed /\ ~eventClosed /\ ~cancelled /\ gone = {}
    /\ \A c \in Clients : peer[c] # "removed"
    /\ flows = Len(events)

LEMMA SystemInitInv == SystemInit => SystemInv
<1> SUFFICES ASSUME SystemInit PROVE SystemInv
    OBVIOUS
<1>1. S!EventInit /\ events = <<>>
    BY SameInit DEF SystemInit, ProgramInit, Init
<1>2. S!ServerInv
    BY <1>1, SystemAssumption, S!ServerInit
<1>3. ~crashed /\ ~eventClosed /\ ~cancelled /\ gone = {} /\ flows = 0
    BY <1>1 DEF S!EventInit
<1>4. \A c \in Clients : peer[c] # "removed"
    BY <1>1 DEF S!EventInit
<1>5. Len(events) = 0
    BY SMTT(40), <1>1
<1> QED
    BY <1>2, <1>3, <1>4, <1>5 DEF SystemInv

LEMMA SystemProgram == [SystemNext]_systemVars => [ProgramNext]_allVars
    BY DEF SystemNext, systemVars, Listen, InProgram, ServerStep, InServer, ClientStep, Handle,
           Exited

\* What a step is to the server: a step of its own, or the call that the step
\* of the program makes.
LEMMA SystemCases ==
    ASSUME [SystemNext]_systemVars
    PROVE  \/ UNCHANGED serverVars /\ UNCHANGED events
           \/ S!Flow /\ events' # events
           \/ /\ UNCHANGED events
              /\ \/ S!Listen \/ S!Serve \/ S!notifyClients
                 \/ \E c \in Clients : S!Dial(c) \/ S!Handle(c)
<1>1. CASE UNCHANGED systemVars
    BY <1>1 DEF systemVars, allVars, vars
<1>2. ASSUME UNCHANGED allVars PROVE UNCHANGED events
    BY <1>2 DEF allVars, vars
<1>3. CASE Listen
    BY <1>2, <1>3, SameListen DEF Listen
<1>4. CASE InProgram(ProgramNext)
    BY <1>4, SameFlow DEF InProgram
<1>5. CASE ServerStep
    BY <1>2, <1>5, SameServe, SameNotify DEF ServerStep, InServer
<1>6. CASE \E c \in Clients : ClientStep(c)
    BY <1>2, <1>6, SameClient DEF ClientStep, Handle, InServer
<1> QED
    BY <1>1, <1>3, <1>4, <1>5, <1>6 DEF SystemNext, Exited

LEMMA SystemServer ==
    ASSUME SystemInv, [SystemNext]_systemVars
    PROVE  [S!EventNext]_(S!eventVars)
    BY SystemCases DEF SystemInv, S!EventNext

LEMMA SystemStep ==
    ProgramInv /\ SystemInv /\ [SystemNext]_systemVars => SystemInv'
<1> SUFFICES ASSUME ProgramInv, SystemInv, [SystemNext]_systemVars PROVE SystemInv'
    OBVIOUS
<1>1. S!ServerInv'
    BY SystemServer, SystemAssumption, S!ServerStep DEF SystemInv
<1>2. ~crashed' /\ ~eventClosed' /\ ~cancelled' /\ gone' = {}
    <2>1. ~crashed /\ ~eventClosed /\ ~cancelled /\ gone = {}
        BY DEF SystemInv
    <2>2. CASE S!Flow
        <3>1. UNCHANGED crashed
            BY <2>1, <2>2 DEF S!Flow
        <3> QED
            BY <2>1, <2>2, <3>1 DEF S!Flow
    <2>3. CASE UNCHANGED <<crashed, eventClosed, cancelled, gone>>
        BY <2>1, <2>3
    <2>4. CASE S!Listen \/ \E c \in Clients : S!Dial(c) \/ S!Handle(c)
        BY <2>3, <2>4 DEF S!Listen, S!Dial, S!Handle
    <2>5. CASE S!Serve
        BY <2>3, <2>5 DEF S!Serve, S!ServeStart, S!Loop, S!Accept, S!addClient
    <2>6. CASE S!notifyClients
        BY <2>3, <2>6 DEF S!notifyClients, S!NotifyStart, S!Loop, S!NotifyReceive,
                          S!NotifyLock, S!NotifyWrite, S!NotifyUnlock
    <2> QED
        BY <2>2, <2>3, <2>4, <2>5, <2>6, SystemCases
<1>3. \A c \in Clients : peer'[c] # "removed"
    <2>1. peer \in [Clients -> {"none", "backlog", "accepted", "refused", "client", "removed"}]
        BY DEF SystemInv, S!ServerInv, S!ServerTypeInv
    <2>2. CASE UNCHANGED peer
        BY <2>2 DEF SystemInv
    <2>3. CASE \E c \in Clients : S!Dial(c)
        BY <2>1, <2>3 DEF S!Dial, SystemInv
    <2>4. CASE S!Accept \/ S!addClient
        BY <2>1, <2>4 DEF S!Accept, S!addClient, SystemInv
    <2>5. CASE S!Flow \/ S!Listen \/ S!ServeStart \/ S!Loop("serve", "accept")
                 \/ \E c \in Clients : S!Handle(c)
        BY <2>2, <2>5 DEF S!Flow, S!Listen, S!ServeStart, S!Loop, S!Handle
    <2>6. CASE S!notifyClients
        BY <2>2, <2>6 DEF S!notifyClients, S!NotifyStart, S!Loop, S!NotifyReceive,
                          S!NotifyLock, S!NotifyWrite, S!NotifyUnlock
    <2> QED
        BY <2>2, <2>3, <2>4, <2>5, <2>6, SystemCases DEF S!Serve
<1>4. flows' = Len(events')
    <2>1. CASE S!Flow /\ events' # events
        <3>1. PICK e : events' = Append(events, e)
            BY <2>1, SystemProgram, EventsGrow
        <3>2. events \in Seq(Event)
            BY EventsSeq DEF ProgramInv
        <3>3. Len(events') = Len(events) + 1
            BY SMTT(40), <3>1, <3>2
        <3> QED
            BY <2>1, <3>3 DEF S!Flow, SystemInv
    <2>2. CASE UNCHANGED events /\ (UNCHANGED serverVars \/ S!Listen
                                      \/ \E c \in Clients : S!Dial(c) \/ S!Handle(c))
        BY <2>2 DEF S!Listen, S!Dial, S!Handle, SystemInv
    <2>3. CASE UNCHANGED events /\ S!Serve
        BY <2>3 DEF S!Serve, S!ServeStart, S!Loop, S!Accept, S!addClient, SystemInv
    <2>4. CASE UNCHANGED events /\ S!notifyClients
        BY <2>4 DEF S!notifyClients, S!NotifyStart, S!Loop, S!NotifyReceive, S!NotifyLock,
                    S!NotifyWrite, S!NotifyUnlock, SystemInv
    <2> QED
        BY <2>1, <2>2, <2>3, <2>4, SystemCases
<1> QED
    BY <1>1, <1>2, <1>3, <1>4 DEF SystemInv

-----------------------------------------------------------------------------
(* What a client hears. *)

\* A client has been told of consecutive events of the saver.
LEMMA HeardInOrder ==
    ASSUME ProgramInv, SystemInv, NEW c \in Clients
    PROVE  \E j \in Nat : \A i \in DOMAIN handled[c] :
               handled[c][i] = j + i /\ j + i \in 1 .. Len(events)
<1>1. S!ServerInv /\ ~crashed /\ gone = {} /\ peer[c] # "removed" /\ flows = Len(events)
    BY DEF SystemInv
<1>2. CASE peer[c] = "client"
    <2>1. c \in S!clients \ gone
        BY <1>1, <1>2 DEF S!clients
    <2>2. \A i \in DOMAIN handled[c] :
              handled[c][i] = joined[c] + i /\ (~crashed => joined[c] + i \in 1 .. flows)
        BY <1>1, <2>1, SystemAssumption, S!HandledConsecutive
    <2>3. joined[c] \in Nat
        BY <1>1 DEF S!ServerInv, S!ServerTypeInv
    <2> QED
        BY <1>1, <2>2, <2>3
<1>3. CASE peer[c] # "client"
    <2>1. S!Waiting(c)
        BY <1>1, <1>3 DEF S!Waiting, S!ServerInv, S!ServerTypeInv
    <2>2. handled[c] = <<>>
        BY <1>1, <2>1 DEF S!ServerInv, S!ClientsInOrder
    <2>3. DOMAIN handled[c] = {} /\ 0 \in Nat
        BY SMTT(40), <2>2
    <2> QED
        BY <2>3
<1> QED
    BY <1>2, <1>3

\* An Open that is not the first event of its cookie follows a Close, after any
\* earlier event k of that cookie that is an Open.
LEMMA CloseBetween ==
    ASSUME TypeInv, NoDoubleOpen, NEW k \in DOMAIN events, NEW n \in DOMAIN events, k < n,
           events[k] = events[n], events[n].Event = "Open"
    PROVE  \E m \in k + 1 .. n - 1 :
               events[m] = [Event |-> "Close", Cookie |-> events[n].Cookie]
<1>1. /\ DOMAIN events = 1 .. Len(events) /\ Len(events) \in Nat
      /\ \A i \in DOMAIN events : events[i] \in Event
    <2>1. events \in Seq(Event) /\ DOMAIN events = 1 .. Len(events) /\ Len(events) \in Nat
        BY EventsSeq
    <2> QED
        BY SMTT(40), <2>1
<1>2. k \in Nat /\ n \in Nat /\ k \in 1 .. n - 1
    BY SMTT(40), <1>1
<1>3. PICK T : T = Earlier(n)
    OBVIOUS
<1>4. T = {i \in 1 .. n - 1 : events[i].Cookie = events[n].Cookie} /\ k \in T
    BY <1>2, <1>3 DEF Earlier
<1>5. events[Max(T)].Event = "Close"
    BY <1>3, <1>4 DEF NoDoubleOpen
<1>6. Max(T) \in T /\ Max(T) >= k
    <2>1. T \subseteq 0 .. n /\ T # {}
        BY SMTT(40), <1>2, <1>4
    <2> QED
        BY <1>2, <1>4, <2>1, MaxOfBounded
<1>7. PICK m : m = Max(T)
    OBVIOUS
<1>8. m \in 1 .. n - 1 /\ events[m].Cookie = events[n].Cookie /\ events[m].Event = "Close"
    BY <1>4, <1>5, <1>6, <1>7
<1>9. m # k
    BY <1>8
<1>10. m \in k + 1 .. n - 1 /\ m \in DOMAIN events
    BY SMTT(40), <1>1, <1>2, <1>6, <1>7, <1>8, <1>9
<1>11. events[m] = [Event |-> "Close", Cookie |-> events[n].Cookie]
    BY SMTT(40), <1>1, <1>8, <1>10 DEF Event
<1> QED
    BY <1>10, <1>11

LEMMA PairsSeen == ProgramInv /\ EventInv /\ SystemInv => ClientSeesPairs
<1> SUFFICES ASSUME ProgramInv, EventInv, SystemInv, NEW c \in Clients,
                    NEW i \in DOMAIN handled[c], NEW k \in DOMAIN handled[c], i < k,
                    events[handled[c][i]] = events[handled[c][k]],
                    events[handled[c][i]].Event = "Open"
             PROVE  \E j \in i + 1 .. k - 1 :
                        events[handled[c][j]]
                          = [Event |-> "Close", Cookie |-> events[handled[c][i]].Cookie]
    BY DEF ClientSeesPairs
<1>1. PICK b \in Nat : \A h \in DOMAIN handled[c] :
          handled[c][h] = b + h /\ b + h \in 1 .. Len(events)
    BY HeardInOrder
<1>2. TypeInv /\ NoDoubleOpen /\ DOMAIN events = 1 .. Len(events)
    BY EventsSeq DEF ProgramInv, EventInv
<1>3. handled[c] \in Seq(Nat)
    BY DEF SystemInv, S!ServerInv, S!ServerTypeInv
<1>4. i \in Nat /\ k \in Nat /\ b + i < b + k
    BY SMTT(40), <1>1, <1>3
<1>5. /\ b + i \in DOMAIN events /\ b + k \in DOMAIN events
      /\ events[b + i] = events[b + k] /\ events[b + k].Event = "Open"
    <2>1. handled[c][i] = b + i /\ b + i \in 1 .. Len(events)
        BY <1>1
    <2>2. handled[c][k] = b + k /\ b + k \in 1 .. Len(events)
        BY <1>1
    <2> QED
        BY <1>2, <2>1, <2>2
<1>6. PICK m \in (b + i) + 1 .. (b + k) - 1 :
          events[m] = [Event |-> "Close", Cookie |-> events[b + k].Cookie]
    BY <1>2, <1>4, <1>5, CloseBetween
<1>7. /\ m - b \in i + 1 .. k - 1 /\ b + (m - b) = m
      /\ m - b \in DOMAIN handled[c]
    <2>1. DOMAIN handled[c] = 1 .. Len(handled[c]) /\ Len(handled[c]) \in Nat
        BY <1>3, SeqLen
    <2>2. PICK l \in Nat : l = Len(handled[c])
        BY <2>1
    <2>3. i \in 1 .. l /\ k \in 1 .. l
        BY <2>1, <2>2
    <2>4. m - b \in 1 .. l /\ m - b \in i + 1 .. k - 1 /\ b + (m - b) = m
        BY SMTT(40), <1>4, <1>6, <2>3
    <2> QED
        BY <2>1, <2>2, <2>4
<1>8. handled[c][m - b] = m
    BY <1>1, <1>7
<1> QED
    BY <1>1, <1>5, <1>6, <1>7, <1>8

\* tcp-info with its event server is still the program: the calls of the event
\* server delay the saver and change nothing else.
THEOREM SystemImplementsProgram == System => Program
<1>1. SystemInit => ProgramInit
    BY DEF SystemInit
<1> QED
    BY <1>1, SystemProgram, PTL DEF System, Program

\* tcp-info as a whole implements the saver with an arbitrary collector, as long
\* as Blocks, MaxLag and MaxBlocks allow for all that this collector may send:
\* so what is proved of the saver holds of it.
THEOREM SystemImplementsSpec ==
    ASSUME Collected \subseteq Blocks, MaxTime <= MaxLag, Reps <= MaxBlocks
    PROVE  System => Spec
<1>1. Program => Spec
    BY ProgramImplementsSpec
<1> QED
    BY <1>1, SystemImplementsProgram, PTL

\* A client that stays connected never sees a connection open twice without a
\* Close in between, whenever it joins and however small the channels between
\* the saver, the server and the client are.
THEOREM ClientsSeePairs == System => []ClientSeesPairs
<1>1. SystemInit => EventInv
    BY EventInit DEF SystemInit, ProgramInit
<1>2. Program => []ProgramInv
    BY ProgramInvariant
<1>3. System => Program
    BY SystemImplementsProgram
<1> QED
    BY <1>1, <1>2, <1>3, SystemInitInv, SystemProgram, EventsStep, SystemStep, PairsSeen, PTL
       DEF System

=============================================================================
