------------------------------- MODULE System -------------------------------
(***************************************************************************)
(* tcp-info with -tcpinfo.eventsocket: main, the program of TcpInfo and    *)
(* the event server of EventSocket in one process, and the clients of the  *)
(* server, which run cmd/example-eventsocket-client.  The saver's calls of *)
(* FlowCreated and FlowDeleted are the Flow steps of the server: the n-th  *)
(* element of events is its event n, and the saver waits while eventC is   *)
(* full.  main never cancels the context while the program runs.           *)
(***************************************************************************)
EXTENDS TcpInfo

CONSTANTS Clients, EventCap, BufferCap, MaxEvents   \* of EventSocket

ASSUME SystemAssumption ==
    EventCap \in Nat \ {0} /\ BufferCap \in Nat \ {0} /\ MaxEvents \in Nat

VARIABLES
    server,      \* where the goroutines of the server are
    peer,        \* client -> what the server has of its connection
    line,        \* client -> events written to it and not yet read
    eventC, eventClosed, servingWG, event, todo, removing, gone, handled, joined,
    cancelled, flows, crashed   \* as in EventSocket

E == INSTANCE EventSocket WITH pc <- server, conn <- peer, buffer <- line

serverVars == <<server, peer, line, eventC, eventClosed, servingWG, event, todo,
                removing, gone, handled, joined, cancelled, flows, crashed>>
systemVars == <<allVars, serverVars>>

SystemInit == ProgramInit /\ E!EventInit

Running == done # 0

\* main listens and starts Serve before it makes the saver.
Listen == E!Listen /\ UNCHANGED allVars

\* A step of the saver, the marshallers, the collector or the kernel, and the
\* call of the event server in it.
InProgram(Step) ==
    /\ Running /\ server.serve # "none"
    /\ Step
    /\ IF events' = events THEN UNCHANGED serverVars ELSE E!Flow

\* The goroutines of the server end with the process.
InServer(Step) == Running /\ UNCHANGED allVars /\ Step

ServerStep == InServer(E!Serve \/ E!notifyClients)

\* Clients connect at any time and stay, so that there is nothing to remove;
\* the runs of EventSocket have those that leave.  Their Handler is that of the
\* example client, which never waits: Open gives the event to ProcessOpenEvents,
\* or skips it if that is busy.
Handle(c) == UNCHANGED allVars /\ E!Handle(c)

ClientStep(c) == Handle(c) \/ InServer(E!Dial(c))

Exited == ~Running /\ UNCHANGED systemVars

SystemNext ==
    \/ Listen
    \/ InProgram(ProgramNext)
    \/ ServerStep
    \/ \E c \in Clients : ClientStep(c)
    \/ Exited

\* A goroutine that can run is eventually scheduled, and the clients read.
SystemFairness ==
    /\ WF_server(Listen)
    /\ WF_collectorVars(InProgram(CollectorStep))
    /\ WF_vars(InProgram(UNCHANGED <<kernelVars, collectorVars>> /\ SaverStep))
    /\ \A m \in Marshallers : WF_vars(Running /\ Marshaller(m))
    /\ WF_serverVars(Running /\ E!Serve)
    /\ WF_serverVars(Running /\ E!notifyClients)
    /\ \A c \in Clients : WF_serverVars(Handle(c))

System == SystemInit /\ [][SystemNext]_systemVars /\ SystemFairness

-----------------------------------------------------------------------------
(* Properties. *)

\* The collector, the saver, the marshallers, the event server and clients that
\* read never wait for each other in a circle, however small the channels
\* between them: after the last round the program ends.
ProgramEnds == <>(done = 0)

\* A client never sees a connection open twice without a Close in between, if
\* it stays connected: what the saver sends, the channel, the broadcast and the
\* socket keep it so, for a client that joins at any time.
ClientSeesPairs ==
    \A c \in Clients : \A i, k \in DOMAIN handled[c] :
        LET a == events[handled[c][i]]  b == events[handled[c][k]]
        IN  i < k /\ a = b /\ a.Event = "Open" =>
                \E j \in i + 1 .. k - 1 :
                    events[handled[c][j]] = [Event |-> "Close", Cookie |-> a.Cookie]

=============================================================================
