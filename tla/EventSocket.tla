---------------------------- MODULE EventSocket ----------------------------
(***************************************************************************)
(* eventsocket/server.go and client.go: the server that sends flow events  *)
(* to every client of a Unix socket.  Its goroutines are Serve, which      *)
(* accepts clients; notifyClients, which takes events from eventC and      *)
(* writes them to all clients; the cleanup goroutine of Serve; and one     *)
(* removeClient goroutine per failed write.  They share the clients, under *)
(* the mutex, and the wait group servingWG.                                *)
(*                                                                         *)
(* The n-th call of FlowCreated or FlowDeleted sends the event n.  Only    *)
(* sendToAllListeners holds the mutex across steps.                        *)
(***************************************************************************)
EXTENDS Integers, Sequences, FiniteSets

CONSTANTS
    Clients,     \* the connections that may be made
    EventCap,    \* capacity of eventC, 100 in the code
    BufferCap,   \* events a client's socket buffers before a write blocks
    MaxEvents    \* bound: number of events

ASSUME EventSocketAssumption ==
    EventCap \in Nat \ {0} /\ BufferCap \in Nat \ {0} /\ MaxEvents \in Nat

VARIABLES
    pc,          \* where Serve, notifyClients and the cleanup goroutine are
    eventC,      \* events sent and not yet taken
    eventClosed, \* close(s.eventC)
    servingWG,   \* the counter of the wait group
    event,       \* the event notifyClients has taken last
    todo,        \* the clients sendToAllListeners has still to write to
    removing,    \* client -> removeClient goroutines, by place
    conn,        \* client -> what the server has of its connection
    gone,        \* the clients that have closed their end
    buffer,      \* client -> events written to it and not yet read
    handled,     \* client -> events its Handler has been called for
    joined,      \* client -> the last event broadcast when it was added
    cancelled,   \* the context
    flows,       \* calls of FlowCreated and FlowDeleted
    crashed      \* one of them has sent on the closed channel

chanVars  == <<eventC, eventClosed>>
sendVars  == <<event, todo>>
peerVars  == <<conn, gone, joined>>
lineVars  == <<buffer, handled>>
worldVars == <<cancelled, flows, crashed>>
eventVars == <<pc, chanVars, servingWG, sendVars, removing, peerVars, lineVars,
               worldVars>>

-----------------------------------------------------------------------------
EventInit ==
    /\ pc = [serve |-> "none", notify |-> "none", cleanup |-> "none"]
    /\ eventC = <<>> /\ eventClosed = FALSE
    /\ servingWG = 0
    /\ event = 0 /\ todo = {}
    /\ removing = [c \in Clients |-> [spawned |-> 0, entered |-> 0]]
    /\ conn = [c \in Clients |-> "none"] /\ gone = {}
    /\ buffer = [c \in Clients |-> <<>>] /\ handled = buffer
    /\ joined = [c \in Clients |-> 0]
    /\ cancelled = FALSE /\ flows = 0 /\ crashed = FALSE

Goto(thread, from, to) == pc[thread] = from /\ pc' = [pc EXCEPT ![thread] = to]

\* s.clients; the mutex; the Unix socket; the last event sent to the clients.
clients   == {c \in Clients : conn[c] = "client"}
MutexFree == pc.notify # "write"
Listening == pc.serve # "none" /\ pc.cleanup \in {"none", "wait"}
broadcast == IF pc.notify = "lock" THEN event - 1 ELSE event

-----------------------------------------------------------------------------
(* Listen and Serve. *)

\* Mutant: the wait group is not increased.
ListenNoAdd ==
    /\ Goto("serve", "none", "start")
    /\ UNCHANGED <<chanVars, servingWG, sendVars, removing, peerVars, lineVars, worldVars>>

\* Listen, and the go statement that starts Serve.
Listen ==
    /\ Goto("serve", "none", "start")
    /\ servingWG' = servingWG + 1
    /\ UNCHANGED <<chanVars, sendVars, removing, peerVars, lineVars, worldVars>>

\* Mutant: nobody takes the events.
ServeStartAlone ==
    /\ pc.serve = "start"
    /\ pc' = [pc EXCEPT !.serve = "loop", !.cleanup = "wait"]
    /\ servingWG' = servingWG + 1
    /\ UNCHANGED <<chanVars, sendVars, removing, peerVars, lineVars, worldVars>>

\* Start notifyClients, and the cleanup goroutine with its share of the group.
ServeStart ==
    /\ pc.serve = "start"
    /\ pc' = [serve |-> "loop", notify |-> "start", cleanup |-> "wait"]
    /\ servingWG' = servingWG + 1
    /\ UNCHANGED <<chanVars, sendVars, removing, peerVars, lineVars, worldVars>>

\* The condition of a loop that ends with the context, and then with Done.
Loop(thread, next) ==
    /\ \/ ~cancelled /\ Goto(thread, "loop", next) /\ UNCHANGED servingWG
       \/ cancelled /\ Goto(thread, "loop", "returned") /\ servingWG' = servingWG - 1
    /\ UNCHANGED <<chanVars, sendVars, removing, peerVars, lineVars, worldVars>>

\* Accept returns a connection, or an error once the listener is closed.
Accept ==
    /\ \/ /\ Listening
          /\ Goto("serve", "accept", "add")
          /\ \E c \in Clients : conn[c] = "backlog" /\ conn' = [conn EXCEPT ![c] = "accepted"]
       \/ ~Listening /\ Goto("serve", "accept", "loop") /\ UNCHANGED conn
    /\ UNCHANGED <<chanVars, servingWG, sendVars, removing, gone, joined, lineVars,
                   worldVars>>

addClient ==
    /\ MutexFree
    /\ Goto("serve", "add", "loop")
    /\ \E c \in Clients :
          /\ conn[c] = "accepted"
          /\ conn' = [conn EXCEPT ![c] = "client"]
          /\ joined' = [joined EXCEPT ![c] = broadcast]
    /\ UNCHANGED <<chanVars, servingWG, sendVars, removing, gone, lineVars, worldVars>>

Serve == ServeStart \/ Loop("serve", "accept") \/ Accept \/ addClient

-----------------------------------------------------------------------------
(* The cleanup goroutine. *)

\* Connections still waiting to be accepted are refused.
CloseListener ==
    /\ cancelled
    /\ Goto("cleanup", "wait", "listener closed")
    /\ conn' = [c \in Clients |-> IF conn[c] = "backlog" THEN "refused" ELSE conn[c]]
    /\ UNCHANGED <<chanVars, servingWG, sendVars, removing, gone, joined, lineVars,
                   worldVars>>

\* Mutant: eventC stays open.
CloseEventsNot ==
    /\ Goto("cleanup", "listener closed", "returned")
    /\ servingWG' = servingWG - 1
    /\ UNCHANGED <<chanVars, sendVars, removing, peerVars, lineVars, worldVars>>

CloseEvents ==
    /\ Goto("cleanup", "listener closed", "returned")
    /\ eventClosed' = TRUE
    /\ servingWG' = servingWG - 1
    /\ UNCHANGED <<eventC, sendVars, removing, peerVars, lineVars, worldVars>>

Cleanup == CloseListener \/ CloseEvents

-----------------------------------------------------------------------------
(* notifyClients and sendToAllListeners. *)

NotifyStart ==
    /\ Goto("notify", "start", "loop")
    /\ servingWG' = servingWG + 1
    /\ UNCHANGED <<chanVars, sendVars, removing, peerVars, lineVars, worldVars>>

\* The next event; from the closed channel, once it is empty, the nil event
\* that is skipped with a warning.
NotifyReceive ==
    /\ \/ /\ eventC # <<>>
          /\ Goto("notify", "receive", "lock")
          /\ event' = Head(eventC)
          /\ eventC' = Tail(eventC)
       \/ /\ eventC = <<>> /\ eventClosed
          /\ Goto("notify", "receive", "loop")
          /\ UNCHANGED <<event, eventC>>
    /\ UNCHANGED <<eventClosed, servingWG, todo, removing, peerVars, lineVars, worldVars>>

\* sendToAllListeners takes the mutex and begins to visit the clients.
NotifyLock ==
    /\ Goto("notify", "lock", "write")
    /\ todo' = clients
    /\ UNCHANGED <<chanVars, servingWG, event, removing, peerVars, lineVars, worldVars>>

\* A write to a client that has room for it.
Write(c) ==
    /\ c \notin gone
    /\ Len(buffer[c]) < BufferCap
    /\ buffer' = [buffer EXCEPT ![c] = Append(@, event)]
    /\ todo' = todo \ {c}
    /\ UNCHANGED removing

\* Mutants of a failed write: the remaining clients are not written to; the
\* client is not removed; it is removed without a goroutine, by a call that
\* waits for the mutex its caller holds.
WriteFailsStops(c) ==
    /\ c \in gone
    /\ removing' = [removing EXCEPT ![c].spawned = @ + 1]
    /\ todo' = {}
    /\ UNCHANGED buffer
WriteFailsKeeps(c) == c \in gone /\ todo' = todo \ {c} /\ UNCHANGED <<buffer, removing>>
WriteFailsWaits(c) ==
    c \in gone /\ MutexFree /\ todo' = todo \ {c} /\ UNCHANGED <<buffer, removing>>

\* A write to a client that has left fails: one goroutine will remove it when
\* the mutex is free, another closes the connection.
WriteFails(c) ==
    /\ c \in gone
    /\ removing' = [removing EXCEPT ![c].spawned = @ + 1]
    /\ todo' = todo \ {c}
    /\ UNCHANGED buffer

\* The clients are visited in any order; a write without room blocks.
NotifyWrite ==
    /\ pc.notify = "write"
    /\ \E c \in todo : Write(c) \/ WriteFails(c)
    /\ UNCHANGED <<pc, chanVars, servingWG, event, peerVars, handled, worldVars>>

NotifyUnlock ==
    /\ todo = {}
    /\ Goto("notify", "write", "loop")
    /\ UNCHANGED <<chanVars, servingWG, sendVars, removing, peerVars, lineVars, worldVars>>

notifyClients ==
    \/ NotifyStart \/ Loop("notify", "receive") \/ NotifyReceive
    \/ NotifyLock \/ NotifyWrite \/ NotifyUnlock

-----------------------------------------------------------------------------
(* removeClient: it enters the wait group, then waits for the mutex. *)

RemoveStart(c) ==
    /\ removing[c].spawned > 0
    /\ removing' = [removing EXCEPT ![c].spawned = @ - 1, ![c].entered = @ + 1]
    /\ servingWG' = servingWG + 1
    /\ UNCHANGED <<pc, chanVars, sendVars, peerVars, lineVars, worldVars>>

RemoveEnd(c) ==
    /\ removing[c].entered > 0
    /\ MutexFree
    /\ conn' = [conn EXCEPT ![c] = "removed"]
    /\ removing' = [removing EXCEPT ![c].entered = @ - 1]
    /\ servingWG' = servingWG - 1
    /\ UNCHANGED <<pc, chanVars, sendVars, gone, joined, lineVars, worldVars>>

removeClient(c) == RemoveStart(c) \/ RemoveEnd(c)

-----------------------------------------------------------------------------
(* The saver, the owner of the context, and the clients. *)

\* FlowCreated and FlowDeleted, called once main has started the server: they
\* block while eventC is full; on the closed channel the send panics.
Flow ==
    /\ flows < MaxEvents
    /\ pc.serve # "none"
    /\ flows' = flows + 1
    /\ \/ /\ ~eventClosed /\ Len(eventC) < EventCap
          /\ eventC' = Append(eventC, flows + 1)
          /\ UNCHANGED crashed
       \/ eventClosed /\ crashed' = TRUE /\ UNCHANGED eventC
    /\ UNCHANGED <<pc, eventClosed, servingWG, sendVars, removing, peerVars, lineVars,
                   cancelled>>

Cancel ==
    /\ ~cancelled /\ pc.serve # "none"
    /\ cancelled' = TRUE
    /\ UNCHANGED <<pc, chanVars, servingWG, sendVars, removing, peerVars, lineVars, flows,
                   crashed>>

\* MustRun: connect, then call the Handler for every line, until the client's
\* context is cancelled and the connection closed.
Dial(c) ==
    /\ Listening
    /\ conn[c] = "none"
    /\ conn' = [conn EXCEPT ![c] = "backlog"]
    /\ UNCHANGED <<pc, chanVars, servingWG, sendVars, removing, gone, joined, lineVars,
                   worldVars>>

Handle(c) ==
    /\ c \notin gone
    /\ buffer[c] # <<>>
    /\ handled' = [handled EXCEPT ![c] = Append(@, Head(buffer[c]))]
    /\ buffer' = [buffer EXCEPT ![c] = Tail(@)]
    /\ UNCHANGED <<pc, chanVars, servingWG, sendVars, removing, peerVars, worldVars>>

Leave(c) ==
    /\ conn[c] \in {"backlog", "accepted", "client"}
    /\ c \notin gone
    /\ gone' = gone \cup {c}
    /\ UNCHANGED <<pc, chanVars, servingWG, sendVars, removing, conn, joined, lineVars,
                   worldVars>>

-----------------------------------------------------------------------------
Returned ==
    /\ \A thread \in DOMAIN pc : pc[thread] = "returned"
    /\ \A c \in Clients : removing[c].spawned + removing[c].entered = 0

EventNext ==
    \/ /\ ~crashed
       /\ \/ Listen \/ Serve \/ Cleanup \/ notifyClients
          \/ Flow \/ Cancel
          \/ \E c \in Clients : removeClient(c) \/ Dial(c) \/ Handle(c) \/ Leave(c)
    \/ (crashed \/ Returned) /\ UNCHANGED eventVars

EventSpec == EventInit /\ [][EventNext]_eventVars

\* A goroutine of the server that can run is eventually scheduled.
ServerFairness ==
    /\ WF_eventVars(~crashed /\ Serve)
    /\ WF_eventVars(~crashed /\ Cleanup)
    /\ WF_eventVars(~crashed /\ notifyClients)
    /\ \A c \in Clients : WF_eventVars(~crashed /\ removeClient(c))

\* The clients read what they are sent, until they leave.
ClientFairness == \A c \in Clients : WF_eventVars(~crashed /\ Handle(c))

\* The server with clients that read, and with clients that need not.
FairEventSpec == EventSpec /\ ServerFairness /\ ClientFairness
ServerFairSpec == EventSpec /\ ServerFairness

-----------------------------------------------------------------------------
(* Properties. *)

\* The state is well-typed; the counter of the wait group, whose Add and Done
\* are spread over four goroutines, never becomes negative, which would panic.
EventTypeOK ==
    /\ servingWG \in Nat
    /\ Len(eventC) <= EventCap
    /\ todo \subseteq clients
    /\ removing \in [Clients -> [spawned : Nat, entered : Nat]]

\* Clients miss nothing.  A client that stays has been written every event
\* broadcast since addClient, once and in the order of the calls of
\* FlowCreated and FlowDeleted, however clients come, go and fail around it;
\* only the event being broadcast may still be due to it.
NothingMissed ==
    \A c \in clients \ gone :
        handled[c] \o buffer[c]
          = [i \in 1 .. broadcast - joined[c] - (IF c \in todo THEN 1 ELSE 0)
                |-> joined[c] + i]

\* Waiting covers Serve.  The wait group is not at zero before Serve and its
\* cleanup have returned, however late the goroutine of Serve is scheduled:
\* Listen adds to the group on its behalf.
WaitCoversServe ==
    pc.serve # "none" /\ servingWG = 0 =>
        pc.serve = "returned" /\ pc.cleanup = "returned" /\ eventClosed

\* A client that has left is removed when an event is next sent to it.
LeaversRemoved ==
    \A c \in Clients : (c \in gone \cap todo) ~> (c \notin clients \/ crashed)

\* A call of FlowCreated or FlowDeleted that waits for room in eventC goes on,
\* unless the server is stopped: no failing client blocks the saver for ever.
SenderUnblocked ==
    (Len(eventC) = EventCap) ~> (Len(eventC) < EventCap \/ cancelled)

\* Cancelling the context makes every goroutine of the server return.
ServerStops == cancelled ~> (Returned \/ crashed)

=============================================================================
