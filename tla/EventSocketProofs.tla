------------------------- MODULE EventSocketProofs -------------------------
(***************************************************************************)
(* What the clients of the event server are sent, and what its wait group  *)
(* counts: for any number of clients and events, and any capacity of       *)
(* eventC and of the sockets, a client that stays misses nothing, and the  *)
(* group covers every goroutine that has to return.                        *)
(***************************************************************************)
EXTENDS EventSocket, SequenceTheorems, FiniteSetTheorems, TLAPS

\* Leaves are for Zenon, unless they cite another prover.
USE Zenon
USE EventSocketAssumption
USE DEF chanVars, sendVars, peerVars, lineVars, worldVars

\* A connection that addClient has not seen yet.
Waiting(c) == conn[c] \in {"none", "backlog", "accepted", "refused"}

ServerTypeInv ==
    /\ pc \in [serve   : {"none", "start", "loop", "accept", "add", "returned"},
               notify  : {"none", "start", "loop", "receive", "lock", "write", "returned"},
               cleanup : {"none", "wait", "listener closed", "returned"}]
    /\ eventC \in Seq(Nat) /\ event \in Nat /\ flows \in Nat
    /\ todo \subseteq Clients
    /\ conn \in [Clients -> {"none", "backlog", "accepted", "refused", "client", "removed"}]
    /\ joined \in [Clients -> Nat]
    /\ buffer \in [Clients -> Seq(Nat)] /\ handled \in [Clients -> Seq(Nat)]

\* eventC holds the calls of FlowCreated and FlowDeleted that follow the one
\* notifyClients is at.
QueueInOrder ==
    /\ \A i \in 1 .. Len(eventC) : eventC[i] = event + i
    /\ ~crashed => flows = event + Len(eventC)
    /\ pc.notify = "lock" => event > 0

\* Only the holder of the mutex has clients to write to, and they are clients;
\* nothing is written to a connection before addClient; a client was added
\* before the event that is still due to it.
ClientsInOrder ==
    /\ todo # {} => pc.notify = "write"
    /\ todo \subseteq clients
    /\ \A c \in Clients : Waiting(c) => buffer[c] = <<>> /\ handled[c] = <<>>
    /\ \A c \in clients : joined[c] <= broadcast /\ (c \in todo => joined[c] < broadcast)

\* The number of events that c has been written, as NothingMissed counts them,
\* and that these are the right ones.
Written(c) == broadcast - joined[c] - (IF c \in todo THEN 1 ELSE 0)

Caught(c) == handled[c] \o buffer[c] = [i \in 1 .. Written(c) |-> joined[c] + i]

\* notifyClients is started by Serve.
StartInOrder == pc.serve \in {"none", "start"} => pc.notify = "none"

ServerInv ==
    /\ ServerTypeInv /\ QueueInOrder /\ ClientsInOrder /\ StartInOrder
    /\ \A c \in clients \ gone : Caught(c)

-----------------------------------------------------------------------------
(* Sequences of consecutive numbers. *)

LEMMA CountAppend ==
    ASSUME NEW j \in Nat, NEW n \in Nat, NEW k, k = j + n + 1
    PROVE  Append([i \in 1 .. n |-> j + i], k) = [i \in 1 .. n + 1 |-> j + i]
    BY SMT

LEMMA AppendToSecond ==
    ASSUME NEW S, NEW s \in Seq(S), NEW t \in Seq(S), NEW k \in S
    PROVE  s \o Append(t, k) = Append(s \o t, k)
    BY SMT

LEMMA MoveHead ==
    ASSUME NEW S, NEW s \in Seq(S), NEW t \in Seq(S), t # <<>>
    PROVE  s \o t = Append(s, Head(t)) \o Tail(t)
    BY SMT

-----------------------------------------------------------------------------
(* The steps. *)

LEMMA ServerInit == EventInit => ServerInv
<1> SUFFICES ASSUME EventInit PROVE ServerInv
    OBVIOUS
<1>1. ServerTypeInv
    BY SMT DEF EventInit, ServerTypeInv
<1>2. clients = {}
    BY DEF EventInit, clients
<1>3. QueueInOrder
    BY SMT DEF EventInit, QueueInOrder
<1>4. ClientsInOrder
    BY <1>2 DEF EventInit, ClientsInOrder, Waiting
<1>5. StartInOrder
    BY DEF EventInit, StartInOrder
<1> QED
    BY <1>1, <1>2, <1>3, <1>4, <1>5 DEF ServerInv

LEMMA BroadcastIs ==
    ASSUME ServerInv
    PROVE  /\ event \in Nat /\ broadcast \in Nat
           /\ pc.notify = "lock" => event = broadcast + 1
           /\ pc.notify # "lock" => event = broadcast
<1>1. event \in Nat /\ (pc.notify = "lock" => event > 0)
    BY DEF ServerInv, ServerTypeInv, QueueInOrder
<1>2. CASE pc.notify = "lock"
    <2>1. broadcast = event - 1
        BY <1>2 DEF broadcast
    <2> QED
        BY SMT, <1>1, <1>2, <2>1
<1>3. CASE pc.notify # "lock"
    <2>1. broadcast = event
        BY <1>3 DEF broadcast
    <2> QED
        BY <1>1, <1>3, <2>1
<1> QED
    BY <1>2, <1>3

\* Steps that change neither the events nor what has been written: clients may
\* go, and more of them may have left.
LEMMA ServerFrame ==
    ASSUME ServerInv, UNCHANGED <<eventC, event, todo, joined, lineVars, flows, crashed>>,
           ServerTypeInv', StartInOrder',
           pc.notify = "lock" <=> pc'.notify = "lock",
           todo # {} => pc'.notify = "write",
           clients' \subseteq clients, todo \subseteq clients', gone \subseteq gone',
           \A c \in Clients : Waiting(c)' => Waiting(c)
    PROVE  ServerInv'
<1>1. broadcast' = broadcast
    BY DEF broadcast
<1>2. QueueInOrder'
    BY DEF ServerInv, QueueInOrder
<1>3. ClientsInOrder'
    BY <1>1 DEF ServerInv, ClientsInOrder
<1>4. \A c : Caught(c)' = Caught(c)
    BY <1>1 DEF Caught, Written
<1> QED
    BY <1>2, <1>3, <1>4 DEF ServerInv

LEMMA ServeStep ==
    ASSUME ServerInv,
           Listen \/ ServeStart \/ Loop("serve", "accept") \/ Accept \/ Cleanup
    PROVE  ServerInv'
<1>1. CASE Listen \/ Loop("serve", "accept") \/ CloseEvents
    <2>1. ServerTypeInv' /\ StartInOrder' /\ pc'.notify = pc.notify
        BY <1>1 DEF ServerInv, ServerTypeInv, StartInOrder, Listen, Loop, CloseEvents, Goto
    <2>2. UNCHANGED <<conn, gone>>
        BY <1>1 DEF Listen, Loop, CloseEvents
    <2> QED
        BY <1>1, <2>1, <2>2, ServerFrame
           DEF ServerInv, ClientsInOrder, Listen, Loop, CloseEvents, clients, Waiting
<1>2. CASE ServeStart
    <2>1. /\ ServerTypeInv' /\ StartInOrder'
          /\ pc.notify = "none" /\ pc'.notify = "start" /\ todo = {}
        BY <1>2 DEF ServerInv, ServerTypeInv, StartInOrder, ClientsInOrder, ServeStart
    <2> QED
        BY <1>2, <2>1, ServerFrame DEF ServeStart, clients, Waiting
<1>3. CASE Accept \/ CloseListener
    <2>1. ServerTypeInv' /\ StartInOrder' /\ pc'.notify = pc.notify
        <3>1. /\ pc' \in [serve   : {"none", "start", "loop", "accept", "add", "returned"},
                          notify  : {"none", "start", "loop", "receive", "lock", "write",
                                     "returned"},
                          cleanup : {"none", "wait", "listener closed", "returned"}]
              /\ pc'.notify = pc.notify /\ StartInOrder'
            BY <1>3 DEF ServerInv, ServerTypeInv, StartInOrder, Accept, CloseListener, Goto
        <3>2. conn' \in [Clients -> {"none", "backlog", "accepted", "refused", "client",
                                     "removed"}]
            BY ZenonT(20), <1>3 DEF ServerInv, ServerTypeInv, Accept, CloseListener
        <3>3. UNCHANGED <<eventC, event, flows, todo, joined, buffer, handled>>
            BY <1>3 DEF Accept, CloseListener
        <3> QED
            BY <3>1, <3>2, <3>3 DEF ServerInv, ServerTypeInv
    <2>2. \A c \in Clients : \/ conn'[c] = conn[c]
                             \/ /\ conn[c] = "backlog"
                                /\ conn'[c] \in {"accepted", "refused"}
        BY <1>3 DEF ServerInv, ServerTypeInv, Accept, CloseListener
    <2>3. clients' = clients /\ \A c \in Clients : Waiting(c)' = Waiting(c)
        BY SMT, <2>2 DEF clients, Waiting
    <2> QED
        BY <1>3, <2>1, <2>3, ServerFrame
           DEF ServerInv, ClientsInOrder, Accept, CloseListener
<1> QED
    BY <1>1, <1>2, <1>3 DEF Cleanup

LEMMA AddClientStep == ASSUME ServerInv, addClient PROVE ServerInv'
<1>1. PICK c \in Clients : /\ conn[c] = "accepted"
                           /\ conn' = [conn EXCEPT ![c] = "client"]
                           /\ joined' = [joined EXCEPT ![c] = broadcast]
    BY DEF addClient
<1>2. pc'.notify = pc.notify /\ pc.notify # "write" /\ StartInOrder'
    BY DEF addClient, MutexFree, Goto, ServerInv, ServerTypeInv, StartInOrder
<1>3. todo = {} /\ todo' = {}
    BY <1>2 DEF addClient, ServerInv, ClientsInOrder
<1>4. broadcast' = broadcast /\ broadcast \in Nat
    <2>1. event' = event
        BY DEF addClient
    <2>2. broadcast' = broadcast
        BY <1>2, <2>1 DEF broadcast
    <2> QED
        BY <2>2, BroadcastIs
<1>5. ServerTypeInv'
    BY <1>1, <1>4 DEF addClient, Goto, ServerInv, ServerTypeInv
<1>6. QueueInOrder'
    BY <1>2 DEF addClient, ServerInv, QueueInOrder
<1>7. clients' = clients \cup {c} /\ joined'[c] = broadcast
      /\ \A d \in Clients \ {c} : conn'[d] = conn[d] /\ joined'[d] = joined[d]
    BY <1>1 DEF clients, ServerInv, ServerTypeInv
<1>8. ClientsInOrder'
    <2>1. \A d \in Clients : Waiting(d)' => buffer'[d] = <<>> /\ handled'[d] = <<>>
        BY <1>1, <1>7 DEF addClient, ServerInv, ServerTypeInv, ClientsInOrder, Waiting
    <2>2. \A d \in clients' : joined'[d] <= broadcast'
        BY SMT, <1>4, <1>7 DEF ServerInv, ClientsInOrder, clients
    <2> QED
        BY <1>3, <2>1, <2>2 DEF ClientsInOrder
<1>9. \A d \in clients' \ gone' : Caught(d)'
    <2>1. \A d \in clients \ {c} : Caught(d)' = Caught(d)
        BY <1>3, <1>4, <1>7 DEF addClient, Caught, Written, clients
    <2>2. Caught(c)'
        <3>1. Waiting(c)
            BY <1>1 DEF Waiting
        <3>2. handled'[c] = <<>> /\ buffer'[c] = <<>>
            BY <3>1 DEF addClient, ServerInv, ClientsInOrder
        <3>3. Written(c)' = 0
            <4>1. Written(c)' = broadcast - broadcast - 0
                BY <1>3, <1>4, <1>7 DEF Written
            <4> QED
                BY SMT, <1>4, <4>1
        <3> QED
            BY SMT, <3>2, <3>3 DEF Caught
    <2> QED
        BY <1>7, <2>1, <2>2 DEF addClient, ServerInv
<1> QED
    BY <1>2, <1>5, <1>6, <1>8, <1>9 DEF ServerInv

LEMMA NotifyFrame ==
    ASSUME ServerInv, NotifyStart \/ Loop("notify", "receive") \/ NotifyUnlock
    PROVE  ServerInv'
<1>1. ServerTypeInv' /\ StartInOrder' /\ pc.notify # "lock" /\ pc'.notify # "lock"
    BY DEF ServerInv, ServerTypeInv, StartInOrder, NotifyStart, Loop, NotifyUnlock, Goto
<1>2. todo = {}
    BY DEF ServerInv, ServerTypeInv, ClientsInOrder, NotifyStart, Loop, NotifyUnlock, Goto
<1> QED
    BY <1>1, <1>2, ServerFrame DEF NotifyStart, Loop, NotifyUnlock, clients, Waiting

LEMMA NotifyReceiveStep == ASSUME ServerInv, NotifyReceive PROVE ServerInv'
<1>1. CASE eventC = <<>>
    <2>1. ServerTypeInv' /\ StartInOrder' /\ pc.notify = "receive" /\ pc'.notify = "loop"
        BY <1>1 DEF ServerInv, ServerTypeInv, StartInOrder, NotifyReceive, Goto
    <2>2. todo = {}
        BY <2>1 DEF ServerInv, ClientsInOrder
    <2> QED
        BY <1>1, <2>1, <2>2, ServerFrame DEF NotifyReceive, clients, Waiting
<1>2. CASE eventC # <<>>
    <2>1. /\ pc.notify = "receive" /\ pc'.notify = "lock" /\ StartInOrder'
          /\ event' = Head(eventC) /\ eventC' = Tail(eventC)
        BY <1>2 DEF ServerInv, ServerTypeInv, StartInOrder, NotifyReceive, Goto
    <2>2. todo = {} /\ todo' = {}
        BY <2>1 DEF ServerInv, ClientsInOrder, NotifyReceive
    <2>3. event' = event + 1 /\ Len(eventC) > 0 /\ Len(eventC') = Len(eventC) - 1
          /\ \A i \in 1 .. Len(eventC') : eventC'[i] = eventC[i + 1]
        <3>1. eventC \in Seq(Nat) /\ \A i \in 1 .. Len(eventC) : eventC[i] = event + i
            BY DEF ServerInv, ServerTypeInv, QueueInOrder
        <3>2. Len(eventC) > 0 /\ Len(eventC) \in Nat /\ Head(eventC) = eventC[1]
            BY SMT, <1>2, <3>1
        <3>3. Len(eventC') = Len(eventC) - 1
              /\ \A i \in 1 .. Len(eventC') : eventC'[i] = eventC[i + 1]
            BY <1>2, <2>1, <3>1, HeadTailProperties
        <3> QED
            BY SMT, <2>1, <3>1, <3>2, <3>3
    <2>4. broadcast' = broadcast
        <3>1. broadcast = event /\ event \in Nat
            BY <2>1, BroadcastIs
        <3>2. broadcast' = event' - 1
            BY <2>1 DEF broadcast
        <3> QED
            BY SMT, <2>3, <3>1, <3>2
    <2>5. ServerTypeInv'
        <3>1. event' \in Nat /\ eventC' \in Seq(Nat)
            BY <1>2, <2>1, HeadTailProperties DEF ServerInv, ServerTypeInv
        <3> QED
            BY <1>2, <3>1 DEF NotifyReceive, Goto, ServerInv, ServerTypeInv
    <2>6. QueueInOrder'
        <3>1. /\ event \in Nat /\ eventC \in Seq(Nat)
              /\ \A i \in 1 .. Len(eventC) : eventC[i] = event + i
              /\ ~crashed => flows = event + Len(eventC)
              /\ flows' = flows /\ crashed' = crashed
            BY DEF NotifyReceive, ServerInv, ServerTypeInv, QueueInOrder
        <3>2. Len(eventC) \in Nat
            BY SMT, <3>1
        <3>3. \A i \in 1 .. Len(eventC') : eventC'[i] = event' + i
            BY SMT, <2>3, <3>1, <3>2
        <3>4. event + Len(eventC) = event' + Len(eventC') /\ event' > 0
            BY SMT, <2>3, <3>1, <3>2
        <3> QED
            BY <3>1, <3>3, <3>4 DEF QueueInOrder
    <2>7. UNCHANGED <<conn, gone, joined, buffer, handled>>
        BY DEF NotifyReceive
    <2>8. ClientsInOrder'
        BY <2>2, <2>4, <2>7 DEF ServerInv, ClientsInOrder, Waiting, clients
    <2>9. \A c : Caught(c)' = Caught(c)
        BY <2>2, <2>4, <2>7 DEF Caught, Written
    <2> QED
        BY <2>1, <2>5, <2>6, <2>7, <2>8, <2>9 DEF ServerInv, clients
<1> QED
    BY <1>1, <1>2

\* From here on event counts as broadcast, and is due to every client.
LEMMA NotifyLockStep == ASSUME ServerInv, NotifyLock PROVE ServerInv'
<1>1. /\ pc.notify = "lock" /\ pc'.notify = "write" /\ StartInOrder' /\ ServerTypeInv'
      /\ todo' = clients
    BY DEF NotifyLock, Goto, ServerInv, ServerTypeInv, StartInOrder, clients
<1>2. UNCHANGED <<event, eventC, flows, crashed, conn, gone, joined, buffer, handled>>
    BY DEF NotifyLock
<1>3. todo = {} /\ clients' = clients
    BY <1>1, <1>2 DEF ServerInv, ClientsInOrder, clients
<1>4. broadcast \in Nat /\ broadcast' = broadcast + 1
    <2>1. broadcast' = event'
        BY <1>1 DEF broadcast
    <2> QED
        BY <1>1, <1>2, <2>1, BroadcastIs
<1>5. QueueInOrder'
    BY <1>1, <1>2 DEF ServerInv, QueueInOrder
<1>6. \A c \in clients : joined[c] \in Nat
    BY DEF clients, ServerInv, ServerTypeInv
<1>7. ClientsInOrder'
    BY SMT, <1>1, <1>2, <1>3, <1>4, <1>6 DEF ServerInv, ClientsInOrder, Waiting
<1>8. \A c \in clients : Caught(c) => Caught(c)'
    <2> TAKE c \in clients
    <2>1. Written(c)' = Written(c)
        BY SMT, <1>1, <1>2, <1>3, <1>4, <1>6 DEF Written
    <2> QED
        BY <1>2, <2>1 DEF Caught
<1> QED
    BY <1>1, <1>2, <1>3, <1>5, <1>7, <1>8 DEF ServerInv

\* A step that writes to, or reads for, the one client c.
LEMMA LineFrame ==
    ASSUME ServerInv, NEW c \in Clients, ServerTypeInv', todo' \subseteq todo,
           \A d \in Clients \ {c} : /\ buffer'[d] = buffer[d] /\ handled'[d] = handled[d]
                                    /\ d \in todo' <=> d \in todo,
           UNCHANGED <<pc, eventC, event, flows, crashed, peerVars>>,
           ~Waiting(c), c \in clients \ gone => Caught(c)'
    PROVE  ServerInv'
<1>1. broadcast' = broadcast /\ clients' = clients
    BY DEF broadcast, clients
<1>2. QueueInOrder' /\ StartInOrder'
    BY DEF ServerInv, QueueInOrder, StartInOrder
<1>3. ClientsInOrder'
    BY <1>1 DEF ServerInv, ClientsInOrder, Waiting
<1>4. \A d \in Clients \ {c} : Caught(d)' = Caught(d)
    BY <1>1 DEF Caught, Written
<1>5. \A d \in clients' \ gone' : Caught(d)'
    BY <1>1, <1>4 DEF ServerInv, clients
<1> QED
    BY <1>2, <1>3, <1>5 DEF ServerInv

LEMMA NotifyWriteStep == ASSUME ServerInv, NotifyWrite PROVE ServerInv'
<1>1. PICK c \in todo : Write(c) \/ WriteFails(c)
    BY DEF NotifyWrite
<1>2. c \in Clients /\ c \in clients /\ ~Waiting(c) /\ pc.notify = "write"
    BY DEF NotifyWrite, ServerInv, ServerTypeInv, ClientsInOrder, clients, Waiting
<1>3. UNCHANGED <<pc, eventC, event, flows, crashed, peerVars, handled>>
      /\ todo' = todo \ {c}
    BY <1>1 DEF NotifyWrite, Write, WriteFails
<1>4. broadcast' = event /\ broadcast = event /\ event \in Nat
    <2>1. broadcast' = event' /\ event' = event
        BY <1>2, <1>3 DEF broadcast
    <2> QED
        BY <1>2, <2>1, BroadcastIs
<1>5. CASE WriteFails(c)
    <2>1. buffer' = buffer /\ c \in gone
        BY <1>5 DEF WriteFails
    <2>2. ServerTypeInv'
        BY <1>3, <2>1 DEF ServerInv, ServerTypeInv
    <2> QED
        BY <1>2, <1>3, <2>1, <2>2, LineFrame
<1>6. CASE Write(c)
    <2>1. buffer' = [buffer EXCEPT ![c] = Append(@, event)] /\ c \notin gone
        BY <1>6 DEF Write
    <2>2. buffer[c] \in Seq(Nat) /\ handled[c] \in Seq(Nat) /\ joined[c] \in Nat
        BY <1>2 DEF ServerInv, ServerTypeInv
    <2>3. ServerTypeInv'
        <3>1. Append(buffer[c], event) \in Seq(Nat)
            BY <1>4, <2>2, AppendProperties
        <3>2. buffer' \in [Clients -> Seq(Nat)]
            BY <2>1, <3>1 DEF ServerInv, ServerTypeInv
        <3> QED
            BY <1>3, <3>2 DEF ServerInv, ServerTypeInv
    <2>4. \A d \in Clients \ {c} : buffer'[d] = buffer[d]
        BY <2>1 DEF ServerInv, ServerTypeInv
    <2>5. Caught(c)'
        <3>1. joined[c] < event
            BY <1>2, <1>4 DEF ServerInv, ClientsInOrder
        <3>2. PICK n \in Nat : event = joined[c] + n + 1
            <4>1. event - joined[c] - 1 \in Nat
                BY SMT, <1>4, <2>2, <3>1
            <4> QED
                BY SMT, <1>4, <2>2, <4>1
        <3>3. Written(c) = n /\ Written(c)' = n + 1
            <4>1. Written(c) = event - joined[c] - 1
                BY <1>4 DEF Written
            <4>2. Written(c)' = event - joined[c] - 0
                BY <1>3, <1>4 DEF Written
            <4> QED
                BY SMT, <1>4, <2>2, <3>2, <4>1, <4>2
        <3>4. handled[c] \o buffer[c] = [i \in 1 .. n |-> joined[c] + i]
            BY <1>2, <2>1, <3>3 DEF ServerInv, Caught
        <3>5. handled'[c] \o buffer'[c] = Append(handled[c] \o buffer[c], event)
            <4>1. handled'[c] = handled[c] /\ buffer'[c] = Append(buffer[c], event)
                BY <1>2, <1>3, <2>1 DEF ServerInv, ServerTypeInv
            <4>2. \A u, v \in Seq(Nat) : \A k \in Nat :
                     u \o Append(v, k) = Append(u \o v, k)
                BY SMT, AppendToSecond
            <4>3. handled[c] \o Append(buffer[c], event) = Append(handled[c] \o buffer[c], event)
                BY <1>4, <2>2, <4>2
            <4> QED
                BY <4>1, <4>3
        <3>6. handled'[c] \o buffer'[c] = [i \in 1 .. n + 1 |-> joined[c] + i]
            <4>1. Append([i \in 1 .. n |-> joined[c] + i], event)
                    = [i \in 1 .. n + 1 |-> joined[c] + i]
                BY <2>2, <3>2, CountAppend
            <4> QED
                BY <3>4, <3>5, <4>1
        <3> QED
            BY <1>3, <3>3, <3>6 DEF Caught
    <2> QED
        BY <1>2, <1>3, <2>3, <2>4, <2>5, LineFrame
<1> QED
    BY <1>1, <1>5, <1>6

LEMMA HandleStep == ASSUME ServerInv, NEW c \in Clients, Handle(c) PROVE ServerInv'
<1>1. /\ buffer[c] # <<>>
      /\ handled' = [handled EXCEPT ![c] = Append(@, Head(buffer[c]))]
      /\ buffer' = [buffer EXCEPT ![c] = Tail(@)]
      /\ UNCHANGED <<pc, eventC, event, todo, flows, crashed, peerVars>>
    BY DEF Handle
<1>2. buffer[c] \in Seq(Nat) /\ handled[c] \in Seq(Nat)
    BY DEF ServerInv, ServerTypeInv
<1>3. Head(buffer[c]) \in Nat /\ Tail(buffer[c]) \in Seq(Nat)
    BY <1>1, <1>2, HeadTailProperties
<1>4. ServerTypeInv'
    <2>1. Append(handled[c], Head(buffer[c])) \in Seq(Nat)
        BY <1>2, <1>3, AppendProperties
    <2>2. handled' \in [Clients -> Seq(Nat)] /\ buffer' \in [Clients -> Seq(Nat)]
        BY <1>1, <1>3, <2>1 DEF ServerInv, ServerTypeInv
    <2> QED
        BY <1>1, <2>2 DEF ServerInv, ServerTypeInv
<1>5. \A d \in Clients \ {c} : buffer'[d] = buffer[d] /\ handled'[d] = handled[d]
    BY <1>1 DEF ServerInv, ServerTypeInv
<1>6. ~Waiting(c)
    BY <1>1 DEF ServerInv, ClientsInOrder
<1>7. Caught(c)' = Caught(c)
    <2>1. handled'[c] = Append(handled[c], Head(buffer[c])) /\ buffer'[c] = Tail(buffer[c])
        BY <1>1 DEF ServerInv, ServerTypeInv
    <2>2. handled'[c] \o buffer'[c] = handled[c] \o buffer[c]
        BY ZenonT(20), <1>1, <1>2, <2>1, MoveHead
    <2>3. Written(c)' = Written(c)
        BY <1>1 DEF Written, broadcast
    <2> QED
        BY <1>1, <2>2, <2>3 DEF Caught
<1>8. c \in clients \ gone => Caught(c)'
    BY <1>7 DEF ServerInv
<1> QED
    BY <1>1, <1>4, <1>5, <1>6, <1>8, LineFrame

LEMMA FlowStep == ASSUME ServerInv, ~crashed, Flow PROVE ServerInv'
<1>1. /\ event \in Nat /\ eventC \in Seq(Nat) /\ flows \in Nat
      /\ \A i \in 1 .. Len(eventC) : eventC[i] = event + i
      /\ flows = event + Len(eventC)
    BY DEF ServerInv, ServerTypeInv, QueueInOrder
<1>2. UNCHANGED <<pc, sendVars, peerVars, lineVars>> /\ flows' = flows + 1
    BY DEF Flow
<1>3. /\ eventC' \in Seq(Nat) /\ flows' \in Nat
      /\ \A i \in 1 .. Len(eventC') : eventC'[i] = event + i
      /\ ~crashed' => flows' = event + Len(eventC')
    <2>1. CASE crashed' = TRUE /\ UNCHANGED eventC
        BY SMT, <1>1, <1>2, <2>1
    <2>2. CASE eventC' = Append(eventC, flows + 1)
        <3>1. /\ eventC' \in Seq(Nat) /\ Len(eventC') = Len(eventC) + 1
              /\ \A i \in 1 .. Len(eventC) : eventC'[i] = eventC[i]
              /\ eventC'[Len(eventC) + 1] = flows + 1
            BY SMT, <1>1, <2>2, AppendProperties
        <3>2. Len(eventC) \in Nat /\ event \in Nat /\ flows = event + Len(eventC)
            BY SMT, <1>1
        <3>3. \A i \in 1 .. Len(eventC') : i \in 1 .. Len(eventC) \/ i = Len(eventC) + 1
            BY SMT, <3>1, <3>2
        <3>4. \A i \in 1 .. Len(eventC') : eventC'[i] = event + i
            <4>1. eventC'[Len(eventC) + 1] = event + (Len(eventC) + 1)
                BY SMT, <3>1, <3>2
            <4>2. \A i \in 1 .. Len(eventC) : eventC'[i] = event + i
                BY <1>1, <3>1
            <4> QED
                BY <3>3, <4>1, <4>2
        <3>5. flows' = event + Len(eventC') /\ flows' \in Nat
            BY SMT, <1>2, <3>1, <3>2
        <3> QED
            BY <3>1, <3>4, <3>5
    <2> QED
        BY <2>1, <2>2 DEF Flow
<1>4. broadcast' = broadcast /\ clients' = clients
    BY <1>2 DEF broadcast, clients
<1>5. ClientsInOrder' /\ StartInOrder'
    BY <1>2, <1>4 DEF ServerInv, ClientsInOrder, StartInOrder, Waiting
<1>6. \A c : Caught(c)' = Caught(c)
    BY <1>2, <1>4 DEF Caught, Written
<1>7. ServerTypeInv'
    BY <1>2, <1>3 DEF ServerInv, ServerTypeInv
<1>8. QueueInOrder'
    BY <1>2, <1>3 DEF ServerInv, QueueInOrder
<1> QED
    BY <1>2, <1>4, <1>5, <1>6, <1>7, <1>8 DEF ServerInv

\* A client dials or leaves, is removed, or the context is cancelled.
LEMMA WorldStep ==
    ASSUME ServerInv,
           \/ Cancel
           \/ \E c \in Clients : removeClient(c) \/ Dial(c) \/ Leave(c)
    PROVE  ServerInv'
<1>1. UNCHANGED <<pc, eventC, event, todo, joined, lineVars, flows, crashed>>
      /\ gone \subseteq gone'
    BY DEF Cancel, removeClient, RemoveStart, RemoveEnd, Dial, Leave
<1>2. CASE UNCHANGED conn
    <2>1. ServerTypeInv' /\ StartInOrder'
        BY <1>1, <1>2 DEF ServerInv, ServerTypeInv, StartInOrder
    <2> QED
        BY <1>1, <1>2, <2>1, ServerFrame DEF ServerInv, ClientsInOrder, clients, Waiting
<1>3. ASSUME NEW c \in Clients, Dial(c) \/ RemoveEnd(c)
      PROVE  ServerInv'
    <2>1. \/ conn[c] = "none" /\ conn' = [conn EXCEPT ![c] = "backlog"]
          \/ todo = {} /\ conn' = [conn EXCEPT ![c] = "removed"]
        BY <1>3 DEF Dial, RemoveEnd, MutexFree, ServerInv, ClientsInOrder
    <2>2. ServerTypeInv' /\ StartInOrder'
        BY <1>1, <2>1 DEF ServerInv, ServerTypeInv, StartInOrder
    <2>3. /\ clients' \subseteq clients /\ todo \subseteq clients'
          /\ \A d \in Clients : Waiting(d)' => Waiting(d)
        BY <2>1 DEF ServerInv, ServerTypeInv, ClientsInOrder, clients, Waiting
    <2> QED
        BY <1>1, <2>2, <2>3, ServerFrame DEF ServerInv, ClientsInOrder
<1> QED
    BY <1>2, <1>3 DEF Cancel, removeClient, RemoveStart, Leave

LEMMA ServerStep == ServerInv /\ [EventNext]_eventVars => ServerInv'
<1> SUFFICES ASSUME ServerInv, [EventNext]_eventVars PROVE ServerInv'
    OBVIOUS
<1>1. CASE UNCHANGED eventVars
    <2>1. UNCHANGED <<pc, chanVars, sendVars, peerVars, lineVars, worldVars>>
        BY <1>1 DEF eventVars
    <2>2. ServerTypeInv' /\ StartInOrder'
        BY <2>1 DEF ServerInv, ServerTypeInv, StartInOrder
    <2> QED
        BY <2>1, <2>2, ServerFrame DEF ServerInv, ClientsInOrder, clients, Waiting
<1>2. CASE Listen \/ ServeStart \/ Loop("serve", "accept") \/ Accept \/ Cleanup
    BY <1>2, ServeStep
<1>3. CASE addClient
    BY <1>3, AddClientStep
<1>4. CASE notifyClients
    BY <1>4, NotifyFrame, NotifyReceiveStep, NotifyLockStep, NotifyWriteStep
       DEF notifyClients
<1>5. CASE ~crashed /\ Flow
    BY <1>5, FlowStep
<1>6. CASE Cancel \/ \E c \in Clients : removeClient(c) \/ Dial(c) \/ Leave(c)
    BY <1>6, WorldStep
<1>7. CASE \E c \in Clients : Handle(c)
    BY <1>7, HandleStep
<1> QED
    BY <1>1, <1>2, <1>3, <1>4, <1>5, <1>6, <1>7 DEF EventNext, Serve

\* A client that stays is sent every event broadcast since it was added, once
\* and in order, while sendToAllListeners, addClient and removeClient take turns
\* at the mutex.
THEOREM ClientsMissNothing == EventSpec => []NothingMissed
<1>1. ServerInv => NothingMissed
    BY DEF ServerInv, NothingMissed, Caught, Written
<1> QED
    BY <1>1, ServerInit, ServerStep, PTL DEF EventSpec

\* What a client that stays has handled: consecutive events, none of which is
\* yet to be sent.
LEMMA HandledConsecutive ==
    ServerInv => \A c \in clients \ gone : \A i \in DOMAIN handled[c] :
        handled[c][i] = joined[c] + i /\ (~crashed => joined[c] + i \in 1 .. flows)
<1> SUFFICES ASSUME ServerInv, NEW c \in clients \ gone, NEW i \in DOMAIN handled[c]
             PROVE  /\ handled[c][i] = joined[c] + i
                    /\ ~crashed => joined[c] + i \in 1 .. flows
    OBVIOUS
<1>1. PICK j, h, b : j = joined[c] /\ h = handled[c] /\ b = buffer[c]
    OBVIOUS
<1>2. j \in Nat /\ h \in Seq(Nat) /\ b \in Seq(Nat)
    BY <1>1 DEF ServerInv, ServerTypeInv, clients
<1>3. PICK w : w = Written(c)
    OBVIOUS
<1>4. j <= broadcast /\ (c \in todo => j < broadcast)
    BY <1>1 DEF ServerInv, ClientsInOrder
<1>5. w \in Nat /\ w <= broadcast - j
    BY SMT, <1>1, <1>2, <1>3, <1>4, BroadcastIs DEF Written
<1>6. h \o b = [k \in 1 .. w |-> j + k]
    BY <1>1, <1>3 DEF ServerInv, Caught
<1>7. i \in 1 .. w /\ h[i] = j + i
    <2>1. /\ Len(h) \in Nat /\ Len(b) \in Nat /\ DOMAIN h = 1 .. Len(h)
          /\ DOMAIN (h \o b) = 1 .. Len(h) + Len(b)
          /\ \A k \in 1 .. Len(h) : (h \o b)[k] = h[k]
        BY SMT, <1>2
    <2>2. DOMAIN (h \o b) = 1 .. w /\ \A k \in 1 .. w : (h \o b)[k] = j + k
        BY <1>6
    <2>3. i \in 1 .. Len(h)
        BY <1>1, <2>1
    <2>4. i \in 1 .. Len(h) + Len(b)
        BY SMT, <2>1, <2>3
    <2> QED
        BY <2>1, <2>2, <2>3, <2>4
<1>8. event \in Nat /\ broadcast \in Nat /\ broadcast <= event
    BY SMT, BroadcastIs
<1>9. ~crashed => event <= flows
    <2>1. eventC \in Seq(Nat) /\ flows \in Nat /\ (~crashed => flows = event + Len(eventC))
        BY DEF ServerInv, ServerTypeInv, QueueInOrder
    <2> QED
        BY SMT, <1>8, <2>1
<1>10. flows \in Nat
    BY DEF ServerInv, ServerTypeInv
<1>11. ~crashed => j + i \in 1 .. flows
    BY SMT, <1>2, <1>5, <1>7, <1>8, <1>9, <1>10
<1> QED
    BY <1>1, <1>7, <1>11

-----------------------------------------------------------------------------
(* The wait group.  Its counter is the number of goroutines that have entered *)
(* it and not left it: Serve, notifyClients and the cleanup goroutine, and    *)
(* those of removeClient, which are told apart by a number.                   *)

ServeIn   == pc.serve \notin {"none", "returned"}
NotifyIn  == pc.notify \notin {"none", "start", "returned"}
CleanupIn == pc.cleanup \notin {"none", "returned"}

ThreadsIn == {t \in {"serve", "notify", "cleanup"} :
                 \/ t = "serve" /\ ServeIn
                 \/ t = "notify" /\ NotifyIn
                 \/ t = "cleanup" /\ CleanupIn}

Removers == {p \in Clients \X Nat : p[2] \in 1 .. removing[p[1]].entered}

\* Serve starts the two others, and the cleanup closes eventC before it leaves.
CleanupOrder ==
    /\ pc.serve \in {"none", "start"} => pc.notify = "none" /\ pc.cleanup = "none"
    /\ pc.cleanup = "none" => pc.serve \in {"none", "start"}
    /\ pc.cleanup = "returned" => eventClosed

WaitInv ==
    /\ removing \in [Clients -> [spawned : Nat, entered : Nat]]
    /\ IsFiniteSet(Removers)
    /\ servingWG = Cardinality(ThreadsIn) + Cardinality(Removers)
    /\ CleanupOrder
    /\ Len(eventC) <= EventCap

LEMMA WaitInit == EventInit => WaitInv
<1> SUFFICES ASSUME EventInit PROVE WaitInv
    OBVIOUS
<1>1. Removers = {}
    BY SMT DEF EventInit, Removers
<1>2. ThreadsIn = {}
    BY DEF EventInit, ThreadsIn, ServeIn, NotifyIn, CleanupIn
<1>3. IsFiniteSet({}) /\ Cardinality({}) = 0
    BY FS_EmptySet
<1>4. CleanupOrder
    BY DEF EventInit, CleanupOrder
<1> QED
    BY SMT, <1>1, <1>2, <1>3, <1>4 DEF EventInit, WaitInv

LEMMA ThreadsFinite == IsFiniteSet(ThreadsIn)
<1>1. IsFiniteSet({"serve", "notify", "cleanup"})
    <2>1. IsFiniteSet({"serve"})
        BY FS_Singleton
    <2>2. IsFiniteSet({"serve"} \cup {"notify"})
        BY <2>1, FS_AddElement
    <2>3. IsFiniteSet(({"serve"} \cup {"notify"}) \cup {"cleanup"})
        BY <2>2, FS_AddElement
    <2>4. ({"serve"} \cup {"notify"}) \cup {"cleanup"} = {"serve", "notify", "cleanup"}
        OBVIOUS
    <2> QED
        BY <2>3, <2>4
<1> QED
    BY <1>1, FS_Subset DEF ThreadsIn

Enters(t) == t \notin ThreadsIn /\ ThreadsIn' = ThreadsIn \cup {t} /\ servingWG' = servingWG + 1
Leaves(t) == t \in ThreadsIn /\ ThreadsIn' = ThreadsIn \ {t} /\ servingWG' = servingWG - 1
Stays == ThreadsIn' = ThreadsIn /\ servingWG' = servingWG

\* What Serve, its cleanup goroutine and notifyClients do to the group.
LEMMA WaitThreads ==
    ASSUME ServerTypeInv, CleanupOrder, Listen \/ Serve \/ Cleanup \/ notifyClients
    PROVE  /\ Stays \/ \E t \in {"serve", "notify", "cleanup"} : Enters(t) \/ Leaves(t)
           /\ CleanupOrder'
<1> USE DEF ServerTypeInv, ThreadsIn, ServeIn, NotifyIn, CleanupIn, CleanupOrder, Goto,
           Enters, Leaves, Stays
<1>1. CASE Listen
    <2>1. Enters("serve") BY <1>1 DEF Listen
    <2>2. CleanupOrder' BY <1>1 DEF Listen
    <2> QED BY <2>1, <2>2
<1>2. CASE ServeStart
    <2>1. Enters("cleanup") BY <1>2 DEF ServeStart
    <2>2. CleanupOrder' BY <1>2 DEF ServeStart
    <2> QED BY <2>1, <2>2
<1>3. CASE Loop("serve", "accept")
    <2>1. Stays \/ Leaves("serve") BY <1>3 DEF Loop
    <2>2. CleanupOrder' BY <1>3 DEF Loop
    <2> QED BY <2>1, <2>2
<1>4. CASE Accept \/ addClient
    <2>1. Stays BY ZenonT(20), <1>4 DEF Accept, addClient
    <2>2. CleanupOrder' BY <1>4 DEF Accept, addClient
    <2> QED BY <2>1, <2>2
<1>5. CASE CloseListener
    <2>1. Stays BY <1>5 DEF CloseListener
    <2>2. CleanupOrder' BY <1>5 DEF CloseListener
    <2> QED BY <2>1, <2>2
<1>6. CASE CloseEvents
    <2>1. Leaves("cleanup") BY <1>6 DEF CloseEvents
    <2>2. CleanupOrder' BY <1>6 DEF CloseEvents
    <2> QED BY <2>1, <2>2
<1>7. CASE NotifyStart
    <2>1. Enters("notify") BY <1>7 DEF NotifyStart
    <2>2. CleanupOrder' BY <1>7 DEF NotifyStart
    <2> QED BY <2>1, <2>2
<1>8. CASE Loop("notify", "receive")
    <2>1. Stays \/ Leaves("notify") BY <1>8 DEF Loop
    <2>2. CleanupOrder' BY <1>8 DEF Loop
    <2> QED BY <2>1, <2>2
<1>9. CASE NotifyReceive \/ NotifyLock \/ NotifyWrite \/ NotifyUnlock
    <2>1. Stays BY ZenonT(20), <1>9 DEF NotifyReceive, NotifyLock, NotifyWrite, NotifyUnlock
    <2>2. CleanupOrder' BY <1>9 DEF NotifyReceive, NotifyLock, NotifyWrite, NotifyUnlock
    <2> QED BY <2>1, <2>2
<1> HIDE DEF ServerTypeInv, ThreadsIn, ServeIn, NotifyIn, CleanupIn, CleanupOrder, Goto,
            Enters, Leaves, Stays
<1> QED
    BY <1>1, <1>2, <1>3, <1>4, <1>5, <1>6, <1>7, <1>8, <1>9
       DEF Serve, Cleanup, notifyClients

\* A goroutine enters or leaves: the counter follows the members.
LEMMA WaitCounted ==
    ASSUME servingWG = Cardinality(ThreadsIn) + Cardinality(Removers), UNCHANGED Removers,
           IsFiniteSet(Removers),
           Stays \/ \E t \in {"serve", "notify", "cleanup"} : Enters(t) \/ Leaves(t)
    PROVE  servingWG' = Cardinality(ThreadsIn') + Cardinality(Removers')
<1>1. /\ IsFiniteSet(ThreadsIn)
      /\ Cardinality(ThreadsIn) \in Nat /\ Cardinality(Removers) \in Nat
    BY ThreadsFinite, FS_CardinalityType
<1>2. CASE Stays
    BY <1>1, <1>2 DEF Stays
<1>3. ASSUME NEW t \in {"serve", "notify", "cleanup"}, Enters(t)
      PROVE  servingWG' = Cardinality(ThreadsIn') + Cardinality(Removers')
    <2>1. Cardinality(ThreadsIn \cup {t}) = Cardinality(ThreadsIn) + 1
        BY <1>1, <1>3, FS_AddElement DEF Enters
    <2> QED
        BY SMT, <1>1, <1>3, <2>1 DEF Enters
<1>4. ASSUME NEW t \in {"serve", "notify", "cleanup"}, Leaves(t)
      PROVE  servingWG' = Cardinality(ThreadsIn') + Cardinality(Removers')
    <2>1. Cardinality(ThreadsIn \ {t}) = Cardinality(ThreadsIn) - 1
        BY <1>1, <1>4, FS_RemoveElement DEF Leaves
    <2> QED
        BY SMT, <1>1, <1>4, <2>1 DEF Leaves
<1> QED
    BY <1>2, <1>3, <1>4

\* The goroutines of removeClient are spawned by failed writes, which change
\* who waits to enter and not who has entered.
LEMMA SpawnedOnly ==
    ASSUME removing \in [Clients -> [spawned : Nat, entered : Nat]], ServerTypeInv,
           Listen \/ Serve \/ Cleanup \/ notifyClients
    PROVE  /\ removing' \in [Clients -> [spawned : Nat, entered : Nat]]
           /\ UNCHANGED Removers
<1>1. CASE UNCHANGED removing
    BY <1>1 DEF Removers
<1>2. ASSUME NEW c \in Clients, removing' = [removing EXCEPT ![c].spawned = @ + 1]
      PROVE  /\ removing' \in [Clients -> [spawned : Nat, entered : Nat]]
             /\ UNCHANGED Removers
    <2>1. removing' \in [Clients -> [spawned : Nat, entered : Nat]]
        BY SMT, <1>2
    <2>2. \A d \in Clients : removing'[d].entered = removing[d].entered
        BY <1>2
    <2> QED
        BY <2>1, <2>2 DEF Removers
<1>3. CASE NotifyWrite
    BY <1>1, <1>2, <1>3 DEF NotifyWrite, Write, WriteFails, ServerTypeInv
<1> QED
    BY <1>1, <1>3 DEF Listen, Serve, Cleanup, notifyClients, ServeStart, Loop, Accept,
       addClient, CloseListener, CloseEvents, NotifyStart, NotifyReceive, NotifyLock,
       NotifyUnlock

LEMMA WaitRemoveStart ==
    ASSUME WaitInv, NEW c \in Clients, RemoveStart(c)
    PROVE  WaitInv'
<1> DEFINE n == removing[c].entered
           p == <<c, n + 1>>
<1>1. n \in Nat /\ removing[c].spawned \in Nat
    BY DEF WaitInv
<1>2. /\ removing' \in [Clients -> [spawned : Nat, entered : Nat]]
      /\ removing'[c].entered = n + 1
      /\ \A d \in Clients \ {c} : removing'[d] = removing[d]
    BY SMT, <1>1 DEF WaitInv, RemoveStart
<1>3. p \notin Removers
    BY SMT, <1>1 DEF Removers
<1>4. Removers' = Removers \cup {p}
    BY SMT, <1>1, <1>2 DEF Removers
<1> HIDE DEF n, p
<1>5. IsFiniteSet(Removers') /\ Cardinality(Removers') = Cardinality(Removers) + 1
    BY <1>3, <1>4, FS_AddElement DEF WaitInv
<1>6. ThreadsIn' = ThreadsIn /\ CleanupOrder'
    BY DEF WaitInv, RemoveStart, ThreadsIn, ServeIn, NotifyIn, CleanupIn, CleanupOrder
<1>7. Cardinality(ThreadsIn) \in Nat /\ Cardinality(Removers) \in Nat
    BY ThreadsFinite, FS_CardinalityType DEF WaitInv
<1>8. servingWG' = Cardinality(ThreadsIn') + Cardinality(Removers')
    BY SMT, <1>5, <1>6, <1>7 DEF WaitInv, RemoveStart
<1>9. Len(eventC') <= EventCap
    BY DEF WaitInv, RemoveStart
<1> QED
    BY <1>2, <1>5, <1>6, <1>8, <1>9 DEF WaitInv

LEMMA WaitRemoveEnd ==
    ASSUME WaitInv, NEW c \in Clients, RemoveEnd(c)
    PROVE  WaitInv'
<1> DEFINE n == removing[c].entered
           p == <<c, n>>
<1>1. n \in Nat /\ n > 0
    BY DEF WaitInv, RemoveEnd
<1>2. /\ removing' \in [Clients -> [spawned : Nat, entered : Nat]]
      /\ removing'[c].entered = n - 1
      /\ \A d \in Clients \ {c} : removing'[d] = removing[d]
    <2>1. /\ removing \in [Clients -> [spawned : Nat, entered : Nat]]
          /\ removing' = [removing EXCEPT ![c].entered = @ - 1]
        BY DEF WaitInv, RemoveEnd
    <2>2. removing[c].spawned \in Nat /\ n - 1 \in Nat
        BY SMT, <1>1, <2>1
    <2> QED
        BY <2>1, <2>2
<1>3. p \in Removers
    BY SMT, <1>1 DEF Removers
<1>4. Removers' = Removers \ {p}
    BY SMT, <1>1, <1>2 DEF Removers
<1> HIDE DEF n, p
<1>5. IsFiniteSet(Removers') /\ Cardinality(Removers') = Cardinality(Removers) - 1
    BY <1>3, <1>4, FS_RemoveElement DEF WaitInv
<1>6. ThreadsIn' = ThreadsIn /\ CleanupOrder'
    BY DEF WaitInv, RemoveEnd, ThreadsIn, ServeIn, NotifyIn, CleanupIn, CleanupOrder
<1>7. Cardinality(ThreadsIn) \in Nat /\ Cardinality(Removers) \in Nat
    BY ThreadsFinite, FS_CardinalityType DEF WaitInv
<1>8. servingWG' = Cardinality(ThreadsIn') + Cardinality(Removers')
    BY SMT, <1>5, <1>6, <1>7 DEF WaitInv, RemoveEnd
<1>9. Len(eventC') <= EventCap
    BY DEF WaitInv, RemoveEnd
<1> QED
    BY <1>2, <1>5, <1>6, <1>8, <1>9 DEF WaitInv

LEMMA WaitStep ==
    ASSUME ServerTypeInv, WaitInv, [EventNext]_eventVars
    PROVE  WaitInv'
<1>1. CASE Listen \/ Serve \/ Cleanup \/ notifyClients
    <2>1. Len(eventC') <= EventCap
        <3>1. CASE UNCHANGED eventC
            BY <3>1 DEF WaitInv
        <3>2. CASE NotifyReceive
            <4>1. eventC \in Seq(Nat) /\ Len(eventC) <= EventCap
                BY DEF WaitInv, ServerTypeInv
            <4>2. eventC' = eventC \/ (eventC # <<>> /\ eventC' = Tail(eventC))
                BY <3>2 DEF NotifyReceive
            <4> QED
                BY SMT, <4>1, <4>2
        <3> QED
            BY <1>1, <3>1, <3>2 DEF Listen, Serve, Cleanup, notifyClients, ServeStart, Loop,
               Accept, addClient, CloseListener, CloseEvents, NotifyStart, NotifyLock,
               NotifyWrite, NotifyUnlock
    <2>2. /\ Stays \/ \E t \in {"serve", "notify", "cleanup"} : Enters(t) \/ Leaves(t)
          /\ CleanupOrder'
        BY <1>1, WaitThreads DEF WaitInv
    <2>3. /\ removing' \in [Clients -> [spawned : Nat, entered : Nat]]
          /\ UNCHANGED Removers
        BY <1>1, SpawnedOnly DEF WaitInv
    <2>4. servingWG' = Cardinality(ThreadsIn') + Cardinality(Removers')
        BY <2>2, <2>3, WaitCounted DEF WaitInv
    <2> QED
        BY <2>1, <2>2, <2>3, <2>4 DEF WaitInv
<1>2. ASSUME NEW c \in Clients, removeClient(c)
      PROVE  WaitInv'
    BY <1>2, WaitRemoveStart, WaitRemoveEnd DEF removeClient
<1>3. CASE UNCHANGED <<pc, eventClosed, servingWG, removing>> /\ Len(eventC') <= EventCap
    BY <1>3 DEF WaitInv, Removers, ThreadsIn, ServeIn, NotifyIn, CleanupIn, CleanupOrder
<1>4. CASE Flow
    <2>1. Len(eventC') <= EventCap
        <3>1. eventC \in Seq(Nat) /\ Len(eventC) <= EventCap
            BY DEF WaitInv, ServerTypeInv
        <3>2. \/ eventC' = eventC
              \/ Len(eventC) < EventCap /\ eventC' = Append(eventC, flows + 1)
            BY <1>4 DEF Flow
        <3> QED
            BY SMT, <3>1, <3>2
    <2> QED
        BY <1>3, <1>4, <2>1 DEF Flow
<1>5. CASE Cancel \/ UNCHANGED eventVars
    BY <1>3, <1>5 DEF Cancel, eventVars, WaitInv
<1>6. ASSUME NEW c \in Clients, Dial(c) \/ Handle(c) \/ Leave(c)
      PROVE  WaitInv'
    BY <1>3, <1>6 DEF Dial, Handle, Leave, WaitInv
<1> QED
    BY <1>1, <1>2, <1>4, <1>5, <1>6 DEF EventNext

LEMMA WaitIsInvariant == EventSpec => [](ServerInv /\ WaitInv)
<1>1. EventInit => ServerInv /\ WaitInv
    BY ServerInit, WaitInit
<1>2. ServerInv /\ WaitInv /\ [EventNext]_eventVars => (ServerInv /\ WaitInv)'
    BY ServerStep, WaitStep DEF ServerInv
<1> QED
    BY <1>1, <1>2, PTL DEF EventSpec

(***************************************************************************)
(* The server's state stays well-typed.  In particular the counter of the  *)
(* wait group, whose Add and Done are spread over Listen, Serve, its       *)
(* cleanup, notifyClients and every removeClient, never becomes negative:  *)
(* no Done panics, for any number of clients and of failed writes.         *)
(***************************************************************************)
THEOREM ServerWellTyped == EventSpec => []EventTypeOK
<1>1. ServerInv /\ WaitInv => EventTypeOK
    <2> SUFFICES ASSUME ServerInv, WaitInv PROVE EventTypeOK
        OBVIOUS
    <2>1. Cardinality(ThreadsIn) \in Nat /\ Cardinality(Removers) \in Nat
        BY ThreadsFinite, FS_CardinalityType DEF WaitInv
    <2>2. servingWG \in Nat
        BY SMT, <2>1 DEF WaitInv
    <2>3. todo \subseteq clients
        BY DEF ServerInv, ClientsInOrder
    <2> QED
        BY <2>2, <2>3 DEF EventTypeOK, WaitInv
<1> QED
    BY <1>1, WaitIsInvariant, PTL

(***************************************************************************)
(* main's wait on servingWG ends only once Serve has returned, its cleanup *)
(* has closed eventC, and neither is still to be scheduled.                *)
(***************************************************************************)
THEOREM WaitingCoversServe == EventSpec => []WaitCoversServe
<1>1. ServerInv /\ WaitInv => WaitCoversServe
    <2> SUFFICES ASSUME ServerInv, WaitInv, pc.serve # "none", servingWG = 0
                 PROVE  pc.serve = "returned" /\ pc.cleanup = "returned" /\ eventClosed
        BY DEF WaitCoversServe
    <2>1. Cardinality(ThreadsIn) \in Nat /\ Cardinality(Removers) \in Nat
        BY ThreadsFinite, FS_CardinalityType DEF WaitInv
    <2>2. Cardinality(ThreadsIn) = 0
        BY SMT, <2>1 DEF WaitInv
    <2>3. ThreadsIn = {}
        BY <2>2, ThreadsFinite, FS_EmptySet
    <2>4. ~ServeIn /\ ~CleanupIn
        BY <2>3 DEF ThreadsIn
    <2> QED
        BY <2>4 DEF ServeIn, CleanupIn, WaitInv, CleanupOrder
<1> QED
    BY <1>1, WaitIsInvariant, PTL

=============================================================================
