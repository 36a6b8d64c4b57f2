------------------------------ MODULE TcpInfo ------------------------------
(***************************************************************************)
(* The program: main.go and collector/collector_linux.go in front of the   *)
(* saver, polling a kernel whose sockets open, send, lose their TCPInfo    *)
(* and go away.  A cookie names one socket for ever.  The steps of the     *)
(* saver and of the marshallers are those of module Saver.                 *)
(***************************************************************************)
EXTENDS SaverProperties, NetlinkAnswer

CONSTANTS
    Sockets,       \* the cookies of the sockets that may exist
    FamilyOf,      \* cookie -> address family
    Reps,          \* the largest number of rounds: -reps is at most this
    DumpMayFail,   \* whether a netlink request can fail
    MarkKept,      \* whether the kernel reports the mark of a closing socket
    MaxBytes       \* bound: bytes a socket sends

ASSUME TcpInfoAssumption ==
    /\ Sockets \subseteq Nat \ {0} /\ IsFiniteSet(Sockets)
    /\ FamilyOf \in [Sockets -> {AF_INET, AF_INET6}]
    /\ Reps \in Nat \ {0}
    /\ DumpMayFail \in BOOLEAN /\ MarkKept \in BOOLEAN
    /\ MaxBytes \in Nat

VARIABLES
    sock,          \* cookie -> the kernel's socket
    collector,     \* where the collector is
    buffer,        \* the block it is filling
    loops          \* rounds begun

kernelVars    == sock
collectorVars == <<collector, buffer, loops>>

-----------------------------------------------------------------------------
(* The kernel.  A socket is "open", then possibly "closing" (in FIN_WAIT2   *)
(* without attributes, or with a mark), then "gone"; it keeps its bytes.    *)

SetPhase(c, from, to) ==
    /\ sock[c].phase \in from
    /\ sock' = [sock EXCEPT ![c].phase = to]

SocketOpens(c)  == SetPhase(c, {"none"}, "open")
SocketCloses(c) == SetPhase(c, {"open"}, "closing")
SocketGoes(c)   == SetPhase(c, {"open", "closing"}, "gone")

SocketSends(c) ==
    /\ sock[c].phase = "open"
    /\ sock[c].bytes < MaxBytes
    /\ sock' = [sock EXCEPT ![c].bytes = @ + 1]

\* Only a request looks at the sockets, so it is enough that they change in any
\* way before each of the two requests of a round.
KernelStep ==
    /\ collector \in {"collect6", "collect4"}
    /\ \E c \in Sockets :
          SocketOpens(c) \/ SocketSends(c) \/ SocketCloses(c) \/ SocketGoes(c)
    /\ UNCHANGED <<collectorVars, vars>>

\* The bytes sent show in a counter that Compare looks at as well.
InfoOf(c) ==
    [Len |-> TCPInfoWithBytes, Early |-> 0, Times |-> 0,
     Counters |-> sock[c].bytes, Received |-> 0, Late |-> 0, Sent |-> sock[c].bytes]

Mark == [Len |-> 4, Early |-> 0, Times |-> 0, Counters |-> 0, Received |-> 0,
         Late |-> 0, Sent |-> 0]

\* The attributes of a socket in a dump.
AttrsOf(c) ==
    IF sock[c].phase = "open"
    THEN <<[Type |-> INET_DIAG_INFO, Malformed |-> FALSE, Value |-> InfoOf(c)]>>
    ELSE IF MarkKept
    THEN <<[Type |-> INET_DIAG_MARK, Malformed |-> FALSE, Value |-> Mark]>>
    ELSE <<>>

MessageOf(c) ==
    [Type |-> 20, Short |-> FALSE,
     IDM |-> [Family |-> FamilyOf[c], Cookie |-> c, Src |-> "global", Dst |-> "global",
              State |-> IF sock[c].phase = "open" THEN 1 ELSE 5],
     Attrs |-> AttrsOf(c)]

\* The answer to makeReq's request for the sockets of one family, in some order.
\* Its state mask leaves out SYN_RECV, TIME_WAIT and CLOSE: a socket that is not
\* yet open, or gone, is in one of these or does not exist.
Dump(family) ==
    LET found == {c \in Sockets : FamilyOf[c] = family
                                    /\ sock[c].phase \in {"open", "closing"}}
        order == CHOOSE f \in [1 .. Cardinality(found) -> found] : IsInjective(f)
    IN  [i \in DOMAIN order |-> MessageOf(order[i])]

-----------------------------------------------------------------------------
(* collectDefaultNamespace and Run. *)

\* What is in the block after OneType for one family.
OneType(family) == Outcomes(Dump(family), DumpMayFail)

EmptyBlock == [V4Time |-> 0, V4Messages |-> <<>>, V6Time |-> 0, V6Messages |-> <<>>]

Collect6 ==
    /\ collector = "collect6"
    /\ \E res \in OneType(AF_INET6) :
          buffer' = [EmptyBlock EXCEPT !.V6Time = now, !.V6Messages = res]
    /\ collector' = "collect4"
    /\ UNCHANGED <<kernelVars, loops, vars>>

Collect4 ==
    /\ collector = "collect4"
    /\ \E res \in OneType(AF_INET) :
          buffer' = [buffer EXCEPT !.V4Time = now, !.V4Messages = res]
    /\ collector' = "submit"
    /\ UNCHANGED <<kernelVars, loops, vars>>

\* Mutant: the channel has no limit.
SubmitUnbounded ==
    /\ collector = "submit"
    /\ readerChannel' = Append(readerChannel, buffer)
    /\ sent' = sent + 1
    /\ loops' = loops + 1
    /\ collector' \in {"stop"} \cup (IF loops + 1 < Reps THEN {"collect6"} ELSE {})
    /\ buffer' = EmptyBlock
    /\ UNCHANGED <<kernelVars, now, readerClosed, loopVars, connVars, exitVars>>

\* svr <- buffer, then the next round or the end of Run, which -reps or the
\* cancellation of the context may bring after any round.
Submit ==
    /\ collector = "submit"
    /\ Len(readerChannel) < ReaderCap
    /\ readerChannel' = Append(readerChannel, buffer)
    /\ sent' = sent + 1
    /\ loops' = loops + 1
    /\ collector' \in {"stop"} \cup (IF loops + 1 < Reps THEN {"collect6"} ELSE {})
    /\ buffer' = EmptyBlock
    /\ UNCHANGED <<kernelVars, now, readerClosed, loopVars, connVars, exitVars>>

\* Run has returned: main closes the channel and waits for Done.
Stop ==
    /\ collector = "stop"
    /\ CloseReader
    /\ collector' = "wait"
    /\ UNCHANGED <<kernelVars, buffer, loops>>

CollectorStep == Collect6 \/ Collect4 \/ Submit \/ Stop

-----------------------------------------------------------------------------
allVars == <<kernelVars, collectorVars, vars>>

ProgramInit ==
    /\ Init
    /\ sock \in [Sockets -> [phase : {"none"}, bytes : {0}]
                               \cup [phase : {"open"}, bytes : 0 .. MaxBytes]]
    /\ collector = "collect6"
    /\ buffer = EmptyBlock
    /\ loops = 0

Goroutines ==
    \/ SaverStep \/ Tick \/ Finished
    \/ \E m \in Marshallers : Marshaller(m)

ProgramNext ==
    \/ KernelStep
    \/ CollectorStep
    \/ Goroutines /\ UNCHANGED <<kernelVars, collectorVars>>

Program == ProgramInit /\ [][ProgramNext]_allVars

-----------------------------------------------------------------------------
(* Properties. *)

\* No file is written over.  os.Create truncates, so each call of Rotate has
\* to find a name that no file has had; the name has the date, the cookie and
\* the connection's sequence number, which starts again at 0 with a new
\* Connection.
NoFileOverwritten ==
    \A v, w \in DOMAIN writers : v # w => writers[v].Name # writers[w].Name

\* Close means closed.  FlowDeleted is called for a socket that is gone, or by
\* Close when the program ends.
CloseMeansClosed ==
    pc \notin Closing =>
        \A i \in DOMAIN events :
            events[i].Event = "Close" => sock[events[i].Cookie].phase = "gone"

\* The total of a round is counted: its residual has been retired.
Counted == pc = "retire" /\ residual = EmptyMap

BytesSent == SumFunction([c \in Sockets |-> sock[c].bytes])

\* Bytes are counted once.  The total that a round reports, over the sockets
\* that are gone, closing and live, never exceeds what the sockets have sent.
BytesCountedOnce == Counted => total.Sent <= BytesSent

\* Every second is reported.  Each round that begins a new second adds one
\* observation to the histogram of bytes sent: the total neither drops below
\* what has been reported nor exceeds it by more than is believed.
ReportsEverySecond ==
    [][lastReportTime' # lastReportTime => reports'.Sent = reports.Sent + 1]_allVars

\* No closing stats are left behind: between rounds they belong to sockets
\* in the cache, and ClosingTotals is exactly their sum.
ClosingStatsExact ==
    /\ pc = "recv" => DOMAIN closingStats \subseteq DOMAIN previous
    /\ closingTotals.Sent
         = SumFunction([c \in DOMAIN closingStats |-> closingStats[c].Sent])

=============================================================================
