------------------------------- MODULE Saver -------------------------------
(***************************************************************************)
(* saver/saver.go: the goroutine of MessageSaverLoop, the marshaller       *)
(* goroutines it feeds, and the files they write.                          *)
(*                                                                         *)
(* The saver goroutine owns the cache, the connections and the byte        *)
(* totals.  It meets the other goroutines only where it sends a task on a  *)
(* marshaller's channel or creates a file, so its code is cut into one     *)
(* action per such point (variable pc); everything between two of them is  *)
(* one action.  The producer of the message blocks is any collector: it    *)
(* sends any sequence of members of Blocks and then closes the channel.    *)
(***************************************************************************)
EXTENDS Cache

CONSTANTS
    Blocks,          \* the rounds of messages the collector may deliver
    NumMarshaller,   \* number of marshallers
    MarshalCap,      \* capacity of a marshaller's channel, 100 in the code
    ReaderCap,       \* capacity of the channel of message blocks, 2 in main
    FilePeriod,      \* ticks a file is kept before it is rotated: ten minutes
    DayLength,       \* ticks in a day
    ReportLimit,     \* bytes above which an increment is not believed
    CreateMayFail,   \* whether creating a directory or a file can fail
    Anonymizer,      \* the method given by the flag -anonymize.ip
    MaxLag,          \* bound: age of a block when it is sent
    MaxBlocks,       \* bound: number of blocks sent
    MaxTime          \* bound: the clock

Block == [V4Messages : Seq(NetlinkMessage), V6Messages : Seq(NetlinkMessage)]

ASSUME SaverAssumption ==
    /\ Blocks \subseteq Block
    /\ NumMarshaller \in Nat \ {0}
    /\ MarshalCap \in Nat \ {0}
    /\ ReaderCap \in Nat \ {0}
    /\ FilePeriod \in Nat
    /\ DayLength \in Nat \ {0}
    /\ ReportLimit \in Nat
    /\ CreateMayFail \in BOOLEAN
    /\ Anonymizer \in Methods
    /\ MaxLag \in Nat
    /\ MaxBlocks \in Nat
    /\ MaxTime \in Nat

VARIABLES
    \* The world around the saver.
    now,             \* the wall clock
    readerChannel,   \* blocks sent and not yet received
    readerClosed,    \* close(svrChan) has been called
    sent,            \* blocks sent so far
    \* The saver goroutine.
    pc,              \* where it is
    work,            \* the messages of the block still to be handled
    pm,              \* the record queue() is working on
    residual,        \* what EndCycle returned and is still to be retired
    ending,          \* the cookie endConn is working on
    toClose,         \* the connections Close has still to end
    blockTime,       \* V4Time of the block
    live,            \* bytes of the connections in the block
    connections,     \* Connections
    closingStats,    \* ClosingStats
    closingTotals,   \* ClosingTotals
    closed,          \* bytes of the connections that are gone
    reported,        \* bytes reported to Prometheus
    lastReportTime,
    reports,         \* observations of the two rate histograms
    stats,           \* the saver's counters
    \* The marshallers and the outside world they and the saver write to.
    marshalChan,     \* the tasks in each marshaller's channel
    marshalClosed,   \* the channels have been closed
    exited,          \* the marshallers that have returned
    done,            \* the counter of the wait group Done
    writers,         \* every zstd writer opened, in order
    lines,           \* what has been written to each of them
    events           \* calls of the event server, in order

envVars   == <<now, readerChannel, readerClosed, sent>>
connVars  == <<connections, writers, lines, marshalChan>>
byteVars  == <<closingStats, closingTotals, closed>>
repVars   == <<reported, lastReportTime, reports>>
roundVars == <<work, residual, blockTime, live>>
exitVars  == <<marshalClosed, exited, done>>
vars == <<envVars, cacheVars, connVars, byteVars, repVars, roundVars, exitVars,
          pc, pm, ending, toClose, stats, events>>

\* What only the saver goroutine writes, and what queue and endConn leave alone.
loopVars  == <<cacheVars, byteVars, repVars, roundVars, pc, pm, ending, toClose,
               stats, events>>
frameVars == <<envVars, cacheVars, byteVars, repVars, roundVars, exitVars, toClose>>

-----------------------------------------------------------------------------
Marshallers == 0 .. NumMarshaller - 1

\* Mutant: round robin instead of by connection.
MarshallerInTurn(cookie) == Len(writers) % NumMarshaller

MarshallerOf(cookie) == cookie % NumMarshaller

\* A writer is named by its position in writers; the nil writer is 0.
NilWriter == 0

\* pm outside queue.
NoRecord == <<>>

CloseTask(w)     == [Close |-> TRUE, Writer |-> w]
SaveTask(msg, w) == [Close |-> FALSE, Writer |-> w, Message |-> msg]

\* Mutant: a send that gives up when the channel is full.
SendOrDrop(m, task) ==
    marshalChan' = IF Len(marshalChan[m]) < MarshalCap
                   THEN [marshalChan EXCEPT ![m] = Append(@, task)] ELSE marshalChan

\* q <- task: blocks while the channel is full.
Send(m, task) ==
    /\ Len(marshalChan[m]) < MarshalCap
    /\ marshalChan' = [marshalChan EXCEPT ![m] = Append(@, task)]

Date(t) == t \div DayLength

NoBytes == [Sent |-> 0, Received |-> 0]
Plus(a, b)  == [Sent |-> a.Sent + b.Sent, Received |-> a.Received + b.Received]
Minus(a, b) == [Sent |-> a.Sent - b.Sent, Received |-> a.Received - b.Received]

\* A slice of messages paired with the time handleType is given.
Timed(t, msgs) == [i \in DOMAIN msgs |-> [Time |-> t, Message |-> msgs[i]]]

Inc(s, field) == [s EXCEPT ![field] = @ + 1]

FlowCreated(c) == events' = Append(events, [Event |-> "Open", Cookie |-> c])
FlowDeleted(c) == events' = Append(events, [Event |-> "Close", Cookie |-> c])

-----------------------------------------------------------------------------
Init ==
    /\ now = 0
    /\ readerChannel = <<>> /\ readerClosed = FALSE /\ sent = 0
    /\ CacheInit
    /\ pc = "recv"
    /\ work = <<>> /\ residual = EmptyMap /\ blockTime = 0 /\ live = NoBytes
    /\ pm = NoRecord /\ ending = 0 /\ toClose = {}
    /\ connections = EmptyMap
    /\ closingStats = EmptyMap /\ closingTotals = NoBytes /\ closed = NoBytes
    /\ reported = NoBytes /\ lastReportTime = -1 /\ reports = NoBytes
    /\ stats = [Total |-> 0, New |-> 0, Diff |-> 0, Expired |-> 0]
    /\ marshalChan = [m \in Marshallers |-> <<>>]
    /\ marshalClosed = FALSE
    /\ exited = {}
    /\ done = NumMarshaller + 1
    /\ writers = <<>> /\ lines = <<>>
    /\ events = <<>>

-----------------------------------------------------------------------------
(* The collector, as the saver sees it, and the clock. *)

Tick ==
    /\ now < MaxTime
    /\ now' = now + 1
    /\ UNCHANGED <<readerChannel, readerClosed, sent, loopVars, connVars, exitVars>>

\* The v6 sockets are read before the v4 sockets.
SendBlock ==
    /\ ~readerClosed
    /\ sent < MaxBlocks
    /\ Len(readerChannel) < ReaderCap
    /\ sent' = sent + 1
    /\ \E b \in Blocks, t4, t6 \in {t \in 0 .. now : t + MaxLag >= now} :
          /\ t6 <= t4
          /\ readerChannel' = Append(readerChannel,
                 [V4Time |-> t4, V4Messages |-> b.V4Messages,
                  V6Time |-> t6, V6Messages |-> b.V6Messages])
    /\ UNCHANGED <<now, readerClosed, loopVars, connVars, exitVars>>

CloseReader ==
    /\ ~readerClosed
    /\ readerClosed' = TRUE
    /\ UNCHANGED <<now, readerChannel, sent, loopVars, connVars, exitVars>>

-----------------------------------------------------------------------------
(* MessageSaverLoop, handleType and swapAndQueue. *)

Receive ==
    /\ pc = "recv"
    /\ readerChannel # <<>>
    /\ LET b == Head(readerChannel) IN
          /\ work' = Timed(b.V4Time, b.V4Messages) \o Timed(b.V6Time, b.V6Messages)
          /\ blockTime' = b.V4Time
    /\ readerChannel' = Tail(readerChannel)
    /\ live' = NoBytes
    /\ pc' = "handle"
    /\ UNCHANGED <<now, readerClosed, sent, cacheVars, connVars, byteVars,
                   repVars, residual, exitVars, pm, ending, toClose, stats,
                   events>>

\* Nil, malformed, wrong type or local.
SkipMessage ==
    /\ pc = "handle"
    /\ work # <<>>
    /\ ~Archivable(Head(work).Message)
    /\ work' = Tail(work)
    /\ UNCHANGED <<envVars, cacheVars, connVars, byteVars, repVars, residual,
                   blockTime, live, exitVars, pc, pm, ending, toClose, stats,
                   events>>

\* Mutant: the totals are not increased.
SaveClosingStatsOnly(ar, old) ==
    /\ closingStats' = IF ~HasDiagInfo(ar) /\ HasDiagInfo(old)
                       THEN MapPut(closingStats, ar.RawIDM.Cookie, GetStats(old))
                       ELSE closingStats
    /\ UNCHANGED closingTotals

\* A socket that has lost its TCPInfo: its bytes are kept until it is gone.
SaveClosingStats(ar, old) ==
    IF ~HasDiagInfo(ar) /\ HasDiagInfo(old)
    THEN /\ closingStats' = MapPut(closingStats, ar.RawIDM.Cookie, GetStats(old))
         /\ closingTotals' = Plus(closingTotals, GetStats(old))
    ELSE UNCHANGED <<closingStats, closingTotals>>

\* swapAndQueue for a cookie that was not in the last round, for one whose
\* record has changed, and for one whose record has not.
SwapNew(ar) ==
    /\ ar.RawIDM.Cookie \notin DOMAIN previous
    /\ stats' = Inc(Inc(stats, "Total"), "New")
    /\ pc' = "queue" /\ pm' = ar
    /\ UNCHANGED <<closingStats, closingTotals>>

SwapChanged(ar) ==
    /\ ar.RawIDM.Cookie \in DOMAIN previous
    /\ Compare(ar, previous[ar.RawIDM.Cookie]) > NoMajorChange
    /\ SaveClosingStats(ar, previous[ar.RawIDM.Cookie])
    /\ stats' = Inc(Inc(stats, "Total"), "Diff")
    /\ pc' = "queue" /\ pm' = ar

SwapSame(ar) ==
    /\ ar.RawIDM.Cookie \in DOMAIN previous
    /\ Compare(ar, previous[ar.RawIDM.Cookie]) = NoMajorChange
    /\ SaveClosingStats(ar, previous[ar.RawIDM.Cookie])
    /\ stats' = Inc(stats, "Total")
    /\ UNCHANGED <<pc, pm>>

HandleRecord ==
    /\ pc = "handle"
    /\ work # <<>>
    /\ Archivable(Head(work).Message)
    /\ LET ar == MakeArchivalRecord(Head(work).Message, Head(work).Time) IN
          /\ live' = Plus(live, GetStats(ar))
          /\ Update(ar)
          /\ SwapNew(ar) \/ SwapChanged(ar) \/ SwapSame(ar)
    /\ work' = Tail(work)
    /\ UNCHANGED <<envVars, connVars, closed, repVars, residual, blockTime,
                   exitVars, ending, toClose, events>>

-----------------------------------------------------------------------------
(* queue and Rotate, for the record pm. *)

conn == connections[pm.RawIDM.Cookie]

SetConn(c) == connections' = [connections EXCEPT ![pm.RawIDM.Cookie] = c]

newConnection(t) == [StartTime |-> t, Sequence |-> 0, Expiration |-> now,
                     Writer |-> NilWriter]

\* A zero cookie is an error.
QueueReject ==
    /\ pc = "queue"
    /\ pm.RawIDM.Cookie = 0
    /\ pc' = "handle"
    /\ pm' = NoRecord
    /\ UNCHANGED <<frameVars, connVars, ending, stats, events>>

\* Find the connection, or announce and create it.
QueueLookup ==
    /\ pc = "queue"
    /\ pm.RawIDM.Cookie # 0
    /\ \/ /\ pm.RawIDM.Cookie \in DOMAIN connections
          /\ UNCHANGED <<connections, events>>
       \/ /\ pm.RawIDM.Cookie \notin DOMAIN connections
          /\ FlowCreated(pm.RawIDM.Cookie)
          /\ connections' = MapPut(connections, pm.RawIDM.Cookie,
                                   newConnection(pm.Timestamp))
    /\ pc' = "expire"
    /\ UNCHANGED <<frameVars, writers, lines, marshalChan, pm, ending, stats>>

Expired == now > conn.Expiration /\ conn.Writer # NilWriter

\* Mutants: the writer is not reset after its close task is sent; it is reset
\* without one.
QueueExpireNoReset ==
    /\ pc = "expire"
    /\ Expired
    /\ Send(MarshallerOf(pm.RawIDM.Cookie), CloseTask(conn.Writer))
    /\ pc' = "send"
    /\ UNCHANGED <<frameVars, connections, writers, lines, pm, ending, stats, events>>
QueueExpireNoClose ==
    /\ pc = "expire"
    /\ Expired
    /\ SetConn([conn EXCEPT !.Writer = NilWriter])
    /\ pc' = "rotate"
    /\ UNCHANGED <<frameVars, writers, lines, marshalChan, pm, ending, stats, events>>

\* Close the previous file.
QueueExpire ==
    /\ pc = "expire"
    /\ Expired
    /\ Send(MarshallerOf(pm.RawIDM.Cookie), CloseTask(conn.Writer))
    /\ SetConn([conn EXCEPT !.Writer = NilWriter])
    /\ pc' = "rotate"
    /\ UNCHANGED <<frameVars, writers, lines, pm, ending, stats, events>>

QueueKeep ==
    /\ pc = "expire"
    /\ ~Expired
    /\ pc' = IF conn.Writer = NilWriter THEN "rotate" ELSE "send"
    /\ UNCHANGED <<frameVars, connVars, pm, ending, stats, events>>

\* Date directory, connection and number of the file Rotate opens.
FileName ==
    [Date     |-> Date(IF conn.Sequence > 0 THEN now ELSE conn.StartTime),
     Cookie   |-> pm.RawIDM.Cookie,
     Sequence |-> conn.Sequence]

Header == [Sequence |-> conn.Sequence, StartTime |-> conn.StartTime]

\* Mutant: the sequence number is not increased.
RotateSameSequence ==
    /\ pc = "rotate"
    /\ writers' = Append(writers, [Name |-> FileName, Created |-> now, Open |-> TRUE])
    /\ lines' = Append(lines, <<Header>>)
    /\ SetConn([conn EXCEPT !.Writer = Len(writers) + 1, !.Expiration = @ + FilePeriod])
    /\ pc' = "send"
    /\ UNCHANGED <<frameVars, marshalChan, pm, ending, stats, events>>

\* Open the next file, write its header, set the time of the next rotation.
Rotate ==
    /\ pc = "rotate"
    /\ writers' = Append(writers, [Name |-> FileName, Created |-> now, Open |-> TRUE])
    /\ lines' = Append(lines, <<Header>>)
    /\ SetConn([conn EXCEPT !.Writer = Len(writers) + 1,
                            !.Expiration = @ + FilePeriod,
                            !.Sequence = @ + 1])
    /\ pc' = "send"
    /\ UNCHANGED <<frameVars, marshalChan, pm, ending, stats, events>>

\* Mutant: the connection is forgotten with the record.
RotateFailsForgets ==
    /\ pc = "rotate"
    /\ CreateMayFail
    /\ connections' = MapDelete(connections, pm.RawIDM.Cookie)
    /\ pc' = "handle"
    /\ pm' = NoRecord
    /\ UNCHANGED <<frameVars, writers, lines, marshalChan, ending, stats, events>>

\* MkdirAll or NewWriter fails: the record is dropped, the writer stays nil.
RotateFails ==
    /\ pc = "rotate"
    /\ CreateMayFail
    /\ pc' = "handle"
    /\ pm' = NoRecord
    /\ UNCHANGED <<frameVars, connVars, ending, stats, events>>

QueueSend ==
    /\ pc = "send"
    /\ Send(MarshallerOf(pm.RawIDM.Cookie), SaveTask(pm, conn.Writer))
    /\ pc' = "handle"
    /\ pm' = NoRecord
    /\ UNCHANGED <<frameVars, connections, writers, lines, ending, stats, events>>

-----------------------------------------------------------------------------
(* The end of a round: EndCycle, endConn and the report. *)

FinishRound ==
    /\ pc = "handle"
    /\ work = <<>>
    /\ residual' = previous
    /\ EndCycle
    /\ pc' = "retire"
    /\ UNCHANGED <<envVars, connVars, byteVars, repVars, work, blockTime, live,
                   exitVars, pm, ending, toClose, stats, events>>

\* Mutants: the bytes of a connection that is gone are lost; those put aside
\* stay in the totals.
CloseBytesLost(c) == UNCHANGED byteVars
CloseBytesKeepTotals(c) ==
    /\ closed' = Plus(closed, IF HasDiagInfo(residual[c]) THEN GetStats(residual[c])
                              ELSE IF c \in DOMAIN closingStats THEN closingStats[c]
                              ELSE NoBytes)
    /\ UNCHANGED <<closingStats, closingTotals>>

\* The bytes of a connection that is gone move to closed; they are those of its
\* last record, or those put aside when its TCPInfo disappeared.
CloseBytes(c) ==
    LET ar == residual[c] IN
    \/ /\ HasDiagInfo(ar)
       /\ closed' = Plus(closed, GetStats(ar))
       /\ UNCHANGED <<closingStats, closingTotals>>
    \/ /\ ~HasDiagInfo(ar)
       /\ c \in DOMAIN closingStats
       /\ closed' = Plus(closed, closingStats[c])
       /\ closingTotals' = Minus(closingTotals, closingStats[c])
       /\ closingStats' = MapDelete(closingStats, c)
    \/ /\ ~HasDiagInfo(ar)
       /\ c \notin DOMAIN closingStats
       /\ UNCHANGED byteVars

\* The residual map is visited in any order.
Retire ==
    /\ pc = "retire"
    /\ \E c \in DOMAIN residual :
          /\ CloseBytes(c)
          /\ residual' = MapDelete(residual, c)
          /\ ending' = c
          /\ FlowDeleted(c)
    /\ pc' = "endRetired"
    /\ UNCHANGED <<envVars, cacheVars, connVars, repVars, work, blockTime, live,
                   exitVars, pm, toClose, stats>>

\* Mutants: the test of the writer inverted; the connection not deleted.
endConnInverted(c) ==
    /\ connections' = IF c \in DOMAIN connections /\ connections[c].Writer = NilWriter
                      THEN MapDelete(connections, c) ELSE connections
    /\ UNCHANGED marshalChan
endConnNoDelete(c) ==
    \/ /\ c \in DOMAIN connections
       /\ connections[c].Writer # NilWriter
       /\ Send(MarshallerOf(c), CloseTask(connections[c].Writer))
       /\ UNCHANGED connections
    \/ /\ c \in DOMAIN connections => connections[c].Writer = NilWriter
       /\ UNCHANGED <<connections, marshalChan>>

\* The rest of endConn: close the writer and forget the connection, but only
\* if there is a writer.
endConn(c) ==
    \/ /\ c \in DOMAIN connections
       /\ connections[c].Writer # NilWriter
       /\ Send(MarshallerOf(c), CloseTask(connections[c].Writer))
       /\ connections' = MapDelete(connections, c)
    \/ /\ c \in DOMAIN connections => connections[c].Writer = NilWriter
       /\ UNCHANGED <<connections, marshalChan>>

EndRetired ==
    /\ pc = "endRetired"
    /\ endConn(ending)
    /\ stats' = Inc(stats, "Expired")
    /\ pc' = "retire"
    /\ ending' = 0
    /\ UNCHANGED <<frameVars, writers, lines, pm, events>>

total == Plus(Plus(closed, closingTotals), live)

\* An increment that is negative or too large is not reported.
Credible(new, old) == new <= ReportLimit + old /\ new >= old

Report ==
    /\ pc = "retire"
    /\ residual = EmptyMap
    /\ IF blockTime > lastReportTime
       THEN LET Ok(f) == Credible(total[f], reported[f]) IN
            /\ reported' = [Sent     |-> IF Ok("Sent") THEN total.Sent ELSE reported.Sent,
                            Received |-> IF Ok("Received") THEN total.Received
                                         ELSE reported.Received]
            /\ reports' = [Sent     |-> reports.Sent + (IF Ok("Sent") THEN 1 ELSE 0),
                           Received |-> reports.Received + (IF Ok("Received") THEN 1 ELSE 0)]
            /\ lastReportTime' = blockTime
       ELSE UNCHANGED repVars
    /\ pc' = "recv"
    /\ UNCHANGED <<envVars, cacheVars, connVars, byteVars, roundVars, exitVars,
                   pm, ending, toClose, stats, events>>

-----------------------------------------------------------------------------
(* Close, once the channel of blocks is closed and drained. *)

CloseBegin ==
    /\ pc = "recv"
    /\ readerClosed
    /\ readerChannel = <<>>
    /\ toClose' = DOMAIN connections
    /\ pc' = "close"
    /\ UNCHANGED <<envVars, cacheVars, connVars, byteVars, repVars, roundVars,
                   exitVars, pm, ending, stats, events>>

CloseConn ==
    /\ pc = "close"
    /\ \E c \in toClose :
          /\ toClose' = toClose \ {c}
          /\ ending' = c
          /\ FlowDeleted(c)
    /\ pc' = "endClosed"
    /\ UNCHANGED <<envVars, cacheVars, connVars, byteVars, repVars, roundVars,
                   exitVars, pm, stats>>

EndClosed ==
    /\ pc = "endClosed"
    /\ endConn(ending)
    /\ pc' = "close"
    /\ ending' = 0
    /\ UNCHANGED <<frameVars, writers, lines, pm, stats, events>>

CloseEnd ==
    /\ pc = "close"
    /\ toClose = {}
    /\ marshalClosed' = TRUE
    /\ done' = done - 1
    /\ pc' = "done"
    /\ UNCHANGED <<envVars, cacheVars, connVars, byteVars, repVars, roundVars,
                   exited, pm, ending, toClose, stats, events>>

-----------------------------------------------------------------------------
(* runMarshaller. *)

MarshalClose(m) ==
    /\ marshalChan[m] # <<>>
    /\ Head(marshalChan[m]).Close
    /\ writers' = [writers EXCEPT ![Head(marshalChan[m]).Writer].Open = FALSE]
    /\ marshalChan' = [marshalChan EXCEPT ![m] = Tail(@)]
    /\ UNCHANGED <<envVars, loopVars, connections, lines, exitVars>>

\* Mutant: a record is written even if Anonymize failed.
MarshalSaveRaw(m) ==
    /\ marshalChan[m] # <<>>
    /\ ~Head(marshalChan[m]).Close
    /\ LET task == Head(marshalChan[m]) IN
          lines' = [lines EXCEPT ![task.Writer] = Append(@,
                       IF CanAnonymize(task.Message) THEN Anonymize(task.Message, Anonymizer)
                       ELSE task.Message)]
    /\ marshalChan' = [marshalChan EXCEPT ![m] = Tail(@)]
    /\ UNCHANGED <<envVars, loopVars, connections, writers, exitVars>>

\* A record that cannot be anonymized is dropped, and so is, its error ignored,
\* what is written to a closed writer.
MarshalSave(m) ==
    /\ marshalChan[m] # <<>>
    /\ ~Head(marshalChan[m]).Close
    /\ LET task == Head(marshalChan[m]) IN
          lines' = IF CanAnonymize(task.Message) /\ writers[task.Writer].Open
                   THEN [lines EXCEPT ![task.Writer] =
                            Append(@, Anonymize(task.Message, Anonymizer))]
                   ELSE lines
    /\ marshalChan' = [marshalChan EXCEPT ![m] = Tail(@)]
    /\ UNCHANGED <<envVars, loopVars, connections, writers, exitVars>>

\* Mutant: the marshaller leaves when the channel is closed, drained or not.
MarshalExitUndrained(m) ==
    /\ marshalClosed
    /\ m \notin exited
    /\ exited' = exited \cup {m}
    /\ done' = done - 1
    /\ UNCHANGED <<envVars, loopVars, connVars, marshalClosed>>

MarshalExit(m) ==
    /\ marshalChan[m] = <<>>
    /\ marshalClosed
    /\ m \notin exited
    /\ exited' = exited \cup {m}
    /\ done' = done - 1
    /\ UNCHANGED <<envVars, loopVars, connVars, marshalClosed>>

-----------------------------------------------------------------------------
\* Done.Wait() has returned and main with it.
Finished == done = 0 /\ UNCHANGED vars

SaverStep ==
    \/ Receive \/ SkipMessage \/ HandleRecord
    \/ QueueReject \/ QueueLookup \/ QueueExpire \/ QueueKeep
    \/ Rotate \/ RotateFails \/ QueueSend
    \/ FinishRound \/ Retire \/ EndRetired \/ Report
    \/ CloseBegin \/ CloseConn \/ EndClosed \/ CloseEnd

Marshaller(m) == MarshalClose(m) \/ MarshalSave(m) \/ MarshalExit(m)

Next ==
    \/ Tick \/ SendBlock \/ CloseReader
    \/ SaverStep
    \/ \E m \in Marshallers : Marshaller(m)
    \/ Finished

Spec == Init /\ [][Next]_vars

=============================================================================
