-------------------------- MODULE SaverProperties --------------------------
(***************************************************************************)
(* What the saver has to guarantee, whatever blocks the collector sends.   *)
(***************************************************************************)
EXTENDS Saver

TimedMessage == [Time : Nat, Message : NetlinkMessage]

TimedBlock == [V4Time : Nat, V4Messages : Seq(NetlinkMessage),
               V6Time : Nat, V6Messages : Seq(NetlinkMessage)]

Connection == [StartTime : Nat, Sequence : Nat, Expiration : Nat, Writer : Nat]

Writer == [Name : [Date : Nat, Cookie : Nat, Sequence : Nat],
           Created : Nat, Open : BOOLEAN]

Task == [Close : {TRUE}, Writer : Nat \ {NilWriter}]
          \cup [Close : {FALSE}, Writer : Nat \ {NilWriter}, Message : Record]

HeaderRecord == [Sequence : Nat, StartTime : Nat]

Bytes == [Sent : Int, Received : Int]

Event == [Event : {"Open", "Close"}, Cookie : Nat]

\* The places at which queue is working on pm, and those of Close.
Queueing == {"queue", "expire", "rotate", "send"}
Closing  == {"close", "endClosed", "done"}

\* A map of the cache: records, each under its own cookie.
IsCacheMap(f) ==
    \A c \in DOMAIN f : f[c] \in Record /\ f[c].RawIDM.Cookie = c

RoundTypeOK ==
    /\ now \in Nat /\ sent \in Nat
    /\ readerChannel \in Seq(TimedBlock)
    /\ IsCacheMap(current) /\ IsCacheMap(previous) /\ IsCacheMap(residual)
    /\ cycles \in Nat
    /\ pc \in {"recv", "handle", "retire", "endRetired"} \cup Queueing \cup Closing
    /\ work \in Seq(TimedMessage)
    /\ pc \in Queueing => pm \in Record
    /\ ending \in Nat /\ blockTime \in Nat /\ toClose \subseteq Nat

WriterTypeOK ==
    /\ \A c \in DOMAIN connections : c \in Nat /\ connections[c] \in Connection
    /\ writers \in Seq(Writer)
    /\ lines \in Seq(Seq(Record \cup HeaderRecord))
    /\ Len(lines) = Len(writers)
    /\ marshalChan \in [Marshallers -> Seq(Task)]
    /\ events \in Seq(Event)

CountTypeOK ==
    /\ live \in Bytes /\ closed \in Bytes /\ closingTotals \in Bytes
    /\ \A c \in DOMAIN closingStats : c \in Nat /\ closingStats[c] \in Bytes
    /\ reported \in Bytes /\ reports \in Bytes
    /\ lastReportTime \in Int
    /\ stats \in [Total : Nat, New : Nat, Diff : Nat, Expired : Nat]

ExitTypeOK == exited \subseteq Marshallers /\ done \in Int

FlagTypeOK == readerClosed \in BOOLEAN /\ marshalClosed \in BOOLEAN

\* Type correctness.  In particular the cache keeps each record under the
\* record's own cookie, as Update computes it.
TypeOK == RoundTypeOK /\ WriterTypeOK /\ CountTypeOK /\ ExitTypeOK /\ FlagTypeOK

-----------------------------------------------------------------------------
(* Writers and files. *)

\* w is the current file of a connection; its close is under way.
Current(w) == \E c \in DOMAIN connections : connections[c].Writer = w

ClosePending(w) ==
    \E m \in Marshallers : \E i \in DOMAIN marshalChan[m] :
        marshalChan[m][i] = CloseTask(w)

\* No use after close.  queue, its rotation and endConn hand a writer to the
\* marshaller in an order in which every task meets an open writer, nothing
\* follows the writer's close task, and no connection still points at a writer
\* whose close task has been sent.  A write that came later would be lost
\* without a trace: runMarshaller ignores the error.
NoUseAfterClose ==
    \A m \in Marshallers : \A i \in DOMAIN marshalChan[m] :
        LET t == marshalChan[m][i] IN
        /\ t.Writer \in DOMAIN writers
        /\ writers[t.Writer].Open
        /\ t.Close => /\ ~Current(t.Writer)
                      /\ \A j \in DOMAIN marshalChan[m] :
                            j > i => marshalChan[m][j].Writer # t.Writer

\* No writer leaks.  A zstd process that is still open either belongs to a
\* connection or has its close task in a channel: Rotate, which overwrites
\* conn.Writer, and endConn, which forgets the connection, never lose one.
NoLeakedWriter ==
    \A w \in DOMAIN writers : writers[w].Open => Current(w) \/ ClosePending(w)

\* Only a connection the cache knows keeps a file open.  A connection that
\* has a writer is in the cache, or among those EndCycle reported missing and
\* endConn will end; in Close it is among those still to be ended.  Otherwise
\* the file of a dead connection would stay open until the program ends.
WriterInCache ==
    \A c \in DOMAIN connections :
        connections[c].Writer # NilWriter =>
            IF pc \in Closing
            THEN c \in toClose \/ (pc = "endClosed" /\ c = ending)
            ELSE \/ c \in DOMAIN current \cup DOMAIN previous \cup DOMAIN residual
                 \/ pc = "endRetired" /\ c = ending

\* Done means done.  When the wait group that main waits on reaches zero, the
\* marshallers have drained their channels and every file ever opened has been
\* closed, so leaving main loses nothing.
FilesClosedWhenDone ==
    done = 0 => /\ \A m \in Marshallers : marshalChan[m] = <<>>
                /\ \A w \in DOMAIN writers : ~writers[w].Open

\* One file of a connection at a time.  Once a file holds a record, the files
\* opened for that connection before it are closed: rotation sends the close
\* of the old file and the first record of the new one to the same marshaller.
OneFileAtATime ==
    \A v, w \in DOMAIN writers :
        /\ v < w
        /\ writers[v].Name.Cookie = writers[w].Name.Cookie
        /\ Len(lines[w]) > 1
        => ~writers[v].Open

\* Files are rotated every FilePeriod.  What Rotate opens as the next file of a
\* connection follows the file before it by at least the period.
RotationSpacing ==
    \A v, w \in DOMAIN writers :
        /\ writers[v].Name.Cookie = writers[w].Name.Cookie
        /\ writers[w].Name.Sequence = writers[v].Name.Sequence + 1
        /\ v < w
        => writers[w].Created >= writers[v].Created + FilePeriod

-----------------------------------------------------------------------------
(* Records. *)

\* The record last queued for writer w.
LastQueued(w, m) ==
    LET waiting == {i \in DOMAIN marshalChan[m] : marshalChan[m][i].Writer = w}
    IN  IF waiting # {} THEN marshalChan[m][Max(waiting)].Message
        ELSE lines[w][Len(lines[w])]

\* The log is up to date.  Between two rounds the record last queued for every
\* connection in the cache differs from the cached one in nothing that
\* matters: comparing with the last poll instead of the last saved record
\* never lets a change slip through, and rotation loses no record.
LogIsCurrent ==
    pc = "recv" =>
        \A c \in DOMAIN previous \ {0} :
            CanAnonymize(previous[c]) =>
                /\ c \in DOMAIN connections
                /\ connections[c].Writer # NilWriter
                /\ LET last == LastQueued(connections[c].Writer, MarshallerOf(c))
                   IN  \/ SameSignificant(previous[c], last)
                       \/ /\ last.Timestamp = previous[c].Timestamp
                          /\ last.Attributes = previous[c].Attributes

\* Every snapshot counted is on disk.  When main leaves, the files hold as many
\* records, besides their headers, as IncNewCount and IncDiffCount counted.
SnapshotsOnDisk ==
    done = 0 => SumFunction([w \in DOMAIN lines |-> Len(lines[w]) - 1])
                  = stats.New + stats.Diff

\* Only what Anonymize has passed is on disk.  Every record in a file is of a
\* family for which Anonymize returns no error, and its addresses are as the
\* anonymizer that the flag chose leaves them: to anonymize it once more would
\* change nothing.  With Netblock no global address is in a file; with None the
\* addresses are those of the kernel, and only the families are restricted.
OnlyAnonymizedOnDisk ==
    \A w \in DOMAIN lines : \A i \in 2 .. Len(lines[w]) :
        /\ CanAnonymize(lines[w][i])
        /\ Anonymize(lines[w][i], Anonymizer) = lines[w][i]

-----------------------------------------------------------------------------
(* The cache. *)

\* The cookies in the cache or on the way out of it.
Known == DOMAIN current \cup DOMAIN previous \cup DOMAIN residual

\* The cookies that are cached, being retired, or have been retired.
Accounted ==
    stats.Expired + Cardinality(Known) + (IF pc = "endRetired" THEN 1 ELSE 0)

\* A step of handleType with a cookie that the round has listed before.
ListedAgain ==
    /\ pc = "handle" /\ work # <<>> /\ work' = Tail(work)
    /\ Archivable(Head(work).Message)
    /\ Head(work).Message.IDM.Cookie \in DOMAIN current

\* Retired exactly once.  Every step that counts a cookie as new puts one more
\* into the cache, and a cookie leaves the cache only to be retired and counted
\* as expired, once: none is dropped by Update or EndCycle without its
\* connection being ended, and none is ended twice or while it is still cached.
\* The one exception is a cookie that a dump lists twice, which is counted as
\* new twice.
RetiredOnce ==
    [][stats'.New - stats.New
         = Accounted' - Accounted + (IF ListedAgain THEN 1 ELSE 0)]_vars

-----------------------------------------------------------------------------
(* Events. *)

\* The positions before i of the events of the same cookie.
Earlier(i) == {j \in 1 .. i - 1 : events[j].Cookie = events[i].Cookie}

\* Events alternate.  The event clients see, for each connection, an Open, then
\* a Close, and a further Open only after that.
EventsAlternate ==
    \A i \in DOMAIN events :
        events[i].Event = "Open" <=>
            (Earlier(i) = {} \/ events[Max(Earlier(i))].Event = "Close")

\* No connection is announced twice without having been ended in between, even
\* when files cannot be created and for cookies the saver refuses.
NoDoubleOpen ==
    \A i \in DOMAIN events :
        events[i].Event = "Open" =>
            (Earlier(i) = {} \/ events[Max(Earlier(i))].Event = "Close")

-----------------------------------------------------------------------------
(* Bytes. *)

\* ClosingTotals covers ClosingStats: subtracting the stats of a connection
\* that is gone never wraps the unsigned totals around.
ClosingTotalsCover ==
    \A f \in {"Sent", "Received"} :
        closingTotals[f] >= SumFunction([c \in DOMAIN closingStats |-> closingStats[c][f]])

=============================================================================
