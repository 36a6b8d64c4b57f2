----------------------------- MODULE ZstdWriter -----------------------------
(***************************************************************************)
(* zstd/zstd.go: a writer is the write end of a pipe, an external zstd     *)
(* process that compresses what it reads from the pipe into the file, and  *)
(* a goroutine that waits for the process.  The caller writes lines and    *)
(* closes the writer, as the saver and its marshallers do.                 *)
(*                                                                         *)
(* A line is cut where the pipe or a crash can cut it: the first bytes of  *)
(* its JSON text, the rest of them, and the newline, a Write of its own.   *)
(***************************************************************************)
EXTENDS Integers, Sequences

CONSTANTS
    Header,      \* the first line, that Connection.writeHeader writes
    Line,        \* the lines that may follow it
    PipeCap,     \* pieces the pipe holds
    MaxLines     \* bound: lines written

ASSUME ZstdWriterAssumption == PipeCap \in Nat \ {0} /\ MaxLines \in Nat

VARIABLES
    writer,      \* where the caller is
    given,       \* the lines it has begun to write
    rest,        \* the pieces of the last one that are not yet in the pipe
    written,     \* the pieces that have been put in the pipe
    pipe,        \* those in the pipe now
    zstd,        \* the process: "none", "running", "done", "dead"
    held,        \* what it has read and not stored
    file,        \* what it has stored
    fds,         \* the descriptors the program has open
    wg           \* the counter of the wait group

callVars  == <<writer, given, rest>>
zstdVars  == <<zstd, held, file>>
writeVars == <<callVars, written, pipe, zstdVars, fds, wg>>

\* The pieces of a line: its text in two parts, the newline.
NewLine == 3
Piece == (1 .. MaxLines) \X (1 .. NewLine)
PiecesOf(n) == [k \in 1 .. NewLine |-> <<n, k>>]

WriterInit ==
    /\ writer = "new" /\ given = <<>> /\ rest = <<>>
    /\ written = <<>> /\ pipe = <<>>
    /\ zstd = "none" /\ held = <<>> /\ file = <<>>
    /\ fds = {}
    /\ wg = 1

-----------------------------------------------------------------------------
(* NewWriter. *)

NewWriter ==
    /\ writer = "new"
    /\ writer' = "idle"
    /\ fds' = {"pipeR", "pipeW", "file"}
    /\ UNCHANGED <<given, rest, written, pipe, zstdVars, wg>>

\* There is no pipe, or there is one and the file cannot be created.
NewWriterFails ==
    /\ writer = "new"
    /\ writer' = "failed"
    /\ fds' \in {{}, {"pipeR", "pipeW"}}
    /\ UNCHANGED <<given, rest, written, pipe, zstdVars, wg>>

\* cmd.Run in the goroutine: the process starts, or cannot be started.
Start ==
    /\ zstd = "none"
    /\ "file" \in fds
    /\ zstd' \in {"running", "dead"}
    /\ UNCHANGED <<callVars, written, pipe, held, file, fds, wg>>

\* Mutant: the read end stays open.
ReapKeepsPipe ==
    /\ zstd \in {"done", "dead"}
    /\ wg = 1 /\ writer # "killed"
    /\ wg' = 0
    /\ UNCHANGED <<callVars, written, pipe, zstdVars, fds>>

\* Mutant: an early return when cmd.Run fails.
ReapOnSuccess ==
    /\ zstd = "done"
    /\ wg = 1 /\ writer # "killed"
    /\ fds' = fds \ {"pipeR"}
    /\ wg' = 0
    /\ UNCHANGED <<callVars, written, pipe, zstdVars>>

\* cmd.Run has returned: close the read end, wg.Done().
Reap ==
    /\ zstd \in {"done", "dead"}
    /\ wg = 1 /\ writer # "killed"
    /\ fds' = fds \ {"pipeR"}
    /\ wg' = 0
    /\ UNCHANGED <<callVars, written, pipe, zstdVars>>

-----------------------------------------------------------------------------
(* The zstd process. *)

ZstdReads ==
    /\ zstd = "running"
    /\ pipe # <<>>
    /\ held' = Append(held, Head(pipe))
    /\ pipe' = Tail(pipe)
    /\ UNCHANGED <<callVars, written, zstd, file, fds, wg>>

ZstdStores ==
    /\ zstd = "running"
    /\ held # <<>>
    /\ file' = file \o held
    /\ held' = <<>>
    /\ UNCHANGED <<callVars, written, pipe, zstd, fds, wg>>

\* The end of the input: nothing left, and nobody has the write end.
ZstdEnds ==
    /\ zstd = "running"
    /\ pipe = <<>> /\ held = <<>>
    /\ "pipeW" \notin fds
    /\ zstd' = "done"
    /\ UNCHANGED <<callVars, written, pipe, held, file, fds, wg>>

\* It is killed, or the disk is full.
ZstdDies ==
    /\ zstd = "running"
    /\ zstd' = "dead"
    /\ UNCHANGED <<callVars, written, pipe, held, file, fds, wg>>

-----------------------------------------------------------------------------
(* Write and Close. *)

WriteBegin ==
    /\ writer = "idle"
    /\ Len(given) < MaxLines
    /\ \E l \in IF given = <<>> THEN {Header} ELSE Line : given' = Append(given, l)
    /\ rest' = PiecesOf(Len(given) + 1)
    /\ writer' = "writing"
    /\ UNCHANGED <<written, pipe, zstdVars, fds, wg>>

\* Somebody has the read end: the program itself, or the process.
Readable == "pipeR" \in fds \/ zstd = "running"

\* Write blocks while the pipe is full.
WritePiece ==
    /\ writer = "writing"
    /\ rest # <<>>
    /\ Readable
    /\ Len(pipe) < PipeCap
    /\ pipe' = Append(pipe, Head(rest))
    /\ written' = Append(written, Head(rest))
    /\ rest' = Tail(rest)
    /\ UNCHANGED <<writer, given, zstdVars, fds, wg>>

\* Mutant: a write that would block is given up.
WriteEndNonBlocking ==
    /\ writer = "writing"
    /\ rest = <<>> \/ ~Readable \/ Len(pipe) = PipeCap
    /\ rest' = <<>>
    /\ writer' = "idle"
    /\ UNCHANGED <<given, written, pipe, zstdVars, fds, wg>>

\* All is written, or the pipe is broken, an error the callers ignore.
WriteEnd ==
    /\ writer = "writing"
    /\ rest = <<>> \/ ~Readable
    /\ rest' = <<>>
    /\ writer' = "idle"
    /\ UNCHANGED <<given, written, pipe, zstdVars, fds, wg>>

\* Mutant: the pipe is not closed, and nothing waited for.
CloseForgets ==
    /\ writer = "idle"
    /\ writer' = "closed"
    /\ UNCHANGED <<given, rest, written, pipe, zstdVars, fds, wg>>

ClosePipe ==
    /\ writer = "idle"
    /\ writer' = "closing"
    /\ fds' = fds \ {"pipeW"}
    /\ UNCHANGED <<given, rest, written, pipe, zstdVars, wg>>

\* Mutant: Close does not wait.
CloseNoWait ==
    /\ writer = "closing"
    /\ writer' = "closed"
    /\ UNCHANGED <<given, rest, written, pipe, zstdVars, fds, wg>>

CloseReturn ==
    /\ writer = "closing"
    /\ wg = 0
    /\ writer' = "closed"
    /\ UNCHANGED <<given, rest, written, pipe, zstdVars, fds, wg>>

-----------------------------------------------------------------------------
(* Around it. *)

\* Nothing closes the file, nor the pipe after a failure, but the finalizers
\* of values the garbage collector finds unreachable.
Finalize ==
    /\ \/ writer = "failed" /\ fds' = {}
       \/ writer # "failed" /\ wg = 0 /\ fds' = fds \ {"file"}
    /\ fds' # fds
    /\ UNCHANGED <<callVars, written, pipe, zstdVars, wg>>

\* The program is killed.  The process goes on with what is in the pipe.
Kill ==
    /\ writer \in {"idle", "writing", "closing"}
    /\ writer' = "killed"
    /\ rest' = <<>>
    /\ fds' = {}
    /\ zstd' = IF zstd = "none" THEN "dead" ELSE zstd
    /\ UNCHANGED <<given, written, pipe, held, file, wg>>

Caller    == NewWriter \/ NewWriterFails \/ WriteBegin \/ WritePiece \/ WriteEnd
               \/ ClosePipe \/ CloseReturn
Goroutine == Start \/ Reap
ZstdRuns  == ZstdReads \/ ZstdStores \/ ZstdEnds

WriterNext == Caller \/ Goroutine \/ ZstdRuns \/ ZstdDies \/ Finalize \/ Kill

WriterSpec == WriterInit /\ [][WriterNext]_writeVars

-----------------------------------------------------------------------------
(* Properties. *)

Phase ==
    CASE writer = "new"    -> "none"
      [] writer = "killed" -> "crashed"
      [] writer \in {"failed", "closed"} -> writer
      [] OTHER -> "open"

Log == INSTANCE LogFile WITH phase <- Phase, stored <- file, intact <- (zstd # "dead")

\* The pipe, the process and the goroutine implement the log file: what Write
\* has accepted reaches the file in order, nothing else does, and Close returns
\* only when all of it is there or zstd has died.
ImplementsLogFile == Log!LogSpec

\* Only the last line of a file is cut.  Neither a write that fails half-way nor
\* the end of the program leaves a gap: the file holds the first pieces of the
\* lines, in order, and whatever follows a failed write is lost as well.
OnlyLastLineCut ==
    \A i \in DOMAIN file :
        file[i] = <<((i - 1) \div NewLine) + 1, ((i - 1) % NewLine) + 1>>

\* A Write that blocks on a full pipe returns, also when zstd has died or was
\* never started: the goroutine closes the read end the program still has.
WriteReturns == writer = "writing" ~> writer # "writing"

\* Close waits for zstd, and zstd for the end of its input, which is the close
\* of the last write end: they do not wait for each other.
CloseReturns == writer = "closing" ~> writer # "closing"

\* No descriptor is left when a writer could not be made or has been closed.
DescriptorsReturned == writer \in {"failed", "closed"} ~> fds = {}

=============================================================================
