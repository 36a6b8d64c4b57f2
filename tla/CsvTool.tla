------------------------------ MODULE CsvTool ------------------------------
(***************************************************************************)
(* A log file and its reader: the writer of module ZstdWriter, that may be *)
(* at work, stopped, broken or killed, and cmd/csvtool, run at any time on *)
(* the file, as "csvtool f.zst" (zstd.NewReader), "zstd -cd f | csvtool"   *)
(* (stdin) or "csvtool f", where f is an uncompressed copy (os.Open).      *)
(* What is read is the file up to where zstd -d has come, in the pieces of *)
(* ZstdWriter.  LoadAll's metadata, which main drops, is left out.         *)
(***************************************************************************)
EXTENDS ZstdWriter, Snapshot

CONSTANTS
    Anonymizer,   \* the method of the saver that wrote the file
    IsLong(_)     \* the JSON text of a message is beyond the scanner's buffer

\* What the kernel puts into an attribute of type t: nothing beyond its length,
\* a whole number of words for a struct, one byte for a uint8, four for the mark
\* and for the class id, which is a uint32 there.
KernelValue(t, v) ==
    /\ v \in AttrValue
    /\ \A f \in DOMAIN Offset : Offset[f] >= v.Len => v[f] = 0
    /\ t \in StructTypes => v.Len % 4 = 0
    /\ t \in Uint8Types \ {INET_DIAG_CLASS_ID} => v.Len = 1 /\ v.Early < 256
    /\ t = INET_DIAG_CLASS_ID => v.Len = 4
    /\ t = INET_DIAG_MARK => v.Len = 4

\* What it says of a socket: one attribute of a type, and types that have a bit.
KernelMessage(m) ==
    /\ m.IDM \in InetDiagMsg
    /\ m.Attrs \in Seq(RouteAttr)
    /\ \A i \in DOMAIN m.Attrs :
          /\ m.Attrs[i].Type \in 1 .. 32
          /\ KernelValue(m.Attrs[i].Type, m.Attrs[i].Value)
          /\ \A j \in DOMAIN m.Attrs : m.Attrs[i].Type = m.Attrs[j].Type => i = j

ASSUME CsvToolAssumption ==
    /\ Anonymizer \in Methods
    /\ Header \notin Line
    /\ \A l \in Line : KernelMessage(l)

VARIABLES
    tool,        \* "none", "reading", "csv" when it has written, "fatal"
    source,      \* what openFile or main made of the arguments
    unzip,       \* zstd -d: "none", "running", "done", "failed"
    fed,         \* pieces it has put out
    got,         \* pieces the scanner has taken
    rows         \* the snapshots

toolVars == <<tool, source, unzip, fed, got, rows>>

\* The line that json.Marshal makes of the header and of an anonymized record.
LineOf(l) ==
    IF l = Header
    THEN [Timestamp |-> zeroTime, Metadata |-> <<1>>, RawIDM |-> <<>>,
          ShortIDM |-> FALSE, Attributes |-> <<>>, Long |-> FALSE]
    ELSE LET r == Anonymize(MakeArchivalRecord(l, 1), Anonymizer)
         IN  [Timestamp |-> r.Timestamp, Metadata |-> <<>>, RawIDM |-> <<r.RawIDM>>,
              ShortIDM |-> FALSE, Attributes |-> r.Attributes, Long |-> IsLong(l)]

\* What Unmarshal makes of the lines, and Reader.Next of what it can decode.
Lines == [l \in Line \cup {Header} |-> LineOf(l)]
Snapshots == [l \in {k \in DOMAIN Lines : ~DecodeFails(Lines[k]) /\ ~DecodePanics(Lines[k])}
                 |-> NextSnapshot(Lines[l])]

ToolInit ==
    /\ tool = "none" /\ source = "none" /\ unzip = "none"
    /\ fed = 0 /\ got = 0
    /\ rows = <<>>

\* There is a file.
Exists == writer \notin {"new", "failed"}

\* No argument: stdin takes whatever zstd puts out.
ReadStdin ==
    /\ tool = "none"
    /\ source' = "stdin" /\ tool' = "reading" /\ unzip' = "running"
    /\ UNCHANGED <<fed, got, rows, writeVars>>

\* A name that ends with .zst: NewReader starts zstd -d, and insists on a file.
openZst ==
    /\ tool = "none"
    /\ source' = "zst"
    /\ IF Exists THEN tool' = "reading" /\ unzip' = "running"
       ELSE tool' = "fatal" /\ unzip' = unzip
    /\ UNCHANGED <<fed, got, rows, writeVars>>

\* Any other name: os.Open fails, or the file holds what zstd -d had put out, all
\* or a part, when it was made.
openRaw ==
    /\ tool = "none"
    /\ source' = "raw"
    /\ \/ tool' = "fatal" /\ fed' = fed
       \/ tool' = "reading" /\ Exists /\ fed' \in 0 .. Len(file)
    /\ UNCHANGED <<unzip, got, rows, writeVars>>

openFile == openZst \/ openRaw

TooManyArguments ==
    /\ tool = "none"
    /\ tool' = "fatal"
    /\ UNCHANGED <<source, unzip, fed, got, rows, writeVars>>

-----------------------------------------------------------------------------
(* zstd -d. *)

UnzipCopies ==
    /\ unzip = "running"
    /\ fed < Len(file)
    /\ fed' = fed + 1
    /\ UNCHANGED <<tool, source, unzip, got, rows, writeVars>>

\* At the end of the file it has seen the end of the frame, or it fails.
UnzipEnds ==
    /\ unzip = "running"
    /\ fed = Len(file)
    /\ unzip' = IF zstd = "done" THEN "done" ELSE "failed"
    /\ UNCHANGED <<tool, source, fed, got, rows, writeVars>>

\* rtx.Must(cmd.Run()) in NewReader's goroutine.
UnzipMust ==
    /\ tool = "reading" /\ source = "zst"
    /\ unzip = "failed"
    /\ tool' = "fatal"
    /\ UNCHANGED <<source, unzip, fed, got, rows, writeVars>>

\* Mutant: NewReader's goroutine closes the pipe whatever zstd says.
EndOfInputAlways == unzip \in {"done", "failed"} \/ source = "raw"

\* Mutant: NewReader's goroutine does not close the pipe.
EndOfInputNever == (unzip \in {"done", "failed"} /\ source = "stdin") \/ source = "raw"

\* What has been put out is all: of a regular file; when the write end is closed,
\* by the shell's zstd when it ends, by NewReader's goroutine when it has ended
\* well.
EndOfInput ==
    \/ source = "raw"
    \/ unzip = "done"
    \/ unzip = "failed" /\ source = "stdin"

-----------------------------------------------------------------------------
(* LoadAll and main. *)

\* The line the scanner is at, the pieces of it that have arrived, and its text.
Number   == file[got + 1][1]
Arrived  == {i \in got + 1 .. fed : file[i][1] = Number}
HasText  == Cardinality(Arrived) >= NewLine - 1
AtEnd    == EndOfInput /\ got = fed
Text     == given[Number]

\* Scan returns a line: up to a newline, or up to the end of the input.
Scans ==
    /\ tool = "reading"
    /\ got < fed
    /\ Cardinality(Arrived) = NewLine \/ EndOfInput

\* Snapshots are appended while Unmarshal and Decode return one.
LoadNext ==
    /\ Scans
    /\ HasText /\ ~Lines[Text].Long
    /\ Text \in DOMAIN Snapshots
    /\ rows' = Append(rows, Snapshots[Text])
    /\ got' = Max(Arrived)
    /\ UNCHANGED <<tool, source, unzip, fed, writeVars>>

\* A line that is cut is no JSON; rtx.Must ends the tool.
LoadFails ==
    /\ Scans
    /\ ~HasText \/ (~Lines[Text].Long /\ Text \notin DOMAIN Snapshots)
    /\ tool' = "fatal"
    /\ UNCHANGED <<source, unzip, fed, got, rows, writeVars>>

\* Scan returns false at the end of the input and when its buffer is full, which
\* Next cannot tell apart; toCSV then writes what there is, if it can.
LoadEnds ==
    /\ tool = "reading"
    /\ AtEnd \/ (got < fed /\ Lines[Text].Long)
    /\ tool' \in {"csv", "fatal"}
    /\ UNCHANGED <<source, unzip, fed, got, rows, writeVars>>

Reading == UnzipCopies \/ UnzipEnds \/ UnzipMust \/ LoadNext \/ LoadFails \/ LoadEnds

ToolNext == ReadStdin \/ openFile \/ TooManyArguments \/ Reading

ArchiveInit == WriterInit /\ ToolInit

ArchiveNext == ToolNext \/ (WriterNext /\ UNCHANGED toolVars)

archiveVars == <<writeVars, toolVars>>

Archive == ArchiveInit /\ [][ArchiveNext]_archiveVars

\* The processes and goroutines run; the user need not start the tool.
FairArchive ==
    /\ Archive
    /\ WF_archiveVars((WritePiece \/ WriteEnd \/ CloseReturn) /\ UNCHANGED toolVars)
    /\ WF_archiveVars(Goroutine /\ UNCHANGED toolVars)
    /\ WF_archiveVars(ZstdRuns /\ UNCHANGED toolVars)
    /\ WF_archiveVars(Finalize /\ UNCHANGED toolVars)
    /\ WF_archiveVars(Reading)

-----------------------------------------------------------------------------
(* Properties. *)

\* The lines of which the whole text was written before the writer stopped.
Whole == {n \in 1 .. Len(given) : <<n, NewLine - 1>> \in {written[i] : i \in DOMAIN written}}

\* A CSV is complete.  When csvtool, given a .zst, writes a CSV, zstd had ended
\* the file, and there is a row for every line that was written, up to the
\* first that the scanner refuses: never for a file that is still being
\* written, nor for one whose compressor died, of which it would show a part.
CsvComplete ==
    tool = "csv" /\ source = "zst" =>
        \/ zstd = "done" /\ Len(rows) = Cardinality(Whole)
        \/ /\ Len(rows) < Len(given)
           /\ Lines[given[Len(rows) + 1]].Long

\* The attributes of a message; those whose value the row holds less of than the
\* kernel sent, be it only for a final NUL.
AttrsOf(m) == {m.Attrs[i] : i \in DOMAIN m.Attrs}

IsCut(row, a) ==
    a.Type \notin DOMAIN row.Fields \/ row.Fields[a.Type].Len < a.Value.Len - 1

\* Whether row shows what the kernel said in message m: which attributes there
\* were, which of them could not be shown in full, and the values as far as
\* their fields go.  The class id, of which Decode keeps one byte of four, is
\* only shown to be there.
Shows(row, m) ==
    /\ row.InetDiagMsg[1].Cookie = m.IDM.Cookie
    /\ row.Observed = {a.Type : a \in AttrsOf(m)}
    /\ \A a \in AttrsOf(m) : a.Type # INET_DIAG_CLASS_ID =>
          /\ a.Type \in row.NotFullyParsed <=> IsCut(row, a)
          /\ a.Type \in DOMAIN row.Fields =>
                \A f \in DOMAIN Offset : Offset[f] < row.Fields[a.Type].Len =>
                    row.Fields[a.Type][f] = a.Value[f]

\* Rows show what the kernel reported.  Through the record, its anonymization,
\* the JSON text, a file that may be cut, and Decode's mapping of bytes onto
\* structs, each row has its own line's socket and the values of its
\* attributes except the class id, a field beyond the end of a short value
\* being zero.
RowsMatchKernel ==
    \A i \in DOMAIN rows : i > 1 => Shows(rows[i], given[i])

\* csvtool ends, whatever state the file is in.
ToolEnds == tool = "reading" ~> tool # "reading"

=============================================================================
