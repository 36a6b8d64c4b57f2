---------------------------- MODULE BoundaryProofs ---------------------------
(***************************************************************************)
(* The two ends of the program: the log files it leaves and the netlink    *)
(* exchange it reads.                                                      *)
(*                                                                         *)
(* A log file, for every pipe capacity, number of lines and set of         *)
(* messages: the writer of zstd/zstd.go implements LogFile and leaves no   *)
(* gap in its file, and a CSV that cmd/csvtool makes of the file is        *)
(* complete and shows what the kernel reported.                            *)
(*                                                                         *)
(* The exchange, for a dump of any length cut into datagrams in any way:   *)
(* OneType keeps to what the program assumes of it.                        *)
(***************************************************************************)
EXTENDS CsvTool, NetlinkDump, TLAPS, SequenceTheorems, FiniteSetTheorems, NaturalsInduction,
        WellFoundedInduction

\* Leaves are for Zenon, unless they cite another prover.
USE Zenon

Running == {"idle", "writing"}

WriterTypeInv ==
    /\ writer \in Running \cup {"new", "failed", "closing", "closed", "killed"}
    /\ zstd \in {"none", "running", "done", "dead"}
    /\ given \in Seq(Line \cup {Header}) /\ Len(given) <= MaxLines
    /\ rest \in Seq(Piece) /\ written \in Seq(Piece) /\ pipe \in Seq(Piece)
    /\ held \in Seq(Piece) /\ file \in Seq(Piece)
    /\ wg \in {0, 1}

\* Nothing is lost between Write and the file.
Flow == written = (file \o held) \o pipe

\* How far the caller, the goroutine and the process can be apart.
Together ==
    /\ wg = 0 => zstd \in {"done", "dead"} /\ "pipeR" \notin fds
    /\ zstd = "done" => pipe = <<>> /\ held = <<>> /\ writer \notin Running
    /\ writer \in Running => "pipeW" \in fds
    /\ writer \in Running /\ wg = 1 => "pipeR" \in fds
    /\ writer \in {"new", "failed"} => zstd = "none" /\ wg = 1 /\ "file" \notin fds
    /\ writer = "closed" => wg = 0
    /\ writer = "killed" => zstd # "none"

WriterInv == WriterTypeInv /\ Flow /\ Together

\* The i-th piece of the lines.
PieceAt(i) == <<((i - 1) \div NewLine) + 1, ((i - 1) % NewLine) + 1>>

\* The pieces are written in order, and as long as the pipe is not broken
\* those still to come follow on.
InOrder ==
    /\ \A i \in 1 .. Len(written) : written[i] = PieceAt(i)
    /\ writer # "writing" => rest = <<>>
    /\ writer \in Running \cup {"new"} /\ wg = 1 =>
          /\ Len(written) + Len(rest) = NewLine * Len(given)
          /\ \A k \in 1 .. Len(rest) : rest[k] = PieceAt(Len(written) + k)

USE DEF Running

-----------------------------------------------------------------------------

\* What is added at the end of the second part is added at the end of both.
LEMMA ConcatAppend ==
    ASSUME NEW S, NEW s \in Seq(S), NEW p \in Seq(S), NEW e \in S
    PROVE  s \o Append(p, e) = Append(s \o p, e)
BY SMT

\* What is taken from the front of the second part goes to the end of the first.
LEMMA ConcatMove ==
    ASSUME NEW S, NEW s \in Seq(S), NEW p \in Seq(S), p # <<>>
    PROVE  s \o p = Append(s, Head(p)) \o Tail(p)
BY SMT

\* The first part of a sequence is a prefix of it.
LEMMA ConcatPrefix ==
    ASSUME NEW S, NEW s \in Seq(S), NEW p \in Seq(S)
    PROVE  /\ Len(s \o p) = Len(s) + Len(p)
           /\ \A i \in 1 .. Len(s) : (s \o p)[i] = s[i]
           /\ SubSeq(s \o p, 1, Len(s)) = s
<1>1. SubSeq(s \o p, 1, Len(s)) = s
    BY SMT
<1> QED
    BY SMT, <1>1

\* The pieces of the next line are pieces.
LEMMA PiecesOfType ==
    ASSUME NEW n \in 1 .. MaxLines
    PROVE  PiecesOf(n) \in Seq(Piece) /\ Len(PiecesOf(n)) = 3
           /\ \A k \in 1 .. 3 : PiecesOf(n)[k] = <<n, k>>
<1>1. \A k \in 1 .. 3 : <<n, k>> \in Piece
    BY DEF Piece, NewLine
<1> QED
    BY SMT, <1>1 DEF PiecesOf, NewLine

LEMMA TypeStep == WriterTypeInv /\ [WriterNext]_writeVars => WriterTypeInv'
<1> SUFFICES ASSUME WriterTypeInv, [WriterNext]_writeVars PROVE WriterTypeInv'
    OBVIOUS
<1> USE DEF WriterTypeInv
<1>1. CASE WriteBegin
    <2>1. PICK l \in Line \cup {Header} : given' = Append(given, l)
        BY <1>1 DEF WriteBegin
    <2>2. Len(given) \in Nat /\ Len(given) < MaxLines
        BY <1>1, LenProperties DEF WriteBegin
    <2>3. given' \in Seq(Line \cup {Header}) /\ Len(given') = Len(given) + 1
        BY SMT, <2>1, AppendProperties
    <2>4. rest' \in Seq(Piece)
        BY SMT, <1>1, <2>2, PiecesOfType, ZstdWriterAssumption DEF WriteBegin
    <2>5. Len(given') <= MaxLines
        BY SMT, <2>2, <2>3, ZstdWriterAssumption
    <2> QED
        BY <1>1, <2>3, <2>4, <2>5 DEF WriteBegin, zstdVars
<1>2. CASE WritePiece
    <2>1. Head(rest) \in Piece /\ Tail(rest) \in Seq(Piece)
        BY <1>2, HeadTailProperties DEF WritePiece
    <2> QED
        BY <1>2, <2>1, AppendProperties DEF WritePiece, zstdVars
<1>3. CASE ZstdReads
    <2>1. Head(pipe) \in Piece /\ Tail(pipe) \in Seq(Piece)
        BY <1>3, HeadTailProperties DEF ZstdReads
    <2> QED
        BY <1>3, <2>1, AppendProperties DEF ZstdReads, callVars
<1>4. CASE ZstdStores
    BY <1>4, ConcatProperties, EmptySeq DEF ZstdStores, callVars
<1>5. CASE NewWriter \/ NewWriterFails \/ ClosePipe \/ CloseReturn \/ Start \/ Reap
    BY <1>5 DEF NewWriter, NewWriterFails, ClosePipe, CloseReturn, Start, Reap,
                callVars, zstdVars
<1>6. CASE WriteEnd \/ ZstdEnds \/ ZstdDies \/ Finalize \/ Kill
    BY <1>6, EmptySeq DEF WriteEnd, ZstdEnds, ZstdDies, Finalize, Kill,
                          callVars, zstdVars
<1>7. CASE UNCHANGED writeVars
    BY <1>7 DEF writeVars, callVars, zstdVars
<1> QED
    BY <1>1, <1>2, <1>3, <1>4, <1>5, <1>6, <1>7
       DEF WriterNext, Caller, Goroutine, ZstdRuns

LEMMA FlowStep ==
    WriterTypeInv /\ Flow /\ [WriterNext]_writeVars => Flow'
<1> SUFFICES ASSUME WriterTypeInv, Flow, [WriterNext]_writeVars PROVE Flow'
    OBVIOUS
<1> USE DEF WriterTypeInv, Flow
<1>1. file \o held \in Seq(Piece)
    BY ConcatProperties
<1>2. CASE WritePiece
    <2>1. Head(rest) \in Piece
        BY <1>2, HeadTailProperties DEF WritePiece
    <2>2. (file \o held) \o Append(pipe, Head(rest)) = Append(written, Head(rest))
        <3>1. \A e \in Piece :
                 (file \o held) \o Append(pipe, e) = Append((file \o held) \o pipe, e)
            BY SMT, <1>1, ConcatAppend
        <3>2. written = (file \o held) \o pipe
            OBVIOUS
        <3> QED
            BY <2>1, <3>1, <3>2
    <2> QED
        BY <1>2, <2>2 DEF WritePiece, zstdVars
<1>3. CASE ZstdReads
    <2>1. Head(pipe) \in Piece
        BY <1>3, HeadTailProperties DEF ZstdReads
    <2>2. written = Append(file \o held, Head(pipe)) \o Tail(pipe)
        BY <1>1, <1>3, ConcatMove DEF ZstdReads
    <2>3. Append(file \o held, Head(pipe)) = file \o Append(held, Head(pipe))
        <3>1. \A e \in Piece : file \o Append(held, e) = Append(file \o held, e)
            BY SMT, ConcatAppend
        <3> QED
            BY <2>1, <3>1
    <2> QED
        BY <1>3, <2>2, <2>3 DEF ZstdReads
<1>4. CASE ZstdStores
    <2>1. (file \o held) \o <<>> = file \o held
        BY <1>1, ConcatEmptySeq
    <2> QED
        BY <1>4, <2>1 DEF ZstdStores
<1>5. CASE UNCHANGED <<written, pipe, held, file>>
    BY <1>5
<1>6. [WriterNext]_writeVars =>
        WritePiece \/ ZstdReads \/ ZstdStores \/ UNCHANGED <<written, pipe, held, file>>
    BY DEF WriterNext, Caller, Goroutine, ZstdRuns, NewWriter, NewWriterFails,
           WriteBegin, WriteEnd, ClosePipe, CloseReturn, Start, Reap, ZstdEnds,
           ZstdDies, Finalize, Kill, writeVars, callVars, zstdVars
<1> QED
    BY <1>2, <1>3, <1>4, <1>5, <1>6

LEMMA TogetherStep ==
    WriterTypeInv /\ Together /\ [WriterNext]_writeVars => Together'
<1> SUFFICES ASSUME WriterTypeInv, Together, [WriterNext]_writeVars PROVE Together'
    OBVIOUS
<1> USE DEF WriterTypeInv, Together
<1>1. CASE NewWriter
    BY <1>1 DEF NewWriter, zstdVars
<1>2. CASE NewWriterFails
    BY <1>2 DEF NewWriterFails, zstdVars
<1>3. CASE Start
    BY <1>3 DEF Start, callVars
<1>4. CASE Reap
    BY <1>4 DEF Reap, callVars, zstdVars
<1>5. CASE ZstdReads
    BY <1>5 DEF ZstdReads, callVars
<1>6. CASE ZstdStores
    BY <1>6 DEF ZstdStores, callVars
<1>7. CASE ZstdEnds
    BY <1>7 DEF ZstdEnds, callVars
<1>8. CASE ZstdDies
    BY <1>8 DEF ZstdDies, callVars
<1>9. CASE WriteBegin \/ WriteEnd
    BY <1>9 DEF WriteBegin, WriteEnd, zstdVars
<1>10. CASE WritePiece
    BY <1>10 DEF WritePiece, zstdVars
<1>11. CASE ClosePipe
    BY <1>11 DEF ClosePipe, zstdVars
<1>12. CASE CloseReturn
    BY <1>12 DEF CloseReturn, zstdVars
<1>13. CASE Finalize
    BY <1>13 DEF Finalize, callVars, zstdVars
<1>14. CASE Kill
    BY <1>14 DEF Kill
<1>15. CASE UNCHANGED writeVars
    BY <1>15 DEF writeVars, callVars, zstdVars
<1> QED
    BY <1>1, <1>2, <1>3, <1>4, <1>5, <1>6, <1>7, <1>8, <1>9, <1>10, <1>11, <1>12,
       <1>13, <1>14, <1>15 DEF WriterNext, Caller, Goroutine, ZstdRuns

\* The writer, the goroutine and the process stay together, and every piece
\* is in the pipe, held by zstd or in the file.
THEOREM WriterInvariant == WriterSpec => []WriterInv
<1>1. WriterInit => WriterInv
    <2> SUFFICES ASSUME WriterInit PROVE WriterInv
        OBVIOUS
    <2>1. WriterTypeInv
        BY SMT, EmptySeq, ZstdWriterAssumption DEF WriterInit, WriterTypeInv
    <2>2. Flow
        BY SMT DEF WriterInit, Flow
    <2>3. Together
        BY SMT DEF WriterInit, Together
    <2> QED
        BY <2>1, <2>2, <2>3 DEF WriterInv
<1>2. WriterInv /\ [WriterNext]_writeVars => WriterInv'
    BY TypeStep, FlowStep, TogetherStep DEF WriterInv
<1> QED
    BY <1>1, <1>2, PTL DEF WriterSpec

-----------------------------------------------------------------------------

\* What zstd has stored is a prefix of what has been written, and stays one
\* when it stores what it holds.
LEMMA StoredPrefix ==
    ASSUME WriterTypeInv, Flow
    PROVE  /\ Len(file) \in 0 .. Len(written)
           /\ \A i \in 1 .. Len(file) : file[i] = written[i]
           /\ \E n \in Len(file) .. Len(written) : file \o held = SubSeq(written, 1, n)
<1> USE DEF WriterTypeInv, Flow
<1> DEFINE fh == file \o held
<1>1. /\ fh \in Seq(Piece)
      /\ Len(fh) = Len(file) + Len(held)
      /\ \A i \in 1 .. Len(file) : fh[i] = file[i]
    BY SMT
<1>2. Len(file) \in Nat /\ Len(held) \in Nat /\ Len(pipe) \in Nat
    BY LenProperties
<1>3. written = fh \o pipe /\ pipe \in Seq(Piece)
    OBVIOUS
<1> HIDE DEF fh, Flow, WriterTypeInv
<1>4. /\ Len(written) = Len(fh) + Len(pipe)
      /\ \A i \in 1 .. Len(fh) : written[i] = fh[i]
      /\ SubSeq(written, 1, Len(fh)) = fh
    BY <1>1, <1>3, ConcatPrefix
<1>5. Len(fh) \in Len(file) .. Len(written)
    BY SMT, <1>1, <1>2, <1>4
<1>6. Len(file) \in 0 .. Len(written)
    BY SMT, <1>1, <1>2, <1>4
<1>7. \A i \in 1 .. Len(file) : file[i] = written[i]
    BY SMT, <1>1, <1>2, <1>4
<1>8. \E n \in Len(file) .. Len(written) : fh = SubSeq(written, 1, n)
    BY <1>4, <1>5
<1> QED
    BY <1>6, <1>7, <1>8 DEF fh

\* Every step of the writer is a step of the log file or leaves it alone.
LEMMA LogStep ==
    WriterInv /\ [WriterNext]_writeVars => [Log!LogNext]_(Log!logVars)
<1> SUFFICES ASSUME WriterInv, [WriterNext]_writeVars
             PROVE  Log!LogNext \/ UNCHANGED Log!logVars
    OBVIOUS
<1> USE DEF WriterInv
<1>1. CASE NewWriter \/ NewWriterFails
    <2>1. Log!Open
        BY <1>1 DEF NewWriter, NewWriterFails, Log!Open, Phase, zstdVars
    <2> QED
        BY <2>1 DEF Log!LogNext
<1>2. CASE WritePiece
    <2>1. Head(rest) \in Piece
        BY <1>2, HeadTailProperties DEF WritePiece, WriterTypeInv
    <2>2. Log!Put
        BY <1>2, <2>1 DEF WritePiece, Log!Put, Phase, zstdVars
    <2> QED
        BY <2>2 DEF Log!LogNext
<1>3. CASE ZstdStores
    <2>1. Phase \in {"open", "crashed"}
        BY <1>3 DEF ZstdStores, Together, WriterTypeInv, Phase
    <2>2. Log!Store
        BY <1>3, <2>1, StoredPrefix DEF ZstdStores, Log!Store, Phase, callVars
    <2> QED
        BY <2>2 DEF Log!LogNext
<1>4. CASE Start
    <2>1. Phase = "open"
        BY <1>4 DEF Start, Together, WriterTypeInv, Phase
    <2>2. UNCHANGED <<Phase, written, file>>
        BY <1>4 DEF Start, Phase, callVars
    <2>3. zstd # "dead" /\ (zstd' = "dead" \/ zstd' # "dead")
        BY <1>4 DEF Start
    <2>4. CASE zstd' = "dead"
        BY <2>1, <2>2, <2>4 DEF Log!LogNext, Log!Break
    <2>5. CASE zstd' # "dead"
        BY <2>2, <2>3, <2>5 DEF Log!logVars
    <2> QED
        BY <2>4, <2>5
<1>5. CASE ZstdDies
    <2>1. Phase \in {"open", "crashed"}
        BY <1>5 DEF ZstdDies, Together, WriterTypeInv, Phase
    <2>2. Log!Break
        BY <1>5, <2>1 DEF ZstdDies, Log!Break, Phase, callVars
    <2> QED
        BY <2>2 DEF Log!LogNext
<1>6. CASE CloseReturn
    <2>1. zstd # "dead" => file = written
        <3> SUFFICES ASSUME zstd # "dead" PROVE file = written
            OBVIOUS
        <3>1. pipe = <<>> /\ held = <<>>
            BY <1>6 DEF CloseReturn, Together
        <3> QED
            BY SMT, <3>1 DEF Flow, WriterTypeInv
    <2>2. Log!Close
        BY <1>6, <2>1 DEF CloseReturn, Log!Close, Phase, zstdVars
    <2> QED
        BY <2>2 DEF Log!LogNext
<1>7. CASE Kill
    <2>1. Log!Crash
        BY <1>7 DEF Kill, Log!Crash, Phase
    <2> QED
        BY <2>1 DEF Log!LogNext
<1>8. CASE WriteBegin \/ WriteEnd \/ ClosePipe
    BY <1>8 DEF WriteBegin, WriteEnd, ClosePipe, Log!logVars, Phase, zstdVars
<1>9. CASE Reap \/ ZstdReads \/ ZstdEnds \/ Finalize \/ UNCHANGED writeVars
    BY <1>9 DEF Reap, ZstdReads, ZstdEnds, Finalize, Log!logVars, Phase,
                writeVars, callVars, zstdVars
<1> QED
    BY <1>1, <1>2, <1>3, <1>4, <1>5, <1>6, <1>7, <1>8, <1>9
       DEF WriterNext, Caller, Goroutine, ZstdRuns

\* The writer of zstd.go implements the log file, whatever the capacity of the
\* pipe: what Write has accepted is stored in order, and is in the file when
\* Close returns unless zstd has died.
THEOREM WriterImplementsLogFile == WriterSpec => ImplementsLogFile
<1>1. WriterInit => Log!LogInit
    BY DEF WriterInit, Log!LogInit, Phase
<1> QED
    BY <1>1, LogStep, WriterInvariant, PTL DEF WriterSpec, ImplementsLogFile, Log!LogSpec

-----------------------------------------------------------------------------

\* The three pieces of the line after the first g lines.
LEMMA PieceAtNext ==
    ASSUME NEW g \in Nat, NEW k \in 1 .. 3
    PROVE  PieceAt(3 * g + k) = <<g + 1, k>>
<1>1. (3 * g + k - 1) \div 3 = g /\ (3 * g + k - 1) % 3 = k - 1
    BY SMT
<1> QED
    BY SMT, <1>1 DEF PieceAt, NewLine

LEMMA InOrderStep ==
    WriterInv /\ InOrder /\ [WriterNext]_writeVars => InOrder'
<1> SUFFICES ASSUME WriterInv, InOrder, [WriterNext]_writeVars PROVE InOrder'
    OBVIOUS
<1>1. /\ given \in Seq(Line \cup {Header}) /\ Len(given) \in Nat
      /\ rest \in Seq(Piece) /\ Len(rest) \in Nat
      /\ written \in Seq(Piece) /\ Len(written) \in Nat
    BY LenProperties DEF WriterInv, WriterTypeInv
<1>2. CASE WriteBegin
    <2>1. PICK l \in Line \cup {Header} : given' = Append(given, l)
        BY <1>2 DEF WriteBegin
    <2>2. Len(given') = Len(given) + 1
        BY SMT, <1>1, <2>1, AppendProperties
    <2>3. written' = written /\ wg' = wg /\ writer' = "writing" /\ writer = "idle"
        BY <1>2 DEF WriteBegin
    <2>4. Len(given) + 1 \in 1 .. MaxLines
        BY SMT, <1>1, <1>2, ZstdWriterAssumption DEF WriteBegin
    <2>5. /\ Len(rest') = 3
          /\ \A k \in 1 .. 3 : rest'[k] = <<Len(given) + 1, k>>
        BY <1>2, <2>4, PiecesOfType DEF WriteBegin
    <2>6. wg = 1 => Len(written) = 3 * Len(given)
        BY SMT, <1>1, <2>3 DEF InOrder, NewLine
    <2>7. wg = 1 => \A k \in 1 .. 3 : rest'[k] = PieceAt(Len(written) + k)
        BY <1>1, <2>5, <2>6, PieceAtNext
    <2>8. wg = 1 => Len(written) + 3 = 3 * (Len(given) + 1)
        BY SMT, <1>1, <2>6
    <2> QED
        BY <2>2, <2>3, <2>5, <2>7, <2>8 DEF InOrder, NewLine
<1>3. CASE WritePiece
    <2>1. wg = 1 /\ writer = "writing" /\ rest # <<>>
        BY <1>3 DEF WritePiece, Readable, WriterInv, Together, WriterTypeInv
    <2>2. /\ Len(written) + Len(rest) = 3 * Len(given)
          /\ \A k \in 1 .. Len(rest) : rest[k] = PieceAt(Len(written) + k)
        BY <2>1 DEF InOrder, NewLine
    <2>3. /\ Len(rest) >= 1
          /\ Head(rest) = rest[1] /\ Head(rest) \in Piece
          /\ rest' \in Seq(Piece) /\ Len(rest') = Len(rest) - 1
          /\ \A k \in 1 .. Len(rest') : rest'[k] = rest[k + 1]
        BY SMT, <1>1, <1>3, <2>1, HeadTailProperties, EmptySeq DEF WritePiece
    <2>4. /\ Len(written') = Len(written) + 1
          /\ \A i \in 1 .. Len(written) : written'[i] = written[i]
          /\ written'[Len(written) + 1] = Head(rest)
        BY SMT, <1>1, <1>3, <2>3, AppendProperties DEF WritePiece
    <2>5. Head(rest) = PieceAt(Len(written) + 1)
        BY SMT, <1>1, <2>2, <2>3
    <2>6. \A i \in 1 .. Len(written') : written'[i] = PieceAt(i)
        <3> TAKE i \in 1 .. Len(written')
        <3>1. CASE i = Len(written) + 1
            BY <2>4, <2>5, <3>1
        <3>2. CASE i # Len(written) + 1
            <4>1. i \in 1 .. Len(written)
                BY SMT, <1>1, <2>4, <3>2
            <4> QED
                BY <2>4, <4>1 DEF InOrder
        <3> QED
            BY <3>1, <3>2
    <2>7. \A k \in 1 .. Len(rest') : rest'[k] = PieceAt(Len(written') + k)
        <3> TAKE k \in 1 .. Len(rest')
        <3>1. k + 1 \in 1 .. Len(rest) /\ Len(written') + k = Len(written) + (k + 1)
            BY SMT, <1>1, <2>3, <2>4
        <3> QED
            BY <2>2, <2>3, <3>1
    <2>8. Len(written') + Len(rest') = 3 * Len(given)
        <3>1. /\ Len(written) \in Int /\ Len(written') \in Int
              /\ Len(rest) \in Int /\ Len(rest') \in Int
              /\ 3 * Len(given) \in Int
            BY SMT, <1>1, <2>3, <2>4
        <3>2. Len(written') = Len(written) + 1 /\ Len(rest') = Len(rest) - 1
            BY <2>3, <2>4
        <3>3. Len(written) + Len(rest) = 3 * Len(given)
            BY <2>2
        <3> QED
            BY <3>1, <3>2, <3>3, SMT
    <2>9. given' = given /\ writer' = "writing"
        BY <1>3 DEF WritePiece
    <2> QED
        BY <2>6, <2>7, <2>8, <2>9 DEF InOrder, NewLine
<1>4. CASE WriteEnd
    <2>1. writer = "writing" /\ wg' = wg /\ given' = given /\ written' = written
          /\ rest' = <<>>
        BY <1>4 DEF WriteEnd
    <2>2. wg = 1 => rest = <<>>
        BY <1>4 DEF WriteEnd, Readable, WriterInv, Together
    <2> QED
        BY <2>1, <2>2 DEF InOrder
<1>5. CASE Kill
    BY <1>5 DEF Kill, InOrder
<1>6. CASE NewWriter \/ NewWriterFails \/ ClosePipe \/ CloseReturn
    BY <1>6 DEF NewWriter, NewWriterFails, ClosePipe, CloseReturn, InOrder
<1>7. CASE \/ Start \/ Reap \/ ZstdRuns \/ ZstdDies \/ Finalize \/ UNCHANGED writeVars
    <2>1. UNCHANGED <<writer, given, rest, written>> /\ (wg' = 1 => wg = 1)
        BY <1>7 DEF Start, Reap, ZstdRuns, ZstdReads, ZstdStores, ZstdEnds, ZstdDies,
                    Finalize, writeVars, callVars
    <2> QED
        BY <2>1 DEF InOrder
<1> QED
    BY <1>2, <1>3, <1>4, <1>5, <1>6, <1>7 DEF WriterNext, Caller, Goroutine

LEMMA InOrderInit == WriterInit => InOrder
BY SMT DEF WriterInit, InOrder, NewLine

\* No gap in a file.  Whatever write fails and whenever zstd or the program
\* dies, the file holds the pieces of the lines in order from the first one:
\* only its last line can be cut.
THEOREM NoGapInFile == WriterSpec => []OnlyLastLineCut
<1>1. WriterInit => InOrder
    BY InOrderInit
<1>2. WriterInv /\ InOrder => OnlyLastLineCut
    <2> SUFFICES ASSUME WriterInv, InOrder PROVE OnlyLastLineCut
        OBVIOUS
    <2>1. /\ Len(file) \in 0 .. Len(written)
          /\ \A i \in 1 .. Len(file) : file[i] = written[i]
        BY StoredPrefix DEF WriterInv
    <2>2. DOMAIN file = 1 .. Len(file) /\ Len(written) \in Nat
        BY LenProperties DEF WriterInv, WriterTypeInv
    <2>3. \A i \in 1 .. Len(file) : file[i] = PieceAt(i)
        BY SMT, <2>1, <2>2 DEF InOrder
    <2> QED
        BY <2>2, <2>3 DEF OnlyLastLineCut, PieceAt
<1> QED
    BY <1>1, <1>2, InOrderStep, WriterInvariant, PTL DEF WriterSpec

-----------------------------------------------------------------------------
(* The file while it is read. *)

\* Nothing is written of a line that has not been given.
Bounded == Len(written) <= NewLine * Len(given)

LEMMA GivenGrows ==
    ASSUME WriterInv, [WriterNext]_writeVars
    PROVE  \/ given' = given
           \/ /\ WriteBegin
              /\ \E l \in IF given = <<>> THEN {Header} ELSE Line : given' = Append(given, l)
<1>1. CASE WriteBegin
    BY <1>1 DEF WriteBegin
<1>2. CASE NewWriter \/ NewWriterFails \/ WritePiece \/ WriteEnd \/ ClosePipe \/ CloseReturn
    BY <1>2 DEF NewWriter, NewWriterFails, WritePiece, WriteEnd, ClosePipe, CloseReturn
<1>3. CASE Goroutine \/ ZstdRuns \/ ZstdDies \/ Finalize \/ Kill \/ UNCHANGED writeVars
    BY <1>3 DEF Goroutine, Start, Reap, ZstdRuns, ZstdReads, ZstdStores, ZstdEnds, ZstdDies,
                Finalize, Kill, writeVars, callVars
<1> QED
    BY <1>1, <1>2, <1>3 DEF WriterNext, Caller

\* The lines stay, and the next one is the header or a line.
LEMMA GivenKept ==
    ASSUME WriterInv, [WriterNext]_writeVars
    PROVE  /\ Len(given) \in Nat /\ Len(given') \in Nat /\ Len(given) <= Len(given')
           /\ \A i \in 1 .. Len(given) : given'[i] = given[i]
<1>1. given \in Seq(Line \cup {Header}) /\ Len(given) \in Nat
    BY LenProperties DEF WriterInv, WriterTypeInv
<1>2. CASE given' = given
    BY SMT, <1>1, <1>2
<1>3. CASE \E l \in Line \cup {Header} : given' = Append(given, l)
    BY SMT, <1>1, <1>3
<1> QED
    BY <1>2, <1>3, GivenGrows

LEMMA BoundedStep == WriterInv /\ InOrder /\ Bounded /\ [WriterNext]_writeVars => Bounded'
<1> SUFFICES ASSUME WriterInv, InOrder, Bounded, [WriterNext]_writeVars PROVE Bounded'
    OBVIOUS
<1>1. /\ written \in Seq(Piece) /\ Len(written) \in Nat
      /\ rest \in Seq(Piece) /\ Len(rest) \in Nat
    BY LenProperties DEF WriterInv, WriterTypeInv
<1>2. CASE UNCHANGED written
    BY SMT, <1>1, <1>2, GivenKept DEF Bounded, NewLine
<1>3. CASE WritePiece
    <2>1. wg = 1 /\ writer = "writing" /\ rest # <<>> /\ given' = given
        BY <1>3 DEF WritePiece, Readable, WriterInv, Together, WriterTypeInv
    <2>2. Len(written) + Len(rest) = 3 * Len(given)
        BY <2>1 DEF InOrder, NewLine
    <2>3. Len(rest) >= 1 /\ Head(rest) \in Piece
        BY SMT, <1>1, <2>1
    <2>4. Len(written') = Len(written) + 1
        BY SMT, <1>1, <1>3, <2>3 DEF WritePiece
    <2>5. Len(given) \in Nat
        BY GivenKept
    <2> QED
        BY SMT, <1>1, <2>1, <2>2, <2>3, <2>4, <2>5 DEF Bounded, NewLine
<1>4. [WriterNext]_writeVars => WritePiece \/ UNCHANGED written
    BY DEF WriterNext, Caller, Goroutine, ZstdRuns, NewWriter, NewWriterFails,
           WriteBegin, WriteEnd, ClosePipe, CloseReturn, Start, Reap, ZstdReads, ZstdStores,
           ZstdEnds, ZstdDies, Finalize, Kill, writeVars, callVars, zstdVars
<1> QED
    BY <1>2, <1>3, <1>4

\* The file grows, until zstd has ended it.
LEMMA FileGrows ==
    ASSUME WriterInv, [WriterNext]_writeVars
    PROVE  /\ Len(file) \in Nat /\ Len(file') \in Nat /\ Len(file) <= Len(file')
           /\ zstd = "done" => zstd' = "done" /\ file' = file
<1>1. file \in Seq(Piece) /\ held \in Seq(Piece)
    BY DEF WriterInv, WriterTypeInv
<1>2. CASE ZstdStores
    <2>1. zstd = "running" /\ file' = file \o held
        BY <1>2 DEF ZstdStores
    <2>2. Len(file) \in Nat /\ Len(file') \in Nat /\ Len(file) <= Len(file')
        BY SMT, <1>1, <2>1
    <2> QED
        BY <2>1, <2>2
<1>3. CASE UNCHANGED file /\ (zstd = "done" => zstd' = "done")
    <2>1. Len(file) \in Nat
        BY <1>1, LenProperties
    <2> QED
        BY SMT, <1>3, <2>1
<1>4. ZstdStores \/ (UNCHANGED file /\ (zstd = "done" => zstd' = "done"))
    BY DEF WriterNext, Caller, Goroutine, ZstdRuns, NewWriter, NewWriterFails, WritePiece,
           WriteBegin, WriteEnd, ClosePipe, CloseReturn, Start, Reap, ZstdReads,
           ZstdEnds, ZstdDies, Finalize, Kill, writeVars, callVars, zstdVars
<1> QED
    BY <1>2, <1>3, <1>4

-----------------------------------------------------------------------------
(* The tool.  As long as it reads, it is at the end of the lines it has     *)
(* shown; only after the end of its input it may have taken a last line     *)
(* without its newline.                                                     *)

Ended == unzip \in {"done", "failed"} \/ source = "raw"

ToolTypeInv ==
    /\ tool \in {"none", "reading", "csv", "fatal"}
    /\ fed \in Nat /\ got \in Nat /\ got <= fed /\ fed <= Len(file)
    /\ rows \in Seq({Snapshots[l] : l \in DOMAIN Snapshots})

RowsInv ==
    /\ Len(rows) <= Len(given)
    /\ \A i \in 1 .. Len(rows) :
          given[i] \in DOMAIN Snapshots /\ rows[i] = Snapshots[given[i]]

PlaceInv ==
    \/ got = NewLine * Len(rows)
    \/ got = NewLine * Len(rows) - 1 /\ got = fed /\ Ended

\* Why the tool has written a CSV of a .zst.
CsvInv ==
    tool = "csv" /\ source = "zst" =>
        \/ unzip = "done" /\ got = fed
        \/ Len(rows) < Len(given) /\ Lines[given[Len(rows) + 1]].Long

ToolInv ==
    /\ ToolTypeInv /\ RowsInv /\ PlaceInv /\ CsvInv
    /\ unzip = "done" => zstd = "done" /\ fed = Len(file)
    /\ tool = "none" => unzip = "none" /\ source = "none" /\ got = 0
    /\ source = "raw" => unzip = "none"

\* The pieces of the line the scanner is at.
LEMMA ArrivedIs ==
    ASSUME WriterInv, InOrder, Bounded, ToolInv, got < fed
    PROVE  /\ Number = Len(rows) + 1 /\ Len(rows) < Len(given) /\ got = 3 * Len(rows)
           /\ \E n \in 1 .. 3 : /\ Arrived = got + 1 .. got + n
                                /\ got + n <= fed /\ (n # 3 => got + n = fed)
<1>1. PICK r \in Nat : r = Len(rows)
    BY LenProperties DEF ToolInv, ToolTypeInv
<1>2. fed \in Nat /\ got \in Nat /\ got = 3 * r /\ fed <= Len(file)
    BY SMT, <1>1 DEF ToolInv, ToolTypeInv, PlaceInv, NewLine
<1>3. /\ Len(file) \in Nat /\ Len(written) \in Nat /\ Len(file) <= Len(written)
      /\ Len(given) \in Nat
    BY SMT, StoredPrefix, LenProperties DEF WriterInv, WriterTypeInv
<1>4. \A i \in 1 .. Len(file) : file[i] = PieceAt(i)
    BY SMT, <1>3, StoredPrefix DEF WriterInv, InOrder
<1>5. \A i \in 1 .. Len(file) : file[i][1] = ((i - 1) \div 3) + 1
    BY SMT, <1>4 DEF PieceAt, NewLine
<1>6. Number = r + 1
    <2>1. got + 1 \in 1 .. Len(file)
        BY SMT, <1>2, <1>3
    <2>2. Number = (((got + 1) - 1) \div 3) + 1
        BY <1>5, <2>1 DEF Number
    <2> QED
        BY SMT, <1>2, <2>2
<1>7. r < Len(given)
    BY SMT, <1>2, <1>3 DEF Bounded, NewLine
<1>8. \A i \in got + 1 .. fed : file[i][1] = r + 1 <=> i <= got + 3
    <2> TAKE i \in got + 1 .. fed
    <2>1. i \in 1 .. Len(file) /\ i \in Nat
        BY SMT, <1>2, <1>3
    <2>2. file[i][1] = ((i - 1) \div 3) + 1
        BY <1>5, <2>1
    <2>3. ((i - 1) \div 3) + 1 = r + 1 <=> i <= got + 3
        BY SMT, <1>2, <2>1
    <2> QED
        BY <2>2, <2>3
<1>9. PICK n \in 1 .. 3 : got + n <= fed /\ (n # 3 => got + n = fed)
    BY SMT, <1>2
<1>10. Arrived = got + 1 .. got + n
    <2>1. Arrived = {i \in got + 1 .. fed : i <= got + 3}
        BY <1>6, <1>8 DEF Arrived
    <2> QED
        BY SMT, <1>2, <1>9, <2>1
<1> QED
    BY <1>1, <1>2, <1>6, <1>7, <1>9, <1>10

\* How many they are, and the last of them.
LEMMA ArrivedCount ==
    ASSUME NEW g \in Nat, NEW n \in 1 .. 3
    PROVE  Cardinality(g + 1 .. g + n) = n /\ Max(g + 1 .. g + n) = g + n
<1>1. Cardinality(g + 1 .. g + n) = n
    <2>1. g + 1 \in Int /\ g + n \in Int /\ ~(g + 1 > g + n) /\ (g + n) - (g + 1) + 1 = n
        BY SMT
    <2> QED
        BY SMT, <2>1, FS_Interval
<1>2. Max(g + 1 .. g + n) = g + n
    <2>1. PICK S : S = g + 1 .. g + n
        OBVIOUS
    <2>2. g + n \in S /\ \A x \in S : g + n >= x
        BY SMT, <2>1
    <2>3. \A y \in S : (\A x \in S : y >= x) => y = g + n
        BY SMT, <2>1, <2>2
    <2> QED
        BY <2>1, <2>2, <2>3 DEF Max
<1> QED
    BY <1>1, <1>2

-----------------------------------------------------------------------------
(* The steps. *)

LEMMA ToolInitInv == ArchiveInit => Bounded /\ ToolInv
<1> SUFFICES ASSUME ArchiveInit PROVE Bounded /\ ToolInv
    OBVIOUS
<1>1. /\ given = <<>> /\ written = <<>> /\ file = <<>> /\ zstd = "none"
      /\ tool = "none" /\ source = "none" /\ unzip = "none"
      /\ fed = 0 /\ got = 0 /\ rows = <<>>
    BY DEF ArchiveInit, WriterInit, ToolInit
<1>2. Bounded
    BY SMT, <1>1 DEF Bounded, NewLine
<1>3. ToolTypeInv
    BY SMT, <1>1 DEF ToolTypeInv
<1>4. RowsInv
    BY SMT, <1>1 DEF RowsInv
<1>5. PlaceInv
    BY SMT, <1>1 DEF PlaceInv, NewLine
<1> QED
    BY <1>1, <1>2, <1>3, <1>4, <1>5 DEF ToolInv, CsvInv

\* What the writer does while the tool is at work.
LEMMA ToolWriter ==
    ASSUME WriterInv, ToolInv, [WriterNext]_writeVars, UNCHANGED toolVars
    PROVE  ToolInv'
<1>1. /\ Len(given) \in Nat /\ Len(given') \in Nat /\ Len(given) <= Len(given')
      /\ \A i \in 1 .. Len(given) : given'[i] = given[i]
    BY GivenKept
<1>2. /\ Len(file) \in Nat /\ Len(file') \in Nat /\ Len(file) <= Len(file')
      /\ zstd = "done" => zstd' = "done" /\ file' = file
    BY FileGrows
<1>3. UNCHANGED <<tool, source, unzip, fed, got, rows>>
    BY DEF toolVars
<1>4. PICK r \in Nat : r = Len(rows)
    BY LenProperties DEF ToolInv, ToolTypeInv
<1>5. ToolTypeInv'
    <2>1. ToolTypeInv /\ fed' <= Len(file')
        BY SMT, <1>2, <1>3 DEF ToolInv, ToolTypeInv
    <2> QED
        BY <1>3, <2>1 DEF ToolTypeInv
<1>6. RowsInv'
    <2>1. r <= Len(given) /\ r <= Len(given') /\ \A i \in 1 .. r : i \in 1 .. Len(given)
        BY SMT, <1>1, <1>4 DEF ToolInv, RowsInv
    <2>2. \A i \in 1 .. r : given'[i] = given[i]
        BY <1>1, <2>1
    <2> QED
        BY <1>3, <1>4, <2>1, <2>2 DEF ToolInv, RowsInv
<1>7. PlaceInv'
    BY <1>3 DEF ToolInv, PlaceInv, Ended
<1>8. CsvInv'
    <2>1. ASSUME r < Len(given) PROVE r < Len(given') /\ given'[r + 1] = given[r + 1]
        <3>1. r < Len(given') /\ r + 1 \in 1 .. Len(given)
            BY SMT, <1>1, <2>1
        <3> QED
            BY <1>1, <3>1
    <2> QED
        BY <1>3, <1>4, <2>1 DEF ToolInv, CsvInv
<1>9. unzip' = "done" => zstd' = "done" /\ fed' = Len(file')
    BY <1>2, <1>3 DEF ToolInv
<1> QED
    BY <1>3, <1>5, <1>6, <1>7, <1>8, <1>9 DEF ToolInv

\* A row is added.
LEMMA ToolLoadNext ==
    ASSUME WriterInv, InOrder, Bounded, ToolInv, LoadNext
    PROVE  ToolInv'
<1>1. PICK r \in Nat : r = Len(rows)
    BY LenProperties DEF ToolInv, ToolTypeInv
<1>2. got < fed /\ tool = "reading"
    BY DEF LoadNext, Scans
<1>3. PICK n \in 1 .. 3 : /\ Arrived = got + 1 .. got + n
                          /\ got + n <= fed /\ (n # 3 => got + n = fed)
    BY <1>2, ArrivedIs
<1>4. Number = r + 1 /\ r < Len(given) /\ got = 3 * r
    BY <1>1, <1>2, ArrivedIs
<1>5. fed \in Nat /\ got \in Nat /\ Len(given) \in Nat
    BY LenProperties DEF ToolInv, ToolTypeInv, WriterInv, WriterTypeInv
<1>6. Cardinality(Arrived) = n /\ Max(Arrived) = got + n
    BY <1>3, <1>5, ArrivedCount
<1>7. n # 1 /\ (n = 3 \/ EndOfInput) /\ got' = got + n
    <2>1. n >= 3 - 1 /\ (n = 3 \/ EndOfInput)
        BY <1>6 DEF LoadNext, Scans, HasText, NewLine
    <2> QED
        BY SMT, <1>6, <2>1 DEF LoadNext
<1>8. PICK l \in DOMAIN Snapshots : l = given[r + 1] /\ rows' = Append(rows, Snapshots[l])
    BY <1>4 DEF LoadNext, Text
<1>9. /\ rows \in Seq({Snapshots[k] : k \in DOMAIN Snapshots})
      /\ Snapshots[l] \in {Snapshots[k] : k \in DOMAIN Snapshots}
    BY DEF ToolInv, ToolTypeInv
<1>10. /\ rows' \in Seq({Snapshots[k] : k \in DOMAIN Snapshots}) /\ Len(rows') = r + 1
       /\ rows'[r + 1] = Snapshots[l] /\ \A i \in 1 .. r : rows'[i] = rows[i]
    <2>1. PICK T, x : T = {Snapshots[k] : k \in DOMAIN Snapshots} /\ x = Snapshots[l]
        OBVIOUS
    <2>2. rows \in Seq(T) /\ x \in T /\ rows' = Append(rows, x) /\ r = Len(rows)
        BY <1>1, <1>8, <1>9, <2>1
    <2>3. /\ rows' \in Seq(T) /\ Len(rows') = r + 1
          /\ rows'[r + 1] = x /\ \A i \in 1 .. r : rows'[i] = rows[i]
        BY SMT, <2>2
    <2> QED
        BY <2>1, <2>3
<1>11. UNCHANGED <<tool, source, unzip, fed, given, file, zstd>>
    BY DEF LoadNext, writeVars, callVars, zstdVars
<1>12. ToolTypeInv'
    <2>1. got' \in Nat /\ got' <= fed
        BY SMT, <1>3, <1>5, <1>7
    <2> QED
        BY <1>10, <1>11, <2>1 DEF ToolInv, ToolTypeInv
<1>13. RowsInv'
    <2>1. r + 1 <= Len(given)
        BY SMT, <1>4, <1>5
    <2>2. ASSUME NEW i \in 1 .. r + 1
          PROVE  given[i] \in DOMAIN Snapshots /\ rows'[i] = Snapshots[given[i]]
        <3>1. i \in 1 .. r \/ i = r + 1
            BY SMT
        <3> QED
            BY <1>1, <1>8, <1>10, <3>1 DEF ToolInv, RowsInv
    <2> QED
        BY <1>10, <1>11, <2>1, <2>2 DEF RowsInv
<1>14. PlaceInv'
    <2>1. CASE n = 3
        <3>1. got' = 3 * (r + 1)
            BY SMT, <1>4, <1>7, <2>1
        <3> QED
            BY <1>10, <3>1 DEF PlaceInv, NewLine
    <2>2. CASE n # 3
        <3>1. got' = 3 * (r + 1) - 1
            BY SMT, <1>4, <1>7, <2>2
        <3>2. got' = fed' /\ Ended'
            BY <1>3, <1>7, <1>11, <2>2 DEF EndOfInput, Ended
        <3> QED
            BY <1>10, <3>1, <3>2 DEF PlaceInv, NewLine
    <2> QED
        BY <2>1, <2>2
<1> QED
    BY <1>2, <1>11, <1>12, <1>13, <1>14 DEF ToolInv, CsvInv

LEMMA ToolStep ==
    WriterInv /\ InOrder /\ Bounded /\ ToolInv /\ [ArchiveNext]_archiveVars => ToolInv'
<1> SUFFICES ASSUME WriterInv, InOrder, Bounded, ToolInv, [ArchiveNext]_archiveVars
             PROVE  ToolInv'
    OBVIOUS
<1>1. ASSUME UNCHANGED writeVars, UNCHANGED rows
      PROVE  RowsInv' /\ UNCHANGED <<given, file, zstd>>
    BY <1>1 DEF ToolInv, RowsInv, writeVars, callVars, zstdVars
<1>2. CASE (WriterNext /\ UNCHANGED toolVars) \/ UNCHANGED archiveVars
    BY <1>2, ToolWriter DEF archiveVars
<1>3. CASE LoadNext
    BY <1>3, ToolLoadNext
<1>4. CASE ReadStdin \/ openFile \/ TooManyArguments
    <2>1. UNCHANGED <<got, rows, given, file, zstd>> /\ RowsInv'
        BY <1>1, <1>4 DEF ReadStdin, openFile, openZst, openRaw, TooManyArguments
    <2>2. /\ tool' \in {"reading", "fatal"} /\ unzip' \in {"none", "running"} /\ ~Ended
          /\ source' = "raw" => unzip' = "none"
          /\ got = 0
        BY <1>4 DEF ReadStdin, openFile, openZst, openRaw, TooManyArguments, ToolInv, Ended
    <2>3. fed' \in Nat /\ got' <= fed' /\ fed' <= Len(file')
        <3>1. /\ fed \in Nat /\ got \in Nat /\ got <= fed /\ fed <= Len(file)
              /\ Len(file) \in Nat
            BY LenProperties DEF ToolInv, ToolTypeInv, WriterInv, WriterTypeInv
        <3>2. fed' = fed \/ fed' \in 0 .. Len(file)
            BY <1>4 DEF ReadStdin, openFile, openZst, openRaw, TooManyArguments
        <3> QED
            BY SMT, <2>1, <2>2, <3>1, <3>2
    <2> QED
        BY <2>1, <2>2, <2>3 DEF ToolInv, ToolTypeInv, PlaceInv, CsvInv
<1>5. CASE UnzipCopies
    <2>1. UNCHANGED <<tool, source, unzip, got, rows, given, file, zstd>> /\ RowsInv'
        BY <1>1, <1>5 DEF UnzipCopies
    <2>2. unzip = "running" /\ ~Ended /\ tool # "none"
        BY <1>5 DEF UnzipCopies, Ended, ToolInv
    <2>3. fed' \in Nat /\ got' <= fed' /\ fed' <= Len(file')
        <3>1. fed \in Nat /\ got \in Nat /\ got <= fed /\ Len(file) \in Nat
            BY LenProperties DEF ToolInv, ToolTypeInv, WriterInv, WriterTypeInv
        <3> QED
            BY SMT, <1>5, <2>1, <3>1 DEF UnzipCopies
    <2> QED
        BY <2>1, <2>2, <2>3 DEF ToolInv, ToolTypeInv, PlaceInv, CsvInv
<1>6. CASE UnzipEnds
    <2>1. UNCHANGED <<tool, source, fed, got, rows, given, file, zstd>> /\ RowsInv'
        BY <1>1, <1>6 DEF UnzipEnds
    <2>2. /\ unzip = "running" /\ unzip' \in {"done", "failed"} /\ tool # "none"
          /\ unzip' = "done" => zstd = "done" /\ fed = Len(file)
        BY <1>6 DEF UnzipEnds, ToolInv
    <2> QED
        BY <2>1, <2>2 DEF ToolInv, ToolTypeInv, PlaceInv, CsvInv, Ended
<1>7. CASE UnzipMust \/ LoadFails
    <2>1. UNCHANGED <<source, unzip, fed, got, rows, given, file, zstd>> /\ RowsInv'
        BY <1>1, <1>7 DEF UnzipMust, LoadFails
    <2>2. tool' = "fatal"
        BY <1>7 DEF UnzipMust, LoadFails
    <2> QED
        BY <2>1, <2>2 DEF ToolInv, ToolTypeInv, PlaceInv, CsvInv, Ended
<1>8. CASE LoadEnds
    <2>1. UNCHANGED <<source, unzip, fed, got, rows, given, file, zstd>> /\ RowsInv'
        BY <1>1, <1>8 DEF LoadEnds
    <2>2. tool' \in {"csv", "fatal"}
        BY <1>8 DEF LoadEnds
    <2>3. source = "zst" => \/ unzip = "done" /\ got = fed
                            \/ Len(rows) < Len(given) /\ Lines[given[Len(rows) + 1]].Long
        <3>1. CASE AtEnd
            BY <3>1 DEF AtEnd, EndOfInput
        <3>2. CASE got < fed /\ Lines[Text].Long
            BY <3>2, ArrivedIs DEF Text
        <3> QED
            BY <1>8, <3>1, <3>2 DEF LoadEnds
    <2> QED
        BY <2>1, <2>2, <2>3 DEF ToolInv, ToolTypeInv, PlaceInv, CsvInv, Ended
<1> QED
    BY <1>2, <1>3, <1>4, <1>5, <1>6, <1>7, <1>8 DEF ArchiveNext, ToolNext, Reading

-----------------------------------------------------------------------------
(* Complete files. *)

\* The lines of which the whole text was written, once all is read.
LEMMA WholeIs ==
    ASSUME WriterInv, InOrder, ToolInv, Len(written) = got
    PROVE  Whole = 1 .. Len(rows)
<1>1. PICK r \in Nat : r = Len(rows)
    BY LenProperties DEF ToolInv, ToolTypeInv
<1>2. /\ got \in Nat /\ Len(given) \in Nat /\ r <= Len(given) /\ written \in Seq(Piece)
      /\ got = 3 * r \/ got = 3 * r - 1
    BY <1>1, LenProperties
       DEF ToolInv, ToolTypeInv, RowsInv, PlaceInv, NewLine, WriterInv, WriterTypeInv
<1>3. DOMAIN written = 1 .. got /\ \A i \in 1 .. got : written[i] = PieceAt(i)
    BY <1>2, LenProperties DEF InOrder
<1>4. ASSUME NEW n \in 1 .. Len(given), <<n, 2>> \in {written[i] : i \in DOMAIN written}
      PROVE  n \in 1 .. r
    <2>1. PICK i \in 1 .. got : <<n, 2>> = PieceAt(i)
        BY <1>3, <1>4
    <2>2. n = ((i - 1) \div 3) + 1 /\ 2 = ((i - 1) % 3) + 1
        BY SMT, <2>1 DEF PieceAt, NewLine
    <2> QED
        BY SMT, <1>2, <2>2
<1>5. ASSUME NEW n \in 1 .. r
      PROVE  n \in 1 .. Len(given) /\ <<n, 2>> \in {written[i] : i \in DOMAIN written}
    <2>1. PICK g \in Nat : n = g + 1
        BY SMT
    <2>2. PICK i \in 1 .. got : i = 3 * g + 2
        BY SMT, <1>2, <2>1
    <2>3. PieceAt(i) = <<n, 2>>
        <3>1. PieceAt(3 * g + 2) = <<g + 1, 2>>
            BY PieceAtNext, SMT
        <3> QED
            BY <2>1, <2>2, <3>1
    <2>4. n \in 1 .. Len(given)
        BY SMT, <1>2
    <2> QED
        BY <1>3, <2>3, <2>4
<1>6. Whole = {n \in 1 .. Len(given) : <<n, 2>> \in {written[i] : i \in DOMAIN written}}
    <2>1. NewLine - 1 = 2
        BY SMT DEF NewLine
    <2> QED
        BY <2>1 DEF Whole
<1> QED
    BY <1>1, <1>4, <1>5, <1>6

LEMMA CsvIsComplete == WriterInv /\ InOrder /\ ToolInv => CsvComplete
<1> SUFFICES ASSUME WriterInv, InOrder, ToolInv, unzip = "done", got = fed
             PROVE  zstd = "done" /\ Len(rows) = Cardinality(Whole)
    BY DEF CsvComplete, ToolInv, CsvInv
<1>1. zstd = "done" /\ got = Len(file)
    BY DEF ToolInv
<1>2. written = file
    <2>1. held = <<>> /\ pipe = <<>> /\ file \in Seq(Piece)
        BY <1>1 DEF WriterInv, Together, WriterTypeInv
    <2>2. (file \o <<>>) \o <<>> = file
        BY SMT, <2>1
    <2> QED
        BY <2>1, <2>2 DEF WriterInv, Flow
<1>3. Whole = 1 .. Len(rows)
    BY <1>1, <1>2, WholeIs
<1>4. PICK r \in Nat : r = Len(rows)
    BY LenProperties DEF ToolInv, ToolTypeInv
<1>5. Cardinality(1 .. r) = r
    <2>1. Cardinality(1 .. r) = IF 1 > r THEN 0 ELSE r - 1 + 1
        BY FS_Interval, SMT
    <2> QED
        BY SMT, <2>1
<1> QED
    BY <1>1, <1>3, <1>4, <1>5

LEMMA ArchiveWriterStep == [ArchiveNext]_archiveVars => [WriterNext]_writeVars
BY DEF ArchiveNext, ToolNext, Reading, ReadStdin, openFile, openZst, openRaw,
       TooManyArguments, UnzipCopies, UnzipEnds, UnzipMust, LoadNext, LoadFails,
       LoadEnds, archiveVars

\* The writer does not notice its reader.  Whenever csvtool or zstd -d reads the
\* file, what the program writes into it is what it would be without them.
THEOREM ArchiveImplementsWriter == Archive => WriterSpec
BY ArchiveWriterStep, PTL DEF Archive, ArchiveInit, WriterSpec

LEMMA ArchiveInvariant == Archive => [](WriterInv /\ InOrder /\ Bounded /\ ToolInv)
<1>1. ArchiveInit => InOrder
    BY InOrderInit DEF ArchiveInit
<1> QED
    BY <1>1, ArchiveWriterStep, ArchiveImplementsWriter, WriterInvariant, InOrderStep,
       BoundedStep, ToolInitInv, ToolStep, PTL DEF Archive

\* A CSV is complete.  csvtool, started at any moment on the .zst of a writer
\* that is at work, has stopped or was killed, writes a CSV only of a file that
\* zstd has ended, with a row for each line that was written, or up to a line
\* that is too long for its scanner.
THEOREM OnlyCompleteFiles == Archive => []CsvComplete
BY ArchiveInvariant, CsvIsComplete, PTL

-----------------------------------------------------------------------------
(* Rows. *)

Parts == {"Early", "Times", "Counters", "Received", "Late", "Sent"}

\* What Convert makes of a value, and whether it is ok, by the type's kind.
LEMMA ConvertCases ==
    ASSUME NEW t, NEW v
    PROVE  /\ t \in StructTypes =>
                /\ Convert(t, v) = maybeCopy(v, structSize(t))
                /\ ConvertOK(t, v) <=> v.Len <= structSize(t)
           /\ t \in Uint8Types =>
                /\ Convert(t, v) = toUint8(v)
                /\ ConvertOK(t, v) <=> v.Len >= 1
           /\ t = INET_DIAG_CONG =>
                /\ Convert(t, v) = CongestionAlgorithm(v)
                /\ ConvertOK(t, v)
           /\ t = INET_DIAG_MARK =>
                /\ Convert(t, v) = toMark(v)
                /\ ConvertOK(t, v) <=> v.Len = 4
           /\ t \notin DecodedTypes => ~ConvertOK(t, v)
BY SMT DEF Convert, ConvertOK, StructTypes, Uint8Types, INET_DIAG_CONG, INET_DIAG_MARK,
           INET_DIAG_CLASS_ID, DecodedTypes

LEMMA StructSize ==
    ASSUME NEW t \in StructTypes
    PROVE  structSize(t) \in Nat /\ structSize(t) % 4 = 0
BY SMT DEF StructTypes, structSize

LEMMA ValueParts ==
    ASSUME NEW v \in AttrValue
    PROVE  /\ v.Len \in Nat /\ DOMAIN v = Parts \cup {"Len"}
           /\ \A f \in Parts : v[f] \in Nat /\ f # "Len"
           /\ DOMAIN Offset = Parts /\ \A f \in Parts : Offset[f] \in Nat
BY SMT DEF AttrValue, Parts, Offset

\* A value the kernel may have sent is shown, and in full when that is said.
LEMMA ConvertShows ==
    ASSUME NEW t \in DecodedTypes, t # INET_DIAG_CLASS_ID, NEW v, KernelValue(t, v)
    PROVE  /\ ~ConvertOK(t, v) <=> Convert(t, v).Len < v.Len - 1
           /\ \A f \in Parts : Offset[f] < Convert(t, v).Len => Convert(t, v)[f] = v[f]
<1>1. v \in AttrValue /\ v.Len \in Nat
    BY ValueParts DEF KernelValue
<1>2. CASE t \in StructTypes
    <2>1. PICK n \in Nat : n = structSize(t) /\ n % 4 = 0
        BY <1>2, StructSize
    <2>2. Convert(t, v) = [f \in DOMAIN v |->
            IF f = "Len" THEN n
            ELSE IF Offset[f] < v.Len /\ Offset[f] < n THEN v[f] ELSE 0]
        <3>1. Convert(t, v) = maybeCopy(v, structSize(t))
            BY <1>2, ConvertCases
        <3>2. Convert(t, v) = maybeCopy(v, n)
            BY <2>1, <3>1
        <3> QED
            BY <3>2 DEF maybeCopy
    <2>3. Convert(t, v).Len = n
        <3>1. "Len" \in DOMAIN v
            BY <1>1, ValueParts
        <3> QED
            BY <2>2, <3>1
    <2>4. ASSUME NEW f \in Parts, Offset[f] < n
          PROVE  Convert(t, v)[f] = v[f]
        <3>1. f \in DOMAIN v /\ f # "Len" /\ f \in DOMAIN Offset /\ Offset[f] \in Nat
            BY <1>1, ValueParts
        <3>2. Convert(t, v)[f] = IF Offset[f] < v.Len THEN v[f] ELSE 0
            BY <2>2, <2>4, <3>1
        <3>3. ~(Offset[f] < v.Len) => Offset[f] >= v.Len
            BY SMT, <1>1, <3>1
        <3> QED
            BY <3>1, <3>2, <3>3 DEF KernelValue
    <2>5. v.Len <= n <=> ~(n < v.Len - 1)
        <3>1. v.Len % 4 = 0
            BY <1>2 DEF KernelValue
        <3> QED
            BY SMT, <1>1, <2>1, <3>1
    <2>6. ConvertOK(t, v) <=> v.Len <= n
        BY <1>2, <2>1, ConvertCases
    <2> QED
        BY <2>3, <2>4, <2>5, <2>6
<1>3. CASE t \in Uint8Types
    <2>1. v.Len = 1 /\ v.Early < 256
        BY <1>3 DEF KernelValue
    <2>2. ConvertOK(t, v) /\ ~(1 < v.Len - 1) /\ ~(v.Len < 1)
        <3>1. v.Len >= 1 /\ ~(1 < v.Len - 1) /\ ~(v.Len < 1)
            BY SMT, <2>1
        <3> QED
            BY <1>3, <3>1, ConvertCases
    <2>3. Convert(t, v) = [Zeros(1) EXCEPT !.Early = v.Early]
        <3>1. v.Early \in Nat
            BY <1>1 DEF AttrValue
        <3>2. v.Early % 256 = v.Early
            BY SMT, <2>1, <3>1
        <3>3. toUint8(v) = [Zeros(1) EXCEPT !.Early = v.Early % 256]
            BY <2>2 DEF toUint8
        <3>4. toUint8(v) = [Zeros(1) EXCEPT !.Early = v.Early]
            BY <3>2, <3>3
        <3> QED
            BY <1>3, <3>4, ConvertCases
    <2>4. Convert(t, v) = [Len |-> 1, Early |-> v.Early, Times |-> 0, Counters |-> 0,
                           Received |-> 0, Late |-> 0, Sent |-> 0]
        BY SMT, <2>3 DEF Zeros
    <2>5. v.Times = 0 /\ v.Counters = 0 /\ v.Received = 0 /\ v.Late = 0 /\ v.Sent = 0
        <3>1. \A f \in Parts : Offset[f] >= 1 => v[f] = 0
            BY <1>1, <2>1, ValueParts DEF KernelValue
        <3>2. \A f \in Parts \ {"Early"} : Offset[f] >= 1
            BY SMT DEF Parts, Offset
        <3> QED
            BY <3>1, <3>2 DEF Parts
    <2>6. Convert(t, v).Len = 1
        BY SMT, <2>4
    <2>7. \A f \in Parts : Convert(t, v)[f] = v[f]
        BY SMT, <2>4, <2>5 DEF Parts
    <2> QED
        BY <2>2, <2>6, <2>7
<1>4. CASE t = INET_DIAG_CONG
    <2>1. Convert(t, v) = [v EXCEPT !.Len = v.Len - 1] /\ ConvertOK(t, v)
        BY <1>4, ConvertCases DEF CongestionAlgorithm
    <2>2. Convert(t, v).Len = v.Len - 1 /\ \A f \in Parts : Convert(t, v)[f] = v[f]
        BY <1>1, <2>1, ValueParts
    <2>3. ~(v.Len - 1 < v.Len - 1)
        BY SMT, <1>1
    <2> QED
        BY <2>1, <2>2, <2>3
<1>5. CASE t = INET_DIAG_MARK
    <2>1. v.Len = 4
        BY <1>5 DEF KernelValue
    <2>2. Convert(t, v) = v /\ ConvertOK(t, v)
        BY <1>5, <2>1, ConvertCases DEF toMark
    <2>3. ~(v.Len < v.Len - 1)
        BY SMT, <1>1
    <2> QED
        BY <2>2, <2>3
<1> QED
    BY <1>2, <1>3, <1>4, <1>5 DEF DecodedTypes

\* The largest of a set of numbers up to n is one of them.
LEMMA LargestOf ==
    ASSUME NEW n \in Nat, NEW S, S \subseteq 0 .. n, S # {}
    PROVE  /\ Max(S) \in S
           /\ \A x \in S : Max(S) >= x
<1> DEFINE T == {n - x : x \in S}
<1>1. T \subseteq Nat /\ T # {}
    <2>1. \A x \in S : n - x \in Nat
        BY SMT
    <2> QED
        BY <2>1
<1>2. \E t \in T : \A y \in T : ~ (<<y, t>> \in OpToRel(<, Nat))
    BY <1>1, NatLessThanWellFounded, WFMin
<1>3. PICK t \in T : \A y \in T : ~ (y < t)
    BY <1>1, <1>2 DEF OpToRel
<1>4. PICK x \in S : t = n - x
    OBVIOUS
<1>5. \A y \in S : x >= y
    <2> TAKE y \in S
    <2>1. ~ (n - y < n - x)
        BY <1>3, <1>4
    <2> QED
        BY SMT, <2>1
<1> QED
    BY <1>5 DEF Max

\* The table has a cell for every attribute, and values in no others.
LEMMA TableOf ==
    ASSUME NEW m, KernelMessage(m)
    PROVE  LET table == AttributeTable(m.Attrs)
           IN  /\ \A k \in DOMAIN table : k \in Nat \ {0} /\
                    (table[k] # <<>> =>
                       \E i \in DOMAIN m.Attrs : /\ m.Attrs[i].Type = k - 1
                                                 /\ table[k] = <<m.Attrs[i].Value>>)
               /\ \A i \in DOMAIN m.Attrs :
                    /\ m.Attrs[i].Type + 1 \in DOMAIN table
                    /\ table[m.Attrs[i].Type + 1] = <<m.Attrs[i].Value>>
<1> DEFINE attrs == m.Attrs
           table == AttributeTable(attrs)
           S == {t \in 0 .. 38 : t = 0 \/ \E i \in DOMAIN attrs : attrs[i].Type >= t}
<1>1. PICK n : n = maxAttrType(attrs)
    OBVIOUS
<1>2. /\ n \in 0 .. 38
      /\ \A i \in DOMAIN attrs : attrs[i].Type \in 1 .. n
    <2>1. 2 * INET_DIAG_MAX = 38
        BY SMT DEF INET_DIAG_MAX
    <2>2. n = Max(S)
        BY <1>1, <2>1 DEF maxAttrType
    <2>3. S \subseteq 0 .. 38 /\ 0 \in S /\ 38 \in Nat
        BY SMT
    <2>4. n \in S /\ \A x \in S : n >= x
        <3> HIDE DEF S
        <3> QED
            BY <2>2, <2>3, LargestOf
    <2>5. ASSUME NEW i \in DOMAIN attrs PROVE attrs[i].Type \in 1 .. n
        <3>1. PICK t \in 1 .. 32 : t = attrs[i].Type
            BY DEF KernelMessage
        <3>2. t \in 0 .. 38 /\ t >= t
            BY SMT
        <3>3. t \in S
            BY <3>1, <3>2
        <3>4. n >= t /\ n \in 0 .. 38
            BY <2>4, <3>3
        <3> QED
            BY SMT, <3>1, <3>4
    <2> QED
        BY <2>4, <2>5
<1>3. /\ DOMAIN table = 1 .. n + 1
      /\ \A k \in 1 .. n + 1 : table[k] =
            IF Occurrences(attrs, k - 1) = {} THEN <<>>
            ELSE <<attrs[Max(Occurrences(attrs, k - 1))].Value>>
    BY <1>1 DEF AttributeTable
<1>4. ASSUME NEW k \in 1 .. n + 1, NEW i \in DOMAIN attrs, attrs[i].Type = k - 1
      PROVE  table[k] = <<attrs[i].Value>>
    <2>1. Occurrences(attrs, k - 1) = {i}
        BY <1>4 DEF Occurrences, KernelMessage
    <2>2. Max({i}) = i
        <3>1. i \in Nat
            <4>1. DOMAIN attrs = 1 .. Len(attrs) /\ Len(attrs) \in Nat
                BY LenProperties DEF KernelMessage
            <4> QED
                BY SMT, <4>1
        <3>2. {i} \subseteq 0 .. i
            BY SMT, <3>1
        <3>3. Max({i}) \in {i}
            BY <3>1, <3>2, LargestOf
        <3> QED
            BY <3>3
    <2>3. table[k] = <<attrs[Max({i})].Value>>
        BY <1>3, <2>1
    <2> QED
        BY <2>2, <2>3
<1>5. ASSUME NEW k \in 1 .. n + 1, table[k] # <<>>
      PROVE  \E i \in DOMAIN attrs : attrs[i].Type = k - 1 /\ table[k] = <<attrs[i].Value>>
    <2>1. PICK i \in Occurrences(attrs, k - 1) : TRUE
        BY <1>3, <1>5
    <2>2. i \in DOMAIN attrs /\ attrs[i].Type = k - 1
        BY DEF Occurrences
    <2> QED
        BY <1>4, <2>2
<1>6. \A k \in 1 .. n + 1 : k \in Nat \ {0}
    BY SMT, <1>2
<1>7. ASSUME NEW i \in DOMAIN attrs
      PROVE  attrs[i].Type + 1 \in 1 .. n + 1 /\ table[attrs[i].Type + 1] = <<attrs[i].Value>>
    <2>1. PICK t \in 1 .. n : t = attrs[i].Type
        BY <1>2
    <2>2. t + 1 \in 1 .. n + 1 /\ t = (t + 1) - 1
        BY SMT, <1>2
    <2>3. table[t + 1] = <<attrs[i].Value>>
        BY <1>4, <2>1, <2>2
    <2> QED
        BY <2>1, <2>2, <2>3
<1> HIDE DEF table
<1>8. /\ \A k \in DOMAIN table : k \in Nat \ {0} /\
            (table[k] # <<>> => \E i \in DOMAIN attrs : /\ attrs[i].Type = k - 1
                                                        /\ table[k] = <<attrs[i].Value>>)
      /\ \A i \in DOMAIN attrs : /\ attrs[i].Type + 1 \in DOMAIN table
                                 /\ table[attrs[i].Type + 1] = <<attrs[i].Value>>
    BY <1>3, <1>5, <1>6, <1>7
<1> QED
    BY <1>8 DEF table

\* The line that is written of a message.
LEMMA LineIs ==
    ASSUME NEW l \in Line
    PROVE  /\ KernelMessage(l) /\ Lines[l] = LineOf(l)
           /\ LineOf(l).Timestamp # zeroTime
           /\ LineOf(l).Attributes = AttributeTable(l.Attrs)
           /\ LineOf(l).RawIDM[1].Cookie = l.IDM.Cookie
<1>1. KernelMessage(l) /\ l # Header
    BY CsvToolAssumption
<1>2. PICK r : r = Anonymize(MakeArchivalRecord(l, 1), Anonymizer)
    OBVIOUS
<1>3. LineOf(l) = [Timestamp |-> r.Timestamp, Metadata |-> <<>>, RawIDM |-> <<r.RawIDM>>,
                   ShortIDM |-> FALSE, Attributes |-> r.Attributes, Long |-> IsLong(l)]
    BY <1>1, <1>2 DEF LineOf
<1>4. PICK a, idm : a = AttributeTable(l.Attrs) /\ idm = l.IDM /\ idm \in InetDiagMsg
    BY <1>1 DEF KernelMessage
<1>5. PICK pm : pm = MakeArchivalRecord(l, 1)
    OBVIOUS
<1>6. r.Timestamp = 1 /\ r.Attributes = a /\ r.RawIDM.Cookie = idm.Cookie
    <2>1. pm \in [Timestamp : {1}, RawIDM : InetDiagMsg, Attributes : {a}] /\ pm.RawIDM = idm
        BY <1>4, <1>5 DEF MakeArchivalRecord
    <2>2. PICK src, dst : r = [pm EXCEPT !.RawIDM.Src = src, !.RawIDM.Dst = dst]
        BY <1>2, <1>5 DEF Anonymize
    <2> QED
        BY <2>1, <2>2 DEF InetDiagMsg
<1>7. Lines[l] = LineOf(l)
    BY DEF Lines
<1>8. LineOf(l).Timestamp = 1 /\ LineOf(l).Attributes = a /\ LineOf(l).RawIDM[1] = r.RawIDM
    BY SMT, <1>3, <1>6
<1> QED
    BY <1>1, <1>4, <1>6, <1>7, <1>8, SMT DEF zeroTime

\* Which types it has attributes of, and their values.
LEMMA TypesIn ==
    ASSUME NEW l \in Line
    PROVE  LET ar == LineOf(l)
           IN  /\ TypesOf(ar) = {l.Attrs[i].Type : i \in DOMAIN l.Attrs}
               /\ \A i \in DOMAIN l.Attrs : ValueOf(ar, l.Attrs[i].Type) = l.Attrs[i].Value
<1>1. PICK table : table = AttributeTable(l.Attrs)
    OBVIOUS
<1>2. PICK ar : ar = LineOf(l)
    OBVIOUS
<1>3. KernelMessage(l) /\ ar.Attributes = table
    BY <1>1, <1>2, LineIs
<1>4. /\ \A k \in DOMAIN table : k \in Nat \ {0} /\
            (table[k] # <<>> => \E i \in DOMAIN l.Attrs : l.Attrs[i].Type = k - 1)
      /\ \A i \in DOMAIN l.Attrs : /\ l.Attrs[i].Type + 1 \in DOMAIN table
                                   /\ table[l.Attrs[i].Type + 1] = <<l.Attrs[i].Value>>
    BY <1>1, <1>3, TableOf
<1>5. TypesOf(ar) = {k - 1 : k \in {i \in DOMAIN table : table[i] # <<>>}}
    BY <1>3 DEF TypesOf
<1>6. ASSUME NEW t \in TypesOf(ar) PROVE t \in {l.Attrs[i].Type : i \in DOMAIN l.Attrs}
    BY <1>4, <1>5
<1>7. ASSUME NEW i \in DOMAIN l.Attrs
      PROVE  /\ l.Attrs[i].Type \in TypesOf(ar)
             /\ ValueOf(ar, l.Attrs[i].Type) = l.Attrs[i].Value
    <2>1. PICK t \in 1 .. 32 : t = l.Attrs[i].Type
        BY <1>3 DEF KernelMessage
    <2>2. t + 1 \in DOMAIN table /\ table[t + 1] = <<l.Attrs[i].Value>>
        BY <1>4, <2>1
    <2>3. t = (t + 1) - 1 /\ \A x : <<x>> # <<>>
        BY SMT
    <2>4. table[t + 1][1] = l.Attrs[i].Value
        BY SMT, <2>2
    <2> QED
        BY <1>3, <1>5, <2>1, <2>2, <2>3, <2>4 DEF ValueOf
<1> QED
    BY <1>2, <1>6, <1>7

\* The row of a line shows what the kernel said.
LEMMA RowShows ==
    ASSUME NEW l \in Line, l \in DOMAIN Snapshots
    PROVE  Shows(Snapshots[l], l)
<1>1. PICK ar : ar = LineOf(l) /\ ar.Timestamp # zeroTime /\ ar.RawIDM[1].Cookie = l.IDM.Cookie
    BY LineIs
<1>2. PICK types : types = {l.Attrs[i].Type : i \in DOMAIN l.Attrs} /\ types = TypesOf(ar)
    BY <1>1, TypesIn
<1>3. PICK row : row = Snapshots[l]
    OBVIOUS
<1>4. row = [Timestamp |-> ar.Timestamp, InetDiagMsg |-> ar.RawIDM,
             Fields |-> [t \in types \cap DecodedTypes |-> Convert(t, ValueOf(ar, t))],
             Observed |-> Bits(types),
             NotFullyParsed |-> Bits({t \in types : ~ConvertOK(t, ValueOf(ar, t))})]
    <2>1. row = NextSnapshot(ar)
        BY <1>1, <1>3, LineIs DEF Snapshots
    <2>2. row = Decode(ar)
        BY <1>1, <2>1 DEF NextSnapshot
    <2> QED
        BY <1>2, <2>2 DEF Decode
<1>5. \A i \in DOMAIN l.Attrs : /\ l.Attrs[i].Type \in types /\ l.Attrs[i].Type \in 1 .. 32
                                /\ KernelValue(l.Attrs[i].Type, l.Attrs[i].Value)
                                /\ ValueOf(ar, l.Attrs[i].Type) = l.Attrs[i].Value
    BY <1>1, <1>2, LineIs, TypesIn DEF KernelMessage
<1>6. types \subseteq 1 .. 32
    BY <1>2, <1>5
<1>7. /\ row.InetDiagMsg = ar.RawIDM /\ row.Observed = types
      /\ row.Fields = [t \in types \cap DecodedTypes |-> Convert(t, ValueOf(ar, t))]
      /\ row.NotFullyParsed = {t \in types : ~ConvertOK(t, ValueOf(ar, t))}
    BY <1>4, <1>6 DEF Bits
<1>8. ASSUME NEW i \in DOMAIN l.Attrs, l.Attrs[i].Type # INET_DIAG_CLASS_ID
      PROVE  LET a == l.Attrs[i]
             IN  /\ a.Type \in row.NotFullyParsed <=> IsCut(row, a)
                 /\ a.Type \in DOMAIN row.Fields =>
                       \A f \in Parts : Offset[f] < row.Fields[a.Type].Len =>
                           row.Fields[a.Type][f] = a.Value[f]
    <2>1. PICK t, v : t = l.Attrs[i].Type /\ v = l.Attrs[i].Value
        OBVIOUS
    <2>2. t \in types /\ KernelValue(t, v) /\ ValueOf(ar, t) = v /\ t # INET_DIAG_CLASS_ID
        BY <1>5, <1>8, <2>1
    <2>3. t \in row.NotFullyParsed <=> ~ConvertOK(t, v)
        BY <1>7, <2>2
    <2>4. t \in DOMAIN row.Fields <=> t \in DecodedTypes
        BY <1>7, <2>2
    <2>5. t \in DecodedTypes => row.Fields[t] = Convert(t, v)
        BY <1>7, <2>2
    <2>6. t \notin DecodedTypes => ~ConvertOK(t, v)
        BY ConvertCases
    <2>7. t \in DecodedTypes => /\ ~ConvertOK(t, v) <=> Convert(t, v).Len < v.Len - 1
                                /\ \A f \in Parts : Offset[f] < Convert(t, v).Len =>
                                       Convert(t, v)[f] = v[f]
        BY <2>2, ConvertShows
    <2>8. /\ t \in row.NotFullyParsed
                <=> t \notin DOMAIN row.Fields \/ row.Fields[t].Len < v.Len - 1
          /\ t \in DOMAIN row.Fields =>
                \A f \in Parts : Offset[f] < row.Fields[t].Len => row.Fields[t][f] = v[f]
        BY <2>3, <2>4, <2>5, <2>6, <2>7
    <2> QED
        BY <2>1, <2>8 DEF IsCut
<1>9. {a.Type : a \in AttrsOf(l)} = types
    BY <1>2 DEF AttrsOf
<1>10. Shows(row, l)
    <2>1. row.InetDiagMsg[1].Cookie = l.IDM.Cookie
        BY <1>1, <1>7
    <2>2. \A a \in AttrsOf(l) : a.Type # INET_DIAG_CLASS_ID =>
             /\ a.Type \in row.NotFullyParsed <=> IsCut(row, a)
             /\ a.Type \in DOMAIN row.Fields =>
                   \A f \in Parts : Offset[f] < row.Fields[a.Type].Len =>
                       row.Fields[a.Type][f] = a.Value[f]
        BY <1>8 DEF AttrsOf
    <2>3. DOMAIN Offset = Parts
        BY SMT DEF Offset, Parts
    <2> QED
        BY <1>7, <1>9, <2>1, <2>2, <2>3 DEF Shows
<1> QED
    BY <1>3, <1>10

-----------------------------------------------------------------------------
\* Only the first line is the header.
HeaderFirst == \A i \in 1 .. Len(given) : i > 1 => given[i] \in Line

LEMMA HeaderFirstStep ==
    WriterInv /\ HeaderFirst /\ [WriterNext]_writeVars => HeaderFirst'
<1> SUFFICES ASSUME WriterInv, HeaderFirst, [WriterNext]_writeVars PROVE HeaderFirst'
    OBVIOUS
<1>1. CASE given' = given
    BY <1>1 DEF HeaderFirst
<1>2. CASE \E l \in IF given = <<>> THEN {Header} ELSE Line : given' = Append(given, l)
    <2>1. PICK l : /\ given' = Append(given, l) /\ l \in Line \cup {Header}
                   /\ given # <<>> => l \in Line
        BY <1>2
    <2>2. given \in Seq(Line \cup {Header}) /\ Len(given) \in Nat
        BY LenProperties DEF WriterInv, WriterTypeInv
    <2>3. PICK n : n = Len(given) /\ n \in Nat /\ (given = <<>> <=> n = 0)
        BY SMT, <2>2
    <2>4. /\ Len(given') = n + 1 /\ given'[n + 1] = l
          /\ \A i \in 1 .. n : given'[i] = given[i]
        BY SMT, <2>1, <2>2, <2>3
    <2>5. ASSUME NEW i \in 1 .. n + 1, i > 1 PROVE given'[i] \in Line
        <3>1. i \in 1 .. n \/ (i = n + 1 /\ n # 0)
            BY SMT, <2>3, <2>5
        <3> QED
            BY <2>1, <2>3, <2>4, <2>5, <3>1 DEF HeaderFirst
    <2> QED
        BY <2>4, <2>5 DEF HeaderFirst
<1> QED
    BY <1>1, <1>2, GivenGrows

\* Rows show what the kernel reported.  Whatever attributes the messages have,
\* however the file was cut and whenever it is read, the i-th row that csvtool
\* makes has the socket and the values of the i-th line the saver wrote, as far
\* as the fields go, and says which were longer.  The class id is left out: the
\* kernel sends four bytes, of which Decode keeps one and does not say so.
THEOREM RowsAreTheKernels == Archive => []RowsMatchKernel
<1>1. ArchiveInit => HeaderFirst
    BY SMT DEF ArchiveInit, WriterInit, HeaderFirst
<1>2. WriterInv /\ ToolInv /\ HeaderFirst => RowsMatchKernel
    <2> SUFFICES ASSUME WriterInv, ToolInv, HeaderFirst, NEW i \in DOMAIN rows, i > 1
                 PROVE  Shows(rows[i], given[i])
        BY DEF RowsMatchKernel
    <2>1. PICK r \in Nat : r = Len(rows) /\ DOMAIN rows = 1 .. r
        BY LenProperties DEF ToolInv, ToolTypeInv
    <2>2. i \in 1 .. Len(given)
        <3>1. r <= Len(given) /\ Len(given) \in Nat
            BY <2>1, LenProperties DEF ToolInv, RowsInv, WriterInv, WriterTypeInv
        <3> QED
            BY SMT, <2>1, <3>1
    <2>3. given[i] \in Line /\ given[i] \in DOMAIN Snapshots /\ rows[i] = Snapshots[given[i]]
        BY <2>1, <2>2 DEF ToolInv, RowsInv, HeaderFirst
    <2> QED
        BY <2>3, RowShows
<1> QED
    BY <1>1, <1>2, HeaderFirstStep, ArchiveInvariant, ArchiveWriterStep, PTL DEF Archive

-----------------------------------------------------------------------------
(* The netlink exchange. *)
USE NetlinkDumpAssumption

\* The message that may stand at the end of a datagram.
Ending(m) ==
    \/ faulted = "no" /\ m = Done /\ dumped = Len(Sockets)
    \/ faulted = "kernel" /\ <<m>> \in EarlyEndings(dumped)
    \/ faulted = "foreign" /\ <<m>> \in ForeignEndings(dumped)

\* The sockets that have been sent and not yet been read.
Unread == dumped - Len(res)

\* While OneType runs: it has kept the first sockets of the dump, and the rest
\* of the datagram is what follows them, then possibly an ending.
OneTypeReads ==
    /\ err = FALSE
    /\ dumped \in 0 .. Len(Sockets)
    /\ res = SubSeq(Sockets, 1, Len(res)) /\ Len(res) \in 0 .. dumped
    /\ (\E S : msgs \in Seq(S)) /\ Len(msgs) \in {Unread, Unread + 1}
    /\ \A i \in 1 .. Unread : msgs[i] = SocketReply(Len(res) + i)
    /\ IF Len(msgs) = Unread THEN faulted = "no" ELSE Ending(msgs[Unread + 1])
    /\ at # "process" => msgs = <<>>

DumpInv ==
    /\ at \in {"subscribe", "send", "getpid", "receive", "process", "returned"}
    /\ IF at = "returned"
       THEN AnswerAsAssumed /\ ForeignDiscards /\ SocketClosed
       ELSE OneTypeReads

-----------------------------------------------------------------------------
(* Parts of the dump. *)

LEMMA FirstSockets ==
    ASSUME NEW n \in 0 .. Len(Sockets)
    PROVE  /\ SubSeq(Sockets, 1, n) \in Seq(NetlinkMessage)
           /\ Len(SubSeq(Sockets, 1, n)) = n
           /\ SubSeq(Sockets, 1, n) \in Outcomes(Sockets, TRUE)
           /\ Append(SubSeq(Sockets, 1, n), ErrorMessage) \in Outcomes(Sockets, TRUE)
<1>1. SubSeq(Sockets, 1, n) \in Seq(NetlinkMessage) /\ Len(SubSeq(Sockets, 1, n)) = n
    BY SMT DEF NetlinkDumpAssumption
<1> QED
    BY <1>1 DEF Outcomes

LEMMA NextSocket ==
    ASSUME NEW n \in 0 .. Len(Sockets), n < Len(Sockets)
    PROVE  Append(SubSeq(Sockets, 1, n), Sockets[n + 1]) = SubSeq(Sockets, 1, n + 1)
    BY SMT DEF NetlinkDumpAssumption

LEMMA AllSockets == SubSeq(Sockets, 1, Len(Sockets)) = Sockets
    BY SMT DEF NetlinkDumpAssumption

LEMMA NothingIsAnOutcome == <<>> \in Outcomes(Sockets, TRUE)
<1>1. 0 \in 0 .. Len(Sockets)
    BY SMT DEF NetlinkDumpAssumption
<1>2. SubSeq(Sockets, 1, 0) = <<>>
    BY SMT DEF NetlinkDumpAssumption
<1> QED
    BY <1>1, <1>2, FirstSockets

\* more is a datagram of the k sockets after d, without and with an ending.
Datagram(more, d, k, m) ==
    /\ \E S : more \o <<>> \in Seq(S) /\ more \o <<m>> \in Seq(S)
    /\ Len(more \o <<>>) = k /\ Len(more \o <<m>>) = k + 1
    /\ \A i \in 1 .. k : /\ (more \o <<>>)[i] = SocketReply(d + i)
                         /\ (more \o <<m>>)[i] = SocketReply(d + i)
    /\ (more \o <<m>>)[k + 1] = m

LEMMA DatagramIs ==
    ASSUME NEW k \in Nat, NEW d, NEW m, NEW more,
           more = [i \in 1 .. k |-> SocketReply(d + i)]
    PROVE  Datagram(more, d, k, m)
<1>1. PICK S : S = {SocketReply(d + i) : i \in 1 .. k} \cup {m}
    OBVIOUS
<1>2. more \in Seq(S) /\ Len(more) = k /\ <<m>> \in Seq(S) /\ <<>> \in Seq(S)
    BY SMT, <1>1
<1>3. \A s, t \in Seq(S) :
         /\ s \o t \in Seq(S) /\ Len(s \o t) = Len(s) + Len(t)
         /\ \A i \in 1 .. Len(s) : (s \o t)[i] = s[i]
    BY SMT
<1>4. \A s \in Seq(S) : (s \o <<m>>)[Len(s) + 1] = m
    BY SMT, <1>1
<1>5. \A i \in 1 .. k : more[i] = SocketReply(d + i)
    OBVIOUS
<1>6. Len(<<m>>) = 1 /\ Len(<<>>) = 0
    OBVIOUS
<1> HIDE DEF SocketReply
<1>7. more \o <<>> \in Seq(S) /\ more \o <<m>> \in Seq(S)
    BY <1>2, <1>3
<1>8. Len(more \o <<>>) = k /\ Len(more \o <<m>>) = k + 1
    BY SMT, <1>2, <1>3, <1>6
<1>9. \A i \in 1 .. k : (more \o <<>>)[i] = more[i] /\ (more \o <<m>>)[i] = more[i]
    BY SMT, <1>2, <1>3
<1> QED
    BY <1>2, <1>4, <1>5, <1>7, <1>8, <1>9 DEF Datagram

-----------------------------------------------------------------------------
(* What processSingleMessage makes of each kind of message. *)

LEMMA ProcessSocket ==
    ASSUME NEW i
    PROVE  LET p == processSingleMessage(SocketReply(i)) IN
           p.keep /\ p.more /\ p.err = FALSE /\ SocketReply(i).Body = Sockets[i]
<1>1. /\ SocketReply(i).Seq /\ SocketReply(i).Pid /\ SocketReply(i).Multi
      /\ SocketReply(i).Body = Sockets[i]
    BY DEF SocketReply, Reply
<1>2. SocketReply(i).Type # NLMSG_DONE /\ SocketReply(i).Type # NLMSG_ERROR
    BY SMT DEF SocketReply, Reply, SOCK_DIAG_BY_FAMILY, NLMSG_DONE, NLMSG_ERROR
<1> QED
    BY <1>1, <1>2 DEF processSingleMessage

LEMMA ProcessDone ==
    LET p == processSingleMessage(Done) IN ~p.keep /\ ~p.more /\ p.err = FALSE
<1>1. Done.Seq /\ Done.Pid /\ Done.Type = NLMSG_DONE
    BY DEF Done, Reply
<1>2. NLMSG_DONE # NLMSG_ERROR
    BY SMT DEF NLMSG_DONE, NLMSG_ERROR
<1> QED
    BY <1>1, <1>2 DEF processSingleMessage

LEMMA ProcessEarly ==
    ASSUME NEW n \in 0 .. Len(Sockets), NEW m, <<m>> \in EarlyEndings(n)
    PROVE  LET p == processSingleMessage(m) IN
           /\ ~p.more
           /\ p.keep => \/ m.Body = ErrorMessage
                        \/ n < Len(Sockets) /\ m.Body = Sockets[n + 1]
<1> DEFINE error == [Reply(NLMSG_ERROR, ErrorMessage) EXCEPT !.Multi = FALSE]
<1>1. \/ m \in {Done, error, [error EXCEPT !.Errno = 0], [error EXCEPT !.Errno = 1]}
      \/ n < Len(Sockets) /\ m = [SocketReply(n + 1) EXCEPT !.Multi = FALSE]
    BY DEF EarlyEndings, Following
<1>2. CASE m = Done
    BY <1>2, ProcessDone
<1>3. CASE m \in {error, [error EXCEPT !.Errno = 0], [error EXCEPT !.Errno = 1]}
    BY <1>3 DEF processSingleMessage, Reply, NLMSG_ERROR, NLMSG_DONE
<1>4. CASE n < Len(Sockets) /\ m = [SocketReply(n + 1) EXCEPT !.Multi = FALSE]
    BY <1>4 DEF processSingleMessage, SocketReply, Reply
<1> QED
    BY <1>1, <1>2, <1>3, <1>4

LEMMA ProcessForeign ==
    ASSUME NEW n \in 0 .. Len(Sockets), NEW m, <<m>> \in ForeignEndings(n)
    PROVE  LET p == processSingleMessage(m) IN p.err /\ ~p.more
<1>1. \E d \in {Done} \cup Following(n) :
          m = [d EXCEPT !.Seq = FALSE] \/ m = [d EXCEPT !.Pid = FALSE]
    BY DEF ForeignEndings
<1>2. ~m.Seq \/ ~m.Pid
    BY <1>1 DEF Done, Following, SocketReply, Reply
<1> QED
    BY <1>2 DEF processSingleMessage

-----------------------------------------------------------------------------
(* The steps. *)

LEMMA DumpStart == DumpInit => DumpInv
<1> SUFFICES ASSUME DumpInit PROVE DumpInv
    OBVIOUS
<1>1. Len(Sockets) \in Nat /\ SubSeq(Sockets, 1, 0) = <<>>
    BY SMT DEF NetlinkDumpAssumption
<1>2. Unread = 0
    <2>1. dumped = 0 /\ Len(res) = 0
        BY DEF DumpInit
    <2> QED
        BY SMT, <2>1 DEF Unread
<1>3. OneTypeReads
    BY SMT, <1>1, <1>2 DEF DumpInit, OneTypeReads
<1> QED
    BY <1>3 DEF DumpInit, DumpInv

\* Steps that read nothing.
LEMMA NoReadStep ==
    ASSUME DumpInv, Subscribe \/ SendAndGetPid \/ ReceiveMore
    PROVE  DumpInv'
<1>1. at # "returned" /\ UNCHANGED <<dumped, msgs, res, err, faulted>>
      /\ at' \in {"send", "getpid", "receive"} /\ msgs = <<>>
    BY DEF Subscribe, SendAndGetPid, ReceiveMore, DumpInv, OneTypeReads
<1>2. OneTypeReads'
    BY <1>1 DEF DumpInv, OneTypeReads, Unread, Ending
<1> QED
    BY <1>1, <1>2 DEF DumpInv

LEMMA SyscallFailsStep == ASSUME DumpInv, SyscallFails PROVE DumpInv'
<1>1. at' = "returned" /\ err' = TRUE /\ faulted' = "syscall" /\ fd' # "open"
    BY DEF SyscallFails
<1>2. InBlock' = <<>>
    BY <1>1 DEF InBlock
<1> QED
    BY <1>1, <1>2, NothingIsAnOutcome
       DEF DumpInv, AnswerAsAssumed, ForeignDiscards, SocketClosed

LEMMA ReceiveStep == ASSUME DumpInv, ReceiveDatagram PROVE DumpInv'
<1>1. /\ at = "receive" /\ at' = "process" /\ OneTypeReads /\ msgs = <<>>
      /\ res' = res /\ err' = err
    BY DEF ReceiveDatagram, DumpInv, OneTypeReads
<1>2. faulted = "no" /\ dumped = Len(res) /\ dumped \in Nat /\ Len(Sockets) \in Nat
    <2>1. /\ Len(msgs) = 0 /\ Len(msgs) \in {Unread, Unread + 1}
          /\ dumped \in 0 .. Len(Sockets) /\ Len(res) \in 0 .. dumped
          /\ Len(Sockets) \in Nat
        BY SMT, <1>1 DEF OneTypeReads, NetlinkDumpAssumption
    <2>2. Unread \in Nat
        BY SMT, <2>1 DEF Unread
    <2>3. Unread = 0
        BY SMT, <2>1, <2>2
    <2>4. dumped = Len(res)
        BY SMT, <2>1, <2>3 DEF Unread
    <2> QED
        BY SMT, <1>1, <2>1, <2>3, <2>4 DEF OneTypeReads
<1>3. PICK n \in dumped .. Len(Sockets) :
        LET more == [i \in 1 .. n - dumped |-> SocketReply(dumped + i)] IN
        /\ \/ (\E e \in Endings(n) : msgs' = more \o e) /\ UNCHANGED faulted
           \/ (\E e \in EarlyEndings(n) : msgs' = more \o e) /\ faulted' = "kernel"
           \/ (\E e \in ForeignEndings(n) : msgs' = more \o e) /\ faulted' = "foreign"
        /\ dumped' = n
    BY DEF ReceiveDatagram
<1>4. PICK k \in Nat : k = n - dumped
    <2>1. n - dumped \in Nat
        BY SMT, <1>2
    <2> QED
        BY <2>1
<1>5. Unread' = k
    BY <1>1, <1>2, <1>3, <1>4 DEF Unread
<1>6. PICK more : more = [i \in 1 .. k |-> SocketReply(dumped + i)]
    OBVIOUS
<1>7. \E e : /\ msgs' = more \o e
             /\ \/ e = <<>> /\ faulted' = "no"
                \/ \E m : e = <<m>> /\ Ending(m)'
    <2>1. CASE (\E e \in Endings(n) : msgs' = more \o e) /\ UNCHANGED faulted
        BY <1>2, <1>3, <2>1 DEF Endings, Ending
    <2>2. CASE (\E e \in EarlyEndings(n) : msgs' = more \o e) /\ faulted' = "kernel"
        BY <1>3, <2>2 DEF EarlyEndings, Ending
    <2>3. CASE (\E e \in ForeignEndings(n) : msgs' = more \o e) /\ faulted' = "foreign"
        BY <1>3, <2>3 DEF ForeignEndings, Ending
    <2> QED
        BY <1>3, <1>4, <1>6, <2>1, <2>2, <2>3
<1>8. /\ dumped' \in 0 .. Len(Sockets)
      /\ res' = SubSeq(Sockets, 1, Len(res')) /\ Len(res') \in 0 .. dumped'
    BY SMT, <1>1, <1>2, <1>3 DEF OneTypeReads
<1>9. \A m : Datagram(more, dumped, k, m)
    BY <1>6, DatagramIs
<1>10. CASE msgs' = more \o <<>> /\ faulted' = "no"
    <2>1. \E S : msgs' \in Seq(S)
        BY <1>9, <1>10 DEF Datagram
    <2>2. Len(msgs') = k /\ \A i \in 1 .. k : msgs'[i] = SocketReply(dumped + i)
        BY <1>9, <1>10 DEF Datagram
    <2> QED
        BY <1>1, <1>2, <1>5, <1>8, <1>10, <2>1, <2>2 DEF DumpInv, OneTypeReads
<1>11. ASSUME NEW m, msgs' = more \o <<m>>, Ending(m)'
       PROVE  DumpInv'
    <2>1. \E S : msgs' \in Seq(S)
        BY <1>9, <1>11 DEF Datagram
    <2>2. /\ Len(msgs') = k + 1 /\ \A i \in 1 .. k : msgs'[i] = SocketReply(dumped + i)
          /\ msgs'[k + 1] = m
        BY <1>9, <1>11 DEF Datagram
    <2> QED
        BY SMT, <1>1, <1>2, <1>5, <1>8, <1>11, <2>1, <2>2 DEF DumpInv, OneTypeReads
<1> QED
    BY <1>7, <1>10, <1>11

\* The next message is that of a socket.
LEMMA ProcessSocketStep == ASSUME DumpInv, Process, Unread > 0 PROVE DumpInv'
<1>1. at = "process" /\ OneTypeReads /\ msgs # <<>> /\ msgs' = Tail(msgs)
      /\ UNCHANGED <<dumped, faulted>>
    BY DEF Process, DumpInv
<1>2. PICK n, d \in Nat : n = Len(res) /\ d = Len(Sockets) /\ n <= dumped /\ dumped <= d
                          /\ dumped \in Nat
    <2>1. Len(res) \in 0 .. dumped /\ dumped \in 0 .. Len(Sockets) /\ Len(Sockets) \in Nat
        BY SMT, <1>1 DEF OneTypeReads, NetlinkDumpAssumption
    <2>2. /\ Len(res) \in Nat /\ dumped \in Nat /\ Len(Sockets) \in Nat
          /\ Len(res) <= dumped /\ dumped <= Len(Sockets)
        BY SMT, <2>1
    <2> QED
        BY <2>2
<1>3. n < dumped /\ Unread = dumped - n
    BY SMT, <1>2 DEF Unread
<1>4. Head(msgs) = SocketReply(n + 1)
    <2>1. Head(msgs) = msgs[1] /\ 1 \in 1 .. Unread
        BY SMT, <1>1, <1>2, <1>3 DEF OneTypeReads
    <2> QED
        BY <1>1, <1>2, <2>1 DEF OneTypeReads
<1>5. res' = Append(res, Sockets[n + 1]) /\ err' = FALSE /\ at' = "process"
    BY <1>4, ProcessSocket DEF Process
<1>6. res' = SubSeq(Sockets, 1, n + 1) /\ Len(res') = n + 1
    BY SMT, <1>1, <1>2, <1>3, <1>5, NextSocket, FirstSockets DEF OneTypeReads
<1>7. Unread' = Unread - 1
    BY SMT, <1>1, <1>2, <1>3, <1>6 DEF Unread
<1>8. PICK S : msgs \in Seq(S)
    BY <1>1 DEF OneTypeReads
<1>9. /\ msgs' \in Seq(S) /\ Len(msgs') = Len(msgs) - 1 /\ Len(msgs) \in Nat \ {0}
      /\ \A i \in 1 .. Len(msgs) - 1 : msgs'[i] = msgs[i + 1]
    BY SMT, <1>1, <1>8
<1>10. Len(msgs') \in {Unread', Unread' + 1}
       /\ (Len(msgs') = Unread' <=> Len(msgs) = Unread)
    BY SMT, <1>1, <1>2, <1>3, <1>7, <1>9 DEF OneTypeReads
<1>11. \A i \in 1 .. Unread' : msgs'[i] = SocketReply(n + 1 + i)
    <2> SUFFICES ASSUME NEW i \in 1 .. Unread' PROVE msgs'[i] = SocketReply(n + 1 + i)
        OBVIOUS
    <2>1. i + 1 \in 1 .. Unread /\ i \in 1 .. Len(msgs) - 1 /\ n + (i + 1) = n + 1 + i
        BY SMT, <1>1, <1>2, <1>3, <1>7, <1>9 DEF OneTypeReads
    <2>2. msgs[i + 1] = SocketReply(n + (i + 1))
        BY <1>1, <1>2, <2>1 DEF OneTypeReads
    <2> QED
        BY <1>9, <2>1, <2>2
<1>12. Len(msgs') # Unread' => Ending(msgs[Unread + 1])'
    <2> SUFFICES ASSUME Len(msgs') # Unread' PROVE Ending(msgs[Unread + 1])'
        OBVIOUS
    <2>1. Ending(msgs[Unread + 1])
        BY <1>1, <1>10 DEF OneTypeReads
    <2>2. Unread' + 1 = Unread /\ Unread \in 1 .. Len(msgs) - 1
        BY SMT, <1>1, <1>2, <1>3, <1>7, <1>9, <1>10 DEF OneTypeReads
    <2>3. msgs'[Unread' + 1] = msgs[Unread + 1]
        BY <1>9, <2>2
    <2> QED
        BY <1>1, <2>1, <2>3 DEF Ending
<1>13. OneTypeReads'
    <2>1. dumped' \in 0 .. Len(Sockets) /\ Len(res') \in 0 .. dumped'
        BY SMT, <1>1, <1>2, <1>3, <1>6
    <2>2. Len(msgs') = Unread' => faulted' = "no"
        BY <1>1, <1>10 DEF OneTypeReads
    <2>3. res' = SubSeq(Sockets, 1, Len(res'))
        BY <1>6
    <2>4. \A i \in 1 .. Unread' : msgs'[i] = SocketReply(Len(res') + i)
        BY <1>6, <1>11
    <2> QED
        BY <1>5, <1>9, <1>10, <1>12, <2>1, <2>2, <2>3, <2>4 DEF OneTypeReads
<1> QED
    BY <1>5, <1>13 DEF DumpInv

\* The next message is an ending.
LEMMA ProcessEndingStep ==
    ASSUME DumpInv, Process, ~(Unread > 0)
    PROVE  DumpInv'
<1>1. at = "process" /\ OneTypeReads /\ msgs # <<>> /\ UNCHANGED <<dumped, faulted>>
    BY DEF Process, DumpInv
<1>2. /\ dumped \in 0 .. Len(Sockets) /\ Len(res) \in 0 .. dumped /\ Len(Sockets) \in Nat
      /\ res = SubSeq(Sockets, 1, Len(res))
    BY SMT, <1>1 DEF OneTypeReads, NetlinkDumpAssumption
<1>3. Unread = 0 /\ dumped = Len(res)
    <2>1. Len(res) \in Nat /\ dumped \in Nat /\ Len(res) <= dumped
        BY SMT, <1>2
    <2> QED
        BY SMT, <2>1 DEF Unread
<1>4. res = SubSeq(Sockets, 1, dumped)
    BY <1>2, <1>3
<1>5. Len(msgs) # 0 /\ Head(msgs) = msgs[1]
    BY SMT, <1>1 DEF OneTypeReads
<1>6. PICK m : m = Head(msgs)
    OBVIOUS
<1>7. Ending(m)
    BY SMT, <1>1, <1>3, <1>5, <1>6 DEF OneTypeReads
<1>8. PICK p : p = processSingleMessage(m)
    OBVIOUS
<1>9. /\ res' = IF p.keep THEN Append(res, m.Body) ELSE res
      /\ err' = p.err
      /\ ~p.more => at' = "returned" /\ fd' = "closed"
    BY <1>6, <1>8 DEF Process
<1>10. CASE faulted = "no" /\ m = Done /\ dumped = Len(Sockets)
    <2>1. ~p.more /\ ~p.keep /\ p.err = FALSE
        BY <1>8, <1>10, ProcessDone
    <2>2. InBlock' = Sockets
        BY <1>4, <1>9, <1>10, <2>1, AllSockets DEF InBlock
    <2> QED
        BY <1>1, <1>9, <1>10, <2>1, <2>2
           DEF DumpInv, AnswerAsAssumed, ForeignDiscards, SocketClosed, Outcomes
<1>11. CASE faulted = "kernel" /\ <<m>> \in EarlyEndings(dumped)
    <2>1. /\ ~p.more
          /\ p.keep => \/ m.Body = ErrorMessage
                       \/ dumped < Len(Sockets) /\ m.Body = Sockets[dumped + 1]
        BY <1>2, <1>8, <1>11, ProcessEarly
    <2>2. res' \in Outcomes(Sockets, TRUE)
        <3>1. CASE ~p.keep
            BY <1>2, <1>4, <1>9, <3>1, FirstSockets
        <3>2. CASE p.keep /\ m.Body = ErrorMessage
            BY <1>2, <1>4, <1>9, <3>2, FirstSockets
        <3>3. CASE p.keep /\ dumped < Len(Sockets) /\ m.Body = Sockets[dumped + 1]
            <4>1. res' = SubSeq(Sockets, 1, dumped + 1)
                BY <1>2, <1>4, <1>9, <3>3, NextSocket
            <4>2. dumped + 1 \in 0 .. Len(Sockets)
                BY SMT, <1>2, <3>3
            <4> QED
                BY <4>1, <4>2, FirstSockets
        <3> QED
            BY <2>1, <3>1, <3>2, <3>3
    <2>3. InBlock' \in Outcomes(Sockets, TRUE)
        BY <2>2, NothingIsAnOutcome DEF InBlock
    <2> QED
        BY <1>1, <1>9, <1>11, <2>1, <2>3
           DEF DumpInv, AnswerAsAssumed, ForeignDiscards, SocketClosed
<1>12. CASE faulted = "foreign" /\ <<m>> \in ForeignEndings(dumped)
    <2>1. p.err /\ ~p.more
        BY <1>2, <1>8, <1>12, ProcessForeign
    <2>2. InBlock' = <<>>
        BY <1>9, <2>1 DEF InBlock
    <2> QED
        BY <1>1, <1>9, <1>12, <2>1, <2>2, NothingIsAnOutcome
           DEF DumpInv, AnswerAsAssumed, ForeignDiscards, SocketClosed
<1> QED
    BY <1>7, <1>10, <1>11, <1>12 DEF Ending

LEMMA DumpStep == DumpInv /\ [DumpNext]_dumpVars => DumpInv'
<1> SUFFICES ASSUME DumpInv, [DumpNext]_dumpVars PROVE DumpInv'
    OBVIOUS
<1>1. CASE UNCHANGED dumpVars
    BY <1>1 DEF dumpVars, DumpInv, OneTypeReads, Unread, Ending, AnswerAsAssumed,
                ForeignDiscards, SocketClosed, InBlock
<1>2. CASE Subscribe \/ SendAndGetPid \/ ReceiveMore
    BY <1>2, NoReadStep
<1>3. CASE SyscallFails
    BY <1>3, SyscallFailsStep
<1>4. CASE ReceiveDatagram
    BY <1>4, ReceiveStep
<1>5. CASE Process
    BY <1>5, ProcessSocketStep, ProcessEndingStep
<1> QED
    BY <1>1, <1>2, <1>3, <1>4, <1>5 DEF DumpNext, Returned

\* For every dump, every cut into datagrams and every fault, the block gets one
\* of the outcomes that the model of the program is built on.
THEOREM OneTypeAsAssumed == DumpSpec => []AnswerAsAssumed
<1>1. DumpInv => AnswerAsAssumed
    BY DEF DumpInv, AnswerAsAssumed
<1> QED
    BY <1>1, DumpStart, DumpStep, PTL DEF DumpSpec

\* A message that answers another request discards the whole answer, however
\* much of it processSingleMessage had accepted.
THEOREM ForeignAnswerDiscarded == DumpSpec => []ForeignDiscards
<1>1. DumpInv => ForeignDiscards
    BY DEF DumpInv, ForeignDiscards
<1> QED
    BY <1>1, DumpStart, DumpStep, PTL DEF DumpSpec

\* The netlink socket is closed on every return of OneType.
THEOREM SocketNeverLeaks == DumpSpec => []SocketClosed
<1>1. DumpInv => SocketClosed
    BY DEF DumpInv, SocketClosed
<1> QED
    BY <1>1, DumpStart, DumpStep, PTL DEF DumpSpec

=============================================================================
