------------------------------ MODULE LogFile ------------------------------
(***************************************************************************)
(* What zstd.NewWriter promises of the file it opens, without the pipe and *)
(* the process behind it: what is written to it ends up in the file, in    *)
(* order, and is all there when Close returns, unless the compressor died. *)
(***************************************************************************)
EXTENDS Integers, Sequences

CONSTANT Piece   \* what a program can write at once

VARIABLES
    phase,       \* "none", "open", "closed", "failed" to open, "crashed"
    written,     \* what has been written
    stored,      \* what is in the file
    intact       \* the compressor has not died

logVars == <<phase, written, stored, intact>>

LogInit ==
    /\ phase = "none"
    /\ written = <<>>
    /\ stored = <<>>
    /\ intact = TRUE

Open ==
    /\ phase = "none"
    /\ phase' \in {"open", "failed"}
    /\ UNCHANGED <<written, stored, intact>>

Put ==
    /\ phase = "open"
    /\ \E p \in Piece : written' = Append(written, p)
    /\ UNCHANGED <<phase, stored, intact>>

\* The compressor stores more of what has been written, even when the program
\* that wrote it is no more.
Store ==
    /\ phase \in {"open", "crashed"}
    /\ intact
    /\ \E n \in Len(stored) .. Len(written) : stored' = SubSeq(written, 1, n)
    /\ UNCHANGED <<phase, written, intact>>

Break ==
    /\ phase \in {"open", "crashed"}
    /\ intact' = FALSE
    /\ UNCHANGED <<phase, written, stored>>

\* The program is killed; a compressor that was not yet running never will.
Crash ==
    /\ phase = "open"
    /\ phase' = "crashed"
    /\ intact' \in {intact, FALSE}
    /\ UNCHANGED <<written, stored>>

Close ==
    /\ phase = "open"
    /\ intact => stored = written
    /\ phase' = "closed"
    /\ UNCHANGED <<written, stored, intact>>

LogNext == Open \/ Put \/ Store \/ Break \/ Crash \/ Close

LogSpec == LogInit /\ [][LogNext]_logVars

=============================================================================
