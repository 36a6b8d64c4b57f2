------------------------------ MODULE Snapshot ------------------------------
(***************************************************************************)
(* snapshot/snapshot.go: what a line of a log file becomes when it is read *)
(* back.  A line is the JSON text of an ArchivalRecord; Long says that it  *)
(* is longer than a bufio.Scanner takes.                                   *)
(***************************************************************************)
EXTENDS ArchivalRecord

ArchivalLine == [Timestamp : Nat, Metadata : Seq(Nat), RawIDM : Seq(InetDiagMsg),
                 ShortIDM : BOOLEAN, Attributes : Seq(Seq(AttrValue)), Long : BOOLEAN]

\* The zero time.Time, and the date that Next puts in its place.
zeroTime == 0
HackTime == -1

\* The attribute types that Decode handles, by the conversion it applies.
INET_DIAG_CONG == 4
INET_DIAG_CLASS_ID == 17
Uint8Types == {5, 6, 8, 10, INET_DIAG_CLASS_ID}
StructTypes == {1, 2, 3, 7, 9, 16}
DecodedTypes == StructTypes \cup Uint8Types \cup {INET_DIAG_CONG, INET_DIAG_MARK}

\* unsafe.Sizeof of MemInfo, LinuxTCPInfo, VegasInfo, SocketMemInfo, DCTCPInfo
\* and BBRInfo.
structSize(t) ==
    CASE t \in {1, 3, 9} -> 16
      [] t = 2 -> 232
      [] t = 7 -> 36
      [] t = 16 -> 24

\* Where the pieces of an AttrValue begin.
Offset == [Early |-> 0, Times |-> 44, Counters |-> 60, Received |-> 128,
           Late |-> 168, Sent |-> 200]

Zeros(n) == [Len |-> n, Early |-> 0, Times |-> 0, Counters |-> 0,
             Received |-> 0, Late |-> 0, Sent |-> 0]

\* The struct a value is mapped onto: a short value is followed by zeros, of a
\* long one the struct has the pieces that begin in its size bytes.
maybeCopy(v, size) ==
    [f \in DOMAIN v |->
        IF f = "Len" THEN size
        ELSE IF Offset[f] < v.Len /\ Offset[f] < size THEN v[f] ELSE 0]

\* The first byte.  Early is the number that the bytes of a short value make.
toUint8(v) ==
    IF v.Len < 1 THEN Zeros(1) ELSE [Zeros(1) EXCEPT !.Early = v.Early % 256]

toMark(v) == IF v.Len # 4 THEN Zeros(4) ELSE v

\* The string without its final NUL.
CongestionAlgorithm(v) == [v EXCEPT !.Len = @ - 1]

\* The field of the snapshot that an attribute of type t becomes, and whether
\* its conversion is ok.
Convert(t, v) ==
    CASE t \in StructTypes    -> maybeCopy(v, structSize(t))
      [] t \in Uint8Types     -> toUint8(v)
      [] t = INET_DIAG_CONG   -> CongestionAlgorithm(v)
      [] t = INET_DIAG_MARK   -> toMark(v)

ConvertOK(t, v) ==
    CASE t \in StructTypes    -> v.Len <= structSize(t)
      [] t \in Uint8Types     -> v.Len >= 1
      [] t = INET_DIAG_CONG   -> TRUE
      [] t = INET_DIAG_MARK   -> v.Len = 4
      [] OTHER                -> FALSE

\* The types a line has an attribute of.
TypesOf(ar) == {k - 1 : k \in {i \in DOMAIN ar.Attributes : ar.Attributes[i] # <<>>}}
ValueOf(ar, t) == ar.Attributes[t + 1][1]

\* uint32(1) << uint8(t-1) is 0 for 0 and beyond 32.
Bits(types) == types \cap 1 .. 32

\* Decode and the Next before it return an error: an empty record, a RawIDM
\* that is too short to be parsed.
DecodeFails(ar) ==
    \/ ar.Metadata = <<>> /\ ar.RawIDM = <<>>
    \/ ar.RawIDM # <<>> /\ ar.ShortIDM

\* Slicing an empty name panics.
DecodePanics(ar) ==
    INET_DIAG_CONG \in TypesOf(ar) /\ ValueOf(ar, INET_DIAG_CONG).Len = 0

\* Mutant: the bit of type t is bit t.
DecodeShifted(ar) ==
    LET types == TypesOf(ar)
    IN  [Timestamp |-> ar.Timestamp, InetDiagMsg |-> ar.RawIDM,
         Fields |-> [t \in types \cap DecodedTypes |-> Convert(t, ValueOf(ar, t))],
         Observed |-> Bits({t + 1 : t \in types}),
         NotFullyParsed |-> Bits({t \in types : ~ConvertOK(t, ValueOf(ar, t))})]

Decode(ar) ==
    LET types == TypesOf(ar)
    IN  [Timestamp |-> ar.Timestamp, InetDiagMsg |-> ar.RawIDM,
         Fields |-> [t \in types \cap DecodedTypes |-> Convert(t, ValueOf(ar, t))],
         Observed |-> Bits(types),
         NotFullyParsed |-> Bits({t \in types : ~ConvertOK(t, ValueOf(ar, t))})]

\* Reader.Next, on a line that can be read.
NextSnapshot(ar) ==
    Decode(IF ar.Timestamp = zeroTime THEN [ar EXCEPT !.Timestamp = HackTime] ELSE ar)

=============================================================================
