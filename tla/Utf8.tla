-------------------------------- MODULE Utf8 --------------------------------
(***************************************************************************)
(* helpers/src/utf8.ts. Text is a sequence of UTF-16 code units, as in     *)
(* JavaScript; bytes are numbers.                                          *)
(***************************************************************************)
EXTENDS Integers, Sequences, SequencesExt

REPLACEMENT == 65533

IsHighSurrogate(unit) == 55296 <= unit /\ unit < 56320
IsLowSurrogate(unit) == 56320 <= unit /\ unit < 57344

\* Six bits of a code point: those that count in multiples of unit.
Continuation(point, unit) == 128 + ((point \div unit) % 64)

\* A code point as bytes: how many depends on how large it is.
BytesOf(point) ==
    CASE point < 128 -> <<point>>
      [] point >= 128 /\ point < 2048 -> <<192 + point \div 64, Continuation(point, 1)>>
      [] point >= 2048 /\ point < 65536 ->
            <<224 + point \div 4096, Continuation(point, 64), Continuation(point, 1)>>
      [] point >= 65536 ->
            <<240 + point \div 262144, Continuation(point, 4096), Continuation(point, 64), Continuation(point, 1)>>

\* A pair of surrogates at i, and the code point it stands for.
IsPair(text, i) ==
    i \in 1 .. Len(text) - 1 /\ IsHighSurrogate(text[i]) /\ IsLowSurrogate(text[i + 1])
PairPoint(text, i) == 65536 + (text[i] - 55296) * 1024 + (text[i + 1] - 56320)

LonePoint(unit) == IF IsHighSurrogate(unit) \/ IsLowSurrogate(unit) THEN REPLACEMENT ELSE unit

\* What the code unit at i adds: a pair counts at its first half, and half a pair is replaced.
UnitBytes(text, i) ==
    CASE IsPair(text, i)     -> BytesOf(PairPoint(text, i))
      [] IsPair(text, i - 1) -> << >>
      [] ~ IsPair(text, i) /\ ~ IsPair(text, i - 1) -> BytesOf(LonePoint(text[i]))

EncodeUtf8(text) == FlattenSeq([i \in DOMAIN text |-> UnitBytes(text, i)])

-----------------------------------------------------------------------------

\* The decoder between two bytes: the code points so far, and of an unfinished one its bits,
\* how many bytes are still to come, and what the next byte may be.
Between(points) == [points |-> points, point |-> 0, needed |-> 0, lower |-> 128, upper |-> 191]

Push(d, point) == Between(Append(d.points, point))

BeginPoint(d, point, needed, lower, upper) ==
    [points |-> d.points, point |-> point, needed |-> needed, lower |-> lower, upper |-> upper]

\* A byte that starts a code point.
Lead(d, byte) ==
    CASE byte \in 0 .. 127   -> Push(d, byte)
      [] byte \in 194 .. 223 -> BeginPoint(d, byte % 32, 1, 128, 191)
      [] byte \in 224 .. 239 -> BeginPoint(d, byte % 16, 2, IF byte = 224 THEN 160 ELSE 128, IF byte = 237 THEN 159 ELSE 191)
      [] byte \in 240 .. 244 -> BeginPoint(d, byte % 8, 3, IF byte = 240 THEN 144 ELSE 128, IF byte = 244 THEN 143 ELSE 191)
      [] OTHER -> Push(d, REPLACEMENT)

\* A byte that continues one, or ends it early and is examined again.
NextByte(d, byte) ==
    CASE d.needed = 0 -> Lead(d, byte)
      [] d.needed # 0 /\ byte \notin d.lower .. d.upper -> Lead(Push(d, REPLACEMENT), byte)
      [] d.needed = 1 /\ byte \in d.lower .. d.upper -> Push(d, d.point * 64 + (byte % 64))
      [] d.needed > 1 /\ byte \in d.lower .. d.upper ->
            BeginPoint(d, d.point * 64 + (byte % 64), d.needed - 1, 128, 191)

UnitsOf(point) ==
    IF point < 65536 THEN <<point>>
    ELSE <<55296 + (point - 65536) \div 1024, 56320 + ((point - 65536) % 1024)>>

\* The decoder when it has read all bytes.
Decoder(bytes) ==
    LET after[n \in 0 .. Len(bytes)] == IF n = 0 THEN Between(<< >>) ELSE NextByte(after[n - 1], bytes[n])
    IN  after[Len(bytes)]

DecodeUtf8(bytes) ==
    LET end == Decoder(bytes)
        points == IF end.needed = 0 THEN end.points ELSE Append(end.points, REPLACEMENT)
    IN  FlattenSeq([i \in DOMAIN points |-> UnitsOf(points[i])])

-----------------------------------------------------------------------------
(* What decoding is, without a decoder: Unicode's table of the well-formed sequences. A text *)
(* is cut into the longest beginnings of such sequences; a whole one is a code point, and    *)
(* what is only a beginning, or none, is replaced.                                           *)

Following == 128 .. 191
Table ==
    { << 0 .. 127 >>,
      << 194 .. 223, Following >>,
      << {224}, 160 .. 191, Following >>,
      << (225 .. 239) \ {237}, Following, Following >>,
      << {237}, 128 .. 159, Following >>,
      << {240}, 144 .. 191, Following, Following >>,
      << 241 .. 243, Following, Following, Following >>,
      << {244}, 128 .. 143, Following, Following >> }

\* bytes is the beginning of a well-formed sequence, and of which kind.
Begins(bytes, form) == Len(bytes) <= Len(form) /\ \A i \in DOMAIN bytes : bytes[i] \in form[i]

\* How many bytes at i belong together.
PieceLen(bytes, i) ==
    CHOOSE n \in 1 .. 4 :
        LET Fit(l) == /\ i + l - 1 <= Len(bytes)
                      /\ \E form \in Table : Begins(SubSeq(bytes, i, i + l - 1), form)
        IN  /\ n = 1 \/ Fit(n)
            /\ \A l \in n + 1 .. 4 : ~ Fit(l)

IsWhole(piece) == \E form \in Table : Begins(piece, form) /\ Len(piece) = Len(form)

\* What a piece stands for: the low bits of its first byte and six of each that follows.
Value(piece) ==
    LET low == piece[1] % <<128, 32, 16, 8>>[Len(piece)]
        Six(i) == piece[i] % 64
    IN  CASE ~ IsWhole(piece) -> REPLACEMENT
          [] IsWhole(piece) /\ Len(piece) = 1 -> low
          [] IsWhole(piece) /\ Len(piece) = 2 -> low * 64 + Six(2)
          [] IsWhole(piece) /\ Len(piece) = 3 -> low * 4096 + Six(2) * 64 + Six(3)
          [] IsWhole(piece) /\ Len(piece) = 4 -> low * 262144 + Six(2) * 4096 + Six(3) * 64 + Six(4)

\* Where the piece that holds byte i ends.
PieceEnd(bytes) ==
    LET end[i \in 0 .. Len(bytes)] ==
            IF i = 0 THEN 0 ELSE IF end[i - 1] >= i THEN end[i - 1] ELSE i - 1 + PieceLen(bytes, i)
    IN  end

ReferenceDecoding(bytes) ==
    LET end == PieceEnd(bytes)
    IN  FlattenSeq([i \in DOMAIN bytes |->
            IF end[i - 1] < i THEN UnitsOf(Value(SubSeq(bytes, i, end[i]))) ELSE << >>])
=============================================================================
