------------------------------- MODULE Backend --------------------------------
(***************************************************************************)
(* How a Netezza server encodes the messages of a response, as the driver  *)
(* and its recorded wire fixtures have them: a type byte, four bytes the   *)
(* driver skips, and for most types a length and a payload.  The reference *)
(* the decoders of RowFormats are checked against.                         *)
(***************************************************************************)
EXTENDS Integers, Sequences
LOCAL INSTANCE SequencesExt

Zeros(n) == [i \in 1 .. n |-> 0]

\* n modulo 2^(8 * width), most significant byte first, and last.
Unsigned(n, width) == IF n >= 0 THEN n ELSE n + 2 ^ (8 * width)
BigEndian(n, width) == [i \in 1 .. width |-> (Unsigned(n, width) \div 2 ^ (8 * (width - i))) % 256]
LittleEndian(n, width) == Reverse(BigEndian(n, width))

Word(n) ==
    IF n >= 0 THEN BigEndian(n, 4)
    ELSE LET low == BigEndian(n + 1073741824 + 1073741824, 4) IN [low EXCEPT ![1] = @ + 128]

Frame(type, payload) == <<type>> \o Zeros(4) \o Word(Len(payload)) \o payload
Bare(type) == <<type>> \o Zeros(4)
ReadyForQuery == Bare(90)
CommandComplete == Frame(67, <<83>>)
ErrorResponse == Frame(69, <<88, 0>>)
Notice == Frame(78, <<78, 0>>)

\* A column is [oid].
ColumnBytes(oid) == <<97, 0>> \o Word(oid) \o BigEndian(4, 2) \o Word(-1) \o <<0>>
RowDescription(oids) ==
    Frame(84, BigEndian(Len(oids), 2) \o FlattenSeq([i \in DOMAIN oids |-> ColumnBytes(oids[i])]))

\* Text of a character: one byte, or two in UTF-8.
Utf8(c) == IF c < 128 THEN <<c>> ELSE <<192 + (c \div 64), 128 + (c % 64)>>
Utf8Text(s) == FlattenSeq([i \in DOMAIN s |-> Utf8(s[i])])

Digits(n) ==
    LET digits[k \in Nat] == IF k < 10 THEN <<48 + k>> ELSE Append(digits[k \div 10], 48 + (k % 10))
    IN  IF n < 0 THEN <<45>> \o digits[-n] ELSE digits[n]

ValueText(v) ==
    CASE v[1] = "int" -> Digits(v[2])
      [] v[1] = "bool" -> IF v[2] THEN <<116>> ELSE <<102>>
      [] v[1] = "text" -> Utf8Text(v[2])
      [] OTHER -> <<>>

\* Values present are marked from the highest bit of the first byte down.
Bitmap(row) ==
    [b \in 1 .. (Len(row) + 7) \div 8 |->
        FoldLeft(LAMBDA acc, k : (2 * acc)
                    + (IF 8 * (b - 1) + k <= Len(row) /\ row[8 * (b - 1) + k] # <<"null">> THEN 1 ELSE 0),
                 0, [k \in 1 .. 8 |-> k])]

DataRowPayload(row) ==
    Bitmap(row) \o FlattenSeq([i \in DOMAIN row |->
        IF row[i] = <<"null">> THEN <<>>
        ELSE Word(4 + Len(ValueText(row[i]))) \o ValueText(row[i])])
DataRow(row) == Frame(68, DataRowPayload(row))

\* Fields of a binary layout: [type, size, trueSize, offset, phys, fixedSize]; the words
\* the driver skips are zero.
FieldWords(f) ==
    Word(f.type) \o Word(f.size) \o Word(f.trueSize) \o Word(f.offset) \o Word(f.phys)
    \o Zeros(8) \o Word(f.fixedSize) \o Zeros(4)
Descriptor(l) ==
    Frame(88, Zeros(4) \o Word(l.nullsAllowed) \o Zeros(12) \o Word(l.numVarying)
              \o Word(l.fixedFieldsSize) \o Zeros(4) \o Word(Len(l.fields))
              \o FlattenSeq([i \in DOMAIN l.fields |-> FieldWords(l.fields[i])]) \o Zeros(8))

Padded(s) == IF Len(s) % 2 = 0 THEN s ELSE Append(s, 0)
VaryingField(bytes) == Padded(LittleEndian(Len(bytes) + 2, 2) \o bytes)

FieldBytes(f, v) ==
    CASE v[1] = "int" -> IF f.fixedSize = 4 THEN Reverse(Word(v[2])) ELSE LittleEndian(v[2], f.fixedSize)
      [] v[1] = "bool" -> IF v[2] THEN <<1>> ELSE <<0>>
      [] v[1] = "bytes" -> v[2]
      [] v[1] = "text" ->
            IF f.fixedSize # 0 THEN v[2] \o [i \in 1 .. f.fixedSize - Len(v[2]) |-> 32]
            ELSE VaryingField(IF f.type = 26 THEN Utf8Text(v[2]) ELSE v[2])
      [] OTHER -> IF f.fixedSize # 0 THEN Zeros(f.fixedSize) ELSE VaryingField(<<>>)

\* Two bytes of length, one of nulls, the fixed fields at their offsets, then
\* the varying ones.
StandardRow(l, row) ==
    LET nulls == FoldLeft(LAMBDA acc, i : acc + IF row[i] = <<"null">> THEN 2 ^ l.fields[i].phys ELSE 0,
                          0, [i \in DOMAIN row |-> i])
        put(acc, i) ==
            IF l.fields[i].fixedSize = 0 THEN acc
            ELSE LET bytes == FieldBytes(l.fields[i], row[i])
                 IN  [k \in DOMAIN acc |->
                        IF k > l.fields[i].offset /\ k <= l.fields[i].offset + Len(bytes)
                        THEN bytes[k - l.fields[i].offset] ELSE acc[k]]
        head == [Zeros(l.fixedFieldsSize) EXCEPT ![3] = nulls]
    IN  FoldLeft(put, head, [i \in DOMAIN row |-> i])
        \o FlattenSeq([i \in DOMAIN row |->
             IF l.fields[i].fixedSize = 0 THEN FieldBytes(l.fields[i], row[i]) ELSE <<>>])
RowStandard(bytes) == <<89>> \o Zeros(8) \o Word(Len(bytes)) \o bytes

\* What is to be known of a response made of frames; rows are those before the
\* first frame that is malformed.
Response(frames, rows) ==
    [bytes |-> FlattenSeq(frames) \o Zeros(4),
     ends |-> {Len(FlattenSeq(SubSeq(frames, 1, i))) : i \in DOMAIN frames},
     finish |-> Len(FlattenSeq(frames)),
     longest |-> Len(CHOOSE f \in ToSet(frames) : \A g \in ToSet(frames) : Len(f) >= Len(g)),
     rows |-> rows]
=============================================================================
