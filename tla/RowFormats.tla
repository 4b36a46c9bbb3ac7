------------------------------ MODULE RowFormats ------------------------------
(***************************************************************************)
(* How the payloads of a response are read: the description of its columns *)
(* (RowDescription), rows as text (DataRow), the layout of binary rows     *)
(* (RowDescriptionStandard) and binary rows (RowStandard), which are read  *)
(* by a plan made once per layout or, when a row does not fit the plan, by *)
(* the decoder that checks every field.  A payload is a sequence of bytes; *)
(* offsets count from 0.  A reader that throws a protocol error returns    *)
(* Malformed.                                                              *)
(***************************************************************************)
EXTENDS Integers, Sequences

Malformed == [ok |-> FALSE]

Byte(d, i) == d[i + 1]
Signed(n, bits) == IF n >= 2 ^ (bits - 1) THEN n - 2 ^ bits ELSE n

UInt16LE(d, i) == Byte(d, i) + 256 * Byte(d, i + 1)
UInt16BE(d, i) == 256 * Byte(d, i) + Byte(d, i + 1)
Int32BE(d, i) ==
    ((Signed(Byte(d, i), 8) * 256 + Byte(d, i + 1)) * 256 + Byte(d, i + 2)) * 256 + Byte(d, i + 3)
Int32LE(d, i) ==
    ((Signed(Byte(d, i + 3), 8) * 256 + Byte(d, i + 2)) * 256 + Byte(d, i + 1)) * 256 + Byte(d, i)

BitSet(byte, mask) == (byte \div mask) % 2 = 1

\* The bytes of d from offset i up to offset j.
Slice(d, i, j) == SubSeq(d, i + 1, j)

-----------------------------------------------------------------------------
(* Text.  Values are tagged: <<"null">>, <<"int", n>>, <<"bool", b>>,      *)
(* <<"text", code points>> and, of a value that TypeConversions goes on to  *)
(* convert, <<"bytes", its bytes>>.                                        *)

Null == <<"null">>

\* Every byte is one character.
DecodeLatin1(s) == s

\* Characters of one or two bytes, which is as far as the responses go; a lead
\* byte takes the byte after it.
DecodeUtf8(s) ==
    LET char(i) == IF s[i] < 128 THEN s[i] ELSE ((s[i] % 32) * 64) + (s[i + 1] % 64)
        textTo[i \in 0 .. Len(s)] ==
            IF i = 0 THEN <<>>
            ELSE IF s[i] \in 128 .. 191 THEN textTo[i - 1]
            ELSE Append(textTo[i - 1], char(i))
    IN  textTo[Len(s)]

TrimEnd(s) ==
    LET kept == {0} \cup {i \in DOMAIN s : s[i] # 32}
    IN  SubSeq(s, 1, CHOOSE i \in kept : \A j \in kept : j <= i)

IntText(s) ==
    LET negative == s[1] = 45
        digits == IF negative THEN Tail(s) ELSE s
        n[i \in 0 .. Len(digits)] == IF i = 0 THEN 0 ELSE (10 * n[i - 1]) + (digits[i] - 48)
    IN  IF negative THEN -n[Len(digits)] ELSE n[Len(digits)]

OidBool == 16
OidInt4 == 23
OidText == 25
OidAbsTime == 702

\* createTextBufferParser, and passthroughText for the other types.
TextValue(oid, s) ==
    CASE oid = OidBool -> <<"bool", s[1] \in {116, 49}>>
      [] oid = OidInt4 -> <<"int", IntText(s)>>
      [] OTHER -> <<"text", DecodeUtf8(s)>>

-----------------------------------------------------------------------------
(* RowDescription and DataRow *)

DescribeColumn(d, acc) ==
    LET ends == {j \in acc.at .. Len(d) - 1 : Byte(d, j) = 0}
        meta == 1 + CHOOSE j \in ends : \A k \in ends : j <= k
    IN  CASE ~acc.ok -> acc
          [] acc.ok /\ ends = {} -> [acc EXCEPT !.ok = FALSE]
          [] acc.ok /\ ends # {} /\ meta + 11 > Len(d) -> [acc EXCEPT !.ok = FALSE]
          [] OTHER -> [acc EXCEPT !.at = meta + 11,
                                  !.oids = Append(@, Int32BE(d, meta))]

\* Of a column the model keeps its type.
ParseRowDescription(d) ==
    IF Len(d) < 2 THEN Malformed
    ELSE LET columns[i \in 0 .. UInt16BE(d, 0)] ==
                 IF i = 0 THEN [ok |-> TRUE, at |-> 2, oids |-> <<>>]
                 ELSE DescribeColumn(d, columns[i - 1])
             r == columns[UInt16BE(d, 0)]
         IN  IF r.ok THEN [ok |-> TRUE, oids |-> r.oids] ELSE Malformed

\* Column i (from 1) of a row of text, read at acc.at.
ParseTextColumn(d, oids, acc, i) ==
    LET vlen == Int32BE(d, acc.at)
        from == acc.at + 4
        to == acc.at + vlen
    IN  CASE ~acc.ok -> acc
          [] acc.ok /\ ~BitSet(Byte(d, (i - 1) \div 8), 2 ^ (7 - ((i - 1) % 8))) ->
                [acc EXCEPT !.row = Append(@, Null)]
          [] OTHER ->
                IF from > Len(d) THEN [acc EXCEPT !.ok = FALSE]
                ELSE IF vlen < 4 \/ to > Len(d) THEN [acc EXCEPT !.ok = FALSE]
                ELSE [acc EXCEPT
                        !.at = to,
                        !.row = Append(@, IF vlen = 4 THEN Null
                                          ELSE TextValue(oids[i], Slice(d, from, to)))]

ParseDataRow(d, description) ==
    LET columns == Len(description.oids)
        bitmap == (columns + 7) \div 8
        values[i \in 0 .. columns] ==
            IF i = 0 THEN [ok |-> TRUE, at |-> bitmap, row |-> <<>>]
            ELSE ParseTextColumn(d, description.oids, values[i - 1], i)
        r == values[columns]
    IN  IF ~description.ok THEN Malformed
        ELSE IF Len(d) < bitmap \/ ~r.ok THEN Malformed
        ELSE [ok |-> TRUE, row |-> r.row]

-----------------------------------------------------------------------------
(* RowDescriptionStandard: 9 words, 9 words for every field, 2 words *)

NzTypeInt == 3
NzTypeBool == 12
NzTypeInt1 == 13
NzTypeChar == 15
NzTypeVarChar == 16
NzTypeInt2 == 19
NzTypeVarFixedChar == 21
NzTypeNChar == 25
NzTypeNVarChar == 26
NzTypeIntvsAbsTimeFIX == 39

\* Types of a fixed width whose bytes are converted: double, float, date, time,
\* timestamp, interval, timetz and int8.
ConvertedWidth ==
    [t \in {2, 4, 6, 8, 9, 10, 11, 20} |->
        IF t \in {4, 6} THEN 4 ELSE IF t \in {10, 11} THEN 12 ELSE 8]
NzTypeNumeric == 7

\* How many words a numeric has: getNumericDigitCount, or else by its precision.
NumericWords(f) ==
    LET precision == (f.size \div 256) % 128
    IN  IF f.trueSize \div 4 > 0 THEN f.trueSize \div 4
        ELSE IF precision <= 9 THEN 1
        ELSE IF precision <= 18 THEN 2 ELSE 4

MaxFields == 100000

ParseField(d, at, oid) ==
    LET word(k) == Int32BE(d, at + (4 * k))
        phys == word(4)
    IN  [type |-> IF word(0) = NzTypeInt /\ oid = OidAbsTime THEN NzTypeIntvsAbsTimeFIX ELSE word(0),
         size |-> word(1),
        trueSize |-> word(2),
         offset |-> word(3),
         nullByte |-> 2 + (phys \div 8),
         nullMask |-> 2 ^ (phys % 8),
         fixedSize |-> word(7)]

ParseDescriptor(d, description) ==
    LET numFields == Int32BE(d, 32)
        oid(i) == IF description.ok /\ i <= Len(description.oids) THEN description.oids[i] ELSE 0
    IN  IF Len(d) < 36 THEN Malformed
        ELSE IF numFields < 0 \/ numFields > MaxFields \/ Len(d) < 36 + numFields * 36 + 8 THEN Malformed
        ELSE [ok |-> TRUE,
              nullsAllowed |-> Int32BE(d, 4) # 0,
              numVarying |-> Int32BE(d, 20),
              fixedFieldsSize |-> Int32BE(d, 24),
              fields |-> [i \in 1 .. numFields |-> ParseField(d, 36 * i, oid(i))]]

-----------------------------------------------------------------------------
(* RowStandard.  A row is the bytes of d from offset base up to end. *)

\* The value of a field by its type: what is read without a prepared parser.
FieldValue(d, at, f) ==
    CASE f.type = NzTypeInt -> <<"int", Int32LE(d, at)>>
      [] f.type = NzTypeInt2 -> <<"int", Signed(UInt16LE(d, at), 16)>>
      [] f.type = NzTypeInt1 -> <<"int", Signed(Byte(d, at), 8)>>
      [] f.type = NzTypeBool -> <<"bool", Byte(d, at) = 1>>
      [] f.type = NzTypeChar -> <<"text", TrimEnd(DecodeLatin1(Slice(d, at, at + f.size)))>>
      [] f.type \in {NzTypeVarChar, NzTypeVarFixedChar} -> <<"text", DecodeLatin1(Slice(d, at + 2, at + UInt16LE(d, at)))>>
      [] f.type \in {NzTypeNChar, NzTypeNVarChar} -> <<"text", DecodeUtf8(Slice(d, at + 2, at + UInt16LE(d, at)))>>
      [] f.type \in DOMAIN ConvertedWidth -> <<"bytes", Slice(d, at, at + ConvertedWidth[f.type])>>
      [] f.type = NzTypeNumeric -> <<"bytes", Slice(d, at, at + (4 * NumericWords(f)))>>
      [] OTHER -> <<"text", DecodeUtf8(Slice(d, at, at + f.size))>>

\* The parser prepared for field i when the layout arrives, by the same types.
BinaryField(layout, i, d, at) == FieldValue(d, at, layout.fields[i])

\* Where each varying field starts, and where the row ends; they follow the fixed
\* area, each with its length in front and padded to an even one.
VaryingStarts(d, base, end, layout) ==
    LET start[j \in 0 .. layout.numVarying] ==
            IF j = 0 THEN base + layout.fixedFieldsSize
            ELSE LET at == start[j - 1]
                     vlen == UInt16LE(d, at)
                 IN  IF at > end - 2 THEN end + 1
                     ELSE IF vlen < 2 THEN end + 1 ELSE at + vlen + (vlen % 2)
    IN  start

\* Every varying field is within the row.
VaryingFit(starts, end, layout) == \A j \in 0 .. layout.numVarying : starts[j] <= end

IsNull(d, base, layout, f) ==
    layout.nullsAllowed /\ BitSet(Byte(d, base + f.nullByte), f.nullMask)

\* Offset of field f in d.
FieldStart(base, layout, starts, f) ==
    CASE f.fixedSize # 0 -> base + f.offset
      [] f.fixedSize = 0 /\ layout.numVarying > 0 -> starts[f.offset]
      [] OTHER -> base + layout.fixedFieldsSize

\* How many bytes FieldValue takes for a field whose width is fixed.
ValueWidth(f) ==
    CASE f.type = NzTypeInt -> 4
      [] f.type = NzTypeInt2 -> 2
      [] f.type \in {NzTypeInt1, NzTypeBool} -> 1
      [] f.type \in DOMAIN ConvertedWidth -> ConvertedWidth[f.type]
      [] f.type = NzTypeNumeric -> 4 * NumericWords(f)
      [] OTHER -> f.size

\* The bytes FieldValue takes at this offset lie before end.
FieldWithin(d, at, end, f) ==
    IF f.type \in {NzTypeVarChar, NzTypeVarFixedChar, NzTypeNChar, NzTypeNVarChar}
    THEN at + 2 <= end /\ UInt16LE(d, at) \in 2 .. end - at
    ELSE ValueWidth(f) \in 0 .. end - at

\* The bytes of every field that is not null are bytes of the row.
RowWithin(d, base, end, layout) ==
    \A i \in DOMAIN layout.fields :
        LET f == layout.fields[i]
            at == FieldStart(base, layout, VaryingStarts(d, base, end, layout), f)
        IN  IsNull(d, base, layout, f) \/ (at \in base .. end /\ FieldWithin(d, at, end, f))

\* The checks the checked decoder makes on field f.
FieldFits(d, base, end, layout, starts, f) ==
    /\ layout.nullsAllowed => base + f.nullByte < end /\ f.nullByte >= 0
    /\ \/ IsNull(d, base, layout, f)
       \/ f.fixedSize > 0 /\ f.offset >= 0 /\ base + f.offset + f.fixedSize <= end
       \/ /\ f.fixedSize = 0 /\ layout.numVarying > 0
          /\ f.offset \in 0 .. layout.numVarying - 1
          /\ UInt16LE(d, starts[f.offset]) >= 2
          /\ starts[f.offset] + UInt16LE(d, starts[f.offset]) <= end
       \/ /\ f.fixedSize = 0 /\ layout.numVarying <= 0
          /\ layout.fixedFieldsSize >= 0
          /\ base + layout.fixedFieldsSize <= end

\* The fields of a row, each read where it starts.
ReadFields(d, base, layout, starts) ==
    [ok |-> TRUE,
     row |-> [i \in DOMAIN layout.fields |->
                LET f == layout.fields[i]
                IN  IF IsNull(d, base, layout, f) THEN Null
                    ELSE BinaryField(layout, i, d, FieldStart(base, layout, starts, f))]]

ParseDbosRowChecked(d, base, end, layout) ==
    LET varying == VaryingStarts(d, base, end, layout)
    IN  IF layout.numVarying > 0 /\ (layout.fixedFieldsSize < 0 \/ ~VaryingFit(varying, end, layout)) THEN Malformed
        ELSE IF \A i \in DOMAIN layout.fields :
                    FieldFits(d, base, end, layout, varying, layout.fields[i])
             THEN ReadFields(d, base, layout, varying)
             ELSE Malformed

\* A layout the fast loop may rely on.
Regular(layout) ==
    /\ layout.numVarying >= 0 /\ layout.fixedFieldsSize >= 0
    /\ \A i \in DOMAIN layout.fields :
        LET f == layout.fields[i]
        IN  /\ f.fixedSize # 0 => f.fixedSize > 0 /\ f.offset >= 0
            /\ f.fixedSize = 0 /\ layout.numVarying > 0 => f.offset \in 0 .. layout.numVarying - 1
            /\ layout.nullsAllowed => f.nullByte >= 0

\* The ends of everything in the fixed area; fixedAreaEnd is the largest.
FixedAreaEnds(layout) ==
    {layout.fields[i].offset + layout.fields[i].fixedSize :
        i \in {j \in DOMAIN layout.fields : layout.fields[j].fixedSize # 0}}
    \cup {layout.fields[i].nullByte + 1 : i \in {j \in DOMAIN layout.fields : layout.nullsAllowed}}
    \cup (IF layout.numVarying > 0 \/ \E i \in DOMAIN layout.fields : layout.fields[i].fixedSize = 0
          THEN {layout.fixedFieldsSize} ELSE {})

ParseDbosRowInPlace(d, base, end, layout) ==
    LET varying == VaryingStarts(d, base, end, layout)
    IN  IF \/ ~Regular(layout)
           \/ end > Len(d)
           \/ \E e \in FixedAreaEnds(layout) : base + e > end
           \/ layout.numVarying > 0 /\ ~VaryingFit(varying, end, layout)
        THEN ParseDbosRowChecked(d, base, end, layout)
        ELSE ReadFields(d, base, layout, varying)
=============================================================================
