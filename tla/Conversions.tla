------------------------------ MODULE Conversions ------------------------------
(***************************************************************************)
(* TypeConversions: the values behind the words of a binary row and behind *)
(* the text of a text row.  The widths and radixes of the code are          *)
(* constants, so that every value of a narrower word can be tried: a word   *)
(* has Limb * Limb values (2^16 * 2^16), a chunk of digits is ChunkDigits   *)
(* long (9), a Number keeps NumberDigits digits (15) and is written with    *)
(* an exponent below 10^-SmallDigits (6).  Texts are sequences of           *)
(* characters; positions count from 0 as in the code.                       *)
(***************************************************************************)
EXTENDS Integers, Sequences, SequencesExt, FiniteSetsExt

CONSTANTS Limb, ChunkDigits, NumberDigits, SmallDigits,
          SafeHigh,         \* high words below this are read as one Number (2^21)
          Milli,            \* microseconds in a millisecond (1000)
          TickQ, TickR,     \* the values of a word = TickQ * Milli + TickR (4294967, 296)
          Second,           \* microseconds in a second (10^6)
          Sixty, Dozen      \* 60 and 12

Word == Limb * Limb

\* JavaScript's division that truncates, and its remainder: the sign is that of n.
Trunc(n, d) == IF n < 0 THEN -((-n) \div d) ELSE n \div d
Rem(n, d) == n - (d * Trunc(n, d))
Magnitude(n) == IF n < 0 THEN -n ELSE n

-----------------------------------------------------------------------------
(* Numbers *)

Characters == <<"0", "1", "2", "3", "4", "5", "6", "7", "8", "9">>

\* String(n) for an integer that is not negative.
Decimal ==
    LET text[n \in Nat] ==
            IF n < 10 THEN <<Characters[n + 1]>>
            ELSE Append(text[n \div 10], Characters[(n % 10) + 1])
    IN  text

DigitOf == [c \in ToSet(Characters) |-> CHOOSE n \in 0 .. 9 : Characters[n + 1] = c]

Zeros(n) == [i \in 1 .. n |-> "0"]
PadStart(text, n) == IF Len(text) < n THEN Zeros(n - Len(text)) \o text ELSE text
Signed(text, isMinus) == IF isMinus THEN <<"-">> \o text ELSE text

\* The decimal point, when it falls into a chunk of which emitted digits stand
\* to the right.
PlaceDecimalPoint(chunk, emitted, scale) ==
    LET fraction == scale - emitted
        split == Len(chunk) - fraction
    IN  IF fraction <= 0 \/ fraction > Len(chunk) THEN chunk
        ELSE SubSeq(chunk, 1, split) \o <<".">> \o SubSeq(chunk, split + 1, Len(chunk))

\* Two's complement: the limbs inverted, plus one from the last limb.
Negated(limbs) ==
    LET added[i \in 1 .. Len(limbs) + 1] ==
            IF i > Len(limbs) THEN [carry |-> 1, limbs |-> <<>>]
            ELSE LET v == (Limb - 1 - limbs[i]) + added[i + 1].carry
                 IN  [carry |-> v \div Limb, limbs |-> <<v % Limb>> \o added[i + 1].limbs]
    IN  added[1].limbs

\* One long division by 10^ChunkDigits: the quotient's limbs and the remainder.
Divided(limbs) ==
    LET upto[i \in 0 .. Len(limbs)] ==
            IF i = 0 THEN [rem |-> 0, limbs |-> <<>>]
            ELSE LET cur == (upto[i - 1].rem * Limb) + limbs[i]
                 IN  [rem |-> cur % (10 ^ ChunkDigits),
                      limbs |-> Append(upto[i - 1].limbs, cur \div (10 ^ ChunkDigits))]
    IN  upto[Len(limbs)]

AllZero(limbs) == \A i \in DOMAIN limbs : limbs[i] = 0

\* The text and the number of its digits, from the least significant chunk on.
Chunks(limbs, scale) ==
    LET more[rest \in Seq(0 .. Limb - 1), done \in Seq({"."} \cup ToSet(Characters)), n \in Nat] ==
            IF AllZero(rest) THEN [text |-> done, emitted |-> n]
            ELSE LET d == Divided(rest)
                     chunk == IF AllZero(d.limbs) THEN Decimal[d.rem]
                              ELSE PadStart(Decimal[d.rem], ChunkDigits)
                 IN  more[d.limbs, PlaceDecimalPoint(chunk, n, scale) \o done, n + Len(chunk)]
    IN  more[limbs, <<>>, 0]

\* Exact text of any number of words, most significant first.
FormatWideNumeric(words, scale) ==
    LET halves[i \in 0 .. Len(words)] ==
            IF i = 0 THEN <<>>
            ELSE halves[i - 1] \o <<words[i] \div Limb, words[i] % Limb>>
        limbs == halves[Len(words)]
        isMinus == limbs[1] >= Limb \div 2
        made == Chunks(IF isMinus THEN Negated(limbs) ELSE limbs, scale)
        digits == IF made.emitted = 0 THEN [text |-> <<"0">>, emitted |-> 1] ELSE made
        text == IF scale < digits.emitted THEN digits.text
                ELSE <<"0", ".">> \o Zeros(scale - digits.emitted)
                     \o (IF digits.text[1] = "." THEN Tail(digits.text) ELSE digits.text)
    IN  Signed(text, isMinus)

FormatNumeric(digits, isMinus, scale) ==
    LET padded == IF Len(digits) > scale THEN digits ELSE PadStart(digits, scale + 1)
        start == Len(padded) - scale
    IN  Signed(IF scale = 0 THEN digits
               ELSE SubSeq(padded, 1, start) \o <<".">> \o SubSeq(padded, start + 1, Len(padded)),
               isMinus)

SignedWord(w) == IF w >= Word \div 2 THEN w - Word ELSE w

\* The value if it is a safe integer.
Unsafe == [safe |-> FALSE]
ReadSafeUnscaled(words) ==
    LET n == Len(words)
        hi == SignedWord(words[n - 1])
        extension == IF hi < 0 THEN -1 ELSE 0
    IN  IF n = 1 THEN [safe |-> TRUE, value |-> SignedWord(words[1])]
        ELSE IF \E i \in 1 .. n - 2 : SignedWord(words[i]) # extension THEN Unsafe
        ELSE IF hi >= SafeHigh \/ hi < -SafeHigh THEN Unsafe
        ELSE [safe |-> TRUE, value |-> (hi * Word) + words[n]]

\* The digits of the exact text of a numeric, and how many follow the point.
ExactText(text) ==
    LET digits == SelectSeq(text, LAMBDA c : c \in ToSet(Characters))
        point == {i \in DOMAIN text : text[i] = "."}
        value[i \in 0 .. Len(digits)] ==
            IF i = 0 THEN 0 ELSE (10 * value[i - 1]) + DigitOf[digits[i]]
    IN  [abs |-> value[Len(digits)], minus |-> text[1] = "-",
         scale |-> IF point = {} THEN 0 ELSE Len(text) - Min(point)]

\* Whether String(parseFloat(text)) is the exact text again: JavaScript writes no
\* zeros at the end of a fraction and small numbers with an exponent.
RoundTrips(text) ==
    LET n == ExactText(text)
    IN  /\ n.scale > 0 => n.abs % 10 # 0
        /\ n.abs < 10 ^ NumberDigits
        /\ n.abs # 0 => n.abs * 10 ^ SmallDigits >= 10 ^ n.scale

\* A Number is the fraction it stands for: an integer over a power of ten.
Number(unscaled, scale) == [type |-> "number", unscaled |-> unscaled, scale |-> scale]
NumberOf(text) ==
    LET n == ExactText(text) IN Number(IF n.minus THEN -n.abs ELSE n.abs, n.scale)
Text(text) == [type |-> "text", text |-> text]
NumberOrText(text, prec) ==
    IF prec <= NumberDigits /\ RoundTrips(text) THEN NumberOf(text) ELSE Text(text)

\* Mutant of GetCsNumeric: a number also when its text ends with a zero.
GetCsNumericShortened(words, prec, scale) ==
    LET unscaled == ReadSafeUnscaled(words)
    IN  IF unscaled.safe /\ prec <= NumberDigits
        THEN Number(unscaled.value, scale)
        ELSE NumberOrText(FormatWideNumeric(words, scale), prec)

\* The rule of RoundTrips is decided by arithmetic where the value is safe.
GetCsNumeric(words, prec, scale) ==
    LET unscaled == ReadSafeUnscaled(words)
        abs == Magnitude(unscaled.value)
        exact == FormatNumeric(Decimal[abs], unscaled.value < 0, scale)
    IN  IF ~unscaled.safe THEN NumberOrText(FormatWideNumeric(words, scale), prec)
        ELSE IF prec > NumberDigits \/ abs >= 10 ^ NumberDigits THEN NumberOrText(exact, prec)
        ELSE IF scale = 0 THEN Number(unscaled.value, 0)
        ELSE IF abs % 10 # 0 /\ abs * 10 ^ SmallDigits >= 10 ^ scale
        THEN Number(unscaled.value, scale)
        ELSE Text(exact)

\* A numeric that came as text, its declared precision at least 1.
ParseNumericText(text, prec) == NumberOrText(text, prec)

-----------------------------------------------------------------------------
(* Instants and times.  A 64-bit count of microseconds is a signed high word *)
(* and an unsigned low word.                                                *)

\* Mutant of ToDateTimeFrom8Bytes: it truncates toward zero.
ToDateTimeTruncated(hi, lo) == Trunc((hi * Word) + lo, Milli)

\* Milliseconds since 2000, without a product that leaves the safe integers.
ToDateTimeFrom8Bytes(hi, lo) == (hi * TickQ) + (((hi * TickR) + lo) \div Milli)

\* The seconds are truncated, the fields are floored.
TimeRecvFloat(hi, lo) ==
    LET micros == (hi * Word) + lo
        total == Trunc(micros, Second)
    IN  [hours |-> total \div (Sixty * Sixty),
         minutes |-> Rem(total, Sixty * Sixty) \div Sixty,
         seconds |-> Rem(total, Sixty),
         microseconds |-> micros - (total * Second)]

\* Years are written when there are any; months and a time always are, except
\* for an interval without months.
IntervalRecvFloat(hi, lo, months) ==
    [years |-> IF months \div Dozen > 0 THEN months \div Dozen ELSE 0,
     mons |-> Rem(months, Dozen),
     time |-> TimeRecvFloat(hi, lo)]

\* The server's offset counts westward.
TimetzOutput(hi, lo, zoneSeconds) ==
    LET zone == Magnitude(zoneSeconds)
    IN  [time |-> TimeRecvFloat(hi, lo),
         sign |-> IF zoneSeconds < 0 THEN "+" ELSE "-",
         hours |-> zone \div (Sixty * Sixty),
         minutes |-> (zone % (Sixty * Sixty)) \div Sixty,
         seconds |-> zone % Sixty]

-----------------------------------------------------------------------------
(* Text of dates and times.  What a parser does not understand is NaN.      *)

NaN == [valid |-> FALSE]
CharAt(text, pos) == IF pos < Len(text) THEN text[pos + 1] ELSE "none"
Slice(text, from, to) == SubSeq(text, from + 1, Min({to, Len(text)}))

IsDigit(c) == c \in DOMAIN DigitOf
NumberIn(digits) ==
    LET n[i \in 0 .. Len(digits)] == IF i = 0 THEN 0 ELSE (10 * n[i - 1]) + DigitOf[digits[i]]
    IN  n[Len(digits)]

\* The value of the digits at pos, or -1.  (Behind the end of the text the code
\* reads NaN, which its callers find out by the length.)
ReadDigits(text, pos, len) ==
    IF pos + len <= Len(text) /\ \A i \in pos .. pos + len - 1 : IsDigit(CharAt(text, i))
    THEN NumberIn(Slice(text, pos, pos + len))
    ELSE -1

Blank == " "
Trim(text) ==
    LET kept == {i \in DOMAIN text : text[i] # Blank}
    IN  IF kept = {} THEN <<>> ELSE SubSeq(text, Min(kept), Max(kept))

\* The first n digits of a fraction, zeros for those it does not have.
Fraction(digits, n) == NumberIn(SubSeq(digits \o Zeros(n), 1, n))

\* The number of a day of the Gregorian calendar; days roll over into the month
\* that follows.
DayNumber(year, month, day) ==
    LET a == (14 - month) \div 12
        y == year + 4800 - a
        m == month + (12 * a) - 3
    IN  day + (((153 * m) + 2) \div 5) + (365 * y) + (y \div 4) - (y \div 100) + (y \div 400)

\* Date.UTC takes the years 0 to 99 for 1900 to 1999.
DateUTC(year, month, day) == DayNumber(IF year < 100 THEN 1900 + year ELSE year, month, day)

\* An instant: its day and the milliseconds of that day.
MsPerDay == 86400000
MsPerMinute == 60000
Instant(day, ms) == [valid |-> TRUE, day |-> day + (ms \div MsPerDay), ms |-> ms % MsPerDay]
TimeMs(hours, minutes, seconds, millis) ==
    (((((hours * 60) + minutes) * 60) + seconds) * 1000) + millis

\* Mutant of PlainDate: it trusts Date.UTC with every year.
PlainDateAnyYear(text, pos) ==
    LET month == ReadDigits(text, pos + 5, 2)
        day == ReadDigits(text, pos + 8, 2)
    IN  IF ReadDigits(text, pos, 4) < 0 \/ month \notin 1 .. 12 \/ day \notin 1 .. 31 THEN NaN
        ELSE Instant(DateUTC(ReadDigits(text, pos, 4), month, day), 0)

PlainDate(text, pos) ==
    LET year == ReadDigits(text, pos, 4)
        month == ReadDigits(text, pos + 5, 2)
        day == ReadDigits(text, pos + 8, 2)
    IN  IF CharAt(text, pos + 4) # "-" \/ CharAt(text, pos + 7) # "-" THEN NaN
        ELSE IF year < 100 \/ month \notin 1 .. 12 \/ day \notin 1 .. 31 THEN NaN
        ELSE Instant(DateUTC(year, month, day), 0)

\* The minutes of the time zone that is the rest of the text from pos on.
PlainZone(text, pos) ==
    LET minutesAt == IF CharAt(text, pos + 3) = ":" THEN pos + 4 ELSE pos + 3
        short == pos + 3 = Len(text)
        hours == ReadDigits(text, pos + 1, 2)
        minutes == IF short THEN 0 ELSE ReadDigits(text, minutesAt, 2)
    IN  IF pos = Len(text) THEN [valid |-> TRUE, minutes |-> 0]
        ELSE IF CharAt(text, pos) \notin {"+", "-"} THEN NaN
        ELSE IF ~short /\ minutesAt + 2 # Len(text) THEN NaN
        ELSE IF hours \notin 0 .. 23 \/ minutes \notin 0 .. 59 THEN NaN
        ELSE [valid |-> TRUE,
              minutes |-> ((hours * 60) + minutes) * (IF CharAt(text, pos) = "+" THEN 1 ELSE -1)]

PlainTimestamp(text) ==
    LET date == PlainDate(text, 0)
        hours == ReadDigits(text, 11, 2)
        minutes == ReadDigits(text, 14, 2)
        seconds == ReadDigits(text, 17, 2)
        pos == IF CharAt(text, 19) # "." THEN 19
               ELSE Min({p \in 20 .. Len(text) : ~IsDigit(CharAt(text, p))})
        millis == Fraction(Slice(text, 20, pos), 3)
        zone == PlainZone(text, pos)
    IN  IF Len(text) < 19 THEN NaN
        ELSE IF CharAt(text, 10) \notin {Blank, "T"} THEN NaN
        ELSE IF CharAt(text, 13) # ":" \/ CharAt(text, 16) # ":" THEN NaN
        ELSE IF ~date.valid \/ hours \notin 0 .. 23 \/ minutes \notin 0 .. 59
                \/ seconds \notin 0 .. 59 THEN NaN
        ELSE IF pos = 20 \/ ~zone.valid THEN NaN
        ELSE Instant(date.day, TimeMs(hours, minutes, seconds, millis) - (zone.minutes * MsPerMinute))

\* The general parser: a regular expression takes the text apart.  A shape has a
\* nine in the place of every digit.
Shape(text) == [i \in DOMAIN text |-> IF IsDigit(text[i]) THEN "9" ELSE text[i]]
DateShape == <<"9", "9", "9", "9", "-", "9", "9", "-", "9", "9">>
TimeShape == <<"9", "9", ":", "9", "9", ":", "9", "9">>
ZoneShapes == {<<>>} \cup
    UNION {{<<s, "9", "9">>, <<s, "9", "9", "9", "9">>, <<s, "9", "9", ":", "9", "9">>} :
           s \in {"+", "-"}}
IsFraction(text) ==
    text = <<>> \/ (Len(text) > 1 /\ text[1] = "." /\ \A i \in 2 .. Len(text) : IsDigit(text[i]))

\* The parts of a text without blanks around it that the expression matches.
Matched(text) ==
    LET ends == {e \in 19 .. Len(text) :
                    IsFraction(Slice(text, 19, e)) /\ Shape(Slice(text, e, Len(text))) \in ZoneShapes}
        zone == Slice(text, Min(ends), Len(text))
    IN  IF Shape(text) = DateShape
        THEN [valid |-> TRUE, date |-> text, time |-> <<>>, fraction |-> <<>>, zone |-> <<>>]
        ELSE IF Shape(Slice(text, 0, 10)) # DateShape \/ CharAt(text, 10) \notin {Blank, "T"}
                \/ Shape(Slice(text, 11, 19)) # TimeShape \/ ends = {} THEN NaN
        ELSE [valid |-> TRUE, date |-> Slice(text, 0, 10), time |-> Slice(text, 11, 19),
              fraction |-> Slice(text, 20, Min(ends)), zone |-> zone]

\* The fields of the parts; a zone without minutes has less than four characters.
TwoAt(part, pos) == IF part = <<>> THEN 0 ELSE NumberIn(Slice(part, pos, pos + 2))
ZoneHours(zone) == TwoAt(zone, 1)
ZoneMinutes(zone) == IF Len(zone) < 4 THEN 0 ELSE NumberIn(Slice(zone, Len(zone) - 2, Len(zone)))
ZoneOffset(zone) ==
    LET offset == (ZoneHours(zone) * 60) + ZoneMinutes(zone)
    IN  IF zone # <<>> /\ zone[1] = "-" THEN -offset ELSE offset

\* new Date() of an ISO text, by its fields.
NewDate(year, month, day, hours, minutes, seconds, millis, zone) ==
    LET time == TimeMs(hours, minutes, seconds, millis)
    IN  IF month \notin 1 .. 12 \/ day \notin 1 .. 31 THEN NaN
        ELSE IF minutes > 59 \/ seconds > 59 \/ time > MsPerDay THEN NaN
        ELSE IF ZoneHours(zone) > 23 \/ ZoneMinutes(zone) > 59 THEN NaN
        ELSE Instant(DayNumber(year, month, day), time - (ZoneOffset(zone) * MsPerMinute))
IsoDate(parts) ==
    NewDate(NumberIn(Slice(parts.date, 0, 4)), TwoAt(parts.date, 5), TwoAt(parts.date, 8),
            TwoAt(parts.time, 0), TwoAt(parts.time, 3), TwoAt(parts.time, 6),
            Fraction(parts.fraction, 3), parts.zone)

NormalizeTimestampText(text) ==
    IF Matched(Trim(text)).valid THEN IsoDate(Matched(Trim(text))) ELSE NaN

\* The last resort, new Date() of what is left, is not modelled: NaN.
ParseTimestampText(text) ==
    IF PlainTimestamp(text).valid THEN PlainTimestamp(text) ELSE NormalizeTimestampText(text)

ParseDateText(text) ==
    IF Len(text) = 10 /\ PlainDate(text, 0).valid THEN PlainDate(text, 0)
    ELSE IF Shape(Trim(text)) = DateShape THEN IsoDate(Matched(Trim(text))) ELSE NaN

-----------------------------------------------------------------------------
(* Times and integers as text *)

TimeOf(hours, minutes, seconds, microseconds) ==
    [valid |-> TRUE, hours |-> hours, minutes |-> minutes, seconds |-> seconds,
     microseconds |-> microseconds]

PlainTime(text) ==
    LET digits == Len(text) - 9
        hours == ReadDigits(text, 0, 2)
        minutes == ReadDigits(text, 3, 2)
        seconds == ReadDigits(text, 6, 2)
    IN  IF Len(text) < 8 \/ CharAt(text, 2) # ":" \/ CharAt(text, 5) # ":" THEN NaN
        ELSE IF hours < 0 \/ minutes < 0 \/ seconds < 0 THEN NaN
        ELSE IF Len(text) = 8 THEN TimeOf(hours, minutes, seconds, 0)
        ELSE IF CharAt(text, 8) # "." \/ digits \notin 1 .. 6 \/ ReadDigits(text, 9, digits) < 0 THEN NaN
        ELSE TimeOf(hours, minutes, seconds, Fraction(Slice(text, 9, Len(text)), 6))

\* The part number n of a text that is split at the separator, between the cuts
\* before and behind it, and parseInt of a text without sign.
Cuts(text, separator) == {0, Len(text) + 1} \cup {i \in DOMAIN text : text[i] = separator}
CutAt(cuts, k) == CHOOSE c \in cuts : Cardinality({d \in cuts : d < c}) = k
Part(text, separator, n) ==
    LET cuts == Cuts(text, separator)
    IN  IF Cardinality(cuts) <= n THEN <<>>
        ELSE SubSeq(text, CutAt(cuts, n - 1) + 1, CutAt(cuts, n) - 1)
ParseInt(text) ==
    LET stop == Min({i \in 1 .. Len(text) + 1 : i > Len(text) \/ ~IsDigit(text[i])})
    IN  NumberIn(SubSeq(text, 1, stop - 1))

GeneralTime(text) ==
    LET seconds == Part(text, ":", 3)
        fraction == Part(seconds, ".", 2)
    IN  TimeOf(ParseInt(Part(text, ":", 1)), ParseInt(Part(text, ":", 2)),
               ParseInt(Part(seconds, ".", 1)),
               ParseInt(SubSeq(fraction \o Zeros(6), 1, 6)))

ParseTimeString(text) == IF PlainTime(text).valid THEN PlainTime(text) ELSE GeneralTime(text)

\* A byte of an integer's text, and the sum the slow path makes of any bytes.
Code == [c \in DOMAIN DigitOf \cup {"-", "."} |->
            IF c = "-" THEN -3 ELSE IF c = "." THEN -2 ELSE DigitOf[c]]
SumOfCodes(digits) ==
    LET n[i \in 0 .. Len(digits)] == IF i = 0 THEN 0 ELSE (10 * n[i - 1]) + Code[digits[i]]
    IN  n[Len(digits)]
SlowBigInt(text) ==
    IF text # <<>> /\ text[1] = "-" THEN -SumOfCodes(Tail(text)) ELSE SumOfCodes(text)

\* Short texts are summed up as one Number, if they are digits only.
ParseBigIntFromBuffer(text) ==
    LET minus == text # <<>> /\ text[1] = "-"
        digits == IF minus THEN Tail(text) ELSE text
    IN  IF Len(text) <= NumberDigits + 1 /\ Len(digits) <= NumberDigits
           /\ \A i \in DOMAIN digits : IsDigit(digits[i])
        THEN IF minus THEN -NumberIn(digits) ELSE NumberIn(digits)
        ELSE SlowBigInt(text)
=============================================================================
