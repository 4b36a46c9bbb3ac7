----------------------------- MODULE Values_proofs -----------------------------
(***************************************************************************)
(* What is proved about the conversions of values: the instant of a         *)
(* timestamp, for words of any width and counts of any size; and that the   *)
(* short ways through the texts of timestamps, dates, times and integers    *)
(* come to what the general ones come to, for every text; and that intervals *)
(* and zones can be put together again from their parts, for every radix.    *)
(*                                                                         *)
(* Nothing here is by induction over a text: what a recursive function does *)
(* wrong it does wrong first at a least position (LeastNat), and there it    *)
(* was right one position before.                                           *)
(***************************************************************************)
EXTENDS Values, SequenceTheorems, FiniteSetTheorems, WellFoundedInduction, TLAPS

-----------------------------------------------------------------------------
(* Counts of microseconds *)

\* Whole ticks may be added before or after the division.
LEMMA WholeTicks ==
    ASSUME NEW m \in Nat \ {0}, NEW a \in Int, NEW x \in Int
    PROVE  ((a * m) + x) \div m = a + (x \div m)
<1> DEFINE q == x \div m
           r == x % m
<1>1. q \in Int /\ r \in 0 .. m - 1 /\ x = (m * q) + r
    BY SMT
<1>2. (a * m) + x = (m * (a + q)) + r
    BY <1>1, SMT
<1>3. a + q \in Int
    BY <1>1
<1> HIDE DEF q, r
<1>4. ((m * (a + q)) + r) \div m = a + q
    BY <1>1, <1>3, SMT
<1> QED
    BY <1>2, <1>4 DEF q

\* The conversion never forms the count of microseconds, whose product leaves the
\* safe integers, and yet floors exactly that count.
THEOREM CountFloored ==
    ASSUME NEW hi \in Int, NEW lo \in Nat
    PROVE  ToDateTimeFrom8Bytes(hi, lo) = ((hi * Word) + lo) \div Milli
<1> DEFINE a == hi * TickQ
           x == (hi * TickR) + lo
<1>1. Milli \in Nat \ {0} /\ TickQ \in Nat /\ TickR \in Nat /\ Word = (TickQ * Milli) + TickR
    BY WordAssumption
<1>2. a \in Int /\ x \in Int
    BY <1>1
<1>3. (hi * Word) + lo = (a * Milli) + x
    BY <1>1, SMT
<1> HIDE DEF a, x
<1>4. ((a * Milli) + x) \div Milli = a + (x \div Milli)
    BY <1>1, <1>2, WholeTicks
<1> QED
    BY <1>3, <1>4 DEF ToDateTimeFrom8Bytes, a, x

\* InstantFloored: every timestamp of every row comes out as the millisecond its
\* microseconds fall into (toDateTimeFrom8Bytes).
THEOREM InstantsAreFloored == Spec => []InstantFloored
<1>1. Init => InstantFloored
    BY DEF Init, InstantFloored, NoCall
<1>2. InstantFloored /\ [Next]_vars => InstantFloored'
  <2> SUFFICES ASSUME InstantFloored, [Next]_vars
               PROVE  InstantFloored'
    OBVIOUS
  <2>1. ASSUME NEW q \in Queries, Query(q) PROVE InstantFloored'
    BY <2>1 DEF Query, InstantFloored
  <2>2. ASSUME NEW n \in Numerics, ReadNumeric(n) PROVE InstantFloored'
    BY <2>2 DEF ReadNumeric, InstantFloored
  <2>3. ASSUME NEW count \in Counts, ReadInstant(count) PROVE InstantFloored'
    <3>1. count.hi \in Int /\ count.lo \in Nat
        BY WordAssumption
    <3> QED
        BY <2>3, <3>1, CountFloored DEF ReadInstant, InstantFloored
  <2>4. ASSUME NEW count \in Counts, NEW months \in Months, ReadInterval(count, months)
        PROVE  InstantFloored'
    BY <2>4 DEF ReadInterval, InstantFloored
  <2>5. ASSUME NEW count \in Counts, NEW zone \in Zones, ReadTimetz(count, zone)
        PROVE  InstantFloored'
    BY <2>5 DEF ReadTimetz, InstantFloored
  <2>6. ASSUME NEW op \in {"timestamp", "date", "time", "integer"}, NEW text, ReadText(op, text)
        PROVE  InstantFloored'
    BY <2>6 DEF ReadText, InstantFloored
  <2>7. ASSUME NEW refusal \in Refusals, ReadRefusal(refusal) PROVE InstantFloored'
    BY <2>7 DEF ReadRefusal, InstantFloored
  <2>8. CASE Return
    BY <2>8 DEF Return, InstantFloored, NoCall
  <2>9. CASE UNCHANGED vars
    BY <2>9 DEF vars, InstantFloored
  <2> QED
    BY <2>1, <2>2, <2>3, <2>4, <2>5, <2>6, <2>7, <2>8, <2>9 DEF Next, Call
<1> QED
    BY <1>1, <1>2, PTL DEF Spec

\* The provers take no theorem with an operator as parameter, but the finite
\* intervals of numbers are ordered well.
LEMMA LeastNat ==
    ASSUME NEW T, T \subseteq Nat, T # {}
    PROVE  \E m \in T : \A k \in T : m <= k
<1> DEFINE W == {0 .. k : k \in T}
           R == StrictSubsetOrdering(Nat)
<1>1. W \subseteq FiniteSubsetsOf(Nat) /\ W # {}
  <2>1. \A k \in T : 0 .. k \in SUBSET Nat /\ IsFiniteSet(0 .. k)
    BY FS_Interval
  <2> QED BY <2>1 DEF FiniteSubsetsOf
<1>2. IsWellFoundedOn(R, FiniteSubsetsOf(Nat))
  BY FS_StrictSubsetOrderingWellFounded
<1>3. PICK x \in W : \A y \in W : ~(<<y, x>> \in R)
  <2> HIDE DEF W, R
  <2> QED BY <1>1, <1>2, WFMin
<1>4. PICK m \in T : x = 0 .. m
  OBVIOUS
<1>5. ASSUME NEW k \in T PROVE m <= k
  <2>1. ~(<<0 .. k, 0 .. m>> \in R)
    BY <1>3, <1>4
  <2>2. 0 .. k \in SUBSET Nat /\ 0 .. m \in SUBSET Nat
    OBVIOUS
  <2>3. ~(0 .. k \subseteq 0 .. m /\ 0 .. k # 0 .. m)
    BY <2>1, <2>2 DEF StrictSubsetOrdering
  <2>4. k < m => 0 .. k \subseteq 0 .. m /\ m \in 0 .. m /\ m \notin 0 .. k
    OBVIOUS
  <2> QED BY <2>3, <2>4
<1> QED BY <1>5

-----------------------------------------------------------------------------
(* Digits and the numbers they write *)

Digit == DOMAIN DigitOf

\* The ten digits, and the numbers they stand for.
LEMMA DigitsAre ==
    /\ Digit = {"0", "1", "2", "3", "4", "5", "6", "7", "8", "9"}
    /\ \A c \in Digit : DigitOf[c] \in 0 .. 9
    /\ DigitOf["0"] = 0
<1> DEFINE C == {"0", "1", "2", "3", "4", "5", "6", "7", "8", "9"}
<1>1. ToSet(Characters) = C
  <2>1. DOMAIN Characters = 1 .. 10
    BY DEF Characters
  <2>2. /\ Characters[1] = "0" /\ Characters[2] = "1" /\ Characters[3] = "2" /\ Characters[4] = "3"
        /\ Characters[5] = "4" /\ Characters[6] = "5" /\ Characters[7] = "6" /\ Characters[8] = "7"
        /\ Characters[9] = "8" /\ Characters[10] = "9"
    BY DEF Characters
  <2>3. 1 .. 10 = {1, 2, 3, 4, 5, 6, 7, 8, 9, 10}
    OBVIOUS
  <2> HIDE DEF Characters
  <2>4. ToSet(Characters) = {Characters[i] : i \in {1, 2, 3, 4, 5, 6, 7, 8, 9, 10}}
    BY <2>1, <2>3 DEF ToSet
  <2>5. ASSUME NEW c PROVE c \in ToSet(Characters) <=> c \in C
    BY <2>2, <2>4, SMTT(30)
  <2> HIDE DEF C
  <2> QED BY <2>5
<1>2. Digit = C
  BY <1>1 DEF Digit, DigitOf
<1>3. ASSUME NEW c \in C PROVE DigitOf[c] \in 0 .. 9 /\ Characters[DigitOf[c] + 1] = c
  <2>1. DigitOf[c] = CHOOSE n \in 0 .. 9 : Characters[n + 1] = c
    BY <1>1, <1>3 DEF DigitOf
  <2>2. \E n \in 0 .. 9 : Characters[n + 1] = c
    BY <1>3 DEF Characters
  <2> HIDE DEF Characters
  <2> QED BY <2>1, <2>2
<1>4. DigitOf["0"] = 0
  <2>1. DigitOf["0"] \in 0 .. 9 /\ Characters[DigitOf["0"] + 1] = "0"
    BY <1>3, Zenon
  <2> HIDE DEF DigitOf
  <2> QED BY <2>1 DEF Characters
<1> QED BY <1>2, <1>3, <1>4

\* The sums of the digits up to each one.
Sums(digits, f) == [i \in 0 .. Len(digits) |-> IF i = 0 THEN 0 ELSE (10 * f[i - 1]) + DigitOf[digits[i]]]

\* There are such sums, and the last one is the number that is written.
LEMMA SumsDefined ==
    ASSUME NEW digits \in Seq(Digit)
    PROVE  \E f : f = Sums(digits, f) /\ NumberIn(digits) = f[Len(digits)]
<1> DEFINE size == Len(digits)
           V(f, j) == IF j = 0 THEN 0 ELSE (10 * f[j - 1]) + DigitOf[digits[j]]
           Solves(f, k) == f = [j \in 0 .. k |-> V(f, j)]
           T == {k \in 0 .. size : \A f : ~Solves(f, k)}
<1>0. size \in Nat
  BY LenProperties
<1> HIDE DEF size
<1>1. ASSUME T # {} PROVE FALSE
  <2>1. PICK m \in T : \A k \in T : m <= k
    <3>1. T \subseteq Nat
      OBVIOUS
    <3> HIDE DEF T
    <3> QED BY <1>1, <3>1, LeastNat
  <2>2. m \in Nat /\ m <= size /\ \A f : ~Solves(f, m)
    BY <1>0, <2>1, SMTT(30)
  <2>3. PICK f : f = [j \in 0 .. m - 1 |-> V(f, j)]
    <3>1. CASE m = 0
      <4>1. 0 .. m - 1 = {}
        BY <3>1
      <4>2. [j \in {} |-> 0] = [j \in {} |-> V([i \in {} |-> 0], j)]
        OBVIOUS
      <4> QED BY <4>1, <4>2
    <3>2. CASE m > 0
      <4>1. m - 1 \in 0 .. size /\ ~(m <= m - 1)
        BY <1>0, <2>2, <3>2
      <4> QED BY <2>1, <4>1
    <3> QED BY <2>2, <3>1, <3>2
  <2> DEFINE g == [j \in 0 .. m |-> IF j = m THEN V(f, j) ELSE f[j]]
  <2>4. ASSUME NEW j \in 0 .. m PROVE g[j] = V(g, j)
    <3>1. g[j] = V(f, j)
      <4>1. j # m => j \in 0 .. m - 1
        BY <2>2
      <4>2. j # m => f[j] = V(f, j)
        <5> HIDE DEF V
        <5> QED BY <2>3, <4>1, Zenon
      <4> HIDE DEF V
      <4> QED BY <4>2
    <3>2. j # 0 => f[j - 1] = g[j - 1]
      <4> HIDE DEF V
      <4>1. j # 0 => j - 1 \in 0 .. m /\ j - 1 # m
        BY <2>2
      <4> QED BY <4>1
    <3> HIDE DEF g
    <3>3. V(f, j) = V(g, j)
      BY <3>2
    <3> HIDE DEF V
    <3> QED BY <3>1, <3>3
  <2>5. Solves(g, m)
    <3>1. g = [j \in 0 .. m |-> g[j]]
      OBVIOUS
    <3> HIDE DEF g, V
    <3> QED BY <2>4, <3>1
  <2> QED BY <2>2, <2>5
<1>2. \E f : Solves(f, size)
  <2>1. size \in 0 .. size
    BY <1>0
  <2> HIDE DEF Solves
  <2> QED BY <1>1, <2>1
<1> DEFINE f == CHOOSE f : Solves(f, size)
<1>3. NumberIn(digits) = f[size]
  BY DEF NumberIn, size
<1> HIDE DEF Solves
<1>4. Solves(f, size)
  BY <1>2
<1> HIDE DEF f
<1>5. f = Sums(digits, f)
  BY <1>4 DEF Solves, Sums, size
<1> QED BY <1>3, <1>5 DEF size

\* Digits write a natural number.
LEMMA NumberTyped ==
    ASSUME NEW digits \in Seq(Digit)
    PROVE  NumberIn(digits) \in Nat
<1>1. PICK f : f = Sums(digits, f) /\ NumberIn(digits) = f[Len(digits)]
  BY SumsDefined
<1> DEFINE T == {k \in 0 .. Len(digits) : f[k] \notin Nat}
<1>2. ASSUME T # {} PROVE FALSE
  <2>1. PICK m \in T : \A k \in T : m <= k
    <3>1. T \subseteq Nat
      OBVIOUS
    <3> HIDE DEF T
    <3> QED BY <1>2, <3>1, LeastNat
  <2>2. m \in 0 .. Len(digits) /\ f[m] \notin Nat
    BY <2>1
  <2>3. f[m] = IF m = 0 THEN 0 ELSE (10 * f[m - 1]) + DigitOf[digits[m]]
    BY <1>1, <2>2, Zenon DEF Sums
  <2>4. m # 0 => m - 1 \in 0 .. Len(digits) /\ ~(m <= m - 1) /\ digits[m] \in Digit
    BY <2>2
  <2>5. m # 0 => f[m - 1] \in Nat
    BY <2>1, <2>4
  <2>6. m # 0 => DigitOf[digits[m]] \in Nat
    <3> HIDE DEF T
    <3> QED BY <2>4, DigitsAre, SMTT(30)
  <2> HIDE DEF T
  <2> QED BY <2>2, <2>3, <2>5, <2>6
<1>3. Len(digits) \in 0 .. Len(digits)
  BY LenProperties
<1> QED BY <1>1, <1>2, <1>3

\* Zeros write zero, and three digits less than a thousand.
LEMMA ZerosWriteZero ==
    ASSUME NEW digits \in Seq(Digit), \A i \in 1 .. Len(digits) : digits[i] = "0"
    PROVE  NumberIn(digits) = 0
<1>1. PICK f : f = Sums(digits, f) /\ NumberIn(digits) = f[Len(digits)]
  BY SumsDefined
<1> DEFINE T == {k \in 0 .. Len(digits) : f[k] # 0}
<1>2. ASSUME T # {} PROVE FALSE
  <2>1. PICK m \in T : \A k \in T : m <= k
    <3>1. T \subseteq Nat
      OBVIOUS
    <3> HIDE DEF T
    <3> QED BY <1>2, <3>1, LeastNat
  <2>2. m \in 0 .. Len(digits) /\ f[m] # 0
    BY <2>1
  <2>3. f[m] = IF m = 0 THEN 0 ELSE (10 * f[m - 1]) + DigitOf[digits[m]]
    BY <1>1, <2>2, Zenon DEF Sums
  <2>4. m # 0 => m - 1 \in 0 .. Len(digits) /\ ~(m <= m - 1) /\ digits[m] = "0"
    BY <2>2
  <2>5. m # 0 => f[m - 1] = 0
    BY <2>1, <2>4
  <2>6. m # 0 => DigitOf[digits[m]] = 0
    BY <2>4, DigitsAre, Zenon
  <2> HIDE DEF T
  <2> QED BY <2>2, <2>3, <2>5, <2>6
<1>3. Len(digits) \in 0 .. Len(digits)
  BY LenProperties
<1> QED BY <1>1, <1>2, <1>3

Millis == 0 .. 999

\* Three digits write less than a thousand.
LEMMA ThreeDigits ==
    ASSUME NEW digits \in Seq(Digit), Len(digits) = 3
    PROVE  NumberIn(digits) \in Millis
<1>1. PICK f : f = Sums(digits, f) /\ NumberIn(digits) = f[3]
  BY SumsDefined
<1>2. \A i \in 1 .. 3 : DigitOf[digits[i]] \in 0 .. 9
  BY DigitsAre, ElementOfSeq
<1>3. \A i \in 0 .. 3 : f[i] = IF i = 0 THEN 0 ELSE (10 * f[i - 1]) + DigitOf[digits[i]]
  BY <1>1, Zenon DEF Sums
<1>4. f[0] = 0 /\ f[1] = (10 * f[0]) + DigitOf[digits[1]] /\ f[2] = (10 * f[1]) + DigitOf[digits[2]]
      /\ f[3] = (10 * f[2]) + DigitOf[digits[3]]
  <2>1. 0 \in 0 .. 3 /\ 1 \in 0 .. 3 /\ 2 \in 0 .. 3 /\ 3 \in 0 .. 3 /\ 1 - 1 = 0 /\ 2 - 1 = 1 /\ 3 - 1 = 2
        /\ 1 # 0 /\ 2 # 0 /\ 3 # 0
    OBVIOUS
  <2> QED BY <1>3, <2>1
<1>5. DigitOf[digits[1]] \in 0 .. 9 /\ DigitOf[digits[2]] \in 0 .. 9 /\ DigitOf[digits[3]] \in 0 .. 9
  BY <1>2
<1> DEFINE x == DigitOf[digits[1]]
           y == DigitOf[digits[2]]
           z == DigitOf[digits[3]]
<1>6. f[3] = (10 * ((10 * ((10 * 0) + x)) + y)) + z
  BY <1>4
<1>7. x \in 0 .. 9 /\ y \in 0 .. 9 /\ z \in 0 .. 9
  BY <1>5
<1> HIDE DEF x, y, z
<1>8. (10 * ((10 * ((10 * 0) + x)) + y)) + z \in 0 .. 999
  BY <1>7
<1> QED BY <1>1, <1>6, <1>8 DEF Millis

-----------------------------------------------------------------------------
(* Pieces of a text *)

IsPiece(s, S, text, from, to) ==
    /\ s \in Seq(S) /\ Len(s) = to - from
    /\ \A k \in 1 .. to - from : s[k] = text[from + k]

\* A slice within a text, character by character.
LEMMA SliceIs ==
    ASSUME NEW S, NEW text \in Seq(S), NEW from \in Nat, NEW to \in Nat, from <= to, to <= Len(text)
    PROVE  /\ Slice(text, from, to) = SubSeq(text, from + 1, to)
           /\ IsPiece(Slice(text, from, to), S, text, from, to)
<1>0. Len(text) \in Nat
  BY LenProperties
<1>1. Min({to, Len(text)}) = to
  BY <1>0 DEF Min
<1>2. Slice(text, from, to) = SubSeq(text, from + 1, to)
  BY <1>1 DEF Slice
<1>3. \A i \in from + 1 .. to : text[i] \in S
  BY <1>0, ElementOfSeq
<1>4. /\ SubSeq(text, from + 1, to) \in Seq(S)
      /\ Len(SubSeq(text, from + 1, to)) = IF from + 1 <= to THEN to - (from + 1) + 1 ELSE 0
      /\ \A i \in 1 .. to - (from + 1) + 1 : SubSeq(text, from + 1, to)[i] = text[(from + 1) + i - 1]
  BY <1>3, SubSeqProperties
<1>5. \A k \in 1 .. to - from : k \in 1 .. to - (from + 1) + 1 /\ (from + 1) + k - 1 = from + k
  OBVIOUS
<1>6. (IF from + 1 <= to THEN to - (from + 1) + 1 ELSE 0) = to - from
  OBVIOUS
<1> QED BY <1>2, <1>4, <1>5, <1>6, Zenon DEF IsPiece

\* A piece of a piece.
LEMMA SliceOfSlice ==
    ASSUME NEW S, NEW text \in Seq(S), NEW a \in Nat, NEW b \in Nat, NEW c \in Nat, NEW d \in Nat,
           b <= Len(text), c <= d, a + d <= b
    PROVE  Slice(Slice(text, a, b), c, d) = Slice(text, a + c, a + d)
<1> DEFINE s == Slice(text, a, b)
           t == Slice(s, c, d)
           u == Slice(text, a + c, a + d)
<1>0. Len(text) \in Nat /\ a <= b /\ a + c \in Nat /\ a + d \in Nat /\ a + c <= a + d /\ a + d <= Len(text)
  BY LenProperties
<1>1. s \in Seq(S) /\ Len(s) = b - a /\ \A k \in 1 .. b - a : s[k] = text[a + k]
  <2>1. IsPiece(s, S, text, a, b)
    BY <1>0, SliceIs
  <2> QED BY <2>1 DEF IsPiece
<1>2. u \in Seq(S) /\ Len(u) = (a + d) - (a + c) /\ \A k \in 1 .. (a + d) - (a + c) : u[k] = text[(a + c) + k]
  <2>1. IsPiece(u, S, text, a + c, a + d)
    BY <1>0, SliceIs
  <2> QED BY <2>1 DEF IsPiece
<1> HIDE DEF s, u
<1>3. d <= Len(s)
  BY <1>1
<1>4. t \in Seq(S) /\ Len(t) = d - c /\ \A k \in 1 .. d - c : t[k] = s[c + k]
  <2>1. IsPiece(t, S, s, c, d)
    BY <1>1, <1>3, SliceIs
  <2> QED BY <2>1 DEF IsPiece
<1> HIDE DEF t
<1>5. Len(t) = Len(u) /\ (a + d) - (a + c) = d - c
  BY <1>2, <1>4
<1>6. ASSUME NEW k \in 1 .. Len(t) PROVE t[k] = u[k]
  <2>1. k \in 1 .. d - c /\ c + k \in 1 .. b - a /\ a + (c + k) = (a + c) + k
    BY <1>0, <1>4
  <2> QED BY <1>1, <1>2, <1>4, <1>5, <2>1
<1>7. t = u
  BY <1>2, <1>4, <1>5, <1>6, SeqEqual
<1> QED BY <1>7 DEF s, t, u

\* The slice that is all of a text.
LEMMA WholeSlice ==
    ASSUME NEW S, NEW text \in Seq(S)
    PROVE  Slice(text, 0, Len(text)) = text
<1>1. Len(text) \in Nat
  BY LenProperties
<1>2. Slice(text, 0, Len(text)) = SubSeq(text, 0 + 1, Len(text))
  <2>1. 0 \in Nat /\ 0 <= Len(text) /\ Len(text) <= Len(text)
    BY <1>1
  <2> QED BY <1>1, <2>1, SliceIs, Zenon
<1>3. 0 + 1 = 1
  OBVIOUS
<1> QED BY <1>2, <1>3, SubSeqFull

\* What has been read of digits.
LEMMA DigitsRead ==
    ASSUME NEW S, NEW text \in Seq(S), NEW pos \in Nat, NEW len \in Nat, ReadDigits(text, pos, len) # -1
    PROVE  /\ pos + len <= Len(text)
           /\ \A i \in pos + 1 .. pos + len : text[i] \in Digit
           /\ Slice(text, pos, pos + len) \in Seq(Digit)
           /\ ReadDigits(text, pos, len) = NumberIn(Slice(text, pos, pos + len))
           /\ ReadDigits(text, pos, len) \in Nat
<1>0. Len(text) \in Nat
  BY LenProperties
<1>1. /\ pos + len <= Len(text) /\ \A i \in pos .. pos + len - 1 : IsDigit(CharAt(text, i))
      /\ ReadDigits(text, pos, len) = NumberIn(Slice(text, pos, pos + len))
  BY DEF ReadDigits
<1>2. ASSUME NEW i \in pos + 1 .. pos + len PROVE text[i] \in Digit
  <2>1. i - 1 \in pos .. pos + len - 1 /\ i - 1 < Len(text) /\ (i - 1) + 1 = i
    BY <1>0, <1>1
  <2>2. IsDigit(CharAt(text, i - 1)) /\ CharAt(text, i - 1) = text[i]
    BY <1>1, <2>1 DEF CharAt
  <2> QED BY <2>2 DEF IsDigit, Digit
<1> DEFINE s == Slice(text, pos, pos + len)
<1>3. s \in Seq(S) /\ Len(s) = len /\ \A k \in 1 .. len : s[k] = text[pos + k]
  <2>1. pos + len \in Nat /\ pos <= pos + len /\ (pos + len) - pos = len
    OBVIOUS
  <2>2. IsPiece(s, S, text, pos, pos + len)
    BY <1>1, <2>1, SliceIs
  <2> QED BY <2>1, <2>2 DEF IsPiece
<1> HIDE DEF s
<1>4. \A k \in 1 .. len : s[k] \in Digit
  BY <1>2, <1>3
<1>5. s \in Seq(Digit)
  BY <1>3, <1>4, SMTT(30)
<1> QED BY <1>1, <1>2, <1>5, NumberTyped DEF s

\* The shape of a text, and what is no digit in one.
LEMMA ShapeIs ==
    ASSUME NEW S, NEW text \in Seq(S)
    PROVE  /\ Shape(text) = [i \in 1 .. Len(text) |-> IF text[i] \in Digit THEN "9" ELSE text[i]]
           /\ Len(text) \in Nat
<1>1. DOMAIN text = 1 .. Len(text) /\ Len(text) \in Nat
  BY LenProperties
<1> QED BY <1>1 DEF Shape, IsDigit, Digit

\* What no digit is.
LEMMA NoDigits ==
    /\ "-" \notin Digit /\ ":" \notin Digit /\ "." \notin Digit /\ Blank \notin Digit /\ "T" \notin Digit
    /\ "+" \notin Digit /\ "none" \notin Digit
<1>1. /\ "-" \notin Digit /\ ":" \notin Digit /\ "." \notin Digit /\ "T" \notin Digit
      /\ "+" \notin Digit /\ "none" \notin Digit
  BY DigitsAre
<1>2. Blank \notin Digit
  BY DigitsAre, Zenon DEF Blank
<1> QED BY <1>1, <1>2

\* A text that begins with a date.
DateText(text) ==
    /\ Len(text) >= 10
    /\ text[1] \in Digit /\ text[2] \in Digit /\ text[3] \in Digit /\ text[4] \in Digit /\ text[5] = "-"
    /\ text[6] \in Digit /\ text[7] \in Digit /\ text[8] = "-" /\ text[9] \in Digit /\ text[10] \in Digit

\* The expression takes such a text for a date.
LEMMA ShapedDate ==
    ASSUME NEW S, NEW text \in Seq(S), DateText(text), Len(text) = 10
    PROVE  Shape(text) = DateShape
<1>1. Shape(text) = [i \in 1 .. 10 |-> IF text[i] \in Digit THEN "9" ELSE text[i]]
  BY ShapeIs
<1>2. DateShape = [i \in 1 .. 10 |-> DateShape[i]]
  BY DEF DateShape
<1>3. ASSUME NEW i \in 1 .. 10 PROVE (IF text[i] \in Digit THEN "9" ELSE text[i]) = DateShape[i]
  <2>1. i = 1 \/ i = 2 \/ i = 3 \/ i = 4 \/ i = 5 \/ i = 6 \/ i = 7 \/ i = 8 \/ i = 9 \/ i = 10
    BY <1>3
  <2>2. DateShape[i] = IF i = 5 \/ i = 8 THEN "-" ELSE "9"
    BY <2>1 DEF DateShape
  <2>4. i = 5 \/ i = 8 => text[i] = "-" /\ text[i] \notin Digit
    BY NoDigits DEF DateText
  <2>5. i # 5 /\ i # 8 => text[i] \in Digit
    BY <2>1 DEF DateText
  <2> QED BY <2>2, <2>4, <2>5
<1> HIDE DEF DateShape
<1> QED BY <1>1, <1>2, <1>3

YearOf(text) == NumberIn(Slice(text, 0, 4))
MonthOf(text) == NumberIn(Slice(text, 5, 7))
DayOf(text) == NumberIn(Slice(text, 8, 10))

\* The calendar counts whole days.
LEMMA DayNumberTyped ==
    ASSUME NEW y \in Int, NEW m \in Int, NEW d \in Int
    PROVE  DayNumber(y, m, d) \in Int
<1> DEFINE a == (14 - m) \div 12
<1>1. a \in Int
  OBVIOUS
<1> HIDE DEF a
<1> DEFINE yy == (y + 4800) - a
           mm == (m + (12 * a)) - 3
<1>2. yy \in Int /\ mm \in Int
  BY <1>1
<1>3. DayNumber(y, m, d) =
        ((((d + (((153 * mm) + 2) \div 5)) + (365 * yy)) + (yy \div 4)) - (yy \div 100)) + (yy \div 400)
  BY DEF DayNumber, a
<1> HIDE DEF yy, mm
<1>4. (((153 * mm) + 2) \div 5) \in Int /\ (yy \div 4) \in Int /\ (yy \div 100) \in Int /\ (yy \div 400) \in Int
  BY <1>2
<1> QED BY <1>2, <1>3, <1>4

\* What the short way makes of a date, if anything.
LEMMA PlainDateIs ==
    ASSUME NEW S, NEW text \in Seq(S), PlainDate(text, 0).valid
    PROVE  /\ DateText(text) /\ YearOf(text) \in Nat /\ YearOf(text) >= 100
           /\ MonthOf(text) \in 1 .. 12 /\ DayOf(text) \in 1 .. 31
           /\ PlainDate(text, 0) = Instant(DayNumber(YearOf(text), MonthOf(text), DayOf(text)), 0)
<1> DEFINE y == ReadDigits(text, 0, 4)
           m == ReadDigits(text, 0 + 5, 2)
           d == ReadDigits(text, 0 + 8, 2)
<1>0. Len(text) \in Nat
  BY LenProperties
<1>1. /\ CharAt(text, 0 + 4) = "-" /\ CharAt(text, 0 + 7) = "-"
      /\ ~(y < 100) /\ m \in 1 .. 12 /\ d \in 1 .. 31
      /\ PlainDate(text, 0) = Instant(DateUTC(y, m, d), 0)
  <2>1. ~NaN.valid
    BY DEF NaN
  <2> HIDE DEF y, m, d
  <2>2. PlainDate(text, 0) =
          IF CharAt(text, 0 + 4) # "-" \/ CharAt(text, 0 + 7) # "-" THEN NaN
          ELSE IF y < 100 \/ m \notin 1 .. 12 \/ d \notin 1 .. 31 THEN NaN
          ELSE Instant(DateUTC(y, m, d), 0)
    BY DEF PlainDate, y, m, d
  <2> HIDE DEF PlainDate, NaN
  <2> QED BY <2>1, <2>2
<1>2. y # -1 /\ m # -1 /\ d # -1
  <2> HIDE DEF y, m, d
  <2> QED BY <1>1
<1>3. /\ 0 + 4 <= Len(text) /\ \A i \in 0 + 1 .. 0 + 4 : text[i] \in Digit
      /\ y = NumberIn(Slice(text, 0, 0 + 4)) /\ y \in Nat
  BY <1>2, DigitsRead
<1>4. /\ 5 + 2 <= Len(text) /\ \A i \in 5 + 1 .. 5 + 2 : text[i] \in Digit
      /\ m = NumberIn(Slice(text, 5, 5 + 2))
  <2>1. 0 + 5 = 5 /\ 5 \in Nat /\ 2 \in Nat
    OBVIOUS
  <2> QED BY <1>2, <2>1, DigitsRead
<1>5. /\ 8 + 2 <= Len(text) /\ \A i \in 8 + 1 .. 8 + 2 : text[i] \in Digit
      /\ d = NumberIn(Slice(text, 8, 8 + 2))
  <2>1. 0 + 8 = 8 /\ 8 \in Nat /\ 2 \in Nat
    OBVIOUS
  <2> QED BY <1>2, <2>1, DigitsRead
<1>6. y = YearOf(text) /\ m = MonthOf(text) /\ d = DayOf(text)
  <2>1. 0 + 4 = 4 /\ 5 + 2 = 7 /\ 8 + 2 = 10
    OBVIOUS
  <2> HIDE DEF y, m, d
  <2> QED BY <1>3, <1>4, <1>5, <2>1 DEF YearOf, MonthOf, DayOf
<1> HIDE DEF y, m, d
<1>7. text[5] = "-" /\ text[8] = "-"
  <2>1. 0 + 4 < Len(text) /\ 0 + 7 < Len(text) /\ (0 + 4) + 1 = 5 /\ (0 + 7) + 1 = 8
    BY <1>0, <1>5
  <2> QED BY <1>1, <2>1 DEF CharAt
<1>8. DateText(text)
  BY <1>0, <1>3, <1>4, <1>5, <1>7 DEF DateText
<1>9. DateUTC(y, m, d) = DayNumber(y, m, d)
  BY <1>1 DEF DateUTC
<1> QED BY <1>1, <1>3, <1>6, <1>8, <1>9

\* A date has no blanks around it.
LEMMA TrimKeeps ==
    ASSUME NEW S, NEW text \in Seq(S), Len(text) > 0, text[1] # Blank, text[Len(text)] # Blank
    PROVE  Trim(text) = text
<1> DEFINE n == Len(text)
           kept == {i \in 1 .. n : text[i] # Blank}
<1>0. n \in Nat /\ DOMAIN text = 1 .. n /\ n > 0
  BY LenProperties
<1> HIDE DEF n
<1>1. 1 \in kept /\ n \in kept /\ kept \subseteq 1 .. n
  BY <1>0 DEF n
<1> HIDE DEF kept
<1>2. Min(kept) = 1
  <2>1. \A y \in kept : 1 <= y
    BY <1>0, <1>1
  <2>2. Min(kept) \in kept /\ \A y \in kept : Min(kept) <= y
    BY <1>1, <2>1, Zenon DEF Min
  <2>3. Min(kept) \in 1 .. n /\ 1 <= Min(kept) /\ Min(kept) <= 1
    BY <1>1, <2>1, <2>2, Zenon
  <2> QED BY <1>0, <2>3
<1>3. Max(kept) = n
  <2>1. \A y \in kept : n >= y
    BY <1>0, <1>1
  <2>2. Max(kept) \in kept /\ \A y \in kept : Max(kept) >= y
    BY <1>1, <2>1, Zenon DEF Max
  <2>3. Max(kept) \in 1 .. n /\ Max(kept) >= n /\ n >= Max(kept)
    BY <1>1, <2>1, <2>2, Zenon
  <2> QED BY <1>0, <2>3
<1>4. Trim(text) = IF kept = {} THEN <<>> ELSE SubSeq(text, Min(kept), Max(kept))
  BY <1>0 DEF Trim, kept
<1>5. Trim(text) = SubSeq(text, 1, Len(text))
  BY <1>1, <1>2, <1>3, <1>4 DEF n
<1> QED BY <1>5, SubSeqFull

\* An instant of a whole day.
LEMMA InstantIs ==
    ASSUME NEW day \in Int
    PROVE  Instant(day, 0) = [valid |-> TRUE, day |-> day, ms |-> 0]
<1>1. 0 \div MsPerDay = 0 /\ 0 % MsPerDay = 0
  BY DEF MsPerDay
<1>2. Instant(day, 0) = [valid |-> TRUE, day |-> day + (0 \div MsPerDay), ms |-> 0 % MsPerDay]
  BY DEF Instant
<1>3. day + 0 = day
  OBVIOUS
<1> QED BY <1>1, <1>2, <1>3, Zenon

\* Plain dates: the general way comes to the same day.
LEMMA DatesAgree ==
    ASSUME NEW S, NEW text \in Seq(S)
    PROVE  ParseDateText(text) =
            IF Shape(Trim(text)) = DateShape THEN NormalizeTimestampText(text) ELSE NaN
<1>1. CASE ~(Len(text) = 10 /\ PlainDate(text, 0).valid)
  <2>1. ParseDateText(text) = IF Shape(Trim(text)) = DateShape THEN IsoDate(Matched(Trim(text))) ELSE NaN
    BY <1>1 DEF ParseDateText
  <2>2. Shape(Trim(text)) = DateShape => Matched(Trim(text)).valid
    BY DEF Matched
  <2> QED BY <2>1, <2>2 DEF NormalizeTimestampText
<1>2. CASE Len(text) = 10 /\ PlainDate(text, 0).valid
  <2> DEFINE y == YearOf(text)
             m == MonthOf(text)
             d == DayOf(text)
             parts == Matched(text)
  <2>1. /\ DateText(text) /\ y \in Nat /\ y >= 100 /\ m \in 1 .. 12 /\ d \in 1 .. 31
        /\ PlainDate(text, 0) = Instant(DayNumber(y, m, d), 0)
    BY <1>2, PlainDateIs
  <2>2. Shape(text) = DateShape
    BY <1>2, <2>1, ShapedDate
  <2>3. Trim(text) = text
    <3>1. text[1] # Blank /\ text[10] # Blank
      BY <2>1, NoDigits DEF DateText
    <3>2. Len(text) > 0 /\ text[Len(text)] # Blank
      BY <1>2, <3>1
    <3> QED BY <3>1, <3>2, TrimKeeps
  <2>4. /\ parts.valid /\ parts.date = text /\ parts.time = <<>> /\ parts.fraction = <<>> /\ parts.zone = <<>>
    BY <2>2 DEF Matched
  <2>5. ParseDateText(text) = Instant(DayNumber(y, m, d), 0)
    BY <1>2, <2>1 DEF ParseDateText
  <2>6. NormalizeTimestampText(text) = IsoDate(parts)
    BY <2>3, <2>4 DEF NormalizeTimestampText
  <2>7. Fraction(<<>>, 3) = 0
    <3>1. Zeros(3) \in Seq(Digit) /\ Len(Zeros(3)) = 3 /\ \A i \in 1 .. 3 : Zeros(3)[i] = "0"
      BY DigitsAre DEF Zeros
    <3>2. <<>> \o Zeros(3) = Zeros(3)
      BY <3>1, ConcatEmptySeq
    <3>3. SubSeq(Zeros(3), 1, 3) = Zeros(3)
      BY <3>1, SubSeqFull
    <3>4. NumberIn(Zeros(3)) = 0
      BY <3>1, ZerosWriteZero
    <3> QED BY <3>2, <3>3, <3>4 DEF Fraction
  <2>8. TimeMs(0, 0, 0, 0) = 0
    BY DEF TimeMs
  <2>9. IsoDate(parts) = Instant(DayNumber(y, m, d), 0)
    <3> HIDE DEF parts, y, m, d
    <3>1. text # <<>>
      <4>1. Len(<<>>) = 0 /\ 10 # 0
        BY EmptySeq
      <4> QED BY <1>2, <4>1, Zenon
    <3>2. TwoAt(text, 5) = m /\ TwoAt(text, 8) = d /\ NumberIn(Slice(text, 0, 4)) = y
      BY <3>1 DEF y, m, d, YearOf, MonthOf, DayOf, TwoAt
    <3>3. TwoAt(<<>>, 0) = 0 /\ TwoAt(<<>>, 3) = 0 /\ TwoAt(<<>>, 6) = 0
      BY DEF TwoAt
    <3>4. IsoDate(parts) = NewDate(y, m, d, 0, 0, 0, 0, <<>>)
      <4>1. IsoDate(parts) = NewDate(NumberIn(Slice(text, 0, 4)), TwoAt(text, 5), TwoAt(text, 8),
                TwoAt(<<>>, 0), TwoAt(<<>>, 3), TwoAt(<<>>, 6), Fraction(<<>>, 3), <<>>)
        BY <2>4, Zenon DEF IsoDate
      <4> QED BY <2>7, <3>2, <3>3, <4>1, Zenon
    <3>5. ZoneHours(<<>>) = 0 /\ ZoneMinutes(<<>>) = 0 /\ ZoneOffset(<<>>) = 0
      <4>1. Len(<<>>) < 4
        BY EmptySeq
      <4>2. ZoneHours(<<>>) = 0 /\ ZoneMinutes(<<>>) = 0
        BY <4>1 DEF ZoneHours, ZoneMinutes, TwoAt
      <4> QED BY <4>2 DEF ZoneOffset
    <3>6. ~(0 > 59) /\ ~(0 > MsPerDay) /\ ~(0 > 23) /\ 0 - (0 * MsPerMinute) = 0
      BY DEF MsPerDay, MsPerMinute
    <3>7. NewDate(y, m, d, 0, 0, 0, 0, <<>>) =
            IF m \notin 1 .. 12 \/ d \notin 1 .. 31 THEN NaN
            ELSE IF 0 > 59 \/ 0 > 59 \/ TimeMs(0, 0, 0, 0) > MsPerDay THEN NaN
            ELSE IF ZoneHours(<<>>) > 23 \/ ZoneMinutes(<<>>) > 59 THEN NaN
            ELSE Instant(DayNumber(y, m, d), TimeMs(0, 0, 0, 0) - (ZoneOffset(<<>>) * MsPerMinute))
      BY DEF NewDate
    <3> QED BY <2>1, <2>8, <3>4, <3>5, <3>6, <3>7
  <2> QED BY <2>2, <2>3, <2>5, <2>6, <2>9
<1> QED BY <1>1, <1>2

\* Three places of a fraction are less than a thousand.
LEMMA FractionTyped ==
    ASSUME NEW f \in Seq(Digit)
    PROVE  Fraction(f, 3) \in Millis
<1> DEFINE g == f \o Zeros(3)
<1>1. Zeros(3) \in Seq(Digit) /\ Len(Zeros(3)) = 3
  BY DigitsAre DEF Zeros
<1>2. g \in Seq(Digit) /\ Len(g) = Len(f) + 3 /\ Len(f) \in Nat
  <2> DEFINE z == Zeros(3)
  <2>1. z \in Seq(Digit) /\ Len(z) = 3
    BY <1>1
  <2> HIDE DEF z
  <2>2. f \o z \in Seq(Digit) /\ Len(f \o z) = Len(f) + Len(z)
    BY <2>1, ConcatProperties
  <2>3. Len(f) \in Nat
    BY LenProperties
  <2> QED BY <2>1, <2>2, <2>3 DEF z
<1> HIDE DEF g
<1>3. \A i \in 1 .. 3 : g[i] \in Digit
  BY <1>2, ElementOfSeq
<1>4. SubSeq(g, 1, 3) \in Seq(Digit) /\ Len(SubSeq(g, 1, 3)) = 3
  BY <1>3, SubSeqProperties
<1>5. NumberIn(SubSeq(g, 1, 3)) \in Millis
  BY <1>4, ThreeDigits
<1> QED BY <1>5 DEF Fraction, g

\* The time of a clock lies within the day.
LEMMA TimeOfDay ==
    ASSUME NEW h \in 0 .. 23, NEW m \in 0 .. 59, NEW s \in 0 .. 59, NEW ms \in Millis
    PROVE  TimeMs(h, m, s, ms) \in Nat /\ ~(TimeMs(h, m, s, ms) > MsPerDay)
  BY SMTT(30) DEF TimeMs, MsPerDay, Millis

\* Where the fraction of a timestamp ends.
PlainEnd(text) ==
    IF CharAt(text, 19) # "." THEN 19
    ELSE Min({p \in 20 .. Len(text) : ~IsDigit(CharAt(text, p))})

\* It ends behind the last digit, or there is none.
LEMMA PlainEndIs ==
    ASSUME NEW S, NEW text \in Seq(S), Len(text) >= 19
    PROVE  \/ PlainEnd(text) = 19 /\ CharAt(text, 19) # "."
           \/ /\ PlainEnd(text) \in 20 .. Len(text) /\ text[20] = "."
              /\ \A i \in 21 .. PlainEnd(text) : text[i] \in Digit
<1> DEFINE P == {p \in 20 .. Len(text) : ~IsDigit(CharAt(text, p))}
           n == Len(text)
<1>0. n \in Nat /\ n >= 19
  BY LenProperties
<1>1. CASE CharAt(text, 19) # "."
  BY <1>1 DEF PlainEnd
<1>2. CASE CharAt(text, 19) = "."
  <2>1. 19 < n /\ text[20] = "."
    <3>1. CharAt(text, 19) = IF 19 < n THEN text[19 + 1] ELSE "none"
      BY DEF CharAt
    <3>2. "." # "none" /\ 19 + 1 = 20
      OBVIOUS
    <3> QED BY <1>2, <3>1, <3>2
  <2>2. CharAt(text, n) = "none"
    BY <1>0 DEF CharAt
  <2>3. n \in P
    <3>1. ~IsDigit("none")
      BY NoDigits DEF IsDigit, Digit
    <3> QED BY <1>0, <2>1, <2>2, <3>1
  <2>4. P \subseteq Nat
    OBVIOUS
  <2>5. \E m \in P : \A k \in P : m <= k
    <3> HIDE DEF P
    <3> QED BY <2>3, <2>4, LeastNat
  <2> DEFINE e == Min(P)
  <2>6. e \in P /\ \A k \in P : e <= k
    <3> HIDE DEF P
    <3> QED BY <2>5, Zenon DEF Min
  <2>7. PlainEnd(text) = e
    BY <1>2 DEF PlainEnd
  <2> HIDE DEF e
  <2>8. e \in 20 .. n
    BY <2>6
  <2>9. ASSUME NEW i \in 21 .. e PROVE text[i] \in Digit
    <3>1. i - 1 \in 20 .. n /\ ~(e <= i - 1) /\ i - 1 < n /\ (i - 1) + 1 = i
      BY <1>0, <2>8
    <3>2. i - 1 \notin P
      BY <2>6, <3>1
    <3>3. IsDigit(CharAt(text, i - 1))
      BY <3>1, <3>2
    <3> QED BY <3>1, <3>3 DEF CharAt, IsDigit, Digit
  <2> QED BY <2>1, <2>7, <2>8, <2>9
<1> QED BY <1>1, <1>2

\* What a plain zone is.
ZoneText(text, pos) ==
    /\ CharAt(text, pos) \in {"+", "-"} /\ pos < Len(text)
    /\ ReadDigits(text, pos + 1, 2) \in 0 .. 23
    /\ \/ Len(text) = pos + 3
       \/ Len(text) = pos + 6 /\ CharAt(text, pos + 3) = ":" /\ ReadDigits(text, pos + 4, 2) \in 0 .. 59
       \/ Len(text) = pos + 5 /\ ReadDigits(text, pos + 3, 2) \in 0 .. 59

\* What plainTimestampMs takes for a zone, and the minutes it makes of it.
LEMMA PlainZoneIs ==
    ASSUME NEW S, NEW text \in Seq(S), NEW pos \in Nat, pos <= Len(text), PlainZone(text, pos).valid
    PROVE  \/ pos = Len(text) /\ PlainZone(text, pos).minutes = 0
           \/ /\ ZoneText(text, pos)
              /\ PlainZone(text, pos).minutes =
                    ((ReadDigits(text, pos + 1, 2) * 60)
                        + (IF Len(text) = pos + 3 THEN 0
                           ELSE IF Len(text) = pos + 6 THEN ReadDigits(text, pos + 4, 2)
                           ELSE ReadDigits(text, pos + 3, 2)))
                    * (IF CharAt(text, pos) = "+" THEN 1 ELSE -1)
<1> DEFINE n == Len(text)
           minutesAt == IF CharAt(text, pos + 3) = ":" THEN pos + 4 ELSE pos + 3
           short == pos + 3 = n
           hours == ReadDigits(text, pos + 1, 2)
           minutes == IF short THEN 0 ELSE ReadDigits(text, minutesAt, 2)
           sign == IF CharAt(text, pos) = "+" THEN 1 ELSE -1
<1>0. n \in Nat /\ pos <= n
  BY LenProperties
<1>1. CASE pos = n
  <2>1. PlainZone(text, pos) = [valid |-> TRUE, minutes |-> 0]
    BY <1>1 DEF PlainZone
  <2> QED BY <1>1, <2>1
<1>2. CASE pos # n
  <2>1. PlainZone(text, pos) =
          IF CharAt(text, pos) \notin {"+", "-"} THEN NaN
          ELSE IF ~short /\ minutesAt + 2 # n THEN NaN
          ELSE IF hours \notin 0 .. 23 \/ minutes \notin 0 .. 59 THEN NaN
          ELSE [valid |-> TRUE, minutes |-> ((hours * 60) + minutes) * sign]
    BY <1>2 DEF PlainZone
  <2>2. ~NaN.valid
    BY DEF NaN
  <2> HIDE DEF minutesAt, short, hours, minutes, sign
  <2>3. /\ CharAt(text, pos) \in {"+", "-"} /\ (short \/ minutesAt + 2 = n)
        /\ hours \in 0 .. 23 /\ minutes \in 0 .. 59
        /\ PlainZone(text, pos).minutes = ((hours * 60) + minutes) * sign
    BY <2>1, <2>2, SMTT(30)
  <2>4. (minutesAt = pos + 4 /\ CharAt(text, pos + 3) = ":") \/ minutesAt = pos + 3
    BY DEF minutesAt
  <2>5. short <=> n = pos + 3
    BY <1>0 DEF short
  <2>6. \/ n = pos + 3 /\ minutes = 0
        \/ n = pos + 6 /\ CharAt(text, pos + 3) = ":" /\ minutes = ReadDigits(text, pos + 4, 2)
        \/ n = pos + 5 /\ minutes = ReadDigits(text, pos + 3, 2)
    <3>1. CASE short
      BY <2>5, <3>1 DEF minutes
    <3>2. CASE ~short
      <4>1. minutes = ReadDigits(text, minutesAt, 2) /\ minutesAt + 2 = n
        BY <2>3, <3>2 DEF minutes
      <4> HIDE DEF n
      <4> QED BY <1>0, <2>4, <4>1
    <3> QED BY <3>1, <3>2
  <2>7. ZoneText(text, pos)
    <3>1. pos < n /\ ReadDigits(text, pos + 1, 2) \in 0 .. 23
      BY <1>0, <1>2, <2>3 DEF hours
    <3>2. \/ n = pos + 3
          \/ n = pos + 6 /\ CharAt(text, pos + 3) = ":" /\ ReadDigits(text, pos + 4, 2) \in 0 .. 59
          \/ n = pos + 5 /\ ReadDigits(text, pos + 3, 2) \in 0 .. 59
      BY <2>3, <2>6, Zenon
    <3> QED BY <2>3, <3>1, <3>2, Zenon DEF ZoneText
  <2>8. minutes = IF n = pos + 3 THEN 0 ELSE IF n = pos + 6 THEN ReadDigits(text, pos + 4, 2)
                  ELSE ReadDigits(text, pos + 3, 2)
    BY <1>0, <2>6
  <2> HIDE DEF n
  <2>9. PlainZone(text, pos).minutes =
          ((ReadDigits(text, pos + 1, 2) * 60)
              + (IF n = pos + 3 THEN 0 ELSE IF n = pos + 6 THEN ReadDigits(text, pos + 4, 2)
                 ELSE ReadDigits(text, pos + 3, 2)))
          * (IF CharAt(text, pos) = "+" THEN 1 ELSE -1)
    BY <2>3, <2>8, Zenon DEF hours, sign
  <2> QED BY <2>7, <2>9 DEF n
<1> QED BY <1>1, <1>2

\* A zone is empty or begins with its sign.
LEMMA ZoneShapeStarts ==
    ASSUME NEW x \in ZoneShapes
    PROVE  x = <<>> \/ (x # <<>> /\ x[1] \in {"+", "-"})
<1>1. x = <<>> \/ \E s \in {"+", "-"} :
        x = <<s, "9", "9">> \/ x = <<s, "9", "9", "9", "9">> \/ x = <<s, "9", "9", ":", "9", "9">>
  BY DEF ZoneShapes
<1> QED BY <1>1

\* The rest of a text from its zone on.
LEMMA ZoneAgrees ==
    ASSUME NEW S, NEW text \in Seq(S), NEW pos \in Nat, pos <= Len(text), PlainZone(text, pos).valid
    PROVE  LET z == Slice(text, pos, Len(text))
           IN  /\ Shape(z) \in ZoneShapes
               /\ ZoneHours(z) \in 0 .. 23 /\ ZoneMinutes(z) \in 0 .. 59
               /\ ZoneOffset(z) = PlainZone(text, pos).minutes
               /\ pos < Len(text) => ~IsDigit(CharAt(text, pos))
               /\ pos < Len(text) => CharAt(text, Len(text) - 1) \in Digit
<1> DEFINE n == Len(text)
           z == Slice(text, pos, n)
           hours == ReadDigits(text, pos + 1, 2)
           sign == CharAt(text, pos)
<1>0. n \in Nat
  BY LenProperties
<1>1. z \in Seq(S) /\ Len(z) = n - pos /\ \A k \in 1 .. n - pos : z[k] = text[pos + k]
  <2>1. IsPiece(z, S, text, pos, n)
    BY <1>0, SliceIs
  <2> QED BY <2>1 DEF IsPiece
<1>2. Shape(z) = [i \in 1 .. Len(z) |-> IF z[i] \in Digit THEN "9" ELSE z[i]]
  BY <1>1, ShapeIs
<1>3. CASE pos = n
  <2>1. z = <<>>
    <3>1. Len(z) = 0
      BY <1>0, <1>1, <1>3
    <3> QED BY <1>1, <3>1, EmptySeq
  <2>2. Shape(<<>>) = <<>>
    BY DEF Shape
  <2>3. Shape(z) \in ZoneShapes
    BY <2>1, <2>2, Zenon DEF ZoneShapes
  <2>4. ZoneHours(<<>>) = 0 /\ ZoneMinutes(<<>>) = 0
    BY EmptySeq DEF ZoneHours, ZoneMinutes, TwoAt
  <2>5. ZoneOffset(<<>>) = 0
    BY <2>4 DEF ZoneOffset
  <2>6. PlainZone(text, pos).minutes = 0
    BY <1>3 DEF PlainZone
  <2> QED BY <1>0, <1>3, <2>1, <2>3, <2>4, <2>5, <2>6
<1>4. CASE pos # n
  <2> DEFINE minutes == IF n = pos + 3 THEN 0 ELSE IF n = pos + 6 THEN ReadDigits(text, pos + 4, 2)
                        ELSE ReadDigits(text, pos + 3, 2)
  <2>1. /\ ZoneText(text, pos)
        /\ PlainZone(text, pos).minutes = ((hours * 60) + minutes) * (IF sign = "+" THEN 1 ELSE -1)
    BY <1>4, PlainZoneIs
  <2> HIDE DEF n, z, hours, sign, minutes
  <2>2. /\ sign \in {"+", "-"} /\ pos < n /\ hours \in 0 .. 23
        /\ \/ n = pos + 3
           \/ n = pos + 6 /\ CharAt(text, pos + 3) = ":" /\ ReadDigits(text, pos + 4, 2) \in 0 .. 59
           \/ n = pos + 5 /\ ReadDigits(text, pos + 3, 2) \in 0 .. 59
    BY <2>1 DEF ZoneText, n, hours, sign
  <2>3. z # <<>> /\ n - pos \in Nat /\ n - pos >= 3
    <3>1. n - pos \in Nat /\ n - pos >= 3
      BY <1>0, <2>2
    <3> QED BY <1>1, <3>1, EmptySeq
  <2>4. z[1] = sign /\ sign \notin Digit
    <3>1. sign = text[pos + 1]
      BY <1>0, <2>2 DEF CharAt, sign, n
    <3>2. 1 \in 1 .. n - pos
      BY <2>3
    <3> QED BY <1>1, <2>2, <3>1, <3>2, NoDigits
  <2>5. /\ Slice(text, pos + 1, (pos + 1) + 2) \in Seq(Digit)
        /\ hours = NumberIn(Slice(text, pos + 1, (pos + 1) + 2))
        /\ z[2] \in Digit /\ z[3] \in Digit
    <3>1. hours # -1 /\ pos + 1 \in Nat /\ 2 \in Nat
      BY <2>2
    <3>2. /\ Slice(text, pos + 1, (pos + 1) + 2) \in Seq(Digit)
          /\ hours = NumberIn(Slice(text, pos + 1, (pos + 1) + 2))
          /\ \A i \in (pos + 1) + 1 .. (pos + 1) + 2 : text[i] \in Digit
      BY <3>1, DigitsRead DEF hours
    <3>3. pos + 2 \in (pos + 1) + 1 .. (pos + 1) + 2 /\ pos + 3 \in (pos + 1) + 1 .. (pos + 1) + 2
          /\ 2 \in 1 .. n - pos /\ 3 \in 1 .. n - pos
      BY <2>3
    <3> QED BY <1>1, <3>2, <3>3
  <2>6. Slice(z, 1, 1 + 2) = Slice(text, pos + 1, (pos + 1) + 2)
    <3>1. 1 \in Nat /\ 3 \in Nat /\ n <= Len(text) /\ 1 <= 3 /\ pos + 3 <= n /\ pos + 3 = (pos + 1) + 2 /\ 1 + 2 = 3
      BY <1>0, <2>3 DEF n
    <3>2. Slice(Slice(text, pos, n), 1, 3) = Slice(text, pos + 1, pos + 3)
      BY <1>0, <3>1, SliceOfSlice
    <3> QED BY <3>1, <3>2 DEF z
  <2>7. ZoneHours(z) = hours
    BY <2>3, <2>5, <2>6 DEF ZoneHours, TwoAt
  <2>8. \/ Len(z) = 3 /\ minutes = 0
        \/ Len(z) = 6 /\ z[4] = ":" /\ minutes = ReadDigits(text, pos + 4, 2) /\ pos + 4 = n - 2 /\ minutes \in 0 .. 59
        \/ Len(z) = 5 /\ minutes = ReadDigits(text, pos + 3, 2) /\ pos + 3 = n - 2 /\ minutes \in 0 .. 59
    <3>1. CASE n = pos + 3
      BY <1>0, <1>1, <3>1 DEF minutes
    <3>2. CASE n = pos + 6 /\ CharAt(text, pos + 3) = ":" /\ ReadDigits(text, pos + 4, 2) \in 0 .. 59
      <4>0. n = pos + 6 /\ Len(z) = n - pos
        BY <1>1, <3>2, Zenon
      <4>1. Len(z) = 6 /\ n # pos + 3 /\ pos + 4 = n - 2 /\ pos + 3 < n /\ (pos + 3) + 1 = pos + 4 /\ 4 \in 1 .. n - pos
        BY <1>0, <4>0
      <4>2. minutes = ReadDigits(text, pos + 4, 2)
        BY <3>2, <4>1 DEF minutes
      <4>3. CharAt(text, pos + 3) = text[pos + 4]
        BY <4>1 DEF CharAt, n
      <4> QED BY <1>1, <3>2, <4>1, <4>2, <4>3
    <3>3. CASE n = pos + 5 /\ ReadDigits(text, pos + 3, 2) \in 0 .. 59
      <4>1. Len(z) = 5 /\ n # pos + 3 /\ n # pos + 6 /\ pos + 3 = n - 2
        BY <1>0, <1>1, <3>3
      <4>2. minutes = ReadDigits(text, pos + 3, 2)
        BY <3>3, <4>1 DEF minutes
      <4> QED BY <3>3, <4>1, <4>2
    <3> QED BY <2>2, <3>1, <3>2, <3>3
  <2>9. Len(z) # 3 => /\ minutes = NumberIn(Slice(z, Len(z) - 2, Len(z)))
                      /\ z[Len(z)] \in Digit /\ z[Len(z) - 1] \in Digit
    <3> SUFFICES ASSUME Len(z) # 3
                 PROVE  /\ minutes = NumberIn(Slice(z, Len(z) - 2, Len(z)))
                        /\ z[Len(z)] \in Digit /\ z[Len(z) - 1] \in Digit
      OBVIOUS
    <3>1. minutes = ReadDigits(text, n - 2, 2) /\ minutes # -1 /\ n - 2 \in Nat
      <4>1. n - 2 \in Nat
        BY <1>0, <2>3
      <4>2. minutes = ReadDigits(text, n - 2, 2) /\ minutes \in 0 .. 59
        BY <2>8
      <4>3. \A k \in 0 .. 59 : k # -1
        OBVIOUS
      <4> QED BY <4>1, <4>2, <4>3, Zenon
    <3>2. /\ minutes = NumberIn(Slice(text, n - 2, (n - 2) + 2))
          /\ \A i \in (n - 2) + 1 .. (n - 2) + 2 : text[i] \in Digit
      BY <3>1, DigitsRead
    <3> DEFINE a == (n - pos) - 2
    <3>3. /\ a \in Nat /\ n - pos \in Nat /\ a <= n - pos /\ pos + (n - pos) = n /\ pos + a = n - 2
          /\ (n - 2) + 2 = n /\ n <= Len(text) /\ pos + (n - pos) <= n
      BY <1>0, <2>3 DEF n
    <3> HIDE DEF a
    <3>4. Slice(Slice(text, pos, n), a, n - pos) = Slice(text, pos + a, pos + (n - pos))
      BY <1>0, <3>3, SliceOfSlice
    <3>5. Slice(z, Len(z) - 2, Len(z)) = Slice(text, n - 2, n)
      BY <1>1, <3>3, <3>4 DEF z, a
    <3>6. n \in (n - 2) + 1 .. (n - 2) + 2 /\ n - 1 \in (n - 2) + 1 .. (n - 2) + 2
          /\ Len(z) \in 1 .. n - pos /\ Len(z) - 1 \in 1 .. n - pos
          /\ pos + Len(z) = n /\ pos + (Len(z) - 1) = n - 1
      BY <1>0, <1>1, <2>3
    <3>7. z[Len(z)] = text[n] /\ z[Len(z) - 1] = text[n - 1]
      BY <1>1, <3>6
    <3> QED BY <3>2, <3>3, <3>5, <3>6, <3>7
  <2>10. minutes \in 0 .. 59
    BY <2>8
  <2>11. ZoneMinutes(z) = minutes
    <3>1. CASE Len(z) = 3
      <4>1. minutes = 0 /\ Len(z) < 4
        BY <2>8, <3>1
      <4> QED BY <4>1 DEF ZoneMinutes
    <3>2. CASE Len(z) # 3
      <4>0. Len(z) = 5 \/ Len(z) = 6
        BY <2>8, <3>2, Zenon
      <4>1. ~(5 < 4) /\ ~(6 < 4)
        OBVIOUS
      <4> QED BY <2>9, <3>2, <4>0, <4>1, Zenon DEF ZoneMinutes
    <3> QED BY <3>1, <3>2
  <2>12. ZoneOffset(z) = PlainZone(text, pos).minutes
    <3>1. ZoneOffset(z) = IF sign = "-" THEN -((hours * 60) + minutes) ELSE (hours * 60) + minutes
      BY <2>3, <2>4, <2>7, <2>11 DEF ZoneOffset
    <3>2. CASE sign = "-"
      BY <2>1, <2>2, <2>10, <3>1, <3>2
    <3>3. CASE sign = "+"
      BY <2>1, <2>2, <2>10, <3>1, <3>3
    <3> QED BY <2>2, <3>2, <3>3
  <2>13. Shape(z) \in ZoneShapes
    <3>1. CASE Len(z) = 3
      <4>1. Shape(z) = <<sign, "9", "9">>
        BY <1>2, <2>4, <2>5, <3>1
      <4> QED BY <2>2, <4>1 DEF ZoneShapes
    <3>2. CASE Len(z) = 5
      <4>1. z[4] \in Digit /\ z[5] \in Digit
        BY <2>9, <3>2
      <4>2. Shape(z) = <<sign, "9", "9", "9", "9">>
        BY <1>2, <2>4, <2>5, <3>2, <4>1
      <4> QED BY <2>2, <4>2 DEF ZoneShapes
    <3>3. CASE Len(z) = 6
      <4>1. z[5] \in Digit /\ z[6] \in Digit /\ z[4] = ":" /\ ":" \notin Digit
        BY <2>8, <2>9, <3>3, NoDigits
      <4>2. Shape(z) = <<sign, "9", "9", ":", "9", "9">>
        BY <1>2, <2>4, <2>5, <3>3, <4>1
      <4> QED BY <2>2, <4>2 DEF ZoneShapes
    <3> QED BY <2>8, <3>1, <3>2, <3>3
  <2>14. ~IsDigit(sign)
    BY <2>4 DEF IsDigit, Digit
  <2>15. CharAt(text, n - 1) \in Digit
    <3>1. n - 1 < n /\ (n - 1) + 1 = n /\ pos + Len(z) = n /\ Len(z) \in 1 .. n - pos
      BY <1>0, <1>1, <2>3
    <3>2. CharAt(text, n - 1) = z[Len(z)]
      BY <1>1, <3>1 DEF CharAt, n
    <3>3. z[Len(z)] \in Digit
      BY <2>5, <2>9
    <3> QED BY <3>2, <3>3
  <2> QED BY <2>2, <2>7, <2>10, <2>11, <2>12, <2>13, <2>14, <2>15 DEF n, z, sign
<1> QED BY <1>3, <1>4

TimeText(s) ==
    /\ Len(s) = 8 /\ s[1] \in Digit /\ s[2] \in Digit /\ s[3] = ":"
    /\ s[4] \in Digit /\ s[5] \in Digit /\ s[6] = ":" /\ s[7] \in Digit /\ s[8] \in Digit

\* The expression takes such a text for a time.
LEMMA ShapedTime ==
    ASSUME NEW S, NEW s \in Seq(S), TimeText(s)
    PROVE  Shape(s) = TimeShape
<1>1. Shape(s) = [i \in 1 .. 8 |-> IF s[i] \in Digit THEN "9" ELSE s[i]]
  BY ShapeIs DEF TimeText
<1>2. TimeShape = [i \in 1 .. 8 |-> TimeShape[i]]
  BY DEF TimeShape
<1>3. ASSUME NEW i \in 1 .. 8 PROVE (IF s[i] \in Digit THEN "9" ELSE s[i]) = TimeShape[i]
  <2>1. i = 1 \/ i = 2 \/ i = 3 \/ i = 4 \/ i = 5 \/ i = 6 \/ i = 7 \/ i = 8
    BY <1>3
  <2>2. TimeShape[i] = IF i = 3 \/ i = 6 THEN ":" ELSE "9"
    BY <2>1 DEF TimeShape
  <2>3. i = 3 \/ i = 6 => s[i] = ":" /\ s[i] \notin Digit
    BY NoDigits DEF TimeText
  <2>4. i # 3 /\ i # 6 => s[i] \in Digit
    BY <2>1 DEF TimeText
  <2> QED BY <2>2, <2>3, <2>4
<1> HIDE DEF TimeShape
<1> QED BY <1>1, <1>2, <1>3

\* The expression finds the fraction and the zone where the short way does.
LEMMA FirstEnd ==
    ASSUME NEW S, NEW text \in Seq(S), Len(text) >= 19,
           PlainEnd(text) # 20, PlainZone(text, PlainEnd(text)).valid
    PROVE  LET ends == {e \in 19 .. Len(text) :
                           IsFraction(Slice(text, 19, e)) /\ Shape(Slice(text, e, Len(text))) \in ZoneShapes}
           IN  ends # {} /\ Min(ends) = PlainEnd(text)
<1> DEFINE n == Len(text)
           pos == PlainEnd(text)
           After(e) == Shape(Slice(text, e, n)) \in ZoneShapes
           ends == {e \in 19 .. n : IsFraction(Slice(text, 19, e)) /\ After(e)}
<1>0. n \in Nat /\ n >= 19
  BY LenProperties
<1>1. \/ pos = 19 /\ CharAt(text, 19) # "."
      \/ /\ pos \in 20 .. n /\ text[20] = "."
         /\ \A i \in 21 .. pos : text[i] \in Digit
  BY PlainEndIs
<1> HIDE DEF pos
<1>2. pos \in 19 .. n /\ pos \in Nat /\ pos <= n /\ pos # 20
  BY <1>0, <1>1 DEF pos
<1>3. After(pos)
  <2>1. PlainZone(text, pos).valid
    BY DEF pos
  <2> QED BY <1>2, <2>1, ZoneAgrees
<1>4. ASSUME NEW e \in 19 .. n
      PROVE  LET s == Slice(text, 19, e)
             IN  s \in Seq(S) /\ Len(s) = e - 19 /\ \A k \in 1 .. e - 19 : s[k] = text[19 + k]
  <2>1. IsPiece(Slice(text, 19, e), S, text, 19, e)
    BY <1>0, <1>4, SliceIs
  <2> QED BY <2>1 DEF IsPiece
<1>5. IsFraction(Slice(text, 19, pos))
  <2> DEFINE s == Slice(text, 19, pos)
  <2>1. s \in Seq(S) /\ Len(s) = pos - 19 /\ \A k \in 1 .. pos - 19 : s[k] = text[19 + k]
    BY <1>2, <1>4
  <2> HIDE DEF s
  <2>2. CASE pos = 19
    <3>1. s = <<>>
      BY <2>1, <2>2, EmptySeq
    <3> QED BY <3>1 DEF IsFraction, s
  <2>3. CASE pos # 19
    <3>1. pos \in 20 .. n /\ text[20] = "." /\ \A i \in 21 .. pos : text[i] \in Digit
      BY <1>1, <2>3
    <3>2. pos - 19 > 1 /\ 1 \in 1 .. pos - 19 /\ 19 + 1 = 20 /\ pos - 19 \in Nat
      BY <1>2, <2>3
    <3>3. \A k \in 2 .. pos - 19 : k \in 1 .. pos - 19 /\ 19 + k \in 21 .. pos
      BY <1>2
    <3>4. \A k \in 2 .. pos - 19 : s[k] \in Digit
      BY <2>1, <3>1, <3>3
    <3>5. s[1] = "."
      BY <2>1, <3>1, <3>2
    <3>6. Len(s) > 1 /\ s[1] = "." /\ \A k \in 2 .. Len(s) : IsDigit(s[k])
      BY <2>1, <3>2, <3>4, <3>5, Zenon DEF IsDigit, Digit
    <3> QED BY <3>6, Zenon DEF IsFraction, s
  <2> QED BY <2>2, <2>3
<1>6. pos \in ends
  BY <1>2, <1>3, <1>5
<1>7. ASSUME NEW e \in ends, e < pos PROVE FALSE
  <2>1. e \in 19 .. n /\ IsFraction(Slice(text, 19, e)) /\ After(e)
    BY <1>7
  <2>2. pos \in 20 .. n /\ text[20] = "." /\ \A i \in 21 .. pos : text[i] \in Digit
    BY <1>1, <1>7, <2>1
  <2> DEFINE z == Slice(text, e, n)
  <2>3. e < n /\ e + 1 \in 20 .. pos
    BY <1>2, <1>7, <2>1
  <2>4. z \in Seq(S) /\ Len(z) = n - e /\ z[1] = text[e + 1]
    <3>1. IsPiece(z, S, text, e, n)
      BY <1>0, <2>1, SliceIs
    <3>2. 1 \in 1 .. n - e
      BY <1>0, <2>1, <2>3
    <3> HIDE DEF z
    <3> QED BY <3>1, <3>2 DEF IsPiece
  <2> HIDE DEF z
  <2>5. Shape(z) # <<>> /\ Shape(z)[1] = IF z[1] \in Digit THEN "9" ELSE z[1]
    <3>1. Shape(z) = [i \in 1 .. Len(z) |-> IF z[i] \in Digit THEN "9" ELSE z[i]]
      BY <2>4, ShapeIs
    <3>2. 1 \in 1 .. Len(z)
      BY <1>0, <2>1, <2>3, <2>4
    <3>3. Shape(z)[1] = IF z[1] \in Digit THEN "9" ELSE z[1]
      BY <3>1, <3>2
    <3>4. DOMAIN Shape(z) = 1 .. Len(z) /\ DOMAIN <<>> = {}
      BY <3>1
    <3> QED BY <3>2, <3>3, <3>4
  <2>6. Shape(z)[1] \in {"+", "-"}
    <3>1. Shape(z) \in ZoneShapes
      BY <2>1 DEF z
    <3> QED BY <2>5, <3>1, ZoneShapeStarts
  <2>7. text[e + 1] \notin Digit /\ text[e + 1] # "."
    BY <2>4, <2>5, <2>6
  <2>8. CASE e = 19
    <3>1. e + 1 = 20
      BY <2>8
    <3> QED BY <2>2, <2>7, <3>1
  <2>9. CASE e = 20
    <3>1. e + 1 \in 21 .. pos
      BY <2>3, <2>9
    <3> QED BY <2>2, <2>7, <3>1
  <2>10. CASE e # 19 /\ e # 20
    <3>1. e + 1 \in 21 .. pos
      BY <2>1, <2>3, <2>10
    <3> QED BY <2>2, <2>7, <3>1
  <2> QED BY <2>8, <2>9, <2>10
<1>8. Min(ends) = pos
  <2>1. ends \subseteq 19 .. n
    OBVIOUS
  <2> HIDE DEF ends
  <2>2. \A k \in ends : pos <= k
    BY <1>0, <1>2, <1>7, <2>1
  <2>3. Min(ends) \in ends /\ \A k \in ends : Min(ends) <= k
    BY <1>6, <2>2, Zenon DEF Min
  <2>4. Min(ends) <= pos /\ pos <= Min(ends) /\ Min(ends) \in 19 .. n
    BY <1>6, <2>1, <2>2, <2>3, Zenon
  <2> QED BY <1>2, <2>4
<1> QED BY <1>6, <1>8 DEF pos

\* What the short way makes of a timestamp, if anything.
LEMMA PlainTimestampIs ==
    ASSUME NEW text, PlainTimestamp(text).valid
    PROVE  /\ ~(Len(text) < 19) /\ CharAt(text, 10) \in {Blank, "T"}
           /\ CharAt(text, 13) = ":" /\ CharAt(text, 16) = ":" /\ PlainDate(text, 0).valid
           /\ ReadDigits(text, 11, 2) \in 0 .. 23 /\ ReadDigits(text, 14, 2) \in 0 .. 59
           /\ ReadDigits(text, 17, 2) \in 0 .. 59
           /\ PlainEnd(text) # 20 /\ PlainZone(text, PlainEnd(text)).valid
           /\ PlainTimestamp(text) =
                Instant(PlainDate(text, 0).day,
                        TimeMs(ReadDigits(text, 11, 2), ReadDigits(text, 14, 2), ReadDigits(text, 17, 2),
                               Fraction(Slice(text, 20, PlainEnd(text)), 3))
                        - (PlainZone(text, PlainEnd(text)).minutes * MsPerMinute))
<1> DEFINE h == ReadDigits(text, 11, 2)
           m == ReadDigits(text, 14, 2)
           s == ReadDigits(text, 17, 2)
           date == PlainDate(text, 0)
           pos == PlainEnd(text)
           zone == PlainZone(text, pos)
           made == Instant(date.day, TimeMs(h, m, s, Fraction(Slice(text, 20, pos), 3)) - (zone.minutes * MsPerMinute))
<1>1. PlainTimestamp(text) =
        IF Len(text) < 19 THEN NaN
        ELSE IF CharAt(text, 10) \notin {Blank, "T"} THEN NaN
        ELSE IF CharAt(text, 13) # ":" \/ CharAt(text, 16) # ":" THEN NaN
        ELSE IF ~date.valid \/ h \notin 0 .. 23 \/ m \notin 0 .. 59 \/ s \notin 0 .. 59 THEN NaN
        ELSE IF pos = 20 \/ ~zone.valid THEN NaN
        ELSE made
  BY DEF PlainTimestamp, PlainEnd
<1>2. ~NaN.valid
  BY DEF NaN
<1> HIDE DEF h, m, s, date, pos, zone, made
<1>3. /\ ~(Len(text) < 19) /\ CharAt(text, 10) \in {Blank, "T"}
      /\ CharAt(text, 13) = ":" /\ CharAt(text, 16) = ":" /\ date.valid
      /\ h \in 0 .. 23 /\ m \in 0 .. 59 /\ s \in 0 .. 59
      /\ pos # 20 /\ zone.valid /\ PlainTimestamp(text) = made
  BY <1>1, <1>2
<1> QED BY <1>3 DEF h, m, s, date, pos, zone, made

\* The digits of a number within a piece.
LEMMA PieceRead ==
    ASSUME NEW S, NEW text \in Seq(S), NEW a \in Nat, NEW b \in Nat, NEW c \in Nat, b <= Len(text),
           a + (c + 2) <= b, NEW k \in Nat, ReadDigits(text, a + c, 2) \in 0 .. k
    PROVE  NumberIn(Slice(Slice(text, a, b), c, c + 2)) = ReadDigits(text, a + c, 2)
<1>1. c + 2 \in Nat /\ c <= c + 2 /\ a + (c + 2) = (a + c) + 2 /\ a + c \in Nat /\ 2 \in Nat
  OBVIOUS
<1>2. Slice(Slice(text, a, b), c, c + 2) = Slice(text, a + c, a + (c + 2))
  BY <1>1, SliceOfSlice
<1>3. \A i \in 0 .. k : i # -1
  OBVIOUS
<1>4. ReadDigits(text, a + c, 2) # -1
  BY <1>3, Zenon
<1>5. ReadDigits(text, a + c, 2) = NumberIn(Slice(text, a + c, (a + c) + 2))
  BY <1>1, <1>4, DigitsRead
<1> QED BY <1>1, <1>2, <1>5

\* What has been read as two digits.
LEMMA TwoDigits ==
    ASSUME NEW S, NEW text \in Seq(S), NEW pos \in Nat, NEW k \in Nat, ReadDigits(text, pos, 2) \in 0 .. k
    PROVE  pos + 2 <= Len(text) /\ text[pos + 1] \in Digit /\ text[pos + 2] \in Digit
<1>1. \A i \in 0 .. k : i # -1
  OBVIOUS
<1>2. ReadDigits(text, pos, 2) # -1
  BY <1>1, Zenon
<1>3. pos + 2 <= Len(text) /\ \A i \in pos + 1 .. pos + 2 : text[i] \in Digit
  BY <1>2, DigitsRead
<1> QED BY <1>3

\* Plain timestamps: the general way takes them apart into the same parts.
LEMMA TimestampMatched ==
    ASSUME NEW S, NEW text \in Seq(S), PlainTimestamp(text).valid
    PROVE  LET pos == PlainEnd(text)
               parts == Matched(Trim(text))
           IN  /\ pos \in 19 .. Len(text) /\ Slice(text, 20, pos) \in Seq(Digit)
               /\ parts.valid
               /\ parts.date = Slice(text, 0, 10) /\ parts.time = Slice(text, 11, 19)
               /\ parts.fraction = Slice(text, 20, pos) /\ parts.zone = Slice(text, pos, Len(text))
<1> DEFINE n == Len(text)
           pos == PlainEnd(text)
           date == Slice(text, 0, 10)
           clock == Slice(text, 11, 19)
           fraction == Slice(text, 20, pos)
           zone == Slice(text, pos, n)
<1>0. n \in Nat
  BY LenProperties
<1>1. /\ n >= 19 /\ CharAt(text, 10) \in {Blank, "T"} /\ CharAt(text, 13) = ":" /\ CharAt(text, 16) = ":"
      /\ PlainDate(text, 0).valid
      /\ ReadDigits(text, 11, 2) \in 0 .. 23 /\ ReadDigits(text, 14, 2) \in 0 .. 59
      /\ ReadDigits(text, 17, 2) \in 0 .. 59 /\ pos # 20 /\ PlainZone(text, pos).valid
  BY <1>0, PlainTimestampIs
<1>2. DateText(text)
  BY <1>1, PlainDateIs
<1>3. \/ pos = 19 /\ CharAt(text, 19) # "."
      \/ /\ pos \in 20 .. n /\ text[20] = "."
         /\ \A i \in 21 .. pos : text[i] \in Digit
  BY <1>1, PlainEndIs
<1> HIDE DEF pos
<1>4. pos \in 19 .. n /\ pos \in Nat
  BY <1>0, <1>1, <1>3
<1>5. /\ text[12] \in Digit /\ text[13] \in Digit /\ text[15] \in Digit /\ text[16] \in Digit
      /\ text[18] \in Digit /\ text[19] \in Digit
  <2>1. 11 + 1 = 12 /\ 11 + 2 = 13 /\ 14 + 1 = 15 /\ 14 + 2 = 16 /\ 17 + 1 = 18 /\ 17 + 2 = 19
        /\ 11 \in Nat /\ 14 \in Nat /\ 17 \in Nat /\ 23 \in Nat /\ 59 \in Nat
    OBVIOUS
  <2>2. text[11 + 1] \in Digit /\ text[11 + 2] \in Digit
    BY <1>1, <2>1, TwoDigits
  <2>3. text[14 + 1] \in Digit /\ text[14 + 2] \in Digit
    BY <1>1, <2>1, TwoDigits
  <2>4. text[17 + 1] \in Digit /\ text[17 + 2] \in Digit
    BY <1>1, <2>1, TwoDigits
  <2> QED BY <2>1, <2>2, <2>3, <2>4
<1>6. text[14] = ":" /\ text[17] = ":"
  <2>1. 13 < n /\ 16 < n /\ 13 + 1 = 14 /\ 16 + 1 = 17
    BY <1>0, <1>1
  <2> QED BY <1>1, <2>1 DEF CharAt
<1>7. text[n] \in Digit
  <2>1. CASE pos < n
    <3>1. CharAt(text, n - 1) \in Digit
      BY <1>1, <1>4, <2>1, ZoneAgrees
    <3>2. n - 1 < n /\ (n - 1) + 1 = n
      BY <1>0
    <3> QED BY <3>1, <3>2 DEF CharAt
  <2>2. CASE pos = n
    <3>1. CASE pos = 19
      BY <1>5, <2>2, <3>1
    <3>2. CASE pos # 19
      <4>1. pos \in 21 .. pos
        BY <1>1, <1>4, <3>2
      <4> QED BY <1>3, <2>2, <3>2, <4>1
    <3> QED BY <3>1, <3>2
  <2> QED BY <1>0, <1>4, <2>1, <2>2
<1>8. Trim(text) = text
  <2>1. text[1] # Blank /\ text[n] # Blank /\ n > 0
    BY <1>0, <1>1, <1>2, <1>7, NoDigits, SMTT(30) DEF DateText
  <2> QED BY <2>1, TrimKeeps
<1>9. Shape(text) # DateShape
  <2>1. DOMAIN Shape(text) = 1 .. n
    BY ShapeIs
  <2>2. DOMAIN DateShape = 1 .. 10
    BY DEF DateShape
  <2>3. 11 \in 1 .. n /\ 11 \notin 1 .. 10
    BY <1>0, <1>1
  <2> QED BY <2>1, <2>2, <2>3
<1>10. Shape(date) = DateShape
  <2>1. IsPiece(date, S, text, 0, 10)
    BY <1>0, <1>1, SliceIs
  <2>2. date \in Seq(S) /\ Len(date) = 10 /\ \A k \in 1 .. 10 : date[k] = text[k]
    <3>1. 10 - 0 = 10 /\ \A k \in 1 .. 10 : 0 + k = k
      OBVIOUS
    <3> HIDE DEF date
    <3> QED BY <2>1, <3>1 DEF IsPiece
  <2> HIDE DEF date
  <2>3. DateText(date)
    BY <1>2, <2>2, SMTT(30) DEF DateText
  <2> QED BY <2>2, <2>3, ShapedDate
<1>11. Shape(clock) = TimeShape
  <2>1. IsPiece(clock, S, text, 11, 19)
    BY <1>0, <1>1, SliceIs
  <2>2. clock \in Seq(S) /\ Len(clock) = 8 /\ \A k \in 1 .. 8 : clock[k] = text[11 + k]
    <3>1. 19 - 11 = 8
      OBVIOUS
    <3> HIDE DEF clock
    <3> QED BY <2>1, <3>1 DEF IsPiece
  <2> HIDE DEF clock
  <2>3. TimeText(clock)
    BY <1>5, <1>6, <2>2, SMTT(30) DEF TimeText
  <2> QED BY <2>2, <2>3, ShapedTime
<1>12. fraction \in Seq(Digit)
  <2>1. CASE pos = 19
    <3>1. Min({19, n}) = 19
      BY <1>0, <1>1 DEF Min
    <3>2. fraction = SubSeq(text, 20 + 1, 19)
      BY <2>1, <3>1 DEF Slice
    <3>3. fraction = <<>>
      BY <3>2, SubSeqEmpty
    <3> QED BY <3>3, EmptySeq
  <2>2. CASE pos # 19
    <3>1. pos \in 20 .. n /\ \A i \in 21 .. pos : text[i] \in Digit
      BY <1>3, <2>2
    <3>2. IsPiece(fraction, S, text, 20, pos)
      BY <1>0, <3>1, SliceIs
    <3> HIDE DEF fraction
    <3>3. fraction \in Seq(S) /\ Len(fraction) = pos - 20 /\ \A k \in 1 .. pos - 20 : fraction[k] = text[20 + k]
      BY <3>2 DEF IsPiece
    <3>4. \A k \in 1 .. pos - 20 : 20 + k \in 21 .. pos
      BY <3>1
    <3>5. \A k \in 1 .. Len(fraction) : fraction[k] \in Digit
      BY <3>1, <3>3, <3>4
    <3> QED BY <3>3, <3>5
  <2> QED BY <2>1, <2>2
<1>13. LET ends == {e \in 19 .. Len(text) :
                      IsFraction(Slice(text, 19, e)) /\ Shape(Slice(text, e, Len(text))) \in ZoneShapes}
       IN  ends # {} /\ Min(ends) = pos
  BY <1>0, <1>1, FirstEnd DEF pos
<1>14. Matched(text) = [valid |-> TRUE, date |-> date, time |-> clock, fraction |-> fraction, zone |-> zone]
  <2> DEFINE ends == {e \in 19 .. Len(text) :
                        IsFraction(Slice(text, 19, e)) /\ Shape(Slice(text, e, Len(text))) \in ZoneShapes}
  <2>1. ends # {} /\ Min(ends) = pos
    BY <1>13
  <2>2. Matched(text) =
          IF Shape(text) = DateShape
          THEN [valid |-> TRUE, date |-> text, time |-> <<>>, fraction |-> <<>>, zone |-> <<>>]
          ELSE IF Shape(date) # DateShape \/ CharAt(text, 10) \notin {Blank, "T"}
                  \/ Shape(clock) # TimeShape \/ ends = {} THEN NaN
          ELSE [valid |-> TRUE, date |-> date, time |-> clock,
                fraction |-> Slice(text, 20, Min(ends)), zone |-> Slice(text, Min(ends), Len(text))]
    BY DEF Matched
  <2> HIDE DEF ends, date, clock
  <2> QED BY <1>1, <1>9, <1>10, <1>11, <2>1, <2>2
<1> HIDE DEF date, clock, fraction, zone
<1>15. /\ Matched(text).valid /\ Matched(text).date = date /\ Matched(text).time = clock
       /\ Matched(text).fraction = fraction /\ Matched(text).zone = zone
  BY <1>14
<1> QED BY <1>4, <1>8, <1>12, <1>15 DEF pos, date, clock, fraction, zone

\* The fields of the date are the numbers that were read at their places.
LEMMA DatePieces ==
    ASSUME NEW S, NEW text \in Seq(S), 10 <= Len(text)
    PROVE  LET date == Slice(text, 0, 10)
           IN  /\ NumberIn(Slice(date, 5, 5 + 2)) = MonthOf(text)
               /\ NumberIn(Slice(date, 8, 8 + 2)) = DayOf(text)
               /\ NumberIn(Slice(date, 0, 4)) = YearOf(text)
<1> DEFINE at(c, e) == Slice(Slice(text, 0, 10), c, e)
<1>1. ASSUME NEW c \in 0 .. 10, NEW e \in 0 .. 10, c <= e PROVE at(c, e) = Slice(text, c, e)
  <2>1. 0 \in Nat /\ 10 \in Nat /\ c \in Nat /\ e \in Nat /\ 0 + e <= 10 /\ 0 + c = c /\ 0 + e = e
    BY <1>1
  <2>2. at(c, e) = Slice(text, 0 + c, 0 + e)
    BY <1>1, <2>1, SliceOfSlice
  <2> QED BY <2>1, <2>2
<1> HIDE DEF at
<1>2. at(5, 7) = Slice(text, 5, 7) /\ at(8, 10) = Slice(text, 8, 10) /\ at(0, 4) = Slice(text, 0, 4)
  BY <1>1
<1>3. 5 + 2 = 7 /\ 8 + 2 = 10
  OBVIOUS
<1> QED BY <1>2, <1>3 DEF at, YearOf, MonthOf, DayOf

\* And so are those of the time.
LEMMA TimePieces ==
    ASSUME NEW S, NEW text \in Seq(S), 19 <= Len(text),
           ReadDigits(text, 11, 2) \in 0 .. 23, ReadDigits(text, 14, 2) \in 0 .. 59,
           ReadDigits(text, 17, 2) \in 0 .. 59
    PROVE  LET clock == Slice(text, 11, 19)
           IN  /\ NumberIn(Slice(clock, 0, 0 + 2)) = ReadDigits(text, 11, 2)
               /\ NumberIn(Slice(clock, 3, 3 + 2)) = ReadDigits(text, 14, 2)
               /\ NumberIn(Slice(clock, 6, 6 + 2)) = ReadDigits(text, 17, 2)
<1> DEFINE at(c) == Slice(Slice(text, 11, 19), c, c + 2)
<1>1. ASSUME NEW c \in 0 .. 6, NEW k \in Nat, ReadDigits(text, 11 + c, 2) \in 0 .. k
      PROVE  NumberIn(at(c)) = ReadDigits(text, 11 + c, 2)
  <2>1. 11 \in Nat /\ 19 \in Nat /\ c \in Nat /\ 11 + (c + 2) <= 19
    BY <1>1
  <2> QED BY <1>1, <2>1, PieceRead
<1> HIDE DEF at
<1>2. 11 + 0 = 11 /\ 11 + 3 = 14 /\ 11 + 6 = 17 /\ 0 \in 0 .. 6 /\ 3 \in 0 .. 6 /\ 6 \in 0 .. 6
      /\ 23 \in Nat /\ 59 \in Nat
  OBVIOUS
<1>3. NumberIn(at(0)) = ReadDigits(text, 11, 2)
  BY <1>1, <1>2, Zenon
<1>4. NumberIn(at(3)) = ReadDigits(text, 14, 2)
  BY <1>1, <1>2, Zenon
<1>5. NumberIn(at(6)) = ReadDigits(text, 17, 2)
  BY <1>1, <1>2, Zenon
<1> QED BY <1>3, <1>4, <1>5 DEF at

\* parseTimestampText: what plainTimestampMs answers, normalizeTimestampText would.
LEMMA TimestampsAgree ==
    ASSUME NEW S, NEW text \in Seq(S)
    PROVE  ParseTimestampText(text) = NormalizeTimestampText(text)
<1>1. CASE ~PlainTimestamp(text).valid
  BY <1>1 DEF ParseTimestampText
<1>2. CASE PlainTimestamp(text).valid
  <2> DEFINE n == Len(text)
             pos == PlainEnd(text)
             date == Slice(text, 0, 10)
             clock == Slice(text, 11, 19)
             fraction == Slice(text, 20, pos)
             zone == Slice(text, pos, n)
             h == ReadDigits(text, 11, 2)
             mi == ReadDigits(text, 14, 2)
             s == ReadDigits(text, 17, 2)
             y == YearOf(text)
             mo == MonthOf(text)
             d == DayOf(text)
             ms == TimeMs(h, mi, s, Fraction(fraction, 3))
             day == DayNumber(y, mo, d)
  <2> HIDE DEF n, pos, date, clock, fraction, zone, h, mi, s, y, mo, d, ms, day
  <2>0. n \in Nat /\ n >= 19
    <3>1. ~(n < 19)
      BY <1>2, PlainTimestampIs DEF n
    <3>2. n \in Nat
      BY LenProperties DEF n
    <3> QED BY <3>1, <3>2
  <2>1. /\ PlainDate(text, 0).valid /\ h \in 0 .. 23 /\ mi \in 0 .. 59 /\ s \in 0 .. 59
        /\ PlainZone(text, pos).valid
        /\ PlainTimestamp(text) = Instant(PlainDate(text, 0).day, ms - (PlainZone(text, pos).minutes * MsPerMinute))
    BY <1>2, PlainTimestampIs DEF pos, fraction, h, mi, s, ms
  <2>2. /\ y \in Nat /\ mo \in 1 .. 12 /\ d \in 1 .. 31
        /\ PlainDate(text, 0) = Instant(day, 0)
    BY <2>1, PlainDateIs DEF y, mo, d, day
  <2>3. day \in Int
    <3>1. y \in Int /\ mo \in Int /\ d \in Int
      BY <2>2
    <3> QED BY <3>1, DayNumberTyped DEF day
  <2>4. PlainDate(text, 0).day = day
    <3>1. Instant(day, 0) = [valid |-> TRUE, day |-> day, ms |-> 0]
      BY <2>3, InstantIs
    <3> QED BY <2>2, <3>1
  <2>5. /\ pos \in 19 .. n /\ fraction \in Seq(Digit) /\ Matched(Trim(text)).valid
        /\ Matched(Trim(text)).date = date /\ Matched(Trim(text)).time = clock
        /\ Matched(Trim(text)).fraction = fraction /\ Matched(Trim(text)).zone = zone
    BY <1>2, TimestampMatched DEF n, pos, date, clock, fraction, zone
  <2>6. NormalizeTimestampText(text) =
          NewDate(NumberIn(Slice(date, 0, 4)), TwoAt(date, 5), TwoAt(date, 8),
                  TwoAt(clock, 0), TwoAt(clock, 3), TwoAt(clock, 6), Fraction(fraction, 3), zone)
    <3>1. NormalizeTimestampText(text) = IsoDate(Matched(Trim(text)))
      BY <2>5, Zenon DEF NormalizeTimestampText
    <3> QED BY <2>5, <3>1, Zenon DEF IsoDate
  <2>7. /\ NumberIn(Slice(date, 5, 5 + 2)) = mo /\ NumberIn(Slice(date, 8, 8 + 2)) = d
        /\ NumberIn(Slice(date, 0, 4)) = y
    BY <2>0, DatePieces DEF n, date, y, mo, d
  <2>8. /\ NumberIn(Slice(clock, 0, 0 + 2)) = h /\ NumberIn(Slice(clock, 3, 3 + 2)) = mi
        /\ NumberIn(Slice(clock, 6, 6 + 2)) = s
    BY <2>0, <2>1, TimePieces DEF n, clock, h, mi, s
  <2>9. Fraction(fraction, 3) \in Millis
    BY <2>5, FractionTyped
  <2>10. ms \in Nat /\ ~(ms > MsPerDay)
    <3>1. h \in 0 .. 23 /\ mi \in 0 .. 59 /\ s \in 0 .. 59
      BY <2>1, Zenon
    <3>2. \A a \in 0 .. 23, b \in 0 .. 59, c \in 0 .. 59, e \in Millis :
             TimeMs(a, b, c, e) \in Nat /\ ~(TimeMs(a, b, c, e) > MsPerDay)
      BY TimeOfDay, Zenon
    <3> QED BY <2>9, <3>1, <3>2, Zenon DEF ms
  <2>11. /\ ZoneHours(zone) \in 0 .. 23 /\ ZoneMinutes(zone) \in 0 .. 59
         /\ ZoneOffset(zone) = PlainZone(text, pos).minutes
    <3>1. pos \in Nat /\ pos <= Len(text)
      BY <2>0, <2>5 DEF n
    <3> QED BY <2>1, <3>1, ZoneAgrees DEF zone, n
  <2>12. date # <<>> /\ clock # <<>>
    <3>1. IsPiece(date, S, text, 0, 10) /\ IsPiece(clock, S, text, 11, 19)
      <4>1. 0 <= 10 /\ 10 <= Len(text) /\ 11 <= 19 /\ 19 <= Len(text)
            /\ 0 \in Nat /\ 10 \in Nat /\ 11 \in Nat /\ 19 \in Nat
        BY <2>0 DEF n
      <4> QED BY <4>1, SliceIs DEF date, clock
    <3>2. Len(date) = 10 - 0 /\ Len(clock) = 19 - 11
      BY <3>1, Zenon DEF IsPiece
    <3>3. 10 - 0 # 0 /\ 19 - 11 # 0
      OBVIOUS
    <3> QED BY <3>2, <3>3, EmptySeq, Zenon
  <2>13. /\ TwoAt(date, 5) = mo /\ TwoAt(date, 8) = d
         /\ TwoAt(clock, 0) = h /\ TwoAt(clock, 3) = mi /\ TwoAt(clock, 6) = s
    BY <2>7, <2>8, <2>12, Zenon DEF TwoAt
  <2>14. NormalizeTimestampText(text) = NewDate(y, mo, d, h, mi, s, Fraction(fraction, 3), zone)
    BY <2>6, <2>7, <2>13, Zenon
  <2>15. TimeMs(h, mi, s, Fraction(fraction, 3)) = ms
    BY DEF ms
  <2>16. NormalizeTimestampText(text) = Instant(day, ms - (ZoneOffset(zone) * MsPerMinute))
    <3>1. mo \in 1 .. 12 /\ d \in 1 .. 31 /\ mi \in 0 .. 59 /\ s \in 0 .. 59
      BY <2>1, <2>2, Zenon
    <3>2. NewDate(y, mo, d, h, mi, s, Fraction(fraction, 3), zone)
            = Instant(DayNumber(y, mo, d), ms - (ZoneOffset(zone) * MsPerMinute))
      <4>1. /\ TimeMs(h, mi, s, Fraction(fraction, 3)) \in Nat
            /\ ~(TimeMs(h, mi, s, Fraction(fraction, 3)) > MsPerDay)
            /\ ZoneHours(zone) \in 0 .. 23 /\ ZoneMinutes(zone) \in 0 .. 59
        BY <2>10, <2>11, <2>15, Zenon
      <4>2. NewDate(y, mo, d, h, mi, s, Fraction(fraction, 3), zone)
              = Instant(DayNumber(y, mo, d),
                        TimeMs(h, mi, s, Fraction(fraction, 3)) - (ZoneOffset(zone) * MsPerMinute))
        <5>1. ~(mi > 59) /\ ~(s > 59) /\ ~(ZoneHours(zone) > 23) /\ ~(ZoneMinutes(zone) > 59)
          <6>1. \A k \in 0 .. 59 : ~(k > 59)
            OBVIOUS
          <6>2. \A k \in 0 .. 23 : ~(k > 23)
            OBVIOUS
          <6> QED BY <3>1, <4>1, <6>1, <6>2, Zenon
        <5> QED BY <3>1, <4>1, <5>1, Zenon DEF NewDate
      <4> QED BY <2>15, <4>2, Zenon
    <3> QED BY <2>14, <3>2, Zenon DEF day
  <2>17. ParseTimestampText(text) = PlainTimestamp(text)
    BY <1>2 DEF ParseTimestampText
  <2> QED BY <2>1, <2>4, <2>11, <2>16, <2>17
<1> QED BY <1>1, <1>2

-----------------------------------------------------------------------------
(* Times: the short way and the parts between the colons *)

\* A cut is known by the number of those in front of it.
LEMMA CutIs ==
    ASSUME NEW cuts, IsFiniteSet(cuts), cuts \subseteq Int, NEW c \in cuts, NEW k,
           Cardinality({d \in cuts : d < c}) = k
    PROVE  CutAt(cuts, k) = c
<1> DEFINE Below(x) == {d \in cuts : d < x}
           x == CutAt(cuts, k)
<1>1. ASSUME NEW a \in cuts, NEW b \in cuts, a < b PROVE Cardinality(Below(a)) # Cardinality(Below(b))
  <2> DEFINE A == Below(a)
             B == Below(b)
  <2>1. A \in SUBSET cuts /\ B \in SUBSET cuts /\ a \notin A /\ A \cup {a} \in SUBSET B
    <3>1. ~(a < a) /\ \A y \in cuts : y < a => y < b
      BY <1>1
    <3> QED BY <1>1, <3>1, Zenon
  <2> HIDE DEF A, B
  <2>2. IsFiniteSet(A) /\ IsFiniteSet(B)
    BY <2>1, FS_Subset
  <2>3. Cardinality(A \cup {a}) = Cardinality(A) + 1
    BY <2>1, <2>2, FS_AddElement
  <2>4. Cardinality(A \cup {a}) <= Cardinality(B)
    BY <2>1, <2>2, FS_Subset
  <2>5. Cardinality(A) \in Nat /\ Cardinality(B) \in Nat
    BY <2>2, FS_CardinalityType
  <2> QED BY <2>3, <2>4, <2>5 DEF A, B
<1>2. x \in cuts /\ Cardinality(Below(x)) = k
  BY Zenon DEF CutAt
<1> HIDE DEF x
<1>3. x \in Int /\ c \in Int
  BY <1>2
<1>4. ~(x < c) /\ ~(c < x)
  <2> HIDE DEF Below
  <2>1. Cardinality(Below(c)) = k
    BY DEF Below
  <2> QED BY <1>1, <1>2, <2>1
<1> QED BY <1>3, <1>4 DEF x

\* Four cuts, counted from the left.
LEMMA FourCuts ==
    ASSUME NEW a \in Int, NEW b \in Int, NEW c \in Int, NEW d \in Int, a < b, b < c, c < d
    PROVE  /\ Cardinality({a, b, c, d}) = 4
           /\ CutAt({a, b, c, d}, 0) = a /\ CutAt({a, b, c, d}, 1) = b
           /\ CutAt({a, b, c, d}, 2) = c /\ CutAt({a, b, c, d}, 3) = d
<1>1. IsFiniteSet({}) /\ Cardinality({}) = 0
  BY FS_EmptySet
<1>2. IsFiniteSet({a}) /\ Cardinality({a}) = 1
  BY FS_Singleton
<1>3. IsFiniteSet({a, b}) /\ Cardinality({a, b}) = 2
  <2>1. {a, b} = {a} \cup {b} /\ b \notin {a}
    OBVIOUS
  <2> QED BY <1>2, <2>1, FS_AddElement
<1>4. IsFiniteSet({a, b, c}) /\ Cardinality({a, b, c}) = 3
  <2>1. {a, b, c} = {a, b} \cup {c} /\ c \notin {a, b}
    OBVIOUS
  <2> QED BY <1>3, <2>1, FS_AddElement
<1> DEFINE cuts == {a, b, c, d}
<1>5. IsFiniteSet(cuts) /\ Cardinality(cuts) = 4
  <2>1. cuts = {a, b, c} \cup {d} /\ d \notin {a, b, c}
    OBVIOUS
  <2> QED BY <1>4, <2>1, FS_AddElement
<1>6. cuts \subseteq Int /\ a \in cuts /\ b \in cuts /\ c \in cuts /\ d \in cuts
  OBVIOUS
<1>7. /\ {x \in cuts : x < a} = {} /\ {x \in cuts : x < b} = {a}
      /\ {x \in cuts : x < c} = {a, b} /\ {x \in cuts : x < d} = {a, b, c}
  OBVIOUS
<1> HIDE DEF cuts
<1>8. /\ Cardinality({x \in cuts : x < a}) = 0 /\ Cardinality({x \in cuts : x < b}) = 1
      /\ Cardinality({x \in cuts : x < c}) = 2 /\ Cardinality({x \in cuts : x < d}) = 3
  BY <1>1, <1>2, <1>3, <1>4, <1>7
<1>9. CutAt(cuts, 0) = a /\ CutAt(cuts, 1) = b /\ CutAt(cuts, 2) = c /\ CutAt(cuts, 3) = d
  BY <1>5, <1>6, <1>8, CutIs
<1> QED BY <1>5, <1>9 DEF cuts

\* Three cuts.
LEMMA ThreeCuts ==
    ASSUME NEW a \in Int, NEW b \in Int, NEW c \in Int, a < b, b < c
    PROVE  /\ Cardinality({a, b, c}) = 3
           /\ CutAt({a, b, c}, 0) = a /\ CutAt({a, b, c}, 1) = b /\ CutAt({a, b, c}, 2) = c
<1>1. IsFiniteSet({}) /\ Cardinality({}) = 0
  BY FS_EmptySet
<1>2. IsFiniteSet({a}) /\ Cardinality({a}) = 1
  BY FS_Singleton
<1>3. IsFiniteSet({a, b}) /\ Cardinality({a, b}) = 2
  <2>1. {a, b} = {a} \cup {b} /\ b \notin {a}
    OBVIOUS
  <2> QED BY <1>2, <2>1, FS_AddElement
<1> DEFINE cuts == {a, b, c}
<1>4. IsFiniteSet(cuts) /\ Cardinality(cuts) = 3
  <2>1. cuts = {a, b} \cup {c} /\ c \notin {a, b}
    OBVIOUS
  <2> QED BY <1>3, <2>1, FS_AddElement
<1>5. cuts \subseteq Int /\ a \in cuts /\ b \in cuts /\ c \in cuts
  OBVIOUS
<1>6. {x \in cuts : x < a} = {} /\ {x \in cuts : x < b} = {a} /\ {x \in cuts : x < c} = {a, b}
  OBVIOUS
<1> HIDE DEF cuts
<1>7. /\ Cardinality({x \in cuts : x < a}) = 0 /\ Cardinality({x \in cuts : x < b}) = 1
      /\ Cardinality({x \in cuts : x < c}) = 2
  BY <1>1, <1>2, <1>3, <1>6
<1>8. CutAt(cuts, 0) = a /\ CutAt(cuts, 1) = b /\ CutAt(cuts, 2) = c
  BY <1>4, <1>5, <1>7, CutIs
<1> QED BY <1>4, <1>8 DEF cuts

\* Two cuts.
LEMMA TwoCuts ==
    ASSUME NEW a \in Int, NEW b \in Int, a < b
    PROVE  /\ Cardinality({a, b}) = 2
           /\ CutAt({a, b}, 0) = a /\ CutAt({a, b}, 1) = b
<1>1. IsFiniteSet({}) /\ Cardinality({}) = 0
  BY FS_EmptySet
<1>2. IsFiniteSet({a}) /\ Cardinality({a}) = 1
  BY FS_Singleton
<1> DEFINE cuts == {a, b}
<1>3. IsFiniteSet(cuts) /\ Cardinality(cuts) = 2
  <2>1. cuts = {a} \cup {b} /\ b \notin {a}
    OBVIOUS
  <2> QED BY <1>2, <2>1, FS_AddElement
<1>4. cuts \subseteq Int /\ a \in cuts /\ b \in cuts
  OBVIOUS
<1>5. {x \in cuts : x < a} = {} /\ {x \in cuts : x < b} = {a}
  OBVIOUS
<1> HIDE DEF cuts
<1>6. Cardinality({x \in cuts : x < a}) = 0 /\ Cardinality({x \in cuts : x < b}) = 1
  BY <1>1, <1>2, <1>5
<1>7. CutAt(cuts, 0) = a /\ CutAt(cuts, 1) = b
  BY <1>3, <1>4, <1>6, CutIs
<1> QED BY <1>3, <1>7 DEF cuts

\* What the short way makes of a time, if anything.
LEMMA PlainTimeIs ==
    ASSUME NEW text, PlainTime(text).valid
    PROVE  /\ ~(Len(text) < 8) /\ CharAt(text, 2) = ":" /\ CharAt(text, 5) = ":"
           /\ ReadDigits(text, 0, 2) # -1 /\ ReadDigits(text, 3, 2) # -1 /\ ReadDigits(text, 6, 2) # -1
           /\ \/ /\ Len(text) = 8
                 /\ PlainTime(text) = TimeOf(ReadDigits(text, 0, 2), ReadDigits(text, 3, 2),
                                             ReadDigits(text, 6, 2), 0)
              \/ /\ Len(text) # 8 /\ CharAt(text, 8) = "." /\ Len(text) - 9 \in 1 .. 6
                 /\ ReadDigits(text, 9, Len(text) - 9) # -1
                 /\ PlainTime(text) = TimeOf(ReadDigits(text, 0, 2), ReadDigits(text, 3, 2),
                                             ReadDigits(text, 6, 2), Fraction(Slice(text, 9, Len(text)), 6))
<1> DEFINE h == ReadDigits(text, 0, 2)
           m == ReadDigits(text, 3, 2)
           s == ReadDigits(text, 6, 2)
           digits == Len(text) - 9
           f == ReadDigits(text, 9, digits)
           made == TimeOf(h, m, s, Fraction(Slice(text, 9, Len(text)), 6))
           whole == TimeOf(h, m, s, 0)
<1>1. PlainTime(text) =
        IF Len(text) < 8 \/ CharAt(text, 2) # ":" \/ CharAt(text, 5) # ":" THEN NaN
        ELSE IF h < 0 \/ m < 0 \/ s < 0 THEN NaN
        ELSE IF Len(text) = 8 THEN whole
        ELSE IF CharAt(text, 8) # "." \/ digits \notin 1 .. 6 \/ f < 0 THEN NaN
        ELSE made
  BY DEF PlainTime
<1>2. ~NaN.valid
  BY DEF NaN
<1> HIDE DEF h, m, s, digits, f, made, whole
<1>3. /\ ~(Len(text) < 8) /\ CharAt(text, 2) = ":" /\ CharAt(text, 5) = ":"
      /\ ~(h < 0) /\ ~(m < 0) /\ ~(s < 0)
      /\ \/ Len(text) = 8 /\ PlainTime(text) = whole
         \/ Len(text) # 8 /\ CharAt(text, 8) = "." /\ digits \in 1 .. 6 /\ ~(f < 0) /\ PlainTime(text) = made
  BY <1>1, <1>2
<1>4. -1 < 0
  OBVIOUS
<1>5. h # -1 /\ m # -1 /\ s # -1 /\ (~(f < 0) => f # -1)
  BY <1>3, <1>4
<1> QED BY <1>3, <1>5 DEF h, m, s, digits, f, made, whole

\* Digits only are read to their end.
LEMMA ParseIntIs ==
    ASSUME NEW digits \in Seq(Digit)
    PROVE  ParseInt(digits) = NumberIn(digits)
<1> DEFINE n == Len(digits)
           stops == {i \in 1 .. n + 1 : i > n \/ ~IsDigit(digits[i])}
<1>0. n \in Nat
  BY LenProperties
<1>1. \A i \in 1 .. n : IsDigit(digits[i])
  BY ElementOfSeq DEF IsDigit, Digit
<1> HIDE DEF n
<1>2. stops = {n + 1}
  BY <1>0, <1>1
<1>3. Min(stops) = n + 1
  BY <1>0, <1>2 DEF Min
<1>4. (n + 1) - 1 = n
  BY <1>0
<1>5. SubSeq(digits, 1, n) = digits
  BY SubSeqFull DEF n
<1>6. ParseInt(digits) = NumberIn(SubSeq(digits, 1, Min(stops) - 1))
  BY DEF ParseInt, n
<1> HIDE DEF stops
<1> QED BY <1>3, <1>4, <1>5, <1>6

\* A part lies between two cuts.
LEMMA PartIs ==
    ASSUME NEW text, NEW separator, NEW k, NEW cuts, Cuts(text, separator) = cuts, ~(Cardinality(cuts) <= k)
    PROVE  Part(text, separator, k) = SubSeq(text, CutAt(cuts, k - 1) + 1, CutAt(cuts, k) - 1)
  BY Zenon DEF Part

\* A time in its parts.
TimeLike(text) ==
    /\ Len(text) >= 8 /\ text[3] = ":" /\ text[6] = ":"
    /\ \A i \in 1 .. Len(text) : i # 3 /\ i # 6 => text[i] # ":"

\* The parts of a time lie where the short way reads them.
LEMMA PartsOfTime ==
    ASSUME NEW S, NEW text \in Seq(S), TimeLike(text)
    PROVE  /\ Part(text, ":", 1) = Slice(text, 0, 2) /\ Part(text, ":", 2) = Slice(text, 3, 5)
           /\ Part(text, ":", 3) = Slice(text, 6, Len(text))
<1> DEFINE n == Len(text)
<1>0. n \in Nat /\ n >= 8 /\ DOMAIN text = 1 .. n
  BY LenProperties DEF TimeLike
<1>1. Cuts(text, ":") = {0, 3, 6, n + 1}
  <2>1. /\ text[3] = ":" /\ text[6] = ":"
        /\ \A i \in 1 .. n : i # 3 /\ i # 6 => text[i] # ":"
    BY DEF TimeLike
  <2> HIDE DEF n
  <2>2. {i \in 1 .. n : text[i] = ":"} = {3, 6}
    BY <1>0, <2>1
  <2>3. Cuts(text, ":") = {0, n + 1} \cup {i \in 1 .. n : text[i] = ":"}
    BY <1>0 DEF Cuts, n
  <2>4. {0, n + 1} \cup {3, 6} = {0, 3, 6, n + 1}
    OBVIOUS
  <2> QED BY <2>2, <2>3, <2>4
<1> HIDE DEF n
<1> DEFINE cuts == {0, 3, 6, n + 1}
<1>2. /\ Cardinality(cuts) = 4 /\ CutAt(cuts, 0) = 0 /\ CutAt(cuts, 1) = 3
      /\ CutAt(cuts, 2) = 6 /\ CutAt(cuts, 3) = n + 1
  <2>1. 0 \in Int /\ 3 \in Int /\ 6 \in Int /\ n + 1 \in Int /\ 0 < 3 /\ 3 < 6 /\ 6 < n + 1
    BY <1>0
  <2> QED BY <2>1, FourCuts
<1> HIDE DEF cuts
<1>3. /\ Part(text, ":", 1) = SubSeq(text, CutAt(cuts, 1 - 1) + 1, CutAt(cuts, 1) - 1)
      /\ Part(text, ":", 2) = SubSeq(text, CutAt(cuts, 2 - 1) + 1, CutAt(cuts, 2) - 1)
      /\ Part(text, ":", 3) = SubSeq(text, CutAt(cuts, 3 - 1) + 1, CutAt(cuts, 3) - 1)
  <2>1. Cuts(text, ":") = cuts
    BY <1>1 DEF cuts
  <2>2. ~(Cardinality(cuts) <= 1) /\ ~(Cardinality(cuts) <= 2) /\ ~(Cardinality(cuts) <= 3)
    BY <1>2
  <2> QED BY <2>1, <2>2, PartIs, Zenon
<1>4. /\ Part(text, ":", 1) = SubSeq(text, 1, 2) /\ Part(text, ":", 2) = SubSeq(text, 4, 5)
      /\ Part(text, ":", 3) = SubSeq(text, 7, n)
  <2>1. 1 - 1 = 0 /\ 2 - 1 = 1 /\ 3 - 1 = 2 /\ 6 - 1 = 5 /\ 0 + 1 = 1 /\ 3 + 1 = 4 /\ 6 + 1 = 7
        /\ (n + 1) - 1 = n
    BY <1>0
  <2> QED BY <1>2, <1>3, <2>1
<1>5. /\ Slice(text, 0, 2) = SubSeq(text, 0 + 1, 2) /\ Slice(text, 3, 5) = SubSeq(text, 3 + 1, 5)
      /\ Slice(text, 6, n) = SubSeq(text, 6 + 1, n)
  <2>1. 0 \in Nat /\ 2 \in Nat /\ 3 \in Nat /\ 5 \in Nat /\ 6 \in Nat /\ 0 <= 2 /\ 3 <= 5
        /\ 2 <= n /\ 5 <= n /\ 6 <= n /\ n <= n
    BY <1>0
  <2> QED BY <1>0, <2>1, SliceIs, ZenonT(60) DEF n
<1>6. 0 + 1 = 1 /\ 3 + 1 = 4 /\ 6 + 1 = 7
  OBVIOUS
<1> QED BY <1>4, <1>5, <1>6 DEF n

\* Its seconds, with and without a fraction.
LEMMA WholeSeconds ==
    ASSUME NEW S, NEW text \in Seq(S), Len(text) = 2, text[1] # ".", text[2] # "."
    PROVE  Part(text, ".", 1) = text /\ Part(text, ".", 2) = <<>>
<1>0. DOMAIN text = 1 .. 2
  BY LenProperties
<1> DEFINE cuts == {0, 3}
<1>1. Cuts(text, ".") = cuts
  <2>1. {i \in 1 .. 2 : text[i] = "."} = {}
    OBVIOUS
  <2>2. Cuts(text, ".") = {0, 2 + 1} \cup {i \in 1 .. 2 : text[i] = "."}
    BY <1>0 DEF Cuts
  <2> QED BY <2>1, <2>2
<1>2. Cardinality(cuts) = 2 /\ CutAt(cuts, 0) = 0 /\ CutAt(cuts, 1) = 3
  <2>1. 0 \in Int /\ 3 \in Int /\ 0 < 3
    OBVIOUS
  <2> QED BY <2>1, TwoCuts
<1> HIDE DEF cuts
<1>3. Part(text, ".", 2) = <<>>
  BY <1>1, <1>2 DEF Part
<1>4. Part(text, ".", 1) = SubSeq(text, CutAt(cuts, 1 - 1) + 1, CutAt(cuts, 1) - 1)
  <2>1. ~(Cardinality(cuts) <= 1)
    BY <1>2
  <2> QED BY <1>1, <2>1, PartIs, Zenon
<1>5. 1 - 1 = 0 /\ 0 + 1 = 1 /\ 3 - 1 = 2
  OBVIOUS
<1>6. SubSeq(text, 1, 2) = text
  BY SubSeqFull
<1> QED BY <1>2, <1>3, <1>4, <1>5, <1>6

\* And with a fraction.
LEMMA FractionalSeconds ==
    ASSUME NEW S, NEW text \in Seq(S), Len(text) >= 3, text[3] = ".",
           \A i \in 1 .. Len(text) : i # 3 => text[i] # "."
    PROVE  Part(text, ".", 1) = Slice(text, 0, 2) /\ Part(text, ".", 2) = Slice(text, 3, Len(text))
<1> DEFINE n == Len(text)
<1>0. n \in Nat /\ n >= 3 /\ DOMAIN text = 1 .. n
  BY LenProperties
<1>1. Cuts(text, ".") = {0, 3, n + 1}
  <2>1. \A i \in 1 .. n : i # 3 => text[i] # "."
    OBVIOUS
  <2>2. Cuts(text, ".") = {0, n + 1} \cup {i \in 1 .. n : text[i] = "."}
    BY <1>0 DEF Cuts, n
  <2> HIDE DEF n
  <2>3. {i \in 1 .. n : text[i] = "."} = {3}
    BY <1>0, <2>1
  <2>4. {0, n + 1} \cup {3} = {0, 3, n + 1}
    OBVIOUS
  <2> QED BY <2>2, <2>3, <2>4
<1> HIDE DEF n
<1> DEFINE cuts == {0, 3, n + 1}
<1>2. Cardinality(cuts) = 3 /\ CutAt(cuts, 0) = 0 /\ CutAt(cuts, 1) = 3 /\ CutAt(cuts, 2) = n + 1
  <2> DEFINE end == n + 1
  <2>1. 0 \in Int /\ 3 \in Int /\ end \in Int /\ 0 < 3 /\ 3 < end
    BY <1>0
  <2> HIDE DEF end
  <2> DEFINE Are(a, b, c) == /\ Cardinality({a, b, c}) = 3 /\ CutAt({a, b, c}, 0) = a
                             /\ CutAt({a, b, c}, 1) = b /\ CutAt({a, b, c}, 2) = c
  <2>2. \A a \in Int, b \in Int, c \in Int : a < b /\ b < c => Are(a, b, c)
    BY ThreeCuts
  <2> HIDE DEF Are
  <2>3. Are(0, 3, end)
    BY <2>1, <2>2
  <2> QED BY <2>3 DEF end, Are
<1> HIDE DEF cuts
<1>3. /\ Part(text, ".", 1) = SubSeq(text, CutAt(cuts, 1 - 1) + 1, CutAt(cuts, 1) - 1)
      /\ Part(text, ".", 2) = SubSeq(text, CutAt(cuts, 2 - 1) + 1, CutAt(cuts, 2) - 1)
  <2>1. Cuts(text, ".") = cuts
    BY <1>1 DEF cuts
  <2>2. ~(Cardinality(cuts) <= 1) /\ ~(Cardinality(cuts) <= 2)
    BY <1>2
  <2> QED BY <2>1, <2>2, PartIs, Zenon
<1>4. 1 - 1 = 0 /\ 2 - 1 = 1 /\ 0 + 1 = 1 /\ 3 - 1 = 2 /\ 3 + 1 = 4 /\ (n + 1) - 1 = n
  BY <1>0
<1>5. Slice(text, 0, 2) = SubSeq(text, 0 + 1, 2) /\ Slice(text, 3, n) = SubSeq(text, 3 + 1, n)
  <2>1. 0 \in Nat /\ 2 \in Nat /\ 3 \in Nat /\ 0 <= 2 /\ 3 <= n /\ 2 <= n /\ n <= n
    BY <1>0
  <2> QED BY <1>0, <2>1, SliceIs DEF n
<1> QED BY <1>2, <1>3, <1>4, <1>5 DEF n

\* Padded or cut to six digits, a fraction is read as it is.
LEMMA SixDigits ==
    ASSUME NEW f \in Seq(Digit)
    PROVE  ParseInt(SubSeq(f \o Zeros(6), 1, 6)) = Fraction(f, 6)
<1> DEFINE z == Zeros(6)
           g == f \o z
<1>1. z \in Seq(Digit) /\ Len(z) = 6
  BY DigitsAre DEF Zeros
<1> HIDE DEF z
<1>2. g \in Seq(Digit) /\ Len(g) = Len(f) + 6 /\ Len(f) \in Nat
  <2>1. f \o z \in Seq(Digit) /\ Len(f \o z) = Len(f) + Len(z)
    BY <1>1, ConcatProperties
  <2>2. Len(f) \in Nat
    BY LenProperties
  <2> QED BY <1>1, <2>1, <2>2
<1> HIDE DEF g
<1>3. \A i \in 1 .. 6 : g[i] \in Digit
  BY <1>2, ElementOfSeq
<1>4. SubSeq(g, 1, 6) \in Seq(Digit)
  BY <1>3, SubSeqProperties
<1>5. ParseInt(SubSeq(g, 1, 6)) = NumberIn(SubSeq(g, 1, 6))
  BY <1>4, ParseIntIs
<1> QED BY <1>5 DEF Fraction, g, z

\* No fraction is one of zero.
LEMMA NoFraction == Fraction(<<>>, 6) = 0
<1> DEFINE z == Zeros(6)
<1>1. z \in Seq(Digit) /\ Len(z) = 6 /\ \A i \in 1 .. 6 : z[i] = "0"
  BY DigitsAre DEF Zeros
<1> HIDE DEF z
<1>2. <<>> \o z = z
  BY <1>1, ConcatEmptySeq
<1>3. SubSeq(z, 1, 6) = z
  BY <1>1, SubSeqFull
<1>4. NumberIn(z) = 0
  BY <1>1, ZerosWriteZero
<1>5. Fraction(<<>>, 6) = NumberIn(SubSeq(<<>> \o z, 1, 6))
  BY DEF Fraction, z
<1> QED BY <1>2, <1>3, <1>4, <1>5

\* parseTimeString: the short way comes to what the split does.
LEMMA TimesAgree ==
    ASSUME NEW S, NEW text \in Seq(S)
    PROVE  ParseTimeString(text) = GeneralTime(text)
<1>1. CASE ~PlainTime(text).valid
  BY <1>1 DEF ParseTimeString
<1>2. CASE PlainTime(text).valid
  <2> DEFINE n == Len(text)
             h == ReadDigits(text, 0, 2)
             m == ReadDigits(text, 3, 2)
             s == ReadDigits(text, 6, 2)
             seconds == Slice(text, 6, n)
             f == Slice(text, 9, n)
  <2>1. /\ ~(n < 8) /\ CharAt(text, 2) = ":" /\ CharAt(text, 5) = ":"
        /\ h # -1 /\ m # -1 /\ s # -1
        /\ \/ n = 8 /\ PlainTime(text) = TimeOf(h, m, s, 0)
           \/ /\ n # 8 /\ CharAt(text, 8) = "." /\ n - 9 \in 1 .. 6
              /\ ReadDigits(text, 9, n - 9) # -1
              /\ PlainTime(text) = TimeOf(h, m, s, Fraction(f, 6))
    BY <1>2, PlainTimeIs
  <2>2. n \in Nat /\ n >= 8 /\ (n # 8 => n >= 10)
    <3>1. n \in Nat
      BY LenProperties
    <3> HIDE DEF n, f, h, m, s
    <3> QED BY <2>1, <3>1
  <2> DEFINE ones == Slice(text, 0, 2)
             twos == Slice(text, 3, 5)
             threes == Slice(text, 6, 8)
  <2>3. /\ text[1] \in Digit /\ text[2] \in Digit /\ ones \in Seq(Digit) /\ h = NumberIn(ones)
        /\ text[4] \in Digit /\ text[5] \in Digit /\ twos \in Seq(Digit) /\ m = NumberIn(twos)
        /\ text[7] \in Digit /\ text[8] \in Digit /\ threes \in Seq(Digit) /\ s = NumberIn(threes)
    <3>1. 0 \in Nat /\ 3 \in Nat /\ 6 \in Nat /\ 2 \in Nat /\ 0 + 2 = 2 /\ 3 + 2 = 5 /\ 6 + 2 = 8
          /\ 0 + 1 = 1 /\ 3 + 1 = 4 /\ 6 + 1 = 7
          /\ 1 \in 1 .. 2 /\ 2 \in 1 .. 2 /\ 4 \in 4 .. 5 /\ 5 \in 4 .. 5 /\ 7 \in 7 .. 8 /\ 8 \in 7 .. 8
      OBVIOUS
    <3>2. /\ \A i \in 0 + 1 .. 0 + 2 : text[i] \in Digit
          /\ Slice(text, 0, 0 + 2) \in Seq(Digit) /\ h = NumberIn(Slice(text, 0, 0 + 2))
      BY <2>1, <3>1, DigitsRead
    <3>3. /\ \A i \in 3 + 1 .. 3 + 2 : text[i] \in Digit
          /\ Slice(text, 3, 3 + 2) \in Seq(Digit) /\ m = NumberIn(Slice(text, 3, 3 + 2))
      BY <2>1, <3>1, DigitsRead
    <3>4. /\ \A i \in 6 + 1 .. 6 + 2 : text[i] \in Digit
          /\ Slice(text, 6, 6 + 2) \in Seq(Digit) /\ s = NumberIn(Slice(text, 6, 6 + 2))
      BY <2>1, <3>1, DigitsRead
    <3> HIDE DEF h, m, s
    <3> QED BY <3>1, <3>2, <3>3, <3>4
  <2>4. text[3] = ":" /\ text[6] = ":"
    <3>1. 2 < n /\ 5 < n /\ 2 + 1 = 3 /\ 5 + 1 = 6
      BY <2>2
    <3> QED BY <2>1, <3>1 DEF CharAt
  <2>5. n # 8 => /\ text[9] = "." /\ f \in Seq(Digit)
                 /\ \A i \in 10 .. n : text[i] \in Digit
    <3>1. ASSUME n # 8 PROVE text[9] = "." /\ f \in Seq(Digit) /\ \A i \in 10 .. n : text[i] \in Digit
      <4>1. 8 < n /\ 8 + 1 = 9 /\ 9 + 1 = 10 /\ 9 + (n - 9) = n /\ 9 \in Nat /\ n - 9 \in Nat
        BY <2>2, <3>1
      <4>2. CharAt(text, 8) = "." /\ ReadDigits(text, 9, n - 9) # -1
        BY <2>1, <3>1
      <4>3. /\ \A i \in 9 + 1 .. 9 + (n - 9) : text[i] \in Digit
            /\ Slice(text, 9, 9 + (n - 9)) \in Seq(Digit)
        BY <4>1, <4>2, DigitsRead
      <4>4. text[9] = "."
        BY <4>1, <4>2 DEF CharAt
      <4> HIDE DEF n
      <4> QED BY <4>1, <4>3, <4>4
    <3> QED BY <3>1
  <2> HIDE DEF n, h, m, s, f, ones, twos, threes
  <2>6. TimeLike(text)
    <3>1. ASSUME NEW i \in 1 .. n, i # 3, i # 6 PROVE text[i] # ":"
      <4>1. i = 1 \/ i = 2 \/ i = 4 \/ i = 5 \/ i = 7 \/ i = 8 \/ (n # 8 /\ (i = 9 \/ i \in 10 .. n))
        BY <2>2, <3>1
      <4>2. text[i] \in Digit \/ text[i] = "."
        BY <2>3, <2>5, <4>1
      <4> QED BY <4>2, NoDigits
    <3> QED BY <2>2, <2>4, <3>1 DEF TimeLike, n
  <2>7. /\ Part(text, ":", 1) = ones /\ Part(text, ":", 2) = twos /\ Part(text, ":", 3) = seconds
    BY <2>6, PartsOfTime DEF ones, twos, n
  <2>8. ParseInt(ones) = h /\ ParseInt(twos) = m /\ ParseInt(threes) = s
    BY <2>3, ParseIntIs
  <2>9. seconds \in Seq(S) /\ Len(seconds) = n - 6 /\ \A k \in 1 .. n - 6 : seconds[k] = text[6 + k]
    <3>1. 6 \in Nat /\ 6 <= n /\ n <= Len(text)
      BY <2>2 DEF n
    <3>2. IsPiece(seconds, S, text, 6, n)
      BY <2>2, <3>1, SliceIs
    <3> QED BY <3>2, Zenon DEF IsPiece
  <2>10. GeneralTime(text) =
           TimeOf(h, m, ParseInt(Part(seconds, ".", 1)),
                  ParseInt(SubSeq(Part(seconds, ".", 2) \o Zeros(6), 1, 6)))
    <3> HIDE DEF seconds
    <3> QED BY <2>7, <2>8, Zenon DEF GeneralTime
  <2>11. ParseTimeString(text) = PlainTime(text)
    BY <1>2 DEF ParseTimeString
  <2>12. CASE n = 8
    <3>1. seconds = threes
      BY <2>12 DEF threes
    <3>2. Len(threes) = 2 /\ threes[1] \in Digit /\ threes[2] \in Digit
      <4>1. n - 6 = 2 /\ 1 \in 1 .. n - 6 /\ 2 \in 1 .. n - 6 /\ 6 + 1 = 7 /\ 6 + 2 = 8
        BY <2>12
      <4> HIDE DEF seconds
      <4> QED BY <2>3, <2>9, <3>1, <4>1
    <3>3. Part(threes, ".", 1) = threes /\ Part(threes, ".", 2) = <<>>
      <4>1. threes[1] # "." /\ threes[2] # "."
        BY <3>2, NoDigits
      <4> QED BY <2>3, <3>2, <4>1, WholeSeconds
    <3>4. ParseInt(SubSeq(<<>> \o Zeros(6), 1, 6)) = 0
      <4>1. <<>> \in Seq(Digit)
        BY EmptySeq
      <4> QED BY <4>1, SixDigits, NoFraction
    <3>5. PlainTime(text) = TimeOf(h, m, s, 0)
      BY <2>1, <2>12
    <3> HIDE DEF seconds
    <3> QED BY <2>8, <2>10, <2>11, <3>1, <3>3, <3>4, <3>5, Zenon
  <2>13. CASE n # 8
    <3>1. Part(seconds, ".", 1) = Slice(seconds, 0, 2) /\ Part(seconds, ".", 2) = Slice(seconds, 3, n - 6)
      <4> HIDE DEF seconds
      <4>1. n - 6 >= 3 /\ 3 \in 1 .. n - 6 /\ 6 + 3 = 9 /\ n - 6 \in Nat
        BY <2>2, <2>13
      <4>2. Len(seconds) >= 3 /\ seconds[3] = "."
        BY <2>5, <2>9, <2>13, <4>1
      <4>3. ASSUME NEW i \in 1 .. Len(seconds), i # 3 PROVE seconds[i] # "."
        <5>1. i \in 1 .. n - 6
          BY <2>9, <4>3
        <5>2. seconds[i] = text[6 + i] /\ (6 + i = 7 \/ 6 + i = 8 \/ 6 + i \in 10 .. n)
          BY <2>2, <2>9, <4>3, <5>1
        <5>3. seconds[i] \in Digit
          BY <2>3, <2>5, <2>13, <5>2
        <5> QED BY <5>3, NoDigits
      <4>4. Part(seconds, ".", 1) = Slice(seconds, 0, 2) /\ Part(seconds, ".", 2) = Slice(seconds, 3, Len(seconds))
        BY <2>9, <4>2, <4>3, FractionalSeconds
      <4> QED BY <2>9, <4>4
    <3>2. Slice(seconds, 0, 2) = threes /\ Slice(seconds, 3, n - 6) = f
      <4>1. /\ 6 \in Nat /\ n \in Nat /\ 0 \in Nat /\ 2 \in Nat /\ 3 \in Nat /\ n - 6 \in Nat
            /\ n <= Len(text) /\ 0 <= 2 /\ 3 <= n - 6 /\ 6 + 2 <= n /\ 6 + (n - 6) <= n
            /\ 6 + 0 = 6 /\ 6 + 2 = 8 /\ 6 + 3 = 9 /\ 6 + (n - 6) = n
        BY <2>2, <2>13 DEF n
      <4>2. Slice(seconds, 0, 2) = Slice(text, 6 + 0, 6 + 2)
        BY <4>1, SliceOfSlice
      <4>3. Slice(seconds, 3, n - 6) = Slice(text, 6 + 3, 6 + (n - 6))
        BY <4>1, SliceOfSlice, SMTT(30)
      <4> HIDE DEF seconds
      <4> QED BY <4>1, <4>2, <4>3 DEF threes, f
    <3>3. ParseInt(SubSeq(f \o Zeros(6), 1, 6)) = Fraction(f, 6)
      BY <2>5, <2>13, SixDigits
    <3>4. PlainTime(text) = TimeOf(h, m, s, Fraction(f, 6))
      BY <2>1, <2>13
    <3> HIDE DEF seconds
    <3> QED BY <2>8, <2>10, <2>11, <3>1, <3>2, <3>3, <3>4, Zenon
  <2> QED BY <2>12, <2>13
<1> QED BY <1>1, <1>2

-----------------------------------------------------------------------------
(* Integers: a sum of digits is a sum of codes *)

\* Sums are determined by what is summed up.
LEMMA OneSum ==
    ASSUME NEW digits \in Seq(Digit), NEW f, f = Sums(digits, f), NEW g, g = Sums(digits, g)
    PROVE  f[Len(digits)] = g[Len(digits)]
<1> DEFINE size == Len(digits)
           T == {k \in 0 .. size : f[k] # g[k]}
<1>0. size \in Nat
  BY LenProperties
<1>1. ASSUME T # {} PROVE FALSE
  <2>1. PICK k \in T : \A j \in T : k <= j
    <3>1. T \subseteq Nat
      OBVIOUS
    <3> HIDE DEF T
    <3> QED BY <1>1, <3>1, LeastNat
  <2>2. k \in 0 .. size /\ f[k] # g[k]
    BY <2>1
  <2>3. /\ f[k] = IF k = 0 THEN 0 ELSE (10 * f[k - 1]) + DigitOf[digits[k]]
        /\ g[k] = IF k = 0 THEN 0 ELSE (10 * g[k - 1]) + DigitOf[digits[k]]
    BY <2>2, Zenon DEF Sums
  <2>4. k # 0 => k - 1 \in 0 .. size /\ ~(k <= k - 1)
    BY <1>0, <2>2
  <2>5. k # 0 => f[k - 1] = g[k - 1]
    BY <2>1, <2>4
  <2> HIDE DEF T
  <2> QED BY <2>2, <2>3, <2>5
<1>2. size \in 0 .. size
  BY <1>0
<1> QED BY <1>1, <1>2

\* Of digits only, the sum of the codes is the number.
LEMMA CodesOfDigits ==
    ASSUME NEW digits \in Seq(Digit)
    PROVE  SumOfCodes(digits) = NumberIn(digits)
<1> DEFINE size == Len(digits)
           Codes(f) == [i \in 0 .. size |-> IF i = 0 THEN 0 ELSE (10 * f[i - 1]) + Code[digits[i]]]
           g == CHOOSE g : g = Codes(g)
<1>0. size \in Nat
  BY LenProperties
<1>1. SumOfCodes(digits) = g[size]
  BY DEF SumOfCodes
<1>2. \A c \in Digit : Code[c] = DigitOf[c]
  <2>1. \A c \in Digit : c # "-" /\ c # "."
    BY NoDigits
  <2> QED BY <2>1, Zenon DEF Code, Digit
<1> HIDE DEF size
<1>3. \A i \in 1 .. size : Code[digits[i]] = DigitOf[digits[i]]
  <2>1. \A i \in 1 .. size : digits[i] \in Digit
    BY ElementOfSeq DEF size
  <2> QED BY <1>2, <2>1
<1>4. ASSUME NEW f PROVE Codes(f) = Sums(digits, f)
  <2> DEFINE C(i) == IF i = 0 THEN 0 ELSE (10 * f[i - 1]) + Code[digits[i]]
             D(i) == IF i = 0 THEN 0 ELSE (10 * f[i - 1]) + DigitOf[digits[i]]
  <2>1. ASSUME NEW i \in 0 .. size PROVE C(i) = D(i)
    <3>1. i # 0 => i \in 1 .. size
      BY <1>0
    <3> QED BY <1>3, <3>1
  <2>2. Codes(f) = [i \in 0 .. size |-> C(i)] /\ Sums(digits, f) = [i \in 0 .. size |-> D(i)]
    BY DEF Sums, size
  <2> HIDE DEF C, D, Codes
  <2> QED BY <2>1, <2>2
<1>5. PICK f : f = Sums(digits, f) /\ NumberIn(digits) = f[size]
  BY SumsDefined DEF size
<1>6. \E x : x = Codes(x)
  <2> HIDE DEF Codes
  <2> QED BY <1>4, <1>5
<1> HIDE DEF Codes
<1>7. g = Codes(g)
  BY <1>6
<1> HIDE DEF g
<1>8. g = Sums(digits, g)
  BY <1>4, <1>7
<1>9. f[size] = g[size]
  BY <1>5, <1>8, OneSum DEF size
<1> QED BY <1>1, <1>5, <1>9

\* parseBigIntFromBuffer: the short way comes to what the sum of the codes does.
LEMMA IntegersAgree ==
    ASSUME NEW S, NEW text \in Seq(S)
    PROVE  ParseBigIntFromBuffer(text) = SlowBigInt(text)
<1> DEFINE minus == text # <<>> /\ text[1] = "-"
           digits == IF minus THEN Tail(text) ELSE text
           short == /\ Len(text) <= NumberDigits + 1 /\ Len(digits) <= NumberDigits
                    /\ \A i \in DOMAIN digits : IsDigit(digits[i])
<1>1. /\ ParseBigIntFromBuffer(text) =
            IF short THEN IF minus THEN -NumberIn(digits) ELSE NumberIn(digits) ELSE SlowBigInt(text)
      /\ SlowBigInt(text) = IF minus THEN -SumOfCodes(digits) ELSE SumOfCodes(digits)
  BY DEF ParseBigIntFromBuffer, SlowBigInt
<1>2. ASSUME short PROVE digits \in Seq(Digit)
  <2>1. digits \in Seq(S)
    <3>1. minus => Tail(text) \in Seq(S)
      BY HeadTailProperties
    <3> QED BY <3>1
  <2>2. \A i \in DOMAIN digits : IsDigit(digits[i])
    BY <1>2
  <2> HIDE DEF digits
  <2>3. DOMAIN digits = 1 .. Len(digits)
    BY <2>1, LenProperties
  <2>4. \A i \in 1 .. Len(digits) : digits[i] \in Digit
    BY <2>2, <2>3 DEF IsDigit, Digit
  <2> QED BY <2>1, <2>4
<1>3. short => SumOfCodes(digits) = NumberIn(digits)
  <2> HIDE DEF short, digits
  <2> QED BY <1>2, CodesOfDigits
<1> HIDE DEF minus, digits, short
<1> QED BY <1>1, <1>3

-----------------------------------------------------------------------------

\* ShortcutsAgree: whichever way a text of a timestamp, a date, a time or an integer
\* goes, of any length and whatever is in it, the answer is that of the general way.
THEOREM ShortcutsTaken == Spec => []ShortcutsAgree
<1>1. Init => ShortcutsAgree
  BY DEF Init, NoCall, ShortcutsAgree
<1>2. ASSUME ShortcutsAgree, [Next]_vars PROVE ShortcutsAgree'
  <2>1. CASE Next
    <3>1. CASE Return
      BY <3>1 DEF Return, NoCall, ShortcutsAgree
    <3>2. ASSUME NEW q \in Queries, Query(q) PROVE ShortcutsAgree'
      BY <3>2 DEF Query, ShortcutsAgree
    <3>3. ASSUME NEW n \in Numerics, ReadNumeric(n) PROVE ShortcutsAgree'
      BY <3>3 DEF ReadNumeric, ShortcutsAgree
    <3>4. ASSUME NEW count \in Counts, ReadInstant(count) PROVE ShortcutsAgree'
      BY <3>4 DEF ReadInstant, ShortcutsAgree
    <3>5. ASSUME NEW count \in Counts, NEW months \in Months, ReadInterval(count, months) PROVE ShortcutsAgree'
      BY <3>5 DEF ReadInterval, ShortcutsAgree
    <3>6. ASSUME NEW count \in Counts, NEW zone \in Zones, ReadTimetz(count, zone) PROVE ShortcutsAgree'
      BY <3>6 DEF ReadTimetz, ShortcutsAgree
    <3>7. ASSUME NEW text \in Timestamps, ReadText("timestamp", text) PROVE ShortcutsAgree'
      <4>1. text \in Seq(STRING)
        BY TextAssumption
      <4>2. ParseTimestampText(text) = NormalizeTimestampText(text)
        BY <4>1, TimestampsAgree
      <4>3. call' = [op |-> "timestamp", text |-> text] /\ answer' = ParseTimestampText(text)
        BY <3>7 DEF ReadText
      <4> QED BY <4>2, <4>3 DEF ShortcutsAgree
    <3>8. ASSUME NEW text \in Dates, ReadText("date", text) PROVE ShortcutsAgree'
      <4>1. text \in Seq(STRING)
        BY TextAssumption
      <4>2. ParseDateText(text) =
              IF Shape(Trim(text)) = DateShape THEN NormalizeTimestampText(text) ELSE NaN
        BY <4>1, DatesAgree
      <4>3. call' = [op |-> "date", text |-> text] /\ answer' = ParseDateText(text)
        BY <3>8 DEF ReadText
      <4> QED BY <4>2, <4>3 DEF ShortcutsAgree
    <3>9. ASSUME NEW text \in Times, ReadText("time", text) PROVE ShortcutsAgree'
      <4>1. text \in Seq(STRING)
        BY TextAssumption
      <4>2. ParseTimeString(text) = GeneralTime(text)
        BY <4>1, TimesAgree
      <4>3. call' = [op |-> "time", text |-> text] /\ answer' = ParseTimeString(text)
        BY <3>9 DEF ReadText
      <4> QED BY <4>2, <4>3 DEF ShortcutsAgree
    <3>10. ASSUME NEW text \in IntegerTexts, ReadText("integer", text) PROVE ShortcutsAgree'
      <4>1. text \in Seq(STRING)
        BY TextAssumption
      <4>2. ParseBigIntFromBuffer(text) = SlowBigInt(text)
        BY <4>1, IntegersAgree
      <4>3. call' = [op |-> "integer", text |-> text] /\ answer' = [value |-> ParseBigIntFromBuffer(text)]
        BY <3>10 DEF ReadText
      <4> QED BY <4>2, <4>3 DEF ShortcutsAgree
    <3>11. ASSUME NEW refusal \in Refusals, ReadRefusal(refusal) PROVE ShortcutsAgree'
      BY <3>11 DEF ReadRefusal, ShortcutsAgree
    <3> QED BY <2>1, <3>1, <3>2, <3>3, <3>4, <3>5, <3>6, <3>7, <3>8, <3>9, <3>10, <3>11 DEF Next, Call
  <2>2. CASE UNCHANGED vars
    BY <1>2, <2>2 DEF vars, ShortcutsAgree
  <2> QED BY <1>2, <2>1, <2>2
<1> QED BY <1>1, <1>2, PTL DEF Spec

-----------------------------------------------------------------------------
(* Intervals and zones: the fields of a time *)

\* Division leaves a rest.
LEMMA DivisionLeaves ==
    ASSUME NEW m \in Nat \ {0}, NEW x \in Nat
    PROVE  /\ x \div m \in Nat /\ x % m \in 0 .. m - 1
           /\ x = (m * (x \div m)) + (x % m)
<1>1. x \div m \in Int /\ x % m \in 0 .. m - 1 /\ x = (m * (x \div m)) + (x % m)
  BY SMT
<1>2. x \div m >= 0
  BY SMT
<1> QED BY <1>1, <1>2

\* Hours, minutes and seconds, of any number of minutes to the hour.
LEMMA FieldsOfTime ==
    ASSUME NEW b \in Nat \ {0}, NEW t \in Nat
    PROVE  LET h == t \div (b * b)
               m == (t - ((b * b) * h)) \div b
               s == t - (b * (t \div b))
           IN  /\ (((h * b) + m) * b) + s = t
               /\ h \in Nat /\ m \in 0 .. b - 1 /\ s \in 0 .. b - 1
               /\ t - ((b * b) * h) \in Nat
<1> DEFINE bb == b * b
           h == t \div bb
           r == t - (bb * h)
           m == r \div b
           s == t - (b * (t \div b))
           u == r % b
<1>1. bb \in Nat \ {0}
  BY SMT
<1>2. h \in Nat /\ r \in 0 .. bb - 1 /\ t = (bb * h) + r
  <2> HIDE DEF bb
  <2>1. t \div bb \in Nat /\ t % bb \in 0 .. bb - 1 /\ t = (bb * (t \div bb)) + (t % bb)
    BY <1>1, DivisionLeaves
  <2> DEFINE c == bb * (t \div bb)
             e == t % bb
  <2>2. c \in Int
    BY <1>1, <2>1
  <2>3. e \in 0 .. bb - 1 /\ t = c + e
    BY <2>1
  <2> HIDE DEF c, e
  <2>4. t - c = e
    BY <1>1, <2>2, <2>3
  <2> QED BY <1>1, <2>1, <2>3, <2>4 DEF c
<1> HIDE DEF h, r
<1>3. m \in Nat /\ u \in 0 .. b - 1 /\ r = (b * m) + u
  <2> HIDE DEF bb
  <2>1. r \in Nat
    BY <1>1, <1>2
  <2> QED BY <2>1, DivisionLeaves
<1> HIDE DEF m, u
<1>4. m < b
  <2>1. ASSUME m >= b PROVE FALSE
    <3>1. b * m >= b * b
      BY <1>3, <2>1, SMT
    <3>2. r >= b * b
      BY <1>2, <1>3, <3>1
    <3> QED BY <1>1, <1>2, <3>2 DEF bb
  <2> QED BY <1>3, <2>1
<1> DEFINE a == (b * h) + m
<1>5. a \in Int /\ t = (a * b) + u
  BY <1>2, <1>3, SMT DEF bb
<1> HIDE DEF a
<1>6. t \div b = a
  <2>1. ((a * b) + u) \div b = a + (u \div b)
    BY <1>3, <1>5, WholeTicks
  <2>2. u \div b = 0
    BY <1>3, SMT
  <2> QED BY <1>5, <2>1, <2>2
<1>7. s = u
  <2>1. b * a = a * b /\ a * b \in Int
    BY <1>5, SMT
  <2> DEFINE p == a * b
  <2> HIDE DEF p
  <2>2. t = p + u /\ p \in Int /\ b * a = p
    BY <1>5, <2>1 DEF p
  <2>3. t - p = u
    BY <1>3, <2>2
  <2> QED BY <1>6, <2>2, <2>3
<1>8. ((h * b) + m) * b = a * b
  BY <1>2, <1>3, SMT DEF a
<1>9. (((h * b) + m) * b) + s = t
  BY <1>5, <1>7, <1>8
<1>10. m \in 0 .. b - 1 /\ s \in 0 .. b - 1 /\ r \in Nat
  BY <1>2, <1>3, <1>4, <1>7
<1> HIDE DEF s
<1> QED BY <1>2, <1>9, <1>10, Zenon DEF h, r, m, s, bb

\* The time of an interval is its count of microseconds.
LEMMA TimePutTogether ==
    ASSUME NEW hi \in Nat, NEW lo \in Nat
    PROVE  LET time == TimeRecvFloat(hi, lo)
           IN  /\ (TimeFields(time) * Second) + time.microseconds = (hi * Word) + lo
               /\ time.minutes \in 0 .. Sixty - 1 /\ time.seconds \in 0 .. Sixty - 1
               /\ time.microseconds \in 0 .. Second - 1
<1> DEFINE time == TimeRecvFloat(hi, lo)
           micros == (hi * Word) + lo
           total == micros \div Second
           hour == Sixty * Sixty
<1>1. micros \in Nat
  <2>1. Word \in Nat
    BY WordAssumption, SMT DEF Word
  <2> QED BY <2>1, SMT
<1>2. Second \in Nat \ {0} /\ Sixty \in Nat \ {0}
  BY TimeAssumption
<1>3. hour \in Nat \ {0}
  BY <1>2, SMT
<1> HIDE DEF micros
<1>4. /\ total \in Nat /\ micros % Second \in 0 .. Second - 1
      /\ micros = (Second * total) + (micros % Second)
  BY <1>1, <1>2, DivisionLeaves
<1>5. Trunc(micros, Second) = total
  BY <1>1 DEF Trunc
<1> HIDE DEF total, hour
<1>6. Rem(total, hour) = total - (hour * (total \div hour)) /\ Rem(total, Sixty) = total - (Sixty * (total \div Sixty))
  BY <1>4 DEF Rem, Trunc
<1>7. time = [hours |-> total \div hour, minutes |-> Rem(total, hour) \div Sixty,
              seconds |-> Rem(total, Sixty), microseconds |-> micros - (total * Second)]
  BY <1>5, Zenon DEF TimeRecvFloat, micros, hour
<1>8. /\ time.hours = total \div hour /\ time.minutes = (total - (hour * (total \div hour))) \div Sixty
      /\ time.seconds = total - (Sixty * (total \div Sixty)) /\ time.microseconds = micros - (total * Second)
  <2> HIDE DEF time
  <2> QED BY <1>6, <1>7
<1> HIDE DEF time
<1>9. /\ (((time.hours * Sixty) + time.minutes) * Sixty) + time.seconds = total
      /\ time.minutes \in 0 .. Sixty - 1 /\ time.seconds \in 0 .. Sixty - 1
  <2> DEFINE h == total \div (Sixty * Sixty)
             m == (total - ((Sixty * Sixty) * h)) \div Sixty
             s == total - (Sixty * (total \div Sixty))
  <2>1. (((h * Sixty) + m) * Sixty) + s = total /\ m \in 0 .. Sixty - 1 /\ s \in 0 .. Sixty - 1
    BY <1>2, <1>4, FieldsOfTime
  <2>2. time.hours = h /\ time.minutes = m /\ time.seconds = s
    BY <1>8, Zenon DEF hour
  <2> HIDE DEF h, m, s
  <2> QED BY <2>1, <2>2, Zenon
<1>10. TimeFields(time) = total
  BY <1>9 DEF TimeFields
<1> DEFINE whole == total * Second
<1>11. whole \in Int /\ micros = whole + (micros % Second)
  BY <1>2, <1>4, SMT
<1> HIDE DEF whole
<1>12. time.microseconds = micros - whole
  BY <1>8 DEF whole
<1>13. time.microseconds = micros % Second
  BY <1>1, <1>2, <1>4, <1>11, <1>12
<1>14. whole + time.microseconds = micros
  BY <1>11, <1>13
<1> QED BY <1>4, <1>9, <1>10, <1>13, <1>14 DEF time, whole, micros

\* And its years and months are its months.
LEMMA MonthsPutTogether ==
    ASSUME NEW hi, NEW lo, NEW months \in Nat
    PROVE  LET interval == IntervalRecvFloat(hi, lo, months)
           IN  /\ (interval.years * Dozen) + interval.mons = months
               /\ interval.mons \in 0 .. Dozen - 1
               /\ interval.time = TimeRecvFloat(hi, lo)
<1> DEFINE interval == IntervalRecvFloat(hi, lo, months)
           q == months \div Dozen
           r == months % Dozen
<1>1. Dozen \in Nat \ {0}
  BY TimeAssumption
<1>2. q \in Nat /\ r \in 0 .. Dozen - 1 /\ months = (Dozen * q) + r
  BY <1>1, DivisionLeaves
<1>3. Rem(months, Dozen) = months - (Dozen * q)
  BY DEF Rem, Trunc
<1> HIDE DEF q, r
<1>4. (IF q > 0 THEN q ELSE 0) = q
  BY <1>2
<1>5. interval = [years |-> q, mons |-> months - (Dozen * q), time |-> TimeRecvFloat(hi, lo)]
  <2>1. interval = [years |-> IF q > 0 THEN q ELSE 0, mons |-> Rem(months, Dozen), time |-> TimeRecvFloat(hi, lo)]
    BY DEF IntervalRecvFloat, q
  <2> HIDE DEF interval
  <2> QED BY <1>3, <1>4, <2>1
<1> HIDE DEF interval
<1>6. interval.years = q /\ interval.mons = months - (Dozen * q) /\ interval.time = TimeRecvFloat(hi, lo)
  BY <1>5
<1> DEFINE whole == Dozen * q
<1>7. whole \in Int /\ q * Dozen = whole
  BY <1>1, <1>2, SMT
<1>8. months = whole + r
  BY <1>2
<1> HIDE DEF whole
<1>9. months - whole = r /\ whole + (months - whole) = months
  BY <1>1, <1>2, <1>7, <1>8
<1>10. interval.mons = r /\ (interval.years * Dozen) + interval.mons = months
  BY <1>6, <1>7, <1>9 DEF whole
<1> QED BY <1>2, <1>6, <1>10 DEF interval

\* Hours, minutes, seconds and sign of a zone are its offset.
LEMMA ZonePutTogether ==
    ASSUME NEW hi, NEW lo, NEW zone \in Int
    PROVE  LET zoned == TimetzOutput(hi, lo, zone)
           IN  TimeFields(zoned) * (IF zoned.sign = "-" THEN 1 ELSE -1) = zone
<1> DEFINE zoned == TimetzOutput(hi, lo, zone)
           z == Magnitude(zone)
           hour == Sixty * Sixty
           sign == IF zone < 0 THEN "+" ELSE "-"
<1>1. Sixty \in Nat \ {0} /\ hour \in Nat \ {0}
  BY TimeAssumption, SMT
<1>2. z \in Nat /\ (zone < 0 => z * (-1) = zone) /\ (~(zone < 0) => z * 1 = zone)
  BY DEF Magnitude
<1>3. zoned = [time |-> TimeRecvFloat(hi, lo), sign |-> sign, hours |-> z \div hour,
               minutes |-> (z % hour) \div Sixty, seconds |-> z % Sixty]
  BY DEF TimetzOutput
<1> HIDE DEF zoned, z, hour
<1>4. zoned.sign = sign /\ zoned.hours = z \div hour /\ zoned.minutes = (z % hour) \div Sixty /\ zoned.seconds = z % Sixty
  <2> HIDE DEF sign
  <2> QED BY <1>3
<1>5. z % hour = z - (hour * (z \div hour)) /\ z % Sixty = z - (Sixty * (z \div Sixty))
  <2>1. ASSUME NEW b \in Nat \ {0} PROVE z % b = z - (b * (z \div b))
    <3>1. z = (b * (z \div b)) + (z % b) /\ z \div b \in Nat /\ z % b \in 0 .. b - 1
      BY <1>2, DivisionLeaves
    <3> DEFINE c == b * (z \div b)
               e == z % b
    <3>2. c \in Int /\ e \in Int /\ z = c + e
      BY <2>1, <3>1, SMT
    <3> HIDE DEF c, e
    <3>3. e = z - c
      BY <1>2, <3>2
    <3> QED BY <3>3 DEF c, e
  <2> QED BY <1>1, <2>1
<1>6. (((zoned.hours * Sixty) + zoned.minutes) * Sixty) + zoned.seconds = z
  <2> DEFINE h == z \div (Sixty * Sixty)
             m == (z - ((Sixty * Sixty) * h)) \div Sixty
             s == z - (Sixty * (z \div Sixty))
  <2>1. (((h * Sixty) + m) * Sixty) + s = z
    BY <1>1, <1>2, FieldsOfTime
  <2>2. zoned.hours = h /\ zoned.minutes = m /\ zoned.seconds = s
    BY <1>4, <1>5, Zenon DEF hour
  <2> HIDE DEF h, m, s
  <2> QED BY <2>1, <2>2, Zenon
<1>7. TimeFields(zoned) = z
  BY <1>6 DEF TimeFields
<1>8. (IF zoned.sign = "-" THEN 1 ELSE -1) = IF zone < 0 THEN -1 ELSE 1
  BY <1>4 DEF sign
<1>9. z * (IF zone < 0 THEN -1 ELSE 1) = zone
  BY <1>2
<1>10. TimeFields(zoned) * (IF zoned.sign = "-" THEN 1 ELSE -1) = zone
  BY <1>7, <1>8, <1>9, Zenon
<1> QED BY <1>10 DEF zoned

\* IntervalExact: every interval of every row that is not negative can be put
\* together again from the parts the caller is given (intervalRecvFloat).
THEOREM IntervalsExact == Spec => []IntervalExact
<1>1. Init => IntervalExact
  BY DEF Init, NoCall, IntervalExact
<1>2. ASSUME IntervalExact, [Next]_vars PROVE IntervalExact'
  <2>1. CASE Next
    <3>1. CASE Return
      BY <3>1 DEF Return, NoCall, IntervalExact
    <3>2. ASSUME NEW q \in Queries, Query(q) PROVE IntervalExact'
      BY <3>2 DEF Query, IntervalExact
    <3>3. ASSUME NEW n \in Numerics, ReadNumeric(n) PROVE IntervalExact'
      BY <3>3 DEF ReadNumeric, IntervalExact
    <3>4. ASSUME NEW count \in Counts, ReadInstant(count) PROVE IntervalExact'
      BY <3>4 DEF ReadInstant, IntervalExact
    <3>5. ASSUME NEW count \in Counts, NEW months \in Months, ReadInterval(count, months) PROVE IntervalExact'
      <4> DEFINE interval == IntervalRecvFloat(count.hi, count.lo, months)
      <4>1. /\ call' = [op |-> "interval", hi |-> count.hi, lo |-> count.lo, months |-> months]
            /\ answer' = interval
        BY <3>5 DEF ReadInterval
      <4>2. count.hi \in Int /\ count.lo \in Nat /\ months \in Int
        BY WordAssumption, TimeAssumption
      <4> HIDE DEF interval
      <4>3. call'.op = "interval" /\ call'.hi = count.hi /\ call'.lo = count.lo /\ call'.months = months
        BY <4>1
      <4>4. ASSUME count.hi >= 0, months >= 0
            PROVE  /\ (interval.years * Dozen) + interval.mons = months /\ interval.mons \in 0 .. Dozen - 1
                   /\ (TimeFields(interval.time) * Second) + interval.time.microseconds = (count.hi * Word) + count.lo
                   /\ interval.time.minutes \in 0 .. Sixty - 1 /\ interval.time.seconds \in 0 .. Sixty - 1
                   /\ interval.time.microseconds \in 0 .. Second - 1
        <5>1. count.hi \in Nat /\ months \in Nat
          BY <4>2, <4>4
        <5>2. /\ (interval.years * Dozen) + interval.mons = months
              /\ interval.mons \in 0 .. Dozen - 1
              /\ interval.time = TimeRecvFloat(count.hi, count.lo)
          BY <5>1, MonthsPutTogether DEF interval
        <5> DEFINE time == TimeRecvFloat(count.hi, count.lo)
        <5>3. /\ (TimeFields(time) * Second) + time.microseconds = (count.hi * Word) + count.lo
              /\ time.minutes \in 0 .. Sixty - 1 /\ time.seconds \in 0 .. Sixty - 1
              /\ time.microseconds \in 0 .. Second - 1
          BY <4>2, <5>1, TimePutTogether
        <5>4. interval.time = time
          BY <5>2
        <5> HIDE DEF time
        <5> QED BY <5>2, <5>3, <5>4, Zenon
      <4> QED BY <4>1, <4>3, <4>4, Zenon DEF IntervalExact
    <3>6. ASSUME NEW count \in Counts, NEW zone \in Zones, ReadTimetz(count, zone) PROVE IntervalExact'
      BY <3>6 DEF ReadTimetz, IntervalExact
    <3>7. ASSUME NEW op \in {"timestamp", "date", "time", "integer"}, NEW text, ReadText(op, text)
          PROVE  IntervalExact'
      BY <3>7 DEF ReadText, IntervalExact
    <3>8. ASSUME NEW refusal \in Refusals, ReadRefusal(refusal) PROVE IntervalExact'
      BY <3>8 DEF ReadRefusal, IntervalExact
    <3> QED BY <2>1, <3>1, <3>2, <3>3, <3>4, <3>5, <3>6, <3>7, <3>8 DEF Next, Call
  <2>2. CASE UNCHANGED vars
    BY <1>2, <2>2 DEF vars, IntervalExact, TimeFields
  <2> QED BY <1>2, <2>1, <2>2
<1> QED BY <1>1, <1>2, PTL DEF Spec

\* ZoneExact: the hours, minutes and seconds of a zone with their sign are the
\* offset of the server, east and west of Greenwich (timetzOutput).
THEOREM ZonesExact == Spec => []ZoneExact
<1>1. Init => ZoneExact
  BY DEF Init, NoCall, ZoneExact
<1>2. ASSUME ZoneExact, [Next]_vars PROVE ZoneExact'
  <2>1. CASE Next
    <3>1. CASE Return
      BY <3>1 DEF Return, NoCall, ZoneExact
    <3>2. ASSUME NEW q \in Queries, Query(q) PROVE ZoneExact'
      BY <3>2 DEF Query, ZoneExact
    <3>3. ASSUME NEW n \in Numerics, ReadNumeric(n) PROVE ZoneExact'
      BY <3>3 DEF ReadNumeric, ZoneExact
    <3>4. ASSUME NEW count \in Counts, ReadInstant(count) PROVE ZoneExact'
      BY <3>4 DEF ReadInstant, ZoneExact
    <3>5. ASSUME NEW count \in Counts, NEW months \in Months, ReadInterval(count, months) PROVE ZoneExact'
      BY <3>5 DEF ReadInterval, ZoneExact
    <3>6. ASSUME NEW count \in Counts, NEW zone \in Zones, ReadTimetz(count, zone) PROVE ZoneExact'
      <4> DEFINE zoned == TimetzOutput(count.hi, count.lo, zone)
      <4>1. /\ call' = [op |-> "timetz", hi |-> count.hi, lo |-> count.lo, zone |-> zone]
            /\ answer' = zoned
        BY <3>6 DEF ReadTimetz
      <4>2. zone \in Int
        BY TimeAssumption
      <4>3. TimeFields(zoned) * (IF zoned.sign = "-" THEN 1 ELSE -1) = zone
        BY <4>2, ZonePutTogether
      <4> HIDE DEF zoned
      <4>4. call'.zone = zone
        BY <4>1
      <4> QED BY <4>1, <4>3, <4>4, Zenon DEF ZoneExact
    <3>7. ASSUME NEW op \in {"timestamp", "date", "time", "integer"}, NEW text, ReadText(op, text)
          PROVE  ZoneExact'
      BY <3>7 DEF ReadText, ZoneExact
    <3>8. ASSUME NEW refusal \in Refusals, ReadRefusal(refusal) PROVE ZoneExact'
      BY <3>8 DEF ReadRefusal, ZoneExact
    <3> QED BY <2>1, <3>1, <3>2, <3>3, <3>4, <3>5, <3>6, <3>7, <3>8 DEF Next, Call
  <2>2. CASE UNCHANGED vars
    BY <1>2, <2>2 DEF vars, ZoneExact, TimeFields
  <2> QED BY <1>2, <2>1, <2>2
<1> QED BY <1>1, <1>2, PTL DEF Spec
=============================================================================
