---------------------------- MODULE Response_proofs ----------------------------
(***************************************************************************)
(* For every response that is framed as the protocol says, every size of   *)
(* the pieces it arrives in and every size of the read buffer: what each   *)
(* operation of the buffer does to the bytes that are left to read, that   *)
(* buffer and socket together are one queue of bytes, that the generator   *)
(* stays on the boundaries of the frames, how large the buffer gets, and   *)
(* which rows the caller is given.                                         *)
(***************************************************************************)
EXTENDS Response, SequenceTheorems, FiniteSetTheorems, TLAPS

-----------------------------------------------------------------------------
(* The read buffer *)

LEMMA SliceTyped ==
    ASSUME NEW Octet, NEW s \in Seq(Octet), NEW i \in Nat, NEW j \in Nat, i <= j, j <= Len(s)
    PROVE  /\ SubSeq(s, i + 1, j) \in Seq(Octet)
           /\ Len(SubSeq(s, i + 1, j)) = j - i
           /\ \A k \in 1 .. j - i : SubSeq(s, i + 1, j)[k] = s[i + k]
<1>1. \A k \in i + 1 .. j : s[k] \in Octet
    BY SMT
<1>2. /\ SubSeq(s, i + 1, j) \in Seq(Octet)
      /\ Len(SubSeq(s, i + 1, j)) = IF i + 1 <= j THEN j - (i + 1) + 1 ELSE 0
      /\ \A k \in 1 .. j - (i + 1) + 1 : SubSeq(s, i + 1, j)[k] = s[(i + 1) + k - 1]
    BY <1>1, SubSeqProperties
<1>3. \A k \in 1 .. j - i : k \in 1 .. j - (i + 1) + 1 /\ (i + 1) + k - 1 = i + k
    BY SMT
<1>4. (IF i + 1 <= j THEN j - (i + 1) + 1 ELSE 0) = j - i
    BY SMT
<1> QED
    BY <1>2, <1>3, <1>4, Zenon

LEMMA RestOfSlice ==
    ASSUME NEW Octet, NEW s \in Seq(Octet), NEW i \in Nat, NEW j \in Nat, NEW n \in Nat,
           i + n <= j, j <= Len(s)
    PROVE  SubSeq(s, i + n + 1, j) = SubSeq(SubSeq(s, i + 1, j), n + 1, j - i)
<1> DEFINE t == SubSeq(s, i + 1, j)
           u == SubSeq(t, n + 1, j - i)
           v == SubSeq(s, (i + n) + 1, j)
<1>0. i <= j /\ i + n \in Nat /\ j - i \in Nat /\ n <= j - i
    BY SMT
<1>1. t \in Seq(Octet) /\ Len(t) = j - i /\ \A k \in 1 .. j - i : t[k] = s[i + k]
    BY <1>0, SliceTyped
<1> HIDE DEF t
<1>2. u \in Seq(Octet) /\ Len(u) = j - i - n /\ \A k \in 1 .. j - i - n : u[k] = t[n + k]
    BY <1>0, <1>1, SliceTyped
<1>3. v \in Seq(Octet) /\ Len(v) = j - (i + n) /\ \A k \in 1 .. j - (i + n) : v[k] = s[(i + n) + k]
    BY <1>0, SliceTyped
<1> HIDE DEF u, v
<1>4. ASSUME NEW k \in 1 .. j - i - n PROVE u[k] = v[k]
  <2>1. n + k \in 1 .. j - i /\ k \in 1 .. j - (i + n) /\ i + (n + k) = (i + n) + k
    BY SMT
  <2>2. u[k] = t[n + k] /\ t[n + k] = s[i + (n + k)] /\ v[k] = s[(i + n) + k]
    BY <1>1, <1>2, <1>3, <2>1, Zenon
  <2> QED
    BY <2>1, <2>2
<1>5. Len(u) = j - i - n /\ Len(v) = j - i - n
    BY <1>2, <1>3, SMT
<1>6. u = v
    BY <1>2, <1>3, <1>4, <1>5, SeqEqual, Zenon
<1> QED
    BY <1>6 DEF t, u, v

LEMMA CopiedTyped ==
    ASSUME NEW Octet, NEW s \in Seq(Octet), NEW d \in Seq(Octet), NEW at \in Nat
    PROVE  /\ Copied(s, d, at) \in Seq(Octet)
           /\ Len(Copied(s, d, at)) = Len(d)
           /\ \A i \in 1 .. Len(d) : Copied(s, d, at)[i] =
                 IF i > at /\ i <= at + Len(s) THEN s[i - at] ELSE d[i]
    BY SMT DEF Copied

LEMMA SliceExtended ==
    ASSUME NEW Octet, NEW s \in Seq(Octet), NEW c \in Seq(Octet),
           NEW i \in Nat, NEW j \in Nat, i <= j, j + Len(c) <= Len(s)
    PROVE  SubSeq(Copied(c, s, j), i + 1, j + Len(c)) = SubSeq(s, i + 1, j) \o c
<1> DEFINE d == Copied(c, s, j)
           t == SubSeq(s, i + 1, j)
           u == t \o c
           v == SubSeq(d, i + 1, j + Len(c))
<1>7. /\ d \in Seq(Octet) /\ Len(d) = Len(s)
      /\ \A k \in 1 .. Len(s) : d[k] = IF k > j /\ k <= j + Len(c) THEN c[k - j] ELSE s[k]
    BY CopiedTyped
<1> HIDE DEF d
<1>0. /\ Len(c) \in Nat /\ Len(s) \in Nat /\ j <= Len(s)
      /\ j + Len(c) \in Nat /\ i <= j + Len(c) /\ j + Len(c) <= Len(d)
    BY <1>7, SMT
<1>1. t \in Seq(Octet) /\ Len(t) = j - i /\ \A k \in 1 .. j - i : t[k] = s[i + k]
    BY <1>0, SliceTyped
<1> HIDE DEF t
<1>2. /\ u \in Seq(Octet) /\ Len(u) = Len(t) + Len(c)
      /\ \A k \in 1 .. Len(t) + Len(c) : u[k] = IF k <= Len(t) THEN t[k] ELSE c[k - Len(t)]
    BY <1>1, ConcatProperties, ZenonT(60)
<1>3. /\ v \in Seq(Octet) /\ Len(v) = (j + Len(c)) - i
      /\ \A k \in 1 .. (j + Len(c)) - i : v[k] = d[i + k]
    BY <1>0, <1>7, SliceTyped
<1> HIDE DEF u, v
<1>4. Len(u) = Len(v)
    BY <1>0, <1>1, <1>2, <1>3, SMTT(30)
<1>5. ASSUME NEW k \in 1 .. Len(u) PROVE u[k] = v[k]
  <2>1. /\ k \in Int /\ k \in 1 .. Len(t) + Len(c) /\ k \in 1 .. (j + Len(c)) - i
        /\ i + k \in 1 .. Len(s) /\ i + k <= j + Len(c)
    BY <1>0, <1>1, <1>2, SMT
  <2>2. v[k] = IF i + k > j /\ i + k <= j + Len(c) THEN c[(i + k) - j] ELSE s[i + k]
    BY <1>3, <1>7, <2>1, Zenon
  <2>3. u[k] = IF k <= Len(t) THEN t[k] ELSE c[k - Len(t)]
    BY <1>2, <2>1, Zenon
  <2>4. CASE k <= j - i
    <3>1. ~(i + k > j) /\ k \in 1 .. j - i /\ k <= Len(t)
        BY <1>0, <1>1, <2>1, <2>4, SMT
    <3> QED
        BY <1>1, <2>2, <2>3, <3>1, Zenon
  <2>5. CASE ~(k <= j - i)
    <3>1. i + k > j /\ ~(k <= Len(t)) /\ (i + k) - j = k - Len(t)
        BY <1>0, <1>1, <2>1, <2>5, SMT
    <3> QED
        BY <2>1, <2>2, <2>3, <3>1, Zenon
  <2> QED
    BY <2>4, <2>5
<1>6. u = v
    BY <1>2, <1>3, <1>4, <1>5, SeqEqual, Zenon
<1> QED
    BY <1>6 DEF d, t, u, v

\* The offsets lie within the memory, the unread bytes between them.
Buffers(Octet) ==
    {b \in [data : Seq(Octet), start : Nat, end : Nat] : b.start <= b.end /\ b.end <= Len(b.data)}

LEMMA ContentTyped ==
    ASSUME NEW Octet, NEW b \in Buffers(Octet)
    PROVE  /\ Content(b) \in Seq(Octet)
           /\ Len(Content(b)) = Buffered(b)
           /\ Buffered(b) \in Nat /\ Capacity(b) \in Nat
           /\ \A i \in 1 .. Buffered(b) : Content(b)[i] = b.data[b.start + i]
    BY SMT DEF Buffers, Content, Buffered, Capacity

LEMMA FreshTyped ==
    ASSUME NEW Octet, Garbage \in Octet, NEW size \in Nat
    PROVE  Fresh(size) \in Seq(Octet) /\ Len(Fresh(size)) = size
    BY SMT DEF Fresh

\* Moving the unread bytes to other memory changes nothing for a reader.
LEMMA MovedKeepsContent ==
    ASSUME NEW Octet, NEW b \in Buffers(Octet), NEW memory \in Seq(Octet),
           Buffered(b) <= Len(memory)
    PROVE  /\ MovedTo(memory, b) \in Buffers(Octet)
           /\ Content(MovedTo(memory, b)) = Content(b)
           /\ MovedTo(memory, b).end = Buffered(b) /\ MovedTo(memory, b).start = 0
           /\ Capacity(MovedTo(memory, b)) = Len(memory)
<1> DEFINE c == Content(b)
           d == Copied(c, memory, 0)
           m == MovedTo(memory, b)
<1>1. c \in Seq(Octet) /\ Len(c) = Buffered(b) /\ Buffered(b) \in Nat
    BY ContentTyped
<1>2. /\ d \in Seq(Octet) /\ Len(d) = Len(memory)
      /\ \A i \in 1 .. Len(memory) : d[i] = IF i > 0 /\ i <= 0 + Len(c) THEN c[i - 0] ELSE memory[i]
    BY <1>1, CopiedTyped
<1>3. m = [data |-> d, start |-> 0, end |-> Buffered(b)]
    BY DEF MovedTo
<1>4. \A i \in 1 .. Len(c) : d[i] = c[i]
    BY <1>1, <1>2, SMT
<1> HIDE DEF c, d, m
<1>5. SubSeq(d, 1, Len(c)) = c
    BY <1>1, <1>2, <1>4, SMT
<1>6. m \in Buffers(Octet)
    BY <1>1, <1>2, <1>3, SMT DEF Buffers
<1>7. Content(m) = c
    BY <1>1, <1>3, <1>5, SMT DEF Content
<1> QED
    BY <1>2, <1>3, <1>6, <1>7 DEF c, m, Capacity

\* Compacting and growing change nothing for a reader, and make the room asked
\* for (_ensureReadBufferCapacity).
LEMMA EnsureKeepsContent ==
    ASSUME NEW Octet, Garbage \in Octet, NEW b \in Buffers(Octet), NEW needed \in Int
    PROVE  /\ EnsureCapacity(b, needed) \in Buffers(Octet)
           /\ Content(EnsureCapacity(b, needed)) = Content(b)
           /\ Buffered(EnsureCapacity(b, needed)) = Buffered(b)
           /\ Capacity(EnsureCapacity(b, needed)) - EnsureCapacity(b, needed).end >= needed
           /\ Capacity(EnsureCapacity(b, needed)) >= Capacity(b)
<1> DEFINE size == Larger(Larger(Capacity(b) * 2, Buffered(b) + needed), InitialSize)
<1>1. /\ Buffered(b) \in Nat /\ Capacity(b) \in Nat /\ Buffered(b) <= Capacity(b)
      /\ b.end \in Nat /\ b.data \in Seq(Octet) /\ Capacity(b) = Len(b.data)
    BY SMT DEF Buffers, Buffered, Capacity
<1>2. CASE Capacity(b) - b.end >= needed
    BY <1>1, <1>2 DEF EnsureCapacity
<1>3. CASE ~(Capacity(b) - b.end >= needed) /\ Capacity(b) - Buffered(b) >= needed
  <2>1. EnsureCapacity(b, needed) = MovedTo(b.data, b)
    BY <1>3 DEF EnsureCapacity
  <2> DEFINE m == MovedTo(b.data, b)
  <2>2. /\ m \in Buffers(Octet) /\ Content(m) = Content(b) /\ m.end = Buffered(b)
        /\ m.start = 0 /\ Capacity(m) = Capacity(b)
    BY <1>1, MovedKeepsContent
  <2> HIDE DEF m
  <2>3. Buffered(m) = Buffered(b)
    BY <1>1, <2>2 DEF Buffered
  <2> QED
    BY <1>1, <1>3, <2>1, <2>2, <2>3 DEF m
<1>4. CASE ~(Capacity(b) - b.end >= needed) /\ ~(Capacity(b) - Buffered(b) >= needed)
  <2>1. EnsureCapacity(b, needed) = MovedTo(Fresh(size), b)
    BY <1>4 DEF EnsureCapacity
  <2>2. /\ size \in Nat /\ size >= Capacity(b) * 2 /\ size >= Buffered(b) + needed
    BY <1>1, InitialSizeAssumption, SMT DEF Larger
  <2>3. size >= Capacity(b)
    BY <1>1, <2>2, SMT
  <2> HIDE DEF size
  <2>4. Fresh(size) \in Seq(Octet) /\ Len(Fresh(size)) = size
    BY <2>2, FreshTyped
  <2> DEFINE m == MovedTo(Fresh(size), b)
  <2>5. /\ m \in Buffers(Octet) /\ Content(m) = Content(b) /\ m.end = Buffered(b)
        /\ m.start = 0 /\ Capacity(m) = size
    BY <1>1, <2>3, <2>4, MovedKeepsContent
  <2> HIDE DEF m
  <2>6. Buffered(m) = Buffered(b)
    BY <1>1, <2>5 DEF Buffered
  <2> QED
    BY <1>1, <2>1, <2>2, <2>3, <2>5, <2>6 DEF m
<1> QED
    BY <1>2, <1>3, <1>4

LEMMA ReserveKeepsContent ==
    ASSUME NEW Octet, Garbage \in Octet, NEW b \in Buffers(Octet), NEW n \in Int
    PROVE  Reserve(b, n) \in Buffers(Octet) /\ Content(Reserve(b, n)) = Content(b)
<1>1. n - Buffered(b) \in Int
    BY ContentTyped
<1> QED
    BY <1>1, EnsureKeepsContent DEF Reserve

\* A chunk of the socket goes behind the unread bytes, whatever room there was
\* (_appendChunk).
THEOREM ChunkAppended ==
    ASSUME NEW Octet, Garbage \in Octet, NEW b \in Buffers(Octet), NEW chunk \in Seq(Octet)
    PROVE  /\ AppendChunk(b, chunk) \in Buffers(Octet)
           /\ Content(AppendChunk(b, chunk)) = Content(b) \o chunk
<1> DEFINE r == EnsureCapacity(b, Len(chunk))
           d == Copied(chunk, r.data, r.end)
           a == AppendChunk(b, chunk)
<1>1. /\ r \in Buffers(Octet) /\ Content(r) = Content(b)
      /\ Capacity(r) - r.end >= Len(chunk)
    BY EnsureKeepsContent
<1>2. a = [r EXCEPT !.data = d, !.end = r.end + Len(chunk)]
    BY DEF AppendChunk
<1> HIDE DEF r, a
<1>3. /\ r.data \in Seq(Octet) /\ r.start \in Nat /\ r.end \in Nat
      /\ r.start <= r.end /\ r.end + Len(chunk) <= Len(r.data)
      /\ r = [data |-> r.data, start |-> r.start, end |-> r.end]
    BY <1>1, SMT DEF Buffers, Capacity
<1>4. /\ d \in Seq(Octet) /\ Len(d) = Len(r.data)
      /\ \A i \in 1 .. Len(r.data) : d[i] =
            IF i > r.end /\ i <= r.end + Len(chunk) THEN chunk[i - r.end] ELSE r.data[i]
  <2>1. r.data \in Seq(Octet) /\ r.end \in Nat
    BY <1>3
  <2> QED
    BY <2>1, CopiedTyped
<1> HIDE DEF d
<1>5. a = [data |-> d, start |-> r.start, end |-> r.end + Len(chunk)]
    BY <1>2, <1>3
<1>6. a \in Buffers(Octet)
    BY <1>3, <1>4, <1>5, SMT DEF Buffers
<1>7. SubSeq(d, r.start + 1, r.end + Len(chunk)) = SubSeq(r.data, r.start + 1, r.end) \o chunk
  <2>1. r.data \in Seq(Octet) /\ r.start \in Nat /\ r.end \in Nat
    BY <1>3
  <2>2. r.start <= r.end /\ r.end + Len(chunk) <= Len(r.data)
    BY <1>3
  <2> QED
    BY <2>1, <2>2, SliceExtended, ZenonT(60) DEF d
<1>8. Content(a) = Content(b) \o chunk
    BY <1>1, <1>5, <1>7 DEF Content
<1> QED
    BY <1>6, <1>8 DEF a

\* Skipping takes bytes from the front, and no others.
THEOREM SkipTakes ==
    ASSUME NEW Octet, NEW b \in Buffers(Octet), NEW n \in Nat, n <= Buffered(b)
    PROVE  /\ Skip(b, n) \in Buffers(Octet)
           /\ Content(Skip(b, n)) = SubSeq(Content(b), n + 1, Len(Content(b)))
<1>1. /\ b.data \in Seq(Octet) /\ b.start \in Nat /\ b.end \in Nat
      /\ b.start + n <= b.end /\ b.end <= Len(b.data)
      /\ b = [data |-> b.data, start |-> b.start, end |-> b.end]
    BY SMT DEF Buffers, Buffered
<1>2. Skip(b, n) = [data |-> b.data, start |-> b.start + n, end |-> b.end]
    BY <1>1 DEF Skip
<1>3. Skip(b, n) \in Buffers(Octet)
    BY <1>1, <1>2, SMT DEF Buffers
<1>4. SubSeq(b.data, b.start + n + 1, b.end)
        = SubSeq(SubSeq(b.data, b.start + 1, b.end), n + 1, b.end - b.start)
    BY <1>1, RestOfSlice, ZenonT(60)
<1>5. Len(Content(b)) = b.end - b.start
    BY ContentTyped DEF Buffered
<1>6. Content(Skip(b, n)) = SubSeq(b.data, b.start + n + 1, b.end)
  <2>1. /\ Skip(b, n).data = b.data /\ Skip(b, n).start = b.start + n
        /\ Skip(b, n).end = b.end
    BY <1>2
  <2> QED
    BY <2>1, Zenon DEF Content
<1> QED
    BY <1>3, <1>4, <1>5, <1>6 DEF Content

\* Giving the memory back after a large response loses no byte of the next one
\* (_shrinkReadBuffer), and leaves a buffer within its limit.
THEOREM ShrinkLosesNothing ==
    ASSUME NEW Octet, Garbage \in Octet, NEW b \in Buffers(Octet)
    PROVE  /\ ShrinkReadBuffer(b) \in Buffers(Octet)
           /\ Content(ShrinkReadBuffer(b)) = Content(b)
           /\ \/ Capacity(ShrinkReadBuffer(b)) <= ShrinkThreshold
              \/ Buffered(ShrinkReadBuffer(b)) > InitialSize
<1>1. CASE Capacity(b) <= ShrinkThreshold \/ Buffered(b) > InitialSize
    BY <1>1 DEF ShrinkReadBuffer
<1>2. CASE ~(Capacity(b) <= ShrinkThreshold \/ Buffered(b) > InitialSize)
  <2> DEFINE m == MovedTo(Fresh(InitialSize), b)
  <2>1. Buffered(b) <= InitialSize
    BY <1>2, ContentTyped, InitialSizeAssumption
  <2>2. Fresh(InitialSize) \in Seq(Octet) /\ Len(Fresh(InitialSize)) = InitialSize
    BY FreshTyped, InitialSizeAssumption
  <2>3. m \in Buffers(Octet) /\ Content(m) = Content(b) /\ Capacity(m) = InitialSize
    BY <2>1, <2>2, MovedKeepsContent
  <2>4. ShrinkReadBuffer(b) = m
    BY <1>2 DEF ShrinkReadBuffer
  <2> HIDE DEF m
  <2> QED
    BY <2>3, <2>4, ShrinkThresholdAssumption, InitialSizeAssumption
<1> QED
    BY <1>1, <1>2

-----------------------------------------------------------------------------
(* Induction: the provers take no theorem with an operator as parameter, but *)
(* the finite intervals of numbers are ordered well.                         *)

LEMMA LeastNat ==
    ASSUME NEW T, T \subseteq Nat, T # {}
    PROVE  \E m \in T : \A k \in T : m <= k
<1> DEFINE W == {0 .. k : k \in T}
           R == StrictSubsetOrdering(Nat)
<1>1. W \subseteq FiniteSubsetsOf(Nat) /\ W # {}
  <2>1. \A k \in T : 0 .. k \in SUBSET Nat /\ IsFiniteSet(0 .. k)
    BY FS_Interval
  <2> QED BY <2>1 DEF FiniteSubsetsOf
<1>2. IsWellFoundedOn(R, FiniteSubsetsOf(Nat))
  BY FS_StrictSubsetOrderingWellFounded
<1>3. PICK x \in W : \A y \in W : ~(<<y, x>> \in R)
  <2> HIDE DEF W, R
  <2> QED BY <1>1, <1>2, WFMin
<1>4. PICK m \in T : x = 0 .. m
  OBVIOUS
<1>5. ASSUME NEW k \in T PROVE m <= k
  <2>1. ~(<<0 .. k, 0 .. m>> \in R)
    BY <1>3, <1>4
  <2>2. 0 .. k \in SUBSET Nat /\ 0 .. m \in SUBSET Nat
    OBVIOUS
  <2>3. ~(0 .. k \subseteq 0 .. m /\ 0 .. k # 0 .. m)
    BY <2>1, <2>2 DEF StrictSubsetOrdering
  <2>4. k < m => 0 .. k \subseteq 0 .. m /\ m \in 0 .. m /\ m \notin 0 .. k
    OBVIOUS
  <2> QED BY <2>3, <2>4
<1> QED BY <1>5

Octets == 0 .. 255

LEMMA Int32BETyped ==
    ASSUME NEW d \in Seq(Octets), NEW i \in Nat, i + 4 <= Len(d)
    PROVE  Int32BE(d, i) \in Int
<1>1. i + 1 \in 1 .. Len(d) /\ i + 1 + 1 \in 1 .. Len(d)
      /\ i + 2 + 1 \in 1 .. Len(d) /\ i + 3 + 1 \in 1 .. Len(d)
  OBVIOUS
<1>2. \A k \in 1 .. Len(d) : d[k] \in Octets
  OBVIOUS
<1>3. d[i + 1] \in Int /\ d[i + 1 + 1] \in Int /\ d[i + 2 + 1] \in Int /\ d[i + 3 + 1] \in Int
  <2>1. d[i + 1] \in Octets /\ d[i + 1 + 1] \in Octets
        /\ d[i + 2 + 1] \in Octets /\ d[i + 3 + 1] \in Octets
    BY <1>1, <1>2, Zenon
  <2>2. Octets \subseteq Int
    BY DEF Octets
  <2> HIDE DEF Octets
  <2> QED BY <2>1, <2>2
<1>4. Signed(d[i + 1], 8) \in Int
  <2>1. 2 ^ 8 \in Int
    OBVIOUS
  <2> QED BY <1>3, <2>1 DEF Signed
<1>5. \A m, n \in Int : m * 256 + n \in Int
  OBVIOUS
<1> HIDE DEF Signed
<1>6. Signed(d[i + 1], 8) * 256 + d[i + 1 + 1] \in Int
  BY <1>3, <1>4, <1>5, SMTT(30)
<1>7. (Signed(d[i + 1], 8) * 256 + d[i + 1 + 1]) * 256 + d[i + 2 + 1] \in Int
  BY <1>3, <1>5, <1>6
<1> QED BY <1>3, <1>5, <1>7 DEF Int32BE, Byte

-----------------------------------------------------------------------------
(* Rows in the buffer *)

\* The frame at this offset is a row of this type, and is complete.
CompleteRow(b, code, headed, at, end) ==
    /\ at + headed <= end /\ end <= b.end
    /\ Byte(b.data, at) = code
    /\ end = at + headed + Int32BE(b.data, at + headed - 4)

\* And is this row.
DecodedRow(b, code, headed, at, end, row) ==
    /\ CompleteRow(b, code, headed, at, end)
    /\ RowAt(code, b.data, at + headed, end).ok
    /\ row = RowAt(code, b.data, at + headed, end).row

LEMMA LengthTyped ==
    ASSUME NEW b \in Buffers(Octets), NEW headed \in Nat, headed >= 4,
           NEW at \in b.start .. b.end, at + headed <= b.end
    PROVE  Int32BE(b.data, at + headed - 4) \in Int
<1>1. b.data \in Seq(Octets) /\ b.end \in Nat /\ b.end <= Len(b.data) /\ b.start \in Nat
  BY DEF Buffers
<1>2. at + headed - 4 \in Nat /\ (at + headed - 4) + 4 <= Len(b.data)
  BY <1>1
<1> QED BY <1>1, <1>2, Int32BETyped

\* Skipping and decoding stop at a frame, or go on with the one behind it.
LEMMA SkipFromCases ==
    ASSUME NEW b \in Buffers(Octets), NEW code, NEW headed \in Nat, headed >= 4,
           NEW at \in b.start .. b.end
    PROVE  \/ \E ok \in BOOLEAN : \A f : SkipFrom(b, code, headed, at, f) = [ok |-> ok, at |-> at]
           \/ \E end \in Nat : /\ CompleteRow(b, code, headed, at, end)
                               /\ \A f : SkipFrom(b, code, headed, at, f) = f[end]
<1> DEFINE len == Int32BE(b.data, at + headed - 4)
           end == at + headed + len
<1>1. at \in Nat /\ b.end \in Nat
  BY DEF Buffers
<1>2. CASE at + headed > b.end \/ Byte(b.data, at) # code
  <2>1. \A f : SkipFrom(b, code, headed, at, f) = [ok |-> TRUE, at |-> at]
    BY <1>2 DEF SkipFrom
  <2> QED BY <2>1
<1>3. CASE /\ ~(at + headed > b.end \/ Byte(b.data, at) # code)
           /\ ~ValidLength(len) \/ (code = CodeY /\ len = 0)
  <2>1. \A f : SkipFrom(b, code, headed, at, f) = [ok |-> FALSE, at |-> at]
    BY <1>3 DEF SkipFrom
  <2> QED BY <2>1
<1>4. CASE /\ ~(at + headed > b.end \/ Byte(b.data, at) # code)
           /\ ~(~ValidLength(len) \/ (code = CodeY /\ len = 0))
  <2>1. CASE end > b.end
    <3>1. \A f : SkipFrom(b, code, headed, at, f) = [ok |-> TRUE, at |-> at]
      BY <1>4, <2>1 DEF SkipFrom
    <3> QED BY <3>1
  <2>2. CASE ~(end > b.end)
    <3>1. \A f : SkipFrom(b, code, headed, at, f) = f[end]
      BY <1>4, <2>2 DEF SkipFrom
    <3>2. at + headed <= b.end /\ len >= 0
      BY <1>1, <1>4 DEF ValidLength
    <3>3. len \in Int
      BY <3>2, LengthTyped
    <3> HIDE DEF len
    <3>4. end \in Nat /\ at + headed <= end /\ end <= b.end
      BY <1>1, <2>2, <3>2, <3>3
    <3>5. CompleteRow(b, code, headed, at, end)
      BY <1>4, <3>4 DEF CompleteRow, len
    <3> QED BY <3>1, <3>4, <3>5
  <2> QED BY <2>1, <2>2
<1> QED BY <1>2, <1>3, <1>4

LEMMA RowsFromCases ==
    ASSUME NEW b \in Buffers(Octets), NEW code, NEW headed \in Nat, headed >= 4,
           NEW at \in b.start .. b.end
    PROVE  \/ \A f : RowsFrom(b, code, headed, at, f) = [rows |-> <<>>, at |-> at]
           \/ \E end \in Nat : \E row :
                /\ DecodedRow(b, code, headed, at, end, row)
                /\ \A f : RowsFrom(b, code, headed, at, f)
                            = [rows |-> <<row>> \o f[end].rows, at |-> f[end].at]
<1> DEFINE len == Int32BE(b.data, at + headed - 4)
           end == at + headed + len
           row == RowAt(code, b.data, at + headed, end)
<1>1. at \in Nat /\ b.end \in Nat
  BY DEF Buffers
<1>2. CASE \/ at + headed > b.end \/ Byte(b.data, at) # code \/ len < 0 \/ end > b.end \/ ~row.ok
  <2>1. \A f : RowsFrom(b, code, headed, at, f) = [rows |-> <<>>, at |-> at]
    BY <1>2 DEF RowsFrom
  <2> QED BY <2>1
<1>3. CASE ~(\/ at + headed > b.end \/ Byte(b.data, at) # code \/ len < 0 \/ end > b.end \/ ~row.ok)
  <2>1. \A f : RowsFrom(b, code, headed, at, f)
                 = [rows |-> <<row.row>> \o f[end].rows, at |-> f[end].at]
    BY <1>3 DEF RowsFrom
  <2>2. at + headed <= b.end
    BY <1>1, <1>3
  <2>3. len \in Int
    BY <2>2, LengthTyped
  <2> HIDE DEF len, row
  <2>4. end \in Nat /\ at + headed <= end /\ end <= b.end
    BY <1>1, <1>3, <2>3
  <2>5. CompleteRow(b, code, headed, at, end)
    BY <1>3, <2>4 DEF CompleteRow, len
  <2>6. RowAt(code, b.data, at + headed, end).ok /\ row.row = RowAt(code, b.data, at + headed, end).row
    BY <1>3 DEF row
  <2>7. DecodedRow(b, code, headed, at, end, row.row)
    BY <2>5, <2>6 DEF DecodedRow
  <2> QED BY <2>1, <2>4, <2>7
<1> QED BY <1>2, <1>3

\* The recursive functions of the skipped rows and of the batch exist: each
\* value depends only on the offsets behind it.
LEMMA SkipFromDefined ==
    ASSUME NEW b \in Buffers(Octets), NEW code, NEW headed \in Nat, headed >= 4
    PROVE  \E f : f = [at \in b.start .. b.end |-> SkipFrom(b, code, headed, at, f)]
<1> DEFINE size == b.end - b.start
           Solves(f, k) == f = [at \in b.end - k .. b.end |-> SkipFrom(b, code, headed, at, f)]
           T == {k \in 0 .. size : \A f : ~Solves(f, k)}
<1>1. b.start \in Nat /\ b.end \in Nat /\ size \in Nat /\ b.end - size = b.start
  BY DEF Buffers
<1>2. SUFFICES ASSUME T # {} PROVE FALSE
  <2>1. size \in 0 .. size
    BY <1>1
  <2>2. CASE T = {}
    <3>1. PICK f : Solves(f, size)
      BY <2>1, <2>2
    <3> QED BY <1>1, <3>1
  <2> QED BY <2>2
<1>3. PICK m \in T : \A k \in T : m <= k
  <2>1. T \subseteq Nat
    BY <1>1
  <2> HIDE DEF T
  <2> QED BY <1>2, <2>1, LeastNat
<1>4. m \in Nat /\ m <= size /\ \A f : ~Solves(f, m)
  BY <1>1, <1>3
<1>5. PICK f : f = [at \in b.end - m + 1 .. b.end |-> SkipFrom(b, code, headed, at, f)]
  <2>1. CASE m = 0
    <3>1. b.end - m + 1 .. b.end = {}
      BY <1>1, <2>1
    <3>2. [at \in {} |-> 0] = [at \in {} |-> SkipFrom(b, code, headed, at, [i \in {} |-> 0])]
      OBVIOUS
    <3> QED BY <3>1, <3>2
  <2>2. CASE m > 0
    <3>1. m - 1 \in 0 .. size /\ ~(m <= m - 1)
      BY <1>1, <1>4, <2>2
    <3>2. PICK f : Solves(f, m - 1)
      BY <1>3, <3>1
    <3>3. b.end - (m - 1) = b.end - m + 1
      BY <1>1, <1>4, SMTT(30)
    <3> QED BY <3>2, <3>3
  <2> QED BY <1>4, <2>1, <2>2
<1> DEFINE D == b.end - m .. b.end
           g == [at \in D |-> IF at = b.end - m THEN SkipFrom(b, code, headed, at, f) ELSE f[at]]
<1>6. ASSUME NEW at \in D PROVE g[at] = SkipFrom(b, code, headed, at, g)
  <2>1. at \in b.start .. b.end /\ at \in Nat
    BY <1>1, <1>4
  <2>2. g[at] = SkipFrom(b, code, headed, at, f)
    <3>1. at # b.end - m => at \in b.end - m + 1 .. b.end
      BY <1>1, <1>4
    <3>2. at # b.end - m => f[at] = SkipFrom(b, code, headed, at, f)
      BY <1>5, <3>1, Zenon
    <3> QED BY <3>2
  <2>3. ASSUME NEW ok, \A h : SkipFrom(b, code, headed, at, h) = [ok |-> ok, at |-> at]
        PROVE  SkipFrom(b, code, headed, at, f) = SkipFrom(b, code, headed, at, g)
    <3> HIDE DEF g
    <3> QED BY <2>3
  <2>4. ASSUME NEW end \in Nat, CompleteRow(b, code, headed, at, end),
               \A h : SkipFrom(b, code, headed, at, h) = h[end]
        PROVE  SkipFrom(b, code, headed, at, f) = SkipFrom(b, code, headed, at, g)
    <3>1. end \in D /\ end # b.end - m
      BY <1>1, <1>4, <2>1, <2>4, SMTT(30) DEF CompleteRow
    <3>2. g[end] = f[end]
      BY <3>1
    <3> HIDE DEF g
    <3> QED BY <2>4, <3>2
  <2> HIDE DEF g
  <2> QED BY <2>1, <2>2, <2>3, <2>4, SkipFromCases
<1>7. Solves(g, m)
  <2>1. g = [at \in D |-> g[at]]
    OBVIOUS
  <2> HIDE DEF g
  <2> QED BY <1>6, <2>1
<1> QED BY <1>4, <1>7
LEMMA RowsFromDefined ==
    ASSUME NEW b \in Buffers(Octets), NEW code, NEW headed \in Nat, headed >= 4
    PROVE  \E f : f = [at \in b.start .. b.end |-> RowsFrom(b, code, headed, at, f)]
<1> DEFINE size == b.end - b.start
           Solves(f, k) == f = [at \in b.end - k .. b.end |-> RowsFrom(b, code, headed, at, f)]
           T == {k \in 0 .. size : \A f : ~Solves(f, k)}
<1>1. b.start \in Nat /\ b.end \in Nat /\ size \in Nat /\ b.end - size = b.start
  BY DEF Buffers
<1>2. SUFFICES ASSUME T # {} PROVE FALSE
  <2>1. size \in 0 .. size
    BY <1>1
  <2>2. CASE T = {}
    <3>1. PICK f : Solves(f, size)
      BY <2>1, <2>2
    <3> QED BY <1>1, <3>1
  <2> QED BY <2>2
<1>3. PICK m \in T : \A k \in T : m <= k
  <2>1. T \subseteq Nat
    BY <1>1
  <2> HIDE DEF T
  <2> QED BY <1>2, <2>1, LeastNat
<1>4. m \in Nat /\ m <= size /\ \A f : ~Solves(f, m)
  BY <1>1, <1>3
<1>5. PICK f : f = [at \in b.end - m + 1 .. b.end |-> RowsFrom(b, code, headed, at, f)]
  <2>1. CASE m = 0
    <3>1. b.end - m + 1 .. b.end = {}
      BY <1>1, <2>1
    <3>2. [at \in {} |-> 0] = [at \in {} |-> RowsFrom(b, code, headed, at, [i \in {} |-> 0])]
      OBVIOUS
    <3> QED BY <3>1, <3>2
  <2>2. CASE m > 0
    <3>1. m - 1 \in 0 .. size /\ ~(m <= m - 1)
      BY <1>1, <1>4, <2>2
    <3>2. PICK f : Solves(f, m - 1)
      BY <1>3, <3>1
    <3>3. b.end - (m - 1) = b.end - m + 1
      BY <1>1, <1>4, SMTT(30)
    <3> QED BY <3>2, <3>3
  <2> QED BY <1>4, <2>1, <2>2
<1> DEFINE D == b.end - m .. b.end
           g == [at \in D |-> IF at = b.end - m THEN RowsFrom(b, code, headed, at, f) ELSE f[at]]
<1>6. ASSUME NEW at \in D PROVE g[at] = RowsFrom(b, code, headed, at, g)
  <2>1. at \in b.start .. b.end /\ at \in Nat
    BY <1>1, <1>4
  <2>2. g[at] = RowsFrom(b, code, headed, at, f)
    <3>1. at # b.end - m => at \in b.end - m + 1 .. b.end
      BY <1>1, <1>4, SMTT(30)
    <3>2. at # b.end - m => f[at] = RowsFrom(b, code, headed, at, f)
      BY <1>5, <3>1, Zenon
    <3> QED BY <3>2
  <2>3. ASSUME NEW decoded, \A h : RowsFrom(b, code, headed, at, h) = [rows |-> decoded, at |-> at]
        PROVE  RowsFrom(b, code, headed, at, f) = RowsFrom(b, code, headed, at, g)
    <3> HIDE DEF g
    <3> QED BY <2>3
  <2>4. ASSUME NEW end \in Nat, NEW row, DecodedRow(b, code, headed, at, end, row),
               \A h : RowsFrom(b, code, headed, at, h)
                        = [rows |-> <<row>> \o h[end].rows, at |-> h[end].at]
        PROVE  RowsFrom(b, code, headed, at, f) = RowsFrom(b, code, headed, at, g)
    <3>0. at + headed <= end /\ end <= b.end
      BY <2>4, Zenon DEF CompleteRow, DecodedRow
    <3>1. end \in D /\ end # b.end - m
      BY <1>1, <1>4, <2>1, <3>0
    <3>2. g[end] = f[end]
      BY <3>1
    <3> HIDE DEF g
    <3> QED BY <2>4, <3>2
  <2> HIDE DEF g
  <2> QED BY <2>1, <2>2, <2>3, <2>4, RowsFromCases
<1>7. Solves(g, m)
  <2>1. g = [at \in D |-> g[at]]
    OBVIOUS
  <2> HIDE DEF g
  <2> QED BY <1>6, <2>1
<1> QED BY <1>4, <1>7

\* Skipping and decoding end at an offset that is reached from the first one
\* over complete rows.
LEMMA SkippedTo ==
    ASSUME NEW b \in Buffers(Octets), NEW code, NEW headed \in Nat, headed >= 4,
           NEW P, P \subseteq b.start .. b.end, b.start \in P,
           \A at \in P, end \in Nat : CompleteRow(b, code, headed, at, end) => end \in P
    PROVE  /\ AfterBuffered(b, code, headed).at \in P
           /\ AfterBuffered(b, code, headed).ok \in BOOLEAN
<1> DEFINE f == CHOOSE f : f = [at \in b.start .. b.end |-> SkipFrom(b, code, headed, at, f)]
           Good(at) == f[at].at \in P /\ f[at].ok \in BOOLEAN
           T == {k \in 0 .. b.end - b.start : b.end - k \in P /\ ~Good(b.end - k)}
<1>1. b.start \in Nat /\ b.end \in Nat /\ b.end - b.start \in Nat
  BY DEF Buffers
<1>2. f = [at \in b.start .. b.end |-> SkipFrom(b, code, headed, at, f)]
  <2> HIDE DEF f
  <2>1. \E g : g = [at \in b.start .. b.end |-> SkipFrom(b, code, headed, at, g)]
    BY SkipFromDefined
  <2> QED BY <2>1 DEF f
<1>3. AfterBuffered(b, code, headed) = f[b.start]
  BY DEF AfterBuffered
<1> HIDE DEF f
<1>4. ASSUME NEW at \in P, ~Good(at) PROVE FALSE
  <2>1. at \in b.start .. b.end /\ b.end - at \in 0 .. b.end - b.start /\ b.end - (b.end - at) = at
    BY <1>1
  <2>2. b.end - at \in T
    BY <1>4, <2>1
  <2>3. PICK m \in T : \A k \in T : m <= k
    <3>1. T \subseteq Nat /\ T # {}
      BY <1>1, <2>2
    <3> HIDE DEF T
    <3> QED BY <3>1, LeastNat
  <2> DEFINE first == b.end - m
  <2>4. m \in 0 .. b.end - b.start /\ first \in P /\ ~Good(first) /\ first \in b.start .. b.end
    BY <1>1, <2>3
  <2>5. f[first] = SkipFrom(b, code, headed, first, f)
    BY <1>2, <2>4
  <2> HIDE DEF first
  <2>6. ASSUME NEW ok \in BOOLEAN, \A h : SkipFrom(b, code, headed, first, h) = [ok |-> ok, at |-> first]
        PROVE  FALSE
    BY <2>4, <2>5, <2>6
  <2>7. ASSUME NEW end \in Nat, CompleteRow(b, code, headed, first, end),
               \A h : SkipFrom(b, code, headed, first, h) = h[end]
        PROVE  FALSE
    <3>1. end \in P
      BY <2>4, <2>7
    <3>2. ~Good(end)
      BY <2>4, <2>5, <2>7
    <3>3. b.end - end \in 0 .. b.end - b.start /\ b.end - (b.end - end) = end /\ ~(m <= b.end - end)
      BY <1>1, <2>4, <2>7, <3>1 DEF CompleteRow, first
    <3>4. b.end - end \in T
      BY <3>1, <3>2, <3>3
    <3> HIDE DEF T
    <3> QED BY <2>3, <3>3, <3>4
  <2> QED BY <2>4, <2>6, <2>7, SkipFromCases
<1> QED BY <1>3, <1>4

LEMMA BatchTo ==
    ASSUME NEW b \in Buffers(Octets), NEW code, NEW headed \in Nat, headed >= 4,
           NEW P, P \subseteq b.start .. b.end, b.start \in P,
           \A at \in P, end \in Nat : CompleteRow(b, code, headed, at, end) => end \in P
    PROVE  Batch(b, code, headed).at \in P
<1> DEFINE f == CHOOSE f : f = [at \in b.start .. b.end |-> RowsFrom(b, code, headed, at, f)]
           Good(at) == f[at].at \in P
           T == {k \in 0 .. b.end - b.start : b.end - k \in P /\ ~Good(b.end - k)}
<1>1. b.start \in Nat /\ b.end \in Nat /\ b.end - b.start \in Nat
  BY DEF Buffers
<1>2. f = [at \in b.start .. b.end |-> RowsFrom(b, code, headed, at, f)]
  <2> HIDE DEF f
  <2>1. \E g : g = [at \in b.start .. b.end |-> RowsFrom(b, code, headed, at, g)]
    BY RowsFromDefined
  <2> QED BY <2>1 DEF f
<1>3. Batch(b, code, headed) = f[b.start]
  BY DEF Batch
<1> HIDE DEF f
<1>4. ASSUME NEW at \in P, ~Good(at) PROVE FALSE
  <2>1. at \in b.start .. b.end /\ b.end - at \in 0 .. b.end - b.start /\ b.end - (b.end - at) = at
    BY <1>1
  <2>2. b.end - at \in T
    BY <1>4, <2>1
  <2>3. PICK m \in T : \A k \in T : m <= k
    <3>1. T \subseteq Nat /\ T # {}
      BY <1>1, <2>2
    <3> HIDE DEF T
    <3> QED BY <3>1, LeastNat
  <2> DEFINE first == b.end - m
  <2>4. m \in 0 .. b.end - b.start /\ first \in P /\ ~Good(first) /\ first \in b.start .. b.end
    BY <1>1, <2>3
  <2>5. f[first] = RowsFrom(b, code, headed, first, f)
    BY <1>2, <2>4
  <2> HIDE DEF first
  <2>6. ASSUME NEW decoded, \A h : RowsFrom(b, code, headed, first, h) = [rows |-> decoded, at |-> first]
        PROVE  FALSE
    BY <2>4, <2>5, <2>6
  <2>7. ASSUME NEW end \in Nat, NEW row, DecodedRow(b, code, headed, first, end, row),
               \A h : RowsFrom(b, code, headed, first, h)
                        = [rows |-> <<row>> \o h[end].rows, at |-> h[end].at]
        PROVE  FALSE
    <3>1. end \in P
      BY <2>4, <2>7 DEF DecodedRow
    <3>2. ~Good(end)
      <4> DEFINE all == <<row>> \o f[end].rows
      <4>0. f[first] = [rows |-> all, at |-> f[end].at]
        BY <2>5, <2>7, Zenon
      <4> HIDE DEF all
      <4>1. f[first].at = f[end].at
        BY <4>0
      <4> QED BY <2>4, <4>1
    <3>5. first + headed <= end /\ end <= b.end
      BY <2>7, Zenon DEF CompleteRow, DecodedRow
    <3>3. b.end - end \in 0 .. b.end - b.start /\ b.end - (b.end - end) = end /\ ~(m <= b.end - end)
      BY <1>1, <2>4, <3>1, <3>5 DEF first
    <3>4. b.end - end \in T
      BY <3>1, <3>2, <3>3
    <3> HIDE DEF T
    <3> QED BY <2>3, <3>3, <3>4
  <2> QED BY <2>4, <2>6, <2>7, RowsFromCases
<1> QED BY <1>3, <1>4

-----------------------------------------------------------------------------
(* The bytes left to read *)

\* c is the buffer b without the first n of its unread bytes.
Drops(b, c, n) ==
    /\ n \in 0 .. Buffered(b)
    /\ c \in Buffers(Octets)
    /\ Content(c) = SubSeq(Content(b), n + 1, Len(Content(b)))

LEMMA DropsCount ==
    ASSUME NEW b \in Buffers(Octets), NEW c, NEW n, Drops(b, c, n)
    PROVE  Buffered(c) = Buffered(b) - n /\ n \in Nat /\ Buffered(b) \in Nat /\ Buffered(c) \in Nat
<1>1. /\ Content(b) \in Seq(Octets) /\ Len(Content(b)) = Buffered(b) /\ Buffered(b) \in Nat
      /\ Len(Content(c)) = Buffered(c) /\ Buffered(c) \in Nat
  BY ContentTyped, Zenon DEF Drops
<1>2. n \in Nat /\ n <= Buffered(b)
  BY <1>1 DEF Drops
<1>3. Len(SubSeq(Content(b), n + 1, Len(Content(b)))) = Len(Content(b)) - n
  BY <1>1, <1>2, SliceTyped
<1> QED BY <1>1, <1>2, <1>3 DEF Drops

LEMMA SkipDrops ==
    ASSUME NEW b \in Buffers(Octets), NEW n \in 0 .. Buffered(b)
    PROVE  Drops(b, Skip(b, n), n)
<1>1. n \in Nat /\ n <= Buffered(b)
  BY ContentTyped
<1> QED BY <1>1, SkipTakes DEF Drops

LEMMA StartDrops ==
    ASSUME NEW b \in Buffers(Octets), NEW at \in b.start .. b.end
    PROVE  Drops(b, [b EXCEPT !.start = at], at - b.start)
<1>1. b.start \in Nat /\ b.end \in Nat
  BY DEF Buffers
<1>2. b.start + (at - b.start) = at /\ at - b.start \in 0 .. Buffered(b)
  BY <1>1 DEF Buffered
<1>3. Skip(b, at - b.start) = [b EXCEPT !.start = at]
  BY <1>2 DEF Skip
<1> QED BY <1>2, <1>3, SkipDrops

LEMMA SameDrops ==
    ASSUME NEW b \in Buffers(Octets), NEW c \in Buffers(Octets), Content(c) = Content(b)
    PROVE  Drops(b, c, 0)
<1>1. Content(b) \in Seq(Octets) /\ Buffered(b) \in Nat
  BY ContentTyped
<1>2. SubSeq(Content(b), 0 + 1, Len(Content(b))) = Content(b)
  BY <1>1
<1> QED BY <1>1, <1>2 DEF Drops

LEMMA EmptiedDrops ==
    ASSUME NEW b \in Buffers(Octets)
    PROVE  Drops(b, Emptied(b), Buffered(b))
<1>1. Content(b) \in Seq(Octets) /\ Len(Content(b)) = Buffered(b) /\ Buffered(b) \in Nat
  BY ContentTyped
<1>0. b.data \in Seq(Octets)
  BY DEF Buffers
<1>5. Emptied(b) = [data |-> b.data, start |-> 0, end |-> 0]
  <2>1. PICK d, s, e : b = [data |-> d, start |-> s, end |-> e]
    BY DEF Buffers
  <2> DEFINE c == [b EXCEPT !.start = 0]
  <2>2. c = [data |-> d, start |-> 0, end |-> e]
    BY <2>1
  <2> HIDE DEF c
  <2>3. [c EXCEPT !.end = 0] = [data |-> d, start |-> 0, end |-> 0]
    BY <2>2
  <2>4. b.data = d
    BY <2>1
  <2> QED BY <2>3, <2>4, Zenon DEF Emptied, c
<1>2. Emptied(b) = [data |-> b.data, start |-> 0, end |-> 0] /\ Emptied(b) \in Buffers(Octets)
  BY <1>0, <1>5 DEF Buffers
<1>3. Content(Emptied(b)) = <<>>
  <2>1. b.data \in Seq(Octets)
    BY DEF Buffers
  <2> QED BY <1>2, <2>1 DEF Content
<1>4. SubSeq(Content(b), Buffered(b) + 1, Len(Content(b))) = <<>>
  BY <1>1
<1> QED BY <1>1, <1>2, <1>3, <1>4 DEF Drops

LEMMA DropsThen ==
    ASSUME NEW b \in Buffers(Octets), NEW c, NEW d, NEW m, NEW n, Drops(b, c, m), Drops(c, d, n)
    PROVE  Drops(b, d, m + n)
<1> DEFINE s == Content(b)
<1>1. s \in Seq(Octets) /\ Len(s) = Buffered(b) /\ Buffered(b) \in Nat
  BY ContentTyped
<1>2. m \in Nat /\ n \in Nat /\ m + n <= Buffered(b) /\ c \in Buffers(Octets) /\ d \in Buffers(Octets)
  <2>1. Buffered(c) = Buffered(b) - m /\ m \in Nat /\ c \in Buffers(Octets) /\ d \in Buffers(Octets)
    BY DropsCount DEF Drops
  <2>2. n \in 0 .. Buffered(c)
    BY DEF Drops
  <2> QED BY <1>1, <2>1, <2>2
<1>3. Content(c) = SubSeq(s, m + 1, Len(s)) /\ Content(d) = SubSeq(Content(c), n + 1, Len(Content(c)))
  BY DEF Drops
<1>4. Len(Content(c)) = Len(s) - m
  BY <1>1, <1>2, DropsCount, ContentTyped
<1> HIDE DEF s
<1>5. SubSeq(s, m + n + 1, Len(s)) = SubSeq(SubSeq(s, m + 1, Len(s)), n + 1, Len(s) - m)
  BY <1>1, <1>2, RestOfSlice, SMTT(30)
<1>6. m + n \in 0 .. Buffered(b)
  BY <1>1, <1>2
<1> QED BY <1>2, <1>3, <1>4, <1>5, <1>6 DEF Drops, s

\* Taking m bytes from s and k from t behind it, if k = 0 or s has no more.
LEMMA FrontTaken ==
    ASSUME NEW s \in Seq(Octets), NEW t \in Seq(Octets), NEW m \in 0 .. Len(s), NEW k \in 0 .. Len(t),
           k = 0 \/ m = Len(s)
    PROVE  SubSeq(s, m + 1, Len(s)) \o SubSeq(t, k + 1, Len(t))
             = SubSeq(s \o t, m + k + 1, Len(s \o t))
<1> DEFINE S == SubSeq(s, m + 1, Len(s))
           T == SubSeq(t, k + 1, Len(t))
           st == s \o t
           l == S \o T
           r == SubSeq(st, (m + k) + 1, Len(st))
<1>0. /\ m \in Nat /\ k \in Nat /\ m + k \in Nat /\ Len(s) \in Nat /\ Len(t) \in Nat
      /\ m <= Len(s) /\ k <= Len(t)
  OBVIOUS
<1>1. S \in Seq(Octets) /\ Len(S) = Len(s) - m /\ \A i \in 1 .. Len(s) - m : S[i] = s[m + i]
  BY <1>0, SliceTyped
<1>2. T \in Seq(Octets) /\ Len(T) = Len(t) - k /\ \A i \in 1 .. Len(t) - k : T[i] = t[k + i]
  BY <1>0, SliceTyped
<1>3. /\ st \in Seq(Octets) /\ Len(st) = Len(s) + Len(t)
      /\ \A i \in 1 .. Len(s) + Len(t) : st[i] = IF i <= Len(s) THEN s[i] ELSE t[i - Len(s)]
  BY ConcatProperties
<1> HIDE DEF S, T, st
<1>4. /\ l \in Seq(Octets) /\ Len(l) = Len(S) + Len(T)
      /\ \A i \in 1 .. Len(S) + Len(T) : l[i] = IF i <= Len(S) THEN S[i] ELSE T[i - Len(S)]
  BY <1>1, <1>2, ConcatProperties
<1>5. /\ r \in Seq(Octets) /\ Len(r) = Len(st) - (m + k)
      /\ \A i \in 1 .. Len(st) - (m + k) : r[i] = st[(m + k) + i]
  <2>1. m + k \in Nat /\ m + k <= Len(st)
    BY <1>0, <1>3
  <2>2. \A n \in Nat : n <= Len(st) =>
            /\ SubSeq(st, n + 1, Len(st)) \in Seq(Octets)
            /\ Len(SubSeq(st, n + 1, Len(st))) = Len(st) - n
            /\ \A i \in 1 .. Len(st) - n : SubSeq(st, n + 1, Len(st))[i] = st[n + i]
    <3>1. Len(st) \in Nat /\ st \in Seq(Octets)
      BY <1>0, <1>3
    <3> QED BY <3>1, SliceTyped
  <2> QED BY <2>1, <2>2, Zenon
<1> HIDE DEF l, r
<1>6. Len(l) = Len(r)
  BY <1>0, <1>1, <1>2, <1>3, <1>4, <1>5
<1>7. ASSUME NEW i \in 1 .. Len(l) PROVE l[i] = r[i]
  <2>1. /\ i \in Int /\ i \in 1 .. Len(S) + Len(T) /\ i \in 1 .. Len(st) - (m + k)
        /\ (m + k) + i \in 1 .. Len(s) + Len(t)
    BY <1>0, <1>1, <1>2, <1>3, <1>4, <1>7
  <2>2. l[i] = IF i <= Len(S) THEN S[i] ELSE T[i - Len(S)]
    BY <1>4, <2>1, Zenon
  <2>3. r[i] = IF (m + k) + i <= Len(s) THEN s[(m + k) + i] ELSE t[((m + k) + i) - Len(s)]
    BY <1>3, <1>5, <2>1, Zenon
  <2>4. CASE i <= Len(S)
    <3>1. i \in 1 .. Len(s) - m
      BY <1>0, <1>1, <2>1, <2>4
    <3>2. k = 0 /\ (m + k) + i = m + i /\ (m + k) + i <= Len(s)
      <4>1. m # Len(s)
        <5>1. m = Len(s) => 1 .. Len(s) - m = {}
          BY <1>0
        <5> QED BY <3>1, <5>1
      <4> QED BY <1>0, <3>1, <4>1
    <3>3. S[i] = s[m + i]
      BY <1>1, <3>1, Zenon
    <3> QED BY <2>2, <2>3, <2>4, <3>2, <3>3
  <2>5. CASE ~(i <= Len(S))
    <3>1. i - Len(S) \in 1 .. Len(t) - k
      BY <1>0, <1>1, <1>2, <2>1, <2>5
    <3>2. ~((m + k) + i <= Len(s)) /\ ((m + k) + i) - Len(s) = k + (i - Len(S))
      BY <1>0, <1>1, <2>1, <2>5
    <3>3. T[i - Len(S)] = t[k + (i - Len(S))]
      BY <1>2, <3>1, Zenon
    <3> QED BY <2>2, <2>3, <2>5, <3>2, <3>3
  <2> QED BY <2>4, <2>5
<1>8. l = r
  BY <1>4, <1>5, <1>6, <1>7, SeqEqual, Zenon
<1> QED BY <1>8 DEF l, r, S, T, st

\* Buffer and socket hold one queue of bytes.
Unread == Content(buf) \o stream

\* A step takes n bytes from its front.
Taking(n) ==
    /\ n \in 0 .. Len(Unread)
    /\ Unread' = SubSeq(Unread, n + 1, Len(Unread))
    /\ UNCHANGED <<response, arrived>>

LEMMA TakenFromBuffer ==
    ASSUME buf \in Buffers(Octets), stream \in Seq(Octets), UNCHANGED <<response, arrived>>,
           NEW m, Drops(buf, buf', m), NEW k \in 0 .. Len(stream),
           stream' = SubSeq(stream, k + 1, Len(stream)),
           k = 0 \/ Buffered(buf) = m
    PROVE  Taking(m + k)
<1>1. Content(buf) \in Seq(Octets) /\ Len(Content(buf)) = Buffered(buf) /\ Buffered(buf) \in Nat
  BY ContentTyped
<1>2. m \in 0 .. Buffered(buf) /\ Content(buf') = SubSeq(Content(buf), m + 1, Len(Content(buf)))
  BY DEF Drops
<1>3. Content(buf)' = Content(buf')
  BY DEF Content
<1>4. Unread' = SubSeq(Unread, m + k + 1, Len(Unread))
  <2>1. m \in 0 .. Len(Content(buf)) /\ (k = 0 \/ m = Len(Content(buf)))
    BY <1>1, <1>2
  <2>2. SubSeq(Content(buf), m + 1, Len(Content(buf))) \o SubSeq(stream, k + 1, Len(stream))
          = SubSeq(Content(buf) \o stream, m + k + 1, Len(Content(buf) \o stream))
    BY <1>1, <2>1, FrontTaken
  <2> QED BY <1>2, <1>3, <2>2 DEF Unread
<1>5. Len(Unread) = Buffered(buf) + Len(stream)
  BY <1>1, ConcatProperties DEF Unread
<1>6. m + k \in 0 .. Len(Unread)
  BY <1>1, <1>2, <1>5
<1> QED BY <1>4, <1>6 DEF Taking

-----------------------------------------------------------------------------
(* The inductive invariant *)

Open == {"reading", "closing", "idle"}

Places == {"type", "header", "length", "rowHead", "payload", "row", "collect", "discard"}

\* What is collected or discarded outside the buffer finds the buffer empty, and
\* there is more of it to come.
Typed ==
    /\ response \in Responses
    /\ arrived \in 0 .. Len(Sent)
    /\ stream \in Seq(Octets)
    /\ buf \in Buffers(Octets)
    /\ ctl \in [at : Places, type : Octets, len : Nat, left : Nat, held : Seq(Octets)]
    /\ reader \in Open \cup Over
    /\ Collecting => Buffered(buf) = 0
    /\ ctl.at = "collect" => Len(ctl.held) < ctl.len
    /\ ctl.at = "discard" => ctl.left > 0

\* What is left to read is what arrived last.
Faithful ==
    /\ Len(Unread) <= arrived
    /\ Unread = SubSeq(Sent, arrived - Len(Unread) + 1, arrived)

\* The next byte to read.
Position == arrived - Len(Unread)

\* Where frames start.
Starts == Boundaries \ {response.finish}

\* Where the generator is in the frame that starts at this offset.
InFrame(start) ==
    LET type == Byte(Sent, start)
        payload == PayloadLength(Sent, start)
    IN  /\ ctl.type = type /\ type # 0
        /\ CASE ctl.at = "header" -> Position = start + 1
             [] ctl.at = "length" -> Position = start + 5 /\ HeaderSize(type) = 9
             [] ctl.at = "payload" ->
                    Position = start + 9 /\ HeaderSize(type) = 9 /\ ctl.len = payload
             [] ctl.at = "collect" ->
                    /\ Position = start + 9 + Len(ctl.held) /\ HeaderSize(type) = 9
                    /\ ctl.len = payload
             [] ctl.at = "rowHead" -> Position = start + 5 /\ type = CodeY
             [] ctl.at = "row" -> Position = start + 5 /\ type = CodeY /\ ctl.len = payload
             [] ctl.at = "discard" ->
                    /\ Position + ctl.left = start + FrameSize(Sent, start)
                    /\ type \in {CodeD, CodeY} /\ payload >= 0
             [] OTHER -> FALSE

Framed ==
    /\ reader \in {"reading", "closing", "idle"} =>
        IF ctl.at = "type" THEN Position \in Starts ELSE \E start \in Starts : InFrame(start)
    /\ reader = "done" => ctl = ToType /\ Position = response.finish

\* The largest the buffer may become.
Largest == Larger(InitialSize, 2 * (response.longest + HighWater))

Sized ==
    /\ Len(stream) <= HighWater
    /\ Capacity(buf) <= Largest
    /\ reader = "done" => Capacity(buf) <= ShrinkThreshold \/ Buffered(buf) > InitialSize

IInv == Typed /\ Faithful /\ Framed /\ Sized

LEMMA HeaderSizes ==
    /\ HeaderSize(0) = 1 /\ HeaderSize(CodeD) = 9 /\ HeaderSize(CodeY) = 13
    /\ \A type \in Octets : HeaderSize(type) \in {1, 5, 9, 13}
    /\ \A type \in Octets : type # 0 => HeaderSize(type) \in {5, 9, 13}
    /\ \A type \in Ready \cup Control : HeaderSize(type) = 5
    /\ \A type \in Octets \ (Ready \cup Control \cup {0, CodeY}) : HeaderSize(type) = 9
    /\ \A type \in Octets : HeaderSize(type) = 9 => type \notin Ready
    /\ {CodeD, CodeY} \cap (Ready \cup Control \cup {0}) = {}
BY DEF HeaderSize, CodeD, CodeY, Ready, Control

\* A frame that has an end is followed by the next one, or was the last.
LEMMA FrameEnds ==
    ASSUME response \in Responses, NEW start \in Starts
    PROVE  LET type == Byte(Sent, start)
               size == FrameSize(Sent, start)
           IN  /\ start \in Nat /\ start <= Len(Sent) /\ type \in Octets /\ Sent \in Seq(Octets)
               /\ PayloadLength(Sent, start) \in Int \/ HeaderSize(type) = 1
               /\ start + HeaderSize(type) <= Len(Sent) /\ HeaderSize(type) <= response.longest
               /\ HeaderSize(type) <= 5 => size = HeaderSize(type)
               /\ HeaderSize(type) > 5 => size = HeaderSize(type) + PayloadLength(Sent, start)
               /\ HeaderSize(type) <= 5 \/ PayloadLength(Sent, start) >= 0 =>
                    /\ size \in Nat /\ size <= response.longest /\ start + size <= Len(Sent)
                    /\ type \in Ready => start + size = response.finish
                    /\ type \notin Ready => start + size \in Starts
<1> DEFINE type == Byte(Sent, start)
           size == FrameSize(Sent, start)
           payload == PayloadLength(Sent, start)
<1>1. WellFramed(response) /\ response.longest \in Nat
  BY ResponsesAssumption
<1>2. Sent \in Seq(Octets) /\ response.ends \subseteq 0 .. Len(Sent) /\ response.finish \in response.ends
  BY <1>1 DEF WellFramed, Sent, Octets
<1>3. start \in 0 .. Len(Sent)
  BY <1>2 DEF Starts, Boundaries
<1>4. start \in ({0} \cup response.ends) \ {response.finish}
  BY DEF Starts, Boundaries
<1>5. /\ start + HeaderSize(type) <= Len(Sent) /\ HeaderSize(type) <= response.longest
      /\ \/ HeaderSize(type) > 5 /\ payload < 0
         \/ /\ start + size \in response.ends /\ size <= response.longest
            /\ (start + size = response.finish <=> type \in Ready)
  BY <1>1, <1>4, Zenon DEF WellFramed, Sent
<1>6. HeaderSize(type) <= 5 => size = HeaderSize(type)
  <2> HIDE DEF payload
  <2>1. size = HeaderSize(type) + IF HeaderSize(type) > 5 THEN payload ELSE 0
    BY DEF FrameSize, payload
  <2> QED
    <3> HIDE DEF size
    <3>1. HeaderSize(type) <= 5 => ~(HeaderSize(type) > 5)
      <4>1. HeaderSize(type) \in Int
        BY DEF HeaderSize
      <4> HIDE DEF type
      <4> QED BY <4>1
    <3>2. HeaderSize(type) + 0 = HeaderSize(type)
      <4>1. HeaderSize(type) \in Int
        BY DEF HeaderSize
      <4> HIDE DEF type
      <4> QED BY <4>1
    <3> QED BY <2>1, <3>1, <3>2
<1>7. HeaderSize(type) > 5 => size = HeaderSize(type) + payload
  BY DEF FrameSize
<1>8. HeaderSize(type) \in {1, 5, 9, 13}
  BY DEF HeaderSize
<1>9. type \in Octets
  <2>1. start + 1 \in 1 .. Len(Sent)
    <3> HIDE DEF type
    <3> QED BY <1>2, <1>3, <1>5, <1>8
  <2>2. \A k \in 1 .. Len(Sent) : Sent[k] \in Octets
    <3> HIDE DEF Octets
    <3> QED BY <1>2
  <2> QED BY <2>1, <2>2, Zenon DEF Byte
<1>10. payload \in Int \/ HeaderSize(type) = 1
  <2> HIDE DEF type
  <2>1. \/ HeaderSize(type) = 1
        \/ /\ start + HeaderSize(type) - 4 \in Nat
           /\ (start + HeaderSize(type) - 4) + 4 <= Len(Sent)
    BY <1>2, <1>3, <1>5, <1>8
  <2>2. ASSUME HeaderSize(type) # 1 PROVE payload \in Int
    <3>1. Int32BE(Sent, start + HeaderSize(type) - 4) \in Int
      BY <1>2, <2>1, <2>2, Int32BETyped
    <3> QED BY <3>1 DEF PayloadLength, type
  <2> QED BY <2>2
<1>11. ASSUME HeaderSize(type) <= 5 \/ payload >= 0
       PROVE  /\ size \in Nat /\ size <= response.longest /\ start + size <= Len(Sent)
              /\ type \in Ready => start + size = response.finish
              /\ type \notin Ready => start + size \in Starts
  <2>1. start + size \in response.ends /\ size <= response.longest
        /\ (start + size = response.finish <=> type \in Ready)
    <3> HIDE DEF type, size, payload
    <3>1. ~(HeaderSize(type) > 5 /\ payload < 0)
      BY <1>8, <1>10, <1>11
    <3> QED BY <1>5, <3>1
  <2>2. size \in Nat
    <3> HIDE DEF type, size, payload
    <3> QED BY <1>6, <1>7, <1>8, <1>10, <1>11
  <2>3. start + size <= Len(Sent)
    <3> HIDE DEF size, type, payload
    <3> QED BY <1>2, <2>1
  <2> HIDE DEF size, type, payload
  <2> QED BY <2>1, <2>2, <2>3, Zenon DEF Starts, Boundaries
<1> QED BY <1>2, <1>3, <1>5, <1>6, <1>7, <1>9, <1>10, <1>11

\* The unread bytes of b are those of the response from offset p on.
Holds(b, p) ==
    /\ p \in Nat /\ p + Buffered(b) <= Len(Sent)
    /\ \A i \in Nat : i < Buffered(b) => Byte(b.data, b.start + i) = Byte(Sent, p + i)

LEMMA HoldsDropped ==
    ASSUME NEW b \in Buffers(Octets), NEW p, Holds(b, p), Len(Sent) \in Nat, NEW c, NEW n, Drops(b, c, n)
    PROVE  Holds(c, p + n)
<1>1. /\ Buffered(c) = Buffered(b) - n /\ n \in Nat /\ Buffered(b) \in Nat /\ Buffered(c) \in Nat
      /\ c \in Buffers(Octets) /\ p \in Nat /\ p + Buffered(b) <= Len(Sent)
  BY DropsCount DEF Drops, Holds
<1>2. p + n \in Nat /\ (p + n) + Buffered(c) <= Len(Sent)
  BY <1>1
<1>3. ASSUME NEW i \in Nat, i < Buffered(c)
      PROVE  Byte(c.data, c.start + i) = Byte(Sent, (p + n) + i)
  <2> DEFINE s == Content(b)
  <2>1. i + 1 \in 1 .. Buffered(c) /\ n + (i + 1) \in 1 .. Buffered(b) /\ n + i \in Nat /\ n + i < Buffered(b)
    BY <1>1, <1>3
  <2>2. s \in Seq(Octets) /\ Len(s) = Buffered(b)
    BY ContentTyped
  <2>3. Content(c) = SubSeq(s, n + 1, Len(s))
    BY DEF Drops
  <2>4. Content(c)[i + 1] = c.data[c.start + (i + 1)]
    BY <1>1, <2>1, ContentTyped, Zenon
  <2>5. s[n + (i + 1)] = b.data[b.start + (n + (i + 1))]
    BY <2>1, ContentTyped, Zenon
  <2> HIDE DEF s
  <2>6. SubSeq(s, n + 1, Len(s))[i + 1] = s[n + (i + 1)]
    <3>1. n <= Len(s) /\ i + 1 \in 1 .. Len(s) - n /\ Len(s) \in Nat
      BY <1>1, <2>1, <2>2
    <3> QED BY <1>1, <2>2, <3>1, SliceTyped
  <2>7. Byte(b.data, b.start + (n + i)) = Byte(Sent, p + (n + i))
    BY <2>1, Zenon DEF Holds
  <2>8. /\ c.start + (i + 1) = (c.start + i) + 1 /\ b.start + (n + (i + 1)) = (b.start + (n + i)) + 1
        /\ p + (n + i) = (p + n) + i
    <3>1. c.start \in Nat /\ b.start \in Nat
      BY <1>1 DEF Buffers
    <3>2. n \in Nat /\ p \in Nat
      BY <1>1
    <3> QED BY <3>1, <3>2, SMTT(30)
  <2> QED BY <2>3, <2>4, <2>5, <2>6, <2>7, <2>8 DEF Byte
<1> QED BY <1>2, <1>3, Zenon DEF Holds

LEMMA HoldsWord ==
    ASSUME NEW b \in Buffers(Octets), NEW p, Holds(b, p), NEW i \in Nat, i + 4 <= Buffered(b)
    PROVE  Int32BE(b.data, b.start + i) = Int32BE(Sent, p + i)
<1>1. Buffered(b) \in Nat /\ b.start \in Nat /\ p \in Nat
  BY ContentTyped DEF Buffers, Holds
<1>2. /\ i < Buffered(b) /\ i + 1 < Buffered(b) /\ i + 2 < Buffered(b) /\ i + 3 < Buffered(b)
      /\ i + 1 \in Nat /\ i + 2 \in Nat /\ i + 3 \in Nat
  BY <1>1
<1>3. /\ b.start + (i + 1) = (b.start + i) + 1 /\ p + (i + 1) = (p + i) + 1
      /\ b.start + (i + 2) = (b.start + i) + 2 /\ p + (i + 2) = (p + i) + 2
      /\ b.start + (i + 3) = (b.start + i) + 3 /\ p + (i + 3) = (p + i) + 3
  BY <1>1
<1>4. /\ Byte(b.data, b.start + i) = Byte(Sent, p + i)
      /\ Byte(b.data, b.start + (i + 1)) = Byte(Sent, p + (i + 1))
      /\ Byte(b.data, b.start + (i + 2)) = Byte(Sent, p + (i + 2))
      /\ Byte(b.data, b.start + (i + 3)) = Byte(Sent, p + (i + 3))
  BY <1>2, Zenon DEF Holds
<1>5. /\ Byte(b.data, (b.start + i) + 1) = Byte(Sent, (p + i) + 1)
      /\ Byte(b.data, (b.start + i) + 2) = Byte(Sent, (p + i) + 2)
      /\ Byte(b.data, (b.start + i) + 3) = Byte(Sent, (p + i) + 3)
  BY <1>3, <1>4, Zenon
<1> QED BY <1>4, <1>5, ZenonT(60) DEF Int32BE

\* Where the rows of a batch, or the skipped ones, end, a frame starts.
LEMMA RowsEndAtStarts ==
    ASSUME response \in Responses, NEW b \in Buffers(Octets), NEW p \in Starts, Holds(b, p),
           NEW code \in {CodeD, CodeY}
    PROVE  LET skipped == AfterBuffered(b, code, HeaderSize(code))
               batched == Batch(b, code, HeaderSize(code))
           IN  /\ skipped.ok \in BOOLEAN
               /\ skipped.at \in b.start .. b.end /\ p + (skipped.at - b.start) \in Starts
               /\ batched.at \in b.start .. b.end /\ p + (batched.at - b.start) \in Starts
<1> DEFINE headed == HeaderSize(code)
           P == {at \in b.start .. b.end : p + (at - b.start) \in Starts}
<1>1. b.start \in Nat /\ b.end \in Nat /\ b.start <= b.end /\ Buffered(b) = b.end - b.start /\ p \in Nat
  BY DEF Buffers, Buffered, Holds
<1>2. headed \in {9, 13} /\ headed \in Nat /\ headed >= 4 /\ headed > 5 /\ code \notin Ready
  BY HeaderSizes
<1>3. P \subseteq b.start .. b.end /\ b.start \in P
  <2>1. p + (b.start - b.start) = p /\ b.start \in b.start .. b.end
    BY <1>1
  <2> QED BY <2>1
<1>4. ASSUME NEW at \in P, NEW end \in Nat, CompleteRow(b, code, headed, at, end) PROVE end \in P
  <2> DEFINE start == p + (at - b.start)
             len == Int32BE(b.data, at + headed - 4)
  <2>1. at \in b.start .. b.end /\ start \in Starts
    OBVIOUS
  <2>2. at + headed <= end /\ end <= b.end /\ Byte(b.data, at) = code /\ end = at + headed + len
    BY <1>4 DEF CompleteRow
  <2> HIDE DEF headed
  <2>3. /\ at - b.start \in Nat /\ at - b.start < Buffered(b) /\ b.start + (at - b.start) = at
        /\ (at - b.start) + headed - 4 \in Nat
        /\ ((at - b.start) + headed - 4) + 4 <= Buffered(b)
        /\ b.start + ((at - b.start) + headed - 4) = at + headed - 4
        /\ p + ((at - b.start) + headed - 4) = start + headed - 4
    BY <1>1, <1>2, <2>1, <2>2
  <2>4. Byte(Sent, start) = code
    BY <2>2, <2>3, Zenon DEF Holds
  <2>5. len = Int32BE(Sent, start + headed - 4)
    BY <2>3, HoldsWord
  <2>6. PayloadLength(Sent, start) = len
    BY <2>4, <2>5 DEF PayloadLength, headed
  <2> HIDE DEF start, len
  <2>7. len \in Int
    <3>1. at + headed <= b.end
      BY <1>1, <1>2, <2>1, <2>2, LengthTyped
    <3> QED BY <1>2, <2>1, <3>1, LengthTyped DEF len
  <2>8. len >= 0
    BY <1>1, <1>2, <2>1, <2>2, <2>7
  <2>9. /\ FrameSize(Sent, start) = HeaderSize(code) + len
        /\ start + FrameSize(Sent, start) \in Starts
    BY <1>2, <2>1, <2>4, <2>6, <2>8, FrameEnds DEF headed
  <2>10. p + (end - b.start) \in Starts
    <3>1. p + (end - b.start) = start + (headed + len)
      BY <1>1, <1>2, <2>1, <2>2, <2>7 DEF start
    <3> QED BY <2>9, <3>1 DEF headed
  <2>11. end \in b.start .. b.end
    BY <1>1, <1>2, <2>1, <2>2
  <2> QED BY <2>10, <2>11
<1> HIDE DEF headed
<1>5. AfterBuffered(b, code, headed).at \in P /\ AfterBuffered(b, code, headed).ok \in BOOLEAN
  <2> HIDE DEF P
  <2> QED BY <1>2, <1>3, <1>4, SkippedTo
<1>6. Batch(b, code, headed).at \in P
  <2> HIDE DEF P
  <2> QED BY <1>2, <1>3, <1>4, BatchTo
<1> QED BY <1>5, <1>6 DEF headed

LEMMA UnreadTyped ==
    ASSUME Typed
    PROVE  /\ Unread \in Seq(Octets) /\ Len(Unread) = Buffered(buf) + Len(stream)
           /\ Content(buf) \in Seq(Octets) /\ Len(Content(buf)) = Buffered(buf)
           /\ Buffered(buf) \in Nat /\ Capacity(buf) \in Nat /\ Buffered(buf) <= Capacity(buf)
           /\ Len(stream) \in Nat /\ stream \in Seq(Octets)
           /\ Sent \in Seq(Octets) /\ Len(Sent) \in Nat /\ arrived \in Nat /\ arrived <= Len(Sent)
           /\ response.longest \in Nat /\ HighWater \in Nat
<1>1. buf \in Buffers(Octets) /\ stream \in Seq(Octets) /\ response \in Responses /\ arrived \in 0 .. Len(Sent)
  BY DEF Typed
<1>2. WellFramed(response) /\ response.longest \in Nat /\ HighWater \in Nat
  BY <1>1, ResponsesAssumption, SizesAssumption
<1>3. Sent \in Seq(Octets)
  BY <1>2 DEF WellFramed, Sent, Octets
<1>4. /\ Content(buf) \in Seq(Octets) /\ Len(Content(buf)) = Buffered(buf)
      /\ Buffered(buf) \in Nat /\ Capacity(buf) \in Nat
  BY <1>1, ContentTyped
<1>5. Buffered(buf) <= Capacity(buf)
  BY <1>1 DEF Buffers, Buffered, Capacity
<1>6. Unread \in Seq(Octets) /\ Len(Unread) = Buffered(buf) + Len(stream)
  BY <1>1, <1>4, ConcatProperties DEF Unread
<1>7. Len(Sent) \in Nat /\ arrived \in Nat /\ arrived <= Len(Sent) /\ Len(stream) \in Nat
  <2>1. Len(Sent) \in Nat /\ Len(stream) \in Nat
    BY <1>1, <1>3
  <2> QED BY <1>1, <2>1
<1> QED BY <1>1, <1>2, <1>3, <1>4, <1>5, <1>6, <1>7

LEMMA BufferHolds ==
    ASSUME Typed, Faithful
    PROVE  /\ Holds(buf, Position) /\ Position \in Nat
           /\ Position + Buffered(buf) + Len(stream) = arrived
<1>1. /\ Unread \in Seq(Octets) /\ Len(Unread) = Buffered(buf) + Len(stream)
      /\ Content(buf) \in Seq(Octets) /\ Len(Content(buf)) = Buffered(buf)
      /\ Buffered(buf) \in Nat /\ Len(stream) \in Nat /\ stream \in Seq(Octets)
      /\ Sent \in Seq(Octets) /\ Len(Sent) \in Nat /\ arrived \in Nat /\ arrived <= Len(Sent)
      /\ buf \in Buffers(Octets)
  BY UnreadTyped DEF Typed
<1>2. Len(Unread) <= arrived /\ Unread = SubSeq(Sent, Position + 1, arrived)
  BY DEF Faithful, Position
<1>3. Position \in Nat /\ Position <= arrived /\ Position + Buffered(buf) + Len(stream) = arrived
  <2>1. Len(Unread) = Buffered(buf) + Len(stream) /\ Len(Unread) <= arrived
    BY <1>1, <1>2
  <2>2. Buffered(buf) \in Nat /\ Len(stream) \in Nat /\ arrived \in Nat
    BY <1>1
  <2> QED BY <2>1, <2>2 DEF Position
<1>4. Position + Buffered(buf) <= Len(Sent)
  BY <1>1, <1>3
<1>5. ASSUME NEW i \in Nat, i < Buffered(buf)
      PROVE  Byte(buf.data, buf.start + i) = Byte(Sent, Position + i)
  <2>1. i + 1 \in 1 .. Buffered(buf) /\ i + 1 \in 1 .. Len(Unread) /\ i + 1 \in 1 .. arrived - Position
    BY <1>1, <1>3, <1>5
  <2>2. Content(buf)[i + 1] = buf.data[buf.start + (i + 1)]
    BY <1>1, <2>1, ContentTyped, Zenon
  <2>3. Unread[i + 1] = Content(buf)[i + 1]
    <3>1. \A k \in 1 .. Len(Content(buf)) + Len(stream) :
            Unread[k] = IF k <= Len(Content(buf)) THEN Content(buf)[k] ELSE stream[k - Len(Content(buf))]
      BY <1>1, ConcatProperties DEF Unread
    <3>2. i + 1 \in 1 .. Len(Content(buf)) + Len(stream) /\ i + 1 <= Len(Content(buf))
      BY <1>1, <1>5
    <3> QED BY <3>1, <3>2, Zenon
  <2>4. Unread[i + 1] = Sent[Position + (i + 1)]
    <3>1. \A k \in 1 .. arrived - Position : SubSeq(Sent, Position + 1, arrived)[k] = Sent[Position + k]
      BY <1>1, <1>3, SliceTyped
    <3> QED BY <1>2, <2>1, <3>1, Zenon
  <2>5. buf.start + (i + 1) = (buf.start + i) + 1 /\ Position + (i + 1) = (Position + i) + 1
    <3>1. buf.start \in Nat /\ Position \in Nat
      BY <1>1, <1>3 DEF Buffers
    <3> QED BY <3>1
  <2> QED BY <2>2, <2>3, <2>4, <2>5 DEF Byte
<1>6. Holds(buf, Position)
  BY <1>3, <1>4, <1>5, Zenon DEF Holds
<1> QED BY <1>3, <1>6

\* Bytes taken from the front leave the rest, in order.
LEMMA TakingFaithful ==
    ASSUME Typed, Faithful, NEW n, Taking(n)
    PROVE  Faithful' /\ Position' = Position + n /\ n \in Nat
<1>1. /\ Unread \in Seq(Octets) /\ Len(Unread) \in Nat
      /\ Sent \in Seq(Octets) /\ Len(Sent) \in Nat /\ arrived \in Nat /\ arrived <= Len(Sent)
  BY UnreadTyped
<1>2. n \in Nat /\ n <= Len(Unread)
  BY <1>1 DEF Taking
<1>3. Unread' = SubSeq(Unread, n + 1, Len(Unread)) /\ arrived' = arrived /\ Sent' = Sent
  BY DEF Taking, Sent
<1>4. Len(Unread') = Len(Unread) - n
  BY <1>1, <1>2, <1>3, SliceTyped
<1>5. Len(Unread) <= arrived /\ Unread = SubSeq(Sent, Position + 1, arrived)
  BY DEF Faithful, Position
<1>6. Position \in Nat /\ Position <= arrived /\ arrived - Position = Len(Unread) /\ Position + n <= arrived
  BY <1>1, <1>2, <1>5 DEF Position
<1>7. SubSeq(Sent, Position + n + 1, arrived)
        = SubSeq(SubSeq(Sent, Position + 1, arrived), n + 1, arrived - Position)
  BY <1>1, <1>2, <1>6, RestOfSlice
<1>8. Position' = Position + n
  <2>1. Position' = arrived' - Len(Unread')
    BY DEF Position
  <2>2. Position = arrived - Len(Unread)
    BY DEF Position
  <2> QED BY <1>1, <1>2, <1>3, <1>4, <2>1, <2>2
<1>9. arrived - Len(Unread') + 1 = Position + n + 1 /\ Len(Unread') <= arrived
  <2>1. Position = arrived - Len(Unread)
    BY DEF Position
  <2> QED BY <1>1, <1>2, <1>4, <1>5, <2>1
<1>10. Faithful'
  <2>1. Unread' = SubSeq(Sent, Position + n + 1, arrived)
    BY <1>3, <1>5, <1>6, <1>7
  <2> QED BY <1>3, <1>9, <2>1 DEF Faithful
<1> QED BY <1>2, <1>8, <1>10

-----------------------------------------------------------------------------
(* What a step of the generator comes to *)

\* m bytes leave the buffer, and, of the socket behind it, k.
Moves(m, k) ==
    /\ UNCHANGED <<response, arrived>>
    /\ Drops(buf, buf', m)
    /\ k \in 0 .. Len(stream) /\ stream' = SubSeq(stream, k + 1, Len(stream))
    /\ k = 0 \/ Buffered(buf) = m

LEMMA BufferMoves ==
    ASSUME stream \in Seq(Octets), UNCHANGED <<response, arrived, stream>>, NEW m, Drops(buf, buf', m)
    PROVE  Moves(m, 0)
<1>1. Len(stream) \in Nat /\ SubSeq(stream, 1, Len(stream)) = stream
  OBVIOUS
<1>2. 0 \in 0 .. Len(stream) /\ 0 + 1 = 1
  BY <1>1
<1> QED BY <1>1, <1>2 DEF Moves

LEMMA Moved ==
    ASSUME Typed, Faithful, NEW m, NEW k, Moves(m, k)
    PROVE  /\ Taking(m + k) /\ Faithful' /\ Position' = Position + m + k
           /\ response' = response /\ arrived' = arrived /\ Sent' = Sent
           /\ response' \in Responses /\ arrived' \in 0 .. Len(Sent')
           /\ stream' \in Seq(Octets) /\ buf' \in Buffers(Octets)
           /\ Starts' = Starts /\ m \in Nat /\ k \in Nat
           /\ Buffered(buf') = Buffered(buf) - m /\ Buffered(buf) \in Nat
           /\ Position \in Nat /\ Len(stream') = Len(stream) - k
<1>1. buf \in Buffers(Octets) /\ stream \in Seq(Octets) /\ response \in Responses /\ arrived \in 0 .. Len(Sent)
  BY DEF Typed
<1>2. /\ response' = response /\ arrived' = arrived /\ Drops(buf, buf', m) /\ buf' \in Buffers(Octets)
      /\ k \in 0 .. Len(stream) /\ stream' = SubSeq(stream, k + 1, Len(stream))
      /\ k = 0 \/ Buffered(buf) = m
  BY DEF Moves, Drops
<1>3. Taking(m + k)
  BY <1>1, <1>2, TakenFromBuffer
<1>4. Faithful' /\ Position' = Position + (m + k)
  BY <1>3, TakingFaithful
<1>5. k \in Nat /\ k <= Len(stream) /\ Len(stream) \in Nat
  BY <1>1, <1>2
<1>6. stream' \in Seq(Octets) /\ Len(stream') = Len(stream) - k
  <2>1. Len(stream) <= Len(stream)
    BY <1>5
  <2>2. SubSeq(stream, k + 1, Len(stream)) \in Seq(Octets)
        /\ Len(SubSeq(stream, k + 1, Len(stream))) = Len(stream) - k
    BY <1>1, <1>5, <2>1, SliceTyped, ZenonT(60)
  <2> QED BY <1>2, <2>2, Zenon
<1>7. m \in Nat /\ Buffered(buf') = Buffered(buf) - m /\ Buffered(buf) \in Nat
  BY <1>1, <1>2, DropsCount
<1>8. Sent' = Sent /\ Starts' = Starts
  BY <1>2 DEF Sent, Starts, Boundaries
<1>9. Position \in Nat
  BY BufferHolds
<1>10. Position' = Position + m + k
  BY <1>4, <1>5, <1>7, <1>9
<1> QED BY <1>1, <1>2, <1>3, <1>4, <1>5, <1>6, <1>7, <1>8, <1>9, <1>10

\* Bytes are read, and the invariant goes on to hold.
Reads == (\E n \in Nat : Taking(n)) /\ Typed' /\ Framed'

LEMMA ReadsFault ==
    ASSUME Typed, Faithful, NEW m, NEW k, Moves(m, k), ctl' = ctl, reader' = "failed"
    PROVE  Reads
<1>1. /\ Taking(m + k) /\ m + k \in Nat
      /\ response' \in Responses /\ arrived' \in 0 .. Len(Sent')
      /\ stream' \in Seq(Octets) /\ buf' \in Buffers(Octets)
      /\ m \in Nat /\ Buffered(buf') = Buffered(buf) - m /\ Buffered(buf) \in Nat
  BY Moved, SMTT(30)
<1>2. Collecting' => Buffered(buf') = 0
  <2>1. Collecting' => Buffered(buf) = 0
    BY DEF Collecting, Typed
  <2>2. Buffered(buf') \in Nat
    BY <1>1, ContentTyped
  <2> QED BY <1>1, <2>1, <2>2
<1>3. Typed'
  BY <1>1, <1>2 DEF Typed, Over
<1>4. Framed'
  BY DEF Framed
<1> QED BY <1>1, <1>3, <1>4 DEF Reads

LEMMA ReadsNext ==
    ASSUME Typed, Faithful, NEW m, NEW k, Moves(m, k), ctl' = ToType,
           \/ reader' \in {"reading", "closing", "idle"} /\ Position + m + k \in Starts
           \/ reader' = "done" /\ Position + m + k = response.finish
    PROVE  Reads
<1>1. /\ Taking(m + k) /\ m + k \in Nat /\ Position' = Position + m + k /\ Starts' = Starts
      /\ response' \in Responses /\ arrived' \in 0 .. Len(Sent') /\ response' = response
      /\ stream' \in Seq(Octets) /\ buf' \in Buffers(Octets)
  BY Moved, SMTT(30)
<1>2. ctl'.at = "type" /\ ctl' \in [at : Places, type : Octets, len : Nat, left : Nat, held : Seq(Octets)]
  <2>1. 0 \in Octets /\ "type" \in Places /\ <<>> \in Seq(Octets)
    BY DEF Octets, Places
  <2> QED BY <2>1 DEF ToType
<1>3. Typed'
  BY <1>1, <1>2 DEF Typed, Collecting, Open, Over
<1>4. Framed'
  BY <1>1, <1>2 DEF Framed, ToType
<1> QED BY <1>1, <1>3, <1>4 DEF Reads

LEMMA ReadsWithin ==
    ASSUME Typed, Faithful, NEW m, NEW k, Moves(m, k), reader' = reader, reader # "done",
           ctl' \in [at : Places, type : Octets, len : Nat, left : Nat, held : Seq(Octets)],
           ctl'.at # "type",
           NEW start \in Starts, InFrame(start)',
           ctl'.at \in {"collect", "discard"} => Buffered(buf') = 0,
           ctl'.at = "collect" => Len(ctl'.held) < ctl'.len,
           ctl'.at = "discard" => ctl'.left > 0
    PROVE  Reads
<1>1. /\ Taking(m + k) /\ m + k \in Nat /\ Starts' = Starts
      /\ response' \in Responses /\ arrived' \in 0 .. Len(Sent')
      /\ stream' \in Seq(Octets) /\ buf' \in Buffers(Octets)
  BY Moved, SMTT(30)
<1>2. Typed'
  BY <1>1 DEF Typed, Collecting
<1>3. Framed'
  BY <1>1 DEF Framed
<1> QED BY <1>1, <1>2, <1>3 DEF Reads

\* A frame ends behind the next m bytes of the buffer, of which b is the rest, and
\* k of the socket.
Behind(b, m, k) ==
    /\ UNCHANGED <<response, arrived>>
    /\ Drops(buf, b, m)
    /\ k \in 0 .. Len(stream) /\ stream' = SubSeq(stream, k + 1, Len(stream))
    /\ k = 0 \/ Buffered(buf) = m
    /\ Position + m + k \in Starts

\* And the rows behind it are j bytes.
RowsTaken(b, m, k, j) ==
    /\ j \in Nat /\ Moves(m + j, k) /\ Position + (m + j) + k \in Starts
    /\ Holds(b, Position + m + k) /\ Position + (m + j) + k = (Position + m + k) + j

\* Behind a frame come the rows that are decoded or skipped along with it.
LEMMA RowsBehind ==
    ASSUME Typed, Faithful, NEW b, NEW m, NEW k, Behind(b, m, k),
           NEW code \in {CodeD, CodeY}, NEW at,
           \/ at = AfterBuffered(b, code, HeaderSize(code)).at
           \/ at = Batch(b, code, HeaderSize(code)).at,
           buf' = [b EXCEPT !.start = at]
    PROVE  RowsTaken(b, m, k, at - b.start)
<1>0. /\ UNCHANGED <<response, arrived>> /\ Drops(buf, b, m)
      /\ k \in 0 .. Len(stream) /\ stream' = SubSeq(stream, k + 1, Len(stream))
      /\ k = 0 \/ Buffered(buf) = m
      /\ Position + m + k \in Starts
  BY DEF Behind
<1> DEFINE q == Position + m + k
           j == at - b.start
<1>1. /\ buf \in Buffers(Octets) /\ b \in Buffers(Octets) /\ response \in Responses
      /\ Position \in Nat /\ Holds(buf, Position) /\ Len(Sent) \in Nat /\ Len(stream) \in Nat
  BY <1>0, BufferHolds, UnreadTyped DEF Typed, Drops
<1>2. /\ Buffered(b) = Buffered(buf) - m /\ m \in Nat /\ Buffered(buf) \in Nat /\ Buffered(b) \in Nat
      /\ k \in Nat /\ q \in Nat
  <2>1. Buffered(b) = Buffered(buf) - m /\ m \in Nat /\ Buffered(buf) \in Nat /\ Buffered(b) \in Nat
    BY <1>0, <1>1, DropsCount
  <2>2. k \in Nat
    BY <1>0, <1>1
  <2>3. Position \in Nat
    BY <1>1
  <2> QED BY <2>1, <2>2, <2>3, SMTT(30)
<1>3. Holds(b, q)
  <2>0. k = 0 \/ Buffered(buf) = m
    BY <1>0
  <2>1. CASE k = 0
    <3>1. Holds(b, Position + m)
      BY <1>0, <1>1, HoldsDropped
    <3>2. q = Position + m
      BY <1>1, <1>2, <2>1
    <3> QED BY <3>1, <3>2
  <2>2. CASE Buffered(buf) = m
    <3>1. Buffered(b) = 0
      BY <1>2, <2>2
    <3>2. q <= Len(Sent)
      BY <1>0, <1>1, FrameEnds
    <3>3. \A i \in Nat : ~(i < Buffered(b))
      BY <3>1
    <3>4. q + Buffered(b) <= Len(Sent)
      <4> HIDE DEF q
      <4> QED BY <1>1, <1>2, <3>1, <3>2
    <3> HIDE DEF q
    <3> QED BY <1>2, <3>3, <3>4, Zenon DEF Holds
  <2> QED BY <2>0, <2>1, <2>2
<1>4. at \in b.start .. b.end /\ q + j \in Starts
  <2> HIDE DEF q
  <2>1. q \in Starts
    BY <1>0 DEF q
  <2> QED BY <1>1, <1>3, <2>1, RowsEndAtStarts
<1>5. Drops(b, buf', j)
  BY <1>1, <1>4, StartDrops
<1>6. Drops(buf, buf', m + j)
  BY <1>0, <1>1, <1>5, DropsThen
<1>7. j \in Nat /\ (k = 0 \/ Buffered(buf) = m + j)
  <2>1. j \in 0 .. Buffered(b)
    BY <1>5 DEF Drops
  <2> HIDE DEF j
  <2> QED BY <1>0, <1>2, <2>1
<1> HIDE DEF j
<1>8. Moves(m + j, k)
  BY <1>0, <1>6, <1>7 DEF Moves
<1>9. q + j = Position + (m + j) + k
  BY <1>1, <1>2, <1>7, SMTT(30)
<1> QED BY <1>3, <1>4, <1>7, <1>8, <1>9 DEF RowsTaken, j

LEMMA RowsFollow ==
    ASSUME Typed, Faithful, UNCHANGED <<response, arrived>>,
           NEW b, NEW m, Drops(buf, b, m),
           NEW k \in 0 .. Len(stream), stream' = SubSeq(stream, k + 1, Len(stream)),
           k = 0 \/ Buffered(buf) = m,
           Position + m + k \in Starts, NEW code \in {CodeD, CodeY}, NEW at,
           \/ at = AfterBuffered(b, code, HeaderSize(code)).at
           \/ at = Batch(b, code, HeaderSize(code)).at,
           buf' = [b EXCEPT !.start = at]
    PROVE  \E j \in Nat : Moves(m + j, k) /\ Position + (m + j) + k \in Starts
<1> DEFINE j == at - b.start
<1>1. RowsTaken(b, m, k, j)
  BY RowsBehind DEF Behind
<1> HIDE DEF j
<1> QED BY <1>1 DEF RowsTaken

LEMMA ReadsDiscarded ==
    ASSUME Typed, Faithful, Running, UNCHANGED <<response, arrived>>,
           NEW b, NEW m, Drops(buf, b, m),
           NEW k \in 0 .. Len(stream), stream' = SubSeq(stream, k + 1, Len(stream)),
           k = 0 \/ Buffered(buf) = m,
           Position + m + k \in Starts, ctl.type \in {CodeD, CodeY},
           Discarded(b)
    PROVE  Reads
<1> DEFINE headed == IF ctl.type = CodeY THEN 13 ELSE 9
           r == AfterBuffered(b, ctl.type, headed)
<1>1. headed = HeaderSize(ctl.type)
  BY HeaderSizes DEF CodeD, CodeY
<1>2. buf' = [b EXCEPT !.start = r.at] /\ ((NextFrame /\ UNCHANGED <<batch, rows>>) \/ Fault)
  BY DEF Discarded
<1> HIDE DEF headed, r
<1>3. r.at = AfterBuffered(b, ctl.type, HeaderSize(ctl.type)).at
  BY <1>1 DEF r
<1>4. PICK j \in Nat : Moves(m + j, k) /\ Position + (m + j) + k \in Starts
  BY <1>2, <1>3, RowsFollow
<1>5. CASE NextFrame
  <2>1. ctl' = ToType /\ reader' \in {"reading", "closing", "idle"}
    BY <1>5 DEF NextFrame, Running
  <2> QED BY <1>4, <2>1, ReadsNext
<1>6. CASE Fault
  <2>1. ctl' = ctl /\ reader' = "failed"
    BY <1>6 DEF Fault
  <2> QED BY <1>4, <2>1, ReadsFault
<1> QED BY <1>2, <1>5, <1>6

LEMMA ReadsPayload ==
    ASSUME Typed, Faithful, Running, UNCHANGED <<response, arrived>>,
           NEW b, NEW m, Drops(buf, b, m),
           NEW k \in 0 .. Len(stream), stream' = SubSeq(stream, k + 1, Len(stream)),
           k = 0 \/ Buffered(buf) = m,
           Position + m + k \in Starts,
           NEW payload, HandlePayload(payload, b)
    PROVE  Reads
<1>1. ASSUME buf' = b PROVE Moves(m, k)
  BY <1>1 DEF Moves
<1>2. ASSUME buf' = b, Fault PROVE Reads
  BY <1>1, <1>2, ReadsFault DEF Fault
<1>3. ASSUME buf' = b, Yield \/ NextFrame PROVE Reads
  <2>1. ctl' = ToType /\ reader' \in {"reading", "closing", "idle"}
    BY <1>3 DEF Yield, NextFrame, Running
  <2> QED BY <1>1, <1>3, <2>1, ReadsNext
<1>4. ASSUME NEW row, YieldRow(row), buf' = [b EXCEPT !.start = DataRowBatch(b).at] PROVE Reads
  <2>1. ctl' = ToType /\ reader' \in {"reading", "closing", "idle"}
    BY <1>4 DEF YieldRow, Yield, Running
  <2>2. DataRowBatch(b).at = Batch(b, CodeD, HeaderSize(CodeD)).at
    BY HeaderSizes DEF DataRowBatch
  <2>3. PICK j \in Nat : Moves(m + j, k) /\ Position + (m + j) + k \in Starts
    BY <1>4, <2>2, RowsFollow
  <2> QED BY <2>1, <2>3, ReadsNext
<1> QED BY <1>2, <1>3, <1>4 DEF HandlePayload

Ctls == [at : Places, type : Octets, len : Nat, left : Nat, held : Seq(Octets)]

LEMMA ReadsDiscard ==
    ASSUME Typed, Faithful, Running, UNCHANGED <<response, arrived, stream>>,
           NEW b, NEW m, Drops(buf, b, m), NEW n \in Nat,
           NEW start \in Starts, ctl.type = Byte(Sent, start), ctl.type \in {CodeD, CodeY},
           PayloadLength(Sent, start) >= 0,
           Position + m + n = start + FrameSize(Sent, start),
           Discard(b, n)
    PROVE  Reads
<1>1. /\ buf \in Buffers(Octets) /\ b \in Buffers(Octets) /\ stream \in Seq(Octets) /\ ctl \in Ctls
      /\ response \in Responses
  BY DEF Typed, Drops, Ctls
<1>2. /\ Buffered(b) = Buffered(buf) - m /\ m \in Nat /\ Buffered(buf) \in Nat /\ Buffered(b) \in Nat
  BY <1>1, DropsCount
<1>3. Position \in Nat
  BY BufferHolds
<1>4. ctl.type \notin Ready /\ ctl.type # 0
  BY HeaderSizes
<1>5. start + FrameSize(Sent, start) \in Starts
  BY <1>1, <1>4, FrameEnds
<1>6. CASE Buffered(b) >= n
  <2>1. Drops(b, Skip(b, n), n)
    BY <1>1, <1>2, <1>6, SkipDrops
  <2>2. Drops(buf, Skip(b, n), m + n)
    BY <1>1, <2>1, DropsThen
  <2>3. Position + (m + n) + 0 \in Starts
    <3>1. Position + (m + n) + 0 = Position + m + n
      BY <1>2, <1>3
    <3> QED BY <1>5, <3>1
  <2>4. 0 \in 0 .. Len(stream) /\ stream' = SubSeq(stream, 0 + 1, Len(stream))
    BY <1>1, BufferMoves DEF Moves
  <2>5. Discarded(Skip(b, n))
    BY <1>6 DEF Discard
  <2> QED BY <2>2, <2>3, <2>4, <2>5, ReadsDiscarded
<1>7. CASE ~(Buffered(b) >= n)
  <2> DEFINE left == n - Buffered(b)
  <2>1. left \in Nat /\ left > 0
    BY <1>2, <1>7
  <2>2. buf' = Emptied(b) /\ ctl' = [ctl EXCEPT !.at = "discard", !.left = left] /\ reader' = reader
    BY <1>7 DEF Discard
  <2>3. Drops(buf, buf', m + Buffered(b))
    BY <1>1, <2>2, EmptiedDrops, DropsThen
  <2>4. Moves(m + Buffered(b), 0)
    BY <1>1, <2>3, BufferMoves
  <2>5. /\ Position' = Position + (m + Buffered(b)) + 0
        /\ Sent' = Sent /\ Buffered(buf') = Buffered(buf) - (m + Buffered(b))
    BY <2>4, Moved
  <2>6. Buffered(buf') = 0 /\ Position' + left = start + FrameSize(Sent, start)
    BY <1>2, <1>3, <2>5
  <2> HIDE DEF left
  <2>8. /\ ctl'.at = "discard" /\ ctl'.type = ctl.type /\ ctl'.left = left
        /\ ctl' \in [at : Places, type : Octets, len : Nat, left : Nat, held : Seq(Octets)]
    <3>1. "discard" \in Places
      BY DEF Places
    <3> DEFINE c == [ctl EXCEPT !.at = "discard"]
    <3>2. c = [at |-> "discard", type |-> ctl.type, len |-> ctl.len, left |-> ctl.left, held |-> ctl.held]
      BY <1>1 DEF Ctls
    <3>3. ctl' = [c EXCEPT !.left = left]
      BY <2>2
    <3> HIDE DEF c
    <3>4. ctl' = [at |-> "discard", type |-> ctl.type, len |-> ctl.len, left |-> left, held |-> ctl.held]
      BY <3>2, <3>3
    <3> QED BY <1>1, <2>1, <3>1, <3>4 DEF Ctls
  <2>9. InFrame(start)'
    BY <1>4, <2>5, <2>6, <2>8 DEF InFrame, PayloadLength, FrameSize
  <2>10. reader # "done"
    BY DEF Running
  <2> QED BY <2>1, <2>2, <2>4, <2>6, <2>8, <2>9, <2>10, ReadsWithin
<1> QED BY <1>6, <1>7

-----------------------------------------------------------------------------
(* The steps *)

LEMMA ReadsSame ==
    ASSUME Typed, Faithful, Framed, Unread' = Unread, UNCHANGED <<response, arrived, ctl>>,
           reader \in Open, reader' \in Open,
           stream' \in Seq(Octets), buf' \in Buffers(Octets),
           Collecting => Buffered(buf') = 0
    PROVE  Reads /\ Position' = Position
<1>1. Unread \in Seq(Octets) /\ Len(Unread) \in Nat
  BY UnreadTyped
<1>2. Taking(0)
  <2>1. SubSeq(Unread, 0 + 1, Len(Unread)) = Unread /\ 0 \in 0 .. Len(Unread)
    BY <1>1
  <2> QED BY <2>1 DEF Taking
<1>3. Position' = Position + 0 /\ Position \in Nat
  BY <1>2, TakingFaithful, BufferHolds
<1>4. Position' = Position /\ Sent' = Sent /\ Starts' = Starts /\ ctl' = ctl
  BY <1>3 DEF Sent, Starts, Boundaries
<1>5. Typed'
  BY <1>4 DEF Typed, Collecting
<1>6. ASSUME NEW start, InFrame(start) PROVE InFrame(start)'
  BY <1>4, <1>6 DEF InFrame
<1>7. Framed'
  BY <1>4, <1>6, Zenon DEF Framed, Open
<1> QED BY <1>2, <1>4, <1>5, <1>7 DEF Reads

LEMMA PullReads ==
    ASSUME Typed, Faithful, Framed, Pull
    PROVE  Reads /\ Position' = Position
<1>1. /\ buf \in Buffers(Octets) /\ stream \in Seq(Octets) /\ ctl \in Ctls
      /\ Garbage \in Octets
  BY SizesAssumption DEF Typed, Ctls, Octets
<1> DEFINE r == Reserve(buf, Need)
<1>2. Need \in Int
  <2>1. ctl.len \in Nat
    BY <1>1 DEF Ctls
  <2> QED BY <2>1 DEF Need
<1>3. r \in Buffers(Octets) /\ Content(r) = Content(buf)
  BY <1>1, <1>2, ReserveKeepsContent
<1>4. buf' = AppendChunk(r, stream) /\ stream' = <<>>
  BY DEF Pull
<1> HIDE DEF r
<1>5. buf' \in Buffers(Octets) /\ Content(buf') = Content(buf) \o stream
  BY <1>1, <1>3, <1>4, ChunkAppended
<1>6. Unread' = Unread
  <2>1. Content(buf) \o stream \in Seq(Octets)
    BY UnreadTyped DEF Unread
  <2>2. Content(buf)' = Content(buf')
    BY DEF Content
  <2>3. (Content(buf) \o stream) \o <<>> = Content(buf) \o stream
    BY <2>1
  <2> QED BY <1>4, <1>5, <2>2, <2>3 DEF Unread
<1>7. reader \in Open /\ reader' = reader /\ ~Collecting
  BY DEF Pull, Starved, Running, Open
<1>8. stream' \in Seq(Octets) /\ UNCHANGED <<response, arrived, ctl>>
  BY <1>4 DEF Pull
<1> QED BY <1>5, <1>6, <1>7, <1>8, ReadsSame

LEMMA CallerReads ==
    ASSUME Typed, Faithful, Framed, Caller
    PROVE  Reads /\ Position' = Position
<1>1. /\ reader \in Open /\ reader' \in Open
      /\ UNCHANGED <<response, arrived, stream, buf, ctl>>
  BY DEF Caller, TakeBufferedRow, NextItem, CloseReader, Open
<1>2. Unread' = Unread /\ buf' \in Buffers(Octets) /\ stream' \in Seq(Octets)
      /\ (Collecting => Buffered(buf') = 0)
  BY <1>1 DEF Typed, Unread, Content
<1> QED BY <1>1, <1>2, ReadsSame

\* A generator that looks for a frame is where one starts, or else is in one.
LEMMA WhereItIs ==
    ASSUME Typed, Faithful, Framed, Running
    PROVE  /\ buf \in Buffers(Octets) /\ stream \in Seq(Octets) /\ ctl \in Ctls
           /\ response \in Responses /\ reader \in Open /\ reader # "done"
           /\ Position \in Nat /\ Holds(buf, Position) /\ Buffered(buf) \in Nat
           /\ ctl.at = "type" => Position \in Starts
           /\ ctl.at # "type" => \E start \in Starts : InFrame(start)
<1>1. reader \in {"reading", "closing", "idle"}
  BY DEF Running
<1>2. ctl.at = "type" => Position \in Starts
  BY <1>1 DEF Framed
<1>3. ctl.at # "type" => \E start \in Starts : InFrame(start)
  BY <1>1 DEF Framed
<1>4. Position \in Nat /\ Holds(buf, Position) /\ Buffered(buf) \in Nat
  BY BufferHolds, UnreadTyped
<1>5. reader # "done" /\ reader \in Open
  BY DEF Running, Open
<1> QED BY <1>2, <1>3, <1>4, <1>5 DEF Typed, Ctls

LEMMA ServeBatchReads ==
    ASSUME Typed, Faithful, Framed, ServeBatch
    PROVE  Reads
<1>1. Running /\ ctl.at = "type"
  BY DEF ServeBatch, Serving
<1>2. ctl' = ToType /\ reader' \in Open /\ UNCHANGED <<response, arrived, stream, buf>>
  BY <1>1 DEF ServeBatch, YieldRow, Yield, Running, Open
<1>3. Moves(0, 0) /\ Position + 0 + 0 = Position
  <2>1. buf \in Buffers(Octets) /\ stream \in Seq(Octets) /\ Position \in Nat
    BY <1>1, WhereItIs
  <2> QED BY <1>2, <2>1, SameDrops, BufferMoves
<1>4. Position \in Starts
  BY <1>1, WhereItIs
<1> QED BY <1>2, <1>3, <1>4, ReadsNext DEF Open

LEMMA ReadTypeReads ==
    ASSUME Typed, Faithful, Framed, ReadType
    PROVE  Reads
<1> DEFINE type == Byte(buf.data, buf.start)
<1>1. Running /\ ctl.at = "type" /\ Buffered(buf) >= 1
  BY DEF ReadType, HasBytes, Need
<1>2. /\ buf \in Buffers(Octets) /\ stream \in Seq(Octets) /\ ctl \in Ctls /\ response \in Responses
      /\ Position \in Nat /\ Holds(buf, Position) /\ Buffered(buf) \in Nat /\ Position \in Starts
      /\ reader \in Open /\ reader # "done"
  BY <1>1, WhereItIs
<1>3. /\ ctl' = IF type = 0 THEN ctl ELSE [ctl EXCEPT !.at = "header", !.type = type]
      /\ buf' = Skip(buf, 1) /\ reader' = reader /\ UNCHANGED <<response, arrived, stream>>
  BY DEF ReadType
<1>4. Moves(1, 0) /\ Position' = Position + 1 + 0 /\ Sent' = Sent
  <2>1. 1 \in 0 .. Buffered(buf)
    BY <1>1, <1>2
  <2>2. Moves(1, 0)
    BY <1>2, <1>3, <2>1, SkipDrops, BufferMoves
  <2> QED BY <2>2, Moved
<1>5. type = Byte(Sent, Position)
  <2>1. 0 < Buffered(buf) /\ 0 \in Nat
    BY <1>1, <1>2
  <2>2. Byte(buf.data, buf.start + 0) = Byte(Sent, Position + 0)
    BY <1>2, <2>1, Zenon DEF Holds
  <2>3. buf.start + 0 = buf.start /\ Position + 0 = Position
    BY <1>2 DEF Buffers
  <2> QED BY <2>2, <2>3
<1> HIDE DEF type
<1>6. type \in Octets
  BY <1>2, <1>5, FrameEnds
<1>7. CASE type = 0
  <2>0. Byte(Sent, Position) = 0 /\ 0 \notin Ready /\ HeaderSize(Byte(Sent, Position)) = 1
    BY <1>5, <1>7, HeaderSizes DEF Ready
  <2>1. FrameSize(Sent, Position) = 1
    <3>1. FrameSize(Sent, Position) = HeaderSize(Byte(Sent, Position))
      BY <1>2, <2>0, FrameEnds
    <3> QED BY <2>0, <3>1
  <2>2. Position + 1 \in Starts
    <3>1. Position + FrameSize(Sent, Position) \in Starts
      BY <1>2, <2>0, FrameEnds
    <3> QED BY <2>1, <3>1
  <2>3. Position' \in Starts' /\ Starts' = Starts
    BY <1>2, <1>4, <2>2, Moved
  <2>4. /\ buf' \in Buffers(Octets) /\ Taking(1 + 0)
        /\ response' \in Responses /\ arrived' \in 0 .. Len(Sent') /\ stream' \in Seq(Octets)
    BY <1>4, Moved
  <2>5. ctl' = ctl
    BY <1>3, <1>7
  <2>6. Typed'
    BY <1>1, <1>2, <1>3, <2>4, <2>5 DEF Typed, Collecting
  <2>7. Framed'
    BY <1>1, <1>2, <1>3, <2>3, <2>5 DEF Framed
  <2> QED BY <2>4, <2>6, <2>7 DEF Reads
<1>8. CASE type # 0
  <2> DEFINE c == [ctl EXCEPT !.at = "header"]
  <2>1. c = [at |-> "header", type |-> ctl.type, len |-> ctl.len, left |-> ctl.left, held |-> ctl.held]
    BY <1>2 DEF Ctls
  <2>2. ctl' = [c EXCEPT !.type = type]
    BY <1>3, <1>8
  <2> HIDE DEF c
  <2>3. ctl' = [at |-> "header", type |-> type, len |-> ctl.len, left |-> ctl.left, held |-> ctl.held]
    BY <2>1, <2>2
  <2>4. "header" \in Places
    BY DEF Places
  <2>5. /\ ctl' \in [at : Places, type : Octets, len : Nat, left : Nat, held : Seq(Octets)]
        /\ ctl'.at = "header" /\ ctl'.type = type
    BY <1>2, <1>6, <2>3, <2>4 DEF Ctls
  <2>6. Position' = Position + 1
    BY <1>2, <1>4
  <2>8. ASSUME NEW start \in Starts, start = Position PROVE InFrame(start)'
    BY <1>4, <1>5, <1>8, <2>5, <2>6, <2>8 DEF InFrame
  <2> QED BY <1>2, <1>3, <1>4, <2>5, <2>8, ReadsWithin
<1> QED BY <1>7, <1>8

LEMMA SkipHeaderReads ==
    ASSUME Typed, Faithful, Framed, SkipHeader
    PROVE  Reads
<1>1. Running /\ ctl.at = "header" /\ Buffered(buf) >= 4
  BY DEF SkipHeader, HasBytes, Need
<1>2. /\ buf \in Buffers(Octets) /\ stream \in Seq(Octets) /\ ctl \in Ctls /\ response \in Responses
      /\ Position \in Nat /\ Buffered(buf) \in Nat
      /\ reader \in Open /\ reader # "done" /\ \E start \in Starts : InFrame(start)
  BY <1>1, WhereItIs
<1>3. PICK start \in Starts : InFrame(start)
  BY <1>2
<1>4. /\ ctl.type = Byte(Sent, start) /\ ctl.type # 0 /\ Position = start + 1
      /\ ctl.type \in Octets /\ start \in Nat
  BY <1>1, <1>2, <1>3, FrameEnds DEF InFrame
<1> DEFINE rest == Skip(buf, 4)
<1>5. Drops(buf, rest, 4) /\ rest \in Buffers(Octets)
  <2>1. 4 \in 0 .. Buffered(buf)
    BY <1>1, <1>2
  <2>2. Drops(buf, Skip(buf, 4), 4)
    BY <1>2, <2>1, SkipDrops
  <2> QED BY <2>2 DEF Drops
<1>6. UNCHANGED <<response, arrived, stream>>
  BY DEF SkipHeader
<1> HIDE DEF rest
<1>7. CASE ctl.type \in Ready \cup Control
  <2>1. FrameSize(Sent, start) = 5 /\ HeaderSize(ctl.type) = 5
    BY <1>2, <1>4, <1>7, FrameEnds, HeaderSizes
  <2>2. Position + 4 + 0 = start + 5
    BY <1>4
  <2>3. CASE ctl.type \in Ready
    <3>1. buf' = ShrinkReadBuffer(rest) /\ ctl' = ToType /\ reader' = "done"
      BY <2>3 DEF SkipHeader, rest, Ready, Control
    <3>2. Drops(rest, buf', 0)
      <4>1. Garbage \in Octets
        BY SizesAssumption DEF Octets
      <4> QED BY <1>5, <3>1, <4>1, ShrinkLosesNothing, SameDrops
    <3>3. Drops(buf, buf', 4 + 0)
      BY <1>2, <1>5, <3>2, DropsThen
    <3>4. Moves(4, 0)
      BY <1>2, <1>6, <3>3, BufferMoves
    <3>5. Position + 4 + 0 = response.finish
      BY <1>2, <1>4, <2>1, <2>2, <2>3, FrameEnds
    <3> QED BY <3>1, <3>4, <3>5, ReadsNext
  <2>4. CASE ctl.type \notin Ready
    <3>1. buf' = rest /\ ctl' = ToType /\ reader' = reader
      BY <1>7, <2>4 DEF SkipHeader, NextFrame, rest
    <3>2. Moves(4, 0)
      BY <1>2, <1>5, <1>6, <3>1, BufferMoves
    <3>3. Position + 4 + 0 \in Starts
      BY <1>2, <1>4, <2>1, <2>2, <2>4, FrameEnds
    <3> QED BY <1>2, <3>1, <3>2, <3>3, ReadsNext DEF Open
  <2> QED BY <2>3, <2>4
<1>8. CASE ctl.type \notin Ready \cup Control
  <2> DEFINE at == IF ctl.type = CodeY THEN "rowHead" ELSE "length"
  <2>1. buf' = rest /\ ctl' = [ctl EXCEPT !.at = at] /\ reader' = reader
    BY <1>8 DEF SkipHeader, rest
  <2>2. at \in Places /\ at \in {"rowHead", "length"}
    BY DEF Places
  <2>3. at = "length" => HeaderSize(ctl.type) = 9
    BY <1>4, <1>8, HeaderSizes
  <2>4. at = "rowHead" => ctl.type = CodeY
    OBVIOUS
  <2> HIDE DEF at
  <2>5. ctl' = [at |-> at, type |-> ctl.type, len |-> ctl.len, left |-> ctl.left, held |-> ctl.held]
    BY <1>2, <2>1 DEF Ctls
  <2>6. /\ ctl' \in [at : Places, type : Octets, len : Nat, left : Nat, held : Seq(Octets)]
        /\ ctl'.at = at /\ ctl'.type = ctl.type
    BY <1>2, <2>2, <2>5 DEF Ctls
  <2>7. Moves(4, 0)
    BY <1>2, <1>5, <1>6, <2>1, BufferMoves
  <2>8. Position' = start + 5 /\ Sent' = Sent
    <3>1. Position' = Position + 4 + 0 /\ Sent' = Sent
      BY <2>7, Moved
    <3> QED BY <1>4, <3>1
  <2>9. InFrame(start)'
    BY <1>4, <2>2, <2>3, <2>4, <2>6, <2>8 DEF InFrame
  <2>10. ctl'.at \notin {"type", "collect", "discard"}
    BY <2>2, <2>6
  <2> QED BY <1>2, <2>1, <2>6, <2>7, <2>9, <2>10, ReadsWithin
<1> QED BY <1>7, <1>8

\* The length of the frame, as it is read from the buffer.
LEMMA PayloadRead ==
    ASSUME Typed, Faithful, NEW start \in Starts, NEW i \in Nat, i + 4 <= Buffered(buf),
           HeaderSize(Byte(Sent, start)) \in {9, 13},
           Position + i = start + HeaderSize(Byte(Sent, start)) - 4
    PROVE  /\ Int32BE(buf.data, buf.start + i) = PayloadLength(Sent, start)
           /\ PayloadLength(Sent, start) \in Int
<1>1. buf \in Buffers(Octets) /\ Holds(buf, Position) /\ response \in Responses
  BY BufferHolds DEF Typed
<1>2. Int32BE(buf.data, buf.start + i) = Int32BE(Sent, Position + i)
  BY <1>1, HoldsWord
<1>3. PayloadLength(Sent, start) \in Int
  BY <1>1, FrameEnds
<1> QED BY <1>2, <1>3 DEF PayloadLength

LEMMA ReadLengthReads ==
    ASSUME Typed, Faithful, Framed, ReadLength
    PROVE  Reads
<1> DEFINE len == Int32BE(buf.data, buf.start)
           b == Skip(buf, 4)
<1>1. Running /\ ctl.at = "length" /\ Buffered(buf) >= 4
  BY DEF ReadLength, HasBytes, Need
<1>2. /\ buf \in Buffers(Octets) /\ stream \in Seq(Octets) /\ ctl \in Ctls /\ response \in Responses
      /\ Position \in Nat /\ Buffered(buf) \in Nat
      /\ reader \in Open /\ reader # "done" /\ \E start \in Starts : InFrame(start)
  BY <1>1, WhereItIs
<1>3. PICK start \in Starts : InFrame(start)
  BY <1>2
<1>4. /\ ctl.type = Byte(Sent, start) /\ ctl.type # 0 /\ Position = start + 5
      /\ ctl.type \in Octets /\ start \in Nat /\ HeaderSize(ctl.type) = 9
  BY <1>1, <1>2, <1>3, FrameEnds DEF InFrame
<1>5. Drops(buf, b, 4)
  <2>1. 4 \in 0 .. Buffered(buf)
    BY <1>1, <1>2
  <2> QED BY <1>2, <2>1, SkipDrops
<1>6. UNCHANGED <<response, arrived, stream>>
  BY DEF ReadLength
<1>7. len = PayloadLength(Sent, start) /\ len \in Int
  <2>1. 0 + 4 <= Buffered(buf) /\ Position + 0 = start + HeaderSize(Byte(Sent, start)) - 4
    BY <1>1, <1>4
  <2>2. HeaderSize(Byte(Sent, start)) \in {9, 13}
    BY <1>4
  <2>3. Int32BE(buf.data, buf.start + 0) = PayloadLength(Sent, start) /\ PayloadLength(Sent, start) \in Int
    BY <2>1, <2>2, PayloadRead
  <2>4. buf.start + 0 = buf.start
    BY <1>2 DEF Buffers
  <2> QED BY <2>3, <2>4
<1>8. \/ Fault /\ buf' = b
      \/ ValidLength(len) /\ ctl.type = CodeD /\ Discard(b, len)
      \/ /\ ValidLength(len) /\ ctl' = [ctl EXCEPT !.at = "payload", !.len = len]
         /\ buf' = b /\ reader' = reader
  BY DEF ReadLength
<1> HIDE DEF len, b
<1>9. CASE Fault /\ buf' = b
  <2>1. Moves(4, 0)
    BY <1>2, <1>5, <1>6, <1>9, BufferMoves
  <2> QED BY <1>9, <2>1, ReadsFault DEF Fault
<1>10. CASE ValidLength(len) /\ ctl.type = CodeD /\ Discard(b, len)
  <2>1. len \in Nat /\ PayloadLength(Sent, start) >= 0
    BY <1>7, <1>10 DEF ValidLength
  <2>2. FrameSize(Sent, start) = 9 + len
    BY <1>2, <1>4, <1>7, FrameEnds
  <2>3. Position + 4 + len = start + FrameSize(Sent, start)
    BY <1>4, <2>1, <2>2
  <2> QED BY <1>1, <1>4, <1>5, <1>6, <1>10, <2>1, <2>3, ReadsDiscard
<1>11. CASE /\ ValidLength(len) /\ ctl' = [ctl EXCEPT !.at = "payload", !.len = len]
            /\ buf' = b /\ reader' = reader
  <2> DEFINE c == [ctl EXCEPT !.at = "payload"]
  <2>1. c = [at |-> "payload", type |-> ctl.type, len |-> ctl.len, left |-> ctl.left, held |-> ctl.held]
    BY <1>2 DEF Ctls
  <2>2. ctl' = [c EXCEPT !.len = len]
    BY <1>11
  <2> HIDE DEF c
  <2>3. ctl' = [at |-> "payload", type |-> ctl.type, len |-> len, left |-> ctl.left, held |-> ctl.held]
    BY <2>1, <2>2
  <2>4. "payload" \in Places /\ len \in Nat
    BY <1>7, <1>11 DEF Places, ValidLength
  <2>5. /\ ctl' \in [at : Places, type : Octets, len : Nat, left : Nat, held : Seq(Octets)]
        /\ ctl'.at = "payload" /\ ctl'.type = ctl.type /\ ctl'.len = len
    BY <1>2, <2>3, <2>4 DEF Ctls
  <2>6. Moves(4, 0)
    BY <1>2, <1>5, <1>6, <1>11, BufferMoves
  <2>7. Position' = start + 9 /\ Sent' = Sent
    <3>1. Position' = Position + 4 + 0 /\ Sent' = Sent
      BY <2>6, Moved
    <3> QED BY <1>4, <3>1
  <2>8. InFrame(start)'
    BY <1>4, <1>7, <2>5, <2>7 DEF InFrame, PayloadLength
  <2> QED BY <1>2, <1>11, <2>5, <2>6, <2>8, ReadsWithin
<1> QED BY <1>8, <1>9, <1>10, <1>11

LEMMA DiscardMoreReads ==
    ASSUME Typed, Faithful, Framed, DiscardMore
    PROVE  Reads
<1>1. Running /\ ctl.at = "discard" /\ ctl.left > 0 /\ Buffered(buf) = 0
  BY DEF DiscardMore, Typed, Collecting
<1>2. /\ buf \in Buffers(Octets) /\ stream \in Seq(Octets) /\ ctl \in Ctls /\ response \in Responses
      /\ Position \in Nat /\ Buffered(buf) \in Nat
      /\ reader \in Open /\ reader # "done" /\ \E start \in Starts : InFrame(start)
  BY <1>1, WhereItIs
<1>3. PICK start \in Starts : InFrame(start)
  BY <1>2
<1>4. /\ ctl.type = Byte(Sent, start) /\ ctl.type # 0 /\ ctl.type \in {CodeD, CodeY}
      /\ Position + ctl.left = start + FrameSize(Sent, start) /\ PayloadLength(Sent, start) >= 0
      /\ start \in Nat
  BY <1>1, <1>2, <1>3, FrameEnds DEF InFrame
<1>5. Drops(buf, buf, 0) /\ ctl.left \in Nat /\ Len(stream) \in Nat
  BY <1>2, SameDrops DEF Ctls
<1>6. UNCHANGED <<response, arrived>>
  BY DEF DiscardMore
<1>7. CASE Len(stream) < ctl.left
  <2> DEFINE left == ctl.left - Len(stream)
  <2>1. ctl' = [ctl EXCEPT !.left = left] /\ stream' = <<>> /\ buf' = buf /\ reader' = reader
    BY <1>7 DEF DiscardMore
  <2>2. left \in Nat /\ left > 0
    BY <1>5, <1>7
  <2>3. Moves(0, Len(stream))
    <3>1. SubSeq(stream, Len(stream) + 1, Len(stream)) = <<>> /\ Len(stream) \in 0 .. Len(stream)
      BY <1>2
    <3> QED BY <1>1, <1>5, <1>6, <2>1, <3>1 DEF Moves
  <2>4. Position' = Position + 0 + Len(stream) /\ Sent' = Sent
    BY <2>3, Moved
  <2>5. Position' + left = Position + ctl.left
    BY <1>2, <1>5, <2>4
  <2> HIDE DEF left
  <2>6. ctl' = [at |-> ctl.at, type |-> ctl.type, len |-> ctl.len, left |-> left, held |-> ctl.held]
    BY <1>2, <2>1 DEF Ctls
  <2>7. /\ ctl' \in [at : Places, type : Octets, len : Nat, left : Nat, held : Seq(Octets)]
        /\ ctl'.at = "discard" /\ ctl'.type = ctl.type /\ ctl'.left = left
    BY <1>1, <1>2, <2>2, <2>6 DEF Ctls
  <2>8. InFrame(start)'
    BY <1>4, <2>4, <2>5, <2>7 DEF InFrame, PayloadLength, FrameSize
  <2> QED BY <1>1, <1>2, <2>1, <2>2, <2>3, <2>7, <2>8, ReadsWithin
<1>8. CASE ~(Len(stream) < ctl.left)
  <2>1. stream' = SubSeq(stream, ctl.left + 1, Len(stream)) /\ Discarded(buf)
    BY <1>8 DEF DiscardMore
  <2>2. ctl.left \in 0 .. Len(stream)
    BY <1>5, <1>8
  <2>3. Position + 0 + ctl.left = Position + ctl.left
    BY <1>2, <1>5
  <2>4. Position + 0 + ctl.left \in Starts
    BY <1>2, <1>4, <2>3, FrameEnds, HeaderSizes
  <2> QED BY <1>1, <1>4, <1>5, <1>6, <2>1, <2>2, <2>4, ReadsDiscarded
<1> QED BY <1>7, <1>8

\* A payload or a row is followed by the next frame.
LEMMA PayloadEnds ==
    ASSUME response \in Responses, NEW start \in Starts, NEW type, type = Byte(Sent, start),
           HeaderSize(type) \in {9, 13}, PayloadLength(Sent, start) >= 0
    PROVE  start + HeaderSize(type) + PayloadLength(Sent, start) \in Starts
<1>1. type \in Octets /\ start \in Nat /\ PayloadLength(Sent, start) \in Int
  BY FrameEnds
<1>2. type \notin Ready
  <2>1. type \in Ready => HeaderSize(type) = 5
    BY HeaderSizes
  <2> QED BY <2>1
<1>3. FrameSize(Sent, start) = HeaderSize(type) + PayloadLength(Sent, start)
  BY FrameEnds
<1>4. start + FrameSize(Sent, start) \in Starts
  BY <1>2, FrameEnds
<1>5. start + FrameSize(Sent, start) = start + HeaderSize(type) + PayloadLength(Sent, start)
  BY <1>1, <1>3
<1> QED BY <1>4, <1>5

LEMMA ReadPayloadReads ==
    ASSUME Typed, Faithful, Framed, ReadPayload
    PROVE  Reads
<1>1. Running /\ ctl.at = "payload" /\ Buffered(buf) >= ctl.len
  BY DEF ReadPayload, HasBytes, Need
<1>2. /\ buf \in Buffers(Octets) /\ stream \in Seq(Octets) /\ ctl \in Ctls /\ response \in Responses
      /\ Position \in Nat /\ Buffered(buf) \in Nat /\ \E start \in Starts : InFrame(start)
  BY <1>1, WhereItIs
<1>3. PICK start \in Starts : InFrame(start)
  BY <1>2
<1>4. /\ ctl.type = Byte(Sent, start) /\ Position = start + 9 /\ HeaderSize(ctl.type) = 9
      /\ ctl.len = PayloadLength(Sent, start) /\ start \in Nat
  BY <1>1, <1>2, <1>3, FrameEnds DEF InFrame
<1>5. ctl.len \in Nat /\ ctl.len \in 0 .. Buffered(buf)
  BY <1>1, <1>2 DEF Ctls
<1>6. Drops(buf, Skip(buf, ctl.len), ctl.len)
  BY <1>2, <1>5, SkipDrops
<1>7. 0 \in 0 .. Len(stream) /\ stream' = SubSeq(stream, 0 + 1, Len(stream)) /\ UNCHANGED <<response, arrived>>
  BY <1>2, BufferMoves DEF Moves, ReadPayload
<1>8. Position + ctl.len + 0 \in Starts
  <2>1. start + 9 + ctl.len \in Starts
    BY <1>2, <1>4, <1>5, PayloadEnds
  <2>2. Position + ctl.len + 0 = start + 9 + ctl.len
    BY <1>4, <1>5
  <2> QED BY <2>1, <2>2
<1>9. HandlePayload(Slice(buf.data, buf.start, buf.start + ctl.len), Skip(buf, ctl.len))
  BY DEF ReadPayload
<1> QED BY <1>1, <1>6, <1>7, <1>8, <1>9, ReadsPayload

LEMMA CollectReads ==
    ASSUME Typed, Faithful, Framed, Collect
    PROVE  Reads
<1>1. Running /\ ctl.at = "payload" /\ ~(Buffered(buf) >= ctl.len)
  BY DEF Collect, TooLarge, HasBytes, Need
<1>2. /\ buf \in Buffers(Octets) /\ stream \in Seq(Octets) /\ ctl \in Ctls /\ response \in Responses
      /\ Position \in Nat /\ Buffered(buf) \in Nat /\ reader # "done"
      /\ \E start \in Starts : InFrame(start)
  BY <1>1, WhereItIs
<1>3. PICK start \in Starts : InFrame(start)
  BY <1>2
<1>4. /\ ctl.type = Byte(Sent, start) /\ ctl.type # 0 /\ Position = start + 9 /\ HeaderSize(ctl.type) = 9
      /\ ctl.len = PayloadLength(Sent, start) /\ start \in Nat
  BY <1>1, <1>2, <1>3, FrameEnds DEF InFrame
<1> DEFINE held == Content(buf)
<1>5. /\ ctl' = [ctl EXCEPT !.at = "collect", !.held = held] /\ reader' = reader
      /\ buf' = IF Buffered(buf) > 0 THEN Emptied(buf) ELSE buf
      /\ UNCHANGED <<response, arrived, stream>>
  BY DEF Collect
<1>6. held \in Seq(Octets) /\ Len(held) = Buffered(buf)
  BY <1>2, ContentTyped
<1> HIDE DEF held
<1>7. Drops(buf, buf', Buffered(buf))
  <2>1. CASE Buffered(buf) > 0
    BY <1>2, <1>5, <2>1, EmptiedDrops
  <2>2. CASE ~(Buffered(buf) > 0)
    <3>1. Buffered(buf) = 0 /\ buf' = buf
      BY <1>2, <1>5, <2>2
    <3>2. Drops(buf, buf', 0)
      BY <1>2, <3>1, SameDrops
    <3> QED BY <3>1, <3>2
  <2> QED BY <2>1, <2>2
<1>8. Moves(Buffered(buf), 0)
  BY <1>2, <1>5, <1>7, BufferMoves
<1>9. Position' = Position + Buffered(buf) + 0 /\ Sent' = Sent /\ Buffered(buf') = Buffered(buf) - Buffered(buf)
  BY <1>8, Moved
<1>10. Position' = start + 9 + Len(held) /\ Buffered(buf') = 0
  BY <1>2, <1>4, <1>6, <1>9
<1>11. Len(held) < ctl.len
  BY <1>1, <1>2, <1>6 DEF Ctls
<1> DEFINE c == [ctl EXCEPT !.at = "collect"]
<1>12. c = [at |-> "collect", type |-> ctl.type, len |-> ctl.len, left |-> ctl.left, held |-> ctl.held]
  BY <1>2 DEF Ctls
<1>13. ctl' = [c EXCEPT !.held = held]
  BY <1>5
<1> HIDE DEF c
<1>14. ctl' = [at |-> "collect", type |-> ctl.type, len |-> ctl.len, left |-> ctl.left, held |-> held]
  BY <1>12, <1>13
<1>15. "collect" \in Places
  BY DEF Places
<1>16. /\ ctl' \in [at : Places, type : Octets, len : Nat, left : Nat, held : Seq(Octets)]
       /\ ctl'.at = "collect" /\ ctl'.type = ctl.type /\ ctl'.len = ctl.len /\ ctl'.held = held
  BY <1>2, <1>6, <1>14, <1>15 DEF Ctls
<1>17. InFrame(start)'
  BY <1>4, <1>9, <1>10, <1>16 DEF InFrame, PayloadLength
<1> QED BY <1>2, <1>5, <1>8, <1>10, <1>11, <1>16, <1>17, ReadsWithin

LEMMA CollectMoreReads ==
    ASSUME Typed, Faithful, Framed, CollectMore
    PROVE  Reads
<1> DEFINE left == ctl.len - Len(ctl.held)
           held == ctl.held \o stream
<1>1. Running /\ ctl.at = "collect" /\ Len(ctl.held) < ctl.len /\ Buffered(buf) = 0
  BY DEF CollectMore, Typed, Collecting
<1>2. /\ buf \in Buffers(Octets) /\ stream \in Seq(Octets) /\ ctl \in Ctls /\ response \in Responses
      /\ Position \in Nat /\ reader # "done" /\ \E start \in Starts : InFrame(start)
  BY <1>1, WhereItIs
<1>3. PICK start \in Starts : InFrame(start)
  BY <1>2
<1>4. /\ ctl.type = Byte(Sent, start) /\ ctl.type # 0
      /\ Position = start + 9 + Len(ctl.held) /\ HeaderSize(ctl.type) = 9
      /\ ctl.len = PayloadLength(Sent, start) /\ start \in Nat
  BY <1>1, <1>2, <1>3, FrameEnds DEF InFrame
<1>5. Drops(buf, buf, 0) /\ ctl.len \in Nat /\ ctl.held \in Seq(Octets)
      /\ Len(ctl.held) \in Nat /\ Len(stream) \in Nat
  BY <1>2, SameDrops DEF Ctls
<1>6. UNCHANGED <<response, arrived>>
  BY DEF CollectMore
<1>7. CASE Len(stream) < left
  <2>1. ctl' = [ctl EXCEPT !.held = held] /\ stream' = <<>> /\ buf' = buf /\ reader' = reader
    BY <1>7 DEF CollectMore
  <2>2. held \in Seq(Octets) /\ Len(held) = Len(ctl.held) + Len(stream)
    BY <1>2, <1>5, ConcatProperties
  <2>3. Len(held) < ctl.len
    <3> HIDE DEF held
    <3> QED BY <1>5, <1>7, <2>2
  <2> HIDE DEF held, left
  <2>4. Moves(0, Len(stream))
    <3>1. SubSeq(stream, Len(stream) + 1, Len(stream)) = <<>> /\ Len(stream) \in 0 .. Len(stream)
      BY <1>2
    <3> QED BY <1>1, <1>5, <1>6, <2>1, <3>1 DEF Moves
  <2>5. Position' = Position + 0 + Len(stream) /\ Sent' = Sent
    BY <2>4, Moved
  <2>6. Position' = start + 9 + Len(held)
    <3> DEFINE n == Len(ctl.held)
               k == Len(stream)
    <3>1. n \in Nat /\ k \in Nat /\ start \in Nat /\ Position = start + 9 + n
          /\ Position' = Position + 0 + k /\ Len(held) = n + k
      BY <1>4, <1>5, <2>2, <2>5, Zenon
    <3> HIDE DEF n, k
    <3> QED BY <3>1
  <2>7. ctl' = [at |-> ctl.at, type |-> ctl.type, len |-> ctl.len, left |-> ctl.left, held |-> held]
    BY <1>2, <2>1 DEF Ctls
  <2>8. /\ ctl' \in [at : Places, type : Octets, len : Nat, left : Nat, held : Seq(Octets)]
        /\ ctl'.at = "collect" /\ ctl'.type = ctl.type /\ ctl'.len = ctl.len /\ ctl'.held = held
    BY <1>1, <1>2, <2>2, <2>7 DEF Ctls
  <2>9. InFrame(start)'
    BY <1>4, <2>5, <2>6, <2>8 DEF InFrame, PayloadLength
  <2> QED BY <1>1, <1>2, <2>1, <2>3, <2>4, <2>8, <2>9, ReadsWithin
<1>8. CASE ~(Len(stream) < left)
  <2>1. /\ stream' = SubSeq(stream, left + 1, Len(stream))
        /\ HandlePayload(ctl.held \o SubSeq(stream, 1, left), buf)
    BY <1>8 DEF CollectMore
  <2>2. left \in 0 .. Len(stream)
    BY <1>1, <1>5, <1>8
  <2>3. start + 9 + ctl.len \in Starts
    BY <1>2, <1>4, <1>5, PayloadEnds
  <2>4. Position + 0 + left = start + 9 + ctl.len
    <3> DEFINE n == Len(ctl.held)
    <3>1. n \in Nat /\ start \in Nat /\ Position = start + 9 + n /\ ctl.len \in Nat
      BY <1>4, <1>5, Zenon
    <3> HIDE DEF n
    <3>2. Position + 0 + (ctl.len - n) = start + 9 + ctl.len
      BY <3>1
    <3> QED BY <3>2 DEF n
  <2>5. Position + 0 + left \in Starts
    BY <2>3, <2>4
  <2> HIDE DEF left
  <2> QED BY <1>1, <1>5, <1>6, <2>1, <2>2, <2>5, ReadsPayload
<1> QED BY <1>7, <1>8

LEMMA ReadRowHeadReads ==
    ASSUME Typed, Faithful, Framed, ReadRowHead
    PROVE  Reads
<1> DEFINE len == Int32BE(buf.data, buf.start + 4)
<1>1. Running /\ ctl.at = "rowHead" /\ Buffered(buf) >= 8
  BY DEF ReadRowHead, HasBytes, Need
<1>2. /\ buf \in Buffers(Octets) /\ stream \in Seq(Octets) /\ ctl \in Ctls /\ response \in Responses
      /\ Position \in Nat /\ Buffered(buf) \in Nat /\ reader # "done"
      /\ \E start \in Starts : InFrame(start)
  BY <1>1, WhereItIs
<1>3. PICK start \in Starts : InFrame(start)
  BY <1>2
<1>4. /\ ctl.type = Byte(Sent, start) /\ ctl.type # 0 /\ Position = start + 5
      /\ ctl.type = CodeY /\ HeaderSize(ctl.type) = 13 /\ start \in Nat
  BY <1>1, <1>2, <1>3, FrameEnds, HeaderSizes DEF InFrame
<1>5. UNCHANGED <<response, arrived, stream>>
  BY DEF ReadRowHead
<1>6. len = PayloadLength(Sent, start) /\ len \in Int
  <2>1. 4 + 4 <= Buffered(buf) /\ Position + 4 = start + HeaderSize(Byte(Sent, start)) - 4
    BY <1>1, <1>4
  <2>2. HeaderSize(Byte(Sent, start)) \in {9, 13}
    BY <1>4
  <2> QED BY <2>1, <2>2, PayloadRead
<1>7. \/ Fault /\ buf' = buf
      \/ ValidLength(len) /\ len > 0 /\ Discard(buf, 8 + len)
      \/ /\ ValidLength(len) /\ ctl' = [ctl EXCEPT !.at = "row", !.len = len]
         /\ buf' = buf /\ reader' = reader
  BY DEF ReadRowHead
<1> HIDE DEF len
<1>8. Drops(buf, buf, 0)
  BY <1>2, SameDrops
<1>9. CASE Fault /\ buf' = buf
  <2>1. Moves(0, 0)
    BY <1>2, <1>5, <1>8, <1>9, BufferMoves
  <2> QED BY <1>9, <2>1, ReadsFault DEF Fault
<1>10. CASE ValidLength(len) /\ len > 0 /\ Discard(buf, 8 + len)
  <2>1. 8 + len \in Nat /\ PayloadLength(Sent, start) >= 0
    BY <1>6, <1>10
  <2>2. FrameSize(Sent, start) = 13 + len
    <3>1. HeaderSize(Byte(Sent, start)) = 13
      BY <1>4
    <3>2. FrameSize(Sent, start) = HeaderSize(Byte(Sent, start)) + PayloadLength(Sent, start)
      BY <1>2, <3>1, FrameEnds
    <3> QED BY <1>6, <3>1, <3>2
  <2>3. Position + 0 + (8 + len) = start + FrameSize(Sent, start)
    BY <1>4, <1>6, <2>2
  <2>4. ctl.type \in {CodeD, CodeY}
    BY <1>4
  <2> QED BY <1>1, <1>4, <1>5, <1>8, <1>10, <2>1, <2>3, <2>4, ReadsDiscard
<1>11. CASE /\ ValidLength(len) /\ ctl' = [ctl EXCEPT !.at = "row", !.len = len]
            /\ buf' = buf /\ reader' = reader
  <2> DEFINE c == [ctl EXCEPT !.at = "row"]
  <2>1. c = [at |-> "row", type |-> ctl.type, len |-> ctl.len, left |-> ctl.left, held |-> ctl.held]
    BY <1>2 DEF Ctls
  <2>2. ctl' = [c EXCEPT !.len = len]
    BY <1>11
  <2> HIDE DEF c
  <2>3. ctl' = [at |-> "row", type |-> ctl.type, len |-> len, left |-> ctl.left, held |-> ctl.held]
    BY <2>1, <2>2
  <2>4. "row" \in Places /\ len \in Nat
    BY <1>6, <1>11 DEF Places, ValidLength
  <2>5. /\ ctl' \in [at : Places, type : Octets, len : Nat, left : Nat, held : Seq(Octets)]
        /\ ctl'.at = "row" /\ ctl'.type = ctl.type /\ ctl'.len = len
    BY <1>2, <2>3, <2>4 DEF Ctls
  <2>6. Moves(0, 0)
    BY <1>2, <1>5, <1>8, <1>11, BufferMoves
  <2>7. Position' = start + 5 /\ Sent' = Sent
    <3>1. Position' = Position + 0 + 0 /\ Sent' = Sent
      BY <2>6, Moved
    <3> QED BY <1>4, <3>1
  <2>8. InFrame(start)'
    BY <1>4, <1>6, <2>5, <2>7 DEF InFrame, PayloadLength
  <2> QED BY <1>2, <1>11, <2>5, <2>6, <2>8, ReadsWithin
<1> QED BY <1>7, <1>9, <1>10, <1>11

LEMMA ReadRowReads ==
    ASSUME Typed, Faithful, Framed, ReadRow
    PROVE  Reads
<1>1. Running /\ ctl.at = "row" /\ Buffered(buf) >= 8 + ctl.len
  BY DEF ReadRow, HasBytes, Need
<1>2. /\ buf \in Buffers(Octets) /\ stream \in Seq(Octets) /\ ctl \in Ctls /\ response \in Responses
      /\ Position \in Nat /\ Buffered(buf) \in Nat /\ reader # "done"
      /\ \E start \in Starts : InFrame(start)
  BY <1>1, WhereItIs
<1>3. PICK start \in Starts : InFrame(start)
  BY <1>2
<1>4. /\ ctl.type = Byte(Sent, start) /\ Position = start + 5
      /\ ctl.type = CodeY /\ HeaderSize(ctl.type) = 13 /\ start \in Nat
      /\ ctl.len = PayloadLength(Sent, start)
  BY <1>1, <1>2, <1>3, FrameEnds, HeaderSizes DEF InFrame
<1> DEFINE n == 8 + ctl.len
           b == Skip(buf, n)
<1>5. ctl.len \in Nat /\ n \in 0 .. Buffered(buf)
  BY <1>1, <1>2 DEF Ctls
<1>6. Drops(buf, b, n) /\ UNCHANGED <<response, arrived, stream>>
  BY <1>2, <1>5, SkipDrops DEF ReadRow
<1>7. \/ Fault /\ buf' = buf
      \/ (\E row : YieldRow(row)) /\ buf' = [buf EXCEPT !.start = DbosBatch(b).at]
  BY DEF ReadRow
<1>8. CASE Fault /\ buf' = buf
  <2>1. Moves(0, 0)
    BY <1>2, <1>6, <1>8, SameDrops, BufferMoves
  <2> QED BY <1>8, <2>1, ReadsFault DEF Fault
<1>9. CASE (\E row : YieldRow(row)) /\ buf' = [buf EXCEPT !.start = DbosBatch(b).at]
  <2>1. ctl' = ToType /\ reader' \in {"reading", "closing", "idle"}
    BY <1>1, <1>9 DEF YieldRow, Yield, Running
  <2>2. buf' = [b EXCEPT !.start = Batch(b, CodeY, HeaderSize(CodeY)).at]
    <3> DEFINE at == DbosBatch(b).at
    <3>1. at = Batch(b, CodeY, HeaderSize(CodeY)).at
      BY HeaderSizes DEF DbosBatch
    <3> HIDE DEF at
    <3>2. [b EXCEPT !.start = at] = [buf EXCEPT !.start = at]
      <4>1. b = [data |-> buf.data, start |-> buf.start + n, end |-> buf.end]
        BY <1>2 DEF Skip, Buffers
      <4> HIDE DEF b
      <4>2. [b EXCEPT !.start = at] = [data |-> buf.data, start |-> at, end |-> buf.end]
        BY <4>1
      <4>3. [buf EXCEPT !.start = at] = [data |-> buf.data, start |-> at, end |-> buf.end]
        BY <1>2 DEF Buffers
      <4> QED BY <4>2, <4>3
    <3>3. buf' = [buf EXCEPT !.start = at]
      BY <1>9 DEF at
    <3> HIDE DEF b
    <3> QED BY <3>1, <3>2, <3>3
  <2> HIDE DEF b, n
  <2>3. Position + n + 0 \in Starts
    <3>1. start + 13 + ctl.len \in Starts
      <4>1. HeaderSize(Byte(Sent, start)) = 13 /\ PayloadLength(Sent, start) >= 0
        BY <1>4, <1>5
      <4>2. start + HeaderSize(Byte(Sent, start)) + PayloadLength(Sent, start) \in Starts
        BY <1>2, <4>1, PayloadEnds
      <4> QED BY <1>4, <4>1, <4>2
    <3>2. Position + n + 0 = start + 13 + ctl.len
      BY <1>4, <1>5 DEF n
    <3> QED BY <3>1, <3>2
  <2>4. 0 \in 0 .. Len(stream) /\ stream' = SubSeq(stream, 0 + 1, Len(stream))
    BY <1>2, <1>6, BufferMoves DEF Moves
  <2>5. PICK j \in Nat : Moves(n + j, 0) /\ Position + (n + j) + 0 \in Starts
    BY <1>6, <2>2, <2>3, <2>4, RowsFollow
  <2> QED BY <2>1, <2>5, ReadsNext
<1> QED BY <1>7, <1>8, <1>9

\* Two pieces of a sequence, one behind the other.
LEMMA JoinedPieces ==
    ASSUME NEW S, NEW s \in Seq(S), NEW i \in Nat, NEW j \in Nat, NEW k \in Nat,
           i <= j, j <= k, k <= Len(s)
    PROVE  SubSeq(s, i + 1, j) \o SubSeq(s, j + 1, k) = SubSeq(s, i + 1, k)
<1> DEFINE t == SubSeq(s, i + 1, j)
           u == SubSeq(s, j + 1, k)
           l == t \o u
           r == SubSeq(s, i + 1, k)
<1>0. i <= k /\ j <= Len(s)
  OBVIOUS
<1>1. t \in Seq(S) /\ Len(t) = j - i /\ \A x \in 1 .. j - i : t[x] = s[i + x]
  BY <1>0, SliceTyped
<1>2. u \in Seq(S) /\ Len(u) = k - j /\ \A x \in 1 .. k - j : u[x] = s[j + x]
  BY <1>0, SliceTyped
<1>3. r \in Seq(S) /\ Len(r) = k - i /\ \A x \in 1 .. k - i : r[x] = s[i + x]
  BY <1>0, SliceTyped
<1> HIDE DEF t, u, r
<1>4. /\ l \in Seq(S) /\ Len(l) = Len(t) + Len(u)
      /\ \A x \in 1 .. Len(t) + Len(u) : l[x] = IF x <= Len(t) THEN t[x] ELSE u[x - Len(t)]
  BY <1>1, <1>2, ConcatProperties
<1> HIDE DEF l
<1>5. Len(l) = Len(r)
  BY <1>1, <1>2, <1>3, <1>4
<1>6. ASSUME NEW x \in 1 .. Len(l) PROVE l[x] = r[x]
  <2>1. x \in Int /\ x \in 1 .. Len(t) + Len(u) /\ x \in 1 .. k - i
    BY <1>1, <1>2, <1>4, <1>6
  <2>2. l[x] = IF x <= Len(t) THEN t[x] ELSE u[x - Len(t)]
    BY <1>4, <2>1, Zenon
  <2>3. r[x] = s[i + x]
    BY <1>3, <2>1, Zenon
  <2>4. CASE x <= Len(t)
    <3>1. x \in 1 .. j - i
      BY <1>1, <2>1, <2>4
    <3> QED BY <1>1, <2>2, <2>3, <2>4, <3>1, Zenon
  <2>5. CASE ~(x <= Len(t))
    <3>1. x - Len(t) \in 1 .. k - j /\ j + (x - Len(t)) = i + x
      BY <1>1, <2>1, <2>5
    <3>2. u[x - Len(t)] = s[j + (x - Len(t))]
      BY <1>2, <3>1, Zenon
    <3> QED BY <2>2, <2>3, <2>5, <3>1, <3>2
  <2> QED BY <2>4, <2>5
<1>7. l = r
  BY <1>3, <1>4, <1>5, <1>6, SeqEqual, Zenon
<1> QED BY <1>7 DEF l, r, t, u

\* One element, and what follows it.

LEMMA GeneratorReads ==
    ASSUME Typed, Faithful, Framed, Generator
    PROVE  Reads
BY PullReads, ServeBatchReads, ReadTypeReads, SkipHeaderReads, ReadLengthReads, DiscardMoreReads,
   ReadPayloadReads, CollectReads, CollectMoreReads, ReadRowHeadReads, ReadRowReads DEF Generator

\* Bytes come behind those that are unread.
LEMMA ArriveAppends ==
    ASSUME Typed, Faithful, Framed, Arrive
    PROVE  /\ Position' = Position
           /\ arrived' \in arrived + 1 .. Len(Sent)
           /\ Unread' = Unread \o SubSeq(Sent, arrived + 1, arrived')
           /\ Typed' /\ Faithful' /\ Framed' /\ Len(stream') <= HighWater
           /\ UNCHANGED <<response, buf, reader, ctl>>
<1>1. /\ Unread \in Seq(Octets) /\ Len(Unread) = Buffered(buf) + Len(stream)
      /\ Content(buf) \in Seq(Octets) /\ stream \in Seq(Octets) /\ Len(stream) \in Nat
      /\ Sent \in Seq(Octets) /\ Len(Sent) \in Nat /\ arrived \in Nat /\ arrived <= Len(Sent)
      /\ Buffered(buf) \in Nat
  BY UnreadTyped
<1>2. PICK n \in Int : /\ n \in 1 .. Len(Sent) - arrived /\ Len(stream) + n <= HighWater
                       /\ arrived' = arrived + n
  <2>1. \A n : n \in 1 .. Len(Sent) - arrived => n \in Int
    BY <1>1
  <2> QED BY <2>1 DEF Arrive
<1>3. n \in Nat /\ n >= 1 /\ arrived' \in arrived + 1 .. Len(Sent) /\ arrived' \in Nat
      /\ arrived' - arrived = n /\ arrived <= arrived'
  BY <1>1, <1>2
<1> DEFINE piece == SubSeq(Sent, arrived + 1, arrived')
<1>4. /\ stream' = stream \o piece
      /\ UNCHANGED <<response, buf, ctl, reader>>
  BY DEF Arrive
<1>5. piece \in Seq(Octets) /\ Len(piece) = n
  <2> DEFINE to == arrived'
  <2>1. to \in Nat /\ arrived <= to /\ to <= Len(Sent) /\ to - arrived = n /\ arrived \in Nat
    <3>1. arrived' <= Len(Sent)
      BY <1>3
    <3> QED BY <1>1, <1>3, <3>1, Zenon
  <2> HIDE DEF to
  <2>2. /\ SubSeq(Sent, arrived + 1, to) \in Seq(Octets)
        /\ Len(SubSeq(Sent, arrived + 1, to)) = to - arrived
    BY <1>1, <2>1, SliceTyped
  <2> QED BY <2>1, <2>2 DEF to
<1>6. Sent' = Sent /\ Starts' = Starts /\ Content(buf)' = Content(buf)
  BY <1>4 DEF Sent, Starts, Boundaries, Content
<1> HIDE DEF piece
<1>7. stream' \in Seq(Octets) /\ Len(stream') = Len(stream) + n
  <2>1. stream \o piece \in Seq(Octets) /\ Len(stream \o piece) = Len(stream) + Len(piece)
    <3>1. stream \in Seq(Octets) /\ piece \in Seq(Octets)
      BY <1>1, <1>5
    <3> QED BY <3>1, ConcatProperties
  <2> QED BY <1>4, <1>5, <2>1, Zenon
<1>8. Unread' = Unread \o piece
  <2>1. Unread' = Content(buf) \o (stream \o piece)
    BY <1>4, <1>6 DEF Unread
  <2>2. (Content(buf) \o stream) \o piece = Content(buf) \o (stream \o piece)
    <3>1. Content(buf) \in Seq(Octets) /\ stream \in Seq(Octets) /\ piece \in Seq(Octets)
      BY <1>1, <1>5
    <3> QED BY <3>1, ConcatAssociative, SMTT(30)
  <2> QED BY <2>1, <2>2 DEF Unread
<1>9. Len(Unread') = Len(Unread) + n
  <2>1. Len(Unread \o piece) = Len(Unread) + Len(piece)
    BY <1>1, <1>5, ConcatProperties, ZenonT(30)
  <2> QED BY <1>5, <1>8, <2>1
<1>10. Len(Unread) <= arrived /\ Unread = SubSeq(Sent, Position + 1, arrived) /\ Position = arrived - Len(Unread)
  BY DEF Faithful, Position
<1>11. Position \in Nat /\ Position <= arrived
  <2>1. Len(Unread) \in Nat
    BY <1>1, LenProperties, Zenon
  <2>2. Len(Unread) <= arrived /\ arrived \in Nat /\ Position = arrived - Len(Unread)
    BY <1>1, <1>10, Zenon
  <2> QED BY <2>1, <2>2
<1>12. Position' = Position /\ Len(Unread') <= arrived'
  <2> DEFINE u == Len(Unread)
  <2>1. u \in Nat /\ u <= arrived /\ Position = arrived - u
    <3>1. u \in Nat
      BY <1>1, LenProperties, Zenon
    <3>2. u <= arrived /\ Position = arrived - u
      BY <1>10, Zenon
    <3> QED BY <3>1, <3>2
  <2>2. Len(Unread') = u + n /\ Position' = arrived' - Len(Unread')
    BY <1>9, SMTT(30) DEF Position
  <2> HIDE DEF u
  <2> QED BY <1>1, <1>2, <1>3, <2>1, <2>2
<1>13. Unread' = SubSeq(Sent, Position + 1, arrived')
  <2>1. arrived' <= Len(Sent)
    BY <1>3
  <2>2. SubSeq(Sent, Position + 1, arrived) \o SubSeq(Sent, arrived + 1, arrived')
          = SubSeq(Sent, Position + 1, arrived')
    <3>1. Sent \in Seq(Octets) /\ arrived \in Nat /\ arrived' \in Nat /\ Position \in Nat
          /\ Position <= arrived /\ arrived <= arrived'
      BY <1>1, <1>3, <1>11, Zenon
    <3> QED BY <2>1, <3>1, JoinedPieces
  <2> QED BY <1>8, <1>10, <2>2 DEF piece
<1>14. Faithful'
  <2>1. Position' = arrived' - Len(Unread')
    BY DEF Position
  <2> QED BY <1>6, <1>12, <1>13, <2>1 DEF Faithful
<1>15. Typed'
  <2>1. arrived' \in 0 .. Len(Sent')
    BY <1>3, <1>6
  <2> QED BY <1>4, <1>7, <2>1 DEF Typed, Collecting
<1>16. Framed'
  <2>1. ASSUME NEW start, InFrame(start) PROVE InFrame(start)'
    BY <1>4, <1>6, <1>12, <2>1 DEF InFrame
  <2> QED BY <1>4, <1>6, <1>12, <2>1, Zenon DEF Framed
<1>17. Len(stream') <= HighWater
  BY <1>2, <1>7
<1> QED BY <1>3, <1>4, <1>8, <1>12, <1>14, <1>15, <1>16, <1>17 DEF piece

LEMMA InitialState ==
    ASSUME Init
    PROVE  Typed /\ Faithful /\ Framed /\ Unread = <<>> /\ arrived = 0
<1>1. /\ response \in Responses /\ arrived = 0 /\ stream = <<>> /\ ctl = ToType /\ reader = "reading"
      /\ buf = [data |-> Fresh(InitialSize), start |-> 0, end |-> 0]
  BY DEF Init, NewBuffer
<1>2. WellFramed(response)
  BY <1>1, ResponsesAssumption
<1>3. /\ Sent \in Seq(Octets) /\ response.ends \subseteq 0 .. Len(Sent) /\ response.finish \in response.ends
      /\ Len(Sent) \in Nat
  BY <1>2 DEF WellFramed, Sent, Octets
<1>4. Fresh(InitialSize) \in Seq(Octets)
  BY SizesAssumption, InitialSizeAssumption, FreshTyped DEF Octets
<1>5. buf \in Buffers(Octets) /\ Content(buf) = <<>>
  <2> DEFINE d == Fresh(InitialSize)
  <2>1. d \in Seq(Octets) /\ Len(d) \in Nat /\ buf = [data |-> d, start |-> 0, end |-> 0]
    BY <1>1, <1>4
  <2> HIDE DEF d
  <2> QED BY <2>1 DEF Buffers, Content
<1>6. Unread = <<>>
  BY <1>1, <1>5 DEF Unread
<1>7. Faithful
  <2>1. Len(<<>>) = 0 /\ SubSeq(Sent, 0 - 0 + 1, 0) = <<>>
    BY <1>3
  <2> QED BY <1>1, <1>6, <2>1 DEF Faithful
<1>8. Position = 0
  <2>1. Len(Unread) = 0 /\ arrived = 0
    BY <1>1, <1>6
  <2> QED BY <2>1 DEF Position
<1>9. 0 # response.finish
  <2>1. response.finish \in response.ends \ {0}
    BY <1>2, Zenon DEF WellFramed
  <2> QED BY <2>1
<1>10. Framed
  <2>1. ctl.at = "type" /\ reader # "done"
    BY <1>1 DEF ToType
  <2>2. Position \in Starts
    BY <1>8, <1>9 DEF Starts, Boundaries
  <2> QED BY <2>1, <2>2 DEF Framed
<1>11. ctl \in [at : Places, type : Octets, len : Nat, left : Nat, held : Seq(Octets)] /\ ctl.at = "type"
  <2>1. 0 \in Octets /\ "type" \in Places /\ <<>> \in Seq(Octets)
    BY DEF Octets, Places
  <2> QED BY <1>1, <2>1 DEF ToType
<1>12. Typed
  <2>1. <<>> \in Seq(Octets) /\ 0 \in 0 .. Len(Sent)
    BY <1>3
  <2> QED BY <1>1, <1>5, <1>11, <2>1 DEF Typed, Collecting, Open
<1> QED BY <1>1, <1>6, <1>7, <1>10, <1>12

\* Each step adds bytes behind the unread ones, or takes some from the front.
LEMMA StepReads ==
    ASSUME Typed, Faithful, Framed, [Next]_vars
    PROVE  /\ Typed' /\ Faithful' /\ Framed'
           /\ \/ Arrive
              \/ Reads
              \/ UNCHANGED vars
<1>1. CASE Arrive
  BY <1>1, ArriveAppends
<1>2. CASE Generator \/ Caller
  <2>1. Reads
    BY <1>2, GeneratorReads, CallerReads
  <2>2. PICK n \in Nat : Taking(n)
    BY <2>1 DEF Reads
  <2>3. Faithful'
    BY <2>2, TakingFaithful
  <2> QED BY <2>1, <2>3 DEF Reads
<1>3. CASE UNCHANGED vars
  <2>1. /\ response' = response /\ arrived' = arrived /\ stream' = stream /\ buf' = buf
        /\ ctl' = ctl /\ reader' = reader
    BY <1>3 DEF vars
  <2>2. Typed'
    BY <2>1 DEF Typed, Collecting, Sent
  <2>3. Unread' = Unread /\ Sent' = Sent
    BY <2>1 DEF Unread, Content, Sent
  <2>4. Position' = Position /\ Starts' = Starts
    BY <2>1, <2>3 DEF Position, Starts, Boundaries
  <2>5. Faithful'
    BY <2>1, <2>3 DEF Faithful
  <2>6. ASSUME NEW start, InFrame(start) PROVE InFrame(start)'
    BY <2>1, <2>3, <2>4, <2>6 DEF InFrame
  <2>7. Framed'
    BY <2>1, <2>4, <2>6, Zenon DEF Framed
  <2> QED BY <1>3, <2>2, <2>5, <2>7
<1> QED BY <1>1, <1>2, <1>3 DEF Next

LEMMA Invariants == Spec => [](Typed /\ Faithful /\ Framed)
<1>1. Init => Typed /\ Faithful /\ Framed
  BY InitialState
<1>2. (Typed /\ Faithful /\ Framed) /\ [Next]_vars => (Typed /\ Faithful /\ Framed)'
  BY StepReads
<1> QED BY <1>1, <1>2, PTL DEF Spec

\* Whatever is done to the buffer and to the socket, they are one queue to which
\* the bytes of the response come in order and from which they are taken in
\* order, for every response, size of the buffer and size of the pieces.
THEOREM BuffersAreOneQueue == Spec => ImplementsByteQueue
<1>1. Init => Queue!Init
  BY InitialState DEF Queue!Init, Unread
<1>2. ASSUME Typed, Faithful, Framed, [Next]_vars PROVE [Queue!Next]_(Queue!vars)
  <2>1. CASE Arrive
    <3>1. /\ arrived' \in arrived + 1 .. Len(Sent)
          /\ Unread' = Unread \o SubSeq(Sent, arrived + 1, arrived')
          /\ Sent' = Sent
      BY <1>2, <2>1, ArriveAppends DEF Sent
    <3> QED BY <3>1 DEF Queue!Next, Queue!Arrive, Unread
  <2>2. CASE Reads
    <3>1. PICK n \in Nat : Taking(n)
      BY <2>2 DEF Reads
    <3>2. /\ Sent' = Sent /\ arrived' = arrived /\ n \in 0 .. Len(Unread)
          /\ Unread' = SubSeq(Unread, n + 1, Len(Unread))
      BY <3>1 DEF Taking, Sent
    <3>3. Unread \in Seq(Octets) /\ Len(Unread) \in Nat
      BY <1>2, UnreadTyped
    <3>4. CASE n = 0
      <4>1. SubSeq(Unread, 0 + 1, Len(Unread)) = Unread
        BY <3>3
      <4>2. Unread' = Unread
        BY <3>2, <3>4, <4>1
      <4> QED BY <3>2, <4>2 DEF Queue!vars, Unread
    <3>5. CASE n # 0
      <4>1. n \in 1 .. Len(Unread)
        BY <3>2, <3>3, <3>5
      <4> QED BY <3>2, <4>1 DEF Queue!Next, Queue!Take, Unread
    <3> QED BY <3>4, <3>5
  <2>3. CASE UNCHANGED vars
    BY <2>3 DEF vars, Queue!vars, Sent, Content
  <2> QED BY <1>2, <2>1, <2>2, <2>3, StepReads
<1> QED BY <1>1, <1>2, Invariants, PTL DEF Spec, ImplementsByteQueue

\* The generator stays on the boundaries of the frames: it looks for a frame only
\* where one starts, and is behind the last one when the response is over,
\* whatever mix of batches, views, collected payloads and skipped rows came
\* before.
THEOREM FramesStayAligned == Spec => []FrameAligned
<1>1. ASSUME Typed, Faithful, Framed PROVE FrameAligned
  <2>1. Position = Taken
    <3> DEFINE n == Len(stream)
               k == Buffered(buf)
    <3>1. n \in Nat /\ k \in Nat /\ arrived \in Nat /\ Len(Unread) = k + n
      BY <1>1, UnreadTyped
    <3> HIDE DEF n, k
    <3>2. arrived - (k + n) = arrived - n - k
      BY <3>1
    <3> QED BY <3>1, <3>2 DEF Position, Taken, n, k
  <2>2. ASSUME ctl.at = "type", reader # "failed" PROVE Position \in Boundaries
    <3>1. response.finish \in response.ends
      <4>1. WellFramed(response)
        BY <1>1, ResponsesAssumption DEF Typed
      <4> QED BY <4>1 DEF WellFramed
    <3>2. CASE reader = "done"
      BY <1>1, <3>1, <3>2 DEF Framed, Boundaries
    <3>3. CASE reader # "done"
      BY <1>1, <2>2, <3>3 DEF Framed, Starts, Typed, Open, Over
    <3> QED BY <3>2, <3>3
  <2>3. ASSUME reader = "done" PROVE Position = response.finish
    BY <1>1, <2>3 DEF Framed
  <2> QED BY <2>1, <2>2, <2>3 DEF FrameAligned
<1> QED BY <1>1, Invariants, PTL

-----------------------------------------------------------------------------
(* How large the buffer gets *)

\* It grows to twice its size only if it could not hold what is asked for.
LEMMA EnsureBounded ==
    ASSUME NEW b \in Buffers(Octets), NEW needed \in Int, NEW limit \in Nat,
           Buffered(b) + needed <= limit,
           Capacity(b) <= Larger(InitialSize, 2 * limit)
    PROVE  Capacity(EnsureCapacity(b, needed)) <= Larger(InitialSize, 2 * limit)
<1> DEFINE size == Larger(Larger(Capacity(b) * 2, Buffered(b) + needed), InitialSize)
<1>1. /\ Buffered(b) \in Nat /\ Capacity(b) \in Nat /\ Buffered(b) <= Capacity(b)
      /\ b.data \in Seq(Octets) /\ Capacity(b) = Len(b.data) /\ Garbage \in Octets
  BY SizesAssumption DEF Buffers, Buffered, Capacity, Octets
<1>2. CASE Capacity(b) - b.end >= needed
  BY <1>2 DEF EnsureCapacity
<1>3. CASE ~(Capacity(b) - b.end >= needed) /\ Capacity(b) - Buffered(b) >= needed
  <2>1. EnsureCapacity(b, needed) = MovedTo(b.data, b)
    BY <1>3 DEF EnsureCapacity
  <2>2. Capacity(MovedTo(b.data, b)) = Capacity(b)
    BY <1>1, MovedKeepsContent
  <2> QED BY <2>1, <2>2
<1>4. CASE ~(Capacity(b) - b.end >= needed) /\ ~(Capacity(b) - Buffered(b) >= needed)
  <2>1. EnsureCapacity(b, needed) = MovedTo(Fresh(size), b)
    BY <1>4 DEF EnsureCapacity
  <2>2. /\ size \in Nat /\ size >= Capacity(b) * 2
        /\ size <= Larger(InitialSize, 2 * limit)
    BY <1>1, <1>4, InitialSizeAssumption, SMTT(60) DEF Larger
  <2> HIDE DEF size
  <2>3. Fresh(size) \in Seq(Octets) /\ Len(Fresh(size)) = size /\ Buffered(b) <= size
    BY <1>1, <2>2, FreshTyped, SMTT(30)
  <2>4. Capacity(MovedTo(Fresh(size), b)) = size
    BY <1>1, <2>3, MovedKeepsContent
  <2> QED BY <2>1, <2>2, <2>4
<1> QED BY <1>2, <1>3, <1>4

\* What is waited for is within the frame.
LEMMA NeedBounded ==
    ASSUME Typed, Faithful, Framed, Running
    PROVE  Need \in Nat /\ Need <= response.longest
<1>1. /\ ctl \in Ctls /\ response \in Responses /\ response.longest \in Nat
      /\ ctl.at = "type" => Position \in Starts
      /\ ctl.at # "type" => \E start \in Starts : InFrame(start)
  BY WhereItIs, UnreadTyped
<1>2. ctl.len \in Nat /\ ctl.at \in Places
  BY <1>1 DEF Ctls
<1>3. CASE ctl.at = "type"
  <2>1. Need = 1
    BY <1>3 DEF Need
  <2>2. Byte(Sent, Position) \in Octets /\ HeaderSize(Byte(Sent, Position)) <= response.longest
    BY <1>1, <1>3, FrameEnds
  <2>3. HeaderSize(Byte(Sent, Position)) \in {1, 5, 9, 13}
    BY <2>2, HeaderSizes
  <2> QED BY <1>1, <2>1, <2>2, <2>3
<1>4. CASE ctl.at # "type"
  <2>1. PICK start \in Starts : InFrame(start)
    BY <1>1, <1>4
  <2> DEFINE type == Byte(Sent, start)
  <2>2. /\ type \in Octets /\ HeaderSize(type) <= response.longest /\ ctl.type = type /\ type # 0
    BY <1>1, <2>1, FrameEnds DEF InFrame
  <2>3. HeaderSize(type) \in {5, 9, 13}
    BY <2>2, HeaderSizes
  <2>4. CASE ctl.at = "header"
    BY <1>1, <2>2, <2>3, <2>4 DEF Need
  <2>5. CASE ctl.at = "length"
    BY <1>1, <2>2, <2>3, <2>5 DEF Need
  <2>6. CASE ctl.at = "rowHead"
    <3>1. type = CodeY
      BY <2>1, <2>6 DEF InFrame
    <3>2. HeaderSize(type) = 13
      BY <3>1, HeaderSizes
    <3> QED BY <1>1, <2>2, <2>6, <3>2 DEF Need
  <2>7. CASE ctl.at = "row"
    <3>1. type = CodeY /\ ctl.len = PayloadLength(Sent, start)
      BY <2>1, <2>7 DEF InFrame
    <3>2. HeaderSize(type) = 13
      BY <3>1, HeaderSizes
    <3>3. FrameSize(Sent, start) = 13 + ctl.len /\ FrameSize(Sent, start) <= response.longest
      <4>1. HeaderSize(Byte(Sent, start)) = 13 /\ PayloadLength(Sent, start) >= 0
        BY <1>2, <3>1, <3>2
      <4>2. /\ FrameSize(Sent, start) = HeaderSize(Byte(Sent, start)) + PayloadLength(Sent, start)
            /\ FrameSize(Sent, start) <= response.longest
        BY <1>1, <4>1, FrameEnds
      <4> QED BY <3>1, <4>1, <4>2
    <3> QED BY <1>1, <1>2, <2>7, <3>3 DEF Need
  <2>8. CASE ctl.at = "payload"
    <3>1. HeaderSize(type) = 9 /\ ctl.len = PayloadLength(Sent, start)
      BY <2>1, <2>8 DEF InFrame
    <3>2. FrameSize(Sent, start) = 9 + ctl.len /\ FrameSize(Sent, start) <= response.longest
      <4>1. HeaderSize(Byte(Sent, start)) = 9 /\ PayloadLength(Sent, start) >= 0
        BY <1>2, <3>1
      <4>2. /\ FrameSize(Sent, start) = HeaderSize(Byte(Sent, start)) + PayloadLength(Sent, start)
            /\ FrameSize(Sent, start) <= response.longest
        BY <1>1, <4>1, FrameEnds
      <4> QED BY <3>1, <4>1, <4>2
    <3> QED BY <1>1, <1>2, <2>8, <3>2 DEF Need
  <2>9. CASE ctl.at \in {"collect", "discard"}
    BY <1>1, <2>9 DEF Need
  <2> QED BY <1>2, <1>4, <2>4, <2>5, <2>6, <2>7, <2>8, <2>9 DEF Places
<1> QED BY <1>3, <1>4

LEMMA PullSized ==
    ASSUME Typed, Faithful, Framed, Sized, Pull
    PROVE  Capacity(buf') <= Largest /\ Len(stream') = 0
<1> DEFINE r == Reserve(buf, Need)
           limit == response.longest + HighWater
<1>1. /\ buf \in Buffers(Octets) /\ stream \in Seq(Octets) /\ Len(stream) \in Nat
      /\ Buffered(buf) \in Nat /\ Capacity(buf) \in Nat
      /\ response.longest \in Nat /\ HighWater \in Nat /\ Garbage \in Octets
  BY UnreadTyped, SizesAssumption DEF Typed, Octets
<1>2. Running /\ Need \in Nat /\ Need <= response.longest /\ ~(Buffered(buf) >= Need)
  BY NeedBounded DEF Pull, Starved, HasBytes
<1>3. Len(stream) <= HighWater /\ Capacity(buf) <= Larger(InitialSize, 2 * limit)
  BY DEF Sized, Largest
<1>4. buf' = AppendChunk(r, stream) /\ stream' = <<>>
  BY DEF Pull
<1>5. limit \in Nat /\ Need <= limit /\ Need - Buffered(buf) \in Int
      /\ Buffered(buf) + (Need - Buffered(buf)) <= limit
      /\ Buffered(buf) + Len(stream) <= limit
  BY <1>1, <1>2, <1>3, SMTT(60)
<1> HIDE DEF limit
<1>6. Capacity(r) <= Larger(InitialSize, 2 * limit)
  <2>1. Capacity(EnsureCapacity(buf, Need - Buffered(buf))) <= Larger(InitialSize, 2 * limit)
    BY <1>1, <1>3, <1>5, EnsureBounded
  <2> QED BY <1>3, <2>1 DEF Reserve
<1>7. r \in Buffers(Octets) /\ Buffered(r) = Buffered(buf)
  <2>1. Need \in Int
    BY <1>2
  <2>2. r \in Buffers(Octets) /\ Content(r) = Content(buf)
    BY <1>1, <2>1, ReserveKeepsContent
  <2> HIDE DEF r
  <2> QED BY <1>1, <2>2, ContentTyped
<1> HIDE DEF r
<1> DEFINE e == EnsureCapacity(r, Len(stream))
<1>8. Capacity(e) <= Larger(InitialSize, 2 * limit) /\ e \in Buffers(Octets)
  <2>1. Len(stream) \in Int /\ Buffered(r) + Len(stream) <= limit
    BY <1>1, <1>5, <1>7
  <2> QED BY <1>1, <1>5, <1>6, <1>7, <2>1, EnsureBounded, EnsureKeepsContent
<1>9. buf' = [e EXCEPT !.data = Copied(stream, e.data, e.end), !.end = e.end + Len(stream)]
  BY <1>4 DEF AppendChunk
<1> HIDE DEF e
<1>10. Capacity(buf') = Capacity(e)
  <2>1. e.data \in Seq(Octets) /\ e.end \in Nat
    BY <1>8 DEF Buffers
  <2> DEFINE d == Copied(stream, e.data, e.end)
             c == [e EXCEPT !.data = d]
  <2>2. d \in Seq(Octets) /\ Len(d) = Len(e.data)
    BY <1>1, <2>1, CopiedTyped
  <2> HIDE DEF d
  <2>3. c = [data |-> d, start |-> e.start, end |-> e.end]
    BY <1>8 DEF Buffers
  <2>4. buf' = [c EXCEPT !.end = e.end + Len(stream)]
    BY <1>9 DEF d
  <2> HIDE DEF c
  <2>5. buf'.data = d
    BY <2>3, <2>4
  <2> QED BY <2>2, <2>5 DEF Capacity
<1>11. Len(stream') = 0
  BY <1>4
<1> QED BY <1>8, <1>10, <1>11 DEF Largest, limit

\* No other step gives the buffer more memory.
InMemory(b, d) == \E start, end : b = [data |-> d, start |-> start, end |-> end]

LEMMA MemoryKept ==
    ASSUME NEW b, NEW d, InMemory(b, d)
    PROVE  /\ \A n : InMemory(Skip(b, n), d)
           /\ InMemory(Emptied(b), d)
           /\ \A at : InMemory([b EXCEPT !.start = at], d)
<1>1. PICK start, end : b = [data |-> d, start |-> start, end |-> end]
  BY DEF InMemory
<1>2. ASSUME NEW at PROVE InMemory([b EXCEPT !.start = at], d)
  <2>1. [b EXCEPT !.start = at] = [data |-> d, start |-> at, end |-> end]
    BY <1>1
  <2> QED BY <2>1, Zenon DEF InMemory
<1>3. ASSUME NEW n PROVE InMemory(Skip(b, n), d)
  <2>1. Skip(b, n) = [data |-> d, start |-> start + n, end |-> end]
    BY <1>1 DEF Skip
  <2> QED BY <2>1, Zenon DEF InMemory
<1>4. InMemory(Emptied(b), d)
  <2> DEFINE c == [b EXCEPT !.start = 0]
  <2>1. c = [data |-> d, start |-> 0, end |-> end]
    BY <1>1
  <2> HIDE DEF c
  <2>2. [c EXCEPT !.end = 0] = [data |-> d, start |-> 0, end |-> 0]
    BY <2>1
  <2> QED BY <2>2, Zenon DEF Emptied, c, InMemory
<1> QED BY <1>2, <1>3, <1>4

\* The buffer stays where it is, and the response goes on.
Stays == InMemory(buf', buf.data) /\ reader' # "done"

LEMMA HandedOnStays ==
    ASSUME Running
    PROVE  /\ Fault => reader' # "done"
           /\ Yield => reader' # "done"
           /\ NextFrame => reader' # "done"
BY DEF Running, Fault, Yield, NextFrame

LEMMA DiscardedStays ==
    ASSUME Running, NEW b, InMemory(b, buf.data), Discarded(b)
    PROVE  Stays
<1>1. PICK at : buf' = [b EXCEPT !.start = at]
  BY DEF Discarded
<1>2. InMemory(buf', buf.data)
  BY <1>1, MemoryKept
<1>3. reader' # "done"
  BY HandedOnStays DEF Discarded
<1> QED BY <1>2, <1>3 DEF Stays

LEMMA DiscardStays ==
    ASSUME Running, NEW b, InMemory(b, buf.data), NEW n, Discard(b, n)
    PROVE  Stays
<1>1. CASE Buffered(b) >= n
  <2>1. Discarded(Skip(b, n))
    BY <1>1 DEF Discard
  <2>2. InMemory(Skip(b, n), buf.data)
    BY MemoryKept
  <2> QED BY <2>1, <2>2, DiscardedStays
<1>2. CASE ~(Buffered(b) >= n)
  <2>1. buf' = Emptied(b) /\ reader' = reader
    BY <1>2 DEF Discard
  <2>2. InMemory(Emptied(b), buf.data)
    BY MemoryKept
  <2> QED BY <2>1, <2>2 DEF Stays, Running
<1> QED BY <1>1, <1>2

LEMMA PayloadStays ==
    ASSUME Running, NEW b, InMemory(b, buf.data), NEW payload, HandlePayload(payload, b)
    PROVE  Stays
<1>1. InMemory(buf', buf.data)
  <2>1. buf' = b \/ buf' = [b EXCEPT !.start = DataRowBatch(b).at]
    BY DEF HandlePayload
  <2>2. \A at : InMemory([b EXCEPT !.start = at], buf.data)
    BY MemoryKept
  <2> QED BY <2>1, <2>2, Zenon
<1>2. reader' # "done"
  BY HandedOnStays DEF HandlePayload, YieldRow
<1> QED BY <1>1, <1>2 DEF Stays

LEMMA SteadySteps ==
    ASSUME Typed, reader # "done",
           \/ ServeBatch \/ ReadType \/ ReadLength \/ DiscardMore \/ ReadPayload
           \/ Collect \/ CollectMore \/ ReadRowHead \/ ReadRow \/ Caller
    PROVE  Stays /\ response' = response
<1>1. InMemory(buf, buf.data)
  BY DEF Typed, Buffers, InMemory
<1>2. \A n : InMemory(Skip(buf, n), buf.data)
  BY <1>1, MemoryKept
<1>3. CASE ServeBatch \/ Caller
  BY <1>1, <1>3 DEF Stays, ServeBatch, YieldRow, Yield, Caller, TakeBufferedRow, NextItem, CloseReader
<1>4. CASE ReadType
  BY <1>2, <1>4, Zenon DEF Stays, ReadType
<1>5. CASE Collect
  <2>1. InMemory(Emptied(buf), buf.data)
    BY <1>1, MemoryKept
  <2> QED BY <1>1, <1>5, <2>1 DEF Stays, Collect
<1>6. CASE ReadLength
  <2>1. Running /\ response' = response
    BY <1>6 DEF ReadLength
  <2>2. \/ Fault /\ buf' = Skip(buf, 4)
        \/ \E n : Discard(Skip(buf, 4), n)
        \/ buf' = Skip(buf, 4) /\ reader' = reader
    BY <1>6 DEF ReadLength
  <2>3. ASSUME NEW n, Discard(Skip(buf, 4), n) PROVE Stays
    BY <1>2, <2>1, <2>3, DiscardStays
  <2> QED BY <1>2, <2>1, <2>2, <2>3, HandedOnStays DEF Stays
<1>7. CASE DiscardMore
  <2>1. Running /\ response' = response
    BY <1>7 DEF DiscardMore
  <2>2. (buf' = buf /\ reader' = reader) \/ Discarded(buf)
    BY <1>7 DEF DiscardMore
  <2> QED BY <1>1, <2>1, <2>2, DiscardedStays DEF Stays
<1>8. CASE ReadPayload
  <2>1. Running /\ response' = response /\ \E payload : HandlePayload(payload, Skip(buf, ctl.len))
    BY <1>8 DEF ReadPayload
  <2> QED BY <1>2, <2>1, PayloadStays
<1>9. CASE CollectMore
  <2>1. Running /\ response' = response
    BY <1>9 DEF CollectMore
  <2>2. (buf' = buf /\ reader' = reader) \/ \E payload : HandlePayload(payload, buf)
    BY <1>9 DEF CollectMore
  <2> QED BY <1>1, <2>1, <2>2, PayloadStays DEF Stays
<1>10. CASE ReadRowHead
  <2>1. Running /\ response' = response
    BY <1>10 DEF ReadRowHead
  <2>2. \/ Fault /\ buf' = buf
        \/ \E n : Discard(buf, n)
        \/ buf' = buf /\ reader' = reader
    BY <1>10 DEF ReadRowHead
  <2> QED BY <1>1, <2>1, <2>2, DiscardStays, HandedOnStays DEF Stays
<1>11. CASE ReadRow
  <2>1. Running /\ response' = response
    BY <1>11 DEF ReadRow
  <2>2. \/ Fault /\ buf' = buf
        \/ Yield /\ \E at : buf' = [buf EXCEPT !.start = at]
    BY <1>11 DEF ReadRow, YieldRow
  <2>3. \A at : InMemory([buf EXCEPT !.start = at], buf.data)
    BY <1>1, MemoryKept
  <2> QED BY <1>1, <2>1, <2>2, <2>3, HandedOnStays DEF Stays
<1> QED BY <1>3, <1>4, <1>5, <1>6, <1>7, <1>8, <1>9, <1>10, <1>11

\* Of the socket a step leaves what it has, nothing, or the end.
LEMMA SocketShrinks ==
    ASSUME Typed, Generator \/ Caller
    PROVE  Len(stream') <= Len(stream)
<1>1. stream \in Seq(Octets) /\ Len(stream) \in Nat /\ ctl \in Ctls
  BY DEF Typed, Ctls
<1>2. ASSUME NEW k \in Nat, k <= Len(stream), stream' = SubSeq(stream, k + 1, Len(stream))
      PROVE  Len(stream') <= Len(stream)
  <2>1. Len(SubSeq(stream, k + 1, Len(stream))) = Len(stream) - k
    BY <1>1, <1>2, SliceTyped
  <2> QED BY <1>1, <1>2, <2>1
<1>3. CASE \/ Pull \/ ServeBatch \/ ReadType \/ SkipHeader \/ ReadLength \/ ReadPayload
           \/ Collect \/ ReadRowHead \/ ReadRow \/ Caller
  <2>1. stream' = stream \/ stream' = <<>>
    BY <1>3 DEF Pull, ServeBatch, ReadType, SkipHeader, ReadLength, ReadPayload,
                Collect, ReadRowHead, ReadRow, Caller, TakeBufferedRow, NextItem, CloseReader
  <2> QED BY <1>1, <2>1
<1>4. CASE DiscardMore
  <2>1. \/ stream' = <<>>
        \/ ~(Len(stream) < ctl.left) /\ stream' = SubSeq(stream, ctl.left + 1, Len(stream))
    BY <1>4 DEF DiscardMore
  <2>2. ctl.left \in Nat
    BY <1>1 DEF Ctls
  <2> QED BY <1>1, <1>2, <2>1, <2>2
<1>5. CASE CollectMore
  <2> DEFINE left == ctl.len - Len(ctl.held)
  <2>1. \/ stream' = <<>>
        \/ ~(Len(stream) < left) /\ stream' = SubSeq(stream, left + 1, Len(stream))
    BY <1>5 DEF CollectMore
  <2>2. left \in Nat
    <3>1. ctl.at = "collect" /\ ctl.len \in Nat /\ ctl.held \in Seq(Octets)
      BY <1>1, <1>5 DEF CollectMore, Ctls
    <3>2. Len(ctl.held) < ctl.len
      BY <3>1 DEF Typed
    <3> QED BY <3>1, <3>2
  <2> HIDE DEF left
  <2> QED BY <1>1, <1>2, <2>1, <2>2
<1> QED BY <1>3, <1>4, <1>5 DEF Generator

LEMMA SkipHeaderSized ==
    ASSUME Typed, Framed, Faithful, Sized, SkipHeader
    PROVE  /\ Capacity(buf') <= Largest
           /\ reader' = "done" => Capacity(buf') <= ShrinkThreshold \/ Buffered(buf') > InitialSize
<1>1. Running /\ buf \in Buffers(Octets) /\ Buffered(buf) \in Nat /\ Buffered(buf) >= 4 /\ Garbage \in Octets
      /\ reader # "done" /\ Capacity(buf) \in Nat
  BY UnreadTyped, SizesAssumption, SMTT(30) DEF SkipHeader, HasBytes, Need, Typed, Running, Octets
<1>2. Skip(buf, 4) \in Buffers(Octets)
  <2>1. 4 \in Nat /\ 4 <= Buffered(buf)
    BY <1>1
  <2> QED BY <1>1, <2>1, SkipTakes
<1>3. Capacity(Skip(buf, 4)) = Capacity(buf)
  BY <1>1 DEF Skip, Capacity, Buffers
<1>4. CASE buf' = ShrinkReadBuffer(Skip(buf, 4))
  <2>1. Capacity(buf') <= ShrinkThreshold \/ Buffered(buf') > InitialSize
    BY <1>1, <1>2, <1>4, ShrinkLosesNothing
  <2>2. Capacity(ShrinkReadBuffer(Skip(buf, 4))) \in {Capacity(buf), InitialSize}
    <3> DEFINE b == Skip(buf, 4)
    <3>1. CASE Capacity(b) <= ShrinkThreshold \/ Buffered(b) > InitialSize
      BY <1>3, <3>1 DEF ShrinkReadBuffer
    <3>2. CASE ~(Capacity(b) <= ShrinkThreshold \/ Buffered(b) > InitialSize)
      <4>1. ShrinkReadBuffer(b) = MovedTo(Fresh(InitialSize), b)
        BY <3>2 DEF ShrinkReadBuffer
      <4>2. Fresh(InitialSize) \in Seq(Octets) /\ Len(Fresh(InitialSize)) = InitialSize
        BY <1>1, InitialSizeAssumption, FreshTyped
      <4> HIDE DEF b
      <4>3. Buffered(b) <= InitialSize
        BY <1>2, <3>2, ContentTyped, InitialSizeAssumption DEF b
      <4>4. Capacity(MovedTo(Fresh(InitialSize), b)) = InitialSize
        BY <1>2, <4>2, <4>3, MovedKeepsContent DEF b
      <4> QED BY <4>1, <4>4 DEF b
    <3> QED BY <3>1, <3>2
  <2>3. Capacity(buf) <= Largest /\ InitialSize <= Largest
    <3>1. response.longest \in Nat /\ HighWater \in Nat
      BY UnreadTyped
    <3>2. InitialSize <= Largest
      BY <3>1, InitialSizeAssumption DEF Largest, Larger
    <3> QED BY <3>2 DEF Sized
  <2> QED BY <1>4, <2>1, <2>2, <2>3
<1>5. CASE buf' = Skip(buf, 4) /\ reader' = reader
  BY <1>1, <1>3, <1>5 DEF Sized
<1> QED BY <1>4, <1>5 DEF SkipHeader, NextFrame

LEMMA StepSized ==
    ASSUME Typed, Faithful, Framed, Sized, [Next]_vars
    PROVE  Sized'
<1>1. ASSUME response' = response PROVE Largest' = Largest
  BY <1>1 DEF Largest
<1>2. Len(stream) \in Nat /\ HighWater \in Nat /\ Len(stream) <= HighWater /\ Capacity(buf) <= Largest
  BY UnreadTyped DEF Sized
<1>3. CASE Arrive
  <2>1. response' = response /\ buf' = buf /\ reader' = reader /\ Len(stream') <= HighWater
    BY <1>3, ArriveAppends
  <2>2. Capacity(buf)' = Capacity(buf) /\ Buffered(buf)' = Buffered(buf)
    BY <2>1 DEF Capacity, Buffered
  <2> QED BY <1>1, <2>1, <2>2 DEF Sized
<1>4. CASE Generator \/ Caller
  <2>1. Len(stream') <= HighWater
    <3>1. Len(stream') <= Len(stream) /\ stream' \in Seq(Octets)
      BY <1>4, SocketShrinks, GeneratorReads, CallerReads DEF Reads, Typed
    <3>2. Len(stream') \in Nat
      BY <3>1
    <3> QED BY <1>2, <3>1, <3>2
  <2>2. reader # "done"
    BY <1>4 DEF Generator, Pull, ServeBatch, ReadType, SkipHeader, ReadLength, DiscardMore, ReadPayload,
                Collect, CollectMore, ReadRowHead, ReadRow, Caller, TakeBufferedRow, NextItem,
                CloseReader, Starved, Running
  <2>3. response' = response
    <3>1. Reads
      BY <1>4, GeneratorReads, CallerReads
    <3> QED BY <3>1 DEF Reads, Taking
  <2>4. CASE Pull
    <3>1. Capacity(buf') <= Largest /\ reader' # "done"
      BY <2>2, <2>4, PullSized DEF Pull
    <3> QED BY <1>1, <2>1, <2>3, <3>1 DEF Sized, Capacity, Buffered
  <2>5. CASE SkipHeader
    <3>1. /\ Capacity(buf') <= Largest
          /\ reader' = "done" => Capacity(buf') <= ShrinkThreshold \/ Buffered(buf') > InitialSize
      BY <2>5, SkipHeaderSized
    <3> QED BY <1>1, <2>1, <2>3, <3>1 DEF Sized, Capacity, Buffered
  <2>6. CASE ~Pull /\ ~SkipHeader
    <3>1. Stays
      BY <1>4, <2>2, <2>6, SteadySteps DEF Generator
    <3>2. buf'.data = buf.data /\ reader' # "done"
      BY <3>1 DEF Stays, InMemory
    <3>3. Capacity(buf)' = Capacity(buf)
      BY <3>2 DEF Capacity
    <3> QED BY <1>1, <1>2, <2>1, <2>3, <3>2, <3>3 DEF Sized
  <2> QED BY <2>4, <2>5, <2>6
<1>5. CASE UNCHANGED vars
  BY <1>5 DEF vars, Sized, Largest, Capacity, Buffered
<1> QED BY <1>3, <1>4, <1>5 DEF Next

\* However many rows a response has, the buffer never grows beyond twice what its
\* longest frame and the socket hold, and gives the memory back when the response
\* is over.
THEOREM BufferStaysBounded == Spec => []BufferBounded
<1>1. Init => Sized
  <2> SUFFICES ASSUME Init PROVE Sized
    OBVIOUS
  <2>1. Typed /\ Faithful /\ Framed
    BY InitialState
  <2>2. response.longest \in Nat /\ HighWater \in Nat
    BY <2>1, UnreadTyped
  <2>3. stream = <<>> /\ reader # "done" /\ buf.data = Fresh(InitialSize)
    BY DEF Init, NewBuffer
  <2>4. Len(stream) = 0
    BY <2>3
  <2>5. Capacity(buf) = InitialSize
    <3>1. Garbage \in Octets /\ InitialSize \in Nat
      BY SizesAssumption, InitialSizeAssumption DEF Octets
    <3> QED BY <2>3, <3>1, FreshTyped DEF Capacity
  <2>6. Capacity(buf) <= Largest
    BY <2>2, <2>5, InitialSizeAssumption DEF Largest, Larger
  <2> QED BY <2>2, <2>3, <2>4, <2>6 DEF Sized
<1>2. Typed /\ Faithful /\ Framed /\ Sized /\ [Next]_vars => Sized'
  BY StepSized
<1>3. Sized => BufferBounded
  BY DEF Sized, Largest, BufferBounded
<1> QED BY <1>1, <1>2, <1>3, Invariants, PTL DEF Spec

-----------------------------------------------------------------------------
(* Rows wherever they are: what a row decodes to depends only on its bytes   *)
(* if the values of its fields lie within it.                                *)

\* The n bytes of d from offset b on are those of e from offset c on.
SameBytes(d, b, e, c, n) ==
    /\ d \in Seq(Octets) /\ e \in Seq(Octets) /\ b \in Nat /\ c \in Nat /\ n \in Nat
    /\ b + n <= Len(d) /\ c + n <= Len(e)
    /\ \A i \in Nat : i < n => Byte(d, b + i) = Byte(e, c + i)

LEMMA SameUInt16 ==
    ASSUME NEW d, NEW b, NEW e, NEW c, NEW n, SameBytes(d, b, e, c, n), NEW i \in Nat, i + 2 <= n
    PROVE  UInt16LE(d, b + i) = UInt16LE(e, c + i) /\ UInt16LE(d, b + i) \in Nat
<1>1. /\ d \in Seq(Octets) /\ b \in Nat /\ c \in Nat /\ n \in Nat /\ b + n <= Len(d)
      /\ i < n /\ i + 1 \in Nat /\ i + 1 < n
  BY DEF SameBytes
<1>2. Byte(d, b + i) = Byte(e, c + i) /\ Byte(d, b + (i + 1)) = Byte(e, c + (i + 1))
  BY <1>1, Zenon DEF SameBytes
<1>3. b + (i + 1) = b + i + 1 /\ c + (i + 1) = c + i + 1
  BY <1>1
<1>4. UInt16LE(d, b + i) = UInt16LE(e, c + i)
  BY <1>2, <1>3 DEF UInt16LE
<1>5. d[(b + i) + 1] \in Octets /\ d[(b + i + 1) + 1] \in Octets
  <2>1. (b + i) + 1 \in 1 .. Len(d) /\ (b + i + 1) + 1 \in 1 .. Len(d)
    BY <1>1
  <2>2. \A k \in 1 .. Len(d) : d[k] \in Octets
    BY <1>1
  <2> QED BY <2>1, <2>2, Zenon
<1>6. \A x, y \in Octets : x + 256 * y \in Nat
  BY DEF Octets
<1>7. UInt16LE(d, b + i) \in Nat
  BY <1>5, <1>6, Zenon DEF UInt16LE, Byte
<1> QED BY <1>4, <1>7

LEMMA SameInt32 ==
    ASSUME NEW d, NEW b, NEW e, NEW c, NEW n, SameBytes(d, b, e, c, n), NEW i \in Nat, i + 4 <= n
    PROVE  Int32LE(d, b + i) = Int32LE(e, c + i) /\ Int32BE(d, b + i) = Int32BE(e, c + i)
<1>1. /\ b \in Nat /\ c \in Nat /\ n \in Nat
      /\ i < n /\ i + 1 \in Nat /\ i + 1 < n /\ i + 2 \in Nat /\ i + 2 < n /\ i + 3 \in Nat /\ i + 3 < n
  BY DEF SameBytes
<1>2. /\ Byte(d, b + i) = Byte(e, c + i) /\ Byte(d, b + (i + 1)) = Byte(e, c + (i + 1))
      /\ Byte(d, b + (i + 2)) = Byte(e, c + (i + 2)) /\ Byte(d, b + (i + 3)) = Byte(e, c + (i + 3))
  BY <1>1, Zenon DEF SameBytes
<1>3. /\ b + (i + 1) = b + i + 1 /\ c + (i + 1) = c + i + 1
      /\ b + (i + 2) = b + i + 2 /\ c + (i + 2) = c + i + 2
      /\ b + (i + 3) = b + i + 3 /\ c + (i + 3) = c + i + 3
  BY <1>1
<1>4. /\ Byte(d, b + i + 1) = Byte(e, c + i + 1)
      /\ Byte(d, b + i + 2) = Byte(e, c + i + 2)
      /\ Byte(d, b + i + 3) = Byte(e, c + i + 3)
  BY <1>2, <1>3, Zenon
<1> QED BY <1>2, <1>4, ZenonT(60) DEF Int32LE, Int32BE

LEMMA SameSlice ==
    ASSUME NEW d, NEW b, NEW e, NEW c, NEW n, SameBytes(d, b, e, c, n),
           NEW i \in Nat, NEW j \in Nat, i <= j, j <= n
    PROVE  Slice(d, b + i, b + j) = Slice(e, c + i, c + j) /\ Slice(d, b + i, b + j) \in Seq(Octets)
<1> DEFINE x == SubSeq(d, (b + i) + 1, b + j)
           y == SubSeq(e, (c + i) + 1, c + j)
<1>1. /\ d \in Seq(Octets) /\ e \in Seq(Octets) /\ b \in Nat /\ c \in Nat /\ n \in Nat
      /\ b + n <= Len(d) /\ c + n <= Len(e)
  BY DEF SameBytes
<1>2. /\ b + i \in Nat /\ b + j \in Nat /\ b + i <= b + j /\ b + j <= Len(d) /\ (b + j) - (b + i) = j - i
      /\ c + i \in Nat /\ c + j \in Nat /\ c + i <= c + j /\ c + j <= Len(e) /\ (c + j) - (c + i) = j - i
  <2>1. Len(d) \in Nat /\ Len(e) \in Nat
    BY <1>1
  <2> QED BY <1>1, <2>1
<1>3. x \in Seq(Octets) /\ Len(x) = j - i /\ \A k \in 1 .. j - i : x[k] = d[(b + i) + k]
  <2> DEFINE from == b + i
             to == b + j
  <2>1. from \in Nat /\ to \in Nat /\ from <= to /\ to <= Len(d) /\ to - from = j - i
    BY <1>2
  <2> HIDE DEF from, to
  <2>2. /\ SubSeq(d, from + 1, to) \in Seq(Octets) /\ Len(SubSeq(d, from + 1, to)) = to - from
        /\ \A k \in 1 .. to - from : SubSeq(d, from + 1, to)[k] = d[from + k]
    BY <1>1, <2>1, SliceTyped, SMTT(30)
  <2> QED BY <2>1, <2>2 DEF from, to
<1>4. y \in Seq(Octets) /\ Len(y) = j - i /\ \A k \in 1 .. j - i : y[k] = e[(c + i) + k]
  <2> DEFINE from == c + i
             to == c + j
  <2>1. from \in Nat /\ to \in Nat /\ from <= to /\ to <= Len(e) /\ to - from = j - i
    BY <1>2
  <2> HIDE DEF from, to
  <2>2. /\ SubSeq(e, from + 1, to) \in Seq(Octets) /\ Len(SubSeq(e, from + 1, to)) = to - from
        /\ \A k \in 1 .. to - from : SubSeq(e, from + 1, to)[k] = e[from + k]
    BY <1>1, <2>1, SliceTyped, SMTT(30)
  <2> QED BY <2>1, <2>2 DEF from, to
<1> HIDE DEF x, y
<1>5. ASSUME NEW k \in 1 .. Len(x) PROVE x[k] = y[k]
  <2>1. k \in 1 .. j - i /\ i + (k - 1) \in Nat /\ i + (k - 1) < n
    BY <1>1, <1>3
  <2>2. Byte(d, b + (i + (k - 1))) = Byte(e, c + (i + (k - 1)))
    BY <2>1, Zenon DEF SameBytes
  <2>3. (b + (i + (k - 1))) + 1 = (b + i) + k /\ (c + (i + (k - 1))) + 1 = (c + i) + k
    BY <1>1, <2>1
  <2> QED BY <1>3, <1>4, <2>1, <2>2, <2>3 DEF Byte
<1>6. x = y
  BY <1>3, <1>4, <1>5, SeqEqual, Zenon
<1> QED BY <1>3, <1>6 DEF x, y, Slice

\* A varying field starts where the one before it ends.
VaryingStart(d, base, end, binary, start, j) ==
    IF j = 0 THEN base + binary.fixedFieldsSize
    ELSE LET at == start[j - 1]
             vlen == UInt16LE(d, at)
         IN  IF at > end - 2 THEN end + 1
             ELSE IF vlen < 2 THEN end + 1 ELSE at + vlen + (vlen % 2)

LEMMA VaryingDefined ==
    ASSUME NEW d, NEW base, NEW end, NEW binary, binary.numVarying \in Nat
    PROVE  LET s == VaryingStarts(d, base, end, binary)
           IN  s = [j \in 0 .. binary.numVarying |-> VaryingStart(d, base, end, binary, s, j)]
<1> DEFINE size == binary.numVarying
           V(f, j) == VaryingStart(d, base, end, binary, f, j)
           Solves(f, k) == f = [j \in 0 .. k |-> V(f, j)]
           T == {k \in 0 .. size : \A f : ~Solves(f, k)}
<1>0. ASSUME NEW f, NEW g, NEW j \in Nat, j # 0 => f[j - 1] = g[j - 1]
      PROVE  V(f, j) = V(g, j)
  BY <1>0 DEF VaryingStart
<1>1. ASSUME T # {} PROVE FALSE
  <2>1. PICK m \in T : \A k \in T : m <= k
    <3>1. T \subseteq Nat
      OBVIOUS
    <3> HIDE DEF T
    <3> QED BY <1>1, <3>1, LeastNat
  <2>2. m \in Nat /\ m <= size /\ \A f : ~Solves(f, m)
    BY <2>1
  <2>3. PICK f : f = [j \in 0 .. m - 1 |-> V(f, j)]
    <3>1. CASE m = 0
      <4>1. 0 .. m - 1 = {}
        BY <3>1
      <4>2. [j \in {} |-> 0] = [j \in {} |-> V([i \in {} |-> 0], j)]
        OBVIOUS
      <4> QED BY <4>1, <4>2
    <3>2. CASE m > 0
      <4>1. m - 1 \in 0 .. size /\ ~(m <= m - 1)
        BY <2>2, <3>2
      <4> QED BY <2>1, <4>1
    <3> QED BY <2>2, <3>1, <3>2
  <2> DEFINE g == [j \in 0 .. m |-> IF j = m THEN V(f, j) ELSE f[j]]
  <2>4. ASSUME NEW j \in 0 .. m PROVE g[j] = V(g, j)
    <3>1. g[j] = V(f, j)
      <4>1. j # m => j \in 0 .. m - 1
        BY <2>2
      <4>2. j # m => f[j] = V(f, j)
        <5> HIDE DEF V
        <5> QED BY <2>3, <4>1, Zenon
      <4> HIDE DEF V
      <4> QED BY <4>2
    <3>2. j # 0 => f[j - 1] = g[j - 1]
      <4> HIDE DEF V
      <4>1. j # 0 => j - 1 \in 0 .. m /\ j - 1 # m
        BY <2>2
      <4> QED BY <4>1
    <3>3. j \in Nat
      BY <2>2
    <3> HIDE DEF g, V
    <3>4. V(f, j) = V(g, j)
      BY <1>0, <3>2, <3>3
    <3> QED BY <3>1, <3>4
  <2>5. Solves(g, m)
    <3>1. g = [j \in 0 .. m |-> g[j]]
      OBVIOUS
    <3> HIDE DEF g, V
    <3> QED BY <2>4, <3>1
  <2> QED BY <2>2, <2>5
<1>2. \E f : Solves(f, size)
  <2>1. size \in 0 .. size
    OBVIOUS
  <2> HIDE DEF Solves
  <2> QED BY <1>1, <2>1
<1>3. VaryingStarts(d, base, end, binary) = CHOOSE f : Solves(f, size)
  BY DEF VaryingStarts, VaryingStart
<1> HIDE DEF Solves
<1>4. Solves(VaryingStarts(d, base, end, binary), size)
  BY <1>2, <1>3
<1> QED BY <1>4 DEF Solves

LEMMA SameVarying ==
    ASSUME NEW d, NEW b, NEW e, NEW c, NEW n, SameBytes(d, b, e, c, n),
           NEW binary, binary.numVarying \in Nat, binary.fixedFieldsSize \in Nat
    PROVE  LET s == VaryingStarts(d, b, b + n, binary)
               t == VaryingStarts(e, c, c + n, binary)
           IN  \A j \in 0 .. binary.numVarying : s[j] \in Nat /\ s[j] >= b /\ t[j] = c + (s[j] - b)
<1> DEFINE s == VaryingStarts(d, b, b + n, binary)
           t == VaryingStarts(e, c, c + n, binary)
           size == binary.numVarying
           fixed == binary.fixedFieldsSize
           Good(j) == s[j] \in Nat /\ s[j] >= b /\ t[j] = c + (s[j] - b)
           T == {j \in 0 .. size : ~Good(j)}
<1>1. b \in Nat /\ c \in Nat /\ n \in Nat
  BY DEF SameBytes
<1>2. \A j \in 0 .. size : s[j] = VaryingStart(d, b, b + n, binary, s, j)
  <2>1. s = [j \in 0 .. size |-> VaryingStart(d, b, b + n, binary, s, j)]
    BY VaryingDefined
  <2> HIDE DEF s
  <2> QED BY <2>1, Zenon
<1>3. \A j \in 0 .. size : t[j] = VaryingStart(e, c, c + n, binary, t, j)
  <2>1. t = [j \in 0 .. size |-> VaryingStart(e, c, c + n, binary, t, j)]
    BY VaryingDefined
  <2> HIDE DEF t
  <2> QED BY <2>1, Zenon
<1> HIDE DEF s, t
<1>4. SUFFICES ASSUME T # {} PROVE FALSE
  BY DEF s, t
<1>5. PICK m \in T : \A k \in T : m <= k
  <2>1. T \subseteq Nat
    OBVIOUS
  <2> HIDE DEF T
  <2> QED BY <1>4, <2>1, LeastNat
<1>6. m \in 0 .. size /\ m \in Nat /\ ~Good(m)
  BY <1>5
<1>7. CASE m = 0
  <2>1. s[m] = b + fixed /\ t[m] = c + fixed
    BY <1>2, <1>3, <1>6, <1>7 DEF VaryingStart
  <2>2. s[m] \in Nat /\ s[m] >= b /\ t[m] = c + (s[m] - b)
    BY <1>1, <2>1
  <2> QED BY <1>6, <2>2
<1>8. CASE m # 0
  <2> DEFINE at == s[m - 1]
             there == t[m - 1]
             vlen == UInt16LE(d, at)
             i == at - b
  <2>1. m - 1 \in 0 .. size /\ ~(m <= m - 1)
    BY <1>6, <1>8
  <2>2. at \in Nat /\ at >= b /\ there = c + (at - b)
    BY <1>5, <2>1
  <2>3. /\ s[m] = IF at > (b + n) - 2 THEN (b + n) + 1
                  ELSE IF vlen < 2 THEN (b + n) + 1 ELSE at + vlen + (vlen % 2)
        /\ t[m] = IF there > (c + n) - 2 THEN (c + n) + 1
                  ELSE IF UInt16LE(e, there) < 2 THEN (c + n) + 1
                  ELSE there + UInt16LE(e, there) + (UInt16LE(e, there) % 2)
    BY <1>2, <1>3, <1>6, <1>8 DEF VaryingStart
  <2> HIDE DEF at, there
  <2>4. i \in Nat /\ at = b + i /\ there = c + i
    BY <1>1, <2>2
  <2> HIDE DEF i
  <2>5. CASE i + 2 > n
    <3>1. at > (b + n) - 2 /\ there > (c + n) - 2
      BY <1>1, <2>4, <2>5
    <3>2. s[m] = (b + n) + 1 /\ t[m] = (c + n) + 1
      BY <2>3, <3>1
    <3>3. s[m] \in Nat /\ s[m] >= b /\ t[m] = c + (s[m] - b)
      BY <1>1, <3>2
    <3> QED BY <1>6, <3>3
  <2>6. CASE i + 2 <= n
    <3>1. ~(at > (b + n) - 2) /\ ~(there > (c + n) - 2)
      BY <1>1, <2>4, <2>6
    <3>2. vlen = UInt16LE(e, there) /\ vlen \in Nat
      BY <2>4, <2>6, SameUInt16
    <3>3. CASE vlen < 2
      <4>1. s[m] = (b + n) + 1 /\ t[m] = (c + n) + 1
        BY <2>3, <3>1, <3>2, <3>3
      <4>2. s[m] \in Nat /\ s[m] >= b /\ t[m] = c + (s[m] - b)
        BY <1>1, <4>1
      <4> QED BY <1>6, <4>2
    <3>4. CASE ~(vlen < 2)
      <4>1. s[m] = at + vlen + (vlen % 2) /\ t[m] = there + vlen + (vlen % 2)
        BY <2>3, <3>1, <3>2, <3>4
      <4> HIDE DEF vlen
      <4>2. s[m] \in Nat /\ s[m] >= b /\ t[m] = c + (s[m] - b)
        BY <1>1, <2>4, <3>2, <4>1
      <4> QED BY <1>6, <4>2
    <3> QED BY <3>3, <3>4
  <2> QED BY <1>1, <2>4, <2>5, <2>6
<1> QED BY <1>7, <1>8

\* If they fit, each varying field has its length and its bytes in the row.
LEMMA VaryingWithin ==
    ASSUME NEW d, NEW b, NEW n, SameBytes(d, b, d, b, n),
           NEW binary, binary.numVarying \in Nat, binary.fixedFieldsSize \in Nat,
           VaryingFit(VaryingStarts(d, b, b + n, binary), b + n, binary),
           NEW j \in 0 .. binary.numVarying - 1
    PROVE  LET at == VaryingStarts(d, b, b + n, binary)[j]
           IN  at \in Nat /\ at >= b /\ (at - b) + 2 <= n
<1> DEFINE s == VaryingStarts(d, b, b + n, binary)
<1>1. b \in Nat /\ n \in Nat
  BY DEF SameBytes
<1>2. j \in 0 .. binary.numVarying /\ j + 1 \in 0 .. binary.numVarying /\ j + 1 # 0 /\ (j + 1) - 1 = j
  OBVIOUS
<1>3. s[j] \in Nat /\ s[j] >= b
  BY <1>2, SameVarying
<1>4. s[j + 1] <= b + n
  BY <1>2 DEF VaryingFit
<1>5. s[j + 1] = VaryingStart(d, b, b + n, binary, s, j + 1)
  <2>1. s = [k \in 0 .. binary.numVarying |-> VaryingStart(d, b, b + n, binary, s, k)]
    BY VaryingDefined
  <2> HIDE DEF s
  <2> QED BY <1>2, <2>1, Zenon
<1> HIDE DEF s
<1>6. s[j] > (b + n) - 2 => s[j + 1] = (b + n) + 1
  BY <1>2, <1>5 DEF VaryingStart
<1>7. (s[j] - b) + 2 <= n
  BY <1>1, <1>3, <1>4, <1>6
<1> QED BY <1>3, <1>7 DEF s

Varying == {NzTypeVarChar, NzTypeVarFixedChar, NzTypeNChar, NzTypeNVarChar}

LEMMA ValueWidths ==
    ASSUME NEW f
    PROVE  /\ f.type = NzTypeInt => ValueWidth(f) = 4
           /\ f.type = NzTypeInt2 => ValueWidth(f) = 2
           /\ f.type = NzTypeInt1 => ValueWidth(f) = 1
           /\ f.type = NzTypeBool => ValueWidth(f) = 1
           /\ f.type = NzTypeChar => ValueWidth(f) = f.size
           /\ f.type \in DOMAIN ConvertedWidth => ValueWidth(f) = ConvertedWidth[f.type]
           /\ f.type = NzTypeNumeric => ValueWidth(f) = 4 * NumericWords(f)
           /\ f.type \notin {NzTypeInt, NzTypeInt2, NzTypeInt1, NzTypeBool, NzTypeChar, NzTypeNumeric}
                 \cup Varying \cup DOMAIN ConvertedWidth => ValueWidth(f) = f.size
           /\ f.type \in {NzTypeInt, NzTypeInt2, NzTypeInt1, NzTypeBool, NzTypeChar, NzTypeNumeric}
                 \cup DOMAIN ConvertedWidth => f.type \notin Varying
<1>1. DOMAIN ConvertedWidth = {2, 4, 6, 8, 9, 10, 11, 20}
  BY DEF ConvertedWidth
<1> DEFINE w == ConvertedWidth[f.type]
           m == 4 * NumericWords(f)
<1>2. ValueWidth(f) = CASE f.type = 3 -> 4
                        [] f.type = 19 -> 2
                        [] f.type \in {13, 12} -> 1
                        [] f.type \in {2, 4, 6, 8, 9, 10, 11, 20} -> w
                        [] f.type = 7 -> m
                        [] OTHER -> f.size
  BY <1>1 DEF ValueWidth, NzTypeInt, NzTypeInt2, NzTypeInt1, NzTypeBool, NzTypeNumeric
<1> HIDE DEF w, m
<1>3. /\ NzTypeInt = 3 /\ NzTypeInt2 = 19 /\ NzTypeInt1 = 13 /\ NzTypeBool = 12 /\ NzTypeChar = 15
      /\ NzTypeNumeric = 7 /\ Varying = {16, 21, 25, 26}
  BY DEF Varying, NzTypeInt, NzTypeInt2, NzTypeInt1, NzTypeBool, NzTypeChar, NzTypeNumeric, NzTypeVarChar,
         NzTypeVarFixedChar, NzTypeNChar, NzTypeNVarChar
<1> QED BY <1>1, <1>2, <1>3 DEF w, m

LEMMA SameField ==
    ASSUME NEW d, NEW b, NEW e, NEW c, NEW n, SameBytes(d, b, e, c, n), NEW i \in Nat, i <= n,
           NEW f, FieldWithin(e, c + i, c + n, f)
    PROVE  FieldValue(d, b + i, f) = FieldValue(e, c + i, f)
<1> DEFINE fixed == {NzTypeInt, NzTypeInt2, NzTypeInt1, NzTypeBool, NzTypeChar, NzTypeNumeric}
           at == b + i
           there == c + i
<1>1. b \in Nat /\ c \in Nat /\ n \in Nat
  BY DEF SameBytes
<1>2. ASSUME f.type \notin Varying PROVE ValueWidth(f) \in Nat /\ i + ValueWidth(f) <= n
  <2> DEFINE w == ValueWidth(f)
  <2>1. w \in 0 .. (c + n) - (c + i)
    BY <1>2 DEF FieldWithin, Varying
  <2> HIDE DEF w
  <2>2. w \in Nat /\ i + w <= n
    BY <1>1, <2>1
  <2> QED BY <2>2 DEF w
<1>3. ASSUME NEW w \in Nat, i + w <= n
      PROVE  Slice(d, at, at + w) = Slice(e, there, there + w)
  <2>1. Slice(d, b + i, b + (i + w)) = Slice(e, c + i, c + (i + w))
    <3>1. i + w \in Nat /\ i <= i + w
      BY <1>3
    <3> QED BY <1>3, <3>1, SameSlice
  <2>2. b + (i + w) = at + w /\ c + (i + w) = there + w
    BY <1>1, <1>3
  <2> QED BY <2>1, <2>2
<1>4. f.type = NzTypeInt => Int32LE(d, at) = Int32LE(e, there)
  <2> SUFFICES ASSUME f.type = NzTypeInt PROVE Int32LE(d, at) = Int32LE(e, there)
    OBVIOUS
  <2>1. i + 4 <= n
    BY <1>2, ValueWidths
  <2> QED BY <2>1, SameInt32
<1>5. f.type = NzTypeInt2 => UInt16LE(d, at) = UInt16LE(e, there)
  <2> SUFFICES ASSUME f.type = NzTypeInt2 PROVE UInt16LE(d, at) = UInt16LE(e, there)
    OBVIOUS
  <2>1. i + 2 <= n
    BY <1>2, ValueWidths
  <2> QED BY <2>1, SameUInt16
<1>6. f.type \in {NzTypeInt1, NzTypeBool} => Byte(d, at) = Byte(e, there)
  <2> SUFFICES ASSUME f.type \in {NzTypeInt1, NzTypeBool} PROVE Byte(d, at) = Byte(e, there)
    OBVIOUS
  <2>1. i + 1 <= n
    BY <1>2, ValueWidths
  <2>2. i < n
    BY <1>1, <2>1
  <2> QED BY <2>2, Zenon DEF SameBytes
<1>7. f.type = NzTypeChar => Slice(d, at, at + f.size) = Slice(e, there, there + f.size)
  <2> SUFFICES ASSUME f.type = NzTypeChar PROVE Slice(d, at, at + f.size) = Slice(e, there, there + f.size)
    OBVIOUS
  <2>1. f.size \in Nat /\ i + f.size <= n
    BY <1>2, ValueWidths
  <2> QED BY <1>3, <2>1
<1>8. f.type \in Varying => /\ Slice(d, at + 2, at + UInt16LE(d, at)) = Slice(e, there + 2, there + UInt16LE(e, there))
  <2> SUFFICES ASSUME f.type \in Varying
               PROVE  Slice(d, at + 2, at + UInt16LE(d, at)) = Slice(e, there + 2, there + UInt16LE(e, there))
    OBVIOUS
  <2> DEFINE v == UInt16LE(e, there)
  <2>1. there + 2 <= c + n /\ v \in 2 .. (c + n) - there
    BY DEF FieldWithin, Varying
  <2>2. i + 2 <= n
    BY <1>1, <2>1
  <2>3. UInt16LE(d, at) = v /\ UInt16LE(d, at) \in Nat
    BY <2>2, SameUInt16
  <2> HIDE DEF v
  <2>4. v \in Nat /\ i + 2 \in Nat /\ i + v \in Nat /\ i + 2 <= i + v /\ i + v <= n
    BY <1>1, <2>1, <2>3
  <2>5. Slice(d, b + (i + 2), b + (i + v)) = Slice(e, c + (i + 2), c + (i + v))
    BY <2>4, SameSlice
  <2>6. b + (i + 2) = at + 2 /\ b + (i + v) = at + v /\ c + (i + 2) = there + 2 /\ c + (i + v) = there + v
    BY <1>1, <2>4
  <2>7. Slice(d, at + 2, at + v) = Slice(e, there + 2, there + v)
    BY <2>5, <2>6
  <2> HIDE DEF at, there
  <2> QED BY <2>3, <2>7 DEF v
<1>9. f.type \in DOMAIN ConvertedWidth =>
        Slice(d, at, at + ConvertedWidth[f.type]) = Slice(e, there, there + ConvertedWidth[f.type])
  <2> SUFFICES ASSUME f.type \in DOMAIN ConvertedWidth
               PROVE  Slice(d, at, at + ConvertedWidth[f.type]) = Slice(e, there, there + ConvertedWidth[f.type])
    OBVIOUS
  <2>1. ConvertedWidth[f.type] \in Nat /\ i + ConvertedWidth[f.type] <= n
    BY <1>2, ValueWidths
  <2> QED BY <1>3, <2>1
<1>10. f.type = NzTypeNumeric =>
        Slice(d, at, at + (4 * NumericWords(f))) = Slice(e, there, there + (4 * NumericWords(f)))
  <2> SUFFICES ASSUME f.type = NzTypeNumeric
               PROVE  Slice(d, at, at + (4 * NumericWords(f))) = Slice(e, there, there + (4 * NumericWords(f)))
    OBVIOUS
  <2> DEFINE w == 4 * NumericWords(f)
  <2>1. w \in Nat /\ i + w <= n
    BY <1>2, ValueWidths
  <2> HIDE DEF w
  <2>2. Slice(d, at, at + w) = Slice(e, there, there + w)
    BY <1>3, <2>1
  <2> QED BY <2>2 DEF w
<1>11. f.type \notin fixed \cup Varying \cup DOMAIN ConvertedWidth =>
        Slice(d, at, at + f.size) = Slice(e, there, there + f.size)
  <2> SUFFICES ASSUME f.type \notin fixed \cup Varying \cup DOMAIN ConvertedWidth
               PROVE  Slice(d, at, at + f.size) = Slice(e, there, there + f.size)
    OBVIOUS
  <2>1. f.size \in Nat /\ i + f.size <= n
    BY <1>2, ValueWidths
  <2> QED BY <1>3, <2>1
<1> HIDE DEF at, there
<1>12. FieldValue(d, at, f) = FieldValue(e, there, f)
  BY <1>4, <1>5, <1>6, <1>7, <1>8, <1>9, <1>10, <1>11 DEF FieldValue, Varying
<1> QED BY <1>12 DEF at, there

\* The numbers of a layout are numbers.
LayoutTyped(binary) ==
    /\ binary.numVarying \in Int /\ binary.fixedFieldsSize \in Int
    /\ \A i \in DOMAIN binary.fields :
        /\ binary.fields[i].offset \in Int
        /\ binary.fields[i].fixedSize \in Int
        /\ binary.fields[i].nullByte \in Int

LEMMA SameNull ==
    ASSUME NEW d, NEW b, NEW e, NEW c, NEW n, SameBytes(d, b, e, c, n), NEW binary, NEW f,
           binary.nullsAllowed => f.nullByte \in Nat /\ f.nullByte < n
    PROVE  IsNull(d, b, binary, f) <=> IsNull(e, c, binary, f)
<1>1. binary.nullsAllowed => Byte(d, b + f.nullByte) = Byte(e, c + f.nullByte)
  BY Zenon DEF SameBytes
<1> QED BY <1>1, Zenon DEF IsNull

LEMMA SameStart ==
    ASSUME NEW d, NEW b, NEW e, NEW c, NEW n, SameBytes(d, b, e, c, n),
           NEW binary, LayoutTyped(binary), NEW k \in DOMAIN binary.fields,
           binary.fields[k].fixedSize = 0 /\ binary.numVarying > 0 =>
             binary.fields[k].offset \in 0 .. binary.numVarying - 1 /\ binary.fixedFieldsSize >= 0
    PROVE  LET start == FieldStart(b, binary, VaryingStarts(d, b, b + n, binary), binary.fields[k])
               there == FieldStart(c, binary, VaryingStarts(e, c, c + n, binary), binary.fields[k])
           IN  there \in Int /\ start = b + (there - c)
<1> DEFINE f == binary.fields[k]
           s == VaryingStarts(d, b, b + n, binary)
           t == VaryingStarts(e, c, c + n, binary)
           fixed == binary.fixedFieldsSize
<1>1. b \in Nat /\ c \in Nat /\ n \in Nat
  BY DEF SameBytes
<1>2. f.offset \in Int /\ f.fixedSize \in Int /\ fixed \in Int /\ binary.numVarying \in Int
  BY DEF LayoutTyped
<1>3. CASE f.fixedSize # 0
  <2>1. FieldStart(b, binary, s, f) = b + f.offset /\ FieldStart(c, binary, t, f) = c + f.offset
    BY <1>3 DEF FieldStart
  <2> HIDE DEF f, s, t
  <2>2. c + f.offset \in Int /\ b + f.offset = b + ((c + f.offset) - c)
    BY <1>1, <1>2
  <2> QED BY <2>1, <2>2 DEF f, s, t
<1>4. CASE f.fixedSize = 0 /\ binary.numVarying > 0
  <2> DEFINE j == f.offset
  <2>1. j \in 0 .. binary.numVarying - 1 /\ fixed >= 0
    BY <1>4
  <2>2. FieldStart(b, binary, s, f) = s[j] /\ FieldStart(c, binary, t, f) = t[j]
    BY <1>4 DEF FieldStart
  <2>3. j \in 0 .. binary.numVarying /\ binary.numVarying \in Nat /\ fixed \in Nat
    BY <1>2, <1>4, <2>1
  <2>4. s[j] \in Nat /\ s[j] >= b /\ t[j] = c + (s[j] - b)
    BY <2>3, SameVarying
  <2> HIDE DEF f, s, t, j
  <2>5. t[j] \in Int /\ s[j] = b + (t[j] - c)
    BY <1>1, <2>4
  <2> QED BY <2>2, <2>5 DEF f, s, t
<1>5. CASE f.fixedSize = 0 /\ ~(binary.numVarying > 0)
  <2>1. FieldStart(b, binary, s, f) = b + fixed /\ FieldStart(c, binary, t, f) = c + fixed
    BY <1>5 DEF FieldStart
  <2> HIDE DEF f, s, t, fixed
  <2>2. c + fixed \in Int /\ b + fixed = b + ((c + fixed) - c)
    BY <1>1, <1>2
  <2> QED BY <2>1, <2>2 DEF f, s, t
<1> QED BY <1>3, <1>4, <1>5

LEMMA SameFits ==
    ASSUME NEW d, NEW b, NEW e, NEW c, NEW n, SameBytes(d, b, e, c, n), SameBytes(d, b, d, b, n),
           NEW binary, LayoutTyped(binary), NEW k \in DOMAIN binary.fields,
           binary.numVarying > 0 =>
             /\ binary.fixedFieldsSize >= 0
             /\ VaryingFit(VaryingStarts(d, b, b + n, binary), b + n, binary)
    PROVE  FieldFits(d, b, b + n, binary, VaryingStarts(d, b, b + n, binary), binary.fields[k])
             <=> FieldFits(e, c, c + n, binary, VaryingStarts(e, c, c + n, binary), binary.fields[k])
<1> DEFINE f == binary.fields[k]
           s == VaryingStarts(d, b, b + n, binary)
           t == VaryingStarts(e, c, c + n, binary)
           fixed == binary.fixedFieldsSize
           j == f.offset
           nullD == IsNull(d, b, binary, f)
           nullE == IsNull(e, c, binary, f)
           many == binary.numVarying
           lenD == UInt16LE(d, s[j])
           lenE == UInt16LE(e, t[j])
<1>1. b \in Nat /\ c \in Nat /\ n \in Nat
  BY DEF SameBytes
<1>2. j \in Int /\ f.fixedSize \in Int /\ f.nullByte \in Int /\ fixed \in Int /\ many \in Int
  BY DEF LayoutTyped
<1>3. /\ b + f.nullByte < b + n /\ f.nullByte >= 0 <=> f.nullByte \in Nat /\ f.nullByte < n
      /\ c + f.nullByte < c + n /\ f.nullByte >= 0 <=> f.nullByte \in Nat /\ f.nullByte < n
  <2> HIDE DEF f
  <2> QED BY <1>1, <1>2
<1>4. (binary.nullsAllowed => f.nullByte \in Nat /\ f.nullByte < n) => (nullD <=> nullE)
  BY SameNull
<1>5. b + j + f.fixedSize <= b + n <=> c + j + f.fixedSize <= c + n
  <2> HIDE DEF f
  <2> QED BY <1>1, <1>2 
<1>6. b + fixed <= b + n <=> c + fixed <= c + n
  <2> HIDE DEF fixed
  <2> QED BY <1>1, <1>2
<1>7. ASSUME many > 0, j \in 0 .. many - 1
      PROVE  lenD = lenE /\ (s[j] + lenD <= b + n <=> t[j] + lenE <= c + n)
  <2>1. many \in Nat /\ fixed \in Nat /\ j \in 0 .. many
    BY <1>2, <1>7
  <2>2. s[j] \in Nat /\ s[j] >= b /\ t[j] = c + (s[j] - b)
    BY <2>1, SameVarying
  <2>3. (s[j] - b) + 2 <= n
    BY <1>7, <2>1, VaryingWithin
  <2> DEFINE i == s[j] - b
  <2> HIDE DEF s, t
  <2>4. i \in Nat /\ i + 2 <= n /\ s[j] = b + i /\ t[j] = c + i
    BY <1>1, <2>2, <2>3
  <2> HIDE DEF i
  <2>5. lenD = lenE /\ lenD \in Nat
    BY <2>4, SameUInt16
  <2> HIDE DEF lenD, lenE
  <2>6. s[j] + lenD <= b + n <=> t[j] + lenE <= c + n
    BY <1>1, <2>4, <2>5
  <2> QED BY <2>5, <2>6
<1>8. FieldFits(d, b, b + n, binary, s, f) <=>
        /\ binary.nullsAllowed => b + f.nullByte < b + n /\ f.nullByte >= 0
        /\ \/ nullD
           \/ f.fixedSize > 0 /\ j >= 0 /\ b + j + f.fixedSize <= b + n
           \/ f.fixedSize = 0 /\ many > 0 /\ j \in 0 .. many - 1 /\ lenD >= 2 /\ s[j] + lenD <= b + n
           \/ f.fixedSize = 0 /\ many <= 0 /\ fixed >= 0 /\ b + fixed <= b + n
  BY DEF FieldFits
<1>9. FieldFits(e, c, c + n, binary, t, f) <=>
        /\ binary.nullsAllowed => c + f.nullByte < c + n /\ f.nullByte >= 0
        /\ \/ nullE
           \/ f.fixedSize > 0 /\ j >= 0 /\ c + j + f.fixedSize <= c + n
           \/ f.fixedSize = 0 /\ many > 0 /\ j \in 0 .. many - 1 /\ lenE >= 2 /\ t[j] + lenE <= c + n
           \/ f.fixedSize = 0 /\ many <= 0 /\ fixed >= 0 /\ c + fixed <= c + n
  BY DEF FieldFits
<1> HIDE DEF f, s, t, fixed, j, nullD, nullE, many, lenD, lenE
<1>10. FieldFits(d, b, b + n, binary, s, f) <=> FieldFits(e, c, c + n, binary, t, f)
  BY <1>3, <1>4, <1>5, <1>6, <1>7, <1>8, <1>9, ZenonT(60)
<1> QED BY <1>10 DEF f, s, t

LEMMA SameRead ==
    ASSUME NEW d, NEW b, NEW e, NEW c, NEW n, SameBytes(d, b, e, c, n),
           NEW binary, LayoutTyped(binary), RowWithin(e, c, c + n, binary),
           \A k \in DOMAIN binary.fields :
             /\ binary.nullsAllowed => binary.fields[k].nullByte \in Nat /\ binary.fields[k].nullByte < n
             /\ \/ IsNull(e, c, binary, binary.fields[k])
                \/ binary.fields[k].fixedSize = 0 /\ binary.numVarying > 0 =>
                     binary.fields[k].offset \in 0 .. binary.numVarying - 1 /\ binary.fixedFieldsSize >= 0
    PROVE  ReadFields(d, b, binary, VaryingStarts(d, b, b + n, binary))
             = ReadFields(e, c, binary, VaryingStarts(e, c, c + n, binary))
<1> DEFINE s == VaryingStarts(d, b, b + n, binary)
           t == VaryingStarts(e, c, c + n, binary)
           V(data, base, starts, k) ==
             IF IsNull(data, base, binary, binary.fields[k]) THEN Null
             ELSE BinaryField(binary, k, data, FieldStart(base, binary, starts, binary.fields[k]))
<1>1. b \in Nat /\ c \in Nat /\ n \in Nat
  BY DEF SameBytes
<1>2. ASSUME NEW k \in DOMAIN binary.fields PROVE V(d, b, s, k) = V(e, c, t, k)
  <2> DEFINE f == binary.fields[k]
             start == FieldStart(b, binary, s, f)
             there == FieldStart(c, binary, t, f)
             i == there - c
  <2>1. IsNull(d, b, binary, f) <=> IsNull(e, c, binary, f)
    BY SameNull
  <2>2. ASSUME ~IsNull(e, c, binary, f) PROVE FieldValue(d, start, f) = FieldValue(e, there, f)
    <3>1. there \in Int /\ start = b + (there - c)
      <4>1. f.fixedSize = 0 /\ binary.numVarying > 0 => f.offset \in 0 .. binary.numVarying - 1 /\ binary.fixedFieldsSize >= 0
        BY <2>2
      <4> QED BY <4>1, SameStart
    <3>2. there \in c .. c + n /\ FieldWithin(e, there, c + n, f)
      BY <2>2 DEF RowWithin
    <3> HIDE DEF there, start
    <3>3. i \in Nat /\ i <= n /\ there = c + i /\ start = b + i
      BY <1>1, <3>1, <3>2
    <3> HIDE DEF i
    <3> QED BY <3>2, <3>3, SameField
  <2> QED BY <2>1, <2>2, Zenon DEF BinaryField
<1>3. ReadFields(d, b, binary, s) = [ok |-> TRUE, row |-> [k \in DOMAIN binary.fields |-> V(d, b, s, k)]]
  BY DEF ReadFields
<1>4. ReadFields(e, c, binary, t) = [ok |-> TRUE, row |-> [k \in DOMAIN binary.fields |-> V(e, c, t, k)]]
  BY DEF ReadFields
<1> HIDE DEF V, s, t
<1>5. [k \in DOMAIN binary.fields |-> V(d, b, s, k)] = [k \in DOMAIN binary.fields |-> V(e, c, t, k)]
  BY <1>2, Zenon
<1>6. ReadFields(d, b, binary, s) = ReadFields(e, c, binary, t)
  BY <1>3, <1>4, <1>5, Zenon
<1> QED BY <1>6 DEF s, t

LEMMA SameItself ==
    ASSUME NEW d, NEW b, NEW e, NEW c, NEW n, SameBytes(d, b, e, c, n)
    PROVE  SameBytes(d, b, d, b, n) /\ SameBytes(e, c, e, c, n)
BY Zenon DEF SameBytes

LEMMA SameFit ==
    ASSUME NEW d, NEW b, NEW e, NEW c, NEW n, SameBytes(d, b, e, c, n),
           NEW binary, binary.numVarying \in Nat, binary.fixedFieldsSize \in Nat
    PROVE  VaryingFit(VaryingStarts(d, b, b + n, binary), b + n, binary)
             <=> VaryingFit(VaryingStarts(e, c, c + n, binary), c + n, binary)
<1> DEFINE s == VaryingStarts(d, b, b + n, binary)
           t == VaryingStarts(e, c, c + n, binary)
<1>1. b \in Nat /\ c \in Nat /\ n \in Nat
  BY DEF SameBytes
<1>2. \A j \in 0 .. binary.numVarying : s[j] \in Nat /\ s[j] >= b /\ t[j] = c + (s[j] - b)
  BY SameVarying
<1> HIDE DEF s, t
<1>3. ASSUME NEW j \in 0 .. binary.numVarying PROVE s[j] <= b + n <=> t[j] <= c + n
  <2>1. s[j] \in Nat /\ t[j] = c + (s[j] - b)
    BY <1>2
  <2> QED BY <1>1, <2>1
<1> QED BY <1>3, Zenon DEF VaryingFit, s, t

LEMMA SameChecked ==
    ASSUME NEW d, NEW b, NEW e, NEW c, NEW n, SameBytes(d, b, e, c, n),
           NEW binary, LayoutTyped(binary),
           ParseDbosRowChecked(e, c, c + n, binary).ok => RowWithin(e, c, c + n, binary)
    PROVE  ParseDbosRowChecked(d, b, b + n, binary) = ParseDbosRowChecked(e, c, c + n, binary)
<1> DEFINE s == VaryingStarts(d, b, b + n, binary)
           t == VaryingStarts(e, c, c + n, binary)
           fixed == binary.fixedFieldsSize
           many == binary.numVarying
           Fits(k) == FieldFits(e, c, c + n, binary, t, binary.fields[k])
           FitsD(k) == FieldFits(d, b, b + n, binary, s, binary.fields[k])
           refused == many > 0 /\ (fixed < 0 \/ ~VaryingFit(t, c + n, binary))
           refusedD == many > 0 /\ (fixed < 0 \/ ~VaryingFit(s, b + n, binary))
           read == ReadFields(e, c, binary, t)
           readD == ReadFields(d, b, binary, s)
<1>1. b \in Nat /\ c \in Nat /\ n \in Nat /\ fixed \in Int /\ many \in Int
      /\ SameBytes(d, b, d, b, n)
  BY SameItself DEF SameBytes, LayoutTyped
<1>2. refusedD <=> refused
  <2>1. many > 0 /\ ~(fixed < 0) => many \in Nat /\ fixed \in Nat
    BY <1>1
  <2> QED BY <2>1, SameFit, Zenon
<1>3. ASSUME ~refused, NEW k \in DOMAIN binary.fields PROVE FitsD(k) <=> Fits(k)
  <2>1. many > 0 => fixed >= 0 /\ VaryingFit(s, b + n, binary)
    <3>1. many > 0 => ~(fixed < 0) /\ VaryingFit(s, b + n, binary)
      BY <1>2, <1>3
    <3> QED BY <1>1, <3>1
  <2> QED BY <1>1, <2>1, SameFits
<1>4. ASSUME ~refused, \A k \in DOMAIN binary.fields : Fits(k) PROVE readD = read
  <2>1. ParseDbosRowChecked(e, c, c + n, binary) = read
    BY <1>4 DEF ParseDbosRowChecked
  <2>2. RowWithin(e, c, c + n, binary)
    <3>1. read.ok
      BY DEF ReadFields
    <3> QED BY <2>1, <3>1
  <2>3. ASSUME NEW k \in DOMAIN binary.fields
        PROVE  LET f == binary.fields[k]
               IN  /\ binary.nullsAllowed => f.nullByte \in Nat /\ f.nullByte < n
                   /\ \/ IsNull(e, c, binary, f)
                      \/ f.fixedSize = 0 /\ many > 0 => f.offset \in 0 .. many - 1 /\ fixed >= 0
    <3> DEFINE f == binary.fields[k]
    <3>1. Fits(k) /\ f.nullByte \in Int /\ f.fixedSize \in Int
      BY <1>4 DEF LayoutTyped
    <3>2. binary.nullsAllowed => c + f.nullByte < c + n /\ f.nullByte >= 0
      BY <3>1 DEF FieldFits
    <3>3. IsNull(e, c, binary, f) \/ (f.fixedSize = 0 /\ many > 0 => f.offset \in 0 .. many - 1)
      BY <1>1, <3>1 DEF FieldFits
    <3>4. many > 0 => fixed >= 0
      <4>1. many > 0 => ~(fixed < 0)
        BY <1>4
      <4> QED BY <1>1, <4>1
    <3>5. c + f.nullByte < c + n /\ f.nullByte >= 0 => f.nullByte \in Nat /\ f.nullByte < n
      <4> HIDE DEF f
      <4> QED BY <1>1, <3>1
    <3> HIDE DEF f
    <3> QED BY <3>2, <3>3, <3>4, <3>5 DEF f
  <2> QED BY <2>2, <2>3, SameRead
<1>5. ParseDbosRowChecked(e, c, c + n, binary) =
        IF refused THEN Malformed ELSE IF \A k \in DOMAIN binary.fields : Fits(k) THEN read ELSE Malformed
  BY DEF ParseDbosRowChecked
<1>6. ParseDbosRowChecked(d, b, b + n, binary) =
        IF refusedD THEN Malformed ELSE IF \A k \in DOMAIN binary.fields : FitsD(k) THEN readD ELSE Malformed
  BY DEF ParseDbosRowChecked
<1> HIDE DEF refused, refusedD, Fits, FitsD, read, readD
<1>7. CASE refused
  BY <1>2, <1>5, <1>6, <1>7
<1>8. CASE ~refused
  <2>1. (\A k \in DOMAIN binary.fields : Fits(k)) <=> (\A k \in DOMAIN binary.fields : FitsD(k))
    BY <1>3, <1>8
  <2> QED BY <1>2, <1>4, <1>5, <1>6, <1>8, <2>1
<1> QED BY <1>7, <1>8

\* A row that is decoded where it lies in the buffer is the row its bytes are.
LEMMA SameRow ==
    ASSUME NEW d, NEW b, NEW e, NEW c, NEW n, SameBytes(d, b, e, c, n),
           NEW binary, LayoutTyped(binary),
           ParseDbosRowInPlace(e, c, c + n, binary).ok => RowWithin(e, c, c + n, binary)
    PROVE  ParseDbosRowInPlace(d, b, b + n, binary) = ParseDbosRowInPlace(e, c, c + n, binary)
<1> DEFINE s == VaryingStarts(d, b, b + n, binary)
           t == VaryingStarts(e, c, c + n, binary)
           fixed == binary.fixedFieldsSize
           many == binary.numVarying
           ends == FixedAreaEnds(binary)
           slow == \/ ~Regular(binary) \/ \E x \in ends : c + x > c + n
                   \/ many > 0 /\ ~VaryingFit(t, c + n, binary)
           slowD == \/ ~Regular(binary) \/ \E x \in ends : b + x > b + n
                    \/ many > 0 /\ ~VaryingFit(s, b + n, binary)
           read == ReadFields(e, c, binary, t)
           readD == ReadFields(d, b, binary, s)
           checked == ParseDbosRowChecked(e, c, c + n, binary)
           checkedD == ParseDbosRowChecked(d, b, b + n, binary)
<1>1. /\ b \in Nat /\ c \in Nat /\ n \in Nat /\ fixed \in Int /\ many \in Int
      /\ ~(b + n > Len(d)) /\ ~(c + n > Len(e))
  BY DEF SameBytes, LayoutTyped
<1>2. ends \subseteq Int
  BY <1>1 DEF FixedAreaEnds, LayoutTyped
<1>3. ParseDbosRowInPlace(e, c, c + n, binary) = IF slow THEN checked ELSE read
  <2>1. ParseDbosRowInPlace(e, c, c + n, binary) =
          IF ~Regular(binary) \/ c + n > Len(e) \/ (\E x \in ends : c + x > c + n)
             \/ (many > 0 /\ ~VaryingFit(t, c + n, binary)) THEN checked ELSE read
    BY Zenon DEF ParseDbosRowInPlace
  <2> HIDE DEF checked, read, ends, many, t
  <2> QED BY <1>1, <2>1, Zenon
<1>4. ParseDbosRowInPlace(d, b, b + n, binary) = IF slowD THEN checkedD ELSE readD
  <2>1. ParseDbosRowInPlace(d, b, b + n, binary) =
          IF ~Regular(binary) \/ b + n > Len(d) \/ (\E x \in ends : b + x > b + n)
             \/ (many > 0 /\ ~VaryingFit(s, b + n, binary)) THEN checkedD ELSE readD
    BY Zenon DEF ParseDbosRowInPlace
  <2> HIDE DEF checkedD, readD, ends, many, s
  <2> QED BY <1>1, <2>1, Zenon
<1>5. slowD <=> slow
  <2>1. \A x \in ends : b + x > b + n <=> c + x > c + n
    <3> HIDE DEF ends
    <3> QED BY <1>1, <1>2
  <2>2. Regular(binary) => many \in Nat /\ fixed \in Nat
    BY <1>1 DEF Regular
  <2>3. Regular(binary) => (VaryingFit(s, b + n, binary) <=> VaryingFit(t, c + n, binary))
    BY <2>2, SameFit
  <2> HIDE DEF ends, s, t, many
  <2> QED BY <2>1, <2>3, Zenon
<1>6. ASSUME slow PROVE checkedD = checked
  <2>1. checked.ok => RowWithin(e, c, c + n, binary)
    <3>1. ParseDbosRowInPlace(e, c, c + n, binary) = checked
      BY <1>3, <1>6
    <3> QED BY <3>1
  <2> QED BY <2>1, SameChecked
<1>7. ASSUME ~slow PROVE readD = read
  <2>1. RowWithin(e, c, c + n, binary)
    <3>1. ParseDbosRowInPlace(e, c, c + n, binary) = read
      BY <1>3, <1>7
    <3>2. read.ok
      BY DEF ReadFields
    <3> QED BY <3>1, <3>2
  <2>2. Regular(binary) /\ \A x \in ends : ~(c + x > c + n)
    BY <1>7
  <2>3. ASSUME NEW k \in DOMAIN binary.fields
        PROVE  LET f == binary.fields[k]
               IN  /\ binary.nullsAllowed => f.nullByte \in Nat /\ f.nullByte < n
                   /\ \/ IsNull(e, c, binary, f)
                      \/ f.fixedSize = 0 /\ many > 0 => f.offset \in 0 .. many - 1 /\ fixed >= 0
    <3> DEFINE f == binary.fields[k]
    <3>1. f.nullByte \in Int
      BY DEF LayoutTyped
    <3>2. binary.nullsAllowed => f.nullByte >= 0 /\ f.nullByte + 1 \in ends
      BY <2>2 DEF Regular, FixedAreaEnds
    <3>3. f.fixedSize = 0 /\ many > 0 => f.offset \in 0 .. many - 1 /\ fixed >= 0
      BY <2>2 DEF Regular
    <3>4. binary.nullsAllowed => ~(c + (f.nullByte + 1) > c + n) /\ f.nullByte >= 0
      BY <2>2, <3>2
    <3>5. ~(c + (f.nullByte + 1) > c + n) /\ f.nullByte >= 0 => f.nullByte \in Nat /\ f.nullByte < n
      <4> HIDE DEF f
      <4> QED BY <1>1, <3>1
    <3> HIDE DEF f
    <3> QED BY <3>3, <3>4, <3>5 DEF f
  <2> QED BY <2>1, <2>3, SameRead
<1> HIDE DEF slow, slowD, checked, checkedD, read, readD
<1> QED BY <1>3, <1>4, <1>5, <1>6, <1>7

-----------------------------------------------------------------------------
(* What the frames of the response tell                                      *)

\* A descriptor that is accepted has the fields the reading of a row needs.
LEMMA DescribedLayout ==
    ASSUME NEW d \in Seq(Octets), NEW columns, ParseDescriptor(d, columns).ok
    PROVE  LayoutTyped(ParseDescriptor(d, columns))
<1> DEFINE count == Int32BE(d, 32)
           oid(i) == IF columns.ok /\ i <= Len(columns.oids) THEN columns.oids[i] ELSE 0
           fields == [i \in 1 .. count |-> ParseField(d, 36 * i, oid(i))]
           varying == Int32BE(d, 20)
           fixed == Int32BE(d, 24)
           nulls == Int32BE(d, 4) # 0
           parsed == [ok |-> TRUE, nullsAllowed |-> nulls, numVarying |-> varying,
                      fixedFieldsSize |-> fixed, fields |-> fields]
           refused == Len(d) < 36 \/ count < 0 \/ count > MaxFields \/ Len(d) < 36 + count * 36 + 8
<1>1. ParseDescriptor(d, columns) = IF refused THEN Malformed ELSE parsed
  BY DEF ParseDescriptor
<1>2. ~refused
  <2>1. ~Malformed.ok
    BY DEF Malformed
  <2> HIDE DEF parsed, refused
  <2> QED BY <1>1, <2>1
<1>3. Len(d) \in Nat /\ 36 <= Len(d)
  BY <1>2
<1>4. varying \in Int /\ fixed \in Int /\ count \in Int
  BY <1>3, Int32BETyped
<1> HIDE DEF count
<1>5. ASSUME NEW i \in 1 .. count
      PROVE  LET f == ParseField(d, 36 * i, oid(i))
             IN  f.offset \in Int /\ f.fixedSize \in Int /\ f.nullByte \in Int
  <2> DEFINE at == 36 * i
             word(k) == Int32BE(d, at + (4 * k))
             f == ParseField(d, at, oid(i))
  <2>1. at \in Nat /\ at + 36 <= Len(d)
    BY <1>2, <1>3, <1>4
  <2> HIDE DEF at
  <2>2. /\ at + (4 * 3) \in Nat /\ at + (4 * 3) + 4 <= Len(d)
        /\ at + (4 * 4) \in Nat /\ at + (4 * 4) + 4 <= Len(d)
        /\ at + (4 * 7) \in Nat /\ at + (4 * 7) + 4 <= Len(d)
    BY <1>3, <2>1
  <2>3. word(3) \in Int /\ word(4) \in Int /\ word(7) \in Int
    BY <2>2, Int32BETyped
  <2>4. f.offset = word(3) /\ f.fixedSize = word(7) /\ f.nullByte = 2 + (word(4) \div 8)
    BY DEF ParseField
  <2> HIDE DEF word, f
  <2>5. f.offset \in Int /\ f.fixedSize \in Int /\ f.nullByte \in Int
    BY <2>3, <2>4
  <2> QED BY <2>5 DEF f, at
<1> HIDE DEF oid, varying, fixed, nulls
<1>6. /\ parsed.numVarying = varying /\ parsed.fixedFieldsSize = fixed /\ parsed.fields = fields
      /\ DOMAIN parsed.fields = 1 .. count
      /\ \A i \in 1 .. count : parsed.fields[i] = ParseField(d, 36 * i, oid(i))
  BY Zenon
<1> HIDE DEF parsed
<1>7. LayoutTyped(parsed)
  BY <1>4, <1>5, <1>6 DEF LayoutTyped
<1> QED BY <1>1, <1>2, <1>7, Zenon

\* What Tells says of the frames of the response.
LEMMA FrameTells ==
    ASSUME response \in Responses, NEW start \in Starts
    PROVE  LET type == Byte(Sent, start)
               known == Known(response, start)
               base == start + HeaderSize(type)
               end == start + FrameSize(Sent, start)
               columns == ParseRowDescription(Slice(Sent, base, end))
               binary == ParseDescriptor(Slice(Sent, base, end), known.description)
               isRow == type \in {CodeD, CodeY}
               row == RowOf(type, Sent, base, end, known.description, known.layout)
               sound == /\ HeaderSize(type) > 5 => PayloadLength(Sent, start) >= 0
                        /\ type = CodeT => columns.ok
                        /\ type = CodeX => binary.ok
                        /\ isRow => row.ok
               more == Known(response, end)
           IN  /\ HeaderSize(type) > 5 => PayloadLength(Sent, start) <= MaxPayload
               /\ type = CodeY => known.layout.ok
               /\ type \in Ready \/ ~sound => known.rows = Len(response.rows)
               /\ type \notin Ready /\ sound =>
                    /\ isRow => known.rows < Len(response.rows) /\ response.rows[known.rows + 1] = row.row
                    /\ type = CodeY => RowWithin(Sent, base, end, known.layout)
                    /\ more.description = IF type = CodeT THEN columns ELSE known.description
                    /\ more.layout = IF type = CodeX THEN binary ELSE known.layout
                    /\ more.rows = IF isRow THEN known.rows + 1 ELSE known.rows
<1>1. RowsTold(response)
  BY ResponsesAssumption
<1>2. start \in ({0} \cup response.ends) \ {response.finish}
  BY DEF Starts, Boundaries
<1>3. Tells(response, start)
  BY <1>1, <1>2 DEF RowsTold
<1> DEFINE type == Byte(Sent, start)
           known == Known(response, start)
           base == start + HeaderSize(type)
           end == start + FrameSize(Sent, start)
           columns == ParseRowDescription(Slice(Sent, base, end))
           binary == ParseDescriptor(Slice(Sent, base, end), known.description)
           isRow == type \in {CodeD, CodeY}
           row == RowOf(type, Sent, base, end, known.description, known.layout)
           sound == /\ HeaderSize(type) > 5 => PayloadLength(Sent, start) >= 0
                    /\ type = CodeT => columns.ok
                    /\ type = CodeX => binary.ok
                    /\ isRow => row.ok
           more == Known(response, end)
           told == [description |-> IF type = CodeT THEN columns ELSE known.description,
                    layout |-> IF type = CodeX THEN binary ELSE known.layout,
                    rows |-> IF isRow THEN known.rows + 1 ELSE known.rows]
<1>4. /\ HeaderSize(type) > 5 => PayloadLength(Sent, start) <= MaxPayload
      /\ type = CodeY => known.layout.ok
      /\ IF type \in Ready \/ ~sound THEN known.rows = Len(response.rows)
         ELSE /\ isRow => known.rows < Len(response.rows) /\ response.rows[known.rows + 1] = row.row
              /\ type = CodeY => RowWithin(Sent, base, end, known.layout)
              /\ more = told
  BY <1>3, Zenon DEF Tells, Sent
<1>5. /\ told.description = IF type = CodeT THEN columns ELSE known.description
      /\ told.layout = IF type = CodeX THEN binary ELSE known.layout
      /\ told.rows = IF isRow THEN known.rows + 1 ELSE known.rows
  BY Zenon
<1> HIDE DEF type, known, base, end, columns, binary, isRow, row, sound, more, told
<1>6. /\ HeaderSize(type) > 5 => PayloadLength(Sent, start) <= MaxPayload
      /\ type = CodeY => known.layout.ok
      /\ type \in Ready \/ ~sound => known.rows = Len(response.rows)
      /\ type \notin Ready /\ sound =>
           /\ isRow => known.rows < Len(response.rows) /\ response.rows[known.rows + 1] = row.row
           /\ type = CodeY => RowWithin(Sent, base, end, known.layout)
           /\ more.description = IF type = CodeT THEN columns ELSE known.description
           /\ more.layout = IF type = CodeX THEN binary ELSE known.layout
           /\ more.rows = IF isRow THEN known.rows + 1 ELSE known.rows
  BY <1>4, <1>5, Zenon
<1> QED BY <1>6, Zenon DEF type, known, base, end, columns, binary, isRow, row, sound, more

\* What the frames before an offset have told is what the generator knows.
Knows(at) ==
    /\ Known(response, at).description = description
    /\ Known(response, at).layout = layout
    /\ Known(response, at).rows \in 0 .. Len(response.rows)

\* The frame at this offset is decoded to the next row of the response, or there
\* is no other row.
IsNext(start, row) ==
    LET known == Known(response, start)
        more == Known(response, start + FrameSize(Sent, start))
    IN  /\ ~row.ok => known.rows = Len(response.rows)
        /\ row.ok => /\ known.rows < Len(response.rows) /\ response.rows[known.rows + 1] = row.row
                     /\ more.description = description /\ more.layout = layout
                     /\ more.rows = known.rows + 1

\* A row that is decoded from the bytes of its frame, wherever they are, is the
\* next one of the response, and there is one; or else there is none.
LEMMA RowSent ==
    ASSUME response \in Responses, NEW start \in Starts, NEW code \in {CodeD, CodeY},
           Byte(Sent, start) = code, NEW n \in Nat, PayloadLength(Sent, start) = n,
           NEW data, NEW at, SameBytes(data, at, Sent, start + HeaderSize(code), n),
           Knows(start), layout.ok => LayoutTyped(layout)
    PROVE  IsNext(start, RowAt(code, data, at, at + n)) /\ n <= MaxPayload
<1> DEFINE known == Known(response, start)
           base == start + HeaderSize(code)
           end == start + FrameSize(Sent, start)
           row == RowOf(code, data, at, at + n, description, layout)
           sent == RowOf(code, Sent, base, end, description, layout)
           more == Known(response, end)
<1>0. description = known.description /\ layout = known.layout
  BY DEF Knows
<1>1. /\ HeaderSize(code) \in {9, 13} /\ HeaderSize(code) > 5 /\ code \notin Ready
      /\ code # CodeT /\ code # CodeX
  BY HeaderSizes DEF CodeD, CodeY, CodeT, CodeX, Ready
<1>2. start \in Nat /\ end = base + n /\ base \in Nat
  <2>1. start \in Nat /\ FrameSize(Sent, start) = HeaderSize(code) + n
    BY <1>1, FrameEnds
  <2> QED BY <1>1, <2>1
<1>3. /\ n <= MaxPayload
      /\ code = CodeY => layout.ok
      /\ ~sent.ok => known.rows = Len(response.rows)
      /\ sent.ok => /\ known.rows < Len(response.rows) /\ response.rows[known.rows + 1] = sent.row
                    /\ code = CodeY => RowWithin(Sent, base, end, layout)
                    /\ more.description = description /\ more.layout = layout
                    /\ more.rows = known.rows + 1
  <2>1. n >= 0
    OBVIOUS
  <2> HIDE DEF base, end
  <2> QED BY <1>0, <1>1, <2>1, FrameTells, ZenonT(60) DEF base, end
<1>4. row = sent
  <2>1. CASE code = CodeD
    <3>1. Slice(data, at, at + n) = Slice(Sent, base, base + n)
      <4>1. Slice(data, at + 0, at + n) = Slice(Sent, base + 0, base + n)
        BY SameSlice
      <4>2. at + 0 = at /\ base + 0 = base
        BY <1>2 DEF SameBytes
      <4> QED BY <4>1, <4>2
    <3> HIDE DEF base, end
    <3> QED BY <1>2, <2>1, <3>1 DEF RowOf
  <2>2. CASE code = CodeY
    <3>1. code # CodeD
      BY <2>2 DEF CodeD, CodeY
    <3>2. at + n = at <=> end = base
      <4>1. at \in Nat
        BY DEF SameBytes
      <4> HIDE DEF base, end
      <4> QED BY <1>2, <4>1
    <3>3. ASSUME n # 0
          PROVE  ParseDbosRowInPlace(data, at, at + n, layout) = ParseDbosRowInPlace(Sent, base, end, layout)
      <4>1. LayoutTyped(layout)
        BY <1>3, <2>2
      <4>2. end # base
        <5> HIDE DEF base, end
        <5> QED BY <1>2, <3>3
      <4>3. sent = ParseDbosRowInPlace(Sent, base, base + n, layout)
        BY <1>2, <3>1, <4>2 DEF RowOf
      <4>4. ParseDbosRowInPlace(Sent, base, base + n, layout).ok => RowWithin(Sent, base, base + n, layout)
        BY <1>2, <1>3, <2>2, <4>3
      <4> HIDE DEF base, end
      <4> QED BY <1>2, <4>1, <4>4, SameRow DEF base
    <3>4. n # 0 <=> end # base
      <4> HIDE DEF base, end
      <4> QED BY <1>2
    <3> HIDE DEF base, end
    <3> QED BY <3>1, <3>2, <3>3, <3>4 DEF RowOf
  <2> QED BY <2>1, <2>2
<1>5. RowAt(code, data, at, at + n) = row
  BY DEF RowAt
<1> HIDE DEF row, sent
<1>6. IsNext(start, row)
  BY <1>0, <1>3, <1>4 DEF IsNext
<1> QED BY <1>3, <1>5, <1>6

-----------------------------------------------------------------------------
(* The rows of a batch                                                       *)

\* The rows of a response that are next, one by one.
LEMMA PieceOfOne ==
    ASSUME NEW S, NEW s \in Seq(S), NEW i \in Nat, i < Len(s)
    PROVE  SubSeq(s, i + 1, i + 1) = <<s[i + 1]>>
<1> DEFINE t == SubSeq(s, i + 1, i + 1)
           u == <<s[i + 1]>>
<1>1. i <= i + 1 /\ i + 1 <= Len(s) /\ i + 1 \in Nat /\ (i + 1) - i = 1 /\ 1 \in 1 .. 1
  OBVIOUS
<1>2. t \in Seq(S) /\ Len(t) = (i + 1) - i /\ \A k \in 1 .. (i + 1) - i : t[k] = s[i + k]
  BY <1>1, SliceTyped
<1>3. t \in Seq(S) /\ Len(t) = 1 /\ t[1] = s[i + 1]
  BY <1>1, <1>2
<1>4. s[i + 1] \in S
  <2>1. i + 1 \in 1 .. Len(s)
    BY <1>1
  <2> QED BY <2>1
<1>5. u \in Seq(S) /\ Len(u) = 1 /\ u[1] = s[i + 1]
  BY <1>4
<1> HIDE DEF t, u
<1>6. \A k \in 1 .. Len(t) : t[k] = u[k]
  BY <1>3, <1>5
<1>7. t = u
  BY <1>3, <1>5, <1>6, SeqEqual, Zenon
<1> QED BY <1>7 DEF t, u

LEMMA FirstOfPiece ==
    ASSUME NEW S, NEW s \in Seq(S), NEW i \in Nat, NEW k \in Nat, i < k, k <= Len(s)
    PROVE  /\ SubSeq(s, i + 1, k) = <<s[i + 1]>> \o SubSeq(s, (i + 1) + 1, k)
           /\ SubSeq(s, i + 1, k) # <<>>
           /\ Head(SubSeq(s, i + 1, k)) = s[i + 1]
           /\ Tail(SubSeq(s, i + 1, k)) = SubSeq(s, (i + 1) + 1, k)
<1> DEFINE rest == SubSeq(s, (i + 1) + 1, k)
           all == SubSeq(s, i + 1, k)
           x == s[i + 1]
<1>1. i + 1 \in Nat /\ i <= i + 1 /\ i + 1 <= k /\ i < Len(s) /\ i + 1 \in 1 .. Len(s)
  OBVIOUS
<1>2. all = <<x>> \o rest
  BY <1>1, PieceOfOne, JoinedPieces
<1>3. rest \in Seq(S)
  BY <1>1, SliceTyped
<1>4. x \in S
  BY <1>1
<1> HIDE DEF rest, all, x
<1>5. <<x>> \o rest # <<>> /\ Head(<<x>> \o rest) = x /\ Tail(<<x>> \o rest) = rest
  BY <1>3, <1>4
<1>6. all # <<>> /\ Head(all) = x /\ Tail(all) = rest
  BY <1>2, <1>5
<1> QED BY <1>2, <1>6 DEF rest, all, x

LEMMA LastOfPiece ==
    ASSUME NEW S, NEW s \in Seq(S), NEW i \in Nat, i < Len(s)
    PROVE  Append(SubSeq(s, 1, i), s[i + 1]) = SubSeq(s, 1, i + 1)
<1> DEFINE t == SubSeq(s, 0 + 1, i)
           x == s[i + 1]
<1>1. 0 <= i /\ i <= i + 1 /\ i + 1 <= Len(s) /\ 0 \in Nat /\ i + 1 \in Nat /\ i <= Len(s) /\ i + 1 \in 1 .. Len(s)
  OBVIOUS
<1>2. t \o SubSeq(s, i + 1, i + 1) = SubSeq(s, 0 + 1, i + 1)
  BY <1>1, JoinedPieces
<1>3. SubSeq(s, i + 1, i + 1) = <<x>>
  BY PieceOfOne
<1>4. t \in Seq(S)
  BY <1>1, SliceTyped
<1>5. x \in S
  BY <1>1
<1>6. 0 + 1 = 1
  OBVIOUS
<1> HIDE DEF x
<1>7. Append(t, x) = t \o <<x>>
  <2> HIDE DEF t
  <2> QED BY <1>4, <1>5
<1> QED BY <1>2, <1>3, <1>6, <1>7 DEF t, x

LEMMA EmptyPiece ==
    ASSUME NEW S, NEW s \in Seq(S), NEW i \in Nat, i <= Len(s)
    PROVE  SubSeq(s, i + 1, i) = <<>> /\ SubSeq(s, 1, Len(s)) = s
<1>1. i + 1 > i
  OBVIOUS
<1> QED BY <1>1

\* Each row of b that is decoded from an offset in P is the next of s, of which
\* told says how much comes before an offset.
NextRows(b, code, headed, P, s, told) ==
    /\ P \subseteq b.start .. b.end /\ b.start \in P
    /\ told \in [P -> 0 .. Len(s)]
    /\ \A at \in P, end \in Nat : \A row :
        DecodedRow(b, code, headed, at, end, row) =>
            end \in P /\ told[at] < Len(s) /\ told[end] = told[at] + 1 /\ row = s[told[at] + 1]

\* Rows decoded from an offset on are a piece of s.
PieceFrom(batched, P, s, told, at) ==
    /\ batched.at \in P /\ told[at] <= told[batched.at]
    /\ batched.rows = SubSeq(s, told[at] + 1, told[batched.at])

LEMMA BatchDefined ==
    ASSUME NEW b \in Buffers(Octets), NEW code, NEW headed \in Nat, headed >= 4
    PROVE  \E f : /\ f = [at \in b.start .. b.end |-> RowsFrom(b, code, headed, at, f)]
                  /\ Batch(b, code, headed) = f[b.start]
<1> DEFINE f == CHOOSE f : f = [at \in b.start .. b.end |-> RowsFrom(b, code, headed, at, f)]
<1>1. f = [at \in b.start .. b.end |-> RowsFrom(b, code, headed, at, f)]
  <2> HIDE DEF f
  <2>1. \E g : g = [at \in b.start .. b.end |-> RowsFrom(b, code, headed, at, g)]
    BY RowsFromDefined
  <2> QED BY <2>1 DEF f
<1>2. Batch(b, code, headed) = f[b.start]
  BY DEF Batch
<1> HIDE DEF f
<1> QED BY <1>1, <1>2

LEMMA BatchRows ==
    ASSUME NEW b \in Buffers(Octets), NEW code, NEW headed \in Nat, headed >= 4,
           NEW S, NEW s \in Seq(S), NEW P, NEW told, NextRows(b, code, headed, P, s, told)
    PROVE  PieceFrom(Batch(b, code, headed), P, s, told, b.start)
<1>0. /\ P \subseteq b.start .. b.end /\ b.start \in P /\ told \in [P -> 0 .. Len(s)]
      /\ \A at \in P, end \in Nat : \A row :
          DecodedRow(b, code, headed, at, end, row) =>
              end \in P /\ told[at] < Len(s) /\ told[end] = told[at] + 1 /\ row = s[told[at] + 1]
  BY Zenon DEF NextRows
<1>2. PICK f : /\ f = [at \in b.start .. b.end |-> RowsFrom(b, code, headed, at, f)]
               /\ Batch(b, code, headed) = f[b.start]
  BY BatchDefined
<1> DEFINE Good(at) == PieceFrom(f[at], P, s, told, at)
           T == {k \in 0 .. b.end - b.start : b.end - k \in P /\ ~Good(b.end - k)}
<1>1. b.start \in Nat /\ b.end \in Nat /\ b.end - b.start \in Nat
  BY DEF Buffers
<1>t. \A at \in P : told[at] \in Nat /\ told[at] <= Len(s)
  <2>1. Len(s) \in Nat
    OBVIOUS
  <2>2. \A at \in P : told[at] \in 0 .. Len(s)
    BY <1>0
  <2> QED BY <2>1, <2>2
<1> HIDE DEF Good
<1>4. ASSUME NEW at \in P, ~Good(at) PROVE FALSE
  <2>1. at \in b.start .. b.end /\ b.end - at \in 0 .. b.end - b.start /\ b.end - (b.end - at) = at
    BY <1>0, <1>1
  <2>2. b.end - at \in T
    BY <1>4, <2>1
  <2>3. PICK m \in T : \A k \in T : m <= k
    <3>1. T \subseteq Nat /\ T # {}
      BY <1>1, <2>2
    <3> HIDE DEF T
    <3> QED BY <3>1, LeastNat
  <2> DEFINE first == b.end - m
  <2>4. m \in 0 .. b.end - b.start /\ first \in P /\ ~Good(first) /\ first \in b.start .. b.end
    BY <1>0, <1>1, <2>3
  <2>5. f[first] = RowsFrom(b, code, headed, first, f)
    BY <1>2, <2>4
  <2> HIDE DEF first
  <2>t. told[first] \in Nat /\ told[first] <= Len(s)
    BY <1>t, <2>4
  <2>6. ASSUME \A h : RowsFrom(b, code, headed, first, h) = [rows |-> <<>>, at |-> first]
        PROVE  FALSE
    <3>1. f[first].at = first /\ f[first].rows = <<>>
      BY <2>5, <2>6
    <3>2. SubSeq(s, told[first] + 1, told[first]) = <<>> /\ told[first] <= told[first]
      BY <2>t, EmptyPiece
    <3> QED BY <2>4, <3>1, <3>2 DEF Good, PieceFrom
  <2>7. ASSUME NEW end \in Nat, NEW row, DecodedRow(b, code, headed, first, end, row),
               \A h : RowsFrom(b, code, headed, first, h)
                        = [rows |-> <<row>> \o h[end].rows, at |-> h[end].at]
        PROVE  FALSE
    <3>1. end \in P /\ told[first] < Len(s) /\ told[end] = told[first] + 1 /\ row = s[told[first] + 1]
      BY <1>0, <2>4, <2>7
    <3> DEFINE last == f[end].at
    <3>2. ASSUME Good(end) PROVE FALSE
      <4>1. /\ last \in P /\ told[end] <= told[last]
            /\ f[end].rows = SubSeq(s, told[end] + 1, told[last])
        BY <3>2 DEF Good, PieceFrom
      <4> DEFINE all == <<row>> \o f[end].rows
      <4>2. f[first] = [rows |-> all, at |-> last]
        BY <2>5, <2>7, Zenon
      <4>3. f[first].at = last /\ f[first].rows = <<row>> \o f[end].rows
        <5> HIDE DEF all, last
        <5>1. f[first].at = last /\ f[first].rows = all
          BY <4>2
        <5> QED BY <5>1 DEF all
      <4> HIDE DEF last, all
      <4>4. told[last] \in Nat /\ told[last] <= Len(s) /\ told[first] < told[last] /\ told[first] <= told[last]
        <5>1. told[last] \in Nat /\ told[last] <= Len(s)
          BY <1>t, <4>1
        <5> QED BY <2>t, <3>1, <4>1, <5>1
      <4>5. SubSeq(s, told[first] + 1, told[last])
              = <<s[told[first] + 1]>> \o SubSeq(s, (told[first] + 1) + 1, told[last])
        BY <2>t, <4>4, FirstOfPiece, ZenonT(60)
      <4>6. f[first].rows = SubSeq(s, told[first] + 1, told[last])
        BY <3>1, <4>1, <4>3, <4>5
      <4>7. f[first].at \in P /\ told[first] <= told[f[first].at]
        BY <4>1, <4>3, <4>4
      <4> QED BY <2>4, <4>3, <4>6, <4>7 DEF Good, PieceFrom
    <3>5. first + headed <= end /\ end <= b.end
      BY <2>7, Zenon DEF CompleteRow, DecodedRow
    <3>6. end \in b.start .. b.end /\ first \in Nat
      BY <1>0, <1>1, <2>4, <3>1
    <3> HIDE DEF T
    <3>7. m \in Nat /\ headed \in Nat /\ headed >= 4 /\ end \in Nat
      BY <1>1, <2>4
    <3>8. ~(m <= b.end - end)
      BY <1>1, <3>5, <3>7, SMTT(30) DEF first
    <3>3. b.end - end \in 0 .. b.end - b.start /\ b.end - (b.end - end) = end /\ ~(m <= b.end - end)
      BY <1>1, <3>6, <3>7, <3>8, SMTT(30)
    <3>4. b.end - end \in T
      BY <3>1, <3>2, <3>3 DEF T
    <3> QED BY <2>3, <3>3, <3>4
  <2> QED BY <2>4, <2>6, <2>7, RowsFromCases
<1>5. Good(b.start)
  BY <1>0, <1>4
<1> QED BY <1>2, <1>5 DEF Good

\* What the buffer holds is the response's: its bytes at an offset, and a piece
\* from the front on.
LEMMA HoldsBytes ==
    ASSUME NEW b \in Buffers(Octets), NEW p, Holds(b, p), Sent \in Seq(Octets),
           NEW at \in Nat, NEW n \in Nat, b.start <= at, at + n <= b.end
    PROVE  SameBytes(b.data, at, Sent, p + (at - b.start), n)
<1>1. /\ b.data \in Seq(Octets) /\ b.start \in Nat /\ b.end \in Nat /\ b.end <= Len(b.data)
      /\ Len(b.data) \in Nat /\ Len(Sent) \in Nat /\ p \in Nat /\ p + (b.end - b.start) <= Len(Sent)
      /\ Buffered(b) = b.end - b.start
  BY DEF Buffers, Holds, Buffered
<1> DEFINE q == p + (at - b.start)
<1>2. q \in Nat /\ at + n <= Len(b.data) /\ q + n <= Len(Sent)
  BY <1>1, SMTT(30)
<1>3. ASSUME NEW i \in Nat, i < n PROVE Byte(b.data, at + i) = Byte(Sent, q + i)
  <2>1. /\ (at - b.start) + i \in Nat /\ (at - b.start) + i < Buffered(b)
        /\ b.start + ((at - b.start) + i) = at + i /\ p + ((at - b.start) + i) = q + i
    BY <1>1, <1>3, SMTT(30)
  <2>2. Byte(b.data, b.start + ((at - b.start) + i)) = Byte(Sent, p + ((at - b.start) + i))
    BY <2>1, Zenon DEF Holds
  <2> HIDE DEF q
  <2> QED BY <2>1, <2>2
<1> HIDE DEF q
<1>4. SameBytes(b.data, at, Sent, q, n)
  BY <1>1, <1>2, <1>3, Zenon DEF SameBytes
<1> QED BY <1>4 DEF q

LEMMA HeldSent ==
    ASSUME NEW b \in Buffers(Octets), NEW p, Holds(b, p), Sent \in Seq(Octets),
           NEW n \in Nat, n <= Buffered(b)
    PROVE  Slice(b.data, b.start, b.start + n) = Slice(Sent, p, p + n)
<1>1. b.start \in Nat /\ b.end \in Nat /\ Buffered(b) = b.end - b.start /\ p \in Nat
  BY DEF Buffers, Buffered, Holds
<1>2. b.start <= b.start /\ b.start + n <= b.end /\ p + (b.start - b.start) = p
  BY <1>1
<1>3. SameBytes(b.data, b.start, Sent, p, n)
  BY <1>1, <1>2, HoldsBytes
<1>4. 0 <= n /\ n <= n /\ 0 \in Nat /\ b.start + 0 = b.start /\ p + 0 = p
  BY <1>1
<1>5. Slice(b.data, b.start + 0, b.start + n) = Slice(Sent, p + 0, p + n)
  BY <1>3, <1>4, SameSlice
<1> QED BY <1>4, <1>5

\* The rows of the response.
RowSet == {response.rows[i] : i \in DOMAIN response.rows}

\* What the rows of a response are taken from.
LEMMA RowsTyped ==
    ASSUME response \in Responses
    PROVE  response.rows \in Seq(RowSet) /\ Len(response.rows) \in Nat
<1>1. RowsTold(response)
  BY ResponsesAssumption
<1>2. response.rows \in Seq(RowSet)
  BY <1>1 DEF RowsTold, RowSet
<1> QED BY <1>2

\* A batch holds the next rows of the response.
LEMMA BatchedRows ==
    ASSUME response \in Responses, NEW b \in Buffers(Octets), NEW p \in Starts, Holds(b, p),
           NEW code \in {CodeD, CodeY}, Knows(p), layout.ok => LayoutTyped(layout)
    PROVE  LET batched == Batch(b, code, HeaderSize(code))
               q == p + (batched.at - b.start)
           IN  /\ Knows(q) /\ Known(response, p).rows <= Known(response, q).rows
               /\ batched.rows = SubSeq(response.rows, Known(response, p).rows + 1, Known(response, q).rows)
<1> DEFINE headed == HeaderSize(code)
           place(at) == p + (at - b.start)
           P == {at \in b.start .. b.end : place(at) \in Starts /\ Knows(place(at))}
           told == [at \in P |-> Known(response, place(at)).rows]
<1>1. b.start \in Nat /\ b.end \in Nat /\ b.start <= b.end /\ Buffered(b) = b.end - b.start /\ p \in Nat
  BY DEF Buffers, Buffered, Holds
<1>2. headed \in {9, 13} /\ headed \in Nat /\ headed >= 4 /\ headed > 5 /\ code \notin Ready
  BY HeaderSizes
<1>3. /\ response.rows \in Seq(RowSet) /\ Len(response.rows) \in Nat
      /\ Sent \in Seq(Octets) /\ Len(Sent) \in Nat
  <2>1. Sent \in Seq(Octets)
    BY FrameEnds
  <2> QED BY <2>1, RowsTyped
<1>4. P \subseteq b.start .. b.end /\ b.start \in P /\ place(b.start) = p
  <2>1. place(b.start) = p /\ b.start \in b.start .. b.end
    BY <1>1
  <2> QED BY <2>1
<1>5. told \in [P -> 0 .. Len(response.rows)]
  BY DEF Knows
<1>6. \A at \in P : told[at] = Known(response, place(at)).rows
  OBVIOUS
<1> HIDE DEF told
<1>7. ASSUME NEW at \in P, NEW end \in Nat, NEW row, DecodedRow(b, code, headed, at, end, row)
      PROVE  /\ end \in P /\ told[at] < Len(response.rows) /\ told[end] = told[at] + 1
             /\ row = response.rows[told[at] + 1]
  <2> DEFINE start == place(at)
             len == Int32BE(b.data, at + headed - 4)
  <2>1. at \in b.start .. b.end /\ start \in Starts /\ Knows(start)
    OBVIOUS
  <2>2. /\ at + headed <= end /\ end <= b.end /\ Byte(b.data, at) = code /\ end = at + headed + len
        /\ RowAt(code, b.data, at + headed, end).ok /\ row = RowAt(code, b.data, at + headed, end).row
    BY <1>7, Zenon DEF CompleteRow, DecodedRow
  <2> HIDE DEF headed
  <2>3. /\ at - b.start \in Nat /\ at - b.start < Buffered(b) /\ b.start + (at - b.start) = at
        /\ (at - b.start) + headed - 4 \in Nat
        /\ ((at - b.start) + headed - 4) + 4 <= Buffered(b)
        /\ b.start + ((at - b.start) + headed - 4) = at + headed - 4
        /\ p + ((at - b.start) + headed - 4) = start + headed - 4
    BY <1>1, <1>2, <2>1, <2>2
  <2>4. Byte(Sent, start) = code
    BY <2>2, <2>3, Zenon DEF Holds
  <2>5. len = Int32BE(Sent, start + headed - 4)
    BY <2>3, HoldsWord
  <2>6. PayloadLength(Sent, start) = len
    BY <2>4, <2>5 DEF PayloadLength, headed
  <2> HIDE DEF len
  <2>7. len \in Int
    <3>1. at + headed <= b.end
      BY <1>1, <1>2, <2>1, <2>2, LengthTyped
    <3> QED BY <1>2, <2>1, <3>1, LengthTyped DEF len
  <2>8. len \in Nat
    BY <1>1, <1>2, <2>1, <2>2, <2>7
  <2>9. /\ FrameSize(Sent, start) = headed + len
        /\ start + FrameSize(Sent, start) \in Starts
    <3>1. len >= 0
      BY <2>8
    <3> HIDE DEF place
    <3> QED BY <1>2, <2>1, <2>4, <2>6, <3>1, FrameEnds DEF headed
  <2>10. place(end) = start + headed + len /\ start + headed = p + ((at + headed) - b.start)
         /\ place(end) = start + (headed + len)
    BY <1>1, <1>2, <2>1, <2>2, <2>8
  <2>11. end \in b.start .. b.end /\ place(end) \in Starts
    <3>1. end \in b.start .. b.end
      BY <1>1, <1>2, <2>1, <2>2
    <3> HIDE DEF place
    <3> QED BY <2>9, <2>10, <3>1
  <2>12. SameBytes(b.data, at + headed, Sent, start + headed, len)
    <3>1. /\ at + headed \in Nat /\ b.start <= at + headed /\ (at + headed) + len <= b.end
      BY <1>1, <1>2, <2>1, <2>2, <2>8
    <3>2. SameBytes(b.data, at + headed, Sent, p + ((at + headed) - b.start), len)
      BY <1>3, <2>8, <3>1, HoldsBytes
    <3> HIDE DEF place
    <3> QED BY <2>10, <3>2
  <2> DEFINE known == Known(response, start)
             more == Known(response, start + FrameSize(Sent, start))
             it == RowAt(code, b.data, at + headed, (at + headed) + len)
  <2>13. row = it.row /\ it.ok
    <3>1. end = (at + headed) + len
      BY <1>1, <1>2, <2>1, <2>2, <2>8
    <3> QED BY <2>2, <3>1
  <2>14. known.rows \in 0 .. Len(response.rows)
    BY <2>1 DEF Knows
  <2> HIDE DEF place
  <2>15. /\ known.rows < Len(response.rows) /\ response.rows[known.rows + 1] = it.row
         /\ more.description = description /\ more.layout = layout /\ more.rows = known.rows + 1
    <3>1. start \in Starts /\ Byte(Sent, start) = code /\ PayloadLength(Sent, start) = len /\ len \in Nat
          /\ SameBytes(b.data, at + headed, Sent, start + headed, len) /\ Knows(start)
      BY <2>1, <2>4, <2>6, <2>8, <2>12
    <3> HIDE DEF known, more, it
    <3>2. IsNext(start, it)
      BY <3>1, RowSent, ZenonT(60) DEF headed, it
    <3> QED BY <2>13, <3>2 DEF IsNext, known, more
  <2>16. Known(response, place(end)) = more
    <3>1. place(end) = start + FrameSize(Sent, start)
      BY <2>9, <2>10
    <3> QED BY <3>1
  <2> HIDE DEF known, more, it
  <2>17. more.rows \in 0 .. Len(response.rows)
    BY <1>3, <2>14, <2>15
  <2>18. Knows(place(end))
    BY <2>15, <2>16, <2>17 DEF Knows
  <2>19. end \in P
    BY <2>11, <2>18
  <2>20. told[at] = known.rows /\ told[end] = more.rows
    BY <1>6, <2>16, <2>19 DEF known
  <2> HIDE DEF P
  <2> QED BY <2>13, <2>15, <2>19, <2>20
<1> DEFINE r == Batch(b, code, headed)
<1>8. /\ r.at \in P /\ told[b.start] <= told[r.at]
      /\ r.rows = SubSeq(response.rows, told[b.start] + 1, told[r.at])
  <2> HIDE DEF P, headed
  <2>1. NextRows(b, code, headed, P, response.rows, told)
    BY <1>4, <1>5, <1>7 DEF NextRows
  <2>2. PieceFrom(r, P, response.rows, told, b.start)
    BY <1>2, <1>3, <2>1, BatchRows
  <2> HIDE DEF r
  <2> QED BY <2>2, Zenon DEF PieceFrom
<1> HIDE DEF headed, r
<1>9. told[b.start] = Known(response, p).rows /\ told[r.at] = Known(response, place(r.at)).rows
      /\ Knows(place(r.at))
  BY <1>4, <1>6, <1>8
<1> HIDE DEF P
<1> QED BY <1>8, <1>9 DEF r, headed

-----------------------------------------------------------------------------
(* What the caller has been given, and what the generator knows              *)

\* Where the frame starts that the generator is in or looks for.
FrameStart ==
    CASE ctl.at = "type" -> Position
      [] ctl.at = "header" -> Position - 1
      [] ctl.at \in {"length", "rowHead", "row"} -> Position - 5
      [] ctl.at = "payload" -> Position - 9
      [] OTHER -> Position - 9 - Len(ctl.held)

\* The caller has the first rows of the response, and all of them when it is
\* over, unless the reader was closed.
Delivered ==
    /\ Len(rows) \in 0 .. Len(response.rows)
    /\ rows = SubSeq(response.rows, 1, Len(rows))
    /\ reader \in {"reading", "idle"} => ~discardRows
    /\ reader = "closing" => discardRows
    /\ reader \in Over /\ ~discardRows => rows = response.rows

\* Rows that the frames before an offset have told and the caller does not have
\* are in the batch.
Ahead(at) ==
    /\ Knows(at)
    /\ layout.ok => LayoutTyped(layout)
    /\ Len(rows) <= Known(response, at).rows
    /\ batch = SubSeq(response.rows, Len(rows) + 1, Known(response, at).rows)

\* No frame is read while there is a batch, and what is collected of a payload is
\* the beginning of it.
Reading ==
    /\ ctl.at # "type" => batch = <<>>
    /\ ctl.at # "discard"
    /\ ctl.at = "row" => ctl.len > 0
    /\ ctl.at = "collect" => ctl.held = Slice(Sent, FrameStart + 9, Position)

Informed == reader \in {"reading", "idle"} => Ahead(FrameStart) /\ Reading

Kept == Delivered /\ Informed

\* The generator is in the frame that starts there.
LEMMA FrameIs ==
    ASSUME Typed, Faithful, Framed, reader \in Open, ctl.at # "discard"
    PROVE  /\ FrameStart \in Starts /\ FrameStart \in Nat /\ Position \in Nat
           /\ ctl.at = "type" => FrameStart = Position
           /\ ctl.at # "type" => InFrame(FrameStart)
<1>1. Position \in Nat /\ response \in Responses /\ ctl \in Ctls
  BY BufferHolds DEF Typed, Ctls
<1>2. CASE ctl.at = "type"
  BY <1>1, <1>2 DEF Framed, Open, FrameStart
<1>3. CASE ctl.at # "type"
  <2>1. PICK start \in Starts : InFrame(start)
    BY <1>3 DEF Framed, Open
  <2>2. start \in Nat
    BY <1>1, FrameEnds
  <2> DEFINE n == Len(ctl.held)
  <2>3. n \in Nat
    BY <1>1 DEF Ctls
  <2>4. \/ ctl.at = "header" /\ Position = start + 1
        \/ ctl.at \in {"length", "rowHead", "row"} /\ Position = start + 5
        \/ ctl.at = "payload" /\ Position = start + 9
        \/ ctl.at = "collect" /\ Position = start + 9 + n
    BY <1>3, <2>1, Zenon DEF InFrame
  <2>5. /\ ctl.at = "header" => FrameStart = Position - 1
        /\ ctl.at \in {"length", "rowHead", "row"} => FrameStart = Position - 5
        /\ ctl.at = "payload" => FrameStart = Position - 9
        /\ ctl.at = "collect" => FrameStart = Position - 9 - n
    BY DEF FrameStart
  <2> HIDE DEF n
  <2>6. FrameStart = start
    BY <1>1, <2>2, <2>3, <2>4, <2>5
  <2> QED BY <1>1, <1>3, <2>1, <2>2, <2>6
<1> QED BY <1>2, <1>3

\* Nothing is told and nothing is given.
LEMMA KeptWithin ==
    ASSUME Kept, reader \in {"reading", "idle"}, reader' \in {"reading", "idle"},
           UNCHANGED <<response, description, layout, batch, discardRows, rows>>,
           FrameStart' = FrameStart, Reading'
    PROVE  Kept'
<1>1. Delivered'
  BY DEF Kept, Delivered, Over
<1>2. Ahead(FrameStart)
  BY DEF Kept, Informed
<1>3. Ahead(FrameStart)'
  BY <1>2 DEF Ahead, Knows
<1> QED BY <1>1, <1>3 DEF Kept, Informed

\* The response is over, or a frame is refused, and no row is to come.
LEMMA KeptOver ==
    ASSUME Kept, response \in Responses, reader = "reading", reader' \in Over,
           UNCHANGED <<response, discardRows, rows>>, batch = <<>>,
           Known(response, FrameStart).rows = Len(response.rows)
    PROVE  Kept'
<1> DEFINE s == response.rows
           n == Len(rows)
           k == Known(response, FrameStart).rows
<1>1. s \in Seq(RowSet) /\ Len(s) \in Nat
  BY RowsTyped
<1>2. n \in 0 .. Len(s) /\ rows = SubSeq(s, 1, n) /\ ~discardRows
  BY DEF Kept, Delivered
<1>3. n <= k /\ k = Len(s) /\ batch = SubSeq(s, n + 1, k)
  BY DEF Kept, Informed, Ahead
<1> HIDE DEF s, n, k
<1>4. n \in Nat /\ k \in Nat /\ n <= k /\ k <= Len(s)
  BY <1>1, <1>2, <1>3
<1>5. Len(SubSeq(s, n + 1, k)) = k - n
  BY <1>1, <1>4, SliceTyped
<1>6. k - n = 0
  <2>1. SubSeq(s, n + 1, k) = <<>>
    BY <1>3, Zenon
  <2>2. Len(<<>>) = 0
    OBVIOUS
  <2> QED BY <1>5, <2>1, <2>2, Zenon
<1>7. n = Len(s)
  BY <1>1, <1>3, <1>4, <1>6
<1>8. rows = s
  BY <1>1, <1>2, <1>7
<1> QED BY <1>2, <1>8 DEF Kept, Delivered, Informed, Over, s, n

\* A frame that is no row has been read.
LEMMA KeptNext ==
    ASSUME Kept, reader = "reading", reader' \in {"reading", "idle"}, ctl'.at = "type",
           UNCHANGED <<response, batch, discardRows, rows>>,
           NEW next, Position' = next,
           Known(response, next).description = description', Known(response, next).layout = layout',
           Known(response, next).rows = Known(response, FrameStart).rows,
           layout'.ok => LayoutTyped(layout')
    PROVE  Kept'
<1>1. Delivered'
  BY DEF Kept, Delivered, Over
<1>2. Ahead(FrameStart)
  BY DEF Kept, Informed
<1>3. FrameStart' = next
  BY DEF FrameStart
<1>4. Ahead(FrameStart)'
  <2>1. Knows(FrameStart)'
    BY <1>2, <1>3 DEF Ahead, Knows
  <2> QED BY <1>2, <1>3, <2>1 DEF Ahead, LayoutTyped
<1>5. Reading'
  BY DEF Reading
<1> QED BY <1>1, <1>4, <1>5 DEF Kept, Informed

\* The caller is given the first row of the batch.
LEMMA KeptServed ==
    ASSUME Kept, response \in Responses, reader \in {"reading", "idle"}, reader' \in {"reading", "idle"},
           ctl'.at = "type", UNCHANGED <<response, description, layout, discardRows>>,
           batch # <<>>, rows' = Append(rows, Head(batch)), batch' = Tail(batch),
           FrameStart' = FrameStart
    PROVE  Kept'
<1> DEFINE s == response.rows
           n == Len(rows)
           k == Known(response, FrameStart).rows
<1>1. s \in Seq(RowSet) /\ Len(s) \in Nat
  BY RowsTyped
<1>2. n \in 0 .. Len(s) /\ rows = SubSeq(s, 1, n) /\ ~discardRows
  BY DEF Kept, Delivered
<1>3. n <= k /\ batch = SubSeq(s, n + 1, k) /\ Knows(FrameStart) /\ (layout.ok => LayoutTyped(layout))
  BY DEF Kept, Informed, Ahead
<1>4. k \in 0 .. Len(s)
  BY <1>3 DEF Knows
<1> HIDE DEF s, n, k
<1>5. n \in Nat /\ k \in Nat /\ k <= Len(s)
  BY <1>1, <1>2, <1>4
<1>6. n < k /\ n < Len(s)
  <2>1. n = k => SubSeq(s, n + 1, k) = <<>>
    BY <1>1, <1>5, EmptyPiece
  <2> QED BY <1>1, <1>3, <1>5, <2>1
<1>7. Head(batch) = s[n + 1] /\ Tail(batch) = SubSeq(s, (n + 1) + 1, k)
  BY <1>1, <1>3, <1>5, <1>6, FirstOfPiece
<1>8. rows' = SubSeq(s, 1, n + 1) /\ batch' = SubSeq(s, (n + 1) + 1, k)
  BY <1>1, <1>2, <1>5, <1>6, <1>7, LastOfPiece
<1>9. n + 1 \in 0 .. Len(s) /\ n + 1 <= k
  BY <1>1, <1>5, <1>6
<1>10. Len(rows') = n + 1
  <2>1. Len(SubSeq(s, 0 + 1, n + 1)) = (n + 1) - 0
    <3>1. 0 <= n + 1 /\ n + 1 <= Len(s) /\ 0 \in Nat /\ n + 1 \in Nat
      BY <1>5, <1>6
    <3> QED BY <1>1, <3>1, SliceTyped
  <2>2. 0 + 1 = 1 /\ (n + 1) - 0 = n + 1
    BY <1>5
  <2> QED BY <1>8, <2>1, <2>2
<1>11. response.rows' = s /\ Known(response, FrameStart)' = Known(response, FrameStart)
  BY DEF s
<1>12. Delivered'
  BY <1>2, <1>8, <1>9, <1>10, <1>11 DEF Delivered, Over
<1>13. Ahead(FrameStart)'
  <2>1. Knows(FrameStart)'
    BY <1>3, <1>11 DEF Knows
  <2>2. (layout.ok => LayoutTyped(layout))'
    BY <1>3 DEF LayoutTyped
  <2> QED BY <1>8, <1>9, <1>10, <1>11, <2>1, <2>2 DEF Ahead, k
<1>14. Reading'
  BY DEF Reading
<1> QED BY <1>12, <1>13, <1>14 DEF Kept, Informed

\* The caller is given the row of a frame; the rows behind it are the batch.
LEMMA KeptRow ==
    ASSUME Typed, Faithful, Kept, reader = "reading", reader' \in {"reading", "idle"},
           UNCHANGED <<description, layout, discardRows>>,
           batch = <<>>, NEW row, IsNext(FrameStart, row), row.ok,
           rows' = Append(rows, row.row), ctl'.at = "type",
           NEW b, NEW m, NEW k, Behind(b, m, k), Position + m + k = FrameStart + FrameSize(Sent, FrameStart),
           NEW code \in {CodeD, CodeY}, NEW more, more = Batch(b, code, HeaderSize(code)),
           buf' = [b EXCEPT !.start = more.at], batch' = more.rows
    PROVE  Kept'
<1> DEFINE s == response.rows
           q == Position + m + k
           j == more.at - b.start
           before == Known(response, FrameStart).rows
           told == Known(response, q).rows
           last == Known(response, q + j).rows
<1>1. s \in Seq(RowSet) /\ Len(s) \in Nat /\ response \in Responses
  BY RowsTyped DEF Typed
<1>2. /\ Len(rows) \in 0 .. Len(s) /\ rows = SubSeq(s, 1, Len(rows)) /\ ~discardRows
      /\ Len(rows) <= before /\ batch = SubSeq(s, Len(rows) + 1, before)
      /\ Knows(FrameStart) /\ (layout.ok => LayoutTyped(layout)) /\ before \in 0 .. Len(s)
  BY DEF Kept, Delivered, Informed, Ahead, Knows
<1>3. Len(rows) = before
  <2>1. Len(rows) \in Nat /\ before \in Nat /\ before <= Len(s) /\ Len(rows) <= before
    BY <1>1, <1>2
  <2> DEFINE n == Len(rows)
  <2> HIDE DEF before, s, n
  <2>2. n \in Nat /\ before \in Nat /\ before <= Len(s) /\ n <= before
    BY <2>1 DEF n
  <2>3. Len(SubSeq(s, n + 1, before)) = before - n
    BY <1>1, <2>2, SliceTyped
  <2>4. SubSeq(s, n + 1, before) = <<>> /\ Len(<<>>) = 0
    BY <1>2 DEF n
  <2>5. before - n = 0
    BY <2>3, <2>4, Zenon
  <2>6. n = before
    BY <2>2, <2>5
  <2> QED BY <2>6 DEF n
<1>4. /\ before < Len(s) /\ s[before + 1] = row.row /\ told = before + 1
      /\ Known(response, q).description = description /\ Known(response, q).layout = layout
  BY DEF IsNext
<1>5. /\ j \in Nat /\ Moves(m + j, k) /\ Position + (m + j) + k \in Starts
      /\ Holds(b, q) /\ Position + (m + j) + k = q + j
  <2>1. RowsTaken(b, m, k, j)
    BY RowsBehind
  <2> QED BY <2>1 DEF RowsTaken
<1>6. b \in Buffers(Octets) /\ Position' = q + j /\ response' = response /\ q \in Starts
  <2>1. Position' = Position + (m + j) + k
    BY <1>5, Moved
  <2> QED BY <1>5, <2>1 DEF Behind, Drops
<1> HIDE DEF j, before, told, last, s
<1>7. before \in Nat /\ told \in 0 .. Len(s)
  BY <1>1, <1>2, <1>4
<1>8. Knows(q)
  BY <1>4, <1>7 DEF Knows, told, s
<1>9. Knows(q + j) /\ told <= last /\ more.rows = SubSeq(s, told + 1, last)
  <2>1. q \in Starts
    BY <1>6
  <2> HIDE DEF q
  <2> QED BY <1>1, <1>2, <1>5, <1>6, <1>8, <2>1, BatchedRows DEF told, last, s, j
<1> HIDE DEF q
<1>10. rows' = SubSeq(s, 1, before + 1) /\ before + 1 \in 0 .. Len(s)
  <2>1. Append(SubSeq(s, 1, before), s[before + 1]) = SubSeq(s, 1, before + 1)
    BY <1>1, <1>4, <1>7, LastOfPiece
  <2> QED BY <1>1, <1>2, <1>3, <1>4, <1>7, <2>1
<1>11. Len(rows') = before + 1
  <2>1. Len(SubSeq(s, 0 + 1, before + 1)) = (before + 1) - 0
    <3>1. 0 <= before + 1 /\ before + 1 <= Len(s) /\ 0 \in Nat /\ before + 1 \in Nat
      BY <1>1, <1>4, <1>7
    <3> QED BY <1>1, <3>1, SliceTyped
  <2>2. 0 + 1 = 1 /\ (before + 1) - 0 = before + 1
    BY <1>7
  <2> QED BY <1>10, <2>1, <2>2
<1>12. FrameStart' = q + j /\ response' = response
  BY <1>6 DEF FrameStart
<1>13. Delivered'
  BY <1>2, <1>10, <1>11, <1>12 DEF Delivered, Over, s
<1>14. Ahead(FrameStart)'
  <2>1. Knows(FrameStart)'
    BY <1>9, <1>12 DEF Knows
  <2>2. (layout.ok => LayoutTyped(layout))'
    BY <1>2 DEF LayoutTyped
  <2>3. Len(rows') <= last /\ batch' = SubSeq(s, Len(rows') + 1, last)
    BY <1>4, <1>9, <1>11
  <2>4. response.rows' = s /\ Known(response, FrameStart)'.rows = last
    BY <1>12 DEF s, last
  <2> QED BY <2>1, <2>2, <2>3, <2>4 DEF Ahead
<1>15. Reading'
  BY DEF Reading
<1> QED BY <1>13, <1>14, <1>15 DEF Kept, Informed

\* A frame that carries neither columns nor a layout nor a row.
LEMMA NothingTold ==
    ASSUME response \in Responses, NEW start \in Starts, Knows(start),
           Byte(Sent, start) \notin Ready \cup {CodeT, CodeX, CodeD, CodeY},
           HeaderSize(Byte(Sent, start)) > 5 => PayloadLength(Sent, start) >= 0
    PROVE  LET more == Known(response, start + FrameSize(Sent, start))
           IN  /\ more.description = description /\ more.layout = layout
               /\ more.rows = Known(response, start).rows
<1> DEFINE type == Byte(Sent, start)
<1>1. /\ type \notin Ready /\ type # CodeT /\ type # CodeX /\ type \notin {CodeD, CodeY}
      /\ HeaderSize(type) > 5 => PayloadLength(Sent, start) >= 0
  OBVIOUS
<1> HIDE DEF type
<1>2. Known(response, start).description = description /\ Known(response, start).layout = layout
  BY DEF Knows
<1> QED BY <1>1, <1>2, FrameTells, ZenonT(60) DEF type

\* The last frame, or one whose length is negative.
LEMMA NoRowTold ==
    ASSUME response \in Responses, NEW start \in Starts,
           \/ Byte(Sent, start) \in Ready
           \/ HeaderSize(Byte(Sent, start)) > 5 /\ ~(PayloadLength(Sent, start) >= 0)
    PROVE  Known(response, start).rows = Len(response.rows)
BY FrameTells, ZenonT(60)

\* No frame is longer than the driver takes.
LEMMA LengthAllowed ==
    ASSUME response \in Responses, NEW start \in Starts, HeaderSize(Byte(Sent, start)) > 5
    PROVE  PayloadLength(Sent, start) <= MaxPayload
BY FrameTells, ZenonT(60)

\* A description of the columns, and a layout of binary rows.
LEMMA ColumnsTold ==
    ASSUME response \in Responses, NEW start \in Starts, Knows(start), Byte(Sent, start) = CodeT,
           NEW payload, payload = Slice(Sent, start + 9, start + FrameSize(Sent, start)),
           PayloadLength(Sent, start) >= 0
    PROVE  LET known == Known(response, start)
               more == Known(response, start + FrameSize(Sent, start))
               columns == ParseRowDescription(payload)
           IN  /\ ~columns.ok => known.rows = Len(response.rows)
               /\ columns.ok => /\ more.description = columns /\ more.layout = layout
                                /\ more.rows = known.rows
<1>1. /\ CodeT \notin Ready /\ CodeT # CodeX /\ CodeT \notin {CodeD, CodeY} /\ HeaderSize(CodeT) = 9
  BY DEF CodeT, CodeX, CodeD, CodeY, Ready, Control, HeaderSize
<1>2. Known(response, start).description = description /\ Known(response, start).layout = layout
  BY DEF Knows
<1>3. payload = Slice(Sent, start + HeaderSize(Byte(Sent, start)), start + FrameSize(Sent, start))
  BY <1>1
<1> QED BY <1>1, <1>2, <1>3, FrameTells, ZenonT(60)

LEMMA LayoutTold ==
    ASSUME response \in Responses, NEW start \in Starts, Knows(start), Byte(Sent, start) = CodeX,
           NEW payload, payload = Slice(Sent, start + 9, start + FrameSize(Sent, start)),
           PayloadLength(Sent, start) >= 0
    PROVE  LET known == Known(response, start)
               more == Known(response, start + FrameSize(Sent, start))
               binary == ParseDescriptor(payload, description)
           IN  /\ ~binary.ok => known.rows = Len(response.rows)
               /\ binary.ok => /\ more.description = description /\ more.layout = binary
                               /\ more.rows = known.rows
<1>1. /\ CodeX \notin Ready /\ CodeX # CodeT /\ CodeX \notin {CodeD, CodeY} /\ HeaderSize(CodeX) = 9
  BY DEF CodeT, CodeX, CodeD, CodeY, Ready, Control, HeaderSize
<1>2. Known(response, start).description = description /\ Known(response, start).layout = layout
  BY DEF Knows
<1>3. payload = Slice(Sent, start + HeaderSize(Byte(Sent, start)), start + FrameSize(Sent, start))
  BY <1>1
<1> QED BY <1>1, <1>2, <1>3, FrameTells, ZenonT(60)

\* n bytes of the buffer are read.
LEMMA SkipMoves ==
    ASSUME Typed, Faithful, NEW n \in Nat, n <= Buffered(buf), buf' = Skip(buf, n),
           UNCHANGED <<response, arrived, stream>>
    PROVE  Moves(n, 0) /\ Position' = Position + n /\ Sent' = Sent
<1>1. buf \in Buffers(Octets) /\ stream \in Seq(Octets) /\ Buffered(buf) \in Nat /\ Position \in Nat
  BY UnreadTyped, BufferHolds DEF Typed
<1>2. n \in 0 .. Buffered(buf)
  BY <1>1
<1>3. Drops(buf, buf', n)
  BY <1>1, <1>2, SkipDrops
<1>4. Moves(n, 0)
  BY <1>1, <1>3, BufferMoves
<1>5. Position' = Position + n + 0 /\ Sent' = Sent
  BY <1>4, Moved
<1> QED BY <1>1, <1>4, <1>5

\* Where an open reader is.
LEMMA Here ==
    ASSUME Typed, Faithful, Framed, Kept, reader \in {"reading", "idle"}
    PROVE  /\ response \in Responses /\ ctl \in Ctls /\ buf \in Buffers(Octets) /\ stream \in Seq(Octets)
           /\ Buffered(buf) \in Nat /\ Holds(buf, Position) /\ Sent \in Seq(Octets)
           /\ FrameStart \in Starts /\ FrameStart \in Nat /\ Position \in Nat
           /\ Knows(FrameStart) /\ (layout.ok => LayoutTyped(layout))
           /\ ctl.at = "type" => FrameStart = Position
           /\ ctl.at # "type" => InFrame(FrameStart) /\ batch = <<>>
           /\ ctl.at # "discard" /\ Reading /\ ~discardRows
<1>1. Ahead(FrameStart) /\ Reading /\ ~discardRows
  BY DEF Kept, Informed, Delivered
<1>2. reader \in Open
  BY DEF Open
<1>3. ctl.at # "discard" /\ (ctl.at # "type" => batch = <<>>)
  BY <1>1 DEF Reading
<1>4. /\ FrameStart \in Starts /\ FrameStart \in Nat /\ Position \in Nat
      /\ ctl.at = "type" => FrameStart = Position
      /\ ctl.at # "type" => InFrame(FrameStart)
  BY <1>2, <1>3, FrameIs
<1>5. response \in Responses /\ ctl \in Ctls /\ buf \in Buffers(Octets) /\ stream \in Seq(Octets)
  BY DEF Typed, Ctls
<1>6. Buffered(buf) \in Nat /\ Holds(buf, Position) /\ Sent \in Seq(Octets)
  BY UnreadTyped, BufferHolds
<1> QED BY <1>1, <1>3, <1>4, <1>5, <1>6 DEF Ahead

-----------------------------------------------------------------------------
(* The steps, and the rows *)

LEMMA ReadTypeKept ==
    ASSUME Typed, Faithful, Framed, Kept, reader = "reading", ReadType
    PROVE  Kept'
<1> DEFINE type == Byte(buf.data, buf.start)
<1>1. ctl.at = "type" /\ Buffered(buf) >= 1 /\ batch = <<>>
  BY DEF ReadType, HasBytes, Need, Serving
<1>2. /\ response \in Responses /\ ctl \in Ctls /\ buf \in Buffers(Octets) /\ Buffered(buf) \in Nat
      /\ Holds(buf, Position) /\ Position \in Starts /\ Position \in Nat /\ FrameStart = Position
      /\ Knows(Position) /\ (layout.ok => LayoutTyped(layout))
  BY <1>1, Here
<1>3. /\ ctl' = IF type = 0 THEN ctl ELSE [ctl EXCEPT !.at = "header", !.type = type]
      /\ buf' = Skip(buf, 1) /\ reader' = reader /\ UNCHANGED <<response, arrived, stream>>
      /\ UNCHANGED <<description, layout, batch, discardRows, rows>>
  BY DEF ReadType
<1>4. Position' = Position + 1
  BY <1>1, <1>2, <1>3, SkipMoves
<1>5. type = Byte(Sent, Position)
  <2>1. 0 < Buffered(buf) /\ 0 \in Nat
    BY <1>1, <1>2
  <2>2. Byte(buf.data, buf.start + 0) = Byte(Sent, Position + 0)
    BY <1>2, <2>1, Zenon DEF Holds
  <2>3. buf.start + 0 = buf.start /\ Position + 0 = Position
    BY <1>2 DEF Buffers
  <2> QED BY <2>2, <2>3
<1> HIDE DEF type
<1>6. CASE type = 0
  <2>1. Byte(Sent, Position) = 0 /\ HeaderSize(Byte(Sent, Position)) = 1
    BY <1>5, <1>6, HeaderSizes
  <2>2. 0 \notin Ready \cup {CodeT, CodeX, CodeD, CodeY}
    BY DEF Ready, CodeT, CodeX, CodeD, CodeY
  <2>3. FrameSize(Sent, Position) = 1
    <3>1. FrameSize(Sent, Position) = HeaderSize(Byte(Sent, Position))
      BY <1>2, <2>1, FrameEnds
    <3> QED BY <2>1, <3>1
  <2> DEFINE more == Known(response, Position + 1)
  <2>4. /\ more.description = description /\ more.layout = layout
        /\ more.rows = Known(response, FrameStart).rows
    <3>1. ~(HeaderSize(Byte(Sent, Position)) > 5)
      BY <2>1
    <3>2. Byte(Sent, Position) \notin Ready \cup {CodeT, CodeX, CodeD, CodeY}
      BY <2>1, <2>2
    <3>3. LET m == Known(response, Position + FrameSize(Sent, Position))
          IN  /\ m.description = description /\ m.layout = layout
              /\ m.rows = Known(response, Position).rows
      BY <1>2, <3>1, <3>2, NothingTold
    <3> QED BY <1>2, <2>3, <3>3
  <2>5. ctl'.at = "type" /\ reader' \in {"reading", "idle"}
    BY <1>1, <1>3, <1>6
  <2> HIDE DEF more
  <2>6. /\ more.description = description' /\ more.layout = layout'
        /\ layout'.ok => LayoutTyped(layout')
    BY <1>2, <1>3, <2>4
  <2> QED BY <1>3, <1>4, <2>4, <2>5, <2>6, KeptNext DEF more
<1>7. CASE type # 0
  <2>1. ctl'.at = "header"
    BY <1>2, <1>3, <1>7 DEF Ctls
  <2>2. FrameStart' = FrameStart
    BY <1>2, <1>4, <2>1 DEF FrameStart
  <2>3. Reading'
    BY <1>1, <1>3, <2>1 DEF Reading
  <2> QED BY <1>3, <2>2, <2>3, KeptWithin
<1> QED BY <1>6, <1>7

LEMMA SkipHeaderKept ==
    ASSUME Typed, Faithful, Framed, Kept, reader = "reading", SkipHeader
    PROVE  Kept'
<1>1. ctl.at = "header" /\ Buffered(buf) >= 4
  BY DEF SkipHeader, HasBytes, Need
<1>2. /\ response \in Responses /\ ctl \in Ctls /\ buf \in Buffers(Octets) /\ Buffered(buf) \in Nat
      /\ FrameStart \in Starts /\ Position \in Nat /\ FrameStart \in Nat /\ InFrame(FrameStart) /\ batch = <<>>
      /\ Knows(FrameStart) /\ (layout.ok => LayoutTyped(layout))
  BY <1>1, Here
<1>3. /\ ctl.type = Byte(Sent, FrameStart) /\ ctl.type # 0 /\ Position = FrameStart + 1
      /\ ctl.type \in Octets
  BY <1>1, <1>2, FrameEnds DEF InFrame
<1>4. UNCHANGED <<response, arrived, stream, description, layout, batch, discardRows, rows>>
  BY DEF SkipHeader
<1>5. CASE ctl.type \in Ready
  <2>1. reader' \in Over
    BY <1>5 DEF SkipHeader, Ready, Control, Over
  <2>2. Known(response, FrameStart).rows = Len(response.rows)
    BY <1>2, <1>3, <1>5, NoRowTold
  <2> QED BY <1>2, <1>4, <2>1, <2>2, KeptOver
<1>6. CASE ctl.type \notin Ready
  <2>1. buf' = Skip(buf, 4) /\ reader' = reader
    BY <1>6 DEF SkipHeader, NextFrame
  <2>2. Position' = Position + 4
    BY <1>1, <1>2, <1>4, <2>1, SkipMoves
  <2>3. CASE ctl.type \in Control
    <3>1. ctl'.at = "type"
      BY <1>6, <2>3 DEF SkipHeader, NextFrame, ToType
    <3>2. HeaderSize(ctl.type) = 5 /\ ctl.type \notin Ready \cup {CodeT, CodeX, CodeD, CodeY}
      BY <1>6, <2>3, HeaderSizes DEF Control, CodeT, CodeX, CodeD, CodeY
    <3>3. FrameSize(Sent, FrameStart) = 5
      <4>1. HeaderSize(Byte(Sent, FrameStart)) <= 5
        BY <1>3, <3>2
      <4>2. FrameSize(Sent, FrameStart) = HeaderSize(Byte(Sent, FrameStart))
        BY <1>2, <4>1, FrameEnds
      <4> QED BY <1>3, <3>2, <4>2
    <3> DEFINE next == FrameStart + FrameSize(Sent, FrameStart)
               more == Known(response, next)
    <3>4. /\ more.description = description /\ more.layout = layout
          /\ more.rows = Known(response, FrameStart).rows
      <4>1. ~(HeaderSize(Byte(Sent, FrameStart)) > 5)
        BY <1>3, <3>2
      <4> QED BY <1>2, <1>3, <3>2, <4>1, NothingTold
    <3>5. Position' = next
      BY <1>2, <1>3, <2>2, <3>3
    <3>6. reader' \in {"reading", "idle"}
      BY <2>1
    <3> HIDE DEF next
    <3>7. /\ Known(response, next).description = description'
          /\ Known(response, next).layout = layout'
          /\ Known(response, next).rows = Known(response, FrameStart).rows
      BY <1>4, <3>4
    <3>8. layout'.ok => LayoutTyped(layout')
      BY <1>2, <1>4
    <3> HIDE DEF more
    <3> QED BY <1>4, <3>1, <3>5, <3>6, <3>7, <3>8, KeptNext
  <2>4. CASE ctl.type \notin Control
    <3>1. ctl'.at \in {"rowHead", "length"}
      <4>1. ctl' = [ctl EXCEPT !.at = IF ctl.type = CodeY THEN "rowHead" ELSE "length"]
        BY <1>6, <2>4 DEF SkipHeader
      <4> QED BY <1>2, <4>1 DEF Ctls
    <3>2. FrameStart' = Position' - 5
      BY <3>1 DEF FrameStart
    <3>3. FrameStart' = FrameStart
      BY <1>2, <1>3, <2>2, <3>2
    <3>4. Reading'
      BY <1>2, <1>4, <3>1 DEF Reading
    <3> QED BY <1>4, <2>1, <3>3, <3>4, KeptWithin
  <2> QED BY <2>3, <2>4
<1> QED BY <1>5, <1>6

\* The generator stays where it is.
LEMMA KeptWaiting ==
    ASSUME Kept, reader \in {"reading", "idle"}, reader' \in {"reading", "idle"}, Position' = Position,
           UNCHANGED <<response, ctl, description, layout, batch, discardRows, rows>>
    PROVE  Kept'
<1>1. FrameStart' = FrameStart /\ Sent' = Sent
  BY DEF FrameStart, Sent
<1>2. Reading
  BY DEF Kept, Informed
<1>3. Reading'
  BY <1>1, <1>2 DEF Reading
<1> QED BY <1>1, <1>3, KeptWithin

LEMMA ReadLengthKept ==
    ASSUME Typed, Faithful, Framed, Kept, reader = "reading", ReadLength
    PROVE  Kept'
<1> DEFINE len == Int32BE(buf.data, buf.start)
<1>1. ctl.at = "length" /\ Buffered(buf) >= 4
  BY DEF ReadLength, HasBytes, Need
<1>2. /\ response \in Responses /\ ctl \in Ctls /\ buf \in Buffers(Octets) /\ Buffered(buf) \in Nat
      /\ FrameStart \in Starts /\ Position \in Nat /\ FrameStart \in Nat /\ InFrame(FrameStart) /\ batch = <<>>
      /\ ~discardRows
  BY <1>1, Here
<1>3. Position = FrameStart + 5 /\ HeaderSize(Byte(Sent, FrameStart)) = 9
  BY <1>1, <1>2 DEF InFrame
<1>4. UNCHANGED <<response, arrived, stream, description, layout, discardRows>>
  BY DEF ReadLength
<1>5. len = PayloadLength(Sent, FrameStart) /\ len \in Int
  <2>1. 0 + 4 <= Buffered(buf) /\ Position + 0 = FrameStart + HeaderSize(Byte(Sent, FrameStart)) - 4
    BY <1>1, <1>2, <1>3
  <2>2. HeaderSize(Byte(Sent, FrameStart)) \in {9, 13}
    BY <1>3
  <2>3. Int32BE(buf.data, buf.start + 0) = PayloadLength(Sent, FrameStart) /\ PayloadLength(Sent, FrameStart) \in Int
    BY <1>2, <2>1, <2>2, PayloadRead
  <2>4. buf.start + 0 = buf.start
    BY <1>2 DEF Buffers
  <2> QED BY <2>3, <2>4
<1>6. \/ ~ValidLength(len) /\ Fault
      \/ /\ ctl' = [ctl EXCEPT !.at = "payload", !.len = len]
         /\ buf' = Skip(buf, 4) /\ UNCHANGED <<batch, reader, rows>>
  BY <1>2 DEF ReadLength
<1> HIDE DEF len
<1>7. CASE ~ValidLength(len) /\ Fault
  <2>1. HeaderSize(Byte(Sent, FrameStart)) > 5
    BY <1>3
  <2>2. ~(PayloadLength(Sent, FrameStart) >= 0)
    BY <1>2, <1>5, <1>7, <2>1, LengthAllowed DEF ValidLength
  <2>3. Known(response, FrameStart).rows = Len(response.rows)
    BY <1>2, <2>1, <2>2, NoRowTold
  <2>4. reader' \in Over /\ UNCHANGED <<response, discardRows, rows>>
    BY <1>4, <1>7 DEF Fault, Over
  <2> QED BY <1>2, <2>3, <2>4, KeptOver
<1>8. CASE /\ ctl' = [ctl EXCEPT !.at = "payload", !.len = len]
           /\ buf' = Skip(buf, 4) /\ UNCHANGED <<batch, reader, rows>>
  <2>1. Position' = Position + 4
    BY <1>1, <1>2, <1>4, <1>8, SkipMoves
  <2>2. ctl'.at = "payload"
    BY <1>2, <1>8 DEF Ctls
  <2>3. FrameStart' = Position' - 9
    BY <2>2 DEF FrameStart
  <2>4. FrameStart' = FrameStart
    BY <1>2, <1>3, <2>1, <2>3
  <2>5. Reading'
    BY <1>2, <1>8, <2>2 DEF Reading
  <2> QED BY <1>4, <1>8, <2>4, <2>5, KeptWithin
<1> QED BY <1>6, <1>7, <1>8

LEMMA ReadRowHeadKept ==
    ASSUME Typed, Faithful, Framed, Kept, reader = "reading", ReadRowHead
    PROVE  Kept'
<1> DEFINE len == Int32BE(buf.data, buf.start + 4)
<1>1. ctl.at = "rowHead" /\ Buffered(buf) >= 8
  BY DEF ReadRowHead, HasBytes, Need
<1>2. /\ response \in Responses /\ ctl \in Ctls /\ buf \in Buffers(Octets) /\ Buffered(buf) \in Nat
      /\ FrameStart \in Starts /\ Position \in Nat /\ FrameStart \in Nat /\ InFrame(FrameStart) /\ batch = <<>>
      /\ ~discardRows /\ Knows(FrameStart) /\ (layout.ok => LayoutTyped(layout)) /\ Sent \in Seq(Octets)
  BY <1>1, Here
<1>3. Position = FrameStart + 5 /\ Byte(Sent, FrameStart) = CodeY /\ HeaderSize(CodeY) = 13
  BY <1>1, <1>2, HeaderSizes DEF InFrame
<1>4. UNCHANGED <<response, arrived, stream, description, layout, discardRows>>
  BY DEF ReadRowHead
<1>5. len = PayloadLength(Sent, FrameStart) /\ len \in Int
  <2>1. 4 + 4 <= Buffered(buf) /\ Position + 4 = FrameStart + HeaderSize(Byte(Sent, FrameStart)) - 4
    BY <1>1, <1>2, <1>3
  <2>2. HeaderSize(Byte(Sent, FrameStart)) \in {9, 13}
    BY <1>3
  <2> QED BY <1>2, <2>1, <2>2, PayloadRead
<1>6. \/ ~(ValidLength(len) /\ len > 0) /\ Fault
      \/ /\ ValidLength(len) /\ len > 0 /\ ctl' = [ctl EXCEPT !.at = "row", !.len = len]
         /\ UNCHANGED <<buf, batch, reader, rows>>
  BY <1>2 DEF ReadRowHead
<1> HIDE DEF len
<1>7. CASE ~(ValidLength(len) /\ len > 0) /\ Fault
  <2>1. HeaderSize(Byte(Sent, FrameStart)) > 5
    BY <1>3
  <2>2. len < 0 \/ len = 0
    BY <1>2, <1>5, <1>7, <2>1, LengthAllowed DEF ValidLength
  <2>3. ASSUME len < 0 PROVE Known(response, FrameStart).rows = Len(response.rows)
    <3>1. ~(PayloadLength(Sent, FrameStart) >= 0)
      BY <1>5, <2>3
    <3> QED BY <1>2, <2>1, <3>1, NoRowTold
  <2>4. ASSUME len = 0 PROVE Known(response, FrameStart).rows = Len(response.rows)
    <3> DEFINE at == FrameStart + HeaderSize(CodeY)
    <3>1. SameBytes(Sent, at, Sent, at, 0)
      <4>1. FrameStart + 13 <= Len(Sent)
        BY <1>2, <1>3, FrameEnds
      <4>2. at \in Nat /\ at + 0 <= Len(Sent) /\ 0 \in Nat
        BY <1>2, <1>3, <4>1
      <4> HIDE DEF at
      <4> QED BY <1>2, <4>2 DEF SameBytes
    <3>2. IsNext(FrameStart, RowAt(CodeY, Sent, at, at + 0))
      <4>1. 0 \in Nat /\ PayloadLength(Sent, FrameStart) = 0 /\ CodeY \in {CodeD, CodeY}
        BY <1>5, <2>4
      <4> QED BY <1>2, <1>3, <3>1, <4>1, RowSent
    <3>3. at + 0 = at /\ CodeY # CodeD
      BY <1>2, <1>3 DEF CodeY, CodeD
    <3> HIDE DEF at
    <3>4. RowAt(CodeY, Sent, at, at + 0) = Malformed
      BY <3>3 DEF RowAt, RowOf
    <3>5. ~RowAt(CodeY, Sent, at, at + 0).ok
      BY <3>4 DEF Malformed
    <3> QED BY <3>2, <3>5 DEF IsNext
  <2>5. reader' \in Over /\ UNCHANGED <<response, discardRows, rows>>
    BY <1>4, <1>7 DEF Fault, Over
  <2> QED BY <1>2, <2>2, <2>3, <2>4, <2>5, KeptOver
<1>8. CASE /\ ValidLength(len) /\ len > 0 /\ ctl' = [ctl EXCEPT !.at = "row", !.len = len]
           /\ UNCHANGED <<buf, batch, reader, rows>>
  <2>1. Position' = Position
    BY <1>4, <1>8 DEF Position, Unread, Content
  <2> DEFINE c == [ctl EXCEPT !.at = "row"]
  <2>2. c = [at |-> "row", type |-> ctl.type, len |-> ctl.len, left |-> ctl.left, held |-> ctl.held]
    BY <1>2 DEF Ctls
  <2>3. ctl' = [c EXCEPT !.len = len]
    BY <1>8
  <2> HIDE DEF c
  <2>4. ctl' = [at |-> "row", type |-> ctl.type, len |-> len, left |-> ctl.left, held |-> ctl.held]
    BY <2>2, <2>3
  <2>5. ctl'.at = "row" /\ ctl'.len = len
    BY <2>4
  <2>6. FrameStart' = Position' - 5
    BY <2>5 DEF FrameStart
  <2>7. FrameStart' = FrameStart
    BY <1>2, <1>3, <2>1, <2>6
  <2>8. Reading'
    BY <1>2, <1>8, <2>5 DEF Reading
  <2> QED BY <1>4, <1>8, <2>7, <2>8, KeptWithin
<1> QED BY <1>6, <1>7, <1>8

\* The payload of the frame the generator is in has been read; it is followed by b
\* in the buffer.
PayloadAt(payload, b, m, k) ==
    /\ response \in Responses /\ batch = <<>>
    /\ FrameStart \in Starts /\ Knows(FrameStart)
    /\ layout.ok => LayoutTyped(layout)
    /\ ctl.type = Byte(Sent, FrameStart) /\ HeaderSize(ctl.type) = 9
    /\ PayloadLength(Sent, FrameStart) \in Nat
    /\ Behind(b, m, k)
    /\ Position + m + k = FrameStart + FrameSize(Sent, FrameStart)
    /\ payload = Slice(Sent, FrameStart + 9, FrameStart + FrameSize(Sent, FrameStart))

\* Whatever the frame is: what it tells is known, and its row is given.
LEMMA PayloadKept ==
    ASSUME Typed, Faithful, Kept, reader = "reading", UNCHANGED discardRows,
           NEW payload, NEW b, NEW m, NEW k, PayloadAt(payload, b, m, k), HandlePayload(payload, b)
    PROVE  Kept'
<1> DEFINE start == FrameStart
           next == FrameStart + FrameSize(Sent, FrameStart)
           n == PayloadLength(Sent, FrameStart)
<1>1. /\ response \in Responses /\ batch = <<>> /\ start \in Starts /\ Knows(start)
      /\ layout.ok => LayoutTyped(layout)
      /\ ctl.type = Byte(Sent, start) /\ HeaderSize(ctl.type) = 9 /\ n \in Nat
      /\ Behind(b, m, k) /\ Position + m + k = next /\ payload = Slice(Sent, start + 9, next)
  BY DEF PayloadAt
<1>2. /\ start \in Nat /\ ctl.type \in Octets /\ Sent \in Seq(Octets) /\ next = start + 9 + n
      /\ next <= Len(Sent) /\ start + 9 \in Nat /\ start + 9 <= next /\ next \in Nat
  <2>1. start \in Nat /\ ctl.type \in Octets /\ Sent \in Seq(Octets)
    BY <1>1, FrameEnds
  <2>2. HeaderSize(Byte(Sent, start)) = 9 /\ PayloadLength(Sent, start) >= 0
    BY <1>1
  <2>3. FrameSize(Sent, start) = 9 + n /\ start + FrameSize(Sent, start) <= Len(Sent)
    BY <1>1, <2>2, FrameEnds
  <2> DEFINE size == FrameSize(Sent, start)
  <2>4. size = 9 + n /\ start + size <= Len(Sent) /\ next = start + size /\ n \in Nat
    BY <1>1, <2>3
  <2> HIDE DEF size, next, start, n
  <2>5. next = start + 9 + n /\ start + 9 <= next /\ next \in Nat /\ start + 9 \in Nat /\ next <= Len(Sent)
    BY <2>1, <2>4
  <2> QED BY <2>1, <2>5
<1>3. response' = response
  BY <1>1 DEF Behind
<1>4. ctl.type \notin Ready
  <2>1. ctl.type \in Ready => HeaderSize(ctl.type) = 5
    BY HeaderSizes
  <2> QED BY <1>1, <2>1
<1>5. HeaderSize(Byte(Sent, start)) > 5 /\ PayloadLength(Sent, start) >= 0
  BY <1>1
<1>6. ASSUME buf' = b PROVE Position' = next
  <2>1. Moves(m, k)
    BY <1>1, <1>6 DEF Behind, Moves
  <2>2. Position' = Position + m + k
    BY <2>1, Moved
  <2> QED BY <1>1, <2>2
<1>7. Yield => reader' = "idle" /\ ctl'.at = "type"
  BY DEF Yield, ToType
<1>8. Fault => reader' \in Over /\ UNCHANGED rows
  BY DEF Fault, Over
<1> HIDE DEF next, n
<1>9. ASSUME ctl.type = CodeT, description' = ParseRowDescription(payload),
             IF description'.ok THEN Yield /\ UNCHANGED <<batch, rows>> ELSE Fault,
             buf' = b, UNCHANGED layout
      PROVE  Kept'
  <2> DEFINE known == Known(response, start)
             more == Known(response, next)
  <2>1. /\ ~description'.ok => known.rows = Len(response.rows)
        /\ description'.ok => more.description = description' /\ more.layout = layout /\ more.rows = known.rows
    <3>1. Byte(Sent, start) = CodeT
      BY <1>1, <1>9
    <3> HIDE DEF start
    <3> QED BY <1>1, <1>5, <1>9, <3>1, ColumnsTold DEF next, start
  <2>2. CASE ~description'.ok
    <3>1. reader' \in Over /\ UNCHANGED rows
      BY <1>8, <1>9, <2>2
    <3> QED BY <1>1, <1>3, <2>1, <2>2, <3>1, KeptOver
  <2>3. CASE description'.ok
    <3>1. reader' \in {"reading", "idle"} /\ ctl'.at = "type" /\ UNCHANGED <<batch, rows>>
      BY <1>7, <1>9, <2>3
    <3>2. /\ Known(response, next).description = description'
          /\ Known(response, next).layout = layout'
          /\ Known(response, next).rows = Known(response, FrameStart).rows
      BY <1>9, <2>1, <2>3
    <3>3. layout'.ok => LayoutTyped(layout')
      BY <1>1, <1>9
    <3> HIDE DEF known, more, start
    <3> QED BY <1>3, <1>6, <1>9, <3>1, <3>2, <3>3, KeptNext
  <2> QED BY <2>2, <2>3
<1>10. ASSUME ctl.type = CodeX, layout' = ParseDescriptor(payload, description),
              IF layout'.ok THEN Yield /\ UNCHANGED <<batch, rows>> ELSE Fault,
              buf' = b, UNCHANGED description
       PROVE  Kept'
  <2> DEFINE known == Known(response, start)
             more == Known(response, next)
  <2>1. /\ ~layout'.ok => known.rows = Len(response.rows)
        /\ layout'.ok => more.description = description /\ more.layout = layout' /\ more.rows = known.rows
    <3>1. Byte(Sent, start) = CodeX
      BY <1>1, <1>10
    <3> HIDE DEF start
    <3> QED BY <1>1, <1>5, <1>10, <3>1, LayoutTold DEF next, start
  <2>2. CASE ~layout'.ok
    <3>1. reader' \in Over /\ UNCHANGED rows
      BY <1>8, <1>10, <2>2
    <3> QED BY <1>1, <1>3, <2>1, <2>2, <3>1, KeptOver
  <2>3. CASE layout'.ok
    <3>1. reader' \in {"reading", "idle"} /\ ctl'.at = "type" /\ UNCHANGED <<batch, rows>>
      BY <1>7, <1>10, <2>3
    <3>2. /\ Known(response, next).description = description'
          /\ Known(response, next).layout = layout'
          /\ Known(response, next).rows = Known(response, FrameStart).rows
      BY <1>10, <2>1, <2>3
    <3>3. LayoutTyped(layout')
      <4>1. payload \in Seq(Octets)
        <5> DEFINE from == start + 9
        <5>1. from \in Nat /\ from <= next /\ payload = SubSeq(Sent, from + 1, next)
          BY <1>1, <1>2 DEF Slice
        <5> HIDE DEF from
        <5> QED BY <1>2, <5>1, SliceTyped
      <4>2. ParseDescriptor(payload, description).ok
        BY <1>10, <2>3
      <4> QED BY <1>10, <4>1, <4>2, DescribedLayout
    <3> HIDE DEF known, more, start
    <3> QED BY <1>3, <1>6, <1>10, <3>1, <3>2, <3>3, KeptNext
  <2> QED BY <2>2, <2>3
<1>11. ASSUME ctl.type = CodeD,
              IF ~DataRowAt(payload).ok THEN Fault /\ buf' = b
              ELSE /\ YieldRow(DataRowAt(payload).row)
                   /\ batch' = DataRowBatch(b).rows /\ buf' = [b EXCEPT !.start = DataRowBatch(b).at],
              UNCHANGED <<description, layout>>
       PROVE  Kept'
  <2> DEFINE row == DataRowAt(payload)
             at == start + 9
  <2>1. IsNext(start, row)
    <3>1. SameBytes(Sent, at, Sent, at, n)
      <4>1. at \in Nat /\ at + n <= Len(Sent)
        BY <1>2
      <4> HIDE DEF at
      <4> QED BY <1>1, <1>2, <4>1 DEF SameBytes
    <3>2. Byte(Sent, start) = CodeD /\ HeaderSize(CodeD) = 9 /\ CodeD \in {CodeD, CodeY}
      BY <1>1, <1>11
    <3>3. at = start + HeaderSize(CodeD) /\ PayloadLength(Sent, start) = n
      BY <3>2 DEF n
    <3>4. IsNext(start, RowAt(CodeD, Sent, at, at + n))
      <4>1. SameBytes(Sent, at, Sent, start + HeaderSize(CodeD), n)
        BY <3>1, <3>3
      <4> HIDE DEF start, at
      <4> QED BY <1>1, <3>2, <3>3, <4>1, RowSent
    <3>5. RowAt(CodeD, Sent, at, at + n) = row
      <4>1. payload = Slice(Sent, at, at + n)
        BY <1>1, <1>2
      <4> QED BY <4>1 DEF RowAt, RowOf, DataRowAt
    <3> QED BY <3>4, <3>5
  <2>2. CASE ~row.ok
    <3>1. reader' \in Over /\ UNCHANGED rows
      BY <1>8, <1>11, <2>2
    <3>2. Known(response, FrameStart).rows = Len(response.rows)
      BY <2>1, <2>2 DEF IsNext
    <3> QED BY <1>1, <1>3, <3>1, <3>2, KeptOver
  <2>3. CASE row.ok
    <3> DEFINE more == Batch(b, CodeD, HeaderSize(CodeD))
    <3>1. more = DataRowBatch(b) /\ CodeD \in {CodeD, CodeY}
      BY HeaderSizes DEF DataRowBatch
    <3>2. YieldRow(row.row) /\ batch' = DataRowBatch(b).rows /\ buf' = [b EXCEPT !.start = DataRowBatch(b).at]
      BY <1>11, <2>3
    <3>3. reader' \in {"reading", "idle"} /\ ctl'.at = "type" /\ rows' = Append(rows, row.row)
      BY <1>7, <3>2 DEF YieldRow
    <3> HIDE DEF more, row
    <3>4. buf' = [b EXCEPT !.start = more.at] /\ batch' = more.rows
      BY <3>1, <3>2
    <3>5. more = Batch(b, CodeD, HeaderSize(CodeD))
      BY DEF more
    <3>6. Position + m + k = FrameStart + FrameSize(Sent, FrameStart)
      BY <1>1 DEF next
    <3>7. UNCHANGED <<description, layout, discardRows>>
      BY <1>11
    <3> QED BY <1>1, <2>1, <2>3, <3>1, <3>3, <3>4, <3>5, <3>6, <3>7, KeptRow
  <2> QED BY <2>2, <2>3
<1>12. ASSUME ctl.type \notin {CodeT, CodeX, CodeD}, Yield \/ NextFrame, buf' = b,
              UNCHANGED <<description, layout, batch, rows>>
       PROVE  Kept'
  <2>1. ctl.type # CodeY
    <3>1. HeaderSize(CodeY) = 13
      BY HeaderSizes
    <3> QED BY <1>1, <3>1
  <2>2. Byte(Sent, start) \notin Ready \cup {CodeT, CodeX, CodeD, CodeY}
    BY <1>1, <1>4, <1>12, <2>1
  <2>3. /\ Known(response, next).description = description
        /\ Known(response, next).layout = layout
        /\ Known(response, next).rows = Known(response, start).rows
    <3> HIDE DEF start
    <3> QED BY <1>1, <1>5, <2>2, NothingTold DEF next, start
  <2>4. reader' \in {"reading", "idle"}
    BY <1>12 DEF Yield, NextFrame
  <2>5. ctl'.at = "type"
    BY <1>12 DEF Yield, NextFrame, ToType
  <2>6. /\ Known(response, next).description = description'
        /\ Known(response, next).layout = layout'
        /\ Known(response, next).rows = Known(response, FrameStart).rows
    BY <1>12, <2>3
  <2>7. layout'.ok => LayoutTyped(layout')
    BY <1>1, <1>12
  <2> QED BY <1>3, <1>6, <1>12, <2>4, <2>5, <2>6, <2>7, KeptNext
<1>13. CodeT \notin {CodeC, CodeE, CodeN} /\ CodeX \notin {CodeC, CodeE, CodeN} /\ CodeD \notin {CodeC, CodeE, CodeN}
  BY DEF CodeT, CodeX, CodeD, CodeC, CodeE, CodeN
<1>14. \/ /\ ctl.type = CodeT /\ description' = ParseRowDescription(payload)
          /\ IF description'.ok THEN Yield /\ UNCHANGED <<batch, rows>> ELSE Fault
          /\ buf' = b /\ UNCHANGED layout
       \/ /\ ctl.type = CodeX /\ layout' = ParseDescriptor(payload, description)
          /\ IF layout'.ok THEN Yield /\ UNCHANGED <<batch, rows>> ELSE Fault
          /\ buf' = b /\ UNCHANGED description
       \/ /\ ctl.type = CodeD
          /\ IF ~DataRowAt(payload).ok THEN Fault /\ buf' = b
             ELSE /\ YieldRow(DataRowAt(payload).row)
                  /\ batch' = DataRowBatch(b).rows /\ buf' = [b EXCEPT !.start = DataRowBatch(b).at]
          /\ UNCHANGED <<description, layout>>
       \/ /\ ctl.type \notin {CodeT, CodeX, CodeD} /\ (Yield \/ NextFrame) /\ buf' = b
          /\ UNCHANGED <<description, layout, batch, rows>>
  BY <1>13, ZenonT(60) DEF HandlePayload
<1> QED BY <1>9, <1>10, <1>11, <1>12, <1>14, ZenonT(60)

LEMMA ReadPayloadKept ==
    ASSUME Typed, Faithful, Framed, Kept, reader = "reading", ReadPayload
    PROVE  Kept'
<1> DEFINE payload == Slice(buf.data, buf.start, buf.start + ctl.len)
           b == Skip(buf, ctl.len)
           next == FrameStart + FrameSize(Sent, FrameStart)
<1>1. ctl.at = "payload" /\ Buffered(buf) >= ctl.len
  BY DEF ReadPayload, HasBytes, Need
<1>2. /\ response \in Responses /\ ctl \in Ctls /\ buf \in Buffers(Octets) /\ Buffered(buf) \in Nat
      /\ FrameStart \in Starts /\ Position \in Nat /\ FrameStart \in Nat /\ InFrame(FrameStart) /\ batch = <<>>
      /\ Knows(FrameStart) /\ (layout.ok => LayoutTyped(layout)) /\ Sent \in Seq(Octets)
      /\ Holds(buf, Position) /\ stream \in Seq(Octets)
  BY <1>1, Here
<1>3. /\ Position = FrameStart + 9 /\ ctl.type = Byte(Sent, FrameStart) /\ HeaderSize(ctl.type) = 9
      /\ ctl.len = PayloadLength(Sent, FrameStart)
  BY <1>1, <1>2 DEF InFrame
<1>4. ctl.len \in Nat /\ ctl.len \in 0 .. Buffered(buf) /\ ctl.len <= Buffered(buf)
  BY <1>1, <1>2 DEF Ctls
<1>5. Drops(buf, b, ctl.len)
  BY <1>2, <1>4, SkipDrops
<1>6. 0 \in 0 .. Len(stream) /\ stream' = SubSeq(stream, 0 + 1, Len(stream)) /\ UNCHANGED <<response, arrived>>
  BY <1>2, BufferMoves DEF Moves, ReadPayload
<1>7. next = FrameStart + 9 + ctl.len
  <2>1. HeaderSize(Byte(Sent, FrameStart)) = 9
    BY <1>3
  <2>2. FrameSize(Sent, FrameStart) = 9 + ctl.len
    BY <1>2, <1>3, <2>1, FrameEnds
  <2> QED BY <1>2, <1>4, <2>2
<1>8. Position + ctl.len + 0 = next /\ Position + ctl.len = next
  BY <1>2, <1>3, <1>4, <1>7
<1>9. next \in Starts
  <2>1. FrameStart + 9 + ctl.len \in Starts
    BY <1>2, <1>3, <1>4, PayloadEnds
  <2> QED BY <1>7, <2>1
<1>10. payload = Slice(Sent, FrameStart + 9, next)
  <2>1. payload = Slice(Sent, Position, Position + ctl.len)
    BY <1>2, <1>4, HeldSent
  <2> QED BY <1>3, <1>8, <2>1
<1>11. HandlePayload(payload, b) /\ UNCHANGED discardRows
  BY DEF ReadPayload
<1> HIDE DEF payload, b, next
<1>12. Behind(b, ctl.len, 0)
  BY <1>5, <1>6, <1>8, <1>9 DEF Behind
<1>13. PayloadAt(payload, b, ctl.len, 0)
  <2>1. Position + ctl.len + 0 = FrameStart + FrameSize(Sent, FrameStart)
        /\ payload = Slice(Sent, FrameStart + 9, FrameStart + FrameSize(Sent, FrameStart))
    BY <1>8, <1>10 DEF next
  <2> QED BY <1>2, <1>3, <1>4, <1>12, <2>1 DEF PayloadAt
<1> QED BY <1>11, <1>13, PayloadKept

LEMMA CollectKept ==
    ASSUME Typed, Faithful, Framed, Kept, reader = "reading", Collect
    PROVE  Kept'
<1> DEFINE n == Buffered(buf)
           held == Content(buf)
<1>1. ctl.at = "payload"
  BY DEF Collect, TooLarge
<1>2. /\ response \in Responses /\ ctl \in Ctls /\ buf \in Buffers(Octets) /\ n \in Nat
      /\ FrameStart \in Starts /\ Position \in Nat /\ FrameStart \in Nat /\ InFrame(FrameStart) /\ batch = <<>>
      /\ Sent \in Seq(Octets) /\ Holds(buf, Position) /\ stream \in Seq(Octets)
  BY <1>1, Here
<1>3. Position = FrameStart + 9
  BY <1>1, <1>2 DEF InFrame
<1>4. /\ UNCHANGED <<response, arrived, stream, description, layout, batch, discardRows, reader, rows>>
      /\ ctl' = [ctl EXCEPT !.at = "collect", !.held = held]
      /\ buf' = IF n > 0 THEN Emptied(buf) ELSE buf
  BY DEF Collect
<1>5. held \in Seq(Octets) /\ Len(held) = n
  BY UnreadTyped
<1>6. Drops(buf, buf', n)
  <2>1. CASE n > 0
    BY <1>2, <1>4, <2>1, EmptiedDrops
  <2>2. CASE ~(n > 0)
    <3>1. n = 0
      BY <1>2, <2>2
    <3> QED BY <1>2, <1>4, <2>2, <3>1, SameDrops
  <2> QED BY <2>1, <2>2
<1>7. Position' = Position + n /\ Sent' = Sent
  <2>1. Moves(n, 0)
    BY <1>2, <1>4, <1>6, BufferMoves
  <2>2. Position' = Position + n + 0 /\ Sent' = Sent
    BY <2>1, Moved
  <2> QED BY <1>2, <2>2
<1>8. ctl'.at = "collect" /\ ctl'.held = held
  <2> DEFINE c == [ctl EXCEPT !.at = "collect"]
  <2>1. c = [at |-> "collect", type |-> ctl.type, len |-> ctl.len, left |-> ctl.left, held |-> ctl.held]
    BY <1>2 DEF Ctls
  <2>2. ctl' = [c EXCEPT !.held = held]
    BY <1>4
  <2> HIDE DEF c, held
  <2>3. ctl' = [at |-> "collect", type |-> ctl.type, len |-> ctl.len, left |-> ctl.left, held |-> held]
    BY <2>1, <2>2
  <2> QED BY <2>3
<1>9. held = Slice(Sent, Position, Position + n)
  <2>1. Content(buf) = Slice(buf.data, buf.start, buf.start + n)
    <3>1. buf.start + n = buf.end
      BY <1>2 DEF Buffers, Buffered
    <3> QED BY <3>1 DEF Content, Slice
  <2>2. n <= Buffered(buf)
    BY <1>2
  <2> HIDE DEF n
  <2> QED BY <1>2, <2>1, <2>2, HeldSent
<1> HIDE DEF held, n
<1>10. FrameStart' = Position' - 9 - n
  <2>1. FrameStart' = Position' - 9 - Len(ctl'.held)
    BY <1>8 DEF FrameStart
  <2> QED BY <1>5, <1>8, <2>1
<1>11. FrameStart' = FrameStart
  BY <1>2, <1>3, <1>7, <1>10
<1>12. Reading'
  <2>1. held = Slice(Sent, FrameStart + 9, Position')
    BY <1>3, <1>7, <1>9
  <2> QED BY <1>2, <1>4, <1>7, <1>8, <1>11, <2>1 DEF Reading
<1> QED BY <1>4, <1>11, <1>12, KeptWithin

\* Bytes of the socket behind an empty buffer are those of the response.
LEMMA SocketHolds ==
    ASSUME Typed, Faithful, Buffered(buf) = 0, NEW n \in Nat, n <= Len(stream)
    PROVE  /\ SubSeq(stream, 1, n) = SubSeq(Sent, Position + 1, Position + n)
           /\ Position + n <= Len(Sent) /\ Position \in Nat /\ Sent \in Seq(Octets) /\ Len(Sent) \in Nat
<1> DEFINE l == Len(stream)
           p == Position
           s == stream
           t == SubSeq(s, 0 + 1, n)
           u == SubSeq(Sent, p + 1, p + n)
<1>1. /\ s \in Seq(Octets) /\ l \in Nat /\ Sent \in Seq(Octets) /\ Len(Sent) \in Nat
      /\ arrived \in Nat /\ arrived <= Len(Sent) /\ Content(buf) \in Seq(Octets) /\ Len(Content(buf)) = 0
  BY UnreadTyped
<1>2. p \in Nat /\ p + 0 + l = arrived
  BY BufferHolds
<1>3. Content(buf) = <<>>
  BY <1>1, EmptySeq
<1>4. Unread = s
  BY <1>1, <1>3 DEF Unread
<1>5. s = SubSeq(Sent, p + 1, arrived)
  BY <1>4 DEF Faithful, Position
<1> HIDE DEF l, p, s
<1>6. l = Len(s) /\ n \in Nat /\ n <= l /\ arrived - p = l /\ p <= arrived /\ p + n <= Len(Sent) /\ p + n \in Nat
      /\ p <= p + n /\ (p + n) - p = n /\ n - 0 = n /\ 0 <= n /\ 0 \in Nat
  BY <1>1, <1>2 DEF l, s
<1>7. \A i \in 1 .. l : s[i] = Sent[p + i]
  <2>1. \A i \in 1 .. arrived - p : SubSeq(Sent, p + 1, arrived)[i] = Sent[p + i]
    BY <1>1, <1>2, <1>6, SliceTyped
  <2> QED BY <1>5, <1>6, <2>1
<1>8. t \in Seq(Octets) /\ Len(t) = n /\ \A i \in 1 .. n : t[i] = s[0 + i]
  <2>1. n <= Len(s)
    BY <1>6
  <2>2. t \in Seq(Octets) /\ Len(t) = n - 0 /\ \A i \in 1 .. n - 0 : t[i] = s[0 + i]
    BY <1>1, <1>6, <2>1, SliceTyped
  <2> QED BY <1>6, <2>2
<1>9. u \in Seq(Octets) /\ Len(u) = n /\ \A i \in 1 .. n : u[i] = Sent[p + i]
  <2> DEFINE q == p + n
  <2>0. q \in Nat /\ p \in Nat /\ p <= q /\ q <= Len(Sent)
    BY <1>2, <1>6
  <2>1. u \in Seq(Octets) /\ Len(u) = q - p /\ \A i \in 1 .. q - p : u[i] = Sent[p + i]
    <3>1. u = SubSeq(Sent, p + 1, q)
      OBVIOUS
    <3> HIDE DEF q, u
    <3> QED BY <1>1, <2>0, <3>1, SliceTyped
  <2> QED BY <1>6, <2>1
<1> HIDE DEF t, u
<1>10. ASSUME NEW i \in 1 .. Len(t) PROVE t[i] = u[i]
  <2>1. i \in 1 .. n /\ i \in 1 .. l /\ 0 + i = i
    BY <1>6, <1>8
  <2> QED BY <1>7, <1>8, <1>9, <2>1
<1>11. t = u
  BY <1>8, <1>9, <1>10, SeqEqual, Zenon
<1>12. SubSeq(s, 1, n) = u
  BY <1>11 DEF t
<1> QED BY <1>1, <1>2, <1>6, <1>12 DEF u, s, p

\* What is collected goes on with the bytes of the socket.
LEMMA CollectedOn ==
    ASSUME Typed, Faithful, Buffered(buf) = 0, NEW start \in Nat, NEW held,
           start <= Position, held = Slice(Sent, start, Position),
           NEW n \in Nat, n <= Len(stream)
    PROVE  /\ held \o SubSeq(stream, 1, n) = Slice(Sent, start, Position + n)
           /\ Len(held) = Position - start
<1> DEFINE p == Position
           q == Position + n
<1>1. /\ SubSeq(stream, 1, n) = SubSeq(Sent, p + 1, q)
      /\ q <= Len(Sent) /\ p \in Nat /\ Sent \in Seq(Octets) /\ Len(Sent) \in Nat
  BY SocketHolds
<1>2. q \in Nat /\ p <= q /\ p <= Len(Sent)
  BY <1>1
<1>3. held = SubSeq(Sent, start + 1, p) /\ start <= p
  BY DEF Slice
<1> HIDE DEF p, q
<1>4. SubSeq(Sent, start + 1, p) \o SubSeq(Sent, p + 1, q) = SubSeq(Sent, start + 1, q)
  BY <1>1, <1>2, <1>3, JoinedPieces
<1>5. Len(SubSeq(Sent, start + 1, p)) = p - start
  BY <1>1, <1>2, <1>3, SliceTyped
<1> QED BY <1>1, <1>3, <1>4, <1>5 DEF p, q, Slice

LEMMA CollectMoreKept ==
    ASSUME Typed, Faithful, Framed, Kept, reader = "reading", CollectMore
    PROVE  Kept'
<1> DEFINE h == Len(ctl.held)
           l == Len(stream)
           left == ctl.len - h
           next == FrameStart + FrameSize(Sent, FrameStart)
<1>1. ctl.at = "collect"
  BY DEF CollectMore
<1>2. /\ response \in Responses /\ ctl \in Ctls /\ buf \in Buffers(Octets) /\ Buffered(buf) = 0
      /\ FrameStart \in Starts /\ Position \in Nat /\ FrameStart \in Nat /\ InFrame(FrameStart) /\ batch = <<>>
      /\ Knows(FrameStart) /\ (layout.ok => LayoutTyped(layout)) /\ Sent \in Seq(Octets)
      /\ stream \in Seq(Octets) /\ Reading
  <2>1. Buffered(buf) = 0
    BY <1>1 DEF Typed, Collecting
  <2> QED BY <1>1, <2>1, Here
<1>3. /\ Position = FrameStart + 9 + h /\ ctl.type = Byte(Sent, FrameStart) /\ HeaderSize(ctl.type) = 9
      /\ ctl.len = PayloadLength(Sent, FrameStart)
  BY <1>1, <1>2 DEF InFrame
<1>4. ctl.len \in Nat /\ h \in Nat /\ l \in Nat /\ h < ctl.len
  BY <1>1, <1>2 DEF Ctls, Typed
<1>5. ctl.held = Slice(Sent, FrameStart + 9, Position) /\ FrameStart + 9 \in Nat /\ FrameStart + 9 <= Position
  <2>1. ctl.held = Slice(Sent, FrameStart + 9, Position)
    BY <1>1, <1>2 DEF Reading
  <2> HIDE DEF h
  <2> QED BY <1>2, <1>3, <1>4, <2>1
<1>6. UNCHANGED <<response, arrived, discardRows>>
  BY DEF CollectMore
<1>7. Drops(buf, buf, 0)
  BY <1>2, SameDrops
<1>8. CASE l < left
  <2> DEFINE held == ctl.held \o stream
  <2>1. /\ ctl' = [ctl EXCEPT !.held = held] /\ stream' = <<>>
        /\ UNCHANGED <<buf, description, layout, batch, reader, rows>>
    BY <1>8 DEF CollectMore
  <2>2. held = Slice(Sent, FrameStart + 9, Position + l)
    <3>1. SubSeq(stream, 1, Len(stream)) = stream
      BY <1>2
    <3>2. ctl.held \o SubSeq(stream, 1, Len(stream)) = Slice(Sent, FrameStart + 9, Position + Len(stream))
      <4>1. Len(stream) \in Nat /\ Len(stream) <= Len(stream)
        BY <1>2
      <4> QED BY <1>2, <1>5, <4>1, CollectedOn
    <3> QED BY <3>1, <3>2
  <2>3. Len(held) = h + l
    BY <1>2, ConcatProperties DEF Ctls
  <2>4. Moves(0, l)
    <3>1. SubSeq(stream, Len(stream) + 1, Len(stream)) = <<>> /\ Len(stream) \in 0 .. Len(stream)
      BY <1>2
    <3> QED BY <1>2, <1>6, <1>7, <2>1, <3>1 DEF Moves
  <2>5. Position' = Position + 0 + l /\ Sent' = Sent
    BY <2>4, Moved
  <2> HIDE DEF held, h, l
  <2>6. Position' = Position + l
    BY <1>2, <1>4, <2>5
  <2>7. ctl'.at = "collect" /\ ctl'.held = held
    BY <1>1, <1>2, <2>1 DEF Ctls
  <2>8. FrameStart' = Position' - 9 - (h + l)
    <3>1. FrameStart' = Position' - 9 - Len(ctl'.held)
      BY <2>7 DEF FrameStart
    <3> QED BY <2>3, <2>7, <3>1
  <2>9. FrameStart' = FrameStart
    BY <1>2, <1>3, <1>4, <2>6, <2>8
  <2>10. Reading'
    BY <1>2, <2>1, <2>2, <2>5, <2>6, <2>7, <2>9 DEF Reading
  <2>11. UNCHANGED <<response, description, layout, batch, discardRows, rows>> /\ reader' \in {"reading", "idle"}
    BY <1>6, <2>1
  <2> QED BY <2>9, <2>10, <2>11, KeptWithin
<1>9. CASE ~(l < left)
  <2> DEFINE payload == ctl.held \o SubSeq(stream, 1, left)
  <2>1. stream' = SubSeq(stream, left + 1, Len(stream)) /\ HandlePayload(payload, buf)
    BY <1>9 DEF CollectMore
  <2>2. left \in Nat /\ left <= l /\ left \in 0 .. Len(stream)
    <3>1. left \in Nat /\ left <= l
      <4> HIDE DEF h, l
      <4> QED BY <1>4, <1>9
    <3> QED BY <3>1
  <2>3. next = FrameStart + 9 + ctl.len
    <3>1. HeaderSize(Byte(Sent, FrameStart)) = 9
      BY <1>3
    <3>2. FrameSize(Sent, FrameStart) = 9 + ctl.len
      BY <1>2, <1>3, <3>1, FrameEnds
    <3> QED BY <1>2, <1>4, <3>2
  <2>4. Position + 0 + left = next /\ Position + left = next
    <3> HIDE DEF h, next
    <3> QED BY <1>2, <1>3, <1>4, <2>3
  <2>5. next \in Starts
    <3>1. FrameStart + 9 + ctl.len \in Starts
      BY <1>2, <1>3, <1>4, PayloadEnds
    <3> QED BY <2>3, <3>1
  <2>6. payload = Slice(Sent, FrameStart + 9, next)
    <3>1. left <= Len(stream)
      BY <2>2
    <3> HIDE DEF left, next
    <3>2. payload = Slice(Sent, FrameStart + 9, Position + left)
      BY <1>2, <1>5, <2>2, <3>1, CollectedOn
    <3> QED BY <2>4, <3>2
  <2> HIDE DEF payload, left, next
  <2>7. Behind(buf, 0, left)
    BY <1>2, <1>6, <1>7, <2>1, <2>2, <2>4, <2>5 DEF Behind
  <2>8. PayloadAt(payload, buf, 0, left)
    <3>1. Position + 0 + left = FrameStart + FrameSize(Sent, FrameStart)
          /\ payload = Slice(Sent, FrameStart + 9, FrameStart + FrameSize(Sent, FrameStart))
      BY <2>4, <2>6 DEF next
    <3> QED BY <1>2, <1>3, <1>4, <2>7, <3>1 DEF PayloadAt
  <2> QED BY <1>6, <2>1, <2>8, PayloadKept
<1> QED BY <1>8, <1>9

LEMMA ReadRowKept ==
    ASSUME Typed, Faithful, Framed, Kept, reader = "reading", ReadRow
    PROVE  Kept'
<1> DEFINE len == ctl.len
           at == buf.start + 8
           end == buf.start + 8 + len
           m == 8 + len
           b == Skip(buf, m)
           row == ParseDbosRowInPlace(buf.data, at, end, layout)
           next == FrameStart + FrameSize(Sent, FrameStart)
<1>1. ctl.at = "row" /\ Buffered(buf) >= m
  BY DEF ReadRow, HasBytes, Need
<1>2. /\ response \in Responses /\ ctl \in Ctls /\ buf \in Buffers(Octets) /\ Buffered(buf) \in Nat
      /\ FrameStart \in Starts /\ Position \in Nat /\ FrameStart \in Nat /\ InFrame(FrameStart) /\ batch = <<>>
      /\ Knows(FrameStart) /\ (layout.ok => LayoutTyped(layout)) /\ Sent \in Seq(Octets)
      /\ Holds(buf, Position) /\ stream \in Seq(Octets) /\ Reading
  BY <1>1, Here
<1>3. /\ Position = FrameStart + 5 /\ Byte(Sent, FrameStart) = CodeY /\ HeaderSize(CodeY) = 13
      /\ len = PayloadLength(Sent, FrameStart)
  BY <1>1, <1>2, HeaderSizes DEF InFrame
<1>4. /\ len \in Nat /\ len > 0 /\ m \in Nat /\ m \in 0 .. Buffered(buf) /\ m <= Buffered(buf)
      /\ buf.start \in Nat /\ buf.end \in Nat /\ Buffered(buf) = buf.end - buf.start
  BY <1>1, <1>2 DEF Ctls, Reading, Buffers, Buffered
<1>5. Drops(buf, b, m)
  BY <1>2, <1>4, SkipDrops
<1>6. 0 \in 0 .. Len(stream) /\ stream' = SubSeq(stream, 0 + 1, Len(stream)) /\ UNCHANGED <<response, arrived>>
  BY <1>2, BufferMoves DEF Moves, ReadRow
<1>7. next = FrameStart + 13 + len /\ next \in Starts
  <2>1. HeaderSize(Byte(Sent, FrameStart)) = 13
    BY <1>3
  <2>2. FrameSize(Sent, FrameStart) = 13 + len
    BY <1>2, <1>3, <2>1, FrameEnds
  <2>3. FrameStart + HeaderSize(Byte(Sent, FrameStart)) + PayloadLength(Sent, FrameStart) \in Starts
    BY <1>2, <1>3, <1>4, <2>1, PayloadEnds
  <2> QED BY <1>2, <1>3, <1>4, <2>1, <2>2, <2>3
<1>8. Position + m + 0 = next
  BY <1>2, <1>3, <1>4, <1>7
<1>9. IsNext(FrameStart, row)
  <2>1. SameBytes(buf.data, at, Sent, FrameStart + HeaderSize(CodeY), len)
    <3>1. at \in Nat /\ buf.start <= at /\ at + len <= buf.end
      BY <1>4
    <3>2. Position + (at - buf.start) = FrameStart + HeaderSize(CodeY)
      BY <1>2, <1>3, <1>4
    <3> HIDE DEF at
    <3>3. SameBytes(buf.data, at, Sent, Position + (at - buf.start), len)
      BY <1>2, <1>4, <3>1, HoldsBytes
    <3> QED BY <3>2, <3>3
  <2>2. CodeY \in {CodeD, CodeY} /\ PayloadLength(Sent, FrameStart) = len
    BY <1>3
  <2>3. IsNext(FrameStart, RowAt(CodeY, buf.data, at, at + len))
    <3> HIDE DEF at, len
    <3> QED BY <1>2, <1>3, <1>4, <2>1, <2>2, RowSent
  <2>4. at + len = end /\ end # at /\ CodeY # CodeD
    BY <1>4 DEF CodeY, CodeD
  <2>5. RowAt(CodeY, buf.data, at, end) = row
    BY <2>4 DEF RowAt, RowOf
  <2> QED BY <2>3, <2>4, <2>5
<1>10. IF ~row.ok THEN Fault /\ UNCHANGED buf
       ELSE /\ YieldRow(row.row)
            /\ batch' = DbosBatch(b).rows /\ buf' = [buf EXCEPT !.start = DbosBatch(b).at]
  BY DEF ReadRow
<1>11. UNCHANGED <<description, layout, discardRows>>
  BY DEF ReadRow
<1>12. Behind(b, m, 0)
  <2> HIDE DEF b, m, next
  <2> QED BY <1>5, <1>6, <1>7, <1>8 DEF Behind
<1>13. CASE ~row.ok
  <2>1. reader' \in Over /\ UNCHANGED rows
    BY <1>10, <1>13 DEF Fault, Over
  <2>2. Known(response, FrameStart).rows = Len(response.rows)
    BY <1>9, <1>13 DEF IsNext
  <2> QED BY <1>2, <1>6, <1>11, <2>1, <2>2, KeptOver
<1>14. CASE row.ok
  <2> DEFINE more == Batch(b, CodeY, HeaderSize(CodeY))
  <2>1. more = DbosBatch(b) /\ CodeY \in {CodeD, CodeY}
    BY HeaderSizes DEF DbosBatch
  <2>2. YieldRow(row.row) /\ batch' = DbosBatch(b).rows /\ buf' = [buf EXCEPT !.start = DbosBatch(b).at]
    BY <1>10, <1>14
  <2>3. reader' \in {"reading", "idle"} /\ ctl'.at = "type" /\ rows' = Append(rows, row.row)
    BY <2>2 DEF YieldRow, Yield, ToType
  <2> HIDE DEF more, row
  <2>4. buf' = [b EXCEPT !.start = more.at] /\ batch' = more.rows
    <3> DEFINE to == more.at
    <3>1. buf' = [buf EXCEPT !.start = to] /\ batch' = more.rows
      BY <2>1, <2>2
    <3> HIDE DEF to
    <3>2. [b EXCEPT !.start = to] = [buf EXCEPT !.start = to]
      <4> HIDE DEF m
      <4>1. b = [data |-> buf.data, start |-> buf.start + m, end |-> buf.end]
        BY <1>2 DEF Skip, Buffers
      <4> HIDE DEF b
      <4>2. [b EXCEPT !.start = to] = [data |-> buf.data, start |-> to, end |-> buf.end]
        BY <4>1
      <4>3. [buf EXCEPT !.start = to] = [data |-> buf.data, start |-> to, end |-> buf.end]
        <5>1. buf \in [data : Seq(Octets), start : Nat, end : Nat]
          BY <1>2 DEF Buffers
        <5> QED BY <5>1
      <4> QED BY <4>2, <4>3
    <3> HIDE DEF b
    <3> QED BY <3>1, <3>2 DEF to
  <2> HIDE DEF b, m
  <2>5. more = Batch(b, CodeY, HeaderSize(CodeY))
    BY DEF more
  <2>6. Position + m + 0 = FrameStart + FrameSize(Sent, FrameStart)
    BY <1>8 DEF next
  <2> QED BY <1>2, <1>9, <1>11, <1>12, <1>14, <2>1, <2>3, <2>4, <2>5, <2>6, KeptRow
<1> QED BY <1>13, <1>14

\* Rows of the batch are taken by the generator or by the caller.
LEMMA BatchServed ==
    ASSUME Typed, Faithful, Framed, Kept, reader \in {"reading", "idle"}, reader' \in {"reading", "idle"},
           ctl'.at = "type", UNCHANGED <<response, arrived, stream, buf, description, layout, discardRows>>,
           batch # <<>>, rows' = Append(rows, Head(batch)), batch' = Tail(batch)
    PROVE  Kept'
<1>1. Reading /\ response \in Responses
  BY Here
<1>2. ctl.at = "type"
  BY <1>1 DEF Reading
<1>3. Position' = Position
  BY DEF Position, Unread, Content
<1>4. FrameStart' = FrameStart
  BY <1>2, <1>3 DEF FrameStart
<1> QED BY <1>1, <1>4, KeptServed

LEMMA CallerKept ==
    ASSUME Typed, Faithful, Framed, Kept, reader = "idle", Caller
    PROVE  Kept'
<1>1. CASE TakeBufferedRow
  <2>1. /\ UNCHANGED <<response, arrived, stream, buf, ctl, description, layout, discardRows, reader>>
        /\ batch # <<>> /\ rows' = Append(rows, Head(batch)) /\ batch' = Tail(batch)
    BY <1>1 DEF TakeBufferedRow
  <2>2. Reading
    BY Here
  <2>3. ctl'.at = "type" /\ reader' \in {"reading", "idle"}
    BY <2>1, <2>2 DEF Reading
  <2> QED BY <2>1, <2>3, BatchServed
<1>2. CASE NextItem
  <2>1. Position' = Position
    BY <1>2, CallerReads DEF Caller
  <2>2. /\ reader' \in {"reading", "idle"}
        /\ UNCHANGED <<response, ctl, description, layout, batch, discardRows, rows>>
    BY <1>2 DEF NextItem
  <2> QED BY <2>1, <2>2, KeptWaiting
<1>3. CASE CloseReader
  BY <1>3 DEF CloseReader, Kept, Delivered, Informed, Over
<1> QED BY <1>1, <1>2, <1>3 DEF Caller

LEMMA GeneratorKept ==
    ASSUME Typed, Faithful, Framed, Kept, reader = "reading", Generator
    PROVE  Kept'
<1>1. CASE Pull
  <2>1. Position' = Position
    BY <1>1, PullReads
  <2>2. /\ reader' \in {"reading", "idle"}
        /\ UNCHANGED <<response, ctl, description, layout, batch, discardRows, rows>>
    BY <1>1 DEF Pull
  <2> QED BY <2>1, <2>2, KeptWaiting
<1>2. CASE ServeBatch
  <2>1. /\ UNCHANGED <<response, arrived, stream, buf, description, layout, discardRows>>
        /\ batch # <<>> /\ rows' = Append(rows, Head(batch)) /\ batch' = Tail(batch)
        /\ reader' \in {"reading", "idle"} /\ ctl'.at = "type"
    BY <1>2 DEF ServeBatch, Serving, YieldRow, Yield, ToType
  <2> QED BY <2>1, BatchServed
<1>3. ~DiscardMore
  BY Here DEF DiscardMore
<1> QED BY <1>1, <1>2, <1>3, ReadTypeKept, SkipHeaderKept, ReadLengthKept, ReadPayloadKept, CollectKept,
           CollectMoreKept, ReadRowHeadKept, ReadRowKept DEF Generator

\* Once the reader is being closed the caller is given nothing more.
LEMMA ClosedKept ==
    ASSUME Kept, reader \notin {"reading", "idle"}, Next
    PROVE  Kept'
<1>1. reader = "closing" \/ Arrive
  BY DEF Next, Arrive, Starved, Running, Generator, Caller, Pull, ServeBatch, ReadType, SkipHeader, ReadLength,
         DiscardMore, ReadPayload, Collect, CollectMore, ReadRowHead, ReadRow, TakeBufferedRow, NextItem, CloseReader
<1>2. reader = "closing"
  BY <1>1 DEF Arrive, Starved, Running
<1> DEFINE Closed == /\ reader' \in {"closing"} \cup Over
                     /\ UNCHANGED <<response, discardRows, rows>>
<1>3. \A row : YieldRow(row) => reader' = reader /\ rows' = rows
  BY <1>2 DEF YieldRow, Yield
<1>4. Yield \/ NextFrame => reader' = reader
  BY <1>2 DEF Yield, NextFrame
<1>5. Fault => reader' \in Over /\ rows' = rows
  BY DEF Fault, Over
<1>6. \A b : Discarded(b) => reader' \in {"closing"} \cup Over /\ rows' = rows
  <2>1. NextFrame => reader' = "closing"
    BY <1>2, <1>4
  <2> QED BY <1>5, <2>1 DEF Discarded
<1>7. \A b, n : Discard(b, n) => reader' \in {"closing"} \cup Over /\ rows' = rows
  BY <1>2, <1>6 DEF Discard
<1>8. \A p, b : HandlePayload(p, b) => reader' \in {"closing"} \cup Over /\ rows' = rows
  BY <1>2, <1>3, <1>4, <1>5 DEF HandlePayload
<1>9. ASSUME Arrive \/ Pull \/ ReadType \/ Collect PROVE Closed
  BY <1>2, <1>9 DEF Arrive, Pull, ReadType, Collect
<1>10. ASSUME ServeBatch PROVE Closed
  BY <1>2, <1>3, <1>10 DEF ServeBatch
<1>11. ASSUME SkipHeader PROVE Closed
  BY <1>2, <1>4, <1>11 DEF SkipHeader, Over
<1>12. ASSUME ReadLength \/ ReadRowHead PROVE Closed
  <2>1. reader' \in {"closing"} \cup Over /\ rows' = rows
    BY <1>2, <1>5, <1>7, <1>12, Zenon DEF ReadLength, ReadRowHead
  <2> QED BY <1>12, <2>1 DEF ReadLength, ReadRowHead
<1>13. ASSUME DiscardMore PROVE Closed
  BY <1>2, <1>6, <1>13 DEF DiscardMore
<1>14. ASSUME ReadPayload \/ CollectMore PROVE Closed
  <2>1. reader' \in {"closing"} \cup Over /\ rows' = rows
    BY <1>2, <1>8, <1>14 DEF ReadPayload, CollectMore
  <2> QED BY <1>14, <2>1 DEF ReadPayload, CollectMore
<1>15. ASSUME ReadRow PROVE Closed
  <2>1. reader' \in {"closing"} \cup Over /\ rows' = rows
    BY <1>2, <1>3, <1>5, <1>15 DEF ReadRow
  <2> QED BY <1>15, <2>1 DEF ReadRow
<1>16. ~Caller
  BY <1>2 DEF Caller, TakeBufferedRow, NextItem, CloseReader
<1>17. Closed
  BY <1>9, <1>10, <1>11, <1>12, <1>13, <1>14, <1>15, <1>16 DEF Next, Generator
<1> QED BY <1>2, <1>17 DEF Kept, Delivered, Informed, Over

LEMMA StepKept ==
    ASSUME Typed, Faithful, Framed, Kept, [Next]_vars
    PROVE  Kept'
<1>1. CASE Arrive /\ reader \in {"reading", "idle"}
  <2>1. Position' = Position
    BY <1>1, ArriveAppends
  <2>2. /\ reader' \in {"reading", "idle"}
        /\ UNCHANGED <<response, ctl, description, layout, batch, discardRows, rows>>
    BY <1>1 DEF Arrive
  <2> QED BY <1>1, <2>1, <2>2, KeptWaiting
<1>2. CASE Generator /\ reader = "reading"
  BY <1>2, GeneratorKept
<1>3. CASE Caller
  <2>1. reader = "idle"
    BY <1>3 DEF Caller, TakeBufferedRow, NextItem, CloseReader
  <2> QED BY <1>3, <2>1, CallerKept
<1>4. CASE Next /\ reader \notin {"reading", "idle"}
  BY <1>4, ClosedKept
<1>5. Generator => reader # "idle"
  BY DEF Generator, Running, Starved, Pull, ServeBatch, ReadType, SkipHeader, ReadLength,
         DiscardMore, ReadPayload, Collect, CollectMore, ReadRowHead, ReadRow
<1>6. CASE UNCHANGED vars
  <2>1. UNCHANGED <<response, arrived, stream, buf, ctl, description, layout, batch, discardRows, reader, rows>>
    BY <1>6 DEF vars
  <2>2. CASE reader \in {"reading", "idle"}
    <3>1. Position' = Position
      BY <2>1 DEF Position, Unread, Content
    <3> QED BY <2>1, <2>2, <3>1, KeptWaiting
  <2>3. CASE reader \notin {"reading", "idle"}
    BY <2>1, <2>3 DEF Kept, Delivered, Informed
  <2> QED BY <2>2, <2>3
<1> QED BY <1>1, <1>2, <1>3, <1>4, <1>5, <1>6 DEF Next

\* Before the first frame nothing is told and nothing is given.
LEMMA InitialKept ==
    ASSUME Init
    PROVE  Kept
<1>1. /\ response \in Responses /\ ctl.at = "type" /\ description = Malformed /\ layout = Malformed
      /\ batch = <<>> /\ ~discardRows /\ reader = "reading" /\ rows = <<>> /\ arrived = 0
  BY DEF Init, ToType
<1>2. FrameStart = 0
  <2>1. Len(Unread) = 0 /\ arrived = 0
    BY InitialState
  <2>2. Position = 0
    BY <2>1 DEF Position
  <2> QED BY <1>1, <2>2 DEF FrameStart
<1>3. Known(response, 0) = [description |-> Malformed, layout |-> Malformed, rows |-> 0]
  BY <1>1, ResponsesAssumption, Zenon DEF RowsTold
<1> DEFINE s == response.rows
<1>4. s \in Seq(RowSet) /\ Len(s) \in Nat
  BY <1>1, RowsTyped
<1> HIDE DEF s
<1>5. SubSeq(s, 1, 0) = <<>> /\ SubSeq(s, 0 + 1, 0) = <<>> /\ Len(<<>>) = 0 /\ 0 \in 0 .. Len(s)
  BY <1>4
<1>6. Delivered
  BY <1>1, <1>5 DEF Delivered, Over, s
<1>7. Ahead(FrameStart)
  <2>1. /\ Known(response, 0).description = Malformed /\ Known(response, 0).layout = Malformed
        /\ Known(response, 0).rows = 0
    BY <1>3
  <2>2. Knows(0)
    BY <1>1, <1>5, <2>1 DEF Knows, s
  <2>3. ~layout.ok
    BY <1>1 DEF Malformed
  <2> QED BY <1>1, <1>2, <1>5, <2>1, <2>2, <2>3 DEF Ahead, s
<1>8. Reading
  BY <1>1 DEF Reading
<1> QED BY <1>6, <1>7, <1>8 DEF Kept, Informed

\* The caller is given the rows of the response in their order, none twice and
\* none left out, whatever mix of single rows, batches, views and collected
\* payloads brings them and in whatever pieces the bytes come: all of them when
\* the response is over, or all before the frame that is malformed.
THEOREM RowsDelivered == Spec => []RowsExact
<1>1. Init => Kept
  BY InitialKept
<1>2. (Typed /\ Faithful /\ Framed) /\ Kept /\ [Next]_vars => Kept'
  BY StepKept
<1>3. ASSUME Typed, Kept PROVE RowsExact
  <2>1. /\ Len(rows) \in 0 .. Len(response.rows) /\ rows = SubSeq(response.rows, 1, Len(rows))
        /\ reader \in Over /\ ~discardRows => rows = response.rows
    BY <1>3 DEF Kept, Delivered
  <2>2. Len(response.rows) \in Nat
    BY <1>3, RowsTyped DEF Typed
  <2>3. Len(rows) <= Len(response.rows)
    BY <2>1, <2>2
  <2>4. IsPrefix(rows, response.rows)
    BY <2>1, <2>3 DEF IsPrefix
  <2> QED BY <2>1, <2>4 DEF RowsExact
<1> QED BY <1>1, <1>2, <1>3, Invariants, PTL DEF Spec
===============================================================================
