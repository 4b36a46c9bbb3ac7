------------------------------ MODULE ReadBuffer ------------------------------
(***************************************************************************)
(* The buffer a connection reads its socket through: an array of which the *)
(* bytes from start up to end are unread.  It moves its unread bytes to    *)
(* the front, grows and shrinks, and none of that may be seen by a reader: *)
(* Content is what is left to read.  Offsets count from 0, as in the code. *)
(***************************************************************************)
EXTENDS Integers, Sequences

CONSTANTS
    InitialSize,      \* READ_BUFFER_INITIAL_SIZE
    ShrinkThreshold,  \* READ_BUFFER_SHRINK_THRESHOLD
    Garbage           \* a byte of fresh memory

ASSUME InitialSizeAssumption == InitialSize \in Nat \ {0}
ASSUME ShrinkThresholdAssumption == ShrinkThreshold \in Nat /\ ShrinkThreshold >= InitialSize

Larger(m, n) == IF m >= n THEN m ELSE n

Capacity(b) == Len(b.data)
Buffered(b) == b.end - b.start
Content(b) == SubSeq(b.data, b.start + 1, b.end)

\* d with s written over it from offset at, as far as there is room.
Copied(s, d, at) ==
    [i \in 1 .. Len(d) |-> IF i > at /\ i <= at + Len(s) THEN s[i - at] ELSE d[i]]

Fresh(size) == [i \in 1 .. size |-> Garbage]

NewBuffer == [data |-> Fresh(InitialSize), start |-> 0, end |-> 0]

\* Mutant of MovedTo: the bytes are not copied.
MovedToUncopied(memory, b) == [data |-> memory, start |-> 0, end |-> Buffered(b)]

\* The unread bytes of b at the front of memory.
MovedTo(memory, b) ==
    [data |-> Copied(Content(b), memory, 0), start |-> 0, end |-> Buffered(b)]

\* Room for needed more bytes: there already, by compacting, or by growing.
EnsureCapacity(b, needed) ==
    IF Capacity(b) - b.end >= needed THEN b
    ELSE IF Capacity(b) - Buffered(b) >= needed THEN MovedTo(b.data, b)
    ELSE MovedTo(Fresh(Larger(Larger(Capacity(b) * 2, Buffered(b) + needed), InitialSize)), b)

\* What is done before waiting until n bytes are there.
Reserve(b, n) ==
    IF Capacity(b) - b.start < n THEN EnsureCapacity(b, n - Buffered(b)) ELSE b

AppendChunk(b, chunk) ==
    LET r == EnsureCapacity(b, Len(chunk))
    IN  [r EXCEPT !.data = Copied(chunk, @, r.end), !.end = @ + Len(chunk)]

Skip(b, n) == [b EXCEPT !.start = @ + n]

Emptied(b) == [b EXCEPT !.start = 0, !.end = 0]

\* Mutant of ShrinkReadBuffer: the buffer stays as large as it has become.
ShrinkNever(b) == b

ShrinkReadBuffer(b) ==
    IF Capacity(b) <= ShrinkThreshold \/ Buffered(b) > InitialSize THEN b
    ELSE MovedTo(Fresh(InitialSize), b)
=============================================================================
