------------------------ MODULE NzDataReader_proofs ------------------------
(***************************************************************************)
(* For every number of result sets and rows: a reader gives its connection *)
(* back only when the response is over, and NzDataReader implements the    *)
(* abstract Cursor.                                                        *)
(***************************************************************************)
EXTENDS NzDataReader, TLAPS

USE BoundsAssumption
-----------------------------------------------------------------------------
(* Readers and what they know *)

\* r has the fields by which a reader gives its connection back.
IsReader(r) ==
    /\ {"lock", "finished", "waiting"} \subseteq DOMAIN r
    /\ r.lock \in BOOLEAN
    /\ r.finished \in BOOLEAN

\* Items after which the generator has nothing more.
Ends == {"Z", "end", "throw"}

\* The reader has given its connection back, or may do so without another item.
Released(r) == ~r.lock \/ r.finished \/ r.waiting.kind \in Ends

\* r follows from q by an item of this kind.
Follows(r, q, kind) == IsReader(r) /\ (Released(r) => Released(q) \/ kind \in Ends)

\* No item held back is no last item.
LEMMA NoItemWaits == NoItem.kind \notin Ends
BY DEF NoItem, Signal, Ends

\* An answer to a call gives nothing back.
LEMMA AnswerFollows ==
    ASSUME NEW r, IsReader(r), NEW what
    PROVE  IsReader(Answer(r, what)) /\ (Released(Answer(r, what)) <=> Released(r))
BY DEF IsReader, Answer, Released

LEMMA ThrowFollows ==
    ASSUME NEW r, IsReader(r)
    PROVE  IsReader(Throw(r)) /\ (Released(Throw(r)) <=> Released(r))
<1> DEFINE q == [r EXCEPT !.failed = TRUE]
<1>1. IsReader(q) /\ (Released(q) <=> Released(r))
  BY DEF IsReader, Released
<1>2. Throw(r) = Answer(q, "error")
  BY DEF Throw
<1> HIDE DEF q
<1> QED BY <1>1, <1>2, AnswerFollows

LEMMA SetColumnsFollows ==
    ASSUME NEW r, IsReader(r), NEW set
    PROVE  IsReader(SetColumns(r, set)) /\ (Released(SetColumns(r, set)) <=> Released(r))
BY DEF IsReader, SetColumns, Released

LEMMA MarkFinishedIsReader ==
    ASSUME NEW r, IsReader(r)
    PROVE  IsReader(MarkFinished(r))
BY DEF IsReader, MarkFinished

\* The loops of executeReader(), read(), nextResult() and close(): an item brings
\* the release no nearer unless it ends the response.
LEMMA StartItemFollows ==
    ASSUME NEW r, IsReader(r), NEW item
    PROVE  Follows(StartItem(r, item), r, item.kind)
<1>1. CASE item.kind = "T"
  BY <1>1, SetColumnsFollows DEF StartItem, Follows
<1>2. CASE item.kind \in {"D", "C", "Z"} /\ ~r.failed /\ r.columns > 0
  <2> DEFINE q == [r EXCEPT !.waiting = item]
  <2>1. IsReader(q) /\ (Released(q) => Released(r) \/ item.kind \in Ends)
    BY DEF IsReader, Released
  <2>2. StartItem(r, item) = Answer(q, "set")
    BY <1>2 DEF StartItem
  <2> HIDE DEF q
  <2> QED BY <2>1, <2>2, AnswerFollows DEF Follows
<1>3. CASE item.kind = "E"
  BY <1>3 DEF StartItem, Follows, IsReader, Released
<1>4. CASE item.kind \in {"end", "throw"}
  <2>1. StartItem(r, item) \in {Answer(r, "over"), Throw(MarkFinished(r))}
    BY <1>4 DEF StartItem
  <2> QED BY <1>4, <2>1, AnswerFollows, ThrowFollows, MarkFinishedIsReader DEF Follows, Ends
<1>5. CASE item.kind \notin {"T", "E", "end", "throw"}
           /\ ~(item.kind \in {"D", "C", "Z"} /\ ~r.failed /\ r.columns > 0)
  BY <1>5 DEF StartItem, Follows
<1> QED BY <1>1, <1>2, <1>3, <1>4, <1>5

LEMMA ReadItemFollows ==
    ASSUME NEW r, IsReader(r), NEW item
    PROVE  Follows(ReadItem(r, item), r, item.kind)
<1>1. CASE item.kind \in {"D", "T", "X", "C"}
  <2> DEFINE q == CASE item.kind = "D" -> [r EXCEPT !.row = <<item.set, item.index>>,
                                                    !.shown = @ + 1]
                    [] item.kind \in {"T", "X"} -> [r EXCEPT !.pending = item.set, !.row = NoRow]
                    [] item.kind = "C" -> [r EXCEPT !.complete = TRUE, !.row = NoRow]
  <2>1. IsReader(q) /\ (Released(q) <=> Released(r))
    BY <1>1 DEF IsReader, Released
  <2>2. ReadItem(r, item) \in {Answer(q, "row"), Answer(q, "end")}
    BY <1>1 DEF ReadItem
  <2> HIDE DEF q
  <2> QED BY <2>1, <2>2, AnswerFollows DEF Follows
<1>2. CASE item.kind \in {"E", "throw"}
  BY <1>2, ThrowFollows DEF ReadItem, Follows
<1>3. CASE item.kind \in {"Z", "end"}
  <2> DEFINE q == [MarkFinished(r) EXCEPT !.row = NoRow]
  <2>1. IsReader(q)
    BY MarkFinishedIsReader DEF IsReader
  <2>2. ReadItem(r, item) = Answer(q, "end")
    BY <1>3 DEF ReadItem, ReadEnds
  <2> HIDE DEF q
  <2> QED BY <1>3, <2>1, <2>2, AnswerFollows DEF Follows, Ends
<1>4. CASE item.kind \notin {"D", "T", "X", "C", "E", "throw", "Z", "end"}
  BY <1>4 DEF ReadItem, Follows
<1> QED BY <1>1, <1>2, <1>3, <1>4

LEMMA NextItemFollows ==
    ASSUME NEW r, IsReader(r), NEW item
    PROVE  Follows(NextItem(r, item), r, item.kind)
<1>1. CASE item.kind = "T"
  <2> DEFINE q == SetColumns(r, item.set)
  <2>1. IsReader(q) /\ (Released(q) <=> Released(r))
    BY SetColumnsFollows
  <2>2. NextItem(r, item) = [q EXCEPT !.draining = FALSE, !.found = TRUE, !.complete = FALSE]
    BY <1>1 DEF NextItem
  <2> HIDE DEF q
  <2> QED BY <2>1, <2>2 DEF Follows, IsReader, Released
<1>2. CASE item.kind = "X"
  BY <1>2 DEF NextItem, Follows, IsReader, Released
<1>3. CASE item.kind = "D"
  <2> DEFINE q == [r EXCEPT !.waiting = item]
  <2>1. IsReader(q) /\ (Released(q) => Released(r))
    BY <1>3 DEF IsReader, Released, Ends
  <2>2. NextItem(r, item) \in {Answer(q, "set"), r}
    BY <1>3 DEF NextItem
  <2> HIDE DEF q
  <2> QED BY <2>1, <2>2, AnswerFollows DEF Follows
<1>4. CASE item.kind = "C"
  <2> DEFINE q == [r EXCEPT !.complete = TRUE]
  <2>1. IsReader(q) /\ (Released(q) <=> Released(r))
    BY DEF IsReader, Released
  <2>2. NextItem(r, item) \in {Answer(q, "set"), r,
                               [r EXCEPT !.draining = FALSE, !.complete = TRUE]}
    BY <1>4 DEF NextItem
  <2>3. Follows([r EXCEPT !.draining = FALSE, !.complete = TRUE], r, item.kind)
    BY DEF Follows, IsReader, Released
  <2> HIDE DEF q
  <2> QED BY <2>1, <2>2, <2>3, AnswerFollows DEF Follows
<1>5. CASE item.kind \in {"E", "throw"}
  BY <1>5, ThrowFollows DEF NextItem, Follows
<1>6. CASE item.kind \in {"Z", "end"}
  BY <1>6, AnswerFollows, MarkFinishedIsReader DEF NextItem, Follows, Ends
<1>7. CASE item.kind \notin {"T", "X", "D", "C", "E", "throw", "Z", "end"}
  BY <1>7 DEF NextItem, Follows
<1> QED BY <1>1, <1>2, <1>3, <1>4, <1>5, <1>6, <1>7

LEMMA CloseItemFollows ==
    ASSUME NEW r, IsReader(r), NEW item
    PROVE  Follows(CloseItem(r, item), r, item.kind)
BY DEF CloseItem, Follows, IsReader, Released, Ends

\* ... and so does whoever gets the item of the generator.
LEMMA YieldFollows ==
    ASSUME NEW item, IsReader(reader), Yield(item)
    PROVE  Follows(reader', reader, item.kind)
BY StartItemFollows, ReadItemFollows, NextItemFollows, CloseItemFollows DEF Yield

-----------------------------------------------------------------------------
(* Sequences of messages *)

\* s is a sequence of messages of these kinds.
Of(s, kinds) == \E S : s \in Seq(S) /\ \A m \in S : m.kind \in kinds

\* Sequences of messages of some kinds, built and taken apart.
LEMMA EmptyOf == ASSUME NEW kinds PROVE Of(<<>>, kinds)
<1> DEFINE S == {}
<1>1. <<>> \in Seq(S)
  OBVIOUS
<1>2. \A m \in S : m.kind \in kinds
  OBVIOUS
<1> HIDE DEF S
<1> QED BY <1>1, <1>2 DEF Of

LEMMA TailOf ==
    ASSUME NEW s, NEW kinds, Of(s, kinds), s # <<>>
    PROVE  Head(s).kind \in kinds /\ Of(Tail(s), kinds)
<1>1. PICK S : s \in Seq(S) /\ \A m \in S : m.kind \in kinds
  BY DEF Of
<1>2. Head(s) \in S /\ Tail(s) \in Seq(S)
  BY <1>1
<1> QED BY <1>1, <1>2 DEF Of

LEMMA AppendOf ==
    ASSUME NEW s, NEW kinds, Of(s, kinds), NEW m, m.kind \in kinds
    PROVE  Of(Append(s, m), kinds)
<1>1. PICK S : s \in Seq(S) /\ \A x \in S : x.kind \in kinds
  BY DEF Of
<1> DEFINE T == S \cup {m}
<1>2. s \in Seq(T)
  BY <1>1
<1>3. Append(s, m) \in Seq(T)
  BY <1>2
<1>4. \A x \in T : x.kind \in kinds
  BY <1>1
<1> QED BY <1>3, <1>4 DEF Of

LEMMA SubSeqOf ==
    ASSUME NEW s, NEW kinds, Of(s, kinds), NEW a \in Nat \ {0}, NEW b \in Nat, b <= Len(s),
           NEW few, \A i \in a..b : s[i].kind \in few
    PROVE  Of(SubSeq(s, a, b), few)
<1>1. PICK S : s \in Seq(S)
  BY DEF Of
<1> DEFINE T == {s[i] : i \in a..b}
<1>2. SubSeq(s, a, b) \in Seq(T)
  <2> DEFINE n == IF b >= a THEN b - a + 1 ELSE 0
  <2>1. SubSeq(s, a, b) = [i \in 1..n |-> s[i + a - 1]]
    BY <1>1
  <2>2. n \in Nat /\ \A i \in 1..n : s[i + a - 1] \in T
    OBVIOUS
  <2> QED BY <2>1, <2>2
<1>3. \A x \in T : x.kind \in few
  OBVIOUS
<1> QED BY <1>2, <1>3 DEF Of

-----------------------------------------------------------------------------
(* The invariant *)

\* LockKept is not inductive: a reader that has finished, or that holds back the
\* last item of the response, gives the connection back later without another
\* look at the generator.
Kept ==
    /\ IsReader(reader)
    /\ Released(reader) => generator = "done"
    /\ Of(batch, {"D"})
    /\ Of(arrived, Messages)

LEMMA InitKept == Init => Kept
<1> SUFFICES ASSUME Init PROVE Kept
  OBVIOUS
<1>1. IsReader(reader) /\ ~Released(reader)
  BY NoItemWaits DEF Init, IsReader, Released
<1>2. Of(<<>>, {"D"}) /\ Of(<<>>, Messages)
  BY EmptyOf
<1> QED BY <1>1, <1>2 DEF Init, Kept

\* The calls of the application, one by one.
LEMMA ReadKept == Kept /\ read => Kept'
<1> SUFFICES ASSUME Kept, read PROVE Kept'
  OBVIOUS
<1>1. CASE batch # <<>> /\ reader.waiting = NoItem /\ ~reader.finished
  <2>1. Head(batch).kind = "D" /\ Of(Tail(batch), {"D"})
    BY <1>1, TailOf DEF Kept
  <2>2. Follows(reader', reader, "D")
    BY <1>1, <2>1, ReadItemFollows DEF Kept, read
  <2> QED BY <1>1, <2>1, <2>2 DEF Kept, read, Follows, Ends
<1>2. CASE ~(batch # <<>> /\ reader.waiting = NoItem /\ ~reader.finished)
  <2> DEFINE asked == [reader EXCEPT !.call = "read", !.answer = "none"]
             taken == [asked EXCEPT !.waiting = NoItem]
  <2>1. IsReader(asked) /\ (Released(asked) <=> Released(reader))
    BY DEF Kept, IsReader, Released
  <2>2. IsReader(taken) /\ (Released(taken) => Released(reader))
    BY NoItemWaits DEF Kept, IsReader, Released
  <2>3. reader' \in {Answer(asked, "end"), ReadItem(taken, reader.waiting), asked}
    BY <1>2 DEF read, Proceed
  <2>4. Follows(ReadItem(taken, reader.waiting), taken, reader.waiting.kind)
    BY <2>2, ReadItemFollows
  <2> HIDE DEF asked, taken
  <2>5. IsReader(reader') /\ (Released(reader') => Released(reader))
    BY <2>1, <2>2, <2>3, <2>4, AnswerFollows DEF Follows, Released
  <2> QED BY <1>2, <2>5 DEF Kept, read
<1> QED BY <1>1, <1>2

LEMMA NextResultKept == Kept /\ nextResult => Kept'
<1> SUFFICES ASSUME Kept, nextResult PROVE Kept'
  OBVIOUS
<1> DEFINE asked == [reader EXCEPT !.call = "next", !.answer = "none", !.row = NoRow,
                                   !.found = reader.pending > 0, !.pending = 0,
                                   !.draining = reader.pending = 0 /\ ~reader.complete]
           set == SetColumns(asked, reader.pending)
           turned == [set EXCEPT !.complete = FALSE]
           moved == IF reader.pending > 0 THEN turned ELSE asked
           taken == [moved EXCEPT !.waiting = NoItem]
           called == [reader EXCEPT !.call = "next"]
<1>1. IsReader(asked) /\ (Released(asked) <=> Released(reader))
  BY DEF Kept, IsReader, Released
<1>2. IsReader(called) /\ (Released(called) <=> Released(reader))
  BY DEF Kept, IsReader, Released
<1>3. reader' \in {Answer(called, "over"), NextItem(taken, reader.waiting), moved}
  BY DEF nextResult, Proceed
<1> HIDE DEF asked, called
<1>4. IsReader(set) /\ (Released(set) <=> Released(asked))
  BY <1>1, SetColumnsFollows
<1> HIDE DEF set
<1>5. IsReader(turned) /\ (Released(turned) <=> Released(set))
  BY <1>4 DEF IsReader, Released
<1> HIDE DEF turned
<1>6. IsReader(moved) /\ (Released(moved) <=> Released(reader))
  BY <1>1, <1>4, <1>5
<1> HIDE DEF moved
<1>7. IsReader(taken) /\ (Released(taken) => Released(moved))
  BY <1>6, NoItemWaits DEF IsReader, Released
<1> HIDE DEF taken
<1>8. Follows(NextItem(taken, reader.waiting), taken, reader.waiting.kind)
  BY <1>7, NextItemFollows
<1>9. IsReader(reader') /\ (Released(reader') => Released(reader))
  BY <1>2, <1>3, <1>6, <1>7, <1>8, AnswerFollows DEF Follows, Released
<1> QED BY <1>9 DEF Kept, nextResult

LEMMA CloseKept == Kept /\ close => Kept'
<1> SUFFICES ASSUME Kept, close PROVE Kept'
  OBVIOUS
<1>1. CASE reader.finished
  BY <1>1 DEF Kept, close, IsReader, Released, source
<1>2. CASE ~reader.finished
  <2>1. IsReader(reader') /\ (Released(reader') => Released(reader))
    BY <1>2 DEF Kept, close, IsReader, Released
  <2>2. Of(<<>>, {"D"})
    BY EmptyOf
  <2> QED BY <1>2, <2>1, <2>2 DEF Kept, close
<1> QED BY <1>1, <1>2

\* The generator: only ReadyForQuery, its end and a throw end the response, and
\* each of them leaves it done.
LEMMA GeneratorKept == Kept /\ Generator => Kept'
<1> SUFFICES ASSUME Kept, Generator PROVE Kept'
  OBVIOUS
<1>1. CASE YieldCached
  <2>1. Head(batch).kind = "D" /\ Of(Tail(batch), {"D"})
    BY <1>1, TailOf DEF Kept, YieldCached
  <2>2. Follows(reader', reader, "D")
    BY <1>1, <2>1, YieldFollows DEF Kept, YieldCached
  <2> QED BY <1>1, <2>1, <2>2 DEF Kept, YieldCached, Follows, Ends
<1>2. CASE YieldRow
  <2>1. Follows(reader', reader, "D")
    BY <1>2, YieldFollows DEF Kept, YieldRow
  <2>2. PICK n \in 0..MaxRows :
            /\ BatchRows(n)
            /\ batch' = SubSeq(arrived, 2, n + 1)
            /\ arrived' = SubSeq(arrived, n + 2, Len(arrived))
    BY <1>2 DEF YieldRow
  <2>3. n \in Nat /\ Len(arrived) \in Nat /\ n + 1 <= Len(arrived)
    BY <2>2 DEF Kept, Of, BatchRows
  <2>4. Of(batch', {"D"})
    <3>1. \A i \in 2..n + 1 : arrived[i].kind \in {"D"}
      BY <2>2 DEF BatchRows
    <3> QED BY <2>2, <2>3, <3>1, SubSeqOf DEF Kept
  <2>5. Of(arrived', Messages)
    <3>1. \A i \in n + 2..Len(arrived) : arrived[i].kind \in Messages
      BY <2>3 DEF Kept, Of
    <3> QED BY <2>2, <2>3, <3>1, SubSeqOf DEF Kept
  <2> QED BY <1>2, <2>1, <2>4, <2>5 DEF Kept, YieldRow, Follows, Ends
<1>3. CASE DiscardRow
  BY <1>3, TailOf DEF Kept, DiscardRow, NextMessage, source
<1>4. CASE YieldMessage
  <2>1. Head(arrived).kind \in Messages /\ Of(Tail(arrived), Messages)
    BY <1>4, TailOf DEF Kept, YieldMessage, NextMessage
  <2>2. CASE Head(arrived).kind \in {"Z", "L"}
    <3>1. IsReader(reader')
      BY <1>4, YieldFollows DEF Kept, YieldMessage, Follows
    <3> QED BY <1>4, <2>1, <2>2, <3>1 DEF Kept, YieldMessage
  <2>3. CASE Head(arrived).kind \notin {"Z", "L"}
    <3>1. Follows(reader', reader, Head(arrived).kind)
      BY <1>4, <2>3, YieldFollows DEF Kept, YieldMessage
    <3>2. Head(arrived).kind \notin Ends
      BY <2>1, <2>3 DEF Messages, Ends
    <3>3. generator = "live"
      BY <1>4 DEF YieldMessage, NextMessage
    <3> QED BY <1>4, <2>1, <3>1, <3>2, <3>3 DEF Kept, YieldMessage, Follows
  <2> QED BY <2>2, <2>3
<1>5. CASE ReadFails
  BY <1>5, YieldFollows DEF Kept, ReadFails, Follows
<1>6. CASE AfterEnd
  BY <1>6, YieldFollows DEF Kept, AfterEnd, Follows
<1> QED BY <1>1, <1>2, <1>3, <1>4, <1>5, <1>6 DEF Generator

\* The server adds messages, never the end of the generator.
LEMMA SayKept ==
    ASSUME Kept, NEW kind \in Messages, NEW index, NEW then, Say(kind, index, then)
    PROVE  Of(arrived', Messages)
<1> DEFINE m == [kind |-> kind, index |-> index,
                 set |-> IF kind = "T" THEN Sets + 1
                         ELSE IF kind \in {"X", "D"} THEN Sets ELSE 0]
<1>1. arrived' = Append(arrived, m) /\ m.kind \in Messages
  BY DEF Say
<1> HIDE DEF m
<1> QED BY <1>1, AppendOf DEF Kept

LEMMA ServerKept == Kept /\ Server => Kept'
<1> SUFFICES ASSUME Kept, Server PROVE Kept'
  OBVIOUS
<1>1. {"T", "X", "D", "C", "N", "E", "Z", "L"} = Messages
  BY DEF Messages
<1>2. \E kind \in Messages : \E index, then : Say(kind, index, then)
  BY <1>1 DEF Server, Describe, DescribeStandard, SendRow, Complete, Remark, End
<1>3. Of(arrived', Messages)
  BY <1>2, SayKept
<1> QED BY <1>3 DEF Kept, Server, source

\* A reader gives its connection back for the next command only when the
\* response has been read to its end or cannot be read any more, whatever read(),
\* nextResult() and close() do at the same time.
THEOREM LockAlwaysKept == Spec => []LockKept
<1>1. Init => Kept
  BY InitKept
<1>2. Kept /\ [Next]_vars => Kept'
  <2> SUFFICES ASSUME Kept, [Next]_vars PROVE Kept'
    OBVIOUS
  <2>1. CASE Application
    BY <2>1, ReadKept, NextResultKept, CloseKept DEF Application
  <2>2. CASE Generator
    BY <2>2, GeneratorKept
  <2>3. CASE Server
    BY <2>3, ServerKept
  <2>4. CASE LinkDies
    BY <2>4 DEF Kept, LinkDies, source
  <2>5. CASE UNCHANGED vars
    BY <2>5 DEF Kept, vars, source
  <2> QED BY <2>1, <2>2, <2>3, <2>4, <2>5 DEF Next
<1>3. Kept => LockKept
  BY DEF Kept, LockKept, Released, IsReader
<1> QED BY <1>1, <1>2, <1>3, PTL DEF Spec

-----------------------------------------------------------------------------
(***************************************************************************)
(* The reader as a cursor.  Some operators below have readers, contexts    *)
(* and results as parameters, so that what they say does not depend on the *)
(* state and the handlers have lemmas of their own.                        *)
(***************************************************************************)
Kinds == Messages \cup {"none", "end", "throw"}
Items == [kind : Kinds, set : Nat, index : Nat]
Results == Seq([rows : Nat, ended : BOOLEAN])

Readers == [
    columns : Nat, pending : Nat, complete : BOOLEAN, finished : BOOLEAN, closed : BOOLEAN,
    waiting : Items, row : Nat \X Nat, shown : Nat, call : {"none", "start", "read", "next"},
    found : BOOLEAN, draining : BOOLEAN, closing : BOOLEAN, failed : BOOLEAN,
    answer : {"none", "row", "end", "set", "over", "error"}, lock : BOOLEAN]

Moving(r) == r.call \in {"start", "next"}
Usable(r) == ~(r.failed \/ r.closed \/ r.finished)

\* Nothing follows the rows r has shown of its set.
Spent(r, res) ==
    IF r.columns = 0 THEN Len(res) = 0
    ELSE /\ r.shown = res[r.columns].rows
         /\ r.columns < Len(res) \/ res[r.columns].ended

\* From r to q the reader keeps its place in the results, or q gives up.
SamePlace(r, q) == q.columns = r.columns /\ q.shown = r.shown
RowKept(r, q) == q.row = r.row \/ q.row = NoRow

\* The steps of Cursor from one reader to another.
Asks(r, q) ==
    SamePlace(r, q) /\ q.answer = "none" /\ RowKept(r, q) /\ (Usable(q) <=> Usable(r))
Shows(r, q, res) ==
    /\ ~Moving(r) /\ r.columns > 0 /\ r.shown < res[r.columns].rows
    /\ q.columns = r.columns /\ q.shown = r.shown + 1 /\ q.row = <<r.columns, q.shown>>
    /\ q.answer = "row" /\ ~Moving(q) /\ (Usable(q) <=> Usable(r))
Exhausts(r, q, res, over) ==
    /\ ~Moving(r) /\ ~Moving(q) /\ SamePlace(r, q) /\ RowKept(r, q) /\ q.answer = "end"
    /\ Usable(r) => Spent(r, res) /\ (r.columns = 0 => over)
    /\ Usable(q) => Usable(r)
    /\ Usable(r) /\ ~Usable(q) => over /\ r.columns = Len(res)
Moves(r, q, res) ==
    /\ Moving(q) /\ q.columns \in r.columns + 1..Len(res)
    /\ Usable(r) => q.columns = r.columns + 1
    /\ q.shown = 0 /\ q.row = NoRow /\ q.answer = "none" /\ (Usable(q) <=> Usable(r))
Finds(r, q) ==
    /\ Moving(r) /\ r.columns > 0 /\ (Usable(r) => r.shown = 0)
    /\ ~Moving(q) /\ q.answer = "set" /\ SamePlace(r, q) /\ q.row = r.row
    /\ Usable(q) <=> Usable(r)
FindsNone(r, q, res, over) ==
    /\ Usable(r) => over /\ r.columns = Len(res)
    /\ ~Moving(q) /\ q.answer = "over" /\ SamePlace(r, q) /\ RowKept(r, q)
    /\ Usable(q) => Usable(r)
Fails(r, q) ==
    ~Moving(q) /\ q.answer = "error" /\ ~Usable(q) /\ SamePlace(r, q) /\ q.row = r.row
GivesUp(r, q) ==
    /\ SamePlace(r, q) /\ q.row = r.row /\ q.answer = r.answer /\ (Moving(q) <=> Moving(r))
    /\ ~Usable(q) \/ Usable(r)

Steps(r, q, res, over) ==
    \/ Asks(r, q) \/ Shows(r, q, res) \/ Exhausts(r, q, res, over) \/ Moves(r, q, res)
    \/ Finds(r, q) \/ FindsNone(r, q, res, over) \/ Fails(r, q) \/ GivesUp(r, q)

LEMMA Narrower ==
    ASSUME NEW a \in BOOLEAN, NEW b \in BOOLEAN, NEW c \in BOOLEAN, b => a, a /\ ~b => c
    PROVE  b \in {a, a /\ ~c} /\ b \in {a, FALSE}
OBVIOUS

\* A step of the reader is a step of its promise.
LEMMA StepsPromised ==
    ASSUME reader \in Readers, results \in Results, reader' \in Readers,
           UNCHANGED <<results, stage>>, Steps(reader, reader', results, stage = "over")
    PROVE  [Promise!Next]_(Promise!vars)
<1>1. CASE Asks(reader, reader')
  <2>1. Promise!Ask
    BY <1>1 DEF Promise!Ask, Asks, SamePlace, RowKept, Usable, Readers, NoRow, Promise!NoRow
  <2> QED BY <2>1 DEF Promise!Next
<1>2. CASE Shows(reader, reader', results)
  <2>1. Promise!ShowRow
    BY <1>2 DEF Promise!ShowRow, Shows, Moving, Usable
  <2> QED BY <2>1 DEF Promise!Next
<1>3. CASE Exhausts(reader, reader', results, stage = "over")
  <2> DEFINE end == stage = "over" /\ reader.columns = Len(results)
             usable == ~(reader.failed \/ reader.closed \/ reader.finished)
  <2>1. usable' \in {usable, usable /\ ~end}
    <3>1. (usable' => usable) /\ (usable /\ ~usable' => end)
      BY <1>3 DEF Exhausts, Usable
    <3> HIDE DEF usable, end
    <3>2. usable \in BOOLEAN /\ usable' \in BOOLEAN /\ end \in BOOLEAN
      BY DEF usable, end
    <3> QED BY <3>1, <3>2, Narrower
  <2>2. usable =>
            IF reader.columns = 0 THEN stage = "over" /\ Len(results) = 0
            ELSE /\ reader.shown = results[reader.columns].rows
                 /\ reader.columns < Len(results) \/ results[reader.columns].ended
    BY <1>3 DEF Exhausts, Usable, Spent
  <2>3. /\ ~Moving(reader) /\ ~Moving(reader') /\ SamePlace(reader, reader')
        /\ RowKept(reader, reader') /\ reader'.answer = "end"
    BY <1>3 DEF Exhausts
  <2>4. UNCHANGED <<results, stage = "over", reader.columns, reader.shown,
                    reader.call \in {"start", "next"}>>
    BY <2>3 DEF SamePlace, Moving
  <2>5. reader.answer' = "end" /\ reader.row' \in {reader.row, <<0, 0>>} /\ ~(reader.call \in {"start", "next"})
    BY <2>3 DEF RowKept, NoRow, Moving
  <2> HIDE DEF end
  <2>6. Promise!End
    BY <2>1, <2>2, <2>4, <2>5 DEF Promise!End, Promise!Exhausted, Promise!Last, Promise!NoRow, end
  <2> QED BY <2>6 DEF Promise!Next
<1>4. CASE Moves(reader, reader', results)
  <2>1. Promise!Move
    BY <1>4 DEF Promise!Move, Promise!Last, Moves, Moving, Usable, NoRow, Promise!NoRow
  <2> QED BY <2>1 DEF Promise!Next
<1>5. CASE Finds(reader, reader')
  <2>1. Promise!Found
    BY <1>5 DEF Promise!Found, Finds, SamePlace, Moving, Usable
  <2> QED BY <2>1 DEF Promise!Next
<1>6. CASE FindsNone(reader, reader', results, stage = "over")
  <2> DEFINE end == stage = "over" /\ reader.columns = Len(results)
             usable == ~(reader.failed \/ reader.closed \/ reader.finished)
  <2>1. usable' \in {usable, FALSE}
    <3>1. usable' => usable
      BY <1>6 DEF FindsNone, Usable
    <3> HIDE DEF usable
    <3>2. usable \in BOOLEAN /\ usable' \in BOOLEAN /\ TRUE \in BOOLEAN
      BY DEF usable
    <3> QED BY <3>1, <3>2, Narrower
  <2>2. usable => end
    BY <1>6 DEF FindsNone, Usable
  <2>3. /\ ~Moving(reader') /\ SamePlace(reader, reader')
        /\ RowKept(reader, reader') /\ reader'.answer = "over"
    BY <1>6 DEF FindsNone
  <2>4. UNCHANGED <<results, stage = "over", reader.columns, reader.shown>>
    BY <2>3 DEF SamePlace
  <2>5. /\ reader.answer' = "over" /\ reader.row' \in {reader.row, <<0, 0>>}
        /\ (reader.call \in {"start", "next"})' = FALSE
    BY <2>3 DEF RowKept, NoRow, Moving
  <2>6. Promise!NotFound
    BY <2>1, <2>2, <2>4, <2>5 DEF Promise!NotFound, Promise!Last, Promise!NoRow
  <2> QED BY <2>6 DEF Promise!Next
<1>7. CASE Fails(reader, reader')
  <2>1. Promise!Fail
    BY <1>7 DEF Promise!Fail, Fails, SamePlace, Moving, Usable
  <2> QED BY <2>1 DEF Promise!Next
<1>8. CASE GivesUp(reader, reader')
  <2>1. CASE ~Usable(reader')
    <3>1. Promise!Close
      BY <1>8, <2>1 DEF Promise!Close, GivesUp, SamePlace, Moving, Usable
    <3> QED BY <3>1 DEF Promise!Next
  <2>2. CASE Usable(reader') /\ Usable(reader)
    <3>1. UNCHANGED Promise!vars
      BY <1>8, <2>2 DEF Promise!vars, GivesUp, SamePlace, Moving, Usable
    <3> QED BY <3>1
  <2> QED BY <1>8, <2>1, <2>2 DEF GivesUp
<1> QED BY <1>1, <1>2, <1>3, <1>4, <1>5, <1>6, <1>7, <1>8 DEF Steps

\* The handlers give typed readers.
LEMMA StartTyped ==
    ASSUME NEW r \in Readers, NEW m \in Items PROVE StartItem(r, m) \in Readers
<1>1. NoRow \in Nat \X Nat /\ NoItem \in Items /\ m.set \in Nat /\ <<m.set, m.index>> \in Nat \X Nat
  BY DEF NoRow, NoItem, Signal, Items, Kinds
<1>2. CASE m.kind = "T"
  BY <1>1, <1>2 DEF StartItem, Readers, Answer, Throw, SetColumns, MarkFinished
<1>3. CASE m.kind \in {"D", "C", "Z"}
  BY ZenonT(60), <1>1, <1>3 DEF StartItem, Readers, Answer, Throw, SetColumns, MarkFinished
<1>4. CASE m.kind = "E"
  BY <1>1, <1>4 DEF StartItem, Readers, Answer, Throw, SetColumns, MarkFinished
<1>5. CASE m.kind \in {"end", "throw"}
  BY ZenonT(60), <1>1, <1>5 DEF StartItem, Readers, Answer, Throw, SetColumns, MarkFinished
<1>6. CASE m.kind \notin {"T", "D", "C", "Z", "E", "end", "throw"}
  BY <1>1, <1>6 DEF StartItem, Readers, Answer, Throw, SetColumns, MarkFinished
<1> QED BY <1>2, <1>3, <1>4, <1>5, <1>6

LEMMA ReadTyped ==
    ASSUME NEW r \in Readers, NEW m \in Items PROVE ReadItem(r, m) \in Readers
<1>1. NoRow \in Nat \X Nat /\ NoItem \in Items /\ m.set \in Nat /\ <<m.set, m.index>> \in Nat \X Nat
  BY DEF NoRow, NoItem, Signal, Items, Kinds
<1>2. CASE m.kind = "D"
  <2> DEFINE n == r.shown + 1
             place == <<m.set, m.index>>
  <2>1. ReadItem(r, m) = Answer([r EXCEPT !.row = place, !.shown = n], "row")
    BY <1>2 DEF ReadItem
  <2>2. n \in Nat /\ place \in Nat \X Nat
    BY <1>1 DEF Readers
  <2> HIDE DEF n, place
  <2> QED BY ZenonT(60), <2>1, <2>2 DEF Readers, Answer
<1>3. CASE m.kind \in {"T", "X"}
  BY <1>1, <1>3 DEF ReadItem, ReadEnds, Readers, Answer, Throw, MarkFinished
<1>4. CASE m.kind = "C"
  BY ZenonT(60), <1>1, <1>4 DEF ReadItem, ReadEnds, Readers, Answer, Throw, MarkFinished
<1>5. CASE m.kind \in {"E", "throw"}
  BY ZenonT(60), <1>1, <1>5 DEF ReadItem, ReadEnds, Readers, Answer, Throw, MarkFinished
<1>6. CASE m.kind \in {"Z", "end"}
  BY ZenonT(60), <1>1, <1>6 DEF ReadItem, ReadEnds, Readers, Answer, Throw, MarkFinished
<1>7. CASE m.kind \notin {"D", "T", "X", "C", "E", "throw", "Z", "end"}
  BY <1>1, <1>7 DEF ReadItem, ReadEnds, Readers, Answer, Throw, MarkFinished
<1> QED BY <1>2, <1>3, <1>4, <1>5, <1>6, <1>7

LEMMA NextTyped ==
    ASSUME NEW r \in Readers, NEW m \in Items PROVE NextItem(r, m) \in Readers
<1>1. NoRow \in Nat \X Nat /\ NoItem \in Items /\ m.set \in Nat /\ <<m.set, m.index>> \in Nat \X Nat
  BY DEF NoRow, NoItem, Signal, Items, Kinds
<1>2. CASE m.kind = "T"
  BY ZenonT(60), <1>1, <1>2 DEF NextItem, Readers, Answer, Throw, SetColumns, MarkFinished
<1>3. CASE m.kind = "X"
  BY ZenonT(60), <1>1, <1>3 DEF NextItem, Readers, Answer, Throw, SetColumns, MarkFinished
<1>4. CASE m.kind = "D"
  BY <1>1, <1>4 DEF NextItem, Readers, Answer, Throw, SetColumns, MarkFinished
<1>5. CASE m.kind = "C"
  BY ZenonT(60), <1>1, <1>5 DEF NextItem, Readers, Answer, Throw, SetColumns, MarkFinished
<1>6. CASE m.kind \in {"E", "throw"}
  BY <1>1, <1>6 DEF NextItem, Readers, Answer, Throw, SetColumns, MarkFinished
<1>7. CASE m.kind \in {"Z", "end"}
  BY ZenonT(60), <1>1, <1>7 DEF NextItem, Readers, Answer, Throw, SetColumns, MarkFinished
<1>8. CASE m.kind \notin {"D", "T", "X", "C", "E", "throw", "Z", "end"}
  BY <1>1, <1>8 DEF NextItem, Readers, Answer, Throw, SetColumns, MarkFinished
<1> QED BY <1>2, <1>3, <1>4, <1>5, <1>6, <1>7, <1>8

LEMMA CloseTyped ==
    ASSUME NEW r \in Readers, NEW m \in Items PROVE CloseItem(r, m) \in Readers
<1>1. CASE m.kind \in {"Z", "end", "throw"}
  BY ZenonT(60), <1>1 DEF CloseItem, Readers
<1>2. CASE m.kind \notin {"Z", "end", "throw"}
  BY <1>2 DEF CloseItem
<1> QED BY <1>1, <1>2

\* What a handler makes of an item is a step of the cursor.
LEMMA StartSteps ==
    ASSUME NEW r \in Readers, NEW m \in Items, NEW res \in Results, NEW over \in BOOLEAN,
           r.call = "start", r.answer = "none",
           m.kind = "T" => m.set \in r.columns + 1..Len(res) /\ (Usable(r) => m.set = r.columns + 1),
           m.kind \in {"D", "C", "Z"} /\ Usable(r) => r.shown = 0,
           m.kind = "end" /\ Usable(r) => over /\ r.columns = Len(res)
    PROVE  Steps(r, StartItem(r, m), res, over)
<1>1. CASE m.kind = "T"
  <2>1. Moves(r, StartItem(r, m), res)
    BY <1>1 DEF StartItem, SetColumns, Readers, Moves, Moving, Usable
  <2> QED BY <2>1 DEF Steps
<1>2. CASE m.kind \in {"D", "C", "Z"} /\ ~r.failed /\ r.columns > 0
  <2>1. Finds(r, StartItem(r, m))
    BY <1>2 DEF StartItem, Answer, Readers, Finds, SamePlace, Moving, Usable
  <2> QED BY <2>1 DEF Steps
<1>3. CASE m.kind = "E"
  <2>1. GivesUp(r, StartItem(r, m))
    BY <1>3 DEF StartItem, Readers, GivesUp, SamePlace, Moving, Usable
  <2> QED BY <2>1 DEF Steps
<1>4. CASE m.kind = "end" /\ ~r.failed
  <2>1. FindsNone(r, StartItem(r, m), res, over)
    BY <1>4 DEF StartItem, Answer, Readers, FindsNone, RowKept, SamePlace, Moving, Usable
  <2> QED BY <2>1 DEF Steps
<1>5. CASE m.kind = "throw" \/ (m.kind = "end" /\ r.failed)
  <2>1. Fails(r, StartItem(r, m))
    BY <1>5 DEF StartItem, Throw, MarkFinished, Answer, Readers, Fails, SamePlace, Moving, Usable
  <2> QED BY <2>1 DEF Steps
<1>6. CASE /\ m.kind \notin {"T", "E", "end", "throw"}
           /\ ~(m.kind \in {"D", "C", "Z"} /\ ~r.failed /\ r.columns > 0)
  <2>1. StartItem(r, m) = r
    BY <1>6 DEF StartItem
  <2>2. GivesUp(r, r)
    BY DEF GivesUp, SamePlace
  <2> QED BY <2>1, <2>2 DEF Steps
<1> QED BY <1>1, <1>2, <1>3, <1>4, <1>5, <1>6

\* b is the reader before the call, r what the loop starts with.
LEMMA ReadSteps ==
    ASSUME NEW b \in Readers, NEW r \in Readers, NEW m \in Items, NEW res \in Results,
           NEW over \in BOOLEAN, SamePlace(b, r), r.row = b.row, Usable(r) <=> Usable(b),
           ~Moving(b), ~Moving(r),
           m.kind = "D" => /\ m.set = r.columns /\ m.index = r.shown + 1
                           /\ r.columns > 0 /\ r.shown < res[r.columns].rows,
           m.kind \in {"T", "X", "C", "Z", "end"} /\ Usable(r) =>
                Spent(r, res) /\ (r.columns = 0 => over),
           m.kind \in {"Z", "end"} /\ Usable(r) => over /\ r.columns = Len(res),
           m.kind \notin {"D", "T", "X", "C", "E", "throw", "Z", "end"} => r.answer = "none"
    PROVE  Steps(b, ReadItem(r, m), res, over)
<1>1. CASE m.kind = "D"
  <2>1. Shows(b, ReadItem(r, m), res)
    BY ZenonT(60), <1>1 DEF ReadItem, Answer, Readers, Shows, SamePlace, Moving, Usable
  <2> QED BY <2>1 DEF Steps
<1>2. CASE m.kind \in {"T", "X"}
  <2>1. Exhausts(b, ReadItem(r, m), res, over)
    BY SMTT(30), <1>2 DEF ReadItem, Answer, Readers, Exhausts, SamePlace, RowKept, Spent, Moving, Usable
  <2> QED BY <2>1 DEF Steps
<1>3. CASE m.kind = "C"
  <2> DEFINE q == ReadItem(r, m)
  <2>1. q = Answer([r EXCEPT !.complete = TRUE, !.row = NoRow], "end")
    BY <1>3 DEF ReadItem
  <2>2. /\ q.columns = r.columns /\ q.shown = r.shown /\ q.row = NoRow /\ q.answer = "end"
        /\ q.call = "none" /\ q.failed = r.failed /\ q.closed = r.closed
        /\ q.finished = r.finished
    BY <2>1 DEF Readers, Answer
  <2>3. Usable(b) => Spent(b, res) /\ (b.columns = 0 => over)
    BY <1>3 DEF SamePlace, Spent
  <2> HIDE DEF q
  <2>4. Exhausts(b, q, res, over)
    BY <2>2, <2>3 DEF Exhausts, SamePlace, RowKept, Moving, Usable
  <2> QED BY <2>4 DEF Steps, q
<1>4. CASE m.kind \in {"E", "throw"}
  <2>1. Fails(b, ReadItem(r, m))
    BY <1>4 DEF ReadItem, Throw, Answer, Readers, Fails, SamePlace, Moving, Usable
  <2> QED BY <2>1 DEF Steps
<1>5. CASE m.kind \in {"Z", "end"}
  <2> DEFINE q == ReadItem(r, m)
  <2>1. q = ReadEnds(r)
    BY <1>5 DEF ReadItem
  <2>2. /\ q.columns = r.columns /\ q.shown = r.shown /\ q.row = NoRow /\ q.answer = "end"
        /\ q.call = "none" /\ ~Usable(q)
    BY <2>1 DEF Readers, ReadEnds, MarkFinished, Answer, Usable
  <2>3. Usable(b) => Spent(b, res) /\ (b.columns = 0 => over) /\ over /\ b.columns = Len(res)
    BY <1>5 DEF SamePlace, Spent
  <2> HIDE DEF q
  <2>4. Exhausts(b, q, res, over)
    BY <2>2, <2>3 DEF Exhausts, SamePlace, RowKept, Moving
  <2> QED BY <2>4 DEF Steps, q
<1>6. CASE m.kind \notin {"D", "T", "X", "C", "E", "throw", "Z", "end"}
  <2>1. ReadItem(r, m) = r
    BY <1>6 DEF ReadItem
  <2>2. Asks(b, r)
    BY <1>6 DEF Asks, RowKept
  <2> QED BY <2>1, <2>2 DEF Steps
<1> QED BY <1>1, <1>2, <1>3, <1>4, <1>5, <1>6

LEMMA NextSteps ==
    ASSUME NEW b \in Readers, NEW r \in Readers, NEW m \in Items, NEW res \in Results,
           NEW over \in BOOLEAN, SamePlace(b, r), RowKept(b, r), Usable(r) <=> Usable(b),
           r.call = "next", r.answer = "none", b = r \/ ~r.found,
           m.kind = "T" => m.set \in r.columns + 1..Len(res) /\ (Usable(r) => m.set = r.columns + 1),
           m.kind \in {"D", "C"} /\ r.found => r.columns > 0 /\ (Usable(r) => r.shown = 0),
           m.kind \in {"Z", "end"} /\ Usable(r) => over /\ r.columns = Len(res),
           m.kind \in {"E", "throw"} => r.row = b.row
    PROVE  Steps(b, NextItem(r, m), res, over)
<1>1. CASE m.kind = "T"
  <2>1. Moves(b, NextItem(r, m), res)
    BY ZenonT(60), <1>1 DEF NextItem, SetColumns, Readers, Moves, SamePlace, Moving, Usable
  <2> QED BY <2>1 DEF Steps
<1>2. CASE m.kind = "X"
  <2>1. Asks(b, NextItem(r, m))
    BY <1>2 DEF NextItem, Readers, Asks, SamePlace, RowKept, Usable
  <2> QED BY <2>1 DEF Steps
<1>3. CASE m.kind = "D" /\ r.found /\ ~r.draining
  <2>1. Finds(b, NextItem(r, m))
    BY ZenonT(60), <1>3 DEF NextItem, Answer, Readers, Finds, SamePlace, Moving, Usable
  <2> QED BY <2>1 DEF Steps
<1>4. CASE m.kind = "C" /\ r.draining
  <2>1. Asks(b, NextItem(r, m))
    BY ZenonT(60), <1>4 DEF NextItem, Readers, Asks, SamePlace, RowKept, Usable
  <2> QED BY <2>1 DEF Steps
<1>5. CASE m.kind = "C" /\ ~r.draining /\ r.found
  <2>1. Finds(b, NextItem(r, m))
    BY ZenonT(60), <1>5 DEF NextItem, Answer, Readers, Finds, SamePlace, Moving, Usable
  <2> QED BY <2>1 DEF Steps
<1>6. CASE m.kind \in {"E", "throw"}
  <2>1. Fails(b, NextItem(r, m))
    BY <1>6 DEF NextItem, Throw, Answer, Readers, Fails, SamePlace, Moving, Usable
  <2> QED BY <2>1 DEF Steps
<1>7. CASE m.kind \in {"Z", "end"}
  <2>1. FindsNone(b, NextItem(r, m), res, over)
    BY ZenonT(60), <1>7 DEF NextItem, MarkFinished, Answer, Readers, FindsNone, SamePlace, RowKept, Moving,
      Usable
  <2> QED BY <2>1 DEF Steps
<1>8. CASE \/ m.kind \notin {"T", "X", "D", "C", "E", "throw", "Z", "end"}
           \/ m.kind = "D" /\ ~(r.found /\ ~r.draining)
           \/ m.kind = "C" /\ ~r.draining /\ ~r.found
  <2>1. NextItem(r, m) = r
    BY <1>8 DEF NextItem
  <2>2. Asks(b, r)
    BY DEF Asks
  <2> QED BY <2>1, <2>2 DEF Steps
<1> QED BY <1>1, <1>2, <1>3, <1>4, <1>5, <1>6, <1>7, <1>8


-----------------------------------------------------------------------------
(***************************************************************************)
(* Where the reader is in the response.  What it has not read yet leads    *)
(* from its place to the place of the server: a place is a result set, its *)
(* rows so far, and what may come next, as stage says of the server.       *)
(***************************************************************************)
Stages == {"between", "described", "rows", "failed", "over"}
Places == [set : Nat, rows : Nat, stage : Stages]

\* The rows of c are all rows of its set.
Whole(res, c) == c.rows = res[c.set].rows /\ res[c.set].ended

\* The message m may follow at the place c of the response ...
Allowed(res, c, m) ==
    /\ m.kind \in Messages /\ c.stage # "over" /\ c.set <= Len(res)
    /\ m.kind = "T" =>
        /\ c.stage = "between" \/ (c.stage = "rows" /\ c.rows > 0)
        /\ m.set = c.set + 1 /\ m.set <= Len(res)
        /\ c.set > 0 => res[c.set].rows = c.rows
    /\ m.kind = "X" => c.stage = "described" /\ m.set = c.set
    /\ m.kind = "D" =>
        /\ c.stage \in {"described", "rows"} /\ c.set > 0
        /\ m.set = c.set /\ m.index = c.rows + 1 /\ m.index <= res[c.set].rows
    /\ m.kind = "C" =>
        c.stage = "between" \/ (c.stage \in {"described", "rows"} /\ c.set > 0 /\ Whole(res, c))
    /\ m.kind = "E" => c.stage # "failed"
    /\ m.kind \in {"Z", "L"} => c.stage \in {"between", "failed"}

\* ... and leads to this one.
After(c, m) ==
    [set |-> IF m.kind = "T" THEN m.set ELSE c.set,
     rows |-> IF m.kind = "T" THEN 0 ELSE IF m.kind = "D" THEN c.rows + 1 ELSE c.rows,
     stage |-> CASE m.kind = "T" -> "described"
                 [] m.kind \in {"X", "D"} -> "rows"
                 [] m.kind = "C" -> "between"
                 [] m.kind = "E" -> "failed"
                 [] m.kind \in {"Z", "L"} -> "over"
                 [] OTHER -> c.stage]

\* The messages of s lead from c to d.
Leads(c, s, res, d) ==
    \E ctx \in Seq(Places) :
        /\ Len(ctx) = Len(s) + 1 /\ ctx[1] = c /\ ctx[Len(ctx)] = d
        /\ \A i \in 1..Len(s) : Allowed(res, ctx[i], s[i]) /\ ctx[i + 1] = After(ctx[i], s[i])
        /\ \A i, j \in 1..Len(ctx) : i <= j => ctx[i].set <= ctx[j].set

LEMMA LeadsNowhere ==
    ASSUME NEW c, NEW res, NEW d, Leads(c, <<>>, res, d)
    PROVE  c = d
BY DEF Leads

LEMMA LeadsHere ==
    ASSUME NEW c \in Places, NEW res
    PROVE  Leads(c, <<>>, res, c)
<1> DEFINE ctx == <<c>>
<1>1. ctx \in Seq(Places) /\ Len(ctx) = 1 /\ ctx[1] = c
  OBVIOUS
<1>2. \A i, j \in 1..Len(ctx) : i <= j => ctx[i].set <= ctx[j].set
  BY <1>1 DEF Places
<1> HIDE DEF ctx
<1> QED BY <1>1, <1>2 DEF Leads

\* What is left of a path after its front.
LEMMA LeadsFrom ==
    ASSUME NEW c, NEW s \in Seq(Items), NEW res, NEW d, NEW n \in 0..Len(s),
           NEW ctx \in Seq(Places), Len(ctx) = Len(s) + 1, ctx[Len(ctx)] = d,
           \A i \in 1..Len(s) : Allowed(res, ctx[i], s[i]) /\ ctx[i + 1] = After(ctx[i], s[i]),
           \A i, j \in 1..Len(ctx) : i <= j => ctx[i].set <= ctx[j].set
    PROVE  Leads(ctx[n + 1], SubSeq(s, n + 1, Len(s)), res, d)
<1> DEFINE t == SubSeq(s, n + 1, Len(s))
           ptx == SubSeq(ctx, n + 1, Len(ctx))
<1>1. /\ t \in Seq(Items) /\ Len(t) = Len(s) - n
      /\ \A i \in 1..Len(t) : t[i] = s[n + i]
  OBVIOUS
<1>2. /\ ptx \in Seq(Places) /\ Len(ptx) = Len(s) + 1 - n
      /\ \A i \in 1..Len(ptx) : ptx[i] = ctx[n + i]
  OBVIOUS
<1> HIDE DEF t, ptx
<1>3. Len(ptx) = Len(t) + 1 /\ ptx[1] = ctx[n + 1] /\ ptx[Len(ptx)] = d
  BY <1>1, <1>2
<1>4. ASSUME NEW i \in 1..Len(t)
      PROVE  Allowed(res, ptx[i], t[i]) /\ ptx[i + 1] = After(ptx[i], t[i])
  <2>1. i \in Nat /\ n \in Nat /\ Len(s) \in Nat /\ i <= Len(s) - n /\ i >= 1
    BY <1>1
  <2>2. n + i \in 1..Len(s) /\ i \in 1..Len(ptx) /\ i + 1 \in 1..Len(ptx) /\ n + (i + 1) = (n + i) + 1
    BY <1>2, <2>1
  <2>3. ptx[i] = ctx[n + i] /\ t[i] = s[n + i] /\ ptx[i + 1] = ctx[(n + i) + 1]
    BY <1>1, <1>2, <2>2
  <2> QED BY <2>2, <2>3
<1>5. ASSUME NEW i \in 1..Len(ptx), NEW j \in 1..Len(ptx), i <= j
      PROVE  ptx[i].set <= ptx[j].set
  <2>1. i \in Nat /\ j \in Nat /\ n \in Nat /\ Len(s) \in Nat /\ i >= 1 /\ i <= j /\ j <= (Len(s) + 1) - n
    BY <1>2, <1>5
  <2>2. n + i \in 1..Len(ctx) /\ n + j \in 1..Len(ctx) /\ n + i <= n + j
    BY <2>1
  <2> QED BY <1>2, <2>2
<1> QED BY <1>2, <1>3, <1>4, <1>5 DEF Leads, t

LEMMA LeadsNext ==
    ASSUME NEW c, NEW s \in Seq(Items), NEW res, NEW d, Leads(c, s, res, d), s # <<>>
    PROVE  /\ Allowed(res, c, Head(s)) /\ Leads(After(c, Head(s)), Tail(s), res, d)
           /\ c \in Places /\ After(c, Head(s)) \in Places
           /\ c.set <= After(c, Head(s)).set
<1>1. PICK ctx \in Seq(Places) :
        /\ Len(ctx) = Len(s) + 1 /\ ctx[1] = c /\ ctx[Len(ctx)] = d
        /\ \A i \in 1..Len(s) : Allowed(res, ctx[i], s[i]) /\ ctx[i + 1] = After(ctx[i], s[i])
        /\ \A i, j \in 1..Len(ctx) : i <= j => ctx[i].set <= ctx[j].set
  BY DEF Leads
<1>2. Len(s) \in Nat /\ Len(s) > 0 /\ Head(s) = s[1] /\ Tail(s) = SubSeq(s, 2, Len(s))
  OBVIOUS
<1>3. ctx[1] \in Places /\ ctx[2] \in Places
  BY <1>1, <1>2
<1>4. Allowed(res, ctx[1], s[1]) /\ ctx[1 + 1] = After(ctx[1], s[1])
  BY <1>1, <1>2
<1>5. ctx[1].set <= ctx[2].set
  BY <1>1, <1>2
<1>6. Leads(ctx[1 + 1], SubSeq(s, 1 + 1, Len(s)), res, d)
  <2>1. 1 \in 0..Len(s)
    BY <1>2
  <2> QED BY <1>1, <2>1, LeadsFrom
<1>7. ctx[1 + 1] = ctx[2] /\ SubSeq(s, 1 + 1, Len(s)) = Tail(s)
  BY <1>2
<1> QED BY <1>1, <1>2, <1>3, <1>4, <1>5, <1>6, <1>7

LEMMA LeadsLater ==
    ASSUME NEW c, NEW u \in Seq(Items), NEW v \in Seq(Items), NEW res, NEW d,
           Leads(c, u \o v, res, d)
    PROVE  \E e \in Places : Leads(e, v, res, d) /\ c.set <= e.set
<1> DEFINE s == u \o v
<1>1. /\ s \in Seq(Items) /\ Len(u) \in 0..Len(s) /\ Len(s) = Len(u) + Len(v)
      /\ SubSeq(s, Len(u) + 1, Len(s)) = v
  OBVIOUS
<1>2. Leads(c, s, res, d)
  OBVIOUS
<1> HIDE DEF s
<1>3. PICK ctx \in Seq(Places) :
        /\ Len(ctx) = Len(s) + 1 /\ ctx[1] = c /\ ctx[Len(ctx)] = d
        /\ \A i \in 1..Len(s) : Allowed(res, ctx[i], s[i]) /\ ctx[i + 1] = After(ctx[i], s[i])
        /\ \A i, j \in 1..Len(ctx) : i <= j => ctx[i].set <= ctx[j].set
  BY <1>2 DEF Leads
<1>4. Leads(ctx[Len(u) + 1], v, res, d)
  BY <1>1, <1>3, LeadsFrom
<1>5. Len(u) + 1 \in 1..Len(ctx) /\ 1 \in 1..Len(ctx)
  BY <1>1, <1>3
<1>6. ctx[Len(u) + 1] \in Places /\ c.set <= ctx[Len(u) + 1].set
  BY <1>3, <1>5
<1> QED BY <1>4, <1>6

LEMMA LeadsForward ==
    ASSUME NEW c, NEW s \in Seq(Items), NEW res, NEW d, Leads(c, s, res, d)
    PROVE  c \in Places /\ d \in Places /\ c.set <= d.set
<1>1. PICK ctx \in Seq(Places) :
        /\ Len(ctx) = Len(s) + 1 /\ ctx[1] = c /\ ctx[Len(ctx)] = d
        /\ \A i, j \in 1..Len(ctx) : i <= j => ctx[i].set <= ctx[j].set
  BY DEF Leads
<1>2. 1 \in 1..Len(ctx) /\ Len(ctx) \in 1..Len(ctx)
  BY <1>1
<1> QED BY <1>1, <1>2

\* Nothing follows the last message.
LEMMA LeadsEnds ==
    ASSUME NEW c, NEW s \in Seq(Items), NEW res, NEW d, Leads(c, s, res, d), c.stage = "over"
    PROVE  s = <<>> /\ c = d
<1>1. s = <<>>
  <2> SUFFICES ASSUME s # <<>> PROVE FALSE
    OBVIOUS
  <2> QED BY LeadsNext DEF Allowed
<1> QED BY <1>1, LeadsNowhere

LEMMA ElementTyped ==
    ASSUME NEW S, NEW s \in Seq(S), NEW i \in 1..Len(s)
    PROVE  s[i] \in S
OBVIOUS

\* The server has added to what it said, or said more of its last result set.
Grows(res, new) ==
    /\ Len(res) <= Len(new)
    /\ \A k \in 1..Len(res) :
        new[k] = res[k] \/ (k = Len(res) /\ ~res[k].ended /\ res[k].rows <= new[k].rows)

LEMMA AllowedStill ==
    ASSUME NEW c \in Places, NEW m \in Items, NEW res \in Results, NEW new \in Results,
           Grows(res, new), Allowed(res, c, m)
    PROVE  Allowed(new, c, m)
<1>1. Len(res) \in Nat /\ Len(new) \in Nat /\ c.set \in Nat /\ c.rows \in Nat
  BY DEF Places, Results
<1>2. m.kind \in Messages /\ c.stage # "over" /\ c.set <= Len(res) /\ c.set <= Len(new)
  BY <1>1 DEF Allowed, Grows
<1>3. m.kind = "T" => (c.set > 0 => new[c.set].rows = c.rows)
  <2> SUFFICES ASSUME m.kind = "T", c.set > 0 PROVE new[c.set].rows = c.rows
    OBVIOUS
  <2>1. c.set \in 1..Len(res) /\ c.set # Len(res) /\ res[c.set].rows = c.rows
    BY <1>1 DEF Allowed, Items
  <2> QED BY <2>1 DEF Grows
<1>4. m.kind = "D" => m.index <= new[c.set].rows
  <2> SUFFICES ASSUME m.kind = "D" PROVE m.index <= new[c.set].rows
    OBVIOUS
  <2>1. c.set \in 1..Len(res) /\ c.set \in 1..Len(new) /\ m.index <= res[c.set].rows /\ m.index \in Nat
    BY <1>1, <1>2 DEF Allowed, Items
  <2>2. res[c.set].rows \in Nat /\ new[c.set].rows \in Nat
    <3>1. res[c.set] \in [rows : Nat, ended : BOOLEAN] /\ new[c.set] \in [rows : Nat, ended : BOOLEAN]
      BY <2>1, ElementTyped DEF Results
    <3> QED BY <3>1
  <2>3. res[c.set].rows <= new[c.set].rows
    BY <2>1, <2>2 DEF Grows
  <2> QED BY <2>1, <2>2, <2>3
<1>5. c.set > 0 /\ Whole(res, c) => Whole(new, c)
  BY <1>1, <1>2 DEF Grows, Whole
<1>6. m.kind = "T" => m.set <= Len(new)
  BY <1>1 DEF Allowed, Grows, Items
<1> QED BY <1>2, <1>3, <1>4, <1>5, <1>6 DEF Allowed

LEMMA LeadsOn ==
    ASSUME NEW c, NEW s \in Seq(Items), NEW res \in Results, NEW new \in Results, NEW d,
           NEW m \in Items, NEW e \in Places,
           Leads(c, s, res, d), Grows(res, new), Allowed(new, d, m), e = After(d, m), d.set <= e.set
    PROVE  Leads(c, Append(s, m), new, e)
<1>1. PICK ctx \in Seq(Places) :
        /\ Len(ctx) = Len(s) + 1 /\ ctx[1] = c /\ ctx[Len(ctx)] = d
        /\ \A i \in 1..Len(s) : Allowed(res, ctx[i], s[i]) /\ ctx[i + 1] = After(ctx[i], s[i])
        /\ \A i, j \in 1..Len(ctx) : i <= j => ctx[i].set <= ctx[j].set
  BY DEF Leads
<1> DEFINE t == Append(s, m)
           ptx == Append(ctx, e)
<1>2. t \in Seq(Items) /\ Len(t) = Len(s) + 1 /\ t[Len(t)] = m /\ \A i \in 1..Len(s) : t[i] = s[i]
  OBVIOUS
<1>3. /\ ptx \in Seq(Places) /\ Len(ptx) = Len(ctx) + 1 /\ ptx[Len(ptx)] = e
      /\ \A i \in 1..Len(ctx) : ptx[i] = ctx[i]
  OBVIOUS
<1> HIDE DEF t, ptx
<1>4. Len(s) \in Nat /\ Len(ctx) = Len(s) + 1 /\ 1 \in 1..Len(ctx)
  BY <1>1
<1>5. ASSUME NEW i \in 1..Len(t)
      PROVE  Allowed(new, ptx[i], t[i]) /\ ptx[i + 1] = After(ptx[i], t[i])
  <2>1. CASE i \in 1..Len(s)
    <3>1. i \in 1..Len(ctx) /\ i + 1 \in 1..Len(ctx)
      BY <1>4, <2>1
    <3>2. ptx[i] = ctx[i] /\ ptx[i + 1] = ctx[i + 1] /\ t[i] = s[i]
      BY <1>2, <1>3, <2>1, <3>1
    <3>3. Allowed(res, ctx[i], s[i]) /\ ctx[i + 1] = After(ctx[i], s[i])
      BY <1>1, <2>1
    <3>4. ctx[i] \in Places /\ s[i] \in Items
      BY <2>1, <3>1
    <3> QED BY <3>2, <3>3, <3>4, AllowedStill
  <2>2. CASE i = Len(t)
    <3>1. i = Len(ctx) /\ i + 1 = Len(ptx) /\ i \in 1..Len(ctx)
      BY <1>2, <1>3, <1>4, <2>2
    <3> QED BY <1>1, <1>2, <1>3, <2>2, <3>1
  <2> QED BY <1>2, <1>4, <2>1, <2>2
<1>6. ASSUME NEW i \in 1..Len(ptx), NEW j \in 1..Len(ptx), i <= j
      PROVE  ptx[i].set <= ptx[j].set
  <2>1. CASE j \in 1..Len(ctx)
    <3>1. i \in Nat /\ j \in Nat /\ Len(ctx) \in Nat /\ i >= 1 /\ i <= j /\ j <= Len(ctx)
      BY <1>3, <1>4, <1>6, <2>1
    <3>2. i \in 1..Len(ctx)
      BY <3>1
    <3>3. ctx[i].set <= ctx[j].set
      BY <1>1, <2>1, <3>1, <3>2
    <3> QED BY <1>3, <2>1, <3>2, <3>3
  <2>2. CASE j = Len(ptx) /\ i \in 1..Len(ctx)
    <3>1. Len(ctx) \in 1..Len(ctx) /\ i <= Len(ctx) /\ ctx[i] \in Places
      BY <1>4, <2>2
    <3>2. ctx[i].set <= d.set /\ d \in Places
      BY <1>1, <2>2, <3>1
    <3>3. ptx[i] = ctx[i] /\ ptx[j] = e
      BY <1>3, <2>2
    <3> QED BY SMTT(30), <3>1, <3>2, <3>3 DEF Places
  <2>3. CASE j = Len(ptx) /\ i = Len(ptx)
    BY <1>3, <2>3 DEF Places
  <2> QED BY <1>3, <1>4, <2>1, <2>2, <2>3
<1>7. Len(ptx) = Len(t) + 1 /\ ptx[1] = c
  BY <1>1, <1>2, <1>3, <1>4
<1> QED BY <1>3, <1>5, <1>6, <1>7 DEF Leads, t

-----------------------------------------------------------------------------
(***************************************************************************)
(* The invariant.  The reader stands at a place from which what it has not *)
(* read leads to the place of the server, and what the reader remembers    *)
(* agrees with its place.  After close() that matters only for a read()    *)
(* that is still served.                                                   *)
(***************************************************************************)

\* What the reader remembers at the place c.
Remembers(r, c, res) ==
    /\ c.set = IF r.pending > 0 THEN r.pending ELSE r.columns
    /\ r.pending > 0 =>
        /\ c.rows = 0 /\ r.columns > 0 /\ r.pending = r.columns + 1
        /\ ~r.failed => res[r.columns].rows = r.shown
    /\ ~r.failed /\ ~r.finished /\ r.call # "next" /\ r.pending = 0 => c.rows = r.shown
    /\ r.call = "start" => r.shown = 0 /\ ~r.complete
    /\ r.call = "next" /\ r.found => c.rows = 0 /\ r.shown = 0 /\ ~r.draining /\ r.columns > 0
    /\ r.call = "next" /\ ~r.found /\ ~r.draining => r.complete
    /\ r.complete => r.pending = 0 /\ r.call # "read" /\ c.stage \notin {"described", "rows"}
    /\ c.stage = "failed" => r.failed
    /\ c.stage \in {"between", "over"} /\ c.set > 0 /\ ~r.failed => Whole(res, c)

\* After an error, and under new columns, the generator goes on in one way only.
AtPlace(r, c, res, gen) ==
    /\ Remembers(r, c, res)
    /\ gen = "live" /\ r.failed => c.stage \in {"failed", "over"}
    /\ gen = "live" /\ c.stage = "described" =>
        r.pending > 0 \/ r.waiting # NoItem \/ Moving(r)

\* The calls of a reader.
Orderly(r) ==
    /\ r.closing => r.closed
    /\ r.closed => r.call # "start"
    /\ r.finished => r.call = "none" /\ r.waiting = NoItem
    /\ r.call # "none" => r.waiting = NoItem /\ r.answer = "none" /\ r.pending = 0
    /\ r.waiting # NoItem /\ ~r.closed =>
        /\ r.waiting.kind \in {"D", "C", "Z"} /\ r.columns > 0
        /\ r.pending = 0 /\ ~r.failed /\ ~r.complete

\* Who has asked the generator.
Asked(r, req) ==
    \/ req = <<>> /\ r.call = "none" /\ ~r.closing
    \/ req = <<"call">> /\ r.call # "none" /\ ~r.closing
    \/ req = <<"close">> /\ r.call = "none" /\ r.closing
    \/ req \in {<<"call", "close">>, <<"close", "call">>} /\ r.call # "none" /\ r.closing

\* What has been read ahead, and what the generator was told.
Discards ==
    /\ \A i \in 1..Len(batch) : batch[i].kind = "D"
    /\ begun => reader.closed
    /\ begun /\ generator = "live" => requests = <<"call", "close">> /\ batch = <<>>
    /\ reader.closed /\ requests # <<>> => discard
    /\ discard => reader.closed
    /\ reader.call = "read" => batch = <<>>
    /\ reader.pending > 0 /\ ~reader.closed => batch = <<>>

\* The end of the response.
Ended ==
    /\ reader.finished => generator = "done"
    /\ reader.waiting.kind = "Z" => generator = "done"
    /\ reader.columns = 0 /\ reader.call # "start" => generator = "done"
    /\ generator = "done" =>
        /\ arrived = <<>> /\ batch = <<>>
        /\ stage = "over" \/ (link = "down" /\ (reader.failed \/ reader.closed))
    /\ stage \in {"described", "rows"} => Sets > 0 /\ ~results[Sets].ended

Typed ==
    /\ reader \in Readers /\ batch \in Seq(Items) /\ arrived \in Seq(Items)
    /\ results \in Results /\ stage \in Stages /\ generator \in {"live", "done"}

Held(r) == IF r.waiting = NoItem \/ r.closed THEN <<>> ELSE <<r.waiting>>
Unread == Held(reader) \o (batch \o arrived)
There ==
    [set |-> Sets, rows |-> IF Sets = 0 THEN 0 ELSE results[Sets].rows, stage |-> stage]

Tracked == ~reader.closed \/ (begun /\ reader.call = "read")

OnPath ==
    \E c \in Places :
        /\ Leads(c, Unread, results, There)
        /\ reader.columns <= c.set /\ reader.pending <= c.set
        /\ Tracked => AtPlace(reader, c, results, generator)

OnCourse == Typed /\ Orderly(reader) /\ Asked(reader, requests) /\ Discards /\ Ended /\ OnPath

\* What the generator makes of a message.
Given(m) == IF m.kind = "L" THEN Signal("end") ELSE m

\* From r the reader q has got to the place after m, or it holds m back.
Reached(q, c, m, res) ==
    \/ q.waiting = NoItem /\ AtPlace(q, After(c, m), res, "live")
    \/ q.waiting = m /\ m # NoItem /\ AtPlace(q, c, res, "live")

LEMMA StartReaches ==
    ASSUME NEW r \in Readers, NEW c \in Places, NEW m \in Items, NEW res \in Results,
           NEW over \in BOOLEAN, Orderly(r), r.call = "start", AtPlace(r, c, res, "live"),
           Allowed(res, c, m), m.kind \in {"Z", "L"} => over /\ c.set = Len(res)
    PROVE  LET q == StartItem(r, Given(m)) IN
           Steps(r, q, res, over) /\ Orderly(q) /\ Reached(q, c, m, res)
<1> DEFINE q == StartItem(r, Given(m))
<1>1. /\ r.waiting = NoItem /\ r.answer = "none" /\ r.pending = 0 /\ ~r.closed /\ ~r.finished
      /\ r.shown = 0 /\ ~r.complete /\ c.set = r.columns
      /\ (~r.failed => c.rows = 0)
      /\ (r.failed => c.stage \in {"failed", "over"})
      /\ (c.stage = "failed" => r.failed)
      /\ (c.stage = "between" /\ c.set > 0 /\ ~r.failed => Whole(res, c))
  BY DEF Orderly, AtPlace, Remembers
<1>2. m.kind \in Messages /\ Given(m) \in Items
  BY DEF Allowed, Given, Signal, Items, Kinds
<1>3. Steps(r, q, res, over)
  <2>1. Given(m).kind = "T" =>
            Given(m).set \in r.columns + 1..Len(res) /\ (Usable(r) => Given(m).set = r.columns + 1)
    BY <1>1 DEF Given, Signal, Allowed, Items, Places, Results
  <2>2. Given(m).kind = "end" /\ Usable(r) => over /\ r.columns = Len(res)
    BY <1>1, <1>2 DEF Given, Messages
  <2> QED BY <1>1, <1>2, <2>1, <2>2, StartSteps
<1>4. CASE m.kind = "T"
  <2>1. q = [r EXCEPT !.columns = m.set, !.shown = 0, !.row = NoRow]
    BY <1>4 DEF StartItem, Given, SetColumns
  <2>2. Orderly(q)
    BY <1>1, <2>1 DEF Orderly, Readers
  <2>3. /\ After(c, m) = [set |-> m.set, rows |-> 0, stage |-> "described"]
        /\ m.set > 0 /\ ~r.failed
    BY <1>1, <1>4 DEF After, Allowed, Places
  <2>4. AtPlace(q, After(c, m), res, "live") /\ q.waiting = NoItem
    BY <1>1, <2>1, <2>3 DEF AtPlace, Remembers, Moving, Readers
  <2> QED BY <1>3, <2>2, <2>4 DEF Reached
<1>5. CASE m.kind \in {"D", "C", "Z"} /\ ~r.failed /\ r.columns > 0
  <2>1. q = [r EXCEPT !.waiting = m, !.call = "none", !.answer = "set"]
    BY <1>5 DEF StartItem, Given, Answer
  <2>2. Orderly(q)
    BY <1>1, <1>5, <2>1 DEF Orderly, Readers
  <2>3. m # NoItem
    BY <1>5 DEF NoItem, Signal
  <2>4. AtPlace(q, c, res, "live") /\ q.waiting = m
    BY <1>1, <1>5, <2>1, <2>3 DEF AtPlace, Remembers, Moving, Readers, Allowed
  <2> QED BY <1>3, <2>2, <2>3, <2>4 DEF Reached
<1>6. CASE m.kind = "E"
  <2>1. q = [r EXCEPT !.failed = TRUE]
    BY <1>6 DEF StartItem, Given
  <2>2. Orderly(q)
    BY <1>1, <2>1 DEF Orderly, Readers
  <2>3. After(c, m) = [set |-> c.set, rows |-> c.rows, stage |-> "failed"]
    BY <1>6 DEF After
  <2>4. AtPlace(q, After(c, m), res, "live") /\ q.waiting = NoItem
    BY <1>1, <2>1, <2>3 DEF AtPlace, Remembers, Moving, Readers
  <2> QED BY <1>3, <2>2, <2>4 DEF Reached
<1>7. CASE m.kind = "L" /\ ~r.failed
  <2>1. q = [r EXCEPT !.call = "none", !.answer = "over"]
    BY <1>7 DEF StartItem, Given, Answer, Signal
  <2>2. Orderly(q)
    BY <1>1, <2>1 DEF Orderly, Readers
  <2>3. After(c, m) = [set |-> c.set, rows |-> c.rows, stage |-> "over"] /\ c.stage = "between"
    BY <1>1, <1>7 DEF After, Allowed
  <2>4. AtPlace(q, After(c, m), res, "live") /\ q.waiting = NoItem
    BY <1>1, <1>7, <2>1, <2>3 DEF AtPlace, Remembers, Moving, Readers, Whole
  <2> QED BY <1>3, <2>2, <2>4 DEF Reached
<1>8. CASE m.kind = "L" /\ r.failed
  <2>1. q = Throw(MarkFinished(r))
    BY <1>8 DEF StartItem, Given, Signal
  <2>2. /\ q.closed = r.closed /\ q.closing = r.closing /\ q.call = "none" /\ q.waiting = NoItem
        /\ q.failed /\ q.finished /\ q.pending = 0 /\ q.columns = r.columns
        /\ ~q.complete
    BY <1>1, <2>1 DEF Readers, Throw, Answer, MarkFinished
  <2>3. Orderly(q)
    BY <1>1, <2>2 DEF Orderly
  <2>4. After(c, m) = [set |-> c.set, rows |-> c.rows, stage |-> "over"]
    BY <1>8 DEF After
  <2> HIDE DEF q
  <2>5. AtPlace(q, After(c, m), res, "live")
    BY <1>1, <2>2, <2>4 DEF AtPlace, Remembers, Moving
  <2> QED BY <1>3, <2>2, <2>3, <2>5 DEF Reached, q
<1>9. CASE m.kind \in {"X", "N"} \/ (m.kind \in {"D", "C", "Z"} /\ (r.failed \/ r.columns = 0))
  <2>1. q = r
    BY <1>9 DEF StartItem, Given, Readers
  <2>2. AtPlace(r, After(c, m), res, "live")
    <3>1. CASE m.kind = "X"
      <4>1. After(c, m) = [set |-> c.set, rows |-> c.rows, stage |-> "rows"]
        BY <3>1 DEF After
      <4> QED BY <1>1, <3>1, <4>1 DEF AtPlace, Remembers, Moving, Allowed
    <3>2. CASE m.kind = "N"
      <4>1. After(c, m) = c
        BY <3>2 DEF After, Places
      <4> QED BY <4>1
    <3>3. CASE m.kind = "C" /\ (r.failed \/ r.columns = 0)
      <4>1. After(c, m) = c
        BY <1>1, <3>3 DEF After, Places, Allowed
      <4> QED BY <4>1
    <3>4. CASE m.kind = "Z" /\ (r.failed \/ r.columns = 0)
      <4>1. After(c, m) = [set |-> c.set, rows |-> c.rows, stage |-> "over"]
        BY <3>4 DEF After
      <4> QED BY <1>1, <3>4, <4>1 DEF AtPlace, Remembers, Moving, Allowed, Places
    <3>5. CASE m.kind = "D" /\ (r.failed \/ r.columns = 0)
      BY <1>1, <3>5 DEF Allowed
    <3> QED BY <1>9, <3>1, <3>2, <3>3, <3>4, <3>5
  <2> HIDE DEF q
  <2> QED BY <1>1, <1>3, <2>1, <2>2 DEF Reached, q
<1> QED BY <1>2, <1>4, <1>5, <1>6, <1>7, <1>8, <1>9 DEF Messages, Readers

\* b is the reader before the call of read(), r what its loop starts with.
LEMMA ReadReaches ==
    ASSUME NEW b \in Readers, NEW r \in Readers, NEW c \in Places, NEW m \in Items,
           NEW res \in Results, NEW over \in BOOLEAN,
           SamePlace(b, r), r.row = b.row, Usable(r) <=> Usable(b), ~Moving(b),
           Orderly(r), r.call = "read" \/ (r.call = "none" /\ m.kind = "D"),
           r.waiting = NoItem, r.pending = 0, r.columns > 0, ~r.finished,
           ~r.complete \/ m.kind = "D",
           Remembers(r, c, res), r.failed => c.stage \in {"failed", "over"},
           c.stage = "described" => m.kind \in {"D", "C"},
           Allowed(res, c, m), m.kind \in {"Z", "L"} => over /\ c.set = Len(res)
    PROVE  LET q == ReadItem(r, Given(m)) IN
           Steps(b, q, res, over) /\ Orderly(q) /\ Reached(q, c, m, res)
<1> DEFINE q == ReadItem(r, Given(m))
<1>1. /\ c.set = r.columns /\ r.call # "next" /\ r.call # "start"
      /\ (~r.failed => c.rows = r.shown)
      /\ (c.stage = "failed" => r.failed)
      /\ (c.stage = "between" /\ ~r.failed => Whole(res, c))
  BY DEF Remembers
<1>2. m.kind \in Messages /\ Given(m) \in Items
  BY DEF Allowed, Given, Signal, Items, Kinds
<1>3. ~r.complete
  BY DEF Remembers, Allowed
<1>4. CASE m.kind = "D"
  <2> DEFINE n == r.shown + 1
             place == <<m.set, m.index>>
  <2>1. q = [r EXCEPT !.row = place, !.shown = n, !.call = "none", !.answer = "row"]
    BY <1>4 DEF ReadItem, Given, Answer
  <2>2. ~r.failed /\ m.set = r.columns /\ m.index = n /\ r.shown < res[r.columns].rows
    <3>1. m.set = c.set /\ m.index = c.rows + 1 /\ m.index <= res[c.set].rows /\ ~r.failed
      BY <1>4 DEF Allowed
    <3>2. c.set \in 1..Len(res)
      BY <1>1, <1>4 DEF Allowed, Readers, Results
    <3>3. res[c.set] \in [rows : Nat, ended : BOOLEAN]
      BY <3>2, ElementTyped DEF Results
    <3> QED BY <1>1, <3>1, <3>3 DEF Readers
  <2>3. Steps(b, q, res, over)
    BY <1>1, <1>4, <2>2, ReadSteps DEF Given, Moving
  <2>4. n \in Nat
    BY DEF Readers
  <2> HIDE DEF n, place
  <2>5. /\ q.closed = r.closed /\ q.closing = r.closing /\ q.call = "none"
        /\ q.waiting = NoItem /\ q.failed = r.failed /\ q.finished = r.finished /\ q.pending = 0
        /\ q.columns = r.columns /\ q.complete = r.complete /\ q.shown = n
    BY <2>1 DEF Readers
  <2> HIDE DEF q
  <2>6. Orderly(q)
    BY <2>5 DEF Orderly
  <2>7. /\ After(c, m) = [set |-> c.set, rows |-> c.rows + 1, stage |-> "rows"]
        /\ c.rows + 1 = n
    BY <1>1, <1>4, <2>2 DEF After, n
  <2>8. AtPlace(q, After(c, m), res, "live")
    BY <1>1, <1>3, <2>2, <2>5, <2>7 DEF AtPlace, Remembers, Moving
  <2> QED BY <2>3, <2>5, <2>6, <2>8 DEF Reached, q
<1>5. (r.call = "read" /\ r.answer = "none") \/ m.kind = "D"
  BY DEF Orderly
<1>6. m.kind # "D" => Steps(b, q, res, over)
  <2> SUFFICES ASSUME m.kind # "D" PROVE Steps(b, q, res, over)
    OBVIOUS
  <2>1. Given(m).kind \in {"T", "X", "C", "Z", "end"} /\ Usable(r) => Spent(r, res)
    <3> SUFFICES ASSUME m.kind \in {"T", "X", "C", "Z", "L"}, ~r.failed PROVE Spent(r, res)
      BY <1>2 DEF Given, Usable, Messages
    <3>1. m.kind # "X"
      BY DEF Allowed
    <3>2. CASE m.kind = "T"
      BY SMTT(30), <1>1, <3>2 DEF Allowed, Spent, Places, Results, Readers
    <3>3. CASE m.kind = "C"
      <4>1. Whole(res, c)
        BY <1>1, <3>3 DEF Allowed
      <4> QED BY <1>1, <4>1 DEF Spent, Whole
    <3>4. CASE m.kind \in {"Z", "L"}
      <4>1. Whole(res, c)
        BY <1>1, <3>4 DEF Allowed
      <4> QED BY <1>1, <4>1 DEF Spent, Whole
    <3> QED BY <3>1, <3>2, <3>3, <3>4
  <2>2. Given(m).kind \in {"Z", "end"} => over /\ r.columns = Len(res)
    BY <1>1, <1>2 DEF Given, Messages
  <2>3. Given(m).kind # "D"
    BY DEF Given, Signal
  <2> QED BY <1>1, <1>2, <1>5, <2>1, <2>2, <2>3, ReadSteps DEF Moving
<1>7. CASE m.kind = "T"
  <2>1. q = [r EXCEPT !.pending = m.set, !.row = NoRow, !.call = "none", !.answer = "end"]
    BY <1>7 DEF ReadItem, Given, Answer
  <2>2. /\ q.closed = r.closed /\ q.closing = r.closing /\ q.call = "none"
        /\ q.waiting = NoItem /\ q.failed = r.failed /\ q.finished = r.finished
        /\ q.pending = m.set /\ q.columns = r.columns /\ q.complete = r.complete
        /\ q.shown = r.shown
    BY <2>1 DEF Readers
  <2> HIDE DEF q
  <2>3. Orderly(q)
    BY <2>2 DEF Orderly
  <2>4. /\ After(c, m) = [set |-> m.set, rows |-> 0, stage |-> "described"]
        /\ m.set = r.columns + 1 /\ m.set > 0 /\ ~r.failed /\ res[r.columns].rows = r.shown
    BY SMTT(30), <1>1, <1>7 DEF After, Allowed, Readers
  <2>5. AtPlace(q, After(c, m), res, "live")
    BY <1>1, <1>3, <2>2, <2>4 DEF AtPlace, Remembers, Moving
  <2> QED BY <1>6, <1>7, <2>2, <2>3, <2>5 DEF Reached, q
<1>8. CASE m.kind = "C"
  <2>1. q = [r EXCEPT !.complete = TRUE, !.row = NoRow, !.call = "none", !.answer = "end"]
    BY <1>8 DEF ReadItem, Given, Answer
  <2>2. /\ q.closed = r.closed /\ q.closing = r.closing /\ q.call = "none"
        /\ q.waiting = NoItem /\ q.failed = r.failed /\ q.finished = r.finished
        /\ q.pending = 0 /\ q.columns = r.columns /\ q.shown = r.shown
    BY <2>1 DEF Readers
  <2> HIDE DEF q
  <2>3. Orderly(q)
    BY <2>2 DEF Orderly
  <2>4. /\ After(c, m) = [set |-> c.set, rows |-> c.rows, stage |-> "between"]
        /\ ~r.failed /\ Whole(res, c)
    BY <1>1, <1>8 DEF After, Allowed
  <2>5. AtPlace(q, After(c, m), res, "live")
    BY <1>1, <2>2, <2>4 DEF AtPlace, Remembers, Moving, Whole
  <2> QED BY <1>6, <1>8, <2>2, <2>3, <2>5 DEF Reached, q
<1>9. CASE m.kind = "E"
  <2>1. q = [r EXCEPT !.failed = TRUE, !.call = "none", !.answer = "error"]
    BY <1>9 DEF ReadItem, Given, Answer, Throw
  <2>2. /\ q.closed = r.closed /\ q.closing = r.closing /\ q.call = "none"
        /\ q.waiting = NoItem /\ q.failed /\ q.finished = r.finished
        /\ q.pending = 0 /\ q.columns = r.columns /\ q.complete = r.complete
    BY <2>1 DEF Readers
  <2> HIDE DEF q
  <2>3. Orderly(q)
    BY <2>2 DEF Orderly
  <2>4. After(c, m) = [set |-> c.set, rows |-> c.rows, stage |-> "failed"]
    BY <1>9 DEF After
  <2>5. AtPlace(q, After(c, m), res, "live")
    BY <1>1, <1>3, <2>2, <2>4 DEF AtPlace, Remembers, Moving
  <2> QED BY <1>6, <1>9, <2>2, <2>3, <2>5 DEF Reached, q
<1>10. CASE m.kind \in {"Z", "L"}
  <2>1. q = ReadEnds(r)
    BY <1>10 DEF ReadItem, Given, Signal
  <2>2. /\ q.closed = r.closed /\ q.closing = r.closing /\ q.call = "none"
        /\ q.waiting = NoItem /\ q.failed = r.failed /\ q.finished
        /\ q.pending = 0 /\ q.columns = r.columns /\ q.complete = r.complete
    BY <2>1 DEF Readers, ReadEnds, MarkFinished, Answer
  <2> HIDE DEF q
  <2>3. Orderly(q)
    BY <2>2 DEF Orderly
  <2>4. /\ After(c, m) = [set |-> c.set, rows |-> c.rows, stage |-> "over"]
        /\ c.stage \in {"between", "failed"}
    BY <1>10 DEF After, Allowed
  <2>5. AtPlace(q, After(c, m), res, "live")
    BY <1>1, <1>3, <2>2, <2>4 DEF AtPlace, Remembers, Moving, Whole
  <2> QED BY <1>6, <1>10, <2>2, <2>3, <2>5 DEF Reached, q
<1>11. CASE m.kind = "N"
  <2>1. q = r
    BY <1>11 DEF ReadItem, Given
  <2>2. After(c, m) = c
    BY <1>11 DEF After, Places
  <2>3. AtPlace(r, c, res, "live")
    BY <1>11 DEF AtPlace
  <2> QED BY <1>6, <1>11, <2>1, <2>2, <2>3 DEF Reached
<1>12. m.kind # "X"
  BY DEF Allowed
<1> QED BY <1>2, <1>4, <1>7, <1>8, <1>9, <1>10, <1>11, <1>12 DEF Messages

\* b is the reader before the call of nextResult(), r what its loop starts with.
LEMMA NextReaches ==
    ASSUME NEW b \in Readers, NEW r \in Readers, NEW c \in Places, NEW m \in Items,
           NEW res \in Results, NEW over \in BOOLEAN,
           SamePlace(b, r), RowKept(b, r), Usable(r) <=> Usable(b), b = r \/ ~r.found,
           Orderly(r), r.call = "next", r.columns > 0,
           Remembers(r, c, res), r.failed => c.stage \in {"failed", "over"},
           Allowed(res, c, m), m.kind \in {"Z", "L"} => over /\ c.set = Len(res),
           m.kind = "E" => r.row = b.row
    PROVE  LET q == NextItem(r, Given(m)) IN
           Steps(b, q, res, over) /\ Orderly(q) /\ Reached(q, c, m, res)
<1> DEFINE q == NextItem(r, Given(m))
<1>1. /\ r.waiting = NoItem /\ r.answer = "none" /\ r.pending = 0 /\ ~r.finished
      /\ c.set = r.columns
      /\ (r.found => c.rows = 0 /\ r.shown = 0 /\ ~r.draining)
      /\ (~r.found /\ ~r.draining => r.complete)
      /\ (r.complete => c.stage \notin {"described", "rows"})
      /\ (c.stage = "failed" => r.failed)
      /\ (c.stage = "between" /\ ~r.failed => Whole(res, c))
  BY DEF Orderly, Remembers
<1>2. m.kind \in Messages /\ Given(m) \in Items
  BY DEF Allowed, Given, Signal, Items, Kinds
<1>3. Steps(b, q, res, over)
  <2>1. Given(m).kind = "T" =>
            Given(m).set \in r.columns + 1..Len(res) /\ (Usable(r) => Given(m).set = r.columns + 1)
    BY <1>1 DEF Given, Signal, Allowed, Items, Places, Results
  <2>2. Given(m).kind \in {"Z", "end"} /\ Usable(r) => over /\ r.columns = Len(res)
    BY <1>1, <1>2 DEF Given, Messages
  <2>3. Given(m).kind \in {"E", "throw"} => r.row = b.row
    BY <1>2 DEF Given, Signal, Messages
  <2> QED BY <1>1, <1>2, <2>1, <2>2, <2>3, NextSteps
<1>4. CASE m.kind = "T"
  <2>1. q = [r EXCEPT !.columns = m.set, !.shown = 0, !.row = NoRow, !.draining = FALSE,
                      !.found = TRUE, !.complete = FALSE]
    BY <1>4 DEF NextItem, Given, SetColumns
  <2>2. /\ q.closed = r.closed /\ q.closing = r.closing /\ q.call = "next"
        /\ q.waiting = NoItem /\ q.failed = r.failed /\ q.finished = r.finished
        /\ q.pending = 0 /\ q.columns = m.set /\ q.complete = FALSE /\ q.shown = 0
        /\ q.found /\ ~q.draining /\ q.answer = "none"
    BY <1>1, <2>1 DEF Readers
  <2> HIDE DEF q
  <2>3. Orderly(q)
    BY <1>1, <2>2 DEF Orderly
  <2>4. /\ After(c, m) = [set |-> m.set, rows |-> 0, stage |-> "described"]
        /\ m.set > 0 /\ ~r.failed
    BY <1>1, <1>4 DEF After, Allowed, Places
  <2>5. AtPlace(q, After(c, m), res, "live")
    BY <1>1, <2>2, <2>4 DEF AtPlace, Remembers, Moving
  <2> QED BY <1>3, <2>2, <2>3, <2>5 DEF Reached, q
<1>5. CASE m.kind = "X"
  <2>1. ~r.complete /\ ~r.failed /\ (r.draining \/ r.found)
    BY <1>1, <1>5 DEF Allowed
  <2>2. \/ q = [r EXCEPT !.row = NoRow] /\ r.draining
        \/ q = [r EXCEPT !.row = NoRow, !.found = TRUE, !.complete = FALSE] /\ r.found
    BY <1>5, <2>1 DEF NextItem, Given
  <2>3. /\ q.closed = r.closed /\ q.closing = r.closing /\ q.call = "next"
        /\ q.waiting = NoItem /\ q.failed = r.failed /\ q.finished = r.finished
        /\ q.pending = 0 /\ q.columns = r.columns /\ ~q.complete /\ q.shown = r.shown
        /\ (q.found <=> r.found) /\ q.draining = r.draining /\ q.answer = "none"
    BY ZenonT(60), <1>1, <2>1, <2>2 DEF Readers
  <2> HIDE DEF q
  <2>4. Orderly(q)
    BY <1>1, <2>3 DEF Orderly
  <2>5. After(c, m) = [set |-> c.set, rows |-> c.rows, stage |-> "rows"]
    BY <1>5 DEF After
  <2>6. AtPlace(q, After(c, m), res, "live")
    BY <1>1, <2>1, <2>3, <2>5 DEF AtPlace, Remembers, Moving
  <2> QED BY <1>3, <2>3, <2>4, <2>6 DEF Reached, q
<1>6. CASE m.kind = "D" /\ r.found /\ ~r.draining
  <2>1. q = [r EXCEPT !.waiting = m, !.call = "none", !.answer = "set"]
    BY <1>6 DEF NextItem, Given, Answer
  <2>2. m # NoItem /\ ~r.failed /\ ~r.complete
    BY <1>1, <1>6 DEF NoItem, Signal, Allowed
  <2>3. /\ q.closed = r.closed /\ q.closing = r.closing /\ q.call = "none"
        /\ q.waiting = m /\ q.failed = r.failed /\ q.finished = r.finished
        /\ q.pending = 0 /\ q.columns = r.columns /\ q.complete = r.complete /\ q.shown = r.shown
    BY <1>1, <2>1 DEF Readers
  <2> HIDE DEF q
  <2>4. Orderly(q)
    BY <1>1, <1>6, <2>2, <2>3 DEF Orderly
  <2>5. AtPlace(q, c, res, "live")
    BY <1>1, <1>6, <2>2, <2>3 DEF AtPlace, Remembers, Moving, Allowed
  <2> QED BY <1>3, <2>2, <2>3, <2>4, <2>5 DEF Reached, q
<1>7. CASE m.kind = "C" /\ (r.draining \/ r.found)
  <2>1. \/ q = [r EXCEPT !.draining = FALSE, !.complete = TRUE] /\ r.draining /\ ~r.found
        \/ q = [r EXCEPT !.complete = TRUE, !.call = "none", !.answer = "set"] /\ r.found
    BY <1>1, <1>7 DEF NextItem, Given, Answer
  <2>2. /\ q.closed = r.closed /\ q.closing = r.closing
        /\ \/ q.call = "next" /\ q.answer = "none" /\ ~q.found
           \/ q.call = "none" /\ c.rows = 0 /\ q.shown = 0
        /\ q.waiting = NoItem /\ q.failed = r.failed /\ q.finished = r.finished
        /\ q.pending = 0 /\ q.columns = r.columns /\ q.complete
    <3>1. CASE q = [r EXCEPT !.draining = FALSE, !.complete = TRUE] /\ r.draining /\ ~r.found
      <4> HIDE DEF q
      <4> QED BY <1>1, <3>1 DEF Readers
    <3>2. CASE q = [r EXCEPT !.complete = TRUE, !.call = "none", !.answer = "set"] /\ r.found
      <4> HIDE DEF q
      <4> QED BY <1>1, <3>2 DEF Readers
    <3> HIDE DEF q
    <3> QED BY <2>1, <3>1, <3>2
  <2> HIDE DEF q
  <2>3. Orderly(q)
    BY <1>1, <2>2 DEF Orderly
  <2>4. /\ After(c, m) = [set |-> c.set, rows |-> c.rows, stage |-> "between"]
        /\ ~r.failed /\ Whole(res, c)
    BY <1>1, <1>7 DEF After, Allowed
  <2>5. AtPlace(q, After(c, m), res, "live")
    BY <1>1, <2>2, <2>4 DEF AtPlace, Remembers, Moving, Whole
  <2> QED BY <1>3, <2>2, <2>3, <2>5 DEF Reached, q
<1>8. CASE m.kind = "E"
  <2>1. q = [r EXCEPT !.failed = TRUE, !.call = "none", !.answer = "error"]
    BY <1>8 DEF NextItem, Given, Answer, Throw
  <2>2. /\ q.closed = r.closed /\ q.closing = r.closing /\ q.call = "none"
        /\ q.waiting = NoItem /\ q.failed /\ q.finished = r.finished
        /\ q.pending = 0 /\ q.columns = r.columns /\ q.complete = r.complete
    BY <1>1, <2>1 DEF Readers
  <2> HIDE DEF q
  <2>3. Orderly(q)
    BY <1>1, <2>2 DEF Orderly
  <2>4. After(c, m) = [set |-> c.set, rows |-> c.rows, stage |-> "failed"]
    BY <1>8 DEF After
  <2>5. AtPlace(q, After(c, m), res, "live")
    BY <1>1, <2>2, <2>4 DEF AtPlace, Remembers, Moving
  <2> QED BY <1>3, <2>2, <2>3, <2>5 DEF Reached, q
<1>9. CASE m.kind \in {"Z", "L"}
  <2>1. q = Answer(MarkFinished(r), "over")
    BY <1>9 DEF NextItem, Given, Signal
  <2>2. /\ q.closed = r.closed /\ q.closing = r.closing /\ q.call = "none"
        /\ q.waiting = NoItem /\ q.failed = r.failed /\ q.finished
        /\ q.pending = 0 /\ q.columns = r.columns /\ q.complete = r.complete
    BY <1>1, <2>1 DEF Readers, MarkFinished, Answer
  <2> HIDE DEF q
  <2>3. Orderly(q)
    BY <1>1, <2>2 DEF Orderly
  <2>4. /\ After(c, m) = [set |-> c.set, rows |-> c.rows, stage |-> "over"]
        /\ c.stage \in {"between", "failed"}
    BY <1>9 DEF After, Allowed
  <2>5. AtPlace(q, After(c, m), res, "live")
    BY <1>1, <2>2, <2>4 DEF AtPlace, Remembers, Moving, Whole
  <2> QED BY <1>3, <2>2, <2>3, <2>5 DEF Reached, q
<1>10. CASE m.kind = "N" \/ (m.kind = "D" /\ r.draining) \/ (m.kind = "C" /\ ~(r.draining \/ r.found))
  <2>1. q = r
    BY <1>1, <1>10 DEF NextItem, Given
  <2>2. AtPlace(r, After(c, m), res, "live")
    <3>1. CASE m.kind = "D"
      <4>1. /\ After(c, m) = [set |-> c.set, rows |-> c.rows + 1, stage |-> "rows"]
            /\ ~r.failed /\ ~r.complete /\ ~r.found /\ r.draining
        BY <1>1, <1>10, <3>1 DEF After, Allowed
      <4> QED BY <1>1, <4>1 DEF AtPlace, Remembers, Moving
    <3>2. CASE m.kind = "N"
      <4>1. After(c, m) = c
        BY <3>2 DEF After, Places
      <4> QED BY <4>1 DEF AtPlace, Moving
    <3>3. CASE m.kind = "C" /\ ~(r.draining \/ r.found)
      <4>1. After(c, m) = c
        BY <1>1, <3>3 DEF After, Places, Allowed
      <4> QED BY <4>1 DEF AtPlace, Moving
    <3> QED BY <1>10, <3>1, <3>2, <3>3
  <2> HIDE DEF q
  <2> QED BY <1>1, <1>3, <2>1, <2>2 DEF Reached, q
<1>11. m.kind = "D" => r.draining \/ (r.found /\ ~r.draining)
  BY <1>1 DEF Allowed
<1> QED BY <1>2, <1>4, <1>5, <1>6, <1>7, <1>8, <1>9, <1>10, <1>11 DEF Messages

\* The loop of the call in progress.
Taken(r, x) ==
    IF r.call = "start" THEN StartItem(r, x)
    ELSE IF r.call = "read" THEN ReadItem(r, x) ELSE NextItem(r, x)

\* What no item changes, and what only some change.
Effects(r, q, x) ==
    /\ q.closed = r.closed /\ q.closing = r.closing /\ q.call \in {"none", r.call}
    /\ q.call = "read" \/ q.pending > 0 => x.kind # "D"
    /\ q.finished => x.kind \in {"Z", "end", "throw"}
    /\ q.waiting.kind = "Z" => x.kind = "Z"
    /\ q.columns = 0 /\ q.call # "start" => x.kind \in {"end", "throw"}
    /\ r.failed \/ x.kind = "throw" => q.failed

LEMMA StartEffects ==
    ASSUME NEW r \in Readers, NEW x \in Items, Orderly(r), r.call = "start",
           x.kind = "T" => x.set > 0
    PROVE  Effects(r, StartItem(r, x), x)
<1> DEFINE q == StartItem(r, x)
<1>1. r.waiting = NoItem /\ r.pending = 0 /\ ~r.finished /\ NoItem.kind = "none"
  BY DEF Orderly, NoItem, Signal
<1>2. CASE x.kind = "T"
  <2>1. q = [r EXCEPT !.columns = x.set, !.shown = 0, !.row = NoRow]
    BY <1>2 DEF StartItem, SetColumns
  <2> HIDE DEF q
  <2> QED BY <1>1, <1>2, <2>1 DEF Effects, Readers, q
<1>3. CASE x.kind \in {"D", "C", "Z"} /\ ~r.failed /\ r.columns > 0
  <2>1. q = [r EXCEPT !.waiting = x, !.call = "none", !.answer = "set"]
    BY <1>3 DEF StartItem, Answer
  <2> HIDE DEF q
  <2> QED BY <1>1, <1>3, <2>1 DEF Effects, Readers, q
<1>4. CASE x.kind = "E"
  <2>1. q = [r EXCEPT !.failed = TRUE]
    BY <1>4 DEF StartItem
  <2> HIDE DEF q
  <2> QED BY <1>1, <1>4, <2>1 DEF Effects, Readers, q
<1>5. CASE x.kind = "end" /\ ~r.failed
  <2>1. q = [r EXCEPT !.call = "none", !.answer = "over"]
    BY <1>5 DEF StartItem, Answer
  <2> HIDE DEF q
  <2> QED BY <1>1, <1>5, <2>1 DEF Effects, Readers, q
<1>6. CASE x.kind = "throw" \/ (x.kind = "end" /\ r.failed)
  <2>1. q = Throw(MarkFinished(r))
    BY <1>6 DEF StartItem
  <2>2. /\ q.closed = r.closed /\ q.closing = r.closing /\ q.call = "none" /\ q.pending = 0
        /\ q.waiting = NoItem /\ q.columns = r.columns /\ q.failed
    BY <1>1, <2>1 DEF Readers, Throw, Answer, MarkFinished
  <2> HIDE DEF q
  <2> QED BY <1>1, <1>6, <2>2 DEF Effects, q
<1>7. CASE /\ x.kind \notin {"T", "E", "end", "throw"}
           /\ ~(x.kind \in {"D", "C", "Z"} /\ ~r.failed /\ r.columns > 0)
  <2>1. q = r
    BY <1>7 DEF StartItem
  <2> HIDE DEF q
  <2> QED BY <1>1, <1>7, <2>1 DEF Effects, q
<1> QED BY <1>2, <1>3, <1>4, <1>5, <1>6, <1>7

LEMMA ReadEffects ==
    ASSUME NEW r \in Readers, NEW x \in Items, Orderly(r), r.call = "read", r.columns > 0
    PROVE  Effects(r, ReadItem(r, x), x)
<1> DEFINE q == ReadItem(r, x)
<1>1. r.waiting = NoItem /\ r.pending = 0 /\ ~r.finished /\ NoItem.kind = "none"
  BY DEF Orderly, NoItem, Signal
<1>2. CASE x.kind = "D"
  <2> DEFINE n == r.shown + 1
             place == <<x.set, x.index>>
  <2>1. q = [r EXCEPT !.row = place, !.shown = n, !.call = "none", !.answer = "row"]
    BY <1>2 DEF ReadItem, Answer
  <2> HIDE DEF q, n, place
  <2> QED BY <1>1, <1>2, <2>1 DEF Effects, Readers, q
<1>3. CASE x.kind \in {"T", "X"}
  <2>1. q = [r EXCEPT !.pending = x.set, !.row = NoRow, !.call = "none", !.answer = "end"]
    BY <1>3 DEF ReadItem, Answer
  <2> HIDE DEF q
  <2> QED BY <1>1, <1>3, <2>1 DEF Effects, Readers, q
<1>4. CASE x.kind = "C"
  <2>1. q = [r EXCEPT !.complete = TRUE, !.row = NoRow, !.call = "none", !.answer = "end"]
    BY <1>4 DEF ReadItem, Answer
  <2> HIDE DEF q
  <2> QED BY <1>1, <1>4, <2>1 DEF Effects, Readers, q
<1>5. CASE x.kind \in {"E", "throw"}
  <2>1. q = [r EXCEPT !.failed = TRUE, !.call = "none", !.answer = "error"]
    BY <1>5 DEF ReadItem, Answer, Throw
  <2> HIDE DEF q
  <2> QED BY <1>1, <1>5, <2>1 DEF Effects, Readers, q
<1>6. CASE x.kind \in {"Z", "end"}
  <2>1. q = ReadEnds(r)
    BY <1>6 DEF ReadItem
  <2>2. /\ q.closed = r.closed /\ q.closing = r.closing /\ q.call = "none" /\ q.pending = 0
        /\ q.waiting = NoItem /\ q.columns = r.columns /\ q.failed = r.failed
    BY <1>1, <2>1 DEF Readers, ReadEnds, Answer, MarkFinished
  <2> HIDE DEF q
  <2> QED BY <1>1, <1>6, <2>2 DEF Effects, q
<1>7. CASE x.kind \notin {"D", "T", "X", "C", "E", "throw", "Z", "end"}
  <2>1. q = r
    BY <1>7 DEF ReadItem
  <2> HIDE DEF q
  <2> QED BY <1>1, <1>7, <2>1 DEF Effects, q
<1> QED BY <1>2, <1>3, <1>4, <1>5, <1>6, <1>7

LEMMA NextEffects ==
    ASSUME NEW r \in Readers, NEW x \in Items, Orderly(r), r.call = "next", r.columns > 0,
           x.kind = "T" => x.set > 0
    PROVE  Effects(r, NextItem(r, x), x)
<1> DEFINE q == NextItem(r, x)
<1>1. r.waiting = NoItem /\ r.pending = 0 /\ ~r.finished /\ NoItem.kind = "none"
  BY DEF Orderly, NoItem, Signal
<1>2. CASE x.kind = "T"
  <2>1. q = [r EXCEPT !.columns = x.set, !.shown = 0, !.row = NoRow, !.draining = FALSE,
                      !.found = TRUE, !.complete = FALSE]
    BY <1>2 DEF NextItem, SetColumns
  <2> HIDE DEF q
  <2> QED BY <1>1, <1>2, <2>1 DEF Effects, Readers, q
<1>3. CASE x.kind = "X"
  <2>1. \/ q = [r EXCEPT !.row = NoRow]
        \/ q = [r EXCEPT !.row = NoRow, !.found = TRUE, !.complete = FALSE]
    BY <1>3 DEF NextItem
  <2> HIDE DEF q
  <2>2. CASE q = [r EXCEPT !.row = NoRow]
    BY <1>1, <1>3, <2>2 DEF Effects, Readers, q
  <2>3. CASE q = [r EXCEPT !.row = NoRow, !.found = TRUE, !.complete = FALSE]
    BY <1>1, <1>3, <2>3 DEF Effects, Readers, q
  <2> QED BY <2>1, <2>2, <2>3
<1>4. CASE x.kind = "D" /\ r.found /\ ~r.draining
  <2>1. q = [r EXCEPT !.waiting = x, !.call = "none", !.answer = "set"]
    BY <1>4 DEF NextItem, Answer
  <2> HIDE DEF q
  <2> QED BY <1>1, <1>4, <2>1 DEF Effects, Readers, q
<1>5. CASE x.kind = "C" /\ r.draining
  <2>1. q = [r EXCEPT !.draining = FALSE, !.complete = TRUE]
    BY <1>5 DEF NextItem
  <2> HIDE DEF q
  <2> QED BY <1>1, <1>5, <2>1 DEF Effects, Readers, q
<1>6. CASE x.kind = "C" /\ ~r.draining /\ r.found
  <2>1. q = [r EXCEPT !.complete = TRUE, !.call = "none", !.answer = "set"]
    BY <1>6 DEF NextItem, Answer
  <2> HIDE DEF q
  <2> QED BY <1>1, <1>6, <2>1 DEF Effects, Readers, q
<1>7. CASE x.kind \in {"E", "throw"}
  <2>1. q = [r EXCEPT !.failed = TRUE, !.call = "none", !.answer = "error"]
    BY <1>7 DEF NextItem, Answer, Throw
  <2> HIDE DEF q
  <2> QED BY <1>1, <1>7, <2>1 DEF Effects, Readers, q
<1>8. CASE x.kind \in {"Z", "end"}
  <2>1. q = Answer(MarkFinished(r), "over")
    BY <1>8 DEF NextItem
  <2>2. /\ q.closed = r.closed /\ q.closing = r.closing /\ q.call = "none" /\ q.pending = 0
        /\ q.waiting = NoItem /\ q.columns = r.columns /\ q.failed = r.failed
    BY <1>1, <2>1 DEF Readers, Answer, MarkFinished
  <2> HIDE DEF q
  <2> QED BY <1>1, <1>8, <2>2 DEF Effects, q
<1>9. CASE \/ x.kind \notin {"T", "X", "D", "C", "E", "throw", "Z", "end"}
           \/ x.kind = "D" /\ ~(r.found /\ ~r.draining)
           \/ x.kind = "C" /\ ~r.draining /\ ~r.found
  <2>1. q = r
    BY <1>9 DEF NextItem
  <2> HIDE DEF q
  <2> QED BY <1>1, <1>9, <2>1 DEF Effects, q
<1> QED BY <1>2, <1>3, <1>4, <1>5, <1>6, <1>7, <1>8, <1>9

LEMMA TakenEffects ==
    ASSUME NEW r \in Readers, NEW x \in Items, Orderly(r), r.call # "none",
           r.columns = 0 => r.call = "start" \/ x.kind \in {"end", "throw"},
           x.kind = "T" => x.set > 0
    PROVE  Taken(r, x) \in Readers /\ (r.columns > 0 \/ r.call = "start" => Effects(r, Taken(r, x), x))
<1>1. Taken(r, x) \in Readers
  BY StartTyped, ReadTyped, NextTyped DEF Taken
<1>2. CASE r.call = "start"
  BY <1>1, <1>2, StartEffects DEF Taken
<1>3. CASE r.call = "read"
  BY <1>1, <1>3, ReadEffects DEF Taken, Readers
<1>4. CASE r.call = "next"
  BY <1>1, <1>4, NextEffects DEF Taken, Readers
<1> QED BY <1>2, <1>3, <1>4 DEF Readers

\* The generator has nothing more for the call.
LEMMA TakenStops ==
    ASSUME NEW r \in Readers, NEW c, NEW res \in Results, NEW over \in BOOLEAN,
           Orderly(r), r.call # "none", NEW kind \in {"end", "throw"},
           kind = "end" /\ Usable(r) =>
               over /\ c.set = Len(res) /\ c.stage = "over" /\ Remembers(r, c, res)
    PROVE  LET q == Taken(r, Signal(kind)) IN
           /\ Steps(r, q, res, over) /\ Orderly(q) /\ q.call = "none" /\ q.waiting = NoItem
           /\ q.columns = r.columns /\ q.pending = r.pending /\ q.closed = r.closed
           /\ q.closing = r.closing /\ (r.failed \/ kind = "throw" => q.failed)
           /\ Remembers(r, c, res) => AtPlace(q, c, res, "done")
<1> DEFINE x == Signal(kind)
           q == Taken(r, x)
<1>1. x \in Items /\ x.kind = kind /\ r.waiting = NoItem /\ r.pending = 0 /\ r.answer = "none"
      /\ ~r.finished
  BY DEF Signal, Items, Kinds, Orderly
<1>2. kind = "end" /\ Usable(r) => over /\ r.columns = Len(res) /\ (r.call # "next" => Spent(r, res))
  <2> SUFFICES ASSUME kind = "end", Usable(r)
               PROVE  over /\ r.columns = Len(res) /\ (r.call # "next" => Spent(r, res))
    OBVIOUS
  <2>1. over /\ c.set = Len(res) /\ c.stage = "over" /\ c.set = r.columns
    BY <1>1 DEF Remembers
  <2>2. r.call # "next" => c.rows = r.shown
    BY <1>1 DEF Remembers, Usable
  <2>3. c.set > 0 => Whole(res, c)
    BY <2>1 DEF Remembers, Usable
  <2>4. Len(res) = 0 \/ c.set > 0
    <3>1. Len(res) \in Nat
      BY DEF Results
    <3> QED BY <2>1, <3>1
  <2> QED BY <2>1, <2>2, <2>3, <2>4 DEF Spent, Whole
<1> HIDE DEF x
<1>3. CASE r.call = "start"
  <2>1. Steps(r, q, res, over)
    BY <1>1, <1>2, <1>3, StartSteps DEF Taken
  <2>2. CASE kind = "end" /\ ~r.failed
    <3>1. q = [r EXCEPT !.call = "none", !.answer = "over"]
      BY <1>1, <1>3, <2>2 DEF Taken, StartItem, Answer
    <3>2. /\ q.call = "none" /\ q.waiting = NoItem /\ q.columns = r.columns /\ q.pending = 0
          /\ q.closed = r.closed /\ q.closing = r.closing /\ ~q.finished
          /\ q.complete = r.complete /\ q.shown = r.shown /\ q.failed = r.failed
      BY <1>1, <3>1 DEF Readers
    <3> HIDE DEF q
    <3>3. Orderly(q)
      BY <1>3, <3>2 DEF Orderly
    <3>4. Remembers(r, c, res) => AtPlace(q, c, res, "done")
      BY <1>1, <1>3, <3>2 DEF Remembers, AtPlace
    <3> QED BY <1>1, <2>1, <2>2, <3>2, <3>3, <3>4 DEF q, x
  <2>3. CASE kind = "throw" \/ r.failed
    <3>1. q = Throw(MarkFinished(r))
      BY <1>1, <1>3, <2>3 DEF Taken, StartItem
    <3>2. /\ q.call = "none" /\ q.waiting = NoItem /\ q.columns = r.columns /\ q.pending = 0
          /\ q.closed = r.closed /\ q.closing = r.closing /\ q.finished
          /\ q.complete = r.complete /\ q.failed
      BY <1>1, <3>1 DEF Readers, Throw, MarkFinished, Answer
    <3> HIDE DEF q
    <3>3. Orderly(q)
      BY <1>3, <3>2 DEF Orderly
    <3>4. Remembers(r, c, res) => AtPlace(q, c, res, "done")
      BY <1>1, <1>3, <3>2 DEF Remembers, AtPlace
    <3> QED BY <1>1, <2>1, <2>3, <3>2, <3>3, <3>4 DEF q, x
  <2> QED BY <2>2, <2>3
<1>4. CASE r.call = "read"
  <2>1. Steps(r, q, res, over)
    BY <1>1, <1>2, <1>4, ReadSteps DEF Taken, SamePlace, Moving
  <2>2. \/ kind = "end" /\ q = ReadEnds(r)
        \/ kind = "throw" /\ q = Throw(r)
    BY <1>1, <1>4 DEF Taken, ReadItem
  <2>3. /\ q.call = "none" /\ q.waiting = NoItem /\ q.columns = r.columns /\ q.pending = 0
        /\ q.closed = r.closed /\ q.closing = r.closing
        /\ q.complete = r.complete
        /\ \/ kind = "end" /\ q.failed = r.failed /\ q.finished
           \/ kind = "throw" /\ q.failed /\ q.finished = r.finished
    <3> HIDE DEF q
    <3>1. CASE kind = "end" /\ q = ReadEnds(r)
      BY <1>1, <3>1 DEF Readers, ReadEnds, MarkFinished, Answer
    <3>2. CASE kind = "throw" /\ q = Throw(r)
      BY <1>1, <3>2 DEF Readers, Throw, Answer
    <3> QED BY <2>2, <3>1, <3>2
  <2> HIDE DEF q
  <2>4. Orderly(q)
    BY <2>3 DEF Orderly
  <2>5. Remembers(r, c, res) => AtPlace(q, c, res, "done")
    BY <1>1, <1>4, <2>3 DEF Remembers, AtPlace
  <2> QED BY <1>1, <2>1, <2>3, <2>4, <2>5 DEF q, x
<1>5. CASE r.call = "next"
  <2>1. Steps(r, q, res, over)
    BY <1>1, <1>2, <1>5, NextSteps DEF Taken, SamePlace, RowKept
  <2>2. \/ kind = "end" /\ q = Answer(MarkFinished(r), "over")
        \/ kind = "throw" /\ q = Throw(r)
    BY <1>1, <1>5 DEF Taken, NextItem
  <2>3. /\ q.call = "none" /\ q.waiting = NoItem /\ q.columns = r.columns /\ q.pending = 0
        /\ q.closed = r.closed /\ q.closing = r.closing
        /\ q.complete = r.complete
        /\ \/ kind = "end" /\ q.failed = r.failed /\ q.finished
           \/ kind = "throw" /\ q.failed /\ q.finished = r.finished
    <3> HIDE DEF q
    <3>1. CASE kind = "end" /\ q = Answer(MarkFinished(r), "over")
      BY <1>1, <3>1 DEF Readers, MarkFinished, Answer
    <3>2. CASE kind = "throw" /\ q = Throw(r)
      BY <1>1, <3>2 DEF Readers, Throw, Answer
    <3> QED BY <2>2, <3>1, <3>2
  <2> HIDE DEF q
  <2>4. Orderly(q)
    BY <1>5, <2>3 DEF Orderly
  <2>5. Remembers(r, c, res) => AtPlace(q, c, res, "done")
    BY <1>1, <1>5, <2>3 DEF Remembers, AtPlace
  <2> QED BY <1>1, <2>1, <2>3, <2>4, <2>5 DEF q, x
<1> QED BY <1>3, <1>4, <1>5 DEF Readers

LEMMA PlaceBounds ==
    ASSUME NEW r \in Readers, NEW c \in Places, NEW res, Remembers(r, c, res)
    PROVE  r.columns <= c.set /\ r.pending <= c.set
BY DEF Remembers, Readers, Places

\* A closed reader that takes what is left.
LEMMA ClosedTakes ==
    ASSUME NEW r \in Readers, NEW c \in Places, NEW m \in Items, NEW res \in Results,
           NEW over \in BOOLEAN, Orderly(r), r.closed, r.call # "none", r.columns > 0,
           r.columns <= c.set, Allowed(res, c, m), m.kind = "D" => r.call = "next"
    PROVE  LET q == Taken(r, Given(m)) IN
           /\ Steps(r, q, res, over) /\ Orderly(q)
           /\ q.columns <= After(c, m).set /\ q.pending <= After(c, m).set
<1> DEFINE x == Given(m)
           q == Taken(r, x)
           top == After(c, m).set
<1>1. /\ r.waiting = NoItem /\ r.answer = "none" /\ r.pending = 0 /\ ~r.finished
      /\ r.call # "start" /\ ~Usable(r)
  BY DEF Orderly, Usable
<1>2. /\ m.kind \in Messages /\ x \in Items /\ (m.kind # "L" => x = m)
      /\ (m.kind = "L" => x.kind = "end")
      /\ top = (IF m.kind = "T" THEN m.set ELSE c.set)
  BY DEF Allowed, Given, Signal, Items, Kinds, After
<1>3. /\ r.columns <= top /\ top \in Nat /\ Len(res) \in Nat
      /\ (m.kind = "T" => m.set \in r.columns + 1..Len(res) /\ m.set > 0)
      /\ (m.kind \in {"T", "X"} => m.set = top)
  <2>1. c.set \in Nat /\ m.set \in Nat /\ r.columns \in Nat /\ Len(res) \in Nat
    BY DEF Places, Items, Readers, Results
  <2>2. /\ m.kind = "T" => m.set = c.set + 1 /\ m.set <= Len(res)
        /\ m.kind = "X" => m.set = c.set
    BY DEF Allowed
  <2> HIDE DEF x, top
  <2> QED BY <1>2, <2>1, <2>2
<1> HIDE DEF x, top
<1>4. CASE r.call = "read"
  <2>1. Steps(r, q, res, over)
    <3>1. x.kind # "D" /\ (x.kind \notin {"D", "T", "X", "C", "E", "throw", "Z", "end"} => r.answer = "none")
      BY <1>1, <1>2, <1>4
    <3> QED BY <1>1, <1>2, <1>4, <3>1, ReadSteps DEF Taken, SamePlace, Moving
  <2>2. q = ReadItem(r, x)
    BY <1>4 DEF Taken
  <2>3. CASE x.kind \in {"T", "X"}
    <3>1. q = [r EXCEPT !.pending = x.set, !.row = NoRow, !.call = "none", !.answer = "end"]
      BY <2>2, <2>3 DEF ReadItem, Answer
    <3>2. x.set = top
      BY <1>2, <1>3, <2>3
    <3>3. /\ q.closed = r.closed /\ q.call = "none" /\ q.waiting = NoItem
          /\ q.columns = r.columns /\ q.pending = top /\ ~q.finished
      BY ZenonT(60), <1>1, <3>1, <3>2 DEF Readers
    <3> HIDE DEF q
    <3> QED BY <1>3, <2>1, <3>3 DEF Orderly, q, x, top
  <2>4. CASE x.kind \in {"Z", "end"}
    <3>1. q = ReadEnds(r)
      BY <2>2, <2>4 DEF ReadItem
    <3>2. /\ q.closed = r.closed /\ q.call = "none" /\ q.waiting = NoItem
          /\ q.columns = r.columns /\ q.pending = 0
      BY ZenonT(60), <1>1, <3>1 DEF Readers, ReadEnds, MarkFinished, Answer
    <3> HIDE DEF q
    <3> QED BY <1>1, <1>3, <2>1, <3>2 DEF Orderly, q, x, top
  <2>5. CASE x.kind \in {"C", "E"}
    <3>1. \/ q = [r EXCEPT !.complete = TRUE, !.row = NoRow, !.call = "none", !.answer = "end"]
          \/ q = [r EXCEPT !.failed = TRUE, !.call = "none", !.answer = "error"]
      BY <2>2, <2>5 DEF ReadItem, Answer, Throw
    <3> HIDE DEF q
    <3>2. CASE q = [r EXCEPT !.complete = TRUE, !.row = NoRow, !.call = "none", !.answer = "end"]
      <4>1. /\ q.closed = r.closed /\ q.call = "none" /\ q.waiting = NoItem
            /\ q.columns = r.columns /\ q.pending = 0 /\ ~q.finished
        BY <1>1, <3>2 DEF Readers
      <4> QED BY <1>1, <1>3, <2>1, <4>1 DEF Orderly, q, x, top
    <3>3. CASE q = [r EXCEPT !.failed = TRUE, !.call = "none", !.answer = "error"]
      <4>1. /\ q.closed = r.closed /\ q.call = "none" /\ q.waiting = NoItem
            /\ q.columns = r.columns /\ q.pending = 0 /\ ~q.finished
        BY <1>1, <3>3 DEF Readers
      <4> QED BY <1>1, <1>3, <2>1, <4>1 DEF Orderly, q, x, top
    <3> QED BY <3>1, <3>2, <3>3
  <2>6. CASE x.kind = "N"
    <3>1. q = r
      BY <2>2, <2>6 DEF ReadItem
    <3> HIDE DEF q
    <3> QED BY <1>1, <1>3, <2>1, <3>1 DEF q, x, top
  <2>7. x.kind \in {"T", "X", "Z", "end", "C", "E", "N"}
    BY <1>2, <1>4 DEF Messages
  <2> QED BY <2>3, <2>4, <2>5, <2>6, <2>7
<1>5. CASE r.call = "next"
  <2>1. Steps(r, q, res, over)
    <3>1. /\ x.kind = "T" => x.set \in r.columns + 1..Len(res)
          /\ Moving(r) /\ ~Usable(r)
      BY <1>1, <1>2, <1>3, <1>5 DEF Moving
    <3> QED BY <1>1, <1>2, <1>5, <3>1, NextSteps DEF Taken, SamePlace, RowKept
  <2>2. q = NextItem(r, x) /\ q \in Readers
    BY <1>2, <1>5, NextTyped DEF Taken
  <2>3. CASE x.kind = "T"
    <3>1. q = [r EXCEPT !.columns = x.set, !.shown = 0, !.row = NoRow, !.draining = FALSE,
                        !.found = TRUE, !.complete = FALSE]
      BY <2>2, <2>3 DEF NextItem, SetColumns
    <3>2. x.set = top
      BY <1>2, <1>3, <2>3
    <3> HIDE DEF q
    <3>3. /\ q.closed = r.closed /\ q.call = r.call /\ q.waiting = NoItem
          /\ q.columns = top /\ q.pending = 0 /\ ~q.finished /\ q.answer = "none"
      BY <1>1, <3>1, <3>2 DEF Readers
    <3> QED BY <1>1, <1>3, <2>1, <3>3 DEF Orderly, q, x, top
  <2>4. CASE x.kind \in {"Z", "end"}
    <3>1. q = Answer(MarkFinished(r), "over")
      BY <2>2, <2>4 DEF NextItem
    <3> HIDE DEF q
    <3>2. /\ q.closed = r.closed /\ q.call = "none" /\ q.waiting = NoItem
          /\ q.columns = r.columns /\ q.pending = 0
      BY <1>1, <3>1 DEF Readers, MarkFinished, Answer
    <3> QED BY <1>1, <1>3, <2>1, <3>2 DEF Orderly, q, x, top
  <2>5. CASE x.kind = "X"
    <3>1. \/ q = [r EXCEPT !.row = NoRow]
          \/ q = [r EXCEPT !.row = NoRow, !.found = TRUE, !.complete = FALSE]
      BY <2>2, <2>5 DEF NextItem
    <3> HIDE DEF q
    <3>2. /\ q.closed = r.closed /\ q.call = r.call /\ q.waiting = NoItem
          /\ q.columns = r.columns /\ q.pending = 0 /\ ~q.finished /\ q.answer = "none"
      <4>1. CASE q = [r EXCEPT !.row = NoRow]
        BY <1>1, <4>1 DEF Readers
      <4>2. CASE q = [r EXCEPT !.row = NoRow, !.found = TRUE, !.complete = FALSE]
        BY <1>1, <4>2 DEF Readers
      <4> QED BY <3>1, <4>1, <4>2
    <3> QED BY <1>1, <1>3, <2>1, <3>2 DEF Orderly, q, x, top
  <2>6. CASE x.kind \in {"D", "C", "E", "N"}
    <3>1. \/ q = r
          \/ q = [r EXCEPT !.waiting = x, !.call = "none", !.answer = "set"]
          \/ q = [r EXCEPT !.draining = FALSE, !.complete = TRUE]
          \/ q = [r EXCEPT !.complete = TRUE, !.call = "none", !.answer = "set"]
          \/ q = [r EXCEPT !.failed = TRUE, !.call = "none", !.answer = "error"]
      BY <2>2, <2>6 DEF NextItem, Answer, Throw
    <3> HIDE DEF q
    <3>2. /\ q.closed = r.closed /\ q.columns = r.columns /\ q.pending = 0 /\ ~q.finished
          /\ \/ q.call = "none"
             \/ q.call = r.call /\ q.answer = "none" /\ q.waiting = NoItem
      <4>1. CASE q = r
        BY <1>1, <4>1
      <4>2. CASE q = [r EXCEPT !.waiting = x, !.call = "none", !.answer = "set"]
        BY <1>1, <4>2 DEF Readers
      <4>3. CASE q = [r EXCEPT !.draining = FALSE, !.complete = TRUE]
        BY <1>1, <4>3 DEF Readers
      <4>4. CASE q = [r EXCEPT !.complete = TRUE, !.call = "none", !.answer = "set"]
        BY <1>1, <4>4 DEF Readers
      <4>5. CASE q = [r EXCEPT !.failed = TRUE, !.call = "none", !.answer = "error"]
        BY <1>1, <4>5 DEF Readers
      <4> QED BY <3>1, <4>1, <4>2, <4>3, <4>4, <4>5
    <3> QED BY <1>1, <1>3, <2>1, <3>2 DEF Orderly, q, x, top
  <2>7. x.kind \in {"T", "X", "Z", "end", "D", "C", "E", "N"}
    BY <1>2 DEF Messages
  <2> QED BY <2>3, <2>4, <2>5, <2>6, <2>7
<1> QED BY <1>1, <1>4, <1>5 DEF Readers

LEMMA HeadBack ==
    ASSUME NEW s \in Seq(Items), s # <<>>
    PROVE  <<Head(s)>> \o Tail(s) = s /\ <<>> \o Tail(s) = Tail(s) /\ Head(s) \in Items
           /\ Tail(s) \in Seq(Items)
OBVIOUS

\* The call takes the next message of the response.
LEMMA CallTakes ==
    ASSUME NEW r \in Readers, NEW c \in Places, NEW s \in Seq(Items), s # <<>>,
           NEW res \in Results, NEW d \in Places, Leads(c, s, res, d), d.set = Len(res),
           Orderly(r), r.call # "none", r.columns = 0 => r.call = "start", r.columns <= c.set,
           \/ AtPlace(r, c, res, "live")
           \/ r.closed /\ (Head(s).kind = "D" => r.call = "next")
    PROVE  LET q == Taken(r, Given(Head(s))) IN
           /\ Steps(r, q, res, d.stage = "over") /\ Orderly(q)
           /\ ~r.closed => q.waiting \in {NoItem, Head(s)}
           /\ \E e \in Places :
                /\ Leads(e, IF q.waiting = NoItem \/ r.closed THEN Tail(s) ELSE s, res, d)
                /\ q.columns <= e.set /\ q.pending <= e.set
                /\ ~r.closed => AtPlace(q, e, res, "live")
<1> DEFINE m == Head(s)
           q == Taken(r, Given(m))
           e == After(c, m)
<1>1. /\ Allowed(res, c, m) /\ Leads(e, Tail(s), res, d) /\ e \in Places /\ c.set <= e.set
      /\ m \in Items /\ Tail(s) \in Seq(Items)
  BY LeadsNext, HeadBack
<1>2. m.kind \in {"Z", "L"} => d.stage = "over" /\ c.set = Len(res)
  <2> SUFFICES ASSUME m.kind \in {"Z", "L"} PROVE d.stage = "over" /\ c.set = Len(res)
    OBVIOUS
  <2>1. e.stage = "over" /\ e.set = c.set
    BY DEF After
  <2> HIDE DEF e, m
  <2>2. e = d
    BY <1>1, <2>1, LeadsEnds
  <2> QED BY <2>1, <2>2
<1>3. Given(m) \in Items /\ (Given(m).kind = "T" => Given(m).set > 0)
  BY SMTT(30), <1>1 DEF Given, Signal, Items, Kinds, Allowed, Places
<1>4. q \in Readers
  BY <1>3, StartTyped, ReadTyped, NextTyped DEF Taken
<1>5. /\ r.waiting = NoItem /\ r.pending = 0 /\ ~r.finished /\ r.answer = "none"
  BY DEF Orderly
<1>6. r.columns = 0 => r.call = "start"
  OBVIOUS
<1>7. c.set \in Nat /\ e.set \in Nat /\ r.columns \in Nat
  BY <1>1 DEF Places, Readers
<1>8. CASE AtPlace(r, c, res, "live")
  <2>1. /\ Remembers(r, c, res) /\ (r.failed => c.stage \in {"failed", "over"})
        /\ (c.stage = "described" => Moving(r))
    BY <1>5, <1>8 DEF AtPlace
  <2>2. Steps(r, q, res, d.stage = "over") /\ Orderly(q) /\ Reached(q, c, m, res)
    <3> HIDE DEF m, e
    <3>1. CASE r.call = "start"
      BY <1>1, <1>2, <1>8, <3>1, StartReaches DEF Taken
    <3>2. CASE r.call = "read"
      <4>1. ~r.complete /\ c.stage # "described" /\ r.columns > 0
        BY <1>6, <1>7, <2>1, <3>2 DEF Remembers, Moving
      <4> QED BY <1>1, <1>2, <1>5, <2>1, <3>2, <4>1, ReadReaches DEF Taken, SamePlace, Moving
    <3>3. CASE r.call = "next"
      <4>1. r.columns > 0
        BY <1>6, <1>7, <3>3
      <4> QED BY <1>1, <1>2, <2>1, <3>3, <4>1, NextReaches DEF Taken, SamePlace, RowKept
    <3> QED BY <3>1, <3>2, <3>3 DEF Readers
  <2> HIDE DEF q, e, m
  <2>3. CASE q.waiting = NoItem /\ AtPlace(q, e, res, "live")
    <3>1. q.columns <= e.set /\ q.pending <= e.set
      BY <1>1, <1>4, <2>3, PlaceBounds DEF AtPlace
    <3> QED BY <1>1, <2>2, <2>3, <3>1 DEF q, m
  <2>4. CASE q.waiting = m /\ m # NoItem /\ AtPlace(q, c, res, "live")
    <3>1. q.columns <= c.set /\ q.pending <= c.set /\ q.columns \in Nat /\ q.pending \in Nat
      BY <1>4, <2>4, PlaceBounds DEF AtPlace, Readers
    <3>2. q.columns <= e.set /\ q.pending <= e.set
      BY <1>1, <1>7, <3>1
    <3>3. CASE r.closed
      BY <1>1, <2>2, <2>4, <3>2, <3>3 DEF q, m
    <3>4. CASE ~r.closed
      BY <2>2, <2>4, <3>1, <3>4 DEF q, m
    <3> QED BY <3>3, <3>4
  <2> QED BY <2>2, <2>3, <2>4 DEF Reached, e
<1>9. CASE r.closed /\ (m.kind = "D" => r.call = "next")
  <2>1. r.columns > 0
    BY <1>6, <1>7, <1>9 DEF Orderly
  <2>2. /\ Steps(r, q, res, d.stage = "over") /\ Orderly(q)
        /\ q.columns <= e.set /\ q.pending <= e.set
    BY <1>1, <1>9, <2>1, ClosedTakes
  <2> HIDE DEF q, e, m
  <2> QED BY <1>1, <1>9, <2>2 DEF q, m
<1> QED BY <1>8, <1>9

-----------------------------------------------------------------------------
(* The generator *)

LEMMA AtPlaceStill ==
    ASSUME NEW r, NEW c, NEW res, AtPlace(r, c, res, "live"), NEW gen
    PROVE  AtPlace(r, c, res, gen)
BY DEF AtPlace

LEMMA TwoAsk ==
    ASSUME NEW a, NEW b
    PROVE  Tail(<<a, b>>) = <<b>> /\ Append(<<b>>, a) = <<b, a>>
<1> DEFINE s == Append(<<b>>, a)
           t == <<b, a>>
<1>1. s \in Seq({a, b}) /\ Len(s) = 2 /\ s[1] = b /\ s[2] = a
  OBVIOUS
<1>2. t \in Seq({a, b}) /\ Len(t) = 2 /\ t[1] = b /\ t[2] = a
  OBVIOUS
<1> HIDE DEF s, t
<1>3. s = t
  BY <1>1, <1>2
<1>4. Tail(<<a, b>>) = <<b>>
  OBVIOUS
<1> QED BY <1>3, <1>4 DEF s, t

LEMMA CallAsksAgain ==
    ASSUME NEW r \in Readers, NEW q \in Readers, NEW req, Asked(r, req), req # <<>>,
           Head(req) = "call", q.closing = r.closing, q.call \in {"none", r.call}
    PROVE  Asked(q, IF q.call # "none" THEN Append(Tail(req), "call") ELSE Tail(req))
<1>1. CASE req = <<"call">> /\ r.call # "none" /\ ~r.closing
  <2>1. Tail(req) = <<>> /\ Append(Tail(req), "call") = <<"call">>
    BY <1>1
  <2> QED BY <1>1, <2>1 DEF Asked
<1>2. CASE req = <<"call", "close">> /\ r.call # "none" /\ r.closing
  <2>1. Tail(req) = <<"close">> /\ Append(Tail(req), "call") = <<"close", "call">>
    BY <1>2, TwoAsk
  <2> QED BY <1>2, <2>1 DEF Asked
<1>3. req # <<"close">> /\ req # <<"close", "call">>
  OBVIOUS
<1> QED BY <1>1, <1>2, <1>3 DEF Asked

LEMMA CloseAsksAgain ==
    ASSUME NEW r \in Readers, NEW q \in Readers, NEW req, Asked(r, req), req # <<>>,
           Head(req) # "call", q.call = r.call
    PROVE  Asked(q, IF q.closing THEN Append(Tail(req), "close") ELSE Tail(req))
<1>1. CASE req = <<"close">> /\ r.call = "none" /\ r.closing
  <2>1. Tail(req) = <<>> /\ Append(Tail(req), "close") = <<"close">>
    BY <1>1
  <2> QED BY <1>1, <2>1 DEF Asked
<1>2. CASE req = <<"close", "call">> /\ r.call # "none" /\ r.closing
  <2>1. Tail(req) = <<"call">> /\ Append(Tail(req), "close") = <<"call", "close">>
    BY <1>2, TwoAsk
  <2> QED BY <1>2, <2>1 DEF Asked
<1>3. req # <<"call">> /\ req # <<"call", "close">>
  OBVIOUS
<1> QED BY <1>1, <1>2, <1>3 DEF Asked

LEMMA ThereTyped ==
    ASSUME Typed, Ended
    PROVE  There \in Places /\ There.set = Len(results) /\ There.stage = stage
<1>1. Len(results) \in Nat /\ (Len(results) # 0 => Len(results) \in 1..Len(results))
  BY DEF Typed, Results
<1>2. Len(results) # 0 => results[Len(results)] \in [rows : Nat, ended : BOOLEAN]
  BY <1>1, ElementTyped DEF Typed, Results
<1> QED BY <1>1, <1>2 DEF There, Sets, Places, Typed

\* The message that comes next goes to the call in progress.
LEMMA CallYields ==
    ASSUME OnCourse, reader.call # "none", generator = "live", batch \o arrived # <<>>,
           reader' = Taken(reader, Given(Head(batch \o arrived))),
           batch' \o arrived' = Tail(batch \o arrived), UNCHANGED <<results, stage>>, ~begun',
           reader.closed /\ Head(batch \o arrived).kind = "D" /\ reader.call = "read" => begun
    PROVE  /\ Steps(reader, reader', results, stage = "over")
           /\ reader' \in Readers /\ Orderly(reader') /\ OnPath'
           /\ Effects(reader, reader', Given(Head(batch \o arrived)))
           /\ Head(batch \o arrived).kind \in {"Z", "L"} =>
                batch' \o arrived' = <<>> /\ stage = "over"
<1> DEFINE s == batch \o arrived
           m == Head(s)
<1>1. /\ reader \in Readers /\ Orderly(reader) /\ results \in Results /\ s \in Seq(Items)
      /\ reader.waiting = NoItem
      /\ There \in Places /\ There.set = Len(results) /\ There.stage = stage
  BY ThereTyped DEF OnCourse, Typed, Orderly
<1>2. Held(reader) = <<>> /\ Unread = s
  BY <1>1 DEF Held, Unread
<1>3. PICK c \in Places :
        /\ Leads(c, s, results, There) /\ reader.columns <= c.set
        /\ Tracked => AtPlace(reader, c, results, generator)
  BY <1>2 DEF OnCourse, OnPath
<1>4. reader.columns = 0 => reader.call = "start"
  BY DEF OnCourse, Ended
<1>5. \/ AtPlace(reader, c, results, "live")
      \/ reader.closed /\ (m.kind = "D" => reader.call = "next")
  <2>1. reader.closed => reader.call \in {"read", "next"}
    BY <1>1 DEF Orderly, Readers
  <2> QED BY <1>3, <2>1 DEF Tracked
<1> HIDE DEF s
<1>6. /\ Steps(reader, reader', results, stage = "over") /\ Orderly(reader')
      /\ ~reader.closed => reader'.waiting \in {NoItem, m}
      /\ \E e \in Places :
            /\ Leads(e, IF reader'.waiting = NoItem \/ reader.closed THEN Tail(s) ELSE s, results, There)
            /\ reader'.columns <= e.set /\ reader'.pending <= e.set
            /\ ~reader.closed => AtPlace(reader', e, results, "live")
  <2>1. reader' = Taken(reader, Given(Head(s))) /\ s # <<>>
    BY DEF s
  <2>2. /\ Steps(reader, reader', results, There.stage = "over") /\ Orderly(reader')
        /\ ~reader.closed => reader'.waiting \in {NoItem, Head(s)}
        /\ \E e \in Places :
            /\ Leads(e, IF reader'.waiting = NoItem \/ reader.closed THEN Tail(s) ELSE s, results, There)
            /\ reader'.columns <= e.set /\ reader'.pending <= e.set
            /\ ~reader.closed => AtPlace(reader', e, results, "live")
    BY <1>1, <1>3, <1>4, <1>5, <2>1, CallTakes
  <2> QED BY <1>1, <2>2
<1>7. /\ Allowed(results, c, m) /\ m \in Items /\ <<m>> \o Tail(s) = s /\ <<>> \o Tail(s) = Tail(s)
      /\ Leads(After(c, m), Tail(s), results, There) /\ Tail(s) \in Seq(Items)
  BY <1>1, <1>3, LeadsNext, HeadBack DEF s
<1>8. /\ Given(m) \in Items /\ (Given(m).kind = "T" => Given(m).set > 0)
      /\ (reader.columns > 0 \/ reader.call = "start")
  <2>1. m.kind \in Messages /\ (m.kind = "T" => m.set > 0)
    BY <1>3, <1>7 DEF Allowed, Places
  <2> HIDE DEF m
  <2>2. Given(m) \in Items /\ (Given(m).kind = "T" => Given(m).set > 0)
    BY <1>7, <2>1 DEF Given, Signal, Items, Kinds
  <2>3. reader.columns > 0 \/ reader.call = "start"
    BY <1>1, <1>4 DEF Readers
  <2> QED BY <2>2, <2>3
<1>9. reader' \in Readers /\ Effects(reader, reader', Given(m))
  BY <1>1, <1>8, TakenEffects DEF s
<1>10. OnPath'
  <2>1. reader'.closed = reader.closed
    BY <1>9 DEF Effects
  <2>2. PICK e \in Places :
            /\ Leads(e, IF reader'.waiting = NoItem \/ reader.closed THEN Tail(s) ELSE s, results, There)
            /\ reader'.columns <= e.set /\ reader'.pending <= e.set
            /\ ~reader.closed => AtPlace(reader', e, results, "live")
    BY <1>6
  <2>3. Unread' = IF reader'.waiting = NoItem \/ reader.closed THEN Tail(s) ELSE s
    <3>1. Unread' = Held(reader') \o Tail(s)
      BY SMTT(30) DEF Unread, s
    <3>2. CASE reader'.waiting = NoItem \/ reader.closed
      <4>1. Held(reader') = <<>>
        BY SMTT(30), <2>1, <3>2 DEF Held
      <4> QED BY <1>7, <3>1, <3>2, <4>1
    <3>3. CASE ~(reader'.waiting = NoItem \/ reader.closed)
      <4>1. Held(reader') = <<m>>
        BY <1>6, <2>1, <3>3 DEF Held
      <4> QED BY <1>7, <3>1, <3>3, <4>1
    <3> QED BY <3>2, <3>3
  <2>4. There' = There
    BY DEF There, Sets
  <2>5. Tracked' => AtPlace(reader', e, results, generator')
    BY <2>1, <2>2, AtPlaceStill DEF Tracked
  <2> QED BY <2>2, <2>3, <2>4, <2>5 DEF OnPath
<1>11. m.kind \in {"Z", "L"} => batch' \o arrived' = <<>> /\ stage = "over"
  <2> SUFFICES ASSUME m.kind \in {"Z", "L"} PROVE Tail(s) = <<>> /\ stage = "over"
    BY DEF s
  <2>1. After(c, m).stage = "over"
    BY DEF After
  <2> HIDE DEF m
  <2>2. Tail(s) = <<>> /\ After(c, m) = There
    BY <1>7, <2>1, LeadsEnds
  <2> QED BY <1>1, <2>1, <2>2
<1> QED BY <1>6, <1>9, <1>10, <1>11 DEF s

\* The message that comes next is of no use to a closed reader.
LEMMA ClosedSkips ==
    ASSUME OnCourse, reader.closed, batch \o arrived # <<>>,
           batch' \o arrived' = Tail(batch \o arrived), UNCHANGED <<results, stage>>, ~begun',
           reader'.closed, reader'.columns = reader.columns, reader'.pending = reader.pending
    PROVE  /\ OnPath'
           /\ Head(batch \o arrived).kind \in {"Z", "L"} =>
                batch' \o arrived' = <<>> /\ stage = "over"
<1> DEFINE s == batch \o arrived
           m == Head(s)
<1>1. /\ reader \in Readers /\ s \in Seq(Items)
      /\ There \in Places /\ There.stage = stage
  BY ThereTyped DEF OnCourse, Typed
<1>2. Held(reader) = <<>> /\ Unread = s
  BY <1>1 DEF Held, Unread
<1>3. PICK c \in Places :
        /\ Leads(c, s, results, There) /\ reader.columns <= c.set /\ reader.pending <= c.set
  BY <1>2 DEF OnCourse, OnPath
<1> HIDE DEF s
<1>4. /\ After(c, m) \in Places /\ c.set <= After(c, m).set /\ <<>> \o Tail(s) = Tail(s)
      /\ Leads(After(c, m), Tail(s), results, There) /\ Tail(s) \in Seq(Items)
  BY <1>1, <1>3, LeadsNext, HeadBack DEF s
<1>5. OnPath'
  <2>1. Unread' = Tail(s)
    BY <1>4 DEF Unread, Held, s
  <2>2. There' = There
    BY DEF There, Sets
  <2>3. ~Tracked'
    BY DEF Tracked
  <2> DEFINE e == After(c, m)
  <2>4. reader'.columns <= e.set /\ reader'.pending <= e.set
    BY SMTT(30), <1>1, <1>3, <1>4 DEF Readers, Places
  <2>5. e \in Places /\ Leads(e, Tail(s), results, There)
    BY <1>4
  <2> HIDE DEF e
  <2> QED BY <2>1, <2>2, <2>3, <2>4, <2>5 DEF OnPath
<1>6. m.kind \in {"Z", "L"} => batch' \o arrived' = <<>> /\ stage = "over"
  <2> SUFFICES ASSUME m.kind \in {"Z", "L"} PROVE Tail(s) = <<>> /\ stage = "over"
    BY DEF s
  <2>1. After(c, m).stage = "over"
    BY DEF After
  <2> HIDE DEF m
  <2>2. Tail(s) = <<>> /\ After(c, m) = There
    BY <1>4, <2>1, LeadsEnds
  <2> QED BY <1>1, <2>1, <2>2
<1> QED BY <1>5, <1>6 DEF s

LEMMA CloseItemKeeps ==
    ASSUME NEW r \in Readers, NEW x \in Items, Orderly(r), r.closed
    PROVE  LET q == CloseItem(r, x) IN
           /\ q \in Readers /\ Orderly(q) /\ q.closed /\ GivesUp(r, q)
           /\ q.columns = r.columns /\ q.pending = r.pending /\ q.call = r.call
           /\ q.finished = r.finished /\ q.waiting = r.waiting /\ q.failed = r.failed
<1> DEFINE q == CloseItem(r, x)
<1>1. q \in Readers
  BY CloseTyped
<1>2. q = r \/ q = [r EXCEPT !.closing = FALSE, !.lock = FALSE]
  BY DEF CloseItem
<1>3. /\ q.columns = r.columns /\ q.pending = r.pending /\ q.call = r.call
      /\ q.finished = r.finished /\ q.waiting = r.waiting /\ q.failed = r.failed /\ q.closed
      /\ q.shown = r.shown /\ q.row = r.row /\ q.answer = r.answer
  <2> HIDE DEF q
  <2>1. CASE q = r
    BY <2>1
  <2>2. CASE q = [r EXCEPT !.closing = FALSE, !.lock = FALSE]
    BY <2>2 DEF Readers
  <2> QED BY <1>2, <2>1, <2>2
<1> HIDE DEF q
<1>4. Orderly(q)
  BY <1>3 DEF Orderly
<1>5. GivesUp(r, q)
  BY <1>3 DEF GivesUp, SamePlace, Moving, Usable
<1> QED BY <1>1, <1>3, <1>4, <1>5 DEF q

\* The first request gets the item, and its loop may ask again.
CallGets(x) ==
    /\ Head(requests) = "call" /\ reader.call # "none" /\ reader' = Taken(reader, x)
    /\ requests' = IF reader'.call # "none" THEN Append(Tail(requests), "call") ELSE Tail(requests)
CloseGets(x) ==
    /\ Head(requests) # "call" /\ reader.closed /\ reader' = CloseItem(reader, x)
    /\ requests' = IF reader'.closing THEN Append(Tail(requests), "close") ELSE Tail(requests)

LEMMA YieldForms ==
    ASSUME OnCourse, NEW x, Yield(x)
    PROVE  /\ CallGets(x) \/ CloseGets(x)
           /\ requests # <<>> /\ UNCHANGED <<discard, link, results, stage>>
<1>1. requests # <<>> /\ UNCHANGED <<discard, link, results, stage>>
  BY DEF Yield, response
<1>2. Asked(reader, requests) /\ Orderly(reader)
  BY DEF OnCourse
<1>3. CASE requests = <<"call">> \/ requests = <<"call", "close">>
  <2>1. Head(requests) = "call" /\ reader.call # "none"
    BY <1>2, <1>3 DEF Asked
  <2> QED BY <1>1, <2>1 DEF Yield, CallGets, Taken
<1>4. CASE requests = <<"close">> \/ requests = <<"close", "call">>
  <2>1. Head(requests) = "close" /\ reader.closed
    BY <1>2, <1>4 DEF Asked, Orderly
  <2>2. reader' = CloseItem(reader, x)
    BY <2>1 DEF Yield
  <2>3. requests' = IF reader'.closing THEN Append(Tail(requests), "close") ELSE Tail(requests)
    BY <2>1, Zenon DEF Yield
  <2> QED BY <1>1, <2>1, <2>2, <2>3 DEF CloseGets
<1> QED BY <1>1, <1>2, <1>3, <1>4 DEF Asked

LEMMA BothTyped ==
    ASSUME NEW S, NEW s \in Seq(S), NEW t \in Seq(S)
    PROVE  s \o t \in Seq(S)
OBVIOUS

LEMMA HeldTyped ==
    ASSUME NEW r \in Readers
    PROVE  Held(r) \in Seq(Items)
<1>1. r.waiting \in Items
  BY DEF Readers
<1>2. <<r.waiting>> \in Seq(Items) /\ <<>> \in Seq(Items)
  BY <1>1
<1> QED BY <1>2 DEF Held

\* Without what the reader holds back, the rest leads to the server, too.
LEMMA StreamLeads ==
    ASSUME OnCourse
    PROVE  \E e \in Places :
            /\ Leads(e, batch \o arrived, results, There)
            /\ reader.columns <= e.set /\ reader.pending <= e.set
<1>1. /\ reader \in Readers /\ Held(reader) \in Seq(Items) /\ batch \o arrived \in Seq(Items)
  BY BothTyped, HeldTyped DEF OnCourse, Typed
<1>2. PICK c \in Places :
        /\ Leads(c, Held(reader) \o (batch \o arrived), results, There)
        /\ reader.columns <= c.set /\ reader.pending <= c.set
  BY DEF OnCourse, OnPath, Unread
<1>3. PICK e \in Places : Leads(e, batch \o arrived, results, There) /\ c.set <= e.set
  BY <1>1, <1>2, LeadsLater
<1> QED BY SMTT(30), <1>1, <1>2, <1>3 DEF Readers, Places

\* The next message is yielded.
LEMMA MessageYielded ==
    ASSUME OnCourse, generator = "live", batch \o arrived # <<>>,
           NEW m, m = Head(batch \o arrived), Yield(Given(m)),
           batch' \o arrived' = Tail(batch \o arrived),
           batch' \in Seq(Items), arrived' \in Seq(Items), ~begun',
           \A i \in 1..Len(batch') : batch'[i].kind = "D", batch' # <<>> => m.kind = "D",
           generator' = IF m.kind \in {"Z", "L"} THEN "done" ELSE "live",
           m.kind = "D" /\ reader.closed /\ reader.call = "read" =>
                begun /\ Head(requests) = "call"
    PROVE  OnCourse' /\ Steps(reader, reader', results, stage = "over")
<1>1. /\ Typed /\ Orderly(reader) /\ Asked(reader, requests) /\ Discards /\ Ended
      /\ reader \in Readers
  BY DEF OnCourse, Typed
<1>2. /\ CallGets(Given(m)) \/ CloseGets(Given(m))
      /\ requests # <<>> /\ UNCHANGED <<discard, link, results, stage>>
  BY YieldForms
<1>3. m \in Items /\ Given(m) \in Items /\ (Given(m).kind = "D" <=> m.kind = "D")
      /\ (Given(m).kind = "Z" <=> m.kind = "Z")
      /\ (Given(m).kind \in {"Z", "end", "throw"} => m.kind \in {"Z", "L", "end", "throw"})
      /\ (Given(m).kind \in {"end", "throw"} => m.kind \in {"L", "end", "throw"})
  <2>1. batch \o arrived \in Seq(Items)
    BY <1>1 DEF Typed
  <2>2. m \in Items
    BY <2>1, HeadBack
  <2> QED BY <2>2 DEF Given, Signal, Items, Kinds
<1>4. m.kind \in Messages
  <2>1. PICK e \in Places : Leads(e, batch \o arrived, results, There)
    BY StreamLeads
  <2>2. batch \o arrived \in Seq(Items)
    BY <1>1, BothTyped DEF Typed
  <2> QED BY <2>1, <2>2, LeadsNext DEF Allowed
<1>5. CASE CallGets(Given(m))
  <2>1. /\ Head(requests) = "call" /\ reader.call # "none" /\ reader' = Taken(reader, Given(m))
        /\ requests' = IF reader'.call # "none" THEN Append(Tail(requests), "call") ELSE Tail(requests)
    BY <1>5 DEF CallGets
  <2>2. /\ Steps(reader, reader', results, stage = "over")
        /\ reader' \in Readers /\ Orderly(reader') /\ OnPath'
        /\ Effects(reader, reader', Given(m))
        /\ m.kind \in {"Z", "L"} => batch' \o arrived' = <<>> /\ stage = "over"
    BY <1>2, <2>1, CallYields
  <2>3. Asked(reader', requests')
    BY <1>1, <1>2, <2>1, <2>2, CallAsksAgain DEF Effects
  <2>4. Discards'
    BY <1>1, <1>2, <1>3, <2>2 DEF Discards, Effects
  <2>5. Ended'
    <3>1. reader'.finished => generator' = "done"
      BY <1>3, <1>4, <2>2 DEF Effects, Messages
    <3>2. reader'.waiting.kind = "Z" => generator' = "done"
      BY <1>3, <2>2 DEF Effects
    <3>3. reader'.columns = 0 /\ reader'.call # "start" => generator' = "done"
      BY <1>3, <1>4, <2>2 DEF Effects, Messages
    <3>4. generator' = "done" => arrived' = <<>> /\ batch' = <<>> /\ stage' = "over"
      BY <1>2, <2>2
    <3> QED BY <1>1, <1>2, <3>1, <3>2, <3>3, <3>4 DEF Ended, Sets
  <2>6. Typed'
    BY <1>1, <1>2, <2>2 DEF Typed
  <2> QED BY <2>2, <2>3, <2>4, <2>5, <2>6 DEF OnCourse
<1>6. CASE CloseGets(Given(m))
  <2>1. /\ Head(requests) # "call" /\ reader.closed /\ reader' = CloseItem(reader, Given(m))
        /\ requests' = IF reader'.closing THEN Append(Tail(requests), "close") ELSE Tail(requests)
    BY <1>6 DEF CloseGets
  <2>2. /\ reader' \in Readers /\ Orderly(reader') /\ reader'.closed /\ GivesUp(reader, reader')
        /\ reader'.columns = reader.columns /\ reader'.pending = reader.pending
        /\ reader'.call = reader.call /\ reader'.finished = reader.finished
        /\ reader'.waiting = reader.waiting /\ reader'.failed = reader.failed
    BY <1>1, <1>3, <2>1, CloseItemKeeps
  <2>3. OnPath' /\ (m.kind \in {"Z", "L"} => batch' \o arrived' = <<>> /\ stage = "over")
    BY <1>2, <2>1, <2>2, ClosedSkips
  <2>4. Asked(reader', requests')
    BY <1>1, <1>2, <2>1, <2>2, CloseAsksAgain
  <2>5. Discards'
    BY <1>1, <1>2, <2>1, <2>2 DEF Discards
  <2>6. Ended'
    <3>1. generator' = "done" => arrived' = <<>> /\ batch' = <<>> /\ stage' = "over"
      BY <1>2, <2>3
    <3> QED BY <1>1, <1>2, <2>2, <3>1 DEF Ended, Sets
  <2>7. Typed'
    BY <1>1, <1>2, <2>2 DEF Typed
  <2> QED BY <2>2, <2>3, <2>4, <2>5, <2>6, <2>7 DEF OnCourse, Steps
<1> QED BY <1>2, <1>5, <1>6

\* Each step of the generator.
LEMMA TakeFirst ==
    ASSUME NEW s \in Seq(Items), NEW t \in Seq(Items), s # <<>>
    PROVE  /\ s \o t # <<>> /\ Head(s \o t) = Head(s) /\ Tail(s \o t) = Tail(s) \o t
           /\ Tail(s) \in Seq(Items) /\ Head(s) = s[1] /\ 1 \in 1..Len(s)
           /\ \A i \in 1..Len(Tail(s)) : Tail(s)[i] = s[i + 1] /\ i + 1 \in 1..Len(s)
<1>1. Len(s) \in Nat /\ Len(t) \in Nat /\ Len(s) > 0 /\ Head(s) = s[1]
  OBVIOUS
<1>2. /\ Tail(s) \in Seq(Items) /\ Len(Tail(s)) = Len(s) - 1
      /\ \A i \in 1..Len(Tail(s)) : Tail(s)[i] = s[i + 1] /\ i + 1 \in 1..Len(s)
  OBVIOUS
<1>3. /\ s \o t \in Seq(Items) /\ Len(s \o t) = Len(s) + Len(t)
      /\ s \o t # <<>> /\ Head(s \o t) = s[1]
  OBVIOUS
<1>4. Tail(s \o t) = Tail(s) \o t
  OBVIOUS
<1> QED BY <1>1, <1>2, <1>3, <1>4

LEMMA YieldCachedGoes ==
    ASSUME OnCourse, YieldCached
    PROVE  OnCourse' /\ Steps(reader, reader', results, stage = "over")
<1> DEFINE m == Head(batch)
<1>1. /\ batch \in Seq(Items) /\ arrived \in Seq(Items) /\ batch # <<>> /\ batch' = Tail(batch)
      /\ Yield(m) /\ UNCHANGED <<generator, begun, arrived>> /\ Discards /\ Ended
  BY DEF YieldCached, OnCourse, Typed
<1>2. /\ batch \o arrived # <<>> /\ m = Head(batch \o arrived)
      /\ batch' \o arrived' = Tail(batch \o arrived) /\ batch' \in Seq(Items)
      /\ m = batch[1] /\ 1 \in 1..Len(batch)
      /\ \A i \in 1..Len(batch') : batch'[i] = batch[i + 1] /\ i + 1 \in 1..Len(batch)
  BY <1>1, TakeFirst
<1>3. m.kind = "D" /\ \A i \in 1..Len(batch') : batch'[i].kind = "D"
  BY <1>1, <1>2 DEF Discards
<1>4. Given(m) = m
  BY <1>3 DEF Given
<1>5. generator = "live" /\ ~begun' /\ reader.call # "read"
  BY <1>1 DEF Ended, Discards, OnCourse, Typed
<1> HIDE DEF m
<1> QED BY <1>1, <1>2, <1>3, <1>4, <1>5, MessageYielded

LEMMA Alone ==
    ASSUME NEW s, NEW t \in Seq(Items), s = <<>>
    PROVE  s \o t = t
OBVIOUS

LEMMA YieldMessageGoes ==
    ASSUME OnCourse, YieldMessage
    PROVE  OnCourse' /\ Steps(reader, reader', results, stage = "over")
<1> DEFINE m == Head(arrived)
<1>1. /\ arrived \in Seq(Items) /\ batch = <<>> /\ batch' = <<>> /\ arrived # <<>>
      /\ arrived' = Tail(arrived) /\ m.kind # "D" /\ begun' = FALSE /\ generator = "live"
      /\ generator' = IF m.kind \in {"Z", "L"} THEN "done" ELSE "live"
      /\ Yield(Given(m))
  BY DEF YieldMessage, NextMessage, OnCourse, Typed, Given
<1>2. /\ batch \o arrived = arrived /\ arrived' \in Seq(Items) /\ batch' \o arrived' = arrived'
      /\ batch' \in Seq(Items)
  BY <1>1, Alone
<1>3. \A i \in 1..Len(batch') : batch'[i].kind = "D"
  BY <1>1
<1>4. m = Head(batch \o arrived) /\ batch \o arrived # <<>> /\ batch' \o arrived' = Tail(batch \o arrived)
  BY <1>1, <1>2
<1> HIDE DEF m
<1> QED BY <1>1, <1>2, <1>3, <1>4, MessageYielded

LEMMA JoinedAt ==
    ASSUME NEW s \in Seq(Items), NEW t \in Seq(Items), NEW i \in 1..Len(s) + Len(t)
    PROVE  /\ Len(s \o t) = Len(s) + Len(t)
           /\ (s \o t)[i] = IF i <= Len(s) THEN s[i] ELSE t[i - Len(s)]
OBVIOUS

LEMMA Parts ==
    ASSUME NEW s \in Seq(Items), NEW n \in Nat, n < Len(s)
    PROVE  /\ SubSeq(s, 2, n + 1) \in Seq(Items) /\ SubSeq(s, n + 2, Len(s)) \in Seq(Items)
           /\ SubSeq(s, 2, n + 1) \o SubSeq(s, n + 2, Len(s)) = Tail(s)
           /\ \A i \in 1..Len(SubSeq(s, 2, n + 1)) :
                SubSeq(s, 2, n + 1)[i] = s[i + 1] /\ i + 1 \in 2..n + 1
<1> DEFINE u == SubSeq(s, 2, n + 1)
           v == SubSeq(s, n + 2, Len(s))
<1>1. Len(s) \in Nat /\ Len(s) > 0
  OBVIOUS
<1>2. u \in Seq(Items) /\ Len(u) = n /\ \A i \in 1..n : u[i] = s[i + 1]
  OBVIOUS
<1>3. v \in Seq(Items) /\ Len(v) = Len(s) - (n + 1)
      /\ \A i \in 1..Len(v) : v[i] = s[n + 1 + i]
  OBVIOUS
<1>4. Tail(s) \in Seq(Items) /\ Len(Tail(s)) = Len(s) - 1
      /\ \A i \in 1..Len(s) - 1 : Tail(s)[i] = s[i + 1]
  OBVIOUS
<1> DEFINE w == u \o v
<1> HIDE DEF u, v
<1>5. w \in Seq(Items) /\ Len(w) = Len(s) - 1
  <2>1. w \in Seq(Items) /\ Len(w) = Len(u) + Len(v)
    BY <1>2, <1>3, BothTyped
  <2> QED BY <1>1, <1>2, <1>3, <2>1
<1>6. ASSUME NEW i \in 1..Len(s) - 1
      PROVE  w[i] = s[i + 1]
  <2>0. i \in 1..Len(u) + Len(v)
    BY <1>1, <1>2, <1>3
  <2>1. CASE i <= n
    <3>1. w[i] = u[i] /\ i \in 1..n
      BY <1>2, <1>3, <2>0, <2>1, JoinedAt
    <3> QED BY <1>2, <3>1
  <2>2. CASE i > n
    <3>1. w[i] = v[i - n] /\ i - n \in 1..Len(v)
      BY <1>1, <1>2, <1>3, <2>0, <2>2, JoinedAt
    <3>2. v[i - n] = s[n + 1 + (i - n)] /\ n + 1 + (i - n) = i + 1
      BY <1>3, <3>1
    <3> QED BY <3>1, <3>2
  <2>3. i <= n \/ i > n
    BY <1>1
  <2> QED BY <2>1, <2>2, <2>3
<1> HIDE DEF w
<1>7. w = Tail(s)
  BY <1>1, <1>4, <1>5, <1>6
<1>8. \A i \in 1..Len(u) : u[i] = s[i + 1] /\ i + 1 \in 2..n + 1
  BY <1>2
<1>9. u \in Seq(Items) /\ v \in Seq(Items) /\ u \o v = Tail(s)
  BY <1>2, <1>3, <1>7 DEF w
<1> QED BY <1>8, <1>9 DEF u, v

LEMMA YieldRowGoes ==
    ASSUME OnCourse, YieldRow
    PROVE  OnCourse' /\ Steps(reader, reader', results, stage = "over")
<1> DEFINE m == Head(arrived)
<1>1. /\ arrived \in Seq(Items) /\ batch = <<>> /\ arrived # <<>> /\ requests # <<>>
      /\ m.kind = "D" /\ begun' = FALSE /\ generator = "live" /\ generator' = "live"
      /\ ~discard \/ begun
      /\ Yield(m) /\ Discards
  BY DEF YieldRow, NextMessage, OnCourse, Typed
<1>2. PICK n \in 0..MaxRows :
        /\ BatchRows(n) /\ batch' = SubSeq(arrived, 2, n + 1)
        /\ arrived' = SubSeq(arrived, n + 2, Len(arrived))
  BY DEF YieldRow
<1>3. n \in Nat /\ n < Len(arrived) /\ \A i \in 2..n + 1 : arrived[i].kind = "D"
  BY <1>2 DEF BatchRows
<1>4. /\ batch' \in Seq(Items) /\ arrived' \in Seq(Items) /\ batch' \o arrived' = Tail(arrived)
      /\ \A i \in 1..Len(batch') : batch'[i] = arrived[i + 1] /\ i + 1 \in 2..n + 1
  BY <1>1, <1>2, <1>3, Parts
<1>5. \A i \in 1..Len(batch') : batch'[i].kind = "D"
  BY <1>3, <1>4
<1>6. batch \o arrived = arrived
  BY <1>1, Alone
<1>7. Given(m) = m
  BY <1>1 DEF Given
<1>8. reader.closed => begun /\ Head(requests) = "call"
  BY <1>1 DEF Discards
<1>9. generator' = IF m.kind \in {"Z", "L"} THEN "done" ELSE "live"
  BY <1>1
<1> HIDE DEF m
<1>10. m = Head(batch \o arrived) /\ batch \o arrived # <<>> /\ batch' \o arrived' = Tail(batch \o arrived)
  BY <1>1, <1>4, <1>6 DEF m
<1> QED BY <1>1, <1>4, <1>5, <1>7, <1>8, <1>9, <1>10, MessageYielded

\* Nobody gets a row that is skipped.
LEMMA DiscardRowGoes ==
    ASSUME OnCourse, DiscardRow
    PROVE  OnCourse' /\ reader' = reader
<1>1. /\ arrived \in Seq(Items) /\ batch = <<>> /\ arrived # <<>> /\ arrived' = Tail(arrived)
      /\ Head(arrived).kind = "D" /\ discard /\ ~begun /\ generator = "live"
      /\ UNCHANGED <<reader, generator, requests, batch, discard, begun, link, results, stage>>
  BY DEF DiscardRow, NextMessage, OnCourse, Typed, source, response
<1>2. /\ Discards /\ Ended /\ Typed /\ Orderly(reader) /\ Asked(reader, requests) /\ reader.closed
  BY <1>1 DEF OnCourse, Discards
<1>3. batch \o arrived = arrived /\ arrived' \in Seq(Items) /\ batch' \o arrived' = arrived'
  BY <1>1, Alone
<1>4. OnPath'
  BY <1>1, <1>2, <1>3, ClosedSkips
<1>5. Discards' /\ Typed'
  BY <1>1, <1>2, <1>3 DEF Discards, Typed
<1>6. Ended'
  BY <1>1, <1>2 DEF Ended, Sets
<1> QED BY <1>1, <1>2, <1>4, <1>5, <1>6 DEF OnCourse

\* The generator has nothing more.
LEMMA NothingUnread ==
    ASSUME reader.waiting = NoItem \/ reader.closed, batch = <<>>, arrived = <<>>
    PROVE  Unread = <<>>
<1>1. Held(reader) = <<>>
  BY DEF Held
<1>2. <<>> \o (<<>> \o <<>>) = <<>>
  OBVIOUS
<1> QED BY <1>1, <1>2 DEF Unread

LEMMA StopGoes ==
    ASSUME OnCourse, NEW kind \in {"end", "throw"}, Yield(Signal(kind)),
           batch = <<>>, arrived = <<>>, UNCHANGED <<batch, arrived>>, generator' = "done",
           kind = "throw" => link = "down", kind = "end" => generator = "done",
           ~begun' \/ (begun' = begun /\ generator = "done")
    PROVE  OnCourse' /\ Steps(reader, reader', results, stage = "over")
<1> DEFINE x == Signal(kind)
<1>1. /\ Typed /\ Orderly(reader) /\ Asked(reader, requests) /\ Discards /\ Ended
      /\ reader \in Readers /\ results \in Results
  BY DEF OnCourse, Typed
<1>2. /\ CallGets(x) \/ CloseGets(x)
      /\ requests # <<>> /\ UNCHANGED <<discard, link, results, stage>>
  BY YieldForms
<1>3. x \in Items /\ x.kind = kind
  BY DEF Signal, Items, Kinds
<1>4. There \in Places /\ There.set = Len(results) /\ There.stage = stage /\ There' = There
  BY <1>1, <1>2, ThereTyped DEF There, Sets
<1> HIDE DEF x
<1>5. CASE CallGets(x)
  <2>1. /\ Head(requests) = "call" /\ reader.call # "none" /\ reader' = Taken(reader, x)
        /\ requests' = IF reader'.call # "none" THEN Append(Tail(requests), "call") ELSE Tail(requests)
    BY <1>5 DEF CallGets
  <2>2. reader.waiting = NoItem
    BY <1>1, <2>1 DEF Orderly
  <2>3. /\ reader.columns <= There.set /\ reader.pending <= There.set
        /\ Tracked => AtPlace(reader, There, results, generator)
    <3>1. PICK c \in Places :
            /\ Leads(c, Unread, results, There)
            /\ reader.columns <= c.set /\ reader.pending <= c.set
            /\ Tracked => AtPlace(reader, c, results, generator)
      BY DEF OnCourse, OnPath
    <3>2. c = There
      BY <2>2, <3>1, NothingUnread, LeadsNowhere
    <3> QED BY <3>1, <3>2
  <2>4. kind = "end" /\ Usable(reader) =>
            stage = "over" /\ There.stage = "over" /\ Remembers(reader, There, results)
    BY <1>1, <1>4, <2>3 DEF Ended, Usable, Tracked, AtPlace
  <2>5. /\ Steps(reader, reader', results, stage = "over") /\ Orderly(reader')
        /\ reader'.call = "none" /\ reader'.waiting = NoItem
        /\ reader'.columns = reader.columns /\ reader'.pending = reader.pending
        /\ reader'.closed = reader.closed /\ reader'.closing = reader.closing
        /\ (reader.failed \/ kind = "throw" => reader'.failed)
        /\ Remembers(reader, There, results) => AtPlace(reader', There, results, "done")
    BY ZenonT(60), <1>1, <1>4, <2>1, <2>4, TakenStops DEF x
  <2>6. reader' \in Readers
    <3>1. x.kind # "T"
      BY <1>3
    <3> QED BY <1>1, <1>3, <2>1, <3>1, TakenEffects
  <2>7. Asked(reader', requests')
    BY <1>1, <1>2, <2>1, <2>5, <2>6, CallAsksAgain
  <2>8. Discards'
    BY <1>1, <1>2, <2>5 DEF Discards
  <2>9. Ended'
    BY <1>1, <1>2, <2>5 DEF Ended, Sets
  <2>10. OnPath'
    <3>1. Unread' = <<>>
      <4>1. Held(reader') = <<>>
        BY <2>5 DEF Held
      <4>2. <<>> \o (<<>> \o <<>>) = <<>>
        OBVIOUS
      <4> QED BY <4>1, <4>2 DEF Unread
    <3>2. Leads(There, <<>>, results, There)
      BY <1>4, LeadsHere
    <3>3. Tracked' => AtPlace(reader', There, results, generator')
      BY <2>3, <2>5 DEF Tracked, AtPlace
    <3> QED BY <1>2, <1>4, <2>3, <2>5, <3>1, <3>2, <3>3 DEF OnPath
  <2>11. Typed'
    BY <1>1, <1>2, <2>6 DEF Typed
  <2> QED BY <2>5, <2>7, <2>8, <2>9, <2>10, <2>11 DEF OnCourse
<1>6. CASE CloseGets(x)
  <2>1. /\ Head(requests) # "call" /\ reader.closed /\ reader' = CloseItem(reader, x)
        /\ requests' = IF reader'.closing THEN Append(Tail(requests), "close") ELSE Tail(requests)
    BY <1>6 DEF CloseGets
  <2>2. /\ reader' \in Readers /\ Orderly(reader') /\ reader'.closed /\ GivesUp(reader, reader')
        /\ reader'.columns = reader.columns /\ reader'.pending = reader.pending
        /\ reader'.call = reader.call /\ reader'.finished = reader.finished
        /\ reader'.waiting = reader.waiting /\ reader'.failed = reader.failed
    BY <1>1, <1>3, <2>1, CloseItemKeeps
  <2>3. /\ reader'.complete = reader.complete /\ reader'.shown = reader.shown
        /\ reader'.found = reader.found /\ reader'.draining = reader.draining
    <3>1. \/ reader' = reader
          \/ reader' = [reader EXCEPT !.closing = FALSE, !.lock = FALSE]
      BY <2>1 DEF CloseItem
    <3>2. CASE reader' = reader
      BY <3>2
    <3>3. CASE reader' = [reader EXCEPT !.closing = FALSE, !.lock = FALSE]
      BY <1>1, <3>3 DEF Readers
    <3> QED BY <3>1, <3>2, <3>3
  <2>4. OnPath'
    <3>1. PICK c \in Places :
            /\ Leads(c, Unread, results, There)
            /\ reader.columns <= c.set /\ reader.pending <= c.set
            /\ Tracked => AtPlace(reader, c, results, generator)
      BY DEF OnCourse, OnPath
    <3>2. Unread' = Unread
      BY <2>1, <2>2 DEF Unread, Held
    <3>3. Tracked' => AtPlace(reader', c, results', generator')
      <4> SUFFICES ASSUME Tracked'
                   PROVE  AtPlace(reader', c, results', generator')
        OBVIOUS
      <4>0. ~reader'.closed \/ (begun' /\ reader'.call = "read")
        BY DEF Tracked
      <4>1. begun' = begun /\ generator = "done" /\ Tracked
        <5>1. begun' /\ reader'.call = "read"
          BY <2>2, <4>0
        <5>2. begun' = begun /\ generator = "done"
          BY <5>1
        <5>3. begun
          BY <5>1, <5>2
        <5> QED BY <2>2, <5>1, <5>2, <5>3 DEF Tracked
      <4>2. Remembers(reader, c, results)
        BY <3>1, <4>1 DEF AtPlace
      <4>3. Remembers(reader', c, results)
        BY <2>2, <2>3, <4>2 DEF Remembers
      <4> QED BY <1>2, <4>3 DEF AtPlace
    <3> QED BY <1>2, <1>4, <2>2, <3>1, <3>2, <3>3 DEF OnPath
  <2>5. Asked(reader', requests')
    BY <1>1, <1>2, <2>1, <2>2, CloseAsksAgain
  <2>6. Discards'
    BY <1>1, <1>2, <2>1, <2>2 DEF Discards
  <2>7. Ended'
    BY <1>1, <1>2, <2>2 DEF Ended, Sets
  <2>8. Typed'
    BY <1>1, <1>2, <2>2 DEF Typed
  <2> QED BY <2>2, <2>4, <2>5, <2>6, <2>7, <2>8 DEF OnCourse, Steps
<1> QED BY <1>2, <1>5, <1>6

LEMMA ReadFailsGoes ==
    ASSUME OnCourse, ReadFails
    PROVE  OnCourse' /\ Steps(reader, reader', results, stage = "over")
BY StopGoes DEF ReadFails

LEMMA AfterEndGoes ==
    ASSUME OnCourse, AfterEnd
    PROVE  OnCourse' /\ Steps(reader, reader', results, stage = "over")
<1>1. arrived = <<>>
  BY DEF AfterEnd, OnCourse, Ended
<1> QED BY <1>1, StopGoes DEF AfterEnd

-----------------------------------------------------------------------------
(* The calls of the application *)

\* close() leaves a read() in its place.
LEMMA ClosesFields ==
    ASSUME NEW r \in Readers, NEW q, ~r.closed, r.call # "start", Orderly(r),
           \/ q = [r EXCEPT !.closed = TRUE, !.lock = FALSE]
           \/ q = [r EXCEPT !.closed = TRUE, !.closing = TRUE]
    PROVE  /\ q \in Readers /\ q.closed /\ Orderly(q) /\ GivesUp(r, q)
           /\ q.columns = r.columns /\ q.pending = r.pending /\ q.call = r.call
           /\ q.finished = r.finished /\ q.waiting = r.waiting /\ q.failed = r.failed
           /\ q.complete = r.complete /\ q.shown = r.shown
           /\ q.found = r.found /\ q.draining = r.draining
<1>1. /\ q \in Readers /\ q.closed
      /\ q.columns = r.columns /\ q.pending = r.pending /\ q.call = r.call
      /\ q.finished = r.finished /\ q.waiting = r.waiting /\ q.failed = r.failed
      /\ q.complete = r.complete /\ q.shown = r.shown
      /\ q.found = r.found /\ q.draining = r.draining
      /\ q.row = r.row /\ q.answer = r.answer
  <2>1. CASE q = [r EXCEPT !.closed = TRUE, !.lock = FALSE]
    BY <2>1 DEF Readers
  <2>2. CASE q = [r EXCEPT !.closed = TRUE, !.closing = TRUE]
    BY <2>2 DEF Readers
  <2> QED BY <2>1, <2>2
<1>2. Orderly(q)
  BY <1>1 DEF Orderly
<1>3. GivesUp(r, q)
  BY <1>1 DEF GivesUp, SamePlace, Moving, Usable
<1> QED BY <1>1, <1>2, <1>3

LEMMA CloseFinished ==
    ASSUME OnCourse, close, reader.finished
    PROVE  OnCourse' /\ Steps(reader, reader', results, stage = "over")
<1>1. /\ reader' = [reader EXCEPT !.closed = TRUE, !.lock = FALSE] /\ ~reader.closed
      /\ reader.call # "start"
      /\ UNCHANGED <<generator, requests, batch, discard, begun, arrived, link, results, stage>>
  BY DEF close, source, response
<1>2. /\ Typed /\ Orderly(reader) /\ Asked(reader, requests) /\ Discards /\ Ended
      /\ reader \in Readers
  BY SMTT(30) DEF OnCourse, Typed
<1>3. /\ reader' \in Readers /\ reader'.closed /\ Orderly(reader') /\ GivesUp(reader, reader')
      /\ reader'.columns = reader.columns /\ reader'.pending = reader.pending
      /\ reader'.call = reader.call /\ reader'.finished = reader.finished
      /\ reader'.waiting = reader.waiting /\ reader'.failed = reader.failed
      /\ ~reader'.closing
  <2>1. reader'.closing = reader.closing
    BY <1>1, <1>2 DEF Readers
  <2> QED BY ZenonT(60), <1>1, <1>2, <2>1, ClosesFields DEF Orderly
<1>4. reader.waiting = NoItem /\ reader.call = "none" /\ ~reader.closing
  BY <1>1, <1>2 DEF Orderly
<1>5. requests = <<>>
  BY <1>2, <1>4 DEF Asked
<1>6. Asked(reader', requests')
  BY <1>1, <1>3, <1>4, <1>5 DEF Asked
<1>7. Discards'
  BY <1>1, <1>2, <1>3, <1>5 DEF Discards
<1>8. Ended'
  BY <1>1, <1>2, <1>3 DEF Ended, Sets
<1>9. OnPath'
  <2>1. PICK c \in Places :
          Leads(c, Unread, results, There) /\ reader.columns <= c.set /\ reader.pending <= c.set
    BY DEF OnCourse, OnPath
  <2>2. Unread' = Unread
    BY <1>1, <1>3, <1>4 DEF Unread, Held
  <2>3. ~Tracked' /\ There' = There
    BY <1>1, <1>3, <1>4 DEF Tracked, There, Sets
  <2> QED BY <1>1, <1>3, <2>1, <2>2, <2>3 DEF OnPath
<1>10. Typed'
  BY <1>1, <1>2, <1>3 DEF Typed
<1> QED BY <1>3, <1>6, <1>7, <1>8, <1>9, <1>10 DEF OnCourse, Steps

LEMMA CloseDrains ==
    ASSUME OnCourse, close, ~reader.finished
    PROVE  OnCourse' /\ Steps(reader, reader', results, stage = "over")
<1>1. /\ reader' = [reader EXCEPT !.closed = TRUE, !.closing = TRUE] /\ ~reader.closed
      /\ reader.call # "start"
      /\ discard' = TRUE /\ batch' = <<>> /\ begun' \in {FALSE, requests # <<>>}
      /\ requests' = Append(requests, "close")
      /\ UNCHANGED <<generator, arrived, link, results, stage>>
  BY DEF close, response
<1>2. /\ Typed /\ Orderly(reader) /\ Asked(reader, requests) /\ Discards /\ Ended
      /\ reader \in Readers /\ batch \in Seq(Items) /\ arrived \in Seq(Items)
  BY DEF OnCourse, Typed
<1>3. /\ reader' \in Readers /\ reader'.closed /\ Orderly(reader') /\ GivesUp(reader, reader')
      /\ reader'.columns = reader.columns /\ reader'.pending = reader.pending
      /\ reader'.call = reader.call /\ reader'.finished = reader.finished
      /\ reader'.waiting = reader.waiting /\ reader'.failed = reader.failed
      /\ reader'.complete = reader.complete /\ reader'.shown = reader.shown
      /\ reader'.found = reader.found /\ reader'.draining = reader.draining
  BY ZenonT(60), <1>1, <1>2, ClosesFields
<1>4. reader'.closing
  BY <1>1, <1>2 DEF Readers
<1>5. ~reader.closing
  BY <1>1, <1>2 DEF Orderly
<1>6. \/ requests = <<>> /\ reader.call = "none" /\ requests' = <<"close">>
      \/ requests = <<"call">> /\ reader.call # "none" /\ requests' = <<"call", "close">>
  <2>1. CASE requests = <<>> /\ reader.call = "none"
    BY <1>1, <2>1
  <2>2. CASE requests = <<"call">> /\ reader.call # "none"
    BY <1>1, <2>2, TwoAsk
  <2> QED BY <1>2, <1>5, <2>1, <2>2 DEF Asked
<1>7. Asked(reader', requests')
  BY <1>3, <1>4, <1>6 DEF Asked
<1>8. Discards'
  <2>1. begun' => requests' = <<"call", "close">>
    BY <1>1, <1>6
  <2> QED BY <1>1, <1>3, <2>1 DEF Discards
<1>9. Ended'
  BY <1>1, <1>2, <1>3 DEF Ended, Sets
<1>10. There' = There
  BY <1>1 DEF There, Sets
<1>11. Unread' = arrived
  <2>1. Held(reader') = <<>>
    BY <1>3 DEF Held
  <2>2. <<>> \o (<<>> \o arrived) = arrived
    BY <1>2
  <2> QED BY <1>1, <2>1, <2>2 DEF Unread
<1>12. OnPath'
  <2>1. CASE reader.call = "read"
    <3>1. PICK c \in Places :
            /\ Leads(c, Unread, results, There)
            /\ reader.columns <= c.set /\ reader.pending <= c.set
            /\ Tracked => AtPlace(reader, c, results, generator)
      BY DEF OnCourse, OnPath
    <3>2. Unread = arrived
      <4>1. Held(reader) = <<>> /\ batch = <<>>
        BY <1>2, <2>1 DEF Held, Orderly, Discards
      <4>2. <<>> \o (<<>> \o arrived) = arrived
        BY <1>2
      <4> QED BY <4>1, <4>2 DEF Unread
    <3>3. AtPlace(reader, c, results, generator)
      BY <1>1, <3>1 DEF Tracked
    <3>4. AtPlace(reader', c, results, generator)
      BY <1>3, <3>3 DEF AtPlace, Remembers, Moving
    <3> QED BY <1>1, <1>3, <1>10, <1>11, <3>1, <3>2, <3>4 DEF OnPath
  <2>2. CASE reader.call # "read"
    <3>1. PICK e \in Places :
            /\ Leads(e, batch \o arrived, results, There)
            /\ reader.columns <= e.set /\ reader.pending <= e.set
      BY StreamLeads
    <3>2. PICK f \in Places : Leads(f, arrived, results, There) /\ e.set <= f.set
      BY <1>2, <3>1, LeadsLater
    <3>3. reader'.columns <= f.set /\ reader'.pending <= f.set
      BY <1>2, <1>3, <3>1, <3>2 DEF Readers, Places
    <3>4. ~Tracked'
      BY <1>3, <2>2 DEF Tracked
    <3> QED BY <1>1, <1>10, <1>11, <3>2, <3>3, <3>4 DEF OnPath
  <2> QED BY <2>1, <2>2
<1>13. Typed'
  BY <1>1, <1>2, <1>3 DEF Typed
<1> QED BY <1>3, <1>7, <1>8, <1>9, <1>12, <1>13 DEF OnCourse, Steps

LEMMA IdleKnows ==
    ASSUME OnCourse, Idle
    PROVE  /\ Typed /\ Orderly(reader) /\ Discards /\ Ended
           /\ reader \in Readers /\ results \in Results
           /\ batch \in Seq(Items) /\ arrived \in Seq(Items)
           /\ reader.call = "none" /\ ~reader.closed /\ ~reader.closing
           /\ requests = <<>> /\ ~begun /\ ~discard
           /\ There \in Places /\ There.set = Len(results) /\ There.stage = stage
           /\ \E c \in Places :
                /\ Leads(c, Unread, results, There) /\ AtPlace(reader, c, results, generator)
                /\ reader.columns <= c.set /\ reader.pending <= c.set
<1>1. /\ Typed /\ Orderly(reader) /\ Discards /\ Ended /\ Asked(reader, requests)
      /\ reader \in Readers /\ results \in Results
      /\ batch \in Seq(Items) /\ arrived \in Seq(Items)
  BY DEF OnCourse, Typed
<1>2. reader.call = "none" /\ ~reader.closed /\ ~reader.closing
  BY <1>1 DEF Idle, Orderly
<1>3. requests = <<>>
  BY <1>1, <1>2 DEF Asked
<1>4. ~begun /\ ~discard
  BY <1>1, <1>2 DEF Discards
<1>5. There \in Places /\ There.set = Len(results) /\ There.stage = stage
  BY <1>1, ThereTyped
<1>6. \E c \in Places :
        /\ Leads(c, Unread, results, There) /\ AtPlace(reader, c, results, generator)
        /\ reader.columns <= c.set /\ reader.pending <= c.set
  BY <1>2 DEF OnCourse, OnPath, Tracked
<1> QED BY <1>1, <1>2, <1>3, <1>4, <1>5, <1>6

LEMMA CallGoes ==
    ASSUME OnCourse, Idle,
           UNCHANGED <<generator, discard, begun, arrived, link, results, stage>>,
           reader' \in Readers, Orderly(reader'), ~reader'.closed, ~reader'.closing,
           requests' = IF reader'.call = "none" THEN requests ELSE Append(requests, "call"),
           batch' = batch \/ (batch # <<>> /\ batch' = Tail(batch)),
           reader'.call = "read" \/ reader'.pending > 0 => batch' = <<>>,
           reader'.finished \/ reader'.waiting.kind = "Z"
                \/ (reader'.columns = 0 /\ reader'.call # "start") => generator = "done",
           reader.failed => reader'.failed,
           NEW c \in Places, Leads(c, Unread', results, There),
           AtPlace(reader', c, results, generator)
    PROVE  OnCourse'
<1>1. /\ Typed /\ Discards /\ Ended /\ batch \in Seq(Items) /\ arrived \in Seq(Items)
      /\ ~reader.closed /\ requests = <<>> /\ ~begun /\ ~discard
  BY IdleKnows
<1>2. Asked(reader', requests')
  <2>1. CASE reader'.call = "none"
    BY <1>1, <2>1 DEF Asked
  <2>2. CASE reader'.call # "none"
    <3>1. requests' = <<"call">>
      BY <1>1, <2>2
    <3> QED BY <2>2, <3>1 DEF Asked
  <2> QED BY <2>1, <2>2
<1>3. batch' \in Seq(Items) /\ \A i \in 1..Len(batch') : batch'[i].kind = "D"
  <2>1. CASE batch' = batch
    BY <1>1, <2>1 DEF Discards
  <2>2. CASE batch # <<>> /\ batch' = Tail(batch)
    <3>1. batch' \in Seq(Items)
          /\ \A i \in 1..Len(batch') : batch'[i] = batch[i + 1] /\ i + 1 \in 1..Len(batch)
      BY <1>1, <2>2, TakeFirst
    <3> QED BY <1>1, <3>1 DEF Discards
  <2> QED BY <2>1, <2>2
<1>4. Discards'
  BY <1>1, <1>3 DEF Discards
<1>5. Ended'
  <2>1. generator = "done" => batch' = <<>>
    BY <1>1 DEF Ended
  <2> QED BY <1>1, <2>1 DEF Ended, Sets
<1>6. OnPath'
  <2>1. There' = There
    BY DEF There, Sets
  <2>2. reader'.columns <= c.set /\ reader'.pending <= c.set
    BY PlaceBounds DEF AtPlace
  <2> QED BY <2>1, <2>2 DEF OnPath
<1>7. Typed'
  BY <1>1, <1>3 DEF Typed
<1> QED BY <1>2, <1>4, <1>5, <1>6, <1>7 DEF OnCourse

\* read() of a row decoded ahead.
LEMMA ReadCachedGoes ==
    ASSUME OnCourse, read, batch # <<>>, reader.waiting = NoItem, ~reader.finished
    PROVE  OnCourse' /\ Steps(reader, reader', results, stage = "over")
<1> DEFINE m == Head(batch)
<1>1. /\ Idle /\ reader' = ReadItem(reader, m) /\ batch' = Tail(batch)
      /\ UNCHANGED <<requests, generator, discard, begun, arrived, link, results, stage>>
  BY DEF read, response
<1>2. /\ Orderly(reader) /\ Discards /\ Ended /\ reader \in Readers /\ results \in Results
      /\ batch \in Seq(Items) /\ arrived \in Seq(Items)
      /\ reader.call = "none" /\ ~reader.closed /\ ~reader.closing
  BY <1>1, IdleKnows
<1>3. PICK c \in Places :
        /\ Leads(c, Unread, results, There) /\ AtPlace(reader, c, results, generator)
  BY <1>1, IdleKnows
<1>4. generator = "live" /\ reader.columns > 0 /\ reader.pending = 0
  <2>1. generator \in {"live", "done"}
    BY DEF OnCourse, Typed
  <2> QED BY <1>2, <2>1 DEF Ended, Discards, Readers
<1>5. /\ batch \o arrived # <<>> /\ Head(batch \o arrived) = m
      /\ Tail(batch \o arrived) = batch' \o arrived /\ batch' \in Seq(Items)
      /\ m = batch[1] /\ 1 \in 1..Len(batch) /\ batch \o arrived \in Seq(Items)
  BY <1>1, <1>2, TakeFirst, BothTyped
<1>6. m \in Items /\ m.kind = "D" /\ Given(m) = m
  <2>1. m \in Items
    BY <1>2, HeadBack
  <2>2. m.kind = "D"
    BY <1>2, <1>5 DEF Discards
  <2> QED BY <2>1, <2>2 DEF Given
<1>7. Unread = batch \o arrived
  <2>1. Held(reader) = <<>>
    BY DEF Held
  <2> QED BY <1>5, <2>1, Alone DEF Unread
<1> HIDE DEF m
<1>8. /\ Allowed(results, c, m) /\ Leads(After(c, m), batch' \o arrived, results, There)
      /\ After(c, m) \in Places
  BY <1>3, <1>5, <1>7, LeadsNext
<1>9. /\ Steps(reader, reader', results, stage = "over") /\ Orderly(reader')
      /\ Reached(reader', c, m, results)
  <2>1. SamePlace(reader, reader) /\ ~Moving(reader)
    BY <1>2 DEF SamePlace, Moving
  <2>2. Remembers(reader, c, results) /\ (reader.failed => c.stage \in {"failed", "over"})
    BY <1>3, <1>4 DEF AtPlace
  <2>3. /\ Steps(reader, ReadItem(reader, Given(m)), results, stage = "over")
        /\ Orderly(ReadItem(reader, Given(m)))
        /\ Reached(ReadItem(reader, Given(m)), c, m, results)
    BY <1>2, <1>4, <1>6, <1>8, <2>1, <2>2, ReadReaches
  <2> QED BY <1>1, <1>6, <2>3
<1>10. /\ reader' \in Readers /\ reader'.closed = reader.closed /\ reader'.closing = reader.closing
       /\ reader'.call = "none" /\ reader'.waiting = NoItem /\ reader'.pending = 0
       /\ reader'.columns = reader.columns /\ reader'.finished = reader.finished
       /\ reader'.failed = reader.failed
  <2>1. reader' = [reader EXCEPT !.row = <<m.set, m.index>>, !.shown = @ + 1,
                                 !.call = "none", !.answer = "row"]
    BY <1>1, <1>6 DEF ReadItem, Answer
  <2>2. reader' \in Readers
    BY <1>1, <1>2, <1>6, ReadTyped
  <2> QED BY <1>2, <1>4, <2>1, <2>2 DEF Readers
<1>11. AtPlace(reader', After(c, m), results, generator)
  <2>1. m # NoItem
    BY <1>6 DEF NoItem, Signal
  <2> QED BY <1>4, <1>9, <1>10, <2>1 DEF Reached
<1>12. Unread' = batch' \o arrived
  <2>1. Held(reader') = <<>>
    BY <1>10 DEF Held
  <2>2. batch' \o arrived \in Seq(Items)
    BY <1>2, <1>5, BothTyped
  <2> QED BY <1>1, <2>1, <2>2, Alone DEF Unread
<1>13. reader'.waiting.kind # "Z"
  BY <1>10 DEF NoItem, Signal
<1> QED BY <1>1, <1>2, <1>4, <1>8, <1>9, <1>10, <1>11, <1>12, <1>13, CallGoes

\* read() that knows that its set has no more rows.
LEMMA ReadStopsGoes ==
    ASSUME OnCourse, Idle, NEW r, r = Answer([reader EXCEPT !.call = "read", !.answer = "none"], "end"),
           reader.finished \/ reader.complete \/ reader.pending > 0,
           reader' = r, requests' = IF r.call = "none" THEN requests ELSE Append(requests, "call"),
           UNCHANGED <<batch, generator, discard, begun, arrived, link, results, stage>>
    PROVE  OnCourse' /\ Steps(reader, reader', results, stage = "over")
<1>1. /\ Orderly(reader) /\ Discards /\ Ended /\ reader \in Readers /\ results \in Results
      /\ reader.call = "none" /\ ~reader.closed /\ ~reader.closing
      /\ There \in Places /\ There.set = Len(results) /\ There.stage = stage
  BY IdleKnows
<1>2. PICK c \in Places :
        /\ Leads(c, Unread, results, There) /\ AtPlace(reader, c, results, generator)
        /\ reader.columns <= c.set /\ reader.pending <= c.set
  BY IdleKnows
<1>3. /\ r \in Readers /\ r.closed = reader.closed /\ r.closing = reader.closing
      /\ r.call = "none" /\ r.answer = "end" /\ r.waiting = reader.waiting
      /\ r.pending = reader.pending /\ r.columns = reader.columns /\ r.shown = reader.shown
      /\ r.finished = reader.finished /\ r.failed = reader.failed /\ r.row = reader.row
      /\ r.complete = reader.complete /\ r.found = reader.found /\ r.draining = reader.draining
  BY <1>1 DEF Readers, Answer
<1>4. Orderly(r)
  BY <1>1, <1>3 DEF Orderly
<1>5. AtPlace(r, c, results, generator)
  BY <1>1, <1>2, <1>3 DEF AtPlace, Remembers, Moving
<1>6. Unread' = Unread
  BY <1>3 DEF Unread, Held
<1>7. Held(reader) \in Seq(Items) /\ Unread \in Seq(Items)
  BY <1>1, IdleKnows, HeldTyped, BothTyped DEF Unread
<1>8. c.set <= Len(results) /\ Len(results) \in Nat
  <2>1. c.set <= There.set
    BY <1>2, <1>7, LeadsForward
  <2> QED BY <1>1, <2>1 DEF Results
<1>9. Usable(reader) => Spent(reader, results) /\ (reader.columns = 0 => stage = "over")
  <2> SUFFICES ASSUME Usable(reader)
               PROVE  Spent(reader, results) /\ (reader.columns = 0 => stage = "over")
    OBVIOUS
  <2>0. ~reader.failed /\ ~reader.finished
    BY DEF Usable
  <2>1. CASE reader.pending > 0
    <3>1. reader.columns > 0 /\ reader.pending = reader.columns + 1
          /\ results[reader.columns].rows = reader.shown
      BY <1>2, <2>0, <2>1 DEF AtPlace, Remembers
    <3>2. reader.columns < Len(results)
      BY SMTT(30), <1>1, <1>2, <1>8, <3>1 DEF Readers, Places
    <3> QED BY <1>1, <3>1, <3>2 DEF Spent, Readers
  <2>2. CASE ~(reader.pending > 0)
    <3>1. /\ reader.complete /\ reader.pending = 0 /\ c.set = reader.columns
          /\ c.rows = reader.shown /\ c.stage \in {"between", "over"}
          /\ (c.set > 0 => Whole(results, c))
      BY <1>1, <1>2, <2>0, <2>2 DEF AtPlace, Remembers, Readers, Places, Stages
    <3>2. CASE reader.columns > 0
      BY <1>1, <3>1, <3>2 DEF Spent, Whole
    <3>3. CASE reader.columns = 0
      <4>1. generator = "done"
        BY <1>1, <3>3 DEF Ended
      <4>2. stage = "over" /\ batch = <<>> /\ arrived = <<>>
        BY <1>1, <2>0, <4>1 DEF Ended
      <4>3. reader.waiting = NoItem
        BY <1>1, <3>3 DEF Orderly
      <4>4. c = There
        BY <1>2, <4>2, <4>3, NothingUnread, LeadsNowhere
      <4> QED BY <1>1, <3>1, <3>3, <4>2, <4>4 DEF Spent
    <3> QED BY <1>1, <3>2, <3>3 DEF Readers
  <2> QED BY <2>1, <2>2
<1>10. Steps(reader, r, results, stage = "over")
  BY <1>1, <1>3, <1>9 DEF Steps, Exhausts, SamePlace, RowKept, Usable, Moving
<1>11. reader'.finished \/ reader'.waiting.kind = "Z"
            \/ (reader'.columns = 0 /\ reader'.call # "start") => generator = "done"
  BY <1>1, <1>3 DEF Ended
<1>12. reader'.pending > 0 => batch' = <<>>
  BY <1>1, <1>3 DEF Discards
<1> QED BY <1>1, <1>2, <1>3, <1>4, <1>5, <1>6, <1>10, <1>11, <1>12, CallGoes

\* An item held back comes first.
LEMMA WaitingFirst ==
    ASSUME OnCourse, Idle, reader.waiting # NoItem,
           NEW c, Leads(c, Unread, results, There)
    PROVE  LET m == reader.waiting IN
           /\ m \in Items /\ m.kind \in {"D", "C", "Z"} /\ Given(m) = m
           /\ reader.columns > 0 /\ reader.pending = 0 /\ ~reader.failed /\ ~reader.complete
           /\ ~reader.finished
           /\ Allowed(results, c, m) /\ After(c, m) \in Places
           /\ Leads(After(c, m), batch \o arrived, results, There)
           /\ m.kind \in {"Z", "L"} => stage = "over" /\ c.set = Len(results)
<1> DEFINE m == reader.waiting
           s == batch \o arrived
<1>1. /\ Orderly(reader) /\ reader \in Readers /\ s \in Seq(Items) /\ ~reader.closed
      /\ There.set = Len(results) /\ There.stage = stage
  BY IdleKnows, BothTyped
<1>2. /\ m \in Items /\ m.kind \in {"D", "C", "Z"} /\ Given(m) = m
      /\ reader.columns > 0 /\ reader.pending = 0 /\ ~reader.failed /\ ~reader.complete
      /\ ~reader.finished
  BY <1>1 DEF Orderly, Readers, Given
<1>3. Unread = <<m>> \o s
  BY <1>1 DEF Unread, Held
<1> HIDE DEF m, s
<1>4. /\ <<m>> \o s \in Seq(Items) /\ <<m>> \o s # <<>> /\ Head(<<m>> \o s) = m
      /\ Tail(<<m>> \o s) = s
  BY <1>1, <1>2
<1>5. /\ Allowed(results, c, m) /\ After(c, m) \in Places
      /\ Leads(After(c, m), s, results, There)
  BY <1>3, <1>4, LeadsNext
<1>6. m.kind \in {"Z", "L"} => stage = "over" /\ c.set = Len(results)
  <2> SUFFICES ASSUME m.kind \in {"Z", "L"} PROVE stage = "over" /\ c.set = Len(results)
    OBVIOUS
  <2>1. After(c, m).stage = "over" /\ After(c, m).set = c.set
    BY DEF After
  <2>2. After(c, m) = There
    BY <1>1, <1>5, <2>1, LeadsEnds
  <2> QED BY <1>1, <2>1, <2>2
<1> QED BY <1>2, <1>5, <1>6 DEF m, s

LEMMA ReadWaitingGoes ==
    ASSUME OnCourse, Idle, NEW r,
           r = [reader EXCEPT !.call = "read", !.answer = "none", !.waiting = NoItem],
           reader.waiting # NoItem,
           reader' = ReadItem(r, reader.waiting),
           requests' = IF reader'.call = "none" THEN requests ELSE Append(requests, "call"),
           UNCHANGED <<batch, generator, discard, begun, arrived, link, results, stage>>
    PROVE  OnCourse' /\ Steps(reader, reader', results, stage = "over")
<1> DEFINE m == reader.waiting
<1>1. /\ Orderly(reader) /\ Discards /\ Ended /\ reader \in Readers /\ results \in Results
      /\ reader.call = "none" /\ ~reader.closed /\ ~reader.closing
      /\ batch \in Seq(Items) /\ arrived \in Seq(Items)
  BY IdleKnows
<1>2. PICK c \in Places :
        Leads(c, Unread, results, There) /\ AtPlace(reader, c, results, generator)
  BY IdleKnows
<1>3. /\ m \in Items /\ m.kind \in {"D", "C", "Z"} /\ Given(m) = m
      /\ reader.columns > 0 /\ reader.pending = 0 /\ ~reader.failed /\ ~reader.complete
      /\ ~reader.finished
      /\ Allowed(results, c, m) /\ After(c, m) \in Places
      /\ Leads(After(c, m), batch \o arrived, results, There)
      /\ m.kind \in {"Z", "L"} => stage = "over" /\ c.set = Len(results)
  BY <1>2, WaitingFirst
<1> HIDE DEF m
<1>4. NoItem \in Items /\ NoItem.kind = "none"
  BY DEF NoItem, Signal, Items, Kinds
<1>5. /\ r \in Readers /\ r.closed = reader.closed /\ r.closing = reader.closing
      /\ r.call = "read" /\ r.answer = "none" /\ r.waiting = NoItem
      /\ r.pending = 0 /\ r.columns = reader.columns /\ r.shown = reader.shown
      /\ ~r.finished /\ ~r.failed /\ r.row = reader.row
      /\ ~r.complete /\ r.found = reader.found /\ r.draining = reader.draining
  BY <1>1, <1>3, <1>4 DEF Readers
<1>6. Orderly(r)
  BY <1>1, <1>3, <1>5 DEF Orderly
<1>7. Remembers(r, c, results)
  BY <1>1, <1>2, <1>3, <1>5 DEF AtPlace, Remembers
<1>8. /\ SamePlace(reader, r) /\ ~Moving(reader) /\ (Usable(r) <=> Usable(reader))
  BY <1>1, <1>3, <1>5 DEF SamePlace, Moving, Usable
<1>9. c.stage = "described" => m.kind \in {"D", "C"}
  BY <1>3 DEF Allowed
<1>10. /\ Steps(reader, ReadItem(r, m), results, stage = "over") /\ Orderly(ReadItem(r, m))
       /\ Reached(ReadItem(r, m), c, m, results)
  <2>1. /\ Steps(reader, ReadItem(r, Given(m)), results, stage = "over")
        /\ Orderly(ReadItem(r, Given(m))) /\ Reached(ReadItem(r, Given(m)), c, m, results)
    BY ZenonT(60), <1>1, <1>3, <1>5, <1>6, <1>7, <1>8, <1>9, ReadReaches
  <2> QED BY <1>3, <2>1
<1>11. reader' = ReadItem(r, m)
  BY DEF m
<1>12. /\ reader' \in Readers /\ ~reader'.closed /\ ~reader'.closing
       /\ reader'.call = "none" /\ reader'.waiting = NoItem /\ reader'.pending = 0
       /\ reader'.columns = reader.columns /\ (reader'.finished => m.kind = "Z")
  <2>0. reader' \in Readers /\ r \in Readers
    BY <1>3, <1>5, <1>11, ReadTyped
  <2>1. CASE m.kind = "D"
    <3> DEFINE place == <<m.set, m.index>>
               n == r.shown + 1
    <3>1. reader' = [r EXCEPT !.row = place, !.shown = n, !.call = "none", !.answer = "row"]
      BY <1>11, <2>1 DEF ReadItem, Answer
    <3> HIDE DEF place, n
    <3>2. /\ reader'.closed = r.closed /\ reader'.closing = r.closing /\ reader'.call = "none"
          /\ reader'.waiting = r.waiting /\ reader'.pending = r.pending
          /\ reader'.columns = r.columns /\ reader'.finished = r.finished
      BY ZenonT(60), <2>0, <3>1 DEF Readers
    <3> QED BY <1>1, <1>5, <2>0, <3>2
  <2>2. CASE m.kind = "C"
    <3>1. reader' = [r EXCEPT !.complete = TRUE, !.row = NoRow, !.call = "none", !.answer = "end"]
      BY <1>11, <2>2 DEF ReadItem, Answer
    <3> QED BY ZenonT(60), <1>1, <1>5, <2>0, <3>1 DEF Readers
  <2>3. CASE m.kind = "Z"
    <3>1. reader' = [r EXCEPT !.finished = TRUE, !.waiting = NoItem, !.lock = FALSE,
                              !.row = NoRow, !.call = "none", !.answer = "end"]
      BY <1>5, <1>11, <2>3 DEF ReadItem, ReadEnds, MarkFinished, Answer, Readers
    <3> QED BY ZenonT(60), <1>1, <1>5, <2>0, <2>3, <3>1 DEF Readers
  <2> QED BY <1>3, <2>1, <2>2, <2>3
<1>13. AtPlace(reader', After(c, m), results, generator)
  <2>1. AtPlace(reader', After(c, m), results, "live")
    BY <1>10, <1>11, <1>12 DEF Reached
  <2> QED BY <2>1, AtPlaceStill
<1>14. Unread' = batch \o arrived
  <2>1. Held(reader') = <<>>
    BY <1>12 DEF Held
  <2>2. batch \o arrived \in Seq(Items)
    BY <1>1, BothTyped
  <2> QED BY <2>1, <2>2, Alone DEF Unread
<1>15. reader'.finished \/ reader'.waiting.kind = "Z"
            \/ (reader'.columns = 0 /\ reader'.call # "start") => generator = "done"
  BY <1>1, <1>3, <1>4, <1>12 DEF Ended, m
<1> QED BY <1>3, <1>10, <1>11, <1>12, <1>13, <1>14, <1>15, CallGoes

LEMMA ReadAsksGoes ==
    ASSUME OnCourse, Idle, NEW r, r = [reader EXCEPT !.call = "read", !.answer = "none"],
           ~reader.finished, ~reader.complete, ~(reader.pending > 0), reader.waiting = NoItem,
           batch = <<>>, reader' = r,
           requests' = IF r.call = "none" THEN requests ELSE Append(requests, "call"),
           UNCHANGED <<batch, generator, discard, begun, arrived, link, results, stage>>
    PROVE  OnCourse' /\ Steps(reader, reader', results, stage = "over")
<1>1. /\ Orderly(reader) /\ Discards /\ Ended /\ reader \in Readers /\ results \in Results
      /\ reader.call = "none" /\ ~reader.closed /\ ~reader.closing
  BY IdleKnows
<1>2. PICK c \in Places :
        Leads(c, Unread, results, There) /\ AtPlace(reader, c, results, generator)
  BY IdleKnows
<1>3. /\ r \in Readers /\ r.closed = reader.closed /\ r.closing = reader.closing
      /\ r.call = "read" /\ r.answer = "none" /\ r.waiting = NoItem
      /\ r.pending = 0 /\ reader.pending = 0 /\ r.columns = reader.columns
      /\ r.shown = reader.shown
      /\ ~r.finished /\ r.failed = reader.failed /\ r.row = reader.row
      /\ ~r.complete /\ r.found = reader.found /\ r.draining = reader.draining
  <2>1. reader.pending = 0
    BY <1>1 DEF Readers
  <2>2. /\ r \in Readers /\ r.closed = reader.closed /\ r.closing = reader.closing
        /\ r.call = "read" /\ r.answer = "none" /\ r.waiting = reader.waiting
        /\ r.pending = reader.pending /\ r.columns = reader.columns
        /\ r.shown = reader.shown /\ r.finished = reader.finished
        /\ r.failed = reader.failed /\ r.row = reader.row
        /\ r.complete = reader.complete /\ r.found = reader.found
        /\ r.draining = reader.draining
    BY <1>1 DEF Readers
  <2> QED BY <2>1, <2>2
<1>4. Orderly(r)
  BY <1>1, <1>3 DEF Orderly
<1>5. AtPlace(r, c, results, generator)
  <2>1. Remembers(r, c, results)
    BY <1>1, <1>2, <1>3 DEF AtPlace, Remembers
  <2> QED BY <1>1, <1>2, <1>3, <2>1 DEF AtPlace, Moving
<1>6. Unread' = Unread
  BY <1>3 DEF Unread, Held
<1>7. Steps(reader, r, results, stage = "over")
  BY <1>1, <1>3 DEF Steps, Asks, SamePlace, RowKept, Usable
<1>8. reader'.finished \/ reader'.waiting.kind = "Z"
            \/ (reader'.columns = 0 /\ reader'.call # "start") => generator = "done"
  BY <1>1, <1>3 DEF Ended, NoItem, Signal
<1> QED BY <1>1, <1>2, <1>3, <1>4, <1>5, <1>6, <1>7, <1>8, CallGoes

LEMMA ReadGoes ==
    ASSUME OnCourse, read
    PROVE  OnCourse' /\ Steps(reader, reader', results, stage = "over")
<1> DEFINE asked == [reader EXCEPT !.call = "read", !.answer = "none"]
           stops == reader.finished \/ reader.complete \/ reader.pending > 0
<1>1. /\ Idle
      /\ UNCHANGED <<generator, discard, begun, arrived, link, results, stage>>
  BY DEF read, response
<1>2. CASE batch # <<>> /\ reader.waiting = NoItem /\ ~reader.finished
  BY <1>2, ReadCachedGoes
<1>3. CASE ~(batch # <<>> /\ reader.waiting = NoItem /\ ~reader.finished)
  <2>1. /\ batch' = batch
        /\ Proceed(CASE stops -> Answer(asked, "end")
                     [] reader.waiting # NoItem ->
                            ReadItem([asked EXCEPT !.waiting = NoItem], reader.waiting)
                     [] OTHER -> asked)
    BY <1>3 DEF read
  <2>2. /\ Orderly(reader) /\ Ended /\ ~reader.closed /\ reader \in Readers
    BY <1>1, IdleKnows
  <2>3. CASE stops
    <3>1. reader.waiting = NoItem
      BY <2>2, <2>3 DEF Orderly, Readers
    <3>2. Proceed(Answer(asked, "end"))
      BY <2>1, <2>3, <3>1
    <3> QED BY <1>1, <2>1, <2>3, <3>2, ReadStopsGoes DEF Proceed
  <2>4. CASE ~stops /\ reader.waiting # NoItem
    <3> DEFINE r == [reader EXCEPT !.call = "read", !.answer = "none", !.waiting = NoItem]
    <3>1. [asked EXCEPT !.waiting = NoItem] = r
      BY <2>2 DEF Readers
    <3>2. Proceed(ReadItem(r, reader.waiting))
      BY <2>1, <2>4, <3>1
    <3> HIDE DEF r
    <3>3. /\ reader' = ReadItem(r, reader.waiting)
          /\ requests' = IF reader'.call = "none" THEN requests ELSE Append(requests, "call")
      BY <3>2 DEF Proceed
    <3> QED BY <1>1, <2>1, <2>4, <3>3, ReadWaitingGoes DEF r
  <2>5. CASE ~stops /\ reader.waiting = NoItem
    <3>1. Proceed(asked)
      BY <2>1, <2>5
    <3>2. batch = <<>>
      BY <1>3, <2>5
    <3> QED BY <1>1, <2>1, <2>5, <3>1, <3>2, ReadAsksGoes DEF Proceed
  <2> QED BY <2>3, <2>4, <2>5
<1> QED BY <1>2, <1>3

\* nextResult().
LEMMA NextFinishedGoes ==
    ASSUME OnCourse, Idle, reader.finished, NEW r,
           r = Answer([reader EXCEPT !.call = "next"], "over"),
           reader' = r, requests' = IF r.call = "none" THEN requests ELSE Append(requests, "call"),
           UNCHANGED <<batch, generator, discard, begun, arrived, link, results, stage>>
    PROVE  OnCourse' /\ Steps(reader, reader', results, stage = "over")
<1>1. /\ Orderly(reader) /\ Discards /\ Ended /\ reader \in Readers /\ results \in Results
      /\ reader.call = "none" /\ ~reader.closed /\ ~reader.closing
  BY IdleKnows
<1>2. PICK c \in Places :
        Leads(c, Unread, results, There) /\ AtPlace(reader, c, results, generator)
  BY IdleKnows
<1>3. /\ r \in Readers /\ r.closed = reader.closed /\ r.closing = reader.closing
      /\ r.call = "none" /\ r.answer = "over" /\ r.waiting = reader.waiting
      /\ r.pending = reader.pending /\ r.columns = reader.columns /\ r.shown = reader.shown
      /\ r.finished = reader.finished /\ r.failed = reader.failed /\ r.row = reader.row
      /\ r.complete = reader.complete /\ r.found = reader.found /\ r.draining = reader.draining
  BY ZenonT(60), <1>1 DEF Readers, Answer
<1>4. Orderly(r)
  BY <1>1, <1>3 DEF Orderly
<1>5. AtPlace(r, c, results, generator)
  BY ZenonT(60), <1>1, <1>2, <1>3 DEF AtPlace, Remembers, Moving
<1>6. Unread' = Unread
  BY <1>3 DEF Unread, Held
<1>7. Steps(reader, r, results, stage = "over")
  BY <1>1, <1>3 DEF Steps, FindsNone, SamePlace, RowKept, Usable, Moving
<1>8. generator = "done"
  BY <1>1 DEF Ended
<1>9. reader'.pending > 0 => batch' = <<>>
  BY <1>1, <1>3 DEF Discards
<1> QED BY <1>1, <1>2, <1>3, <1>4, <1>5, <1>6, <1>7, <1>8, <1>9, CallGoes

LEMMA NextMovesGoes ==
    ASSUME OnCourse, Idle, ~reader.finished, reader.pending > 0, NEW r,
           r = [reader EXCEPT !.call = "next", !.answer = "none", !.row = NoRow, !.found = TRUE,
                              !.pending = 0, !.draining = FALSE, !.columns = reader.pending,
                              !.shown = 0, !.complete = FALSE],
           reader' = r, requests' = IF r.call = "none" THEN requests ELSE Append(requests, "call"),
           UNCHANGED <<batch, generator, discard, begun, arrived, link, results, stage>>
    PROVE  OnCourse' /\ Steps(reader, reader', results, stage = "over")
<1>1. /\ Orderly(reader) /\ Discards /\ Ended /\ reader \in Readers /\ results \in Results
      /\ reader.call = "none" /\ ~reader.closed /\ ~reader.closing
      /\ batch \in Seq(Items) /\ arrived \in Seq(Items)
      /\ There \in Places /\ There.set = Len(results)
  BY IdleKnows
<1>2. PICK c \in Places :
        /\ Leads(c, Unread, results, There) /\ AtPlace(reader, c, results, generator)
        /\ reader.pending <= c.set
  BY IdleKnows
<1>3. reader.waiting = NoItem
  BY <1>1 DEF Orderly, Readers
<1>4. NoRow \in Nat \X Nat
  BY DEF NoRow
<1>5. /\ r \in Readers /\ r.closed = reader.closed /\ r.closing = reader.closing
      /\ r.call = "next" /\ r.answer = "none" /\ r.waiting = NoItem
      /\ r.pending = 0 /\ r.columns = reader.pending /\ r.shown = 0
      /\ r.finished = reader.finished /\ r.failed = reader.failed /\ r.row = NoRow
      /\ ~r.complete /\ r.found /\ ~r.draining
  BY <1>1, <1>3, <1>4 DEF Readers
<1>6. Orderly(r)
  BY <1>1, <1>5 DEF Orderly
<1>7. AtPlace(r, c, results, generator)
  <2>1. /\ c.set = reader.pending /\ c.rows = 0 /\ r.columns > 0
        /\ (c.stage = "failed" => reader.failed)
        /\ (c.stage \in {"between", "over"} /\ c.set > 0 /\ ~reader.failed => Whole(results, c))
    BY <1>1, <1>2, <1>5 DEF AtPlace, Remembers
  <2>2. Remembers(r, c, results)
    BY <1>5, <2>1 DEF Remembers
  <2> QED BY <1>2, <1>5, <2>2 DEF AtPlace, Moving
<1>8. Unread' = Unread
  BY <1>1, <1>3, <1>5 DEF Unread, Held
<1>9. c.set <= Len(results) /\ Len(results) \in Nat
  <2>1. Unread \in Seq(Items)
    BY <1>1, HeldTyped, BothTyped DEF Unread
  <2>2. c.set <= There.set
    BY <1>2, <2>1, LeadsForward
  <2> QED BY <1>1, <2>2 DEF Results
<1>10. Steps(reader, r, results, stage = "over")
  <2>1. reader.pending = reader.columns + 1
    BY <1>2 DEF AtPlace, Remembers
  <2>2. r.columns \in reader.columns + 1..Len(results) /\ r.columns = reader.columns + 1
    <3>1. reader.columns \in Nat /\ reader.pending \in Nat /\ c.set \in Nat
      BY <1>1 DEF Readers, Places
    <3> HIDE DEF Readers
    <3> QED BY <1>2, <1>5, <1>9, <2>1, <3>1
  <2> QED BY <1>1, <1>5, <2>2 DEF Steps, Moves, Usable, Moving
<1>11. reader'.finished \/ reader'.waiting.kind = "Z"
            \/ (reader'.columns = 0 /\ reader'.call # "start") => generator = "done"
  <2>1. reader.columns \in Nat /\ reader.pending \in Nat
    BY <1>1 DEF Readers
  <2>2. reader'.columns # 0 /\ reader'.waiting.kind # "Z" /\ ~reader'.finished
    BY <1>5, <2>1 DEF NoItem, Signal
  <2> QED BY <2>2
<1> QED BY <1>1, <1>2, <1>5, <1>6, <1>7, <1>8, <1>10, <1>11, CallGoes

LEMMA NextAsksGoes ==
    ASSUME OnCourse, Idle, ~reader.finished, ~(reader.pending > 0), reader.waiting = NoItem, NEW r,
           r = [reader EXCEPT !.call = "next", !.answer = "none", !.row = NoRow, !.found = FALSE,
                              !.pending = 0, !.draining = ~reader.complete],
           reader' = r, requests' = IF r.call = "none" THEN requests ELSE Append(requests, "call"),
           UNCHANGED <<batch, generator, discard, begun, arrived, link, results, stage>>
    PROVE  OnCourse' /\ Steps(reader, reader', results, stage = "over")
<1>1. /\ Orderly(reader) /\ Discards /\ Ended /\ reader \in Readers /\ results \in Results
      /\ reader.call = "none" /\ ~reader.closed /\ ~reader.closing
  BY IdleKnows
<1>2. PICK c \in Places :
        Leads(c, Unread, results, There) /\ AtPlace(reader, c, results, generator)
  BY IdleKnows
<1>3. NoRow \in Nat \X Nat /\ reader.pending = 0 /\ reader.complete \in BOOLEAN
  BY <1>1 DEF NoRow, Readers
<1>4. /\ r \in Readers /\ r.closed = reader.closed /\ r.closing = reader.closing
      /\ r.call = "next" /\ r.answer = "none" /\ r.waiting = reader.waiting
      /\ r.pending = 0 /\ r.columns = reader.columns /\ r.shown = reader.shown
      /\ r.finished = reader.finished /\ r.failed = reader.failed /\ r.row = NoRow
      /\ r.complete = reader.complete /\ ~r.found /\ (r.draining <=> ~reader.complete)
  BY ZenonT(60), <1>1, <1>3 DEF Readers
<1>5. Orderly(r)
  BY <1>1, <1>4 DEF Orderly
<1>6. AtPlace(r, c, results, generator)
  <2>1. Remembers(r, c, results)
    BY <1>1, <1>2, <1>3, <1>4 DEF AtPlace, Remembers
  <2> QED BY <1>2, <1>4, <2>1 DEF AtPlace, Moving
<1>7. Unread' = Unread
  BY <1>4 DEF Unread, Held
<1>8. Steps(reader, r, results, stage = "over")
  BY <1>1, <1>4 DEF Steps, Asks, SamePlace, RowKept, Usable
<1>9. reader'.finished \/ reader'.waiting.kind = "Z"
            \/ (reader'.columns = 0 /\ reader'.call # "start") => generator = "done"
  BY <1>1, <1>4 DEF Ended
<1> QED BY <1>1, <1>2, <1>4, <1>5, <1>6, <1>7, <1>8, <1>9, CallGoes

LEMMA NextDrains ==
    ASSUME NEW r \in Readers, r.call = "next", r.waiting = NoItem, ~r.finished,
           ~r.found, r.draining, NEW m \in Items, m.kind \in {"D", "C", "Z"}
    PROVE  LET q == NextItem(r, m) IN
           /\ q.closed = r.closed /\ q.closing = r.closing /\ q.call \in {"none", "next"}
           /\ q.waiting = NoItem /\ q.pending = r.pending /\ q.columns = r.columns
           /\ (q.finished => m.kind = "Z") /\ q \in Readers
<1> DEFINE q == NextItem(r, m)
<1>0. q \in Readers
  BY NextTyped
<1>1. CASE m.kind = "D"
  <2>1. q = r
    BY <1>1 DEF NextItem
  <2> HIDE DEF q
  <2> QED BY <1>0, <2>1 DEF q
<1>2. CASE m.kind = "C"
  <2>1. q = [r EXCEPT !.draining = FALSE, !.complete = TRUE]
    BY <1>2 DEF NextItem
  <2> HIDE DEF q
  <2>2. /\ q.closed = r.closed /\ q.closing = r.closing /\ q.call = "next"
        /\ q.waiting = NoItem /\ q.pending = r.pending /\ q.columns = r.columns
        /\ ~q.finished
    BY <2>1 DEF Readers
  <2> QED BY <1>0, <2>2 DEF q
<1>3. CASE m.kind = "Z"
  <2>1. q = [r EXCEPT !.finished = TRUE, !.waiting = NoItem, !.lock = FALSE,
                      !.call = "none", !.answer = "over"]
    BY <1>3 DEF NextItem, MarkFinished, Answer
  <2> HIDE DEF q
  <2>2. /\ q.closed = r.closed /\ q.closing = r.closing /\ q.call = "none"
        /\ q.waiting = NoItem /\ q.pending = r.pending /\ q.columns = r.columns
    BY <2>1 DEF Readers
  <2> QED BY <1>0, <1>3, <2>2 DEF q
<1> QED BY <1>1, <1>2, <1>3

\* The call of nextResult() in a result set that is not over.
Opens(r) ==
    /\ r.closed = reader.closed /\ r.closing = reader.closing
    /\ r.call = "next" /\ r.answer = "none" /\ r.waiting = NoItem
    /\ r.pending = 0 /\ r.columns = reader.columns /\ r.shown = reader.shown
    /\ r.finished = reader.finished /\ r.failed = reader.failed /\ r.row = NoRow
    /\ r.complete = reader.complete /\ ~r.found /\ (r.draining <=> ~reader.complete)

LEMMA NextWaitingGoes ==
    ASSUME OnCourse, Idle, reader.waiting # NoItem, NEW r \in Readers, Opens(r),
           reader' = NextItem(r, reader.waiting),
           requests' = IF reader'.call = "none" THEN requests ELSE Append(requests, "call"),
           UNCHANGED <<batch, generator, discard, begun, arrived, link, results, stage>>
    PROVE  OnCourse' /\ Steps(reader, reader', results, stage = "over")
<1> DEFINE m == reader.waiting
<1>1. /\ Orderly(reader) /\ Discards /\ Ended /\ reader \in Readers /\ results \in Results
      /\ reader.call = "none" /\ ~reader.closed /\ ~reader.closing
      /\ batch \in Seq(Items) /\ arrived \in Seq(Items)
  BY IdleKnows
<1>2. PICK c \in Places :
        Leads(c, Unread, results, There) /\ AtPlace(reader, c, results, generator)
  BY IdleKnows
<1>3. /\ m \in Items /\ m.kind \in {"D", "C", "Z"} /\ Given(m) = m
      /\ reader.columns > 0 /\ reader.pending = 0 /\ ~reader.failed /\ ~reader.complete
      /\ ~reader.finished
      /\ Allowed(results, c, m) /\ After(c, m) \in Places
      /\ Leads(After(c, m), batch \o arrived, results, There)
      /\ m.kind \in {"Z", "L"} => stage = "over" /\ c.set = Len(results)
  BY <1>2, WaitingFirst
<1> HIDE DEF m
<1>4. NoItem \in Items /\ NoItem.kind = "none" /\ NoRow \in Nat \X Nat
  BY DEF NoItem, Signal, Items, Kinds, NoRow
<1>5. /\ r \in Readers /\ r.closed = reader.closed /\ r.closing = reader.closing
      /\ r.call = "next" /\ r.answer = "none" /\ r.waiting = NoItem
      /\ r.pending = 0 /\ r.columns = reader.columns /\ r.shown = reader.shown
      /\ r.finished = reader.finished /\ r.failed = reader.failed /\ r.row = NoRow
      /\ r.complete = reader.complete /\ ~r.found /\ r.draining
  BY <1>3 DEF Opens
<1>6. Orderly(r)
  BY <1>1, <1>3, <1>5 DEF Orderly
<1>7. Remembers(r, c, results)
  BY <1>1, <1>2, <1>3, <1>5 DEF AtPlace, Remembers
<1>8. /\ SamePlace(reader, r) /\ RowKept(reader, r) /\ (Usable(r) <=> Usable(reader))
  BY <1>1, <1>3, <1>5 DEF SamePlace, RowKept, Usable
<1>9. /\ Steps(reader, NextItem(r, m), results, stage = "over") /\ Orderly(NextItem(r, m))
      /\ Reached(NextItem(r, m), c, m, results)
  <2>0. /\ r.columns > 0 /\ (r.failed => c.stage \in {"failed", "over"})
        /\ (reader = r \/ ~r.found) /\ (stage = "over") \in BOOLEAN
    BY <1>3, <1>5
  <2>1. /\ Steps(reader, NextItem(r, Given(m)), results, stage = "over")
        /\ Orderly(NextItem(r, Given(m))) /\ Reached(NextItem(r, Given(m)), c, m, results)
    BY ZenonT(60), <1>1, <1>3, <1>5, <1>6, <1>7, <1>8, <2>0, NextReaches
  <2> QED BY <1>3, <2>1
<1>10. reader' = NextItem(r, m)
  BY DEF m
<1>11. /\ reader' \in Readers /\ ~reader'.closed /\ ~reader'.closing
       /\ reader'.call \in {"none", "next"} /\ reader'.waiting = NoItem /\ reader'.pending = 0
       /\ reader'.columns = reader.columns /\ (reader'.finished => m.kind = "Z")
  <2>0. r \in Readers /\ m \in Items /\ r.call = "next" /\ r.waiting = NoItem
        /\ ~r.finished /\ ~r.found /\ r.draining /\ m.kind \in {"D", "C", "Z"}
    BY <1>3, <1>5
  <2>1. /\ NextItem(r, m).closed = r.closed /\ NextItem(r, m).closing = r.closing
        /\ NextItem(r, m).call \in {"none", "next"} /\ NextItem(r, m).waiting = NoItem
        /\ NextItem(r, m).pending = r.pending /\ NextItem(r, m).columns = r.columns
        /\ (NextItem(r, m).finished => m.kind = "Z") /\ NextItem(r, m) \in Readers
    BY <2>0, NextDrains
  <2> QED BY <1>1, <1>5, <1>10, <2>1
<1>12. AtPlace(reader', After(c, m), results, generator)
  <2>1. m # NoItem
    BY DEF m
  <2>2. AtPlace(reader', After(c, m), results, "live")
    BY <1>9, <1>10, <1>11, <2>1 DEF Reached
  <2> QED BY <2>2, AtPlaceStill
<1>13. Unread' = batch \o arrived
  <2>1. Held(reader') = <<>>
    BY <1>11 DEF Held
  <2>2. batch \o arrived \in Seq(Items)
    BY <1>1, BothTyped
  <2> QED BY <2>1, <2>2, Alone DEF Unread
<1>14. reader'.finished \/ reader'.waiting.kind = "Z"
            \/ (reader'.columns = 0 /\ reader'.call # "start") => generator = "done"
  BY <1>1, <1>3, <1>4, <1>11 DEF Ended, m
<1> QED BY <1>3, <1>9, <1>10, <1>11, <1>12, <1>13, <1>14, CallGoes

LEMMA NextGoes ==
    ASSUME OnCourse, nextResult
    PROVE  OnCourse' /\ Steps(reader, reader', results, stage = "over")
<1> DEFINE asked == [reader EXCEPT !.call = "next", !.answer = "none", !.row = NoRow,
                                   !.found = reader.pending > 0, !.pending = 0,
                                   !.draining = reader.pending = 0 /\ ~reader.complete]
           moved == IF reader.pending > 0
                    THEN [SetColumns(asked, reader.pending) EXCEPT !.complete = FALSE]
                    ELSE asked
<1>1. /\ Idle
      /\ UNCHANGED <<batch, generator, discard, begun, arrived, link, results, stage>>
  BY DEF nextResult, response
<1>2. Proceed(CASE reader.finished -> Answer([reader EXCEPT !.call = "next"], "over")
                [] reader.waiting # NoItem ->
                        NextItem([moved EXCEPT !.waiting = NoItem], reader.waiting)
                [] OTHER -> moved)
  BY DEF nextResult
<1>3. /\ Orderly(reader) /\ Ended /\ ~reader.closed /\ reader \in Readers
      /\ reader.pending \in Nat /\ reader.complete \in BOOLEAN
  BY <1>1, IdleKnows DEF Readers
<1>4. CASE reader.finished
  <2>1. reader.waiting = NoItem
    BY <1>3, <1>4 DEF Orderly
  <2>2. Proceed(Answer([reader EXCEPT !.call = "next"], "over"))
    BY <1>2, <1>4, <2>1
  <2> QED BY <1>1, <1>4, <2>2, NextFinishedGoes DEF Proceed
<1>5. CASE ~reader.finished /\ reader.pending > 0
  <2> DEFINE r == [reader EXCEPT !.call = "next", !.answer = "none", !.row = NoRow,
                                 !.found = TRUE, !.pending = 0, !.draining = FALSE,
                                 !.columns = reader.pending, !.shown = 0, !.complete = FALSE]
  <2>1. reader.waiting = NoItem
    BY <1>3, <1>5 DEF Orderly
  <2>2. moved = r
    <3>1. (reader.pending > 0) = TRUE /\ (reader.pending = 0 /\ ~reader.complete) = FALSE
      BY <1>3, <1>5
    <3>2. asked = [reader EXCEPT !.call = "next", !.answer = "none", !.row = NoRow,
                                 !.found = TRUE, !.pending = 0, !.draining = FALSE]
      BY <3>1
    <3>3. moved = [SetColumns(asked, reader.pending) EXCEPT !.complete = FALSE]
      BY <1>5
    <3> HIDE DEF asked, moved
    <3> QED BY <1>3, <3>2, <3>3 DEF SetColumns, Readers
  <2> HIDE DEF r, moved
  <2>3. Proceed(r)
    BY <1>2, <1>5, <2>1, <2>2
  <2> QED BY <1>1, <1>5, <2>3, NextMovesGoes DEF Proceed, r
<1>6. CASE ~reader.finished /\ ~(reader.pending > 0)
  <2> DEFINE r == [reader EXCEPT !.call = "next", !.answer = "none", !.row = NoRow,
                                 !.found = FALSE, !.pending = 0, !.draining = ~reader.complete]
  <2>1. moved = r
    <3>1. (reader.pending > 0) = FALSE
          /\ (reader.pending = 0 /\ ~reader.complete) = ~reader.complete
      BY <1>3, <1>6
    <3>2. moved = asked
      BY <1>6
    <3> QED BY <3>1, <3>2
  <2> HIDE DEF moved
  <2>2. CASE reader.waiting = NoItem
    <3>1. Proceed(r)
      BY <1>2, <1>6, <2>1, <2>2
    <3> HIDE DEF r
    <3> QED BY <1>1, <1>6, <2>2, <3>1, NextAsksGoes DEF Proceed, r
  <2>3. CASE reader.waiting # NoItem
    <3> DEFINE q == [reader EXCEPT !.call = "next", !.answer = "none", !.row = NoRow,
                                   !.found = FALSE, !.pending = 0,
                                   !.draining = ~reader.complete, !.waiting = NoItem]
    <3>1. [r EXCEPT !.waiting = NoItem] = q
      BY <1>3 DEF Readers
    <3>2. q \in Readers /\ Opens(q)
      <4>1. NoItem \in Items /\ NoRow \in Nat \X Nat /\ (~reader.complete) \in BOOLEAN
        BY DEF NoItem, Signal, Items, Kinds, NoRow
      <4>2. q \in Readers
        BY ZenonT(60), <1>3, <4>1 DEF Readers
      <4>3. Opens(q)
        BY <1>3, <4>1 DEF Readers, Opens
      <4> QED BY <4>2, <4>3
    <3> HIDE DEF r, q
    <3>3. Proceed(NextItem(q, reader.waiting))
      BY <1>2, <1>6, <2>1, <2>3, <3>1
    <3>4. /\ reader' = NextItem(q, reader.waiting)
          /\ requests' = IF reader'.call = "none" THEN requests ELSE Append(requests, "call")
      BY <3>3 DEF Proceed
    <3> QED BY <1>1, <2>3, <3>2, <3>4, NextWaitingGoes
  <2> QED BY <2>2, <2>3
<1> QED BY <1>4, <1>5, <1>6

-----------------------------------------------------------------------------
(* The server: a message more, and what it says of its results *)

Responds(res, new) ==
    \/ new = Append(res, [rows |-> 0, ended |-> FALSE])
    \/ /\ Len(res) > 0 /\ ~res[Len(res)].ended
       /\ \/ new = [res EXCEPT ![Len(res)].rows = @ + 1]
          \/ new = [res EXCEPT ![Len(res)].ended = TRUE]
    \/ new = res

LEMMA RespondsGrows ==
    ASSUME NEW res \in Results, NEW new, Responds(res, new)
    PROVE  new \in Results /\ Grows(res, new)
<1> DEFINE fresh == [rows |-> 0, ended |-> FALSE]
<1>1. Len(res) \in Nat /\ fresh \in [rows : Nat, ended : BOOLEAN]
  BY DEF Results
<1>2. CASE new = Append(res, fresh)
  <2> HIDE DEF fresh
  <2>1. /\ new \in Results /\ Len(new) = Len(res) + 1
        /\ \A k \in 1..Len(res) : new[k] = res[k]
    BY <1>1, <1>2 DEF Results
  <2> QED BY <1>1, <2>1 DEF Grows
<1>3. CASE Len(res) > 0 /\ ~res[Len(res)].ended
           /\ new = [res EXCEPT ![Len(res)].rows = @ + 1]
  <2>0. Len(res) \in 1..Len(res) /\ res \in Seq([rows : Nat, ended : BOOLEAN])
    BY <1>1, <1>3 DEF Results
  <2>1. res[Len(res)] \in [rows : Nat, ended : BOOLEAN]
    BY <2>0, ElementTyped
  <2> DEFINE e == [res[Len(res)] EXCEPT !.rows = @ + 1]
  <2>2. e \in [rows : Nat, ended : BOOLEAN] /\ res[Len(res)].rows <= e.rows
    BY <2>1
  <2>3. new = [res EXCEPT ![Len(res)] = e]
    BY <1>3
  <2> HIDE DEF e
  <2>4. /\ new \in Results /\ Len(new) = Len(res) /\ new[Len(res)] = e
        /\ \A k \in 1..Len(res) : k # Len(res) => new[k] = res[k]
    BY <2>0, <2>1, <2>2, <2>3 DEF Results
  <2> QED BY <1>1, <1>3, <2>2, <2>4 DEF Grows
<1>4. CASE Len(res) > 0 /\ ~res[Len(res)].ended
           /\ new = [res EXCEPT ![Len(res)].ended = TRUE]
  <2>0. Len(res) \in 1..Len(res) /\ res \in Seq([rows : Nat, ended : BOOLEAN])
    BY <1>1, <1>4 DEF Results
  <2>1. res[Len(res)] \in [rows : Nat, ended : BOOLEAN]
    BY <2>0, ElementTyped
  <2> DEFINE e == [res[Len(res)] EXCEPT !.ended = TRUE]
  <2>2. e \in [rows : Nat, ended : BOOLEAN] /\ res[Len(res)].rows <= e.rows
    <3>1. res[Len(res)].rows \in Nat /\ e.rows = res[Len(res)].rows
      BY <2>1
    <3>2. e \in [rows : Nat, ended : BOOLEAN]
      BY <2>1
    <3> HIDE DEF e
    <3> QED BY <3>1, <3>2
  <2>3. new = [res EXCEPT ![Len(res)] = e]
    BY <1>4
  <2> HIDE DEF e
  <2>4. /\ new \in Results /\ Len(new) = Len(res) /\ new[Len(res)] = e
        /\ \A k \in 1..Len(res) : k # Len(res) => new[k] = res[k]
    BY <2>0, <2>1, <2>2, <2>3 DEF Results
  <2> QED BY <1>1, <1>4, <2>2, <2>4 DEF Grows
<1>5. CASE new = res
  BY <1>1, <1>5 DEF Grows
<1> QED BY <1>2, <1>3, <1>4, <1>5 DEF Responds

\* The reader's place is the same in more results.
LEMMA RemembersStill ==
    ASSUME NEW r \in Readers, NEW c \in Places, NEW res \in Results, NEW new \in Results,
           Grows(res, new), c.set <= Len(res), AtPlace(r, c, res, "live")
    PROVE  AtPlace(r, c, new, "live")
<1>1. Len(res) \in Nat
  BY DEF Results
<1>2. Remembers(r, c, res)
  BY DEF AtPlace
<1>3. r.pending > 0 /\ ~r.failed => new[r.columns].rows = r.shown
  <2> SUFFICES ASSUME r.pending > 0, ~r.failed PROVE new[r.columns].rows = r.shown
    OBVIOUS
  <2>1. /\ c.set = r.pending /\ r.columns > 0 /\ r.pending = r.columns + 1
        /\ res[r.columns].rows = r.shown
    BY <1>2 DEF Remembers
  <2>2. r.columns \in 1..Len(res) /\ r.columns # Len(res)
    BY <1>1, <2>1 DEF Readers, Places
  <2> QED BY <2>1, <2>2 DEF Grows
<1>4. c.stage \in {"between", "over"} /\ c.set > 0 /\ ~r.failed => Whole(new, c)
  <2> SUFFICES ASSUME c.stage \in {"between", "over"}, c.set > 0, ~r.failed PROVE Whole(new, c)
    OBVIOUS
  <2>1. Whole(res, c)
    BY <1>2 DEF Remembers
  <2>2. c.set \in 1..Len(res)
    BY <1>1 DEF Places
  <2> QED BY <2>1, <2>2 DEF Grows, Whole
<1>5. Remembers(r, c, new)
  BY <1>2, <1>3, <1>4 DEF Remembers
<1> QED BY <1>5 DEF AtPlace

LEMMA OneJoined ==
    ASSUME NEW s \in Seq(Items), NEW t \in Seq(Items), NEW m \in Items
    PROVE  s \o Append(t, m) = Append(s \o t, m)
OBVIOUS

LEMMA OneMore ==
    ASSUME NEW s \in Seq(Items), NEW t \in Seq(Items), NEW u \in Seq(Items), NEW m \in Items
    PROVE  s \o (t \o Append(u, m)) = Append(s \o (t \o u), m)
<1>1. t \o Append(u, m) = Append(t \o u, m)
  BY OneJoined
<1>2. t \o u \in Seq(Items)
  BY BothTyped
<1>3. s \o Append(t \o u, m) = Append(s \o (t \o u), m)
  BY <1>2, OneJoined
<1> QED BY <1>1, <1>3

LEMMA ServerGoes ==
    ASSUME OnCourse, link = "up", UNCHANGED <<reader, source, link>>,
           NEW m \in Items, arrived' = Append(arrived, m),
           Responds(results, results'), stage' \in Stages,
           Allowed(results', There, m), There' = After(There, m), There.set <= There'.set,
           stage' \in {"described", "rows"} => Sets' > 0 /\ ~results'[Sets'].ended
    PROVE  OnCourse' /\ [Promise!Next]_(Promise!vars)
<1>1. /\ Typed /\ Orderly(reader) /\ Asked(reader, requests) /\ Discards /\ Ended
      /\ reader \in Readers /\ results \in Results /\ batch \in Seq(Items)
      /\ arrived \in Seq(Items) /\ There \in Places /\ There.stage = stage
      /\ There.set = Len(results)
  BY ThereTyped DEF OnCourse, Typed
<1>2. UNCHANGED <<generator, requests, batch, discard, begun>>
  BY DEF source
<1>3. generator = "live" /\ stage # "over"
  BY <1>1 DEF Ended, Allowed, Typed, OnCourse
<1>4. results' \in Results /\ Grows(results, results')
  BY <1>1, RespondsGrows
<1>5. There' \in Places
  <2>1. Len(results') \in Nat
    BY <1>4 DEF Results
  <2>2. There' = [set |-> There'.set, rows |-> There'.rows, stage |-> There'.stage]
        /\ There'.set = Len(results') /\ There'.stage = stage'
        /\ There'.rows = IF Len(results') = 0 THEN 0 ELSE results'[Len(results')].rows
    BY DEF There, Sets
  <2>3. There'.rows \in Nat
    <3>1. CASE Len(results') = 0
      BY <2>2, <3>1
    <3>2. CASE Len(results') # 0
      <4>1. Len(results') \in 1..Len(results')
        BY <2>1, <3>2
      <4>2. results'[Len(results')] \in [rows : Nat, ended : BOOLEAN]
        BY <1>4, <4>1, ElementTyped DEF Results
      <4> QED BY <2>2, <3>2, <4>2
    <3> QED BY <3>1, <3>2
  <2> QED BY <2>1, <2>2, <2>3 DEF Places
<1>6. OnPath'
  <2>1. PICK c \in Places :
          /\ Leads(c, Unread, results, There)
          /\ reader.columns <= c.set /\ reader.pending <= c.set
          /\ Tracked => AtPlace(reader, c, results, generator)
    BY DEF OnCourse, OnPath
  <2>2. Held(reader) \in Seq(Items) /\ Unread \in Seq(Items)
    BY <1>1, HeldTyped, BothTyped DEF Unread
  <2>3. Unread' = Append(Unread, m)
    <3>1. Held(reader) \o (batch \o Append(arrived, m)) = Append(Unread, m)
      BY SMTT(30), <1>1, <2>2, OneMore DEF Unread
    <3>2. Held(reader') = Held(reader) /\ batch' = batch
      BY <1>2
    <3> QED BY <3>1, <3>2 DEF Unread
  <2>4. Leads(c, Unread', results', There')
    BY <1>1, <1>4, <1>5, <2>1, <2>2, <2>3, LeadsOn
  <2>5. c.set <= Len(results)
    BY <1>1, <2>1, <2>2, LeadsForward
  <2>6. Tracked' => AtPlace(reader', c, results', generator')
    <3>1. AtPlace(reader, c, results, "live") => AtPlace(reader, c, results', "live")
      BY <1>1, <1>4, <2>5, RemembersStill
    <3> QED BY <1>2, <1>3, <2>1, <3>1 DEF Tracked
  <2> QED BY <2>1, <2>4, <2>6 DEF OnPath
<1>7. /\ Orderly(reader') /\ Asked(reader', requests') /\ Discards'
  BY <1>1, <1>2 DEF Discards
<1>8. Ended'
  BY <1>1, <1>2, <1>3 DEF Ended
<1>9. Typed'
  <2>1. arrived' \in Seq(Items)
    BY <1>1
  <2> QED BY <1>1, <1>2, <1>4, <2>1 DEF Typed
<1>10. Promise!Respond
  BY <1>3 DEF Promise!Respond, Promise!Last, Responds
<1> QED BY <1>6, <1>7, <1>8, <1>9, <1>10 DEF OnCourse, Promise!Next

LEMMA ServerKnows ==
    ASSUME OnCourse
    PROVE  /\ results \in Results /\ Len(results) \in Nat /\ Sets = Len(results)
           /\ There \in Places /\ There.set = Sets /\ There.stage = stage
           /\ There.rows = IF Sets = 0 THEN 0 ELSE results[Sets].rows
           /\ (Sets > 0 => results[Sets] \in [rows : Nat, ended : BOOLEAN])
           /\ (stage \in {"described", "rows"} => Sets > 0 /\ ~results[Sets].ended)
<1>1. Typed /\ Ended /\ results \in Results
  BY DEF OnCourse, Typed
<1>2. Len(results) \in Nat /\ Sets = Len(results) /\ results \in Seq([rows : Nat, ended : BOOLEAN])
  BY <1>1 DEF Results, Sets
<1>3. Sets > 0 => results[Sets] \in [rows : Nat, ended : BOOLEAN]
  <2>1. Sets > 0 => Sets \in 1..Len(results)
    BY <1>2
  <2> QED BY <1>2, <2>1, ElementTyped
<1>4. There \in Places /\ There.set = Sets /\ There.stage = stage
  BY <1>1, <1>2, ThereTyped
<1>5. There.rows = IF Sets = 0 THEN 0 ELSE results[Sets].rows
  BY DEF There
<1> QED BY <1>1, <1>2, <1>3, <1>4, <1>5 DEF Ended

LEMMA ThereNext ==
    There' = [set |-> Sets', rows |-> IF Sets' = 0 THEN 0 ELSE results'[Sets'].rows,
              stage |-> stage']
BY DEF There

LEMMA DescribeGoes ==
    ASSUME OnCourse, link = "up", UNCHANGED <<reader, source, link>>, Describe
    PROVE  OnCourse' /\ [Promise!Next]_(Promise!vars)
<1> DEFINE m == [kind |-> "T", index |-> 0, set |-> Sets + 1]
           fresh == [rows |-> 0, ended |-> FALSE]
<1>1. /\ results \in Results /\ Len(results) \in Nat /\ Sets = Len(results)
      /\ There \in Places /\ There.set = Sets /\ There.stage = stage
      /\ There.rows = IF Sets = 0 THEN 0 ELSE results[Sets].rows
      /\ (stage \in {"described", "rows"} => Sets > 0 /\ ~results[Sets].ended)
  BY ServerKnows
<1>2. /\ stage = "between" \/ (stage = "rows" /\ results[Sets].rows > 0)
      /\ arrived' = Append(arrived, m) /\ stage' = "described"
      /\ results' = Append(results, fresh)
  BY DEF Describe, Say
<1>3. m \in Items /\ m.kind = "T" /\ m.set = Sets + 1
  BY <1>1 DEF Items, Kinds, Messages
<1>4. /\ Len(results') = Sets + 1 /\ results'[Sets + 1] = fresh
      /\ \A k \in 1..Sets : results'[k] = results[k]
  <2> HIDE DEF fresh
  <2> QED BY <1>1, <1>2 DEF Results
<1>5. Sets' = Sets + 1
  BY <1>4 DEF Sets
<1>6. results'[Sets'].rows = 0 /\ ~results'[Sets'].ended /\ Sets' > 0 /\ Sets' # 0
  BY <1>1, <1>4, <1>5
<1> HIDE DEF m
<1>7. There' = After(There, m)
  BY <1>2, <1>3, <1>5, <1>6, ThereNext DEF After
<1>8. Allowed(results', There, m)
  <2>1. There.set > 0 => results'[There.set].rows = There.rows
    BY <1>1, <1>4
  <2>2. There.stage = "between" \/ (There.stage = "rows" /\ There.rows > 0)
    BY <1>1, <1>2
  <2> QED BY <1>1, <1>3, <1>4, <2>1, <2>2 DEF Allowed, Messages
<1>9. There.set <= There'.set
  BY <1>1, <1>3, <1>7 DEF After
<1>10. Responds(results, results') /\ stage' \in Stages
  BY <1>2 DEF Responds, Stages
<1> QED BY <1>2, <1>3, <1>6, <1>7, <1>8, <1>9, <1>10, ServerGoes

LEMMA DescribeStandardGoes ==
    ASSUME OnCourse, link = "up", UNCHANGED <<reader, source, link>>, DescribeStandard
    PROVE  OnCourse' /\ [Promise!Next]_(Promise!vars)
<1> DEFINE m == [kind |-> "X", index |-> 0, set |-> Sets]
<1>1. /\ results \in Results /\ Len(results) \in Nat /\ Sets = Len(results)
      /\ There \in Places /\ There.set = Sets /\ There.stage = stage
      /\ There.rows = IF Sets = 0 THEN 0 ELSE results[Sets].rows
      /\ (stage \in {"described", "rows"} => Sets > 0 /\ ~results[Sets].ended)
  BY ServerKnows
<1>2. /\ stage = "described" /\ arrived' = Append(arrived, m) /\ stage' = "rows"
      /\ results' = results
  BY DEF DescribeStandard, Say
<1>3. m \in Items /\ m.kind = "X" /\ m.set = Sets
  BY <1>1 DEF Items, Kinds, Messages
<1> HIDE DEF m
<1>4. Sets' = Sets
  BY <1>2 DEF Sets
<1>5. There' = After(There, m)
  BY <1>1, <1>2, <1>3, <1>4, ThereNext DEF After
<1>6. Allowed(results', There, m)
  BY <1>1, <1>2, <1>3 DEF Allowed, Messages
<1>7. There.set <= There'.set
  BY <1>1, <1>3, <1>5 DEF After
<1>8. Responds(results, results') /\ stage' \in Stages
  BY <1>2 DEF Responds, Stages
<1> QED BY <1>1, <1>2, <1>3, <1>4, <1>5, <1>6, <1>7, <1>8, ServerGoes

LEMMA SendRowGoes ==
    ASSUME OnCourse, link = "up", UNCHANGED <<reader, source, link>>, SendRow
    PROVE  OnCourse' /\ [Promise!Next]_(Promise!vars)
<1> DEFINE m == [kind |-> "D", index |-> results'[Sets].rows, set |-> Sets]
<1>1. /\ results \in Results /\ Len(results) \in Nat /\ Sets = Len(results)
      /\ There \in Places /\ There.set = Sets /\ There.stage = stage
      /\ There.rows = IF Sets = 0 THEN 0 ELSE results[Sets].rows
      /\ (Sets > 0 => results[Sets] \in [rows : Nat, ended : BOOLEAN])
      /\ (stage \in {"described", "rows"} => Sets > 0 /\ ~results[Sets].ended)
  BY ServerKnows
<1>2. /\ stage \in {"described", "rows"} /\ arrived' = Append(arrived, m) /\ stage' = "rows"
      /\ results' = [results EXCEPT ![Sets].rows = @ + 1]
  BY DEF SendRow, Say
<1>3. Sets > 0 /\ Sets \in 1..Len(results) /\ ~results[Sets].ended
      /\ results[Sets] \in [rows : Nat, ended : BOOLEAN]
  BY <1>1, <1>2
<1>4. /\ Len(results') = Len(results) /\ results'[Sets].rows = results[Sets].rows + 1
      /\ ~results'[Sets].ended
  <2> DEFINE e == [results[Sets] EXCEPT !.rows = @ + 1]
  <2>1. e.rows = results[Sets].rows + 1 /\ ~e.ended
    BY <1>3
  <2>2. results' = [results EXCEPT ![Sets] = e]
    BY <1>2
  <2> HIDE DEF e
  <2>3. Len(results') = Len(results) /\ results'[Sets] = e
    BY <1>1, <1>3, <2>2 DEF Results
  <2> QED BY <2>1, <2>3
<1>5. m \in Items /\ m.kind = "D" /\ m.set = Sets /\ m.index = results[Sets].rows + 1
  BY <1>1, <1>3, <1>4 DEF Items, Kinds, Messages
<1> HIDE DEF m
<1>6. Sets' = Sets
  BY <1>4 DEF Sets
<1>7. There' = After(There, m)
  BY <1>1, <1>2, <1>3, <1>4, <1>5, <1>6, ThereNext DEF After
<1>8. Allowed(results', There, m)
  <2>1. m.index <= results'[There.set].rows /\ m.index = There.rows + 1
    BY <1>1, <1>3, <1>4, <1>5
  <2> QED BY <1>1, <1>2, <1>3, <1>4, <1>5, <2>1 DEF Allowed, Messages
<1>9. There.set <= There'.set
  BY <1>1, <1>5, <1>7 DEF After
<1>10. Responds(results, results') /\ stage' \in Stages
  BY <1>1, <1>2, <1>3 DEF Responds, Stages
<1> QED BY <1>1, <1>2, <1>3, <1>4, <1>5, <1>6, <1>7, <1>8, <1>9, <1>10, ServerGoes

LEMMA CompleteGoes ==
    ASSUME OnCourse, link = "up", UNCHANGED <<reader, source, link>>, Complete
    PROVE  OnCourse' /\ [Promise!Next]_(Promise!vars)
<1> DEFINE m == [kind |-> "C", index |-> 0, set |-> 0]
<1>1. /\ results \in Results /\ Len(results) \in Nat /\ Sets = Len(results)
      /\ There \in Places /\ There.set = Sets /\ There.stage = stage
      /\ There.rows = IF Sets = 0 THEN 0 ELSE results[Sets].rows
      /\ (Sets > 0 => results[Sets] \in [rows : Nat, ended : BOOLEAN])
      /\ (stage \in {"described", "rows"} => Sets > 0 /\ ~results[Sets].ended)
  BY ServerKnows
<1>2. /\ arrived' = Append(arrived, m) /\ stage' = "between"
      /\ \/ /\ stage \in {"described", "rows"}
            /\ results' = [results EXCEPT ![Sets].ended = TRUE]
         \/ stage = "between" /\ results' = results
  BY DEF Complete, Say
<1>3. m \in Items /\ m.kind = "C"
  BY DEF Items, Kinds, Messages
<1> HIDE DEF m
<1>4. CASE stage \in {"described", "rows"} /\ results' = [results EXCEPT ![Sets].ended = TRUE]
  <2>1. Sets > 0 /\ Sets \in 1..Len(results) /\ ~results[Sets].ended
        /\ results[Sets] \in [rows : Nat, ended : BOOLEAN]
    BY <1>1, <1>4
  <2>2. /\ Len(results') = Len(results) /\ results'[Sets].rows = results[Sets].rows
        /\ results'[Sets].ended
    <3> DEFINE e == [results[Sets] EXCEPT !.ended = TRUE]
    <3>1. e.rows = results[Sets].rows /\ e.ended
      BY <2>1
    <3>2. results' = [results EXCEPT ![Sets] = e]
      BY <1>4
    <3> HIDE DEF e
    <3>3. Len(results') = Len(results) /\ results'[Sets] = e
      BY <1>1, <2>1, <3>2 DEF Results
    <3> QED BY <3>1, <3>3
  <2>3. Sets' = Sets
    BY <2>2 DEF Sets
  <2>4. There' = After(There, m)
    BY <1>1, <1>2, <1>3, <2>1, <2>2, <2>3, ThereNext DEF After
  <2>5. Allowed(results', There, m)
    BY <1>1, <1>3, <1>4, <2>1, <2>2 DEF Allowed, Messages, Whole
  <2>6. There.set <= There'.set
    BY <1>1, <1>3, <2>4 DEF After
  <2>7. Responds(results, results') /\ stage' \in Stages
    BY <1>1, <1>2, <1>4, <2>1 DEF Responds, Stages
  <2> QED BY <1>2, <1>3, <2>4, <2>5, <2>6, <2>7, ServerGoes
<1>5. CASE stage = "between" /\ results' = results
  <2>1. Sets' = Sets
    BY <1>5 DEF Sets
  <2>2. There' = After(There, m)
    BY <1>1, <1>2, <1>3, <1>5, <2>1, ThereNext DEF After
  <2>3. Allowed(results', There, m)
    BY <1>1, <1>3, <1>5 DEF Allowed, Messages
  <2>4. There.set <= There'.set
    BY <1>1, <1>3, <2>2 DEF After
  <2>5. Responds(results, results') /\ stage' \in Stages
    BY <1>2, <1>5 DEF Responds, Stages
  <2> QED BY <1>2, <1>3, <2>2, <2>3, <2>4, <2>5, ServerGoes
<1> QED BY <1>2, <1>4, <1>5

\* A notice, an error and the end leave the results as they are.
LEMMA ServerRemarks ==
    ASSUME OnCourse, link = "up", UNCHANGED <<reader, source, link, results>>, stage # "over",
           NEW kind \in {"N", "E", "Z", "L"},
           arrived' = Append(arrived, [kind |-> kind, index |-> 0, set |-> 0]),
           kind = "N" => stage' = stage,
           kind = "E" => stage # "failed" /\ stage' = "failed",
           kind \in {"Z", "L"} => stage \in {"between", "failed"} /\ stage' = "over"
    PROVE  OnCourse' /\ [Promise!Next]_(Promise!vars)
<1> DEFINE m == [kind |-> kind, index |-> 0, set |-> 0]
<1>1. /\ results \in Results /\ Len(results) \in Nat /\ Sets = Len(results)
      /\ There \in Places /\ There.set = Sets /\ There.stage = stage
      /\ There.rows = IF Sets = 0 THEN 0 ELSE results[Sets].rows
      /\ (stage \in {"described", "rows"} => Sets > 0 /\ ~results[Sets].ended)
  BY ServerKnows
<1>2. m \in Items /\ m.kind = kind
  BY DEF Items, Kinds, Messages
<1> HIDE DEF m
<1>3. Sets' = Sets
  BY DEF Sets
<1>4. There' = After(There, m)
  <2>1. /\ After(There, m).set = Sets
        /\ After(There, m).rows = IF Sets = 0 THEN 0 ELSE results[Sets].rows
        /\ After(There, m) = [set |-> After(There, m).set, rows |-> After(There, m).rows,
                              stage |-> After(There, m).stage]
    BY <1>1, <1>2 DEF After
  <2>2. After(There, m).stage = stage'
    BY <1>1, <1>2 DEF After
  <2> QED BY <1>3, <2>1, <2>2, ThereNext
<1>5. Allowed(results', There, m)
  BY <1>1, <1>2 DEF Allowed, Messages
<1>6. There.set <= There'.set
  BY <1>1, <1>2, <1>4 DEF After
<1>7. Responds(results, results') /\ stage' \in Stages
  <2>1. stage \in Stages
    BY DEF OnCourse, Typed
  <2> QED BY <2>1 DEF Responds, Stages
<1>8. stage' \in {"described", "rows"} => Sets' > 0 /\ ~results'[Sets'].ended
  BY <1>1, <1>3
<1> QED BY <1>2, <1>4, <1>5, <1>6, <1>7, <1>8, ServerGoes DEF m

LEMMA ServerStep ==
    ASSUME OnCourse, Server
    PROVE  OnCourse' /\ [Promise!Next]_(Promise!vars)
<1>1. link = "up" /\ UNCHANGED <<reader, source, link>>
  BY DEF Server
<1>2. CASE Describe
  BY <1>1, <1>2, DescribeGoes
<1>3. CASE DescribeStandard
  BY <1>1, <1>3, DescribeStandardGoes
<1>4. CASE SendRow
  BY <1>1, <1>4, SendRowGoes
<1>5. CASE Complete
  BY <1>1, <1>5, CompleteGoes
<1>6. CASE Remark
  <2>1. /\ stage # "over" /\ results' = results /\ stage' = stage
        /\ arrived' = Append(arrived, [kind |-> "N", index |-> 0, set |-> 0])
    BY <1>6 DEF Remark, Say
  <2> QED BY <1>1, <2>1, ServerRemarks
<1>7. CASE End
  <2>1. results' = results
    BY <1>7 DEF End
  <2>2. CASE stage \notin {"over", "failed"} /\ Say("E", 0, "failed")
    <3>1. /\ stage # "over" /\ stage # "failed" /\ stage' = "failed"
          /\ arrived' = Append(arrived, [kind |-> "E", index |-> 0, set |-> 0])
      BY <2>2 DEF Say
    <3> QED BY <1>1, <2>1, <3>1, ServerRemarks
  <2>3. CASE \E last \in {"Z", "L"} : stage \in {"between", "failed"} /\ Say(last, 0, "over")
    <3>1. PICK last \in {"Z", "L"} : stage \in {"between", "failed"} /\ Say(last, 0, "over")
      BY <2>3
    <3>2. /\ stage # "over" /\ stage \in {"between", "failed"} /\ stage' = "over"
          /\ arrived' = Append(arrived, [kind |-> last, index |-> 0, set |-> 0])
      BY <3>1 DEF Say
    <3> QED BY <1>1, <2>1, <3>1, <3>2, ServerRemarks
  <2> QED BY <1>7, <2>2, <2>3 DEF End
<1> QED BY <1>2, <1>3, <1>4, <1>5, <1>6, <1>7 DEF Server

-----------------------------------------------------------------------------
(* Each step *)

\* The reader's own steps leave the results of the server alone.
LEMMA ReaderStep ==
    ASSUME OnCourse, Application \/ Generator
    PROVE  /\ OnCourse' /\ Steps(reader, reader', results, stage = "over")
           /\ UNCHANGED <<results, stage>>
<1>1. CASE read
  BY <1>1, ReadGoes DEF read, response
<1>2. CASE nextResult
  BY <1>2, NextGoes DEF nextResult, response
<1>3. CASE close
  <2>1. UNCHANGED <<results, stage>>
    BY <1>3 DEF close, response
  <2> QED BY <1>3, <2>1, CloseFinished, CloseDrains
<1>4. CASE YieldCached
  BY <1>4, YieldCachedGoes DEF YieldCached, Yield, response
<1>5. CASE YieldRow
  BY <1>5, YieldRowGoes DEF YieldRow, Yield, response
<1>6. CASE DiscardRow
  <2>1. reader' = reader /\ UNCHANGED <<results, stage>>
    BY <1>6 DEF DiscardRow, response
  <2>2. GivesUp(reader, reader')
    BY <2>1 DEF GivesUp, SamePlace
  <2> QED BY <1>6, <2>1, <2>2, DiscardRowGoes DEF Steps
<1>7. CASE YieldMessage
  BY <1>7, YieldMessageGoes DEF YieldMessage, Yield, response
<1>8. CASE ReadFails
  BY <1>8, ReadFailsGoes DEF ReadFails, Yield, response
<1>9. CASE AfterEnd
  BY <1>9, AfterEndGoes DEF AfterEnd, Yield, response
<1> QED BY <1>1, <1>2, <1>3, <1>4, <1>5, <1>6, <1>7, <1>8, <1>9 DEF Application, Generator

LEMMA OnCourseKept ==
    ASSUME OnCourse, [Next]_vars
    PROVE  OnCourse' /\ [Promise!Next]_(Promise!vars)
<1>1. CASE Application \/ Generator
  <2>1. /\ OnCourse' /\ Steps(reader, reader', results, stage = "over")
        /\ UNCHANGED <<results, stage>>
    BY <1>1, ReaderStep
  <2>2. reader \in Readers /\ results \in Results /\ reader' \in Readers
    BY <2>1 DEF OnCourse, Typed
  <2> QED BY <2>1, <2>2, StepsPromised
<1>2. CASE Server
  BY <1>2, ServerStep
<1>3. CASE LinkDies \/ UNCHANGED vars
  <2>1. /\ UNCHANGED <<reader, generator, requests, batch, discard, begun, arrived, results, stage>>
        /\ link' = link \/ link' = "down"
    BY <1>3 DEF LinkDies, vars, source, response
  <2>2. /\ Typed /\ Orderly(reader) /\ Asked(reader, requests) /\ Discards /\ Ended /\ OnPath
    BY DEF OnCourse
  <2>3. Typed' /\ Orderly(reader') /\ Asked(reader', requests') /\ Discards'
    BY <2>1, <2>2 DEF Typed, Discards
  <2>4. Ended'
    BY <2>1, <2>2 DEF Ended, Sets
  <2>5. Unread' = Unread /\ There' = There /\ (Tracked' <=> Tracked)
    BY <2>1 DEF Unread, There, Sets, Tracked
  <2>6. OnPath'
    BY <2>1, <2>2, <2>5 DEF OnPath
  <2>7. UNCHANGED Promise!vars
    BY <2>1 DEF Promise!vars
  <2> QED BY <2>3, <2>4, <2>6, <2>7 DEF OnCourse
<1> QED BY <1>1, <1>2, <1>3 DEF Next

LEMMA OnCourseInit ==
    ASSUME Init
    PROVE  OnCourse /\ Promise!Init
<1>1. NoItem \in Items /\ NoItem.kind = "none" /\ NoRow \in Nat \X Nat /\ NoRow = <<0, 0>>
  BY DEF NoItem, Signal, Items, Kinds, NoRow
<1>2. /\ reader \in Readers /\ reader.columns = 0 /\ reader.pending = 0 /\ ~reader.complete
      /\ ~reader.finished /\ ~reader.closed /\ reader.waiting = NoItem /\ reader.shown = 0
      /\ reader.call = "start" /\ ~reader.closing /\ ~reader.failed /\ reader.answer = "none"
      /\ reader.row = NoRow
  BY <1>1 DEF Init, Readers
<1>3. /\ generator = "live" /\ requests = <<"call">> /\ batch = <<>> /\ ~discard /\ ~begun
      /\ arrived = <<>> /\ results = <<>> /\ stage = "between"
  BY DEF Init
<1>4. Sets = 0 /\ There = [set |-> 0, rows |-> 0, stage |-> "between"] /\ There \in Places
  BY <1>3 DEF Sets, There, Places, Stages
<1>5. Typed
  <2>1. batch \in Seq(Items) /\ arrived \in Seq(Items) /\ results \in Results
    BY <1>3 DEF Results
  <2> QED BY <1>2, <1>3, <2>1 DEF Typed, Stages
<1>6. Orderly(reader) /\ Asked(reader, requests)
  BY <1>2, <1>3 DEF Orderly, Asked
<1>7. Discards /\ Ended
  <2>1. \A i \in 1..Len(batch) : batch[i].kind = "D"
    BY <1>3
  <2> QED BY <1>1, <1>2, <1>3, <2>1 DEF Discards, Ended
<1>8. OnPath
  <2>1. Unread = <<>>
    BY <1>2, <1>3, NothingUnread
  <2>2. Leads(There, Unread, results, There)
    BY <1>4, <2>1, LeadsHere
  <2>3. AtPlace(reader, There, results, generator)
    BY <1>2, <1>4 DEF AtPlace, Remembers
  <2> QED BY <1>2, <1>4, <2>2, <2>3 DEF OnPath
<1>9. Promise!Init
  BY <1>1, <1>2, <1>3 DEF Promise!Init, Promise!NoRow
<1> QED BY <1>5, <1>6, <1>7, <1>8, <1>9 DEF OnCourse

\* NzDataReader implements the promise of Cursor.  Whatever the server sends, however
\* much of it has been decoded ahead, and wherever close(), an error or the end of the
\* connection falls: read() shows the rows of a set in order, one by one, under its
\* columns, and says that there are no more only when all have been shown; only
\* nextResult() goes on to the next set, and no set that has columns is passed over.
THEOREM ReaderImplementsCursor == Spec => ImplementsCursor
<1>1. Init => OnCourse /\ Promise!Init
  BY OnCourseInit
<1>2. OnCourse /\ [Next]_vars => OnCourse' /\ [Promise!Next]_(Promise!vars)
  BY OnCourseKept
<1> QED BY <1>1, <1>2, PTL DEF Spec, ImplementsCursor, Promise!Spec
=============================================================================
