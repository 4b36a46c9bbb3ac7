----------------------------- MODULE NzDataReader -----------------------------
(***************************************************************************)
(* src/NzDataReader.ts over the response generator of src/NzConnection.ts, *)
(* from executeReader() to close(), for one response.                      *)
(*                                                                         *)
(* The reader takes items from two places: the generator, an async queue   *)
(* of requests that read(), nextResult() and close() may have outstanding  *)
(* at the same time, and the rows the generator has decoded ahead.  A      *)
(* handler is an operator from a reader and an item to a reader; one that  *)
(* leaves the call unanswered asks the generator again.  The server is     *)
(* external.                                                               *)
(***************************************************************************)
EXTENDS Integers, Sequences, SequencesExt

CONSTANTS
    MaxSets,    \* bound: result sets in the response
    MaxRows,    \* bound: rows of one
    MaxOthers   \* bound: notices and statements without rows

ASSUME BoundsAssumption == MaxSets \in Nat /\ MaxRows \in Nat /\ MaxOthers \in Nat

\* Messages of the server: T RowDescription, X RowDescriptionStandard, D a row,
\* C CommandComplete, N NoticeResponse, E ErrorResponse, Z ReadyForQuery and L
\* its alternative, which the generator does not pass on.  "end" is a finished
\* generator, "throw" one that throws.
Messages == {"T", "X", "D", "C", "N", "E", "Z", "L"}
Item == [kind : Messages \cup {"none", "end", "throw"}, set : 0..MaxSets, index : 0..MaxRows]
Signal(kind) == [kind |-> kind, set |-> 0, index |-> 0]
NoItem == Signal("none")
NoRow == <<0, 0>>

VARIABLES
    reader,     \* the private fields of NzDataReader and its calls
    generator,  \* "live" or "done"
    requests,   \* who waits for the next item of the generator: "call" or "close"
    batch,      \* _batchRowCache from _batchRowCacheIndex on
    discard,    \* _discardRows
    begun,      \* does the generator read a row it will not discard?
    arrived,    \* messages received and not yet read
    link,       \* "up" or "down"
    results,    \* result sets the server has sent, see Cursor
    stage,      \* what the server may send next
    others

response == <<results, stage, others>>
source == <<generator, requests, batch, discard, begun>>
vars == <<reader, source, arrived, link, response>>

\* call, found, draining: the call in progress and the locals of nextResult();
\* shown: rows of the current set read() has shown (history); lock: has
\* releaseCallback still to be called?
Reader == [
    columns : 0..MaxSets,       \* columnDescriptions, by their result set
    pending : 0..MaxSets,       \* _pendingColumns, 0 for null
    complete : BOOLEAN,         \* _resultComplete
    finished : BOOLEAN,         \* _isFinished
    closed : BOOLEAN,
    waiting : Item,             \* _nextItem
    row : (0..MaxSets) \X (0..MaxRows),     \* currentRow
    shown : 0..MaxRows,
    call : {"none", "start", "read", "next"},
    found : BOOLEAN,
    draining : BOOLEAN,
    closing : BOOLEAN,
    failed : BOOLEAN,
    answer : {"none", "row", "end", "set", "over", "error"},
    lock : BOOLEAN]

\* The state is well typed, and only rows are decoded ahead.
TypeOK ==
    /\ reader \in Reader
    /\ generator \in {"live", "done"}
    /\ requests \in Seq({"call", "close"}) /\ Len(requests) <= 2
    /\ batch \in Seq(Item) /\ \A i \in DOMAIN batch : batch[i].kind = "D"
    /\ discard \in BOOLEAN /\ begun \in BOOLEAN
    /\ arrived \in Seq(Item)
    /\ link \in {"up", "down"}
    /\ results \in Seq([rows : 0..MaxRows, ended : BOOLEAN]) /\ Len(results) <= MaxSets
    /\ stage \in {"between", "described", "rows", "failed", "over"}
    /\ others \in 0..MaxOthers

\* _doExecuteReader() has sent the query and asks for the first item.
Init ==
    /\ reader = [columns |-> 0, pending |-> 0, complete |-> FALSE, finished |-> FALSE,
                 closed |-> FALSE, waiting |-> NoItem, row |-> NoRow, shown |-> 0,
                 call |-> "start", found |-> FALSE, draining |-> FALSE, closing |-> FALSE,
                 failed |-> FALSE, answer |-> "none", lock |-> TRUE]
    /\ generator = "live" /\ requests = <<"call">>
    /\ batch = <<>> /\ discard = FALSE /\ begun = FALSE
    /\ arrived = <<>> /\ link = "up"
    /\ results = <<>> /\ stage = "between" /\ others = 0

-----------------------------------------------------------------------------
\* Handlers.

Answer(r, what) == [r EXCEPT !.call = "none", !.answer = what]
Throw(r) == Answer([r EXCEPT !.failed = TRUE], "error")
SetColumns(r, set) == [r EXCEPT !.columns = set, !.shown = 0, !.row = NoRow]
MarkFinished(r) == [r EXCEPT !.finished = TRUE, !.waiting = NoItem, !.lock = FALSE]

\* The loop of _doExecuteReader: columns, then the first item after them; an
\* error is thrown when the response has been read to its end.
StartItem(r, item) ==
    CASE item.kind = "T" -> SetColumns(r, item.set)
      [] item.kind \in {"D", "C", "Z"} /\ ~r.failed /\ r.columns > 0 ->
            Answer([r EXCEPT !.waiting = item], "set")
      [] item.kind = "E" -> [r EXCEPT !.failed = TRUE]
      [] item.kind = "end" /\ ~r.failed -> Answer(r, "over")
      [] item.kind = "throw" \/ (item.kind = "end" /\ r.failed) -> Throw(MarkFinished(r))
      [] OTHER -> r

\* _markFinished() in _readFromGenerator, and its return.
ReadEndsUnanswered(r) == MarkFinished(r)
ReadEnds(r) == Answer([MarkFinished(r) EXCEPT !.row = NoRow], "end")

\* The loop of _readFromGenerator.
ReadItem(r, item) ==
    CASE item.kind = "D" ->
            Answer([r EXCEPT !.row = <<item.set, item.index>>, !.shown = @ + 1], "row")
      [] item.kind \in {"T", "X"} ->
            Answer([r EXCEPT !.pending = item.set, !.row = NoRow], "end")
      [] item.kind = "C" -> Answer([r EXCEPT !.complete = TRUE, !.row = NoRow], "end")
      [] item.kind \in {"E", "throw"} -> Throw(r)
      [] item.kind \in {"Z", "end"} -> ReadEnds(r)
      [] OTHER -> r

\* The loop of nextResult().
NextItem(r, item) ==
    CASE item.kind = "T" ->
            [SetColumns(r, item.set) EXCEPT !.draining = FALSE, !.found = TRUE,
                                            !.complete = FALSE]
      [] item.kind = "X" ->
            IF r.draining THEN [r EXCEPT !.row = NoRow]
            ELSE [r EXCEPT !.row = NoRow, !.found = TRUE, !.complete = FALSE]
      [] item.kind = "D" /\ r.found /\ ~r.draining -> Answer([r EXCEPT !.waiting = item], "set")
      [] item.kind = "C" /\ r.draining -> [r EXCEPT !.draining = FALSE, !.complete = TRUE]
      [] item.kind = "C" /\ ~r.draining /\ r.found -> Answer([r EXCEPT !.complete = TRUE], "set")
      [] item.kind \in {"E", "throw"} -> Throw(r)
      [] item.kind \in {"Z", "end"} -> Answer(MarkFinished(r), "over")
      [] OTHER -> r

\* The loop of close().
CloseItemKept(r, item) ==
    CASE item.kind \in {"Z", "end"} -> [r EXCEPT !.closing = FALSE, !.lock = FALSE]
      [] item.kind = "throw" -> [r EXCEPT !.closing = FALSE]
      [] OTHER -> r
CloseItem(r, item) ==
    IF item.kind \in {"Z", "end", "throw"}
    THEN [r EXCEPT !.closing = FALSE, !.lock = FALSE]
    ELSE r

-----------------------------------------------------------------------------
\* Calls of the application.  read() and nextResult() wait for each other.

Idle == reader.call = "none" /\ ~reader.closed

\* The call goes on with the generator unless it is answered.
Proceed(r) ==
    /\ reader' = r
    /\ requests' = IF r.call = "none" THEN requests ELSE Append(requests, "call")

readUnordered ==
    /\ Idle
    /\ IF batch # <<>> /\ ~reader.finished
       THEN /\ reader' = ReadItem(reader, Head(batch))
            /\ batch' = Tail(batch)
            /\ UNCHANGED requests
       ELSE LET asked == [reader EXCEPT !.call = "read", !.answer = "none"] IN
            /\ Proceed(CASE reader.finished \/ reader.complete \/ reader.pending > 0 ->
                                Answer(asked, "end")
                         [] reader.waiting # NoItem ->
                                ReadItem([asked EXCEPT !.waiting = NoItem], reader.waiting)
                         [] OTHER -> asked)
            /\ UNCHANGED batch
    /\ UNCHANGED <<generator, discard, begun, arrived, link, response>>

\* read(): rows decoded ahead are taken past the generator unless an item waits.
read ==
    /\ Idle
    /\ IF batch # <<>> /\ reader.waiting = NoItem /\ ~reader.finished
       THEN /\ reader' = ReadItem(reader, Head(batch))
            /\ batch' = Tail(batch)
            /\ UNCHANGED requests
       ELSE LET asked == [reader EXCEPT !.call = "read", !.answer = "none"] IN
            /\ Proceed(CASE reader.finished \/ reader.complete \/ reader.pending > 0 ->
                                Answer(asked, "end")
                         [] reader.waiting # NoItem ->
                                ReadItem([asked EXCEPT !.waiting = NoItem], reader.waiting)
                         [] OTHER -> asked)
            /\ UNCHANGED batch
    /\ UNCHANGED <<generator, discard, begun, arrived, link, response>>

nextResult ==
    /\ Idle
    /\ LET asked == [reader EXCEPT !.call = "next", !.answer = "none", !.row = NoRow,
                                   !.found = reader.pending > 0, !.pending = 0,
                                   !.draining = reader.pending = 0 /\ ~reader.complete]
           moved == IF reader.pending > 0
                    THEN [SetColumns(asked, reader.pending) EXCEPT !.complete = FALSE]
                    ELSE asked IN
       Proceed(CASE reader.finished -> Answer([reader EXCEPT !.call = "next"], "over")
                 [] reader.waiting # NoItem ->
                        NextItem([moved EXCEPT !.waiting = NoItem], reader.waiting)
                 [] OTHER -> moved)
    /\ UNCHANGED <<generator, batch, discard, begun, arrived, link, response>>

closeEarly ==
    /\ ~reader.closed /\ reader.call # "start"
    /\ reader' = [reader EXCEPT !.closed = TRUE, !.lock = FALSE]
    /\ UNCHANGED <<source, arrived, link, response>>

\* close(), also while read() or nextResult() waits: what is left of the
\* response is read, its rows are skipped, except one the generator is reading.
close ==
    /\ ~reader.closed /\ reader.call # "start"
    /\ IF reader.finished
       THEN /\ reader' = [reader EXCEPT !.closed = TRUE, !.lock = FALSE]
            /\ UNCHANGED source
       ELSE /\ reader' = [reader EXCEPT !.closed = TRUE, !.closing = TRUE]
            /\ discard' = TRUE /\ batch' = <<>>
            /\ begun' \in {FALSE, requests # <<>>}
            /\ requests' = Append(requests, "close")
            /\ UNCHANGED generator
    /\ UNCHANGED <<arrived, link, response>>

-----------------------------------------------------------------------------
\* The generator.

\* The first request gets the item; its loop may ask again.
Yield(item) ==
    LET who == Head(requests)
        r == IF who = "close" THEN CloseItem(reader, item)
             ELSE CASE reader.call = "start" -> StartItem(reader, item)
                    [] reader.call = "read" -> ReadItem(reader, item)
                    [] OTHER -> NextItem(reader, item)
        again == IF who = "close" THEN r.closing ELSE r.call # "none" IN
    /\ requests # <<>>
    /\ reader' = r
    /\ requests' = IF again THEN Append(Tail(requests), who) ELSE Tail(requests)
    /\ UNCHANGED <<discard, link, response>>

\* Rows decoded ahead come first.
YieldCached ==
    /\ batch # <<>>
    /\ batch' = Tail(batch)
    /\ Yield(Head(batch))
    /\ UNCHANGED <<generator, begun, arrived>>

\* _tryReadDataRowBatch and _tryReadDbosBatch: n rows follow, and are complete.
BatchRows(n) ==
    /\ n < Len(arrived)
    /\ \A i \in 2..n + 1 : arrived[i].kind = "D"

NextMessage == generator = "live" /\ batch = <<>> /\ requests # <<>> /\ arrived # <<>>

\* A row is yielded together with the complete rows behind it in the buffer.
YieldRow ==
    /\ NextMessage /\ Head(arrived).kind = "D"
    /\ ~discard \/ begun
    /\ begun' = FALSE
    /\ \E n \in 0..MaxRows :
        /\ BatchRows(n)
        /\ batch' = SubSeq(arrived, 2, n + 1)
        /\ arrived' = SubSeq(arrived, n + 2, Len(arrived))
    /\ Yield(Head(arrived))
    /\ UNCHANGED generator

\* ... or skipped by its length.
DiscardRow ==
    /\ NextMessage /\ Head(arrived).kind = "D"
    /\ discard /\ ~begun
    /\ arrived' = Tail(arrived)
    /\ UNCHANGED <<reader, source, link, response>>

\* The other messages; the last one completes the generator.
YieldMessage ==
    /\ NextMessage /\ Head(arrived).kind # "D"
    /\ arrived' = Tail(arrived)
    /\ begun' = FALSE
    /\ generator' = IF Head(arrived).kind \in {"Z", "L"} THEN "done" ELSE "live"
    /\ Yield(IF Head(arrived).kind = "L" THEN Signal("end") ELSE Head(arrived))
    /\ UNCHANGED batch

\* The connection is lost, and nothing more can be read.
ReadFails ==
    /\ generator = "live" /\ batch = <<>> /\ arrived = <<>> /\ link = "down"
    /\ generator' = "done" /\ begun' = FALSE
    /\ Yield(Signal("throw"))
    /\ UNCHANGED <<batch, arrived>>

\* A generator that has ended or thrown has no more items.
AfterEnd ==
    /\ generator = "done" /\ batch = <<>>
    /\ Yield(Signal("end"))
    /\ UNCHANGED <<generator, batch, begun, arrived>>

-----------------------------------------------------------------------------
\* The server.

Sets == Len(results)
Say(kind, index, then) ==
    /\ arrived' = Append(arrived, [kind |-> kind, index |-> index,
                                   set |-> IF kind = "T" THEN Sets + 1
                                           ELSE IF kind \in {"X", "D"} THEN Sets ELSE 0])
    /\ stage' = then

\* A new result set; one that has rows may follow another without its
\* CommandComplete.
Describe ==
    /\ stage = "between" \/ (stage = "rows" /\ results[Sets].rows > 0)
    /\ Sets < MaxSets
    /\ Say("T", 0, "described")
    /\ results' = Append(results, [rows |-> 0, ended |-> FALSE])
    /\ UNCHANGED others

DescribeStandard ==
    /\ stage = "described"
    /\ Say("X", 0, "rows")
    /\ UNCHANGED <<results, others>>

SendRow ==
    /\ stage \in {"described", "rows"} /\ results[Sets].rows < MaxRows
    /\ results' = [results EXCEPT ![Sets].rows = @ + 1]
    /\ Say("D", results'[Sets].rows, "rows")
    /\ UNCHANGED others

Complete ==
    /\ \/ /\ stage \in {"described", "rows"}
          /\ results' = [results EXCEPT ![Sets].ended = TRUE] /\ UNCHANGED others
       \/ /\ stage = "between" /\ others < MaxOthers
          /\ others' = others + 1 /\ UNCHANGED results
    /\ Say("C", 0, "between")

Remark ==
    /\ stage # "over" /\ others < MaxOthers
    /\ Say("N", 0, stage)
    /\ others' = others + 1 /\ UNCHANGED results

End ==
    /\ \/ stage \notin {"over", "failed"} /\ Say("E", 0, "failed")
       \/ \E last \in {"Z", "L"} : stage \in {"between", "failed"} /\ Say(last, 0, "over")
    /\ UNCHANGED <<results, others>>

Server ==
    /\ link = "up"
    /\ Describe \/ DescribeStandard \/ SendRow \/ Complete \/ Remark \/ End
    /\ UNCHANGED <<reader, source, link>>

LinkDies ==
    /\ link = "up" /\ link' = "down"
    /\ UNCHANGED <<reader, source, arrived, response>>

-----------------------------------------------------------------------------

Generator ==
    YieldCached \/ YieldRow \/ DiscardRow \/ YieldMessage \/ ReadFails \/ AfterEnd
Application == read \/ nextResult \/ close

Next == Application \/ Generator \/ Server \/ LinkDies

Spec == Init /\ [][Next]_vars

\* What has arrived is read when it is asked for, and the server goes on.
FairSpec == Spec /\ WF_vars(Generator) /\ WF_vars(Server)

-----------------------------------------------------------------------------
\* Properties.

Promise == INSTANCE Cursor WITH
    over <- stage = "over",
    set <- reader.columns,
    pos <- reader.shown,
    row <- reader.row,
    moving <- reader.call \in {"start", "next"},
    answer <- reader.answer,
    usable <- ~(reader.failed \/ reader.closed \/ reader.finished)

\* The reader implements the promise of Cursor: rows from both sources come in
\* order, under the columns of their set, none is lost before a call says that
\* there are no more, and nextResult() finds each result set.
ImplementsCursor == Promise!Spec

\* The connection is given back for its next command only when the response
\* has been read to its end, or cannot be read any more.
LockKept == ~reader.lock => generator = "done"

\* Each call is answered, whatever else asks the generator, and a reader that is
\* closed gives its connection back.
CallsAnswered ==
    /\ reader.call # "none" ~> reader.call = "none"
    /\ reader.closed ~> ~reader.lock
===============================================================================
