-------------------------------- MODULE Cursor --------------------------------
(***************************************************************************)
(* What a data reader promises: a cursor over the result sets of one       *)
(* response.  Each read shows the next row of the current set or says that *)
(* it has no more; only a call that asks for it goes to the next set, and  *)
(* it says there is none only when there is none.  After an error or       *)
(* close() the cursor may give up, but still shows no wrong row.           *)
(***************************************************************************)
EXTENDS Naturals, Sequences

VARIABLES
    results,    \* the result sets known so far: how many rows, all of them?
    over,       \* has the server ended the response?
    set,        \* the current result set, 0 before the first one
    pos,        \* its rows shown so far
    row,        \* the current row, <<set, number>>
    moving,     \* is a call in progress that asks for the next set?
    answer,     \* of the last call, "none" while it is in progress
    usable      \* FALSE after an error, the end, or close()

vars == <<results, over, set, pos, row, moving, answer, usable>>

NoRow == <<0, 0>>
Last == Len(results)
\* Nothing follows the rows shown of the current set.
Exhausted ==
    IF set = 0 THEN over /\ Last = 0
    ELSE pos = results[set].rows /\ (set < Last \/ results[set].ended)

Init ==
    /\ results = <<>> /\ over = FALSE
    /\ set = 0 /\ pos = 0 /\ row = NoRow
    /\ moving = TRUE /\ answer = "none" /\ usable = TRUE

Respond ==
    /\ ~over
    /\ \/ results' = Append(results, [rows |-> 0, ended |-> FALSE])
       \/ /\ Last > 0 /\ ~results[Last].ended
          /\ \/ results' = [results EXCEPT ![Last].rows = @ + 1]
             \/ results' = [results EXCEPT ![Last].ended = TRUE]
       \/ UNCHANGED results
    /\ over' \in BOOLEAN
    /\ UNCHANGED <<set, pos, row, moving, answer, usable>>

Ask ==
    /\ moving' \in BOOLEAN
    /\ answer' = "none"
    /\ row' \in {row, NoRow}
    /\ UNCHANGED <<results, over, set, pos, usable>>

ShowRow ==
    /\ ~moving /\ set > 0 /\ pos < results[set].rows
    /\ pos' = pos + 1 /\ row' = <<set, pos'>>
    /\ answer' = "row"
    /\ UNCHANGED <<results, over, set, moving, usable>>

\* No more rows in this set.
End ==
    /\ ~moving
    /\ usable => Exhausted
    /\ answer' = "end" /\ row' \in {row, NoRow}
    /\ usable' \in {usable, usable /\ ~(over /\ set = Last)}
    /\ UNCHANGED <<results, over, set, pos, moving>>

Move ==
    /\ moving' /\ set' \in set + 1..Last
    /\ usable => set' = set + 1
    /\ pos' = 0 /\ row' = NoRow
    /\ answer' = "none"
    /\ UNCHANGED <<results, over, usable>>

Found ==
    /\ moving /\ set > 0
    /\ usable => pos = 0
    /\ moving' = FALSE /\ answer' = "set"
    /\ UNCHANGED <<results, over, set, pos, row, usable>>

\* No more result sets.
NotFound ==
    /\ usable => over /\ set = Last
    /\ moving' = FALSE /\ answer' = "over" /\ usable' \in {usable, FALSE}
    /\ row' \in {row, NoRow}
    /\ UNCHANGED <<results, over, set, pos>>

Fail ==
    /\ moving' = FALSE /\ answer' = "error" /\ usable' = FALSE
    /\ UNCHANGED <<results, over, set, pos, row>>

Close ==
    /\ usable' = FALSE
    /\ UNCHANGED <<results, over, set, pos, row, moving, answer>>

Next ==
    \/ Respond \/ Ask \/ ShowRow \/ End \/ Move \/ Found \/ NotFound \/ Fail \/ Close

Spec == Init /\ [][Next]_vars
===============================================================================
