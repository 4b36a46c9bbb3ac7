------------------------------ MODULE ByteQueue -------------------------------
(***************************************************************************)
(* What a reader of a byte stream may see: the bytes sent, once each and   *)
(* in order.  Bytes arrive at the end of the queue and leave it at the     *)
(* front; nothing else happens to it.                                      *)
(***************************************************************************)
EXTENDS Naturals, Sequences

VARIABLES
    sent,           \* the bytes the peer sends, fixed from the start
    arrived,        \* how many of them have arrived
    queue           \* those that have arrived and are unread

vars == <<sent, arrived, queue>>

Init == arrived = 0 /\ queue = <<>>

Arrive ==
    /\ arrived' \in arrived + 1 .. Len(sent)
    /\ queue' = queue \o SubSeq(sent, arrived + 1, arrived')
    /\ UNCHANGED sent

Take ==
    /\ \E n \in 1 .. Len(queue) : queue' = SubSeq(queue, n + 1, Len(queue))
    /\ UNCHANGED <<sent, arrived>>

Next == Arrive \/ Take

Spec == Init /\ [][Next]_vars
=============================================================================
