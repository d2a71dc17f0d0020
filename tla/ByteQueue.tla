----------------------------- MODULE ByteQueue ------------------------------
(***************************************************************************)
(* What CBuffer promises its users: a first-in first-out queue of bytes.   *)
(* Bytes are put at the end, any number of them is taken from the front,   *)
(* and the queue can be emptied.                                           *)
(***************************************************************************)
EXTENDS Naturals, Sequences

CONSTANT Item
VARIABLE queue

Init == queue = <<>>

\* The old contents are still there, followed by what was added.
Put == /\ Len(queue') > Len(queue)
       /\ SubSeq(queue', 1, Len(queue)) = queue

\* Some bytes are gone from the front, nothing else has changed.
Take == \E n \in 1..Len(queue) : queue' = SubSeq(queue, n + 1, Len(queue))

Clear == queue' = <<>>

Next == Put \/ Take \/ Clear

Spec == Init /\ [][Next]_queue
=============================================================================
