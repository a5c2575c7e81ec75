---------------------------- MODULE BoundedQueue ----------------------------
(***************************************************************************)
(* What synch::ProducerConsumerQueue promises its users, without threads,  *)
(* mutex or condition variables: a bounded double-ended buffer on which    *)
(* every operation that changes the contents is one atomic step.  A put    *)
(* happens only while there is room, a get only while there is an element, *)
(* and a get removes exactly the front element.                            *)
(***************************************************************************)
EXTENDS Integers, Sequences

CONSTANTS
    Values,     \* what can be queued
    MaxSize     \* max_size_; 0 means no limit

VARIABLE data   \* data_, front of the deque first

HasRoom(q) == MaxSize = 0 \/ Len(q) < MaxSize

PushedAt(q, v, back) == IF back THEN Append(q, v) ELSE <<v>> \o q

Init == data = << >>

Enqueue == \E v \in Values, back \in BOOLEAN :
              /\ HasRoom(data)
              /\ data' = PushedAt(data, v, back)

Dequeue == /\ data # << >>
           /\ data' = Tail(data)

\* GetAll and Clear.
Drain == data' = << >>

Next == Enqueue \/ Dequeue \/ Drain

Spec == Init /\ [][Next]_data
=============================================================================
