---------------------------- MODULE AbstractQueue ----------------------------
(***************************************************************************)
(* What the queues promise: first in, first out.  A push takes its place   *)
(* in the queue at one instant.  It may be over then, or stay pending      *)
(* until it either commits or withdraws its own value; a value that is not *)
(* pending leaves the queue only at its head.                              *)
(***************************************************************************)
EXTENDS Sequences, SequencesExt, Integers

CONSTANT Values     \* what can be pushed
VARIABLES
    items,      \* what is in the queue
    pending,    \* the values whose push has a place and can still give it up
    received    \* what has been taken out of the queue

Enqueue(v) ==
    /\ items' = Append(items, v)
    /\ pending' \in {pending, pending \cup {v}}
    /\ UNCHANGED received

Commit(v) ==
    /\ v \in pending
    /\ pending' = pending \ {v}
    /\ UNCHANGED <<items, received>>

Withdraw(i) ==
    /\ items[i] \in pending
    /\ pending' = pending \ {items[i]}
    /\ items' = RemoveAt(items, i)
    /\ UNCHANGED received

Dequeue ==
    /\ items # <<>>
    /\ received' = Append(received, Head(items))
    /\ items' = Tail(items)
    /\ UNCHANGED pending

Init == items = <<>> /\ pending = {} /\ received = <<>>

Next ==
    \/ \E v \in Values : Enqueue(v) \/ Commit(v)
    \/ \E i \in DOMAIN items : Withdraw(i)
    \/ Dequeue

Spec == Init /\ [][Next]_<<items, pending, received>>
=============================================================================
