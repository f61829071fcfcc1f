---------------------------- MODULE BoundedFifo ----------------------------
(***************************************************************************)
(* What a message queue of analysisd promises, whatever its implementation *)
(* does with rings, mutexes and condition variables: items that were       *)
(* accepted leave in the order they were accepted, nothing is accepted     *)
(* beyond the capacity or after the queue is closed, and every item the    *)
(* queue was offered ends up with exactly one owner.                       *)
(*                                                                         *)
(* OsQueue implements this module (OsQueue!Fifo!Spec).                     *)
(***************************************************************************)
EXTENDS Naturals, Sequences

CONSTANTS Items,      \* the pointers callers may push (each at most once)
          Capacity    \* how many items the queue can hold

VARIABLES fifo,       \* accepted items, oldest first
          closed,     \* the queue was shut down
          fate        \* who owns each item now

vars == <<fifo, closed, fate>>

(* "caller": the pusher owns it; "queued": the queue does; "popped": a     *)
(* consumer does; "refused": the push failed and the pusher owns it again; *)
(* "freed": the queue was emptied and freed it.                            *)
Fates == {"caller", "queued", "popped", "refused", "freed"}

Init == /\ fifo = <<>>
        /\ closed = FALSE
        /\ fate = [x \in Items |-> "caller"]

Accept(x) == /\ ~closed
             /\ Len(fifo) < Capacity
             /\ fate[x] = "caller"
             /\ fifo' = Append(fifo, x)
             /\ fate' = [fate EXCEPT ![x] = "queued"]
             /\ UNCHANGED closed

Refuse(x) == /\ fate[x] = "caller"
             /\ fate' = [fate EXCEPT ![x] = "refused"]
             /\ UNCHANGED <<fifo, closed>>

Deliver == /\ fifo # <<>>
           /\ fate' = [fate EXCEPT ![Head(fifo)] = "popped"]
           /\ fifo' = Tail(fifo)
           /\ UNCHANGED closed

Close == /\ ~closed
         /\ closed' = TRUE
         /\ UNCHANGED <<fifo, fate>>

Discard == /\ closed
           /\ fifo # <<>>
           /\ fifo' = <<>>
           /\ fate' = [x \in Items |->
                         IF fate[x] = "queued" THEN "freed" ELSE fate[x]]
           /\ UNCHANGED closed

Next == \/ \E x \in Items : Accept(x) \/ Refuse(x)
        \/ Deliver
        \/ Close
        \/ Discard

Spec == Init /\ [][Next]_vars
=============================================================================
