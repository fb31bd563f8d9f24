------------------------------ MODULE Handoff ------------------------------
(***************************************************************************)
(* What RealtimeToUiQueue promises its two threads: a bounded first-in     *)
(* first-out channel whose operations never wait.  A push that finds no    *)
(* room is refused, and the producer drops or coalesces the update         *)
(* (realtime-handoff.h, README.md "Threading contract").                   *)
(***************************************************************************)
EXTENDS Naturals, Sequences

CONSTANTS Items, Bound

VARIABLES queue,    \* the updates pushed and not yet popped
          received  \* what the consumer's last successful tryPop() returned

vars == <<queue, received>>

Init == queue = <<>> /\ received \in Items

Push(v) == /\ Len(queue) < Bound
           /\ queue' = Append(queue, v)
           /\ UNCHANGED received

Pop == /\ queue # <<>>
       /\ received' = Head(queue)
       /\ queue' = Tail(queue)

Next == (\E v \in Items : Push(v)) \/ Pop

Spec == Init /\ [][Next]_vars

=============================================================================
