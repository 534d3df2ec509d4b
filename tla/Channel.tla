------------------------------- MODULE Channel -------------------------------
(***************************************************************************)
(* What the inter-core queue promises its two ends: a bounded first-in,    *)
(* first-out channel. Elements are numbered in the order they enter.       *)
(***************************************************************************)
EXTENDS Integers, Sequences

CONSTANT Capacity

VARIABLES
  queue,  \* the elements in the channel, oldest first
  in,     \* how many elements entered
  out     \* the elements that left, in order

vars == <<queue, in, out>>

Init == queue = <<>> /\ in = 0 /\ out = <<>>

Send ==
  /\ Len(queue) < Capacity
  /\ in' = in + 1
  /\ queue' = Append(queue, in + 1)
  /\ UNCHANGED out

Receive ==
  /\ queue # <<>>
  /\ out' = Append(out, Head(queue))
  /\ queue' = Tail(queue)
  /\ UNCHANGED in

Next == Send \/ Receive

Spec == Init /\ [][Next]_vars
=============================================================================
