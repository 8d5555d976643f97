----------------------------- MODULE BoundedQueue -----------------------------
(***************************************************************************)
(* What a RingBuf promises the threads that use it: a bounded first-in     *)
(* first-out queue.  A push is accepted while fewer than Capacity packets  *)
(* are in the queue.  An accepted packet becomes ready after the packets   *)
(* accepted before it: a producer that claimed an earlier block and has    *)
(* not finished writing it holds back the ones behind it.  A pop takes the *)
(* head once it is ready.                                                  *)
(***************************************************************************)
EXTENDS Naturals, Sequences

CONSTANTS Packets, Capacity

VARIABLES
  queue,   \* the packets accepted and not yet taken
  ready,   \* how many packets at the head of queue can be taken
  taken    \* the packets taken so far

vars == <<queue, ready, taken>>

Init == queue = <<>> /\ ready = 0 /\ taken = <<>>

Accept(v) ==
  /\ Len(queue) < Capacity
  /\ queue' = Append(queue, v)
  /\ UNCHANGED <<ready, taken>>

Publish ==
  /\ ready < Len(queue)
  /\ ready' = ready + 1
  /\ UNCHANGED <<queue, taken>>

Take ==
  /\ ready > 0
  /\ taken' = Append(taken, Head(queue))
  /\ queue' = Tail(queue)
  /\ ready' = ready - 1

Next == (\E v \in Packets : Accept(v)) \/ Publish \/ Take

Spec == Init /\ [][Next]_vars
=============================================================================
