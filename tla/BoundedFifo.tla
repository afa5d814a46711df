---------------------------- MODULE BoundedFifo ----------------------------
(***************************************************************************)
(* What the engine's queues promise to their one producer and one          *)
(* consumer: first in, first out, nothing lost, repeated or overwritten; a *)
(* push is refused only when the queue is full and a pop only when it is   *)
(* empty.                                                                  *)
(***************************************************************************)
EXTENDS Naturals, Sequences

CONSTANTS Values, Capacity

VARIABLES
  queue,   \* contents, oldest first
  pushed,  \* result of the latest push: "none", "ok", "full"
  popped,  \* result of the latest pop: <<>> for none, otherwise <<value>>
  empty    \* answer of the latest emptiness test of the consumer

vars == <<queue, pushed, popped, empty>>

Init == queue = <<>> /\ pushed = "none" /\ popped = <<>> /\ empty = TRUE

Push(v) ==
  /\ Len(queue) < Capacity
  /\ queue' = Append(queue, v) /\ pushed' = "ok"
  /\ UNCHANGED <<popped, empty>>

PushFull ==
  /\ Len(queue) = Capacity
  /\ pushed' = "full"
  /\ UNCHANGED <<queue, popped, empty>>

Pop ==
  /\ queue # <<>>
  /\ popped' = <<Head(queue)>> /\ queue' = Tail(queue)
  /\ UNCHANGED <<pushed, empty>>

PopEmpty ==
  /\ queue = <<>>
  /\ popped' = <<>>
  /\ UNCHANGED <<queue, pushed, empty>>

TestEmpty == empty' = (queue = <<>>) /\ UNCHANGED <<queue, pushed, popped>>

Next == (\E v \in Values : Push(v)) \/ PushFull \/ Pop \/ PopEmpty \/ TestEmpty

Spec == Init /\ [][Next]_vars
=============================================================================
