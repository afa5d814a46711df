---------------------------- MODULE LaneStorage ----------------------------
(***************************************************************************)
(* LaneStorage (src/engine.cpp): the message slots of a decoder lane.  A   *)
(* slot's index travels from the producer's free stack through ready_ to   *)
(* the worker and back through recycled_; whoever has the index may touch  *)
(* the slot's plain memory.                                                *)
(*                                                                         *)
(* The two rings are bounded queues (SpscRing implements BoundedFifo), so  *)
(* each of their operations is one step.  A message is its ingress         *)
(* sequence, written and read in two halves: metadata and body.            *)
(***************************************************************************)
EXTENDS Naturals, Sequences, FiniteSets

CONSTANTS
  SlotCount,     \* slot_count_
  RingCapacity,  \* capacity of ready_ and recycled_: SlotCount rounded up
  MaxMessages    \* bound: calls of TryPublish

ASSUME LaneAssumption ==
  /\ SlotCount \in Nat \ {0} /\ RingCapacity \in Nat /\ RingCapacity >= SlotCount
  /\ MaxMessages \in Nat

SlotIds == 0..(SlotCount - 1)
NoSlot == SlotCount

VARIABLES
  free,             \* free_, a stack
  ready, recycled,  \* ready_ and recycled_
  metadata, body,   \* metadata_ and arena_: the message each slot holds
  ppc, pslot,       \* producer: place in TryPublish, slot in hand
  cpc, cslot, view, \* worker: place in its loop, slot in hand, metadata read
  attempts,         \* calls of TryPublish so far
  accepted,         \* messages published, in order
  received,         \* messages the worker has read, in order
  recycle_failed    \* "lane recycle queue invariant failed"

rings == <<ready, recycled>>
slots == <<metadata, body>>
producer == <<free, ppc, pslot, attempts, accepted>>
worker == <<cpc, cslot, view, received, recycle_failed>>
vars == <<rings, slots, producer, worker>>

Init ==
  /\ free = [i \in 1..SlotCount |-> SlotCount - i]
  /\ ready = <<>> /\ recycled = <<>>
  /\ metadata = [s \in SlotIds |-> 0] /\ body = [s \in SlotIds |-> 0]
  /\ ppc = "idle" /\ pslot = NoSlot /\ cpc = "idle" /\ cslot = NoSlot /\ view = 0
  /\ attempts = 0 /\ accepted = <<>> /\ received = <<>> /\ recycle_failed = FALSE

-----------------------------------------------------------------------------
(* TryPublish. *)
BeginPublish ==
  /\ ppc = "idle" /\ attempts < MaxMessages
  /\ attempts' = attempts + 1 /\ ppc' = "drain"
  /\ UNCHANGED <<rings, slots, free, pslot, accepted, worker>>

DrainRecycled ==
  /\ ppc = "drain" /\ recycled # <<>>
  /\ free' = Append(free, Head(recycled)) /\ recycled' = Tail(recycled)
  /\ UNCHANGED <<ready, slots, ppc, pslot, attempts, accepted, worker>>

\* Mutant: the call gives up without draining recycled_.
NoFreeSlotUndrained ==
  /\ ppc = "drain" /\ free = <<>>
  /\ ppc' = "idle"
  /\ UNCHANGED <<rings, slots, free, pslot, attempts, accepted, worker>>

\* No slot: TryPublish returns false.
NoFreeSlot ==
  /\ ppc = "drain" /\ recycled = <<>> /\ free = <<>>
  /\ ppc' = "idle"
  /\ UNCHANGED <<rings, slots, free, pslot, attempts, accepted, worker>>

TakeFreeSlot ==
  /\ ppc = "drain" /\ recycled = <<>> /\ free # <<>>
  /\ pslot' = free[Len(free)] /\ free' = SubSeq(free, 1, Len(free) - 1)
  /\ ppc' = "metadata"
  /\ UNCHANGED <<rings, slots, attempts, accepted, worker>>

StoreMetadata ==
  /\ ppc = "metadata"
  /\ metadata' = [metadata EXCEPT ![pslot] = Len(accepted) + 1]
  /\ ppc' = "body"
  /\ UNCHANGED <<rings, body, free, pslot, attempts, accepted, worker>>

CopyBody ==
  /\ ppc = "body"
  /\ body' = [body EXCEPT ![pslot] = Len(accepted) + 1]
  /\ ppc' = "push"
  /\ UNCHANGED <<rings, metadata, free, pslot, attempts, accepted, worker>>

\* A full ready_ would give the slot back.
PushReady ==
  /\ ppc = "push"
  /\ IF Len(ready) < RingCapacity
       THEN /\ ready' = Append(ready, pslot)
            /\ accepted' = Append(accepted, Len(accepted) + 1) /\ UNCHANGED free
       ELSE free' = Append(free, pslot) /\ UNCHANGED <<ready, accepted>>
  /\ ppc' = "idle" /\ pslot' = NoSlot
  /\ UNCHANGED <<recycled, slots, attempts, worker>>

-----------------------------------------------------------------------------
(* The worker: TryConsume, decoding from the slot, Release. *)
\* Mutant: the slot is recycled as soon as it is consumed.
TryConsumeReleasing ==
  /\ cpc = "idle" /\ ready # <<>>
  /\ cslot' = Head(ready) /\ ready' = Tail(ready)
  /\ view' = metadata[Head(ready)]
  /\ recycled' = Append(recycled, Head(ready))
  /\ cpc' = "decode"
  /\ UNCHANGED <<slots, producer, received, recycle_failed>>

TryConsume ==
  /\ cpc = "idle" /\ ready # <<>>
  /\ cslot' = Head(ready) /\ ready' = Tail(ready)
  /\ view' = metadata[Head(ready)]
  /\ cpc' = "decode"
  /\ UNCHANGED <<recycled, slots, producer, received, recycle_failed>>

Decode ==
  /\ cpc = "decode"
  /\ received' = Append(received, <<view, body[cslot]>>)
  /\ cpc' = "release"
  /\ UNCHANGED <<rings, slots, producer, cslot, view, recycle_failed>>

\* Mutant: a message that does not decode keeps its slot.
ReleaseSometimes ==
  /\ cpc = "release"
  /\ \/ recycled' = Append(recycled, cslot)
     \/ UNCHANGED recycled
  /\ cpc' = "idle" /\ cslot' = NoSlot
  /\ UNCHANGED <<ready, slots, producer, view, received, recycle_failed>>

Release ==
  /\ cpc = "release"
  /\ IF Len(recycled) < RingCapacity
       THEN recycled' = Append(recycled, cslot) /\ UNCHANGED recycle_failed
       ELSE recycle_failed' = TRUE /\ UNCHANGED recycled
  /\ cpc' = "idle" /\ cslot' = NoSlot
  /\ UNCHANGED <<ready, slots, producer, view, received>>

Terminated ==
  /\ attempts = MaxMessages /\ ppc = "idle" /\ cpc = "idle" /\ ready = <<>>
  /\ UNCHANGED vars

Next ==
  \/ BeginPublish \/ DrainRecycled \/ NoFreeSlot \/ TakeFreeSlot
  \/ StoreMetadata \/ CopyBody \/ PushReady
  \/ TryConsume \/ Decode \/ Release \/ Terminated

Spec == Init /\ [][Next]_vars

-----------------------------------------------------------------------------
Places ==
  free \o ready \o recycled
    \o (IF pslot = NoSlot THEN <<>> ELSE <<pslot>>)
    \o (IF cslot = NoSlot THEN <<>> ELSE <<cslot>>)

\* Each slot is in exactly one place: free, in the producer's hand, ready, in the
\* worker's hand, or recycled.  So producer and worker never touch one slot
\* together, and the lane neither loses nor duplicates a slot.
OneOwner ==
  /\ Len(Places) = SlotCount
  /\ \A s \in SlotIds : \E i \in 1..SlotCount : Places[i] = s

\* The worker reads every accepted message, in order, once and whole.
ReceivedIntact ==
  /\ Len(received) <= Len(accepted)
  /\ \A i \in 1..Len(received) : received[i] = <<i, i>>

\* A message is refused only when every slot really is with the worker or on its
\* way to it.
RefusedOnlyWhenFull ==
  [][(ppc = "drain" /\ ppc' = "idle") =>
       Len(ready) + (IF cslot = NoSlot THEN 0 ELSE 1) = SlotCount]_vars
=============================================================================
