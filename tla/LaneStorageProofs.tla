------------------------- MODULE LaneStorageProofs -------------------------
(***************************************************************************)
(* The slots of a lane, for every number of slots, ring capacity and       *)
(* number of messages: each slot has one owner, messages arrive whole and  *)
(* in order, and one is refused only when the lane is full.                *)
(***************************************************************************)
EXTENDS LaneStorage, Integers, SequenceTheorems, TLAPS

(***************************************************************************)
(* Sequences of slots.                                                     *)
(***************************************************************************)
In(s) == {s[i] : i \in 1..Len(s)}
Distinct(s) == \A i, j \in 1..Len(s) : i # j => s[i] # s[j]

\* A push onto a ring or the free stack.
LEMMA AppendFacts ==
  ASSUME NEW S, NEW s \in Seq(S), NEW x \in S
  PROVE  /\ Append(s, x) \in Seq(S) /\ Len(Append(s, x)) = Len(s) + 1
         /\ In(Append(s, x)) = In(s) \cup {x}
         /\ Distinct(s) /\ x \notin In(s) => Distinct(Append(s, x))
<1> DEFINE t == Append(s, x)
           n == Len(s)
<1>1. /\ n \in Nat /\ t \in Seq(S) /\ Len(t) = n + 1
      /\ \A i \in 1..n : t[i] = s[i] /\ i \in 1..(n + 1)
      /\ t[n + 1] = x /\ n + 1 \in 1..(n + 1)
  OBVIOUS
<1>2. \A i \in 1..(n + 1) : i \in 1..n \/ i = n + 1
  BY <1>1
<1> HIDE DEF t, n
<1>3. In(t) = In(s) \cup {x}
  BY <1>1, <1>2 DEF In, n
<1>4. Distinct(s) /\ x \notin In(s) => Distinct(t)
  BY <1>1, <1>2 DEF Distinct, In, n
<1>5. QED
  BY <1>1, <1>3, <1>4 DEF t, n

\* A pop from a ring.
LEMMA TailFacts ==
  ASSUME NEW S, NEW s \in Seq(S), s # <<>>
  PROVE  /\ Tail(s) \in Seq(S) /\ Len(Tail(s)) = Len(s) - 1 /\ Len(s) \in Nat \ {0}
         /\ Head(s) \in S /\ Head(s) = s[1]
         /\ \A i \in 1..(Len(s) - 1) : Tail(s)[i] = s[i + 1]
         /\ In(s) = In(Tail(s)) \cup {Head(s)}
         /\ Distinct(s) => Distinct(Tail(s)) /\ Head(s) \notin In(Tail(s))
<1> DEFINE t == Tail(s)
           n == Len(s)
<1>1. /\ n \in Nat /\ n # 0 /\ t \in Seq(S) /\ Len(t) = n - 1
      /\ \A i \in 1..(n - 1) : t[i] = s[i + 1] /\ i + 1 \in 1..n
      /\ Head(s) = s[1] /\ 1 \in 1..n /\ s[1] \in S
  OBVIOUS
<1>2. \A i \in 1..n : i = 1 \/ (i - 1 \in 1..(n - 1) /\ (i - 1) + 1 = i)
  BY <1>1
<1> HIDE DEF t, n
<1>3. In(s) = In(t) \cup {s[1]}
  <2>1. \A i \in 1..n : s[i] \in In(t) \cup {s[1]}
    <3> SUFFICES ASSUME NEW i \in 1..n, i # 1 PROVE s[i] \in In(t)
      OBVIOUS
    <3>1. i - 1 \in 1..(n - 1) /\ t[i - 1] = s[i]
      BY <1>1, <1>2
    <3>2. QED
      BY <1>1, <3>1 DEF In
  <2>2. \A i \in 1..(n - 1) : t[i] \in In(s)
    BY <1>1 DEF In, n
  <2>3. s[1] \in In(s)
    BY <1>1 DEF In, n
  <2>4. QED
    BY <1>1, <2>1, <2>2, <2>3 DEF In, n
<1>4. ASSUME Distinct(s) PROVE Distinct(t) /\ s[1] \notin In(t)
  <2>1. \A i, j \in 1..(n - 1) : i # j => i + 1 # j + 1 /\ i + 1 # 1
    BY <1>1
  <2>2. \A i \in 1..(n - 1) : i + 1 # 1
    BY <1>1
  <2>3. QED
    BY <1>1, <1>4, <2>1, <2>2 DEF Distinct, In, n
<1>5. QED
  BY <1>1, <1>3, <1>4 DEF t, n

\* A pop from the free stack.
LEMMA FrontFacts ==
  ASSUME NEW S, NEW s \in Seq(S), s # <<>>
  PROVE  LET t == SubSeq(s, 1, Len(s) - 1)
             x == s[Len(s)]
         IN  /\ t \in Seq(S) /\ Len(t) = Len(s) - 1 /\ x \in S
             /\ In(s) = In(t) \cup {x}
             /\ Distinct(s) => Distinct(t) /\ x \notin In(t)
<1> DEFINE t == SubSeq(s, 1, Len(s) - 1)
           n == Len(s)
<1>1. /\ n \in Nat /\ n # 0 /\ t \in Seq(S) /\ Len(t) = n - 1
      /\ \A i \in 1..(n - 1) : t[i] = s[i] /\ i \in 1..n /\ i # n
      /\ n \in 1..n /\ s[n] \in S
  <2>1. n \in Nat /\ n # 0 /\ \A i \in 1..n : s[i] \in S
    OBVIOUS
  <2> HIDE DEF n
  <2>2. n - 1 \in Int /\ 1 \in Int /\ \A i \in 1..(n - 1) : s[i] \in S
    BY <2>1
  <2>3. /\ SubSeq(s, 1, n - 1) \in Seq(S)
        /\ Len(SubSeq(s, 1, n - 1)) = IF 1 <= n - 1 THEN (n - 1) - 1 + 1 ELSE 0
        /\ \A i \in 1..((n - 1) - 1 + 1) : SubSeq(s, 1, n - 1)[i] = s[1 + i - 1]
    BY <2>2, SubSeqProperties
  <2>4. t = SubSeq(s, 1, n - 1)
    BY DEF n
  <2> HIDE DEF t
  <2>5. /\ Len(t) = n - 1
        /\ \A i \in 1..(n - 1) : t[i] = s[i] /\ i \in 1..n /\ i # n
    BY <2>1, <2>3, <2>4
  <2>6. QED
    BY <2>1, <2>3, <2>4, <2>5
<1>2. \A i \in 1..n : i = n \/ i \in 1..(n - 1)
  BY <1>1
<1> HIDE DEF t, n
<1>3. In(s) = In(t) \cup {s[n]}
  BY <1>1, <1>2 DEF In, n
<1>4. Distinct(s) => Distinct(t) /\ s[n] \notin In(t)
  BY <1>1, <1>2 DEF Distinct, In, n
<1>5. QED
  BY <1>1, <1>3, <1>4 DEF t, n

-----------------------------------------------------------------------------
(***************************************************************************)
(* The inductive invariant.                                                *)
(***************************************************************************)
TypeInv ==
  /\ free \in Seq(SlotIds) /\ ready \in Seq(SlotIds) /\ recycled \in Seq(SlotIds)
  /\ pslot \in SlotIds \cup {NoSlot} /\ cslot \in SlotIds \cup {NoSlot}
  /\ metadata \in [SlotIds -> Nat] /\ body \in [SlotIds -> Nat] /\ view \in Nat
  /\ ppc \in {"idle", "drain", "metadata", "body", "push"}
  /\ cpc \in {"idle", "decode", "release"}
  /\ accepted \in Seq(Nat) /\ received \in Seq(Nat \X Nat)

\* A thread has a slot in hand exactly between taking and passing it on.
HandsInv ==
  /\ pslot # NoSlot <=> ppc \in {"metadata", "body", "push"}
  /\ cslot # NoSlot <=> cpc \in {"decode", "release"}

Hand(slot) == IF slot = NoSlot THEN {} ELSE {slot}
HandSize(slot) == IF slot = NoSlot THEN 0 ELSE 1

\* The places hold all slots, no slot twice.
PlacesInv ==
  /\ Distinct(free) /\ Distinct(ready) /\ Distinct(recycled)
  /\ In(free) \cup In(ready) \cup In(recycled) \cup Hand(pslot) \cup Hand(cslot) = SlotIds
  /\ In(free) \cap In(ready) = {} /\ In(free) \cap In(recycled) = {}
  /\ In(ready) \cap In(recycled) = {}
  /\ Hand(pslot) \cap (In(free) \cup In(ready) \cup In(recycled)) = {}
  /\ Hand(cslot) \cap (In(free) \cup In(ready) \cup In(recycled) \cup Hand(pslot)) = {}
  /\ Len(free) + Len(ready) + Len(recycled) + HandSize(pslot) + HandSize(cslot) = SlotCount

\* Messages the worker has taken out of ready_.
Taken == Len(received) + (IF cpc = "decode" THEN 1 ELSE 0)

\* Ready slots hold the messages that come next, and a slot in hand what its owner
\* has written or read so far.
MessagesInv ==
  /\ Taken + Len(ready) = Len(accepted)
  /\ \A i \in 1..Len(ready) : metadata[ready[i]] = Taken + i /\ body[ready[i]] = Taken + i
  /\ ppc \in {"body", "push"} => metadata[pslot] = Len(accepted) + 1
  /\ ppc = "push" => body[pslot] = Len(accepted) + 1
  /\ cpc = "decode" => view = Taken /\ body[cslot] = Taken
  /\ \A i \in 1..Len(received) : received[i] = <<i, i>>

LaneInv == TypeInv /\ HandsInv /\ PlacesInv /\ MessagesInv

\* All slots are free at first.
LEMMA InitLane == ASSUME Init PROVE LaneInv
<1> USE LaneAssumption
<1>1. TypeInv /\ HandsInv
  BY DEF Init, TypeInv, HandsInv, SlotIds, NoSlot
<1>2. Len(free) = SlotCount /\ Distinct(free)
  BY DEF Init, Distinct
<1>3. In(free) = SlotIds
  <2>1. \A s \in SlotIds : SlotCount - s \in 1..SlotCount /\ free[SlotCount - s] = s
    BY DEF Init, SlotIds
  <2>2. \A i \in 1..SlotCount : free[i] \in SlotIds
    BY DEF Init, SlotIds
  <2>3. QED
    BY <1>2, <2>1, <2>2 DEF In
<1>4. Len(ready) = 0 /\ Len(recycled) = 0 /\ In(ready) = {} /\ In(recycled) = {}
  BY DEF Init, In
<1>5. PlacesInv
  BY <1>2, <1>3, <1>4 DEF Init, PlacesInv, Hand, HandSize, Distinct
<1>6. MessagesInv
  BY DEF Init, MessagesInv, Taken
<1>7. QED
  BY <1>1, <1>5, <1>6 DEF LaneInv

-----------------------------------------------------------------------------
(***************************************************************************)
(* Every action keeps it.                                                  *)
(***************************************************************************)
\* Steps that move no slot: a call begins, a call is refused.
LEMMA PlaceOnly ==
  ASSUME LaneInv, BeginPublish \/ NoFreeSlot
  PROVE  LaneInv'
<1> USE DEF LaneInv, BeginPublish, NoFreeSlot, rings, slots, worker
<1>1. TypeInv' /\ HandsInv'
  BY DEF TypeInv, HandsInv
<1>2. PlacesInv'
  BY DEF PlacesInv
<1>3. MessagesInv'
  BY DEF MessagesInv, Taken
<1>4. QED
  BY <1>1, <1>2, <1>3

\* A recycled slot goes onto the free stack.
LEMMA DrainStep ==
  ASSUME LaneInv, DrainRecycled
  PROVE  LaneInv'
<1> USE DEF LaneInv, DrainRecycled, slots, worker
<1> DEFINE s == Head(recycled)
<1>1. /\ free \in Seq(SlotIds) /\ recycled \in Seq(SlotIds) /\ recycled # <<>>
      /\ free' = Append(free, s) /\ recycled' = Tail(recycled)
  BY DEF TypeInv
<1>2. /\ recycled' \in Seq(SlotIds) /\ Len(recycled') = Len(recycled) - 1
      /\ s \in SlotIds /\ In(recycled) = In(recycled') \cup {s}
      /\ Distinct(recycled) => Distinct(recycled') /\ s \notin In(recycled')
  BY <1>1, TailFacts
<1>3. /\ free' \in Seq(SlotIds) /\ Len(free') = Len(free) + 1
      /\ In(free') = In(free) \cup {s}
      /\ Distinct(free) /\ s \notin In(free) => Distinct(free')
  BY <1>1, <1>2, AppendFacts
<1>4. TypeInv' /\ HandsInv'
  BY <1>2, <1>3 DEF TypeInv, HandsInv
<1> HIDE DEF s
<1>5. PlacesInv'
  <2>1. s \in In(recycled) /\ s \notin In(free)
    BY <1>2 DEF PlacesInv
  <2>2. Distinct(free') /\ Distinct(recycled') /\ s \notin In(recycled')
    BY <1>2, <1>3, <2>1 DEF PlacesInv
  <2>3. /\ In(free') \cup In(ready') \cup In(recycled') \cup Hand(pslot') \cup Hand(cslot')
             = SlotIds
        /\ In(free') \cap In(ready') = {} /\ In(free') \cap In(recycled') = {}
        /\ In(ready') \cap In(recycled') = {}
        /\ Hand(pslot') \cap (In(free') \cup In(ready') \cup In(recycled')) = {}
        /\ Hand(cslot') \cap (In(free') \cup In(ready') \cup In(recycled') \cup Hand(pslot')) = {}
    BY <1>2, <1>3, <2>1, <2>2 DEF PlacesInv
  <2>4. Len(free') + Len(ready') + Len(recycled') + HandSize(pslot') + HandSize(cslot')
          = SlotCount
    BY <1>2, <1>3, LaneAssumption DEF PlacesInv, TypeInv, HandSize
  <2>5. QED
    BY <2>2, <2>3, <2>4 DEF PlacesInv
<1>6. MessagesInv'
  BY DEF MessagesInv, Taken
<1>7. QED
  BY <1>4, <1>5, <1>6

\* The top of the free stack comes into the producer's hand.
LEMMA TakeStep ==
  ASSUME LaneInv, TakeFreeSlot
  PROVE  LaneInv'
<1> USE DEF LaneInv, TakeFreeSlot, rings, slots, worker
<1> DEFINE s == free[Len(free)]
<1>1. /\ free \in Seq(SlotIds) /\ free # <<>>
      /\ free' = SubSeq(free, 1, Len(free) - 1) /\ pslot' = s
  BY DEF TypeInv
<1>2. /\ free' \in Seq(SlotIds) /\ Len(free') = Len(free) - 1
      /\ s \in SlotIds /\ In(free) = In(free') \cup {s}
      /\ Distinct(free) => Distinct(free') /\ s \notin In(free')
  BY <1>1, FrontFacts
<1> HIDE DEF s
<1>3. s # NoSlot /\ pslot = NoSlot /\ pslot' = s
  BY <1>1, <1>2, LaneAssumption DEF SlotIds, NoSlot, HandsInv
<1>4. TypeInv' /\ HandsInv'
  BY <1>2, <1>3 DEF TypeInv, HandsInv
<1>5. PlacesInv'
  <2>1. /\ Hand(pslot) = {} /\ Hand(pslot') = {s}
        /\ HandSize(pslot) = 0 /\ HandSize(pslot') = 1
    BY <1>3 DEF Hand, HandSize
  <2>2. Distinct(free') /\ s \notin In(free')
    BY <1>2 DEF PlacesInv
  <2>3. /\ In(free') \cup In(ready') \cup In(recycled') \cup Hand(pslot') \cup Hand(cslot')
             = SlotIds
        /\ In(free') \cap In(ready') = {} /\ In(free') \cap In(recycled') = {}
        /\ In(ready') \cap In(recycled') = {}
        /\ Hand(pslot') \cap (In(free') \cup In(ready') \cup In(recycled')) = {}
        /\ Hand(cslot') \cap (In(free') \cup In(ready') \cup In(recycled') \cup Hand(pslot')) = {}
    BY <1>2, <2>1, <2>2 DEF PlacesInv
  <2>4. Len(free') + Len(ready') + Len(recycled') + HandSize(pslot') + HandSize(cslot')
          = SlotCount
    <3>1. /\ Len(free) \in Nat /\ Len(ready) \in Nat /\ Len(recycled) \in Nat
          /\ HandSize(cslot) \in {0, 1} /\ SlotCount \in Nat
      BY LaneAssumption DEF TypeInv, HandSize
    <3>2. /\ Len(free) + Len(ready) + Len(recycled) + 0 + HandSize(cslot) = SlotCount
          /\ ready' = ready /\ recycled' = recycled /\ cslot' = cslot
      BY <2>1 DEF PlacesInv
    <3>3. QED
      BY ONLY <1>2, <2>1, <3>1, <3>2
  <2>5. QED
    BY <2>2, <2>3, <2>4 DEF PlacesInv
<1>6. MessagesInv'
  BY DEF MessagesInv, Taken
<1>7. QED
  BY <1>4, <1>5, <1>6

\* The producer writes only the slot in its hand, which is neither ready nor with
\* the worker.
LEMMA WriteStep ==
  ASSUME LaneInv, StoreMetadata \/ CopyBody
  PROVE  LaneInv'
<1> USE DEF LaneInv, StoreMetadata, CopyBody, rings, slots, worker
<1>1. /\ pslot \in SlotIds /\ pslot # NoSlot /\ Len(accepted) + 1 \in Nat
      /\ Hand(pslot) = {pslot}
  BY DEF TypeInv, HandsInv, Hand
<1>2. TypeInv' /\ HandsInv'
  BY <1>1 DEF TypeInv, HandsInv
<1>3. PlacesInv'
  BY DEF PlacesInv
<1>4. \A i \in 1..Len(ready) : ready[i] # pslot /\ ready[i] \in SlotIds
  BY <1>1 DEF PlacesInv, In, TypeInv
<1>5. cpc = "decode" => cslot \in SlotIds /\ cslot # pslot
  BY <1>1 DEF PlacesInv, HandsInv, Hand, TypeInv
<1>6. \A s \in SlotIds \ {pslot} : metadata'[s] = metadata[s] /\ body'[s] = body[s]
  BY DEF TypeInv
<1>7. MessagesInv'
  <2>1. /\ Taken' = Taken /\ ready' = ready /\ accepted' = accepted /\ received' = received
        /\ cpc' = cpc /\ cslot' = cslot /\ view' = view /\ pslot' = pslot
    BY DEF Taken
  <2>2. \A i \in 1..Len(ready) : metadata'[ready[i]] = metadata[ready[i]]
                                 /\ body'[ready[i]] = body[ready[i]]
    BY <1>4, <1>6
  <2>3. cpc = "decode" => body'[cslot] = body[cslot]
    BY <1>5, <1>6
  <2>4. /\ ppc' \in {"body", "push"} => metadata'[pslot] = Len(accepted) + 1
        /\ ppc' = "push" => body'[pslot] = Len(accepted) + 1
    BY <1>1 DEF MessagesInv, TypeInv
  <2>5. QED
    BY <2>1, <2>2, <2>3, <2>4 DEF MessagesInv
<1>8. QED
  BY <1>2, <1>3, <1>7

\* The message is published: ready_ always has room for it.
LEMMA PushStep ==
  ASSUME LaneInv, PushReady
  PROVE  LaneInv'
<1> USE DEF LaneInv, PushReady, slots, worker
<1>1. /\ pslot \in SlotIds /\ pslot # NoSlot /\ pslot' = NoSlot
      /\ Hand(pslot) = {pslot} /\ HandSize(pslot) = 1
      /\ Hand(pslot') = {} /\ HandSize(pslot') = 0
  BY DEF TypeInv, HandsInv, Hand, HandSize
<1>2. /\ Len(free) \in Nat /\ Len(ready) \in Nat /\ Len(recycled) \in Nat
      /\ HandSize(cslot) \in {0, 1} /\ Len(accepted) \in Nat
  BY DEF TypeInv, HandSize
<1>3. Len(ready) < RingCapacity
  BY <1>1, <1>2, LaneAssumption DEF PlacesInv
<1>4. /\ ready' = Append(ready, pslot) /\ free' = free
      /\ accepted' = Append(accepted, Len(accepted) + 1)
  BY <1>3
<1>5. /\ ready' \in Seq(SlotIds) /\ Len(ready') = Len(ready) + 1
      /\ In(ready') = In(ready) \cup {pslot}
      /\ Distinct(ready) /\ pslot \notin In(ready) => Distinct(ready')
  BY <1>1, <1>4, AppendFacts DEF TypeInv
<1>6. accepted' \in Seq(Nat) /\ Len(accepted') = Len(accepted) + 1
  BY <1>2, <1>4 DEF TypeInv
<1>7. TypeInv' /\ HandsInv'
  BY <1>1, <1>4, <1>5, <1>6 DEF TypeInv, HandsInv
<1>8. PlacesInv'
  <2>1. Distinct(ready')
    BY <1>1, <1>5 DEF PlacesInv
  <2>2. /\ In(free') \cup In(ready') \cup In(recycled') \cup Hand(pslot') \cup Hand(cslot')
             = SlotIds
        /\ In(free') \cap In(ready') = {} /\ In(free') \cap In(recycled') = {}
        /\ In(ready') \cap In(recycled') = {}
        /\ Hand(pslot') \cap (In(free') \cup In(ready') \cup In(recycled')) = {}
        /\ Hand(cslot') \cap (In(free') \cup In(ready') \cup In(recycled') \cup Hand(pslot')) = {}
    BY <1>1, <1>4, <1>5 DEF PlacesInv
  <2>3. Len(free') + Len(ready') + Len(recycled') + HandSize(pslot') + HandSize(cslot')
          = SlotCount
    BY <1>1, <1>2, <1>4, <1>5, LaneAssumption DEF PlacesInv
  <2>4. QED
    BY <1>4, <2>1, <2>2, <2>3 DEF PlacesInv
<1>9. MessagesInv'
  <2>1. Taken' = Taken /\ Taken \in Nat
    BY DEF Taken, TypeInv
  <2>2. /\ \A i \in 1..Len(ready) : ready'[i] = ready[i]
        /\ ready'[Len(ready) + 1] = pslot
    BY <1>1, <1>4 DEF TypeInv
  <2>3. \A i \in 1..Len(ready') : i \in 1..Len(ready) \/ i = Len(ready) + 1
    BY <1>2, <1>5
  <2>4. Taken + Len(ready) = Len(accepted)
    BY DEF MessagesInv
  <2>5. \A i \in 1..Len(ready') : metadata[ready'[i]] = Taken + i /\ body[ready'[i]] = Taken + i
    <3> SUFFICES ASSUME NEW i \in 1..Len(ready')
                 PROVE  metadata[ready'[i]] = Taken + i /\ body[ready'[i]] = Taken + i
      OBVIOUS
    <3>1. CASE i \in 1..Len(ready)
      BY <2>2, <3>1 DEF MessagesInv
    <3>2. CASE i = Len(ready) + 1
      BY <1>2, <2>1, <2>2, <2>4, <3>2 DEF MessagesInv
    <3>3. QED
      BY <2>3, <3>1, <3>2
  <2>6. QED
    BY <1>2, <1>5, <1>6, <2>1, <2>4, <2>5 DEF MessagesInv
<1>10. QED
  BY <1>7, <1>8, <1>9

\* The worker takes the oldest published slot.
LEMMA ConsumeStep ==
  ASSUME LaneInv, TryConsume
  PROVE  LaneInv'
<1> USE DEF LaneInv, TryConsume, slots, producer
<1> DEFINE s == Head(ready)
<1>1. /\ ready \in Seq(SlotIds) /\ ready # <<>>
      /\ ready' = Tail(ready) /\ cslot' = s /\ view' = metadata[s]
  BY DEF TypeInv
<1>2. /\ ready' \in Seq(SlotIds) /\ Len(ready') = Len(ready) - 1 /\ Len(ready) \in Nat \ {0}
      /\ s \in SlotIds /\ s = ready[1]
      /\ \A i \in 1..(Len(ready) - 1) : ready'[i] = ready[i + 1]
      /\ In(ready) = In(ready') \cup {s}
      /\ Distinct(ready) => Distinct(ready') /\ s \notin In(ready')
  BY <1>1, TailFacts
<1> HIDE DEF s
<1>3. s # NoSlot /\ cslot = NoSlot /\ cslot' = s
  BY <1>1, <1>2, LaneAssumption DEF SlotIds, NoSlot, HandsInv
<1>4. TypeInv' /\ HandsInv'
  BY <1>1, <1>2, <1>3 DEF TypeInv, HandsInv
<1>5. PlacesInv'
  <2>1. /\ Hand(cslot) = {} /\ Hand(cslot') = {s}
        /\ HandSize(cslot) = 0 /\ HandSize(cslot') = 1
    BY <1>3 DEF Hand, HandSize
  <2>2. Distinct(ready') /\ s \notin In(ready')
    BY <1>2 DEF PlacesInv
  <2>3. /\ In(free') \cup In(ready') \cup In(recycled') \cup Hand(pslot') \cup Hand(cslot')
             = SlotIds
        /\ In(free') \cap In(ready') = {} /\ In(free') \cap In(recycled') = {}
        /\ In(ready') \cap In(recycled') = {}
        /\ Hand(pslot') \cap (In(free') \cup In(ready') \cup In(recycled')) = {}
        /\ Hand(cslot') \cap (In(free') \cup In(ready') \cup In(recycled') \cup Hand(pslot')) = {}
    BY <1>2, <2>1, <2>2 DEF PlacesInv
  <2>4. Len(free') + Len(ready') + Len(recycled') + HandSize(pslot') + HandSize(cslot')
          = SlotCount
    <3>1. /\ Len(free) \in Nat /\ Len(recycled) \in Nat
          /\ HandSize(pslot) \in {0, 1} /\ SlotCount \in Nat
      BY LaneAssumption DEF TypeInv, HandSize
    <3>2. /\ Len(free) + Len(ready) + Len(recycled) + HandSize(pslot) + 0 = SlotCount
          /\ free' = free /\ recycled' = recycled /\ pslot' = pslot
      BY <2>1 DEF PlacesInv
    <3>3. QED
      BY ONLY <1>2, <2>1, <3>1, <3>2
  <2>5. QED
    BY <2>2, <2>3, <2>4 DEF PlacesInv
<1>6. MessagesInv'
  <2>1. Taken' = Taken + 1 /\ Taken \in Nat
    BY DEF Taken, TypeInv
  <2>2. metadata[s] = Taken + 1 /\ body[s] = Taken + 1
    BY <1>2, <2>1 DEF MessagesInv
  <2>3. \A i \in 1..(Len(ready) - 1) :
          metadata[ready[i + 1]] = Taken + (i + 1) /\ body[ready[i + 1]] = Taken + (i + 1)
    <3> SUFFICES ASSUME NEW i \in 1..(Len(ready) - 1)
                 PROVE  metadata[ready[i + 1]] = Taken + (i + 1)
                        /\ body[ready[i + 1]] = Taken + (i + 1)
      OBVIOUS
    <3>1. i + 1 \in 1..Len(ready)
      BY <1>2
    <3>2. QED
      BY <3>1 DEF MessagesInv
  <2>4. \A i \in 1..Len(ready') : metadata[ready'[i]] = Taken' + i /\ body[ready'[i]] = Taken' + i
    <3> SUFFICES ASSUME NEW i \in 1..Len(ready')
                 PROVE  metadata[ready'[i]] = Taken' + i /\ body[ready'[i]] = Taken' + i
      OBVIOUS
    <3>1. i \in 1..(Len(ready) - 1) /\ ready'[i] = ready[i + 1]
      BY <1>2
    <3>2. Taken + (i + 1) = Taken' + i
      BY <2>1
    <3>3. QED
      BY <2>3, <3>1, <3>2
  <2>5. Taken' + Len(ready') = Len(accepted) /\ accepted' = accepted
    BY <1>2, <2>1 DEF MessagesInv, TypeInv
  <2>6. view' = Taken' /\ body'[cslot'] = Taken'
    BY <1>1, <2>1, <2>2
  <2>7. QED
    BY <2>4, <2>5, <2>6 DEF MessagesInv
<1>7. QED
  BY <1>4, <1>5, <1>6

\* The worker reads the body from the slot in its hand.
LEMMA DecodeStep ==
  ASSUME LaneInv, Decode
  PROVE  LaneInv'
<1> USE DEF LaneInv, Decode, rings, slots, producer
<1> DEFINE m == <<view, body[cslot]>>
           n == Len(received)
<1>1. /\ cslot \in SlotIds /\ m \in Nat \X Nat /\ received \in Seq(Nat \X Nat) /\ n \in Nat
      /\ received' = Append(received, m)
  BY DEF TypeInv, HandsInv
<1>2. /\ received' \in Seq(Nat \X Nat) /\ Len(received') = n + 1
      /\ \A i \in 1..n : received'[i] = received[i]
      /\ received'[n + 1] = m
  BY <1>1
<1>3. TypeInv' /\ HandsInv'
  BY <1>2 DEF TypeInv, HandsInv
<1>4. PlacesInv'
  BY DEF PlacesInv
<1>5. MessagesInv'
  <2>1. Taken = n + 1 /\ Taken' = Taken
    BY <1>1, <1>2 DEF Taken
  <2>2. m = <<n + 1, n + 1>>
    BY <2>1 DEF MessagesInv
  <2> HIDE DEF m, n
  <2>3. \A i \in 1..Len(received') : received'[i] = <<i, i>>
    <3> SUFFICES ASSUME NEW i \in 1..Len(received') PROVE received'[i] = <<i, i>>
      OBVIOUS
    <3>1. i \in 1..n \/ i = n + 1
      BY <1>1, <1>2
    <3>2. QED
      BY <1>2, <2>2, <3>1 DEF MessagesInv, n
  <2>4. QED
    BY <2>1, <2>3 DEF MessagesInv
<1>6. QED
  BY <1>3, <1>4, <1>5

\* The worker gives the slot back: recycled_ always has room for it.
LEMMA ReleaseStep ==
  ASSUME LaneInv, Release
  PROVE  LaneInv' /\ UNCHANGED recycle_failed
<1> USE DEF LaneInv, Release, slots, producer
<1>1. /\ cslot \in SlotIds /\ cslot # NoSlot /\ cslot' = NoSlot
      /\ Hand(cslot) = {cslot} /\ HandSize(cslot) = 1
      /\ Hand(cslot') = {} /\ HandSize(cslot') = 0
  BY DEF TypeInv, HandsInv, Hand, HandSize
<1>2. /\ Len(free) \in Nat /\ Len(ready) \in Nat /\ Len(recycled) \in Nat
      /\ HandSize(pslot) \in {0, 1}
  BY DEF TypeInv, HandSize
<1>3. Len(recycled) < RingCapacity
  BY <1>1, <1>2, LaneAssumption DEF PlacesInv
<1>4. recycled' = Append(recycled, cslot) /\ recycle_failed' = recycle_failed
  BY <1>3
<1>5. /\ recycled' \in Seq(SlotIds) /\ Len(recycled') = Len(recycled) + 1
      /\ In(recycled') = In(recycled) \cup {cslot}
      /\ Distinct(recycled) /\ cslot \notin In(recycled) => Distinct(recycled')
  BY <1>1, <1>4, AppendFacts DEF TypeInv
<1>6. TypeInv' /\ HandsInv'
  BY <1>1, <1>5 DEF TypeInv, HandsInv
<1>7. PlacesInv'
  <2>1. Distinct(recycled')
    BY <1>1, <1>5 DEF PlacesInv
  <2>2. /\ In(free') \cup In(ready') \cup In(recycled') \cup Hand(pslot') \cup Hand(cslot')
             = SlotIds
        /\ In(free') \cap In(ready') = {} /\ In(free') \cap In(recycled') = {}
        /\ In(ready') \cap In(recycled') = {}
        /\ Hand(pslot') \cap (In(free') \cup In(ready') \cup In(recycled')) = {}
        /\ Hand(cslot') \cap (In(free') \cup In(ready') \cup In(recycled') \cup Hand(pslot')) = {}
    BY <1>1, <1>5 DEF PlacesInv
  <2>3. Len(free') + Len(ready') + Len(recycled') + HandSize(pslot') + HandSize(cslot')
          = SlotCount
    BY <1>1, <1>2, <1>5, LaneAssumption DEF PlacesInv
  <2>4. QED
    BY <2>1, <2>2, <2>3 DEF PlacesInv
<1>8. MessagesInv'
  BY DEF MessagesInv, Taken
<1>9. QED
  BY <1>4, <1>6, <1>7, <1>8

\* Every step keeps the invariant, and none finds recycled_ full.
LEMMA NextLane ==
  ASSUME LaneInv, [Next]_vars
  PROVE  LaneInv' /\ UNCHANGED recycle_failed
<1>1. CASE BeginPublish \/ NoFreeSlot
  BY <1>1, PlaceOnly DEF BeginPublish, NoFreeSlot, worker
<1>2. CASE DrainRecycled
  BY <1>2, DrainStep DEF DrainRecycled, worker
<1>3. CASE TakeFreeSlot
  BY <1>3, TakeStep DEF TakeFreeSlot, worker
<1>4. CASE StoreMetadata \/ CopyBody
  BY <1>4, WriteStep DEF StoreMetadata, CopyBody, worker
<1>5. CASE PushReady
  BY <1>5, PushStep DEF PushReady, worker
<1>6. CASE TryConsume
  BY <1>6, ConsumeStep DEF TryConsume
<1>7. CASE Decode
  BY <1>7, DecodeStep DEF Decode
<1>8. CASE Release
  BY <1>8, ReleaseStep
<1>9. CASE Terminated \/ UNCHANGED vars
  <2>1. UNCHANGED vars
    BY <1>9 DEF Terminated
  <2>2. TypeInv' /\ HandsInv' /\ PlacesInv' /\ MessagesInv' /\ UNCHANGED recycle_failed
    BY <2>1 DEF LaneInv, TypeInv, HandsInv, PlacesInv, MessagesInv, Taken,
                vars, rings, slots, producer, worker
  <2>3. QED
    BY <2>2 DEF LaneInv
<1>10. QED
  BY <1>1, <1>2, <1>3, <1>4, <1>5, <1>6, <1>7, <1>8, <1>9 DEF Next

-----------------------------------------------------------------------------
(***************************************************************************)
(* What the invariant says of the lane.                                    *)
(***************************************************************************)
\* The members of two sequences end to end.
LEMMA ConcatFacts ==
  ASSUME NEW S, NEW s \in Seq(S), NEW t \in Seq(S)
  PROVE  /\ s \o t \in Seq(S) /\ Len(s \o t) = Len(s) + Len(t)
         /\ In(s \o t) = In(s) \cup In(t)
<1> DEFINE u == s \o t
           m == Len(s)
           n == Len(t)
<1>1. /\ m \in Nat /\ n \in Nat /\ u \in Seq(S) /\ Len(u) = m + n
      /\ \A i \in 1..m : u[i] = s[i]
      /\ \A i \in 1..n : u[m + i] = t[i]
  OBVIOUS
<1> HIDE DEF u, m, n
<1>2. /\ \A i \in 1..m : i \in 1..(m + n)
      /\ \A i \in 1..n : m + i \in 1..(m + n)
      /\ \A i \in 1..(m + n) : i \in 1..m \/ (i - m \in 1..n /\ m + (i - m) = i)
  BY <1>1
<1>3. \A i \in 1..(m + n) : u[i] \in In(s) \cup In(t)
  <2> SUFFICES ASSUME NEW i \in 1..(m + n), i \notin 1..m PROVE u[i] \in In(t)
    BY <1>1 DEF In, m
  <2>1. i - m \in 1..n /\ u[i] = t[i - m]
    BY <1>1, <1>2
  <2>2. QED
    BY <2>1 DEF In, n
<1>4. In(s) \subseteq In(u) /\ In(t) \subseteq In(u)
  BY <1>1, <1>2 DEF In, m, n
<1>5. In(u) = In(s) \cup In(t)
  <2>1. In(u) \subseteq In(s) \cup In(t)
    BY <1>1, <1>3 DEF In
  <2>2. QED
    BY <1>4, <2>1
<1>6. QED
  BY <1>1, <1>5 DEF u, m, n

\* The invariant gives every slot its one place.
LEMMA LaneOwner == ASSUME LaneInv PROVE OneOwner
<1> DEFINE P(slot) == IF slot = NoSlot THEN <<>> ELSE <<slot>>
<1>1. ASSUME NEW slot \in SlotIds \cup {NoSlot}
      PROVE  P(slot) \in Seq(SlotIds) /\ Len(P(slot)) = HandSize(slot) /\ In(P(slot)) = Hand(slot)
  BY DEF In, Hand, HandSize
<1>2. /\ free \in Seq(SlotIds) /\ ready \in Seq(SlotIds) /\ recycled \in Seq(SlotIds)
      /\ pslot \in SlotIds \cup {NoSlot} /\ cslot \in SlotIds \cup {NoSlot}
  BY DEF LaneInv, TypeInv
<1>3. Places = free \o ready \o recycled \o P(pslot) \o P(cslot)
  BY DEF Places
<1>4. /\ P(pslot) \in Seq(SlotIds) /\ Len(P(pslot)) = HandSize(pslot) /\ In(P(pslot)) = Hand(pslot)
      /\ P(cslot) \in Seq(SlotIds) /\ Len(P(cslot)) = HandSize(cslot) /\ In(P(cslot)) = Hand(cslot)
  BY <1>1, <1>2
<1> HIDE DEF P
<1>5. /\ free \o ready \in Seq(SlotIds) /\ Len(free \o ready) = Len(free) + Len(ready)
      /\ In(free \o ready) = In(free) \cup In(ready)
  BY <1>2, ConcatFacts
<1> DEFINE q == free \o ready
<1> HIDE DEF q
<1>6. /\ q \o recycled \in Seq(SlotIds) /\ Len(q \o recycled) = Len(q) + Len(recycled)
      /\ In(q \o recycled) = In(q) \cup In(recycled)
  <2>1. q \in Seq(SlotIds)
    BY <1>5 DEF q
  <2>2. QED
    BY <1>2, <2>1, ConcatFacts
<1> DEFINE r == q \o recycled
<1> HIDE DEF r
<1>7. /\ r \o P(pslot) \in Seq(SlotIds) /\ Len(r \o P(pslot)) = Len(r) + Len(P(pslot))
      /\ In(r \o P(pslot)) = In(r) \cup In(P(pslot))
  <2>1. r \in Seq(SlotIds)
    BY <1>6 DEF r
  <2>2. QED
    BY <1>4, <2>1, ConcatFacts
<1> DEFINE u == r \o P(pslot)
<1> HIDE DEF u
<1>8. /\ u \o P(cslot) \in Seq(SlotIds) /\ Len(u \o P(cslot)) = Len(u) + Len(P(cslot))
      /\ In(u \o P(cslot)) = In(u) \cup In(P(cslot))
  <2>1. u \in Seq(SlotIds)
    BY <1>7 DEF u
  <2>2. QED
    BY <1>4, <2>1, ConcatFacts
<1>9. Places = u \o P(cslot)
  BY <1>3 DEF u, r, q
<1>10. Len(Places) = Len(free) + Len(ready) + Len(recycled) + HandSize(pslot) + HandSize(cslot)
  BY <1>4, <1>5, <1>6, <1>7, <1>8, <1>9 DEF u, r, q
<1>11. In(Places) = In(free) \cup In(ready) \cup In(recycled) \cup Hand(pslot) \cup Hand(cslot)
  BY <1>4, <1>5, <1>6, <1>7, <1>8, <1>9 DEF u, r, q
<1>12. Len(Places) = SlotCount /\ In(Places) = SlotIds
  BY <1>10, <1>11 DEF LaneInv, PlacesInv
<1>13. QED
  BY <1>12 DEF OneOwner, In

\* Each slot is in exactly one place at all times, for every SlotCount: no slot of
\* LaneStorage leaks, is handed out twice or is touched by both threads.
THEOREM OneOwnerHolds == Spec => []OneOwner
<1>1. Init => LaneInv
  BY InitLane
<1>2. LaneInv /\ [Next]_vars => LaneInv'
  BY NextLane
<1>3. LaneInv => OneOwner
  BY LaneOwner
<1>4. QED
  BY <1>1, <1>2, <1>3, PTL DEF Spec

\* The worker reads the accepted messages in order, each once, metadata and body of
\* the same message, for every SlotCount and number of messages.
THEOREM ReceivedIntactHolds == Spec => []ReceivedIntact
<1>1. Init => LaneInv
  BY InitLane
<1>2. LaneInv /\ [Next]_vars => LaneInv'
  BY NextLane
<1>3. LaneInv => ReceivedIntact
  <2> SUFFICES ASSUME LaneInv PROVE ReceivedIntact
    OBVIOUS
  <2>1. Len(received) \in Nat /\ Len(ready) \in Nat /\ Len(accepted) \in Nat
    BY DEF LaneInv, TypeInv
  <2>2. QED
    BY <2>1 DEF LaneInv, MessagesInv, Taken, ReceivedIntact
<1>4. QED
  BY <1>1, <1>2, <1>3, PTL DEF Spec

\* TryPublish refuses a message only when the worker or the way to it has every
\* slot: one in hand, the others in ready_.
THEOREM RefusedOnlyWhenFullHolds == Spec => RefusedOnlyWhenFull
<1> DEFINE Full == (ppc = "drain" /\ ppc' = "idle") =>
                     Len(ready) + (IF cslot = NoSlot THEN 0 ELSE 1) = SlotCount
<1>1. Init => LaneInv
  BY InitLane
<1>2. LaneInv /\ [Next]_vars => LaneInv'
  BY NextLane
<1>3. LaneInv /\ [Next]_vars => [Full]_vars
  <2> SUFFICES ASSUME LaneInv, Next, ppc = "drain", ppc' = "idle"
               PROVE  Len(ready) + (IF cslot = NoSlot THEN 0 ELSE 1) = SlotCount
    OBVIOUS
  <2>1. NoFreeSlot
    BY DEF Next, BeginPublish, DrainRecycled, TakeFreeSlot, StoreMetadata, CopyBody, PushReady,
           TryConsume, Decode, Release, Terminated, producer, vars
  <2>2. Len(free) = 0 /\ Len(recycled) = 0 /\ HandSize(pslot) = 0 /\ Len(ready) \in Nat
    BY <2>1 DEF NoFreeSlot, LaneInv, HandsInv, TypeInv, HandSize
  <2>3. Len(free) + Len(ready) + Len(recycled) + HandSize(pslot) + HandSize(cslot) = SlotCount
    BY DEF LaneInv, PlacesInv
  <2>4. Len(ready) + HandSize(cslot) = SlotCount
    <3>1. HandSize(cslot) \in {0, 1}
      BY DEF HandSize
    <3>2. QED
      BY <2>2, <2>3, <3>1, LaneAssumption
  <2>5. QED
    BY <2>4 DEF HandSize
<1>4. QED
  BY <1>1, <1>2, <1>3, PTL DEF Spec, RefusedOnlyWhenFull, Full

\* Release never finds recycled_ full: the check it throws on cannot fail, for every
\* SlotCount and every ring at least that large.
THEOREM RecycleNeverFails == Spec => [](recycle_failed = FALSE)
<1>1. Init => LaneInv /\ recycle_failed = FALSE
  BY InitLane DEF Init
<1>2. LaneInv /\ recycle_failed = FALSE /\ [Next]_vars => LaneInv' /\ (recycle_failed = FALSE)'
  BY NextLane
<1>3. QED
  BY <1>1, <1>2, PTL DEF Spec
=============================================================================
