--------------------------- MODULE SpscRingProofs ---------------------------
(***************************************************************************)
(* SpscRing for every capacity, counter width and set of values: no cell   *)
(* is written and read together, and the ring implements BoundedFifo.      *)
(***************************************************************************)
EXTENDS SpscRing, Integers, TLAPS

(***************************************************************************)
(* Arithmetic of the counters.                                             *)
(***************************************************************************)

\* What % and \div are.
LEMMA DivMod ==
  ASSUME NEW c \in Nat \ {0}, NEW n \in Nat
  PROVE  /\ n \div c \in Int /\ n % c \in 0..(c - 1)
         /\ n = c * (n \div c) + (n % c)
OBVIOUS

\* Quotient and remainder are unique.
LEMMA DivModUnique ==
  ASSUME NEW c \in Nat \ {0}, NEW q \in Int, NEW p \in Int,
         NEW r \in 0..(c - 1), NEW s \in 0..(c - 1), c * q + r = c * p + s
  PROVE  q = p /\ r = s
OBVIOUS

\* Numbers less than c apart differ modulo c.
LEMMA ModDiffers ==
  ASSUME NEW c \in Nat \ {0}, NEW n \in Nat, NEW m \in Nat, n < m, m < n + c
  PROVE  n % c # m % c
<1> SUFFICES ASSUME n % c = m % c PROVE FALSE
  OBVIOUS
<1> DEFINE q == n \div c
           p == m \div c
<1>1. q \in Int /\ p \in Int /\ n = c * q + (n % c) /\ m = c * p + (n % c)
  BY DivMod
<1> HIDE DEF q, p
<1>2. m - n = c * (p - q)
  BY <1>1
<1>3. p - q <= 0 \/ p - q >= 1
  BY <1>1
<1>4. QED
  BY <1>1, <1>2, <1>3

\* Reducing by the width of the counters first does not change an index, since the
\* capacity divides the width.
LEMMA WrapIndex ==
  ASSUME NEW n \in Nat, n < 2 * Wrap
  PROVE  n % Wrap \in Counter /\ Index(n % Wrap) = Index(n)
<1> USE RingAssumption
<1>1. CASE n < Wrap
  BY <1>1 DEF Index, Counter
<1>2. CASE n >= Wrap
  <2> DEFINE m == n - Wrap
             k == Wrap \div Capacity
             q == m \div Capacity
  <2>1. m \in Nat /\ m < Wrap /\ n % Wrap = m
    BY <1>2
  <2>2. k \in Int /\ Wrap = Capacity * k
    BY DivMod
  <2>3. q \in Int /\ m % Capacity \in 0..(Capacity - 1) /\ m = Capacity * q + (m % Capacity)
    BY <2>1, DivMod
  <2> HIDE DEF m, k, q
  <2>4. n = Capacity * (q + k) + (m % Capacity)
    <3>1. Capacity * (q + k) = Capacity * q + Capacity * k
      BY <2>2, <2>3
    <3>2. Capacity * q \in Int
      BY <2>3
    <3>3. n = m + Wrap
      BY <2>1 DEF m
    <3>4. QED
      BY <2>1, <2>2, <2>3, <3>1, <3>2, <3>3
  <2>5. /\ n \div Capacity \in Int /\ n % Capacity \in 0..(Capacity - 1)
        /\ n = Capacity * (n \div Capacity) + (n % Capacity)
    BY DivMod
  <2>6. n % Capacity = m % Capacity
    <3> DEFINE p == n \div Capacity
               u == q + k
               r == n % Capacity
               v == m % Capacity
    <3>1. p \in Int /\ u \in Int /\ r \in 0..(Capacity - 1) /\ v \in 0..(Capacity - 1)
      BY <2>2, <2>3, <2>5
    <3>2. Capacity * p + r = Capacity * u + v
      BY <2>4, <2>5
    <3> HIDE DEF p, u, r, v
    <3>3. r = v
      BY <3>1, <3>2, DivModUnique
    <3>4. QED
      BY <3>3 DEF r, v
  <2>7. QED
    BY <2>1, <2>6 DEF Index, Counter
<1>3. QED
  BY <1>1, <1>2

\* The unsigned difference of two counters.
LEMMA DistanceIs ==
  ASSUME NEW a \in Counter, NEW b \in Counter
  PROVE  /\ Distance(a, b) = IF a >= b THEN a - b ELSE a + Wrap - b
         /\ Distance(a, b) \in Nat /\ Distance(a, b) < Wrap
         /\ Distance(a, b) = 0 <=> a = b
         /\ a = (b + Distance(a, b)) % Wrap
<1> USE RingAssumption
<1>1. CASE a >= b
  BY <1>1 DEF Distance, Counter
<1>2. CASE a < b
  BY <1>2 DEF Distance, Counter
<1>3. QED
  BY <1>1, <1>2 DEF Counter

\* Advancing the first counter lengthens a distance short of the width; advancing
\* the second shortens a distance that is not zero.
LEMMA DistanceAdvance ==
  ASSUME NEW a \in Counter, NEW b \in Counter
  PROVE  /\ Advance(a) \in Counter
         /\ Distance(a, b) + 1 < Wrap => Distance(Advance(a), b) = Distance(a, b) + 1
         /\ Distance(a, b) > 0 => Distance(a, Advance(b)) = Distance(a, b) - 1
<1> USE RingAssumption
<1>1. \A n \in Counter : Advance(n) = IF n = Wrap - 1 THEN 0 ELSE n + 1
  BY DEF Advance, Counter
<1>2. Advance(a) \in Counter /\ Advance(b) \in Counter
  BY <1>1 DEF Counter
<1> DEFINE D(x, y) == IF x >= y THEN x - y ELSE x + Wrap - y
<1>3. /\ Distance(a, b) = D(a, b) /\ Distance(Advance(a), b) = D(Advance(a), b)
      /\ Distance(a, Advance(b)) = D(a, Advance(b))
  BY <1>2, DistanceIs
<1>4. D(a, b) + 1 < Wrap => D(Advance(a), b) = D(a, b) + 1
  BY <1>1 DEF Counter
<1>5. D(a, b) > 0 => D(a, Advance(b)) = D(a, b) - 1
  BY <1>1 DEF Counter
<1> HIDE DEF D
<1>6. QED
  BY <1>2, <1>3, <1>4, <1>5

\* The cell of the i-th record from a counter on.
Cell(n, i) == Index((n + i) % Wrap)

\* Records less than a capacity apart have different cells.
LEMMA CellsDiffer ==
  ASSUME NEW n \in Counter, NEW i \in Nat, NEW j \in Nat, i < j, j <= Capacity, j < i + Capacity
  PROVE  /\ Cell(n, i) # Cell(n, j)
         /\ Cell(n, i) \in 0..(Capacity - 1)
<1> USE RingAssumption
<1>1. /\ n + i \in Nat /\ n + j \in Nat /\ n + j < 2 * Wrap /\ n + i < 2 * Wrap
      /\ n + i < n + j /\ n + j < n + i + Capacity
  BY DEF Counter
<1>2. Cell(n, i) = (n + i) % Capacity /\ Cell(n, j) = (n + j) % Capacity
  BY <1>1, WrapIndex DEF Cell, Index
<1>3. QED
  BY <1>1, <1>2, ModDiffers, DivMod

-----------------------------------------------------------------------------
(***************************************************************************)
(* The inductive invariant.                                                *)
(***************************************************************************)
Length == Distance(head, tail)

CountersInv ==
  /\ head \in Counter /\ tail \in Counter
  /\ cached_tail \in Counter /\ cached_head \in Counter
  /\ ppc \in {"idle", "reload", "store", "publish"}
  /\ cpc \in {"idle", "reload", "load", "release"}

\* Every record between tail_ and head_ was written.
StorageInv ==
  /\ storage \in [0..(Capacity - 1) -> Values \cup {NoValue}]
  /\ \A i \in 0..(Length - 1) : storage[Cell(tail, i)] \in Values

\* Past its test, the producer has room for one more by its own copy, and after the
\* store the cell at head_ is its argument.
ProducerInv ==
  /\ ppc # "idle" => value \in Values
  /\ ppc \in {"store", "publish"} => Distance(head, cached_tail) < Capacity
  /\ ppc = "publish" => storage[Index(head)] = value

\* Past its test, the consumer has a record by its own copy, and after the load
\* it holds the record at tail_.
ConsumerInv ==
  /\ cpc \in {"load", "release"} => cached_head # tail
  /\ cpc = "release" => output = storage[Index(tail)]

RingInv == CountersInv /\ CachesConservative /\ StorageInv /\ ProducerInv /\ ConsumerInv

\* The facts about the distances that every step needs.
LEMMA Distances ==
  ASSUME RingInv
  PROVE  /\ Length \in Nat /\ Length <= Capacity /\ Capacity < Wrap
         /\ Distance(head, cached_tail) \in Nat /\ Distance(cached_head, tail) \in Nat
         /\ Length <= Distance(head, cached_tail) /\ Distance(head, cached_tail) <= Capacity
         /\ Distance(cached_head, tail) <= Length
         /\ Cell(tail, 0) = Index(tail) /\ Cell(tail, Length) = Index(head)
<1> USE RingAssumption
<1>1. /\ Length \in Nat /\ Distance(head, cached_tail) \in Nat
      /\ Distance(cached_head, tail) \in Nat
      /\ head = (tail + Length) % Wrap
  BY DistanceIs DEF RingInv, CountersInv, Length
<1>2. tail % Wrap = tail
  BY DEF RingInv, CountersInv, Counter
<1>3. tail + 0 = tail
  BY DEF RingInv, CountersInv, Counter
<1>4. Cell(tail, 0) = Index(tail) /\ Cell(tail, Length) = Index(head)
  BY <1>1, <1>2, <1>3 DEF Cell
<1>5. QED
  BY <1>1, <1>4 DEF RingInv, CachesConservative, Length

\* The producer's test leaves no room for a record that overwrites one not taken:
\* a stale copy of tail_ errs on the safe side.
LEMMA NoRace == ASSUME RingInv PROVE NoCellRace
<1> SUFFICES ASSUME ppc = "store", cpc = "load" PROVE Index(head) # Index(tail)
  BY DEF NoCellRace
<1>1. /\ Length < Capacity /\ Length > 0 /\ Length \in Nat /\ tail \in Counter
  <2>1. Distance(head, cached_tail) < Capacity /\ cached_head # tail
    BY DEF RingInv, ProducerInv, ConsumerInv
  <2>2. Distance(cached_head, tail) # 0
    BY <2>1, DistanceIs DEF RingInv, CountersInv
  <2>3. QED
    BY <2>1, <2>2, Distances, RingAssumption DEF RingInv, CountersInv
<1>2. Cell(tail, 0) # Cell(tail, Length)
  BY <1>1, CellsDiffer, RingAssumption
<1>3. QED
  BY <1>2, Distances

-----------------------------------------------------------------------------
(***************************************************************************)
(* The refinement mapping: Contents is the queue.                          *)
(***************************************************************************)

\* Contents is the sequence of the records between tail_ and head_.
LEMMA ContentsIs ==
  ASSUME RingInv
  PROVE  /\ Contents = [i \in 1..Length |-> storage[Cell(tail, i - 1)]]
         /\ Contents \in Seq(Values) /\ Len(Contents) = Length
<1>1. Length \in Nat /\ tail \in Nat
  BY Distances DEF RingInv, CountersInv, Counter
<1>2. Contents = [i \in 1..Length |-> storage[Cell(tail, i - 1)]]
  <2>1. \A i \in 1..Length : tail + i - 1 = tail + (i - 1)
    BY <1>1
  <2>2. QED
    BY <2>1 DEF Contents, Cell, Length
<1>3. \A i \in 1..Length : storage[Cell(tail, i - 1)] \in Values
  <2>1. \A i \in 1..Length : i - 1 \in 0..(Length - 1)
    BY <1>1
  <2>2. QED
    BY <2>1 DEF RingInv, StorageInv
<1>4. QED
  BY <1>1, <1>2, <1>3

\* A ring without records is the empty queue.
LEMMA ContentsEmpty ==
  ASSUME RingInv
  PROVE  Contents = <<>> <=> head = tail
<1>1. Length = 0 <=> head = tail
  BY DistanceIs DEF RingInv, CountersInv, Length
<1>2. QED
  BY <1>1, ContentsIs

\* Steps that leave the counters and cells alone leave the queue alone.
LEMMA SameContents ==
  ASSUME UNCHANGED <<head, tail, storage>>
  PROVE  Contents' = Contents /\ Length' = Length
BY DEF Contents, Length

\* The ring is empty and idle at first.
LEMMA InitRing == ASSUME Init PROVE RingInv /\ Fifo!Init
<1> USE RingAssumption
<1>1. CountersInv
  BY DEF Init, CountersInv, Counter
<1>2. Distance(0, 0) = 0
  BY <1>1, DistanceIs DEF Init, CountersInv
<1>3. CachesConservative
  BY <1>2 DEF Init, CachesConservative
<1>4. StorageInv /\ ProducerInv /\ ConsumerInv
  BY <1>2 DEF Init, StorageInv, ProducerInv, ConsumerInv, Length
<1>5. RingInv
  BY <1>1, <1>3, <1>4 DEF RingInv
<1>6. Contents = <<>>
  BY <1>5, ContentsEmpty DEF Init
<1>7. QED
  BY <1>5, <1>6 DEF Init, Fifo!Init

\* TryPush begins: the queue does not change.
LEMMA BeginPushStep ==
  ASSUME RingInv, NEW v \in Values, BeginPush(v)
  PROVE  RingInv' /\ UNCHANGED Fifo!vars
<1>1. /\ value' = v /\ ppc' = IF Full(head, cached_tail) THEN "reload" ELSE "store"
      /\ UNCHANGED <<head, tail, cached_tail, cached_head, storage, cpc, output>>
      /\ UNCHANGED <<pushed, popped, empty>>
  BY DEF BeginPush, consumer
<1>2. Contents' = Contents /\ Length' = Length
  BY <1>1, SameContents
<1>3. CountersInv' /\ CachesConservative' /\ StorageInv' /\ ConsumerInv'
  BY <1>1, <1>2 DEF RingInv, CountersInv, CachesConservative, StorageInv, ConsumerInv
<1>4. ~Full(head, cached_tail) => Distance(head, cached_tail) < Capacity
  BY Distances, RingAssumption DEF Full
<1>5. ProducerInv'
  BY <1>1, <1>4 DEF ProducerInv
<1>6. QED
  BY <1>1, <1>2, <1>3, <1>5 DEF RingInv, Fifo!vars

\* The reload of tail_: the copy becomes exact, and the push is refused only when
\* the queue is full.
LEMMA ReloadTailStep ==
  ASSUME RingInv, ReloadTail
  PROVE  RingInv' /\ (Fifo!PushFull \/ UNCHANGED Fifo!vars)
<1>1. /\ ppc = "reload" /\ cached_tail' = tail
      /\ IF Full(head, tail) THEN ppc' = "idle" /\ pushed' = "full"
                             ELSE ppc' = "store" /\ UNCHANGED pushed
      /\ UNCHANGED <<head, tail, cached_head, storage, cpc, output, value>>
      /\ UNCHANGED <<popped, empty>>
  BY DEF ReloadTail, consumer
<1>2. Contents' = Contents /\ Length' = Length
  BY <1>1, SameContents
<1>3. CountersInv' /\ StorageInv' /\ ConsumerInv'
  BY <1>1, <1>2 DEF RingInv, CountersInv, StorageInv, ConsumerInv
<1>4. Length \in Nat /\ Length <= Capacity
  BY Distances
<1>5. CachesConservative'
  BY <1>1, <1>4 DEF RingInv, CachesConservative, Length
<1>6. Full(head, tail) <=> Length = Capacity
  BY <1>4, RingAssumption DEF Full, Length
<1>7. ProducerInv'
  BY <1>1, <1>4, <1>6, RingAssumption DEF RingInv, ProducerInv, Length
<1>8. CASE Full(head, tail)
  BY <1>1, <1>2, <1>3, <1>5, <1>6, <1>7, <1>8, ContentsIs DEF RingInv, Fifo!PushFull
<1>9. CASE ~Full(head, tail)
  BY <1>1, <1>2, <1>3, <1>5, <1>7, <1>9 DEF RingInv, Fifo!vars
<1>10. QED
  BY <1>8, <1>9

\* The store into the cell at head_ touches no record of the queue.
LEMMA StoreValueStep ==
  ASSUME RingInv, StoreValue
  PROVE  RingInv' /\ UNCHANGED Fifo!vars
<1> USE RingAssumption
<1>1. /\ ppc = "store" /\ ppc' = "publish"
      /\ storage' = [storage EXCEPT ![Index(head)] = value]
      /\ UNCHANGED <<head, tail, cached_tail, cached_head, cpc, output, value>>
      /\ UNCHANGED <<pushed, popped, empty>>
  BY DEF StoreValue, consumer
<1>2. /\ value \in Values /\ Length \in Nat /\ Length < Capacity /\ tail \in Counter
      /\ Distance(head, cached_tail) < Capacity
  BY <1>1, Distances DEF RingInv, ProducerInv, CountersInv
<1>3. Length' = Length
  BY <1>1 DEF Length
<1>4. Index(head) = Cell(tail, Length) /\ Index(head) \in 0..(Capacity - 1)
  <2>1. head \in Nat
    BY DEF RingInv, CountersInv, Counter
  <2>2. QED
    BY <2>1, Distances, DivMod DEF Index
<1>5. \A i \in 0..(Length - 1) : storage'[Cell(tail, i)] = storage[Cell(tail, i)]
  <2> SUFFICES ASSUME NEW i \in 0..(Length - 1)
               PROVE  storage'[Cell(tail, i)] = storage[Cell(tail, i)]
    OBVIOUS
  <2>1. Cell(tail, i) # Cell(tail, Length) /\ Cell(tail, i) \in 0..(Capacity - 1)
    BY <1>2, CellsDiffer
  <2>2. QED
    BY <1>1, <1>4, <2>1 DEF RingInv, StorageInv
<1>6. CountersInv' /\ CachesConservative'
  BY <1>1 DEF RingInv, CountersInv, CachesConservative
<1>7. StorageInv'
  <2>1. storage' \in [0..(Capacity - 1) -> Values \cup {NoValue}]
    BY <1>1, <1>2, <1>4 DEF RingInv, StorageInv
  <2>2. \A i \in 0..(Length - 1) : storage'[Cell(tail, i)] \in Values
    BY <1>5 DEF RingInv, StorageInv
  <2>3. QED
    BY <1>1, <1>3, <2>1, <2>2 DEF StorageInv, Cell
<1>8. ProducerInv'
  BY <1>1, <1>2, <1>4 DEF RingInv, ProducerInv, StorageInv
<1>9. ConsumerInv'
  <2>1. CASE cpc = "release"
    <3>1. cached_head # tail /\ output = storage[Index(tail)]
      BY <2>1 DEF RingInv, ConsumerInv
    <3>2. Distance(cached_head, tail) # 0
      BY <3>1, DistanceIs DEF RingInv, CountersInv
    <3>3. Length > 0
      BY <3>2, Distances
    <3>4. storage'[Index(tail)] = storage[Index(tail)]
      BY <1>2, <1>5, <3>3, Distances
    <3>5. QED
      BY <1>1, <3>1, <3>4 DEF ConsumerInv
  <2>2. CASE cpc # "release"
    BY <1>1, <2>2 DEF RingInv, ConsumerInv
  <2>3. QED
    BY <2>1, <2>2
<1>10. RingInv'
  BY <1>6, <1>7, <1>8, <1>9 DEF RingInv
<1>11. Contents' = Contents
  <2>1. Contents' = [i \in 1..Length |-> storage'[Cell(tail, i - 1)]]
    BY <1>1, <1>3, <1>2 DEF Contents, Cell, Length, Counter
  <2>2. \A i \in 1..Length : i - 1 \in 0..(Length - 1)
    BY <1>2
  <2>3. QED
    BY <1>5, <2>1, <2>2, ContentsIs
<1>12. QED
  BY <1>1, <1>10, <1>11 DEF Fifo!vars

\* The store of head_ is the push: the record in the cell at head_ joins the queue.
LEMMA PublishHeadStep ==
  ASSUME RingInv, PublishHead
  PROVE  RingInv' /\ \E v \in Values : Fifo!Push(v)
<1> USE RingAssumption
<1>1. /\ ppc = "publish" /\ ppc' = "idle" /\ head' = Advance(head) /\ pushed' = "ok"
      /\ UNCHANGED <<tail, cached_tail, cached_head, storage, cpc, output, value>>
      /\ UNCHANGED <<popped, empty>>
  BY DEF PublishHead, consumer
<1>2. /\ value \in Values /\ storage[Cell(tail, Length)] = value
      /\ Length \in Nat /\ Length < Capacity /\ tail \in Counter /\ head \in Counter
      /\ Distance(head, cached_tail) < Capacity /\ Distance(head, cached_tail) \in Nat
      /\ cached_tail \in Counter
  BY <1>1, Distances DEF RingInv, ProducerInv, CountersInv
<1>3. /\ head' \in Counter /\ Length' = Length + 1
      /\ Distance(head', cached_tail) = Distance(head, cached_tail) + 1
  BY <1>1, <1>2, DistanceAdvance DEF Length
<1>4. CountersInv'
  BY <1>1, <1>3 DEF RingInv, CountersInv
<1>5. CachesConservative'
  BY <1>1, <1>2, <1>3, Distances DEF CachesConservative, Length
<1>6. StorageInv'
  <2>1. \A i \in 0..Length : storage[Cell(tail, i)] \in Values
    <3>1. \A i \in 0..Length : i \in 0..(Length - 1) \/ i = Length
      BY <1>2
    <3>2. QED
      BY <1>2, <3>1 DEF RingInv, StorageInv
  <2>2. Length' - 1 = Length
    BY <1>2, <1>3
  <2>3. QED
    BY <1>1, <2>1, <2>2 DEF RingInv, StorageInv, Cell
<1>7. ProducerInv' /\ ConsumerInv'
  BY <1>1 DEF RingInv, ProducerInv, ConsumerInv
<1>8. RingInv'
  BY <1>4, <1>5, <1>6, <1>7 DEF RingInv
<1>9. Contents' = Append(Contents, value)
  <2>1. Contents' = [i \in 1..(Length + 1) |-> storage[Cell(tail, i - 1)]]
    BY <1>1, <1>2, <1>3 DEF Contents, Cell, Length, Counter
  <2>2. Contents = [i \in 1..Length |-> storage[Cell(tail, i - 1)]]
        /\ Contents \in Seq(Values) /\ Len(Contents) = Length
    BY ContentsIs
  <2>3. (Length + 1) - 1 = Length
    BY <1>2
  <2> HIDE DEF Length
  <2>4. Append(Contents, value) =
          [i \in 1..(Length + 1) |-> IF i <= Length THEN Contents[i] ELSE value]
    BY <1>2, <2>2
  <2>5. \A i \in 1..(Length + 1) :
          storage[Cell(tail, i - 1)] = IF i <= Length THEN Contents[i] ELSE value
    <3> SUFFICES ASSUME NEW i \in 1..(Length + 1)
                 PROVE  storage[Cell(tail, i - 1)] = IF i <= Length THEN Contents[i] ELSE value
      OBVIOUS
    <3>1. CASE i <= Length
      <4>1. i \in 1..Length
        BY <1>2, <3>1
      <4>2. QED
        BY <2>2, <3>1, <4>1
    <3>2. CASE i = Length + 1
      BY <1>2, <2>3, <3>2
    <3>3. QED
      BY <1>2, <3>1, <3>2
  <2>6. QED
    BY <2>1, <2>4, <2>5
<1>10. Len(Contents) < Capacity
  BY <1>2, ContentsIs
<1>11. QED
  BY <1>1, <1>2, <1>8, <1>9, <1>10 DEF Fifo!Push

\* TryPop begins, or loads the record at tail_: the queue does not change.
LEMMA BeginPopStep ==
  ASSUME RingInv, BeginPop \/ LoadValue
  PROVE  RingInv' /\ UNCHANGED Fifo!vars
<1>1. /\ UNCHANGED <<head, tail, cached_tail, cached_head, storage, ppc, value>>
      /\ UNCHANGED <<pushed, popped, empty>>
  BY DEF BeginPop, LoadValue, producer
<1>2. Contents' = Contents /\ Length' = Length
  BY <1>1, SameContents
<1>3. CachesConservative' /\ StorageInv' /\ ProducerInv'
  BY <1>1, <1>2 DEF RingInv, CachesConservative, StorageInv, ProducerInv
<1>4. CountersInv' /\ ConsumerInv'
  BY <1>1 DEF BeginPop, LoadValue, RingInv, CountersInv, ConsumerInv
<1>5. QED
  BY <1>1, <1>2, <1>3, <1>4 DEF RingInv, Fifo!vars

\* The reload of head_: the copy becomes exact, and the pop is refused only when the
\* queue is empty.
LEMMA ReloadHeadStep ==
  ASSUME RingInv, ReloadHead
  PROVE  RingInv' /\ (Fifo!PopEmpty \/ UNCHANGED Fifo!vars)
<1>1. /\ cpc = "reload" /\ cached_head' = head
      /\ IF head = tail THEN cpc' = "idle" /\ popped' = <<>>
                        ELSE cpc' = "load" /\ UNCHANGED popped
      /\ UNCHANGED <<head, tail, cached_tail, storage, ppc, value, output>>
      /\ UNCHANGED <<pushed, empty>>
  BY DEF ReloadHead, producer
<1>2. Contents' = Contents /\ Length' = Length
  BY <1>1, SameContents
<1>3. CountersInv' /\ StorageInv' /\ ProducerInv' /\ ConsumerInv'
  BY <1>1, <1>2 DEF RingInv, CountersInv, StorageInv, ProducerInv, ConsumerInv
<1>4. CachesConservative'
  BY <1>1, Distances DEF RingInv, CachesConservative, Length
<1>5. CASE head = tail
  BY <1>1, <1>2, <1>3, <1>4, <1>5, ContentsEmpty DEF RingInv, Fifo!PopEmpty
<1>6. CASE head # tail
  BY <1>1, <1>2, <1>3, <1>4, <1>6 DEF RingInv, Fifo!vars
<1>7. QED
  BY <1>5, <1>6

\* The store of tail_ is the pop: the record loaded before is the oldest one.
LEMMA ReleaseTailStep ==
  ASSUME RingInv, ReleaseTail
  PROVE  RingInv' /\ Fifo!Pop
<1> USE RingAssumption
<1>1. /\ cpc = "release" /\ cpc' = "idle" /\ tail' = Advance(tail) /\ popped' = <<output>>
      /\ UNCHANGED <<head, cached_tail, cached_head, storage, ppc, output, value>>
      /\ UNCHANGED <<pushed, empty>>
  BY DEF ReleaseTail, producer
<1>2. /\ cached_head # tail /\ output = storage[Index(tail)]
      /\ tail \in Counter /\ head \in Counter /\ cached_head \in Counter
  BY <1>1 DEF RingInv, ConsumerInv, CountersInv
<1>3. /\ Distance(cached_head, tail) > 0 /\ Distance(cached_head, tail) \in Nat
      /\ Length \in Nat /\ Length > 0 /\ Length <= Capacity
  BY <1>2, Distances, DistanceIs
<1>4. /\ tail' \in Counter /\ Length' = Length - 1
      /\ Distance(cached_head, tail') = Distance(cached_head, tail) - 1
  BY <1>1, <1>2, <1>3, DistanceAdvance DEF Length
<1>5. CountersInv'
  BY <1>1, <1>4 DEF RingInv, CountersInv
<1>6. CachesConservative'
  BY <1>1, <1>3, <1>4, Distances DEF CachesConservative, Length
<1>7. \A i \in 0..(Length - 1) : Cell(tail', i) = Cell(tail, i + 1)
  <2> SUFFICES ASSUME NEW i \in 0..(Length - 1)
               PROVE  Cell(tail', i) = Cell(tail, i + 1)
    OBVIOUS
  <2>1. /\ i \in Nat /\ i < Wrap /\ tail \in Nat /\ tail < Wrap
        /\ tail' = IF tail = Wrap - 1 THEN 0 ELSE tail + 1
    BY <1>1, <1>2, <1>3 DEF Counter, Advance
  <2>2. CASE tail = Wrap - 1
    <3>1. tail + (i + 1) = Wrap + i /\ tail' + i = i
      BY <2>1, <2>2
    <3>2. (Wrap + i) % Wrap = i /\ i % Wrap = i
      BY <2>1
    <3>3. QED
      BY <3>1, <3>2 DEF Cell
  <2>3. CASE tail # Wrap - 1
    <3>1. tail' + i = tail + (i + 1)
      BY <2>1, <2>3
    <3>2. QED
      BY <3>1 DEF Cell
  <2>4. QED
    BY <2>2, <2>3
<1>8. StorageInv'
  <2>1. \A i \in 0..(Length - 2) : i + 1 \in 0..(Length - 1) /\ i \in 0..(Length - 1)
    BY <1>3
  <2>2. \A i \in 0..(Length - 2) : storage[Cell(tail', i)] \in Values
    BY <1>7, <2>1 DEF RingInv, StorageInv
  <2>3. Length' - 1 = Length - 2
    BY <1>3, <1>4
  <2>4. QED
    BY <1>1, <2>2, <2>3 DEF RingInv, StorageInv, Cell
<1>9. ProducerInv' /\ ConsumerInv'
  BY <1>1 DEF RingInv, ProducerInv, ConsumerInv
<1>10. RingInv'
  BY <1>5, <1>6, <1>8, <1>9 DEF RingInv
<1>11. /\ Contents = [i \in 1..Length |-> storage[Cell(tail, i - 1)]]
       /\ Contents \in Seq(Values) /\ Len(Contents) = Length
  BY ContentsIs
<1>12. Contents' = Tail(Contents)
  <2>1. Contents' = [i \in 1..(Length - 1) |-> storage[Cell(tail', i - 1)]]
    BY <1>1, <1>2, <1>4 DEF Contents, Cell, Length, Counter
  <2>2. Tail(Contents) = [i \in 1..(Length - 1) |-> Contents[i + 1]]
    BY <1>3, <1>11
  <2>3. \A i \in 1..(Length - 1) : Contents[i + 1] = storage[Cell(tail', i - 1)]
    <3> SUFFICES ASSUME NEW i \in 1..(Length - 1)
                 PROVE  Contents[i + 1] = storage[Cell(tail', i - 1)]
      OBVIOUS
    <3>1. i + 1 \in 1..Length /\ i - 1 \in 0..(Length - 1) /\ (i + 1) - 1 = (i - 1) + 1
      BY <1>3
    <3>2. Cell(tail', i - 1) = Cell(tail, (i - 1) + 1)
      BY <1>7, <3>1
    <3>3. QED
      BY <1>11, <3>1, <3>2
  <2>4. QED
    BY <2>1, <2>2, <2>3
<1>13. Contents # <<>> /\ output = Head(Contents)
  <2>1. Contents[1] = storage[Cell(tail, 0)]
    BY <1>3, <1>11
  <2>2. Contents # <<>> /\ Head(Contents) = Contents[1]
    BY <1>3, <1>11
  <2>3. QED
    BY <1>2, <2>1, <2>2, Distances
<1>14. QED
  BY <1>1, <1>10, <1>12, <1>13 DEF Fifo!Pop

\* empty() answers for the queue.
LEMMA TestEmptyStep ==
  ASSUME RingInv, TestEmpty
  PROVE  RingInv' /\ Fifo!TestEmpty
<1>1. /\ empty' = (tail = head)
      /\ UNCHANGED <<head, tail, cached_tail, cached_head, storage, ppc, cpc, output, value>>
      /\ UNCHANGED <<pushed, popped>>
  BY DEF TestEmpty, producer
<1>2. Contents' = Contents /\ Length' = Length
  BY <1>1, SameContents
<1>3. RingInv'
  BY <1>1, <1>2 DEF RingInv, CountersInv, CachesConservative, StorageInv, ProducerInv, ConsumerInv
<1>4. empty' = (Contents = <<>>)
  BY <1>1, ContentsEmpty
<1>5. QED
  BY <1>1, <1>2, <1>3, <1>4 DEF Fifo!TestEmpty

\* Every step of the ring keeps the invariant and is a step of the queue or none.
LEMMA RingStep ==
  ASSUME RingInv, [Next]_vars
  PROVE  RingInv' /\ [Fifo!Next]_(Fifo!vars)
<1>1. CASE UNCHANGED vars
  <2>1. /\ UNCHANGED <<head, tail, cached_tail, cached_head, storage, ppc, cpc, output, value>>
        /\ UNCHANGED <<pushed, popped, empty>>
    BY <1>1 DEF vars, producer, consumer
  <2>2. Contents' = Contents /\ Length' = Length
    BY <2>1, SameContents
  <2>3. QED
    BY <2>1, <2>2
       DEF RingInv, CountersInv, CachesConservative, StorageInv, ProducerInv, ConsumerInv,
           Fifo!vars
<1>2. CASE Next
  BY <1>2, BeginPushStep, ReloadTailStep, StoreValueStep, PublishHeadStep, BeginPopStep,
     ReloadHeadStep, ReleaseTailStep, TestEmptyStep DEF Next, Fifo!Next
<1>3. QED
  BY <1>1, <1>2

-----------------------------------------------------------------------------
\* TryPush never writes the cell TryPop is reading, for every capacity and width of
\* the counters, however stale the cached copies are.
THEOREM NoCellRaceHolds == Spec => []NoCellRace
<1>1. Init => RingInv
  BY InitRing
<1>2. RingInv /\ [Next]_vars => RingInv'
  BY RingStep
<1>3. RingInv => NoCellRace
  BY NoRace
<1>4. QED
  BY <1>1, <1>2, <1>3, PTL DEF Spec

\* The copies never promise room or records that are not there.
THEOREM CachesConservativeHolds == Spec => []CachesConservative
<1>1. Init => RingInv
  BY InitRing
<1>2. RingInv /\ [Next]_vars => RingInv'
  BY RingStep
<1>3. RingInv => CachesConservative
  BY DEF RingInv
<1>4. QED
  BY <1>1, <1>2, <1>3, PTL DEF Spec

\* The ring is a bounded queue, for every capacity, width of the counters and set of
\* values: TryPush and TryPop implement BoundedFifo, step by step.
THEOREM RingImplementsFifo == Spec => ImplementsFifo
<1>1. Init => RingInv /\ Fifo!Init
  BY InitRing
<1>2. RingInv /\ [Next]_vars => RingInv' /\ [Fifo!Next]_(Fifo!vars)
  BY RingStep
<1>3. QED
  BY <1>1, <1>2, PTL DEF Spec, ImplementsFifo, Fifo!Spec
=============================================================================
