------------------------------ MODULE SpscRing ------------------------------
(***************************************************************************)
(* SpscRing<T> (src/engine.cpp): the single-producer single-consumer ring  *)
(* under every lane and every output queue.  Each shared load and store of *)
(* TryPush and TryPop is a step of its own; head_ and tail_ are counters   *)
(* of fixed width that wrap, and each side works from a cached copy of the *)
(* other side's counter until the copy says the ring is full or empty.     *)
(*                                                                         *)
(* Loads of a thread's own counter cannot be interfered with and share a   *)
(* step with what follows.  The acquire loads and release stores order the *)
(* accesses to the cells exactly as the interleaving of these steps does.  *)
(***************************************************************************)
EXTENDS Naturals, Sequences

CONSTANTS
  Values,     \* what the ring carries
  NoValue,    \* contents of a cell never written (UninitializedArray)
  Capacity,   \* capacity_, a power of two
  Wrap        \* number of values of a counter (2^64 in the code)

ASSUME RingAssumption ==
  /\ Capacity \in Nat \ {0} /\ Wrap \in Nat
  /\ Wrap % Capacity = 0 /\ Wrap > Capacity
  /\ NoValue \notin Values

VARIABLES
  head, tail,                \* head_ and tail_
  cached_tail, cached_head,  \* the producer's and the consumer's copies
  storage,                   \* storage_
  ppc, value,                \* producer: place in TryPush, argument
  cpc, output,               \* consumer: place in TryPop, value loaded
  pushed, popped, empty      \* results, as in BoundedFifo

producer == <<head, cached_tail, ppc, value, pushed>>
consumer == <<tail, cached_head, cpc, output, popped, empty>>
vars == <<producer, consumer, storage>>

Counter == 0..(Wrap - 1)
Index(n) == n % Capacity                \* n & mask_
Advance(n) == (n + 1) % Wrap
Distance(a, b) == (a + Wrap - b) % Wrap \* a - b in std::uint64_t

\* Mutant: the difference is not taken modulo the width of the counters.
FullWithoutWrap(h, t) == h >= t + Capacity
\* Mutant: one record too many.
FullOffByOne(h, t) == Distance(h, t) > Capacity

Full(h, t) == Distance(h, t) >= Capacity

Init ==
  /\ head = 0 /\ tail = 0 /\ cached_tail = 0 /\ cached_head = 0
  /\ storage = [i \in 0..(Capacity - 1) |-> NoValue]
  /\ ppc = "idle" /\ value = NoValue /\ pushed = "none"
  /\ cpc = "idle" /\ output = NoValue /\ popped = <<>> /\ empty = TRUE

-----------------------------------------------------------------------------
(* TryPush, on the producer's thread. *)
BeginPush(v) ==
  /\ ppc = "idle"
  /\ value' = v
  /\ ppc' = IF Full(head, cached_tail) THEN "reload" ELSE "store"
  /\ UNCHANGED <<head, cached_tail, pushed, consumer, storage>>

ReloadTail ==
  /\ ppc = "reload"
  /\ cached_tail' = tail
  /\ IF Full(head, tail)
       THEN ppc' = "idle" /\ pushed' = "full"
       ELSE ppc' = "store" /\ UNCHANGED pushed
  /\ UNCHANGED <<head, value, consumer, storage>>

StoreValue ==
  /\ ppc = "store"
  /\ storage' = [storage EXCEPT ![Index(head)] = value]
  /\ ppc' = "publish"
  /\ UNCHANGED <<head, cached_tail, value, pushed, consumer>>

PublishHead ==
  /\ ppc = "publish"
  /\ head' = Advance(head) /\ pushed' = "ok" /\ ppc' = "idle"
  /\ UNCHANGED <<cached_tail, value, consumer, storage>>

-----------------------------------------------------------------------------
(* TryPop and empty, on the consumer's thread. *)
BeginPop ==
  /\ cpc = "idle"
  /\ cpc' = IF cached_head = tail THEN "reload" ELSE "load"
  /\ UNCHANGED <<tail, cached_head, output, popped, empty, producer, storage>>

ReloadHead ==
  /\ cpc = "reload"
  /\ cached_head' = head
  /\ IF head = tail
       THEN cpc' = "idle" /\ popped' = <<>>
       ELSE cpc' = "load" /\ UNCHANGED popped
  /\ UNCHANGED <<tail, output, empty, producer, storage>>

LoadValue ==
  /\ cpc = "load"
  /\ output' = storage[Index(tail)]
  /\ cpc' = "release"
  /\ UNCHANGED <<tail, cached_head, popped, empty, producer, storage>>

ReleaseTail ==
  /\ cpc = "release"
  /\ tail' = Advance(tail) /\ popped' = <<output>> /\ cpc' = "idle"
  /\ UNCHANGED <<cached_head, output, empty, producer, storage>>

TestEmpty ==
  /\ cpc = "idle"
  /\ empty' = (tail = head)
  /\ UNCHANGED <<tail, cached_head, cpc, output, popped, producer, storage>>

Next ==
  \/ \E v \in Values : BeginPush(v)
  \/ ReloadTail \/ StoreValue \/ PublishHead
  \/ BeginPop \/ ReloadHead \/ LoadValue \/ ReleaseTail \/ TestEmpty

Spec == Init /\ [][Next]_vars

-----------------------------------------------------------------------------
\* The counters stay inside their width, and every cell, argument and loaded
\* record is a value of the ring or uninitialized storage.
TypeOK ==
  /\ head \in Counter /\ tail \in Counter
  /\ cached_tail \in Counter /\ cached_head \in Counter
  /\ storage \in [0..(Capacity - 1) -> Values \cup {NoValue}]
  /\ ppc \in {"idle", "reload", "store", "publish"}
  /\ cpc \in {"idle", "reload", "load", "release"}
  /\ value \in Values \cup {NoValue} /\ output \in Values \cup {NoValue}
  /\ pushed \in {"none", "ok", "full"}
  /\ popped \in {<<>>} \cup {<<v>> : v \in Values}
  /\ empty \in BOOLEAN

\* A stale cached counter never lets the two threads meet: when TryPush is about
\* to write a cell, TryPop is not about to read that cell, although the cell is
\* plain memory and neither side looks at the other's counter each time.
NoCellRace ==
  ~(ppc = "store" /\ cpc = "load" /\ Index(head) = Index(tail))

\* The cached copies are conservative, also across the wrap of the counters:
\* the ring holds at most Capacity records, the producer believes it holds at
\* least as many as it does and the consumer at most as many.
CachesConservative ==
  /\ Distance(head, tail) <= Distance(head, cached_tail)
  /\ Distance(head, cached_tail) <= Capacity
  /\ Distance(cached_head, tail) <= Distance(head, tail)

Contents == [i \in 1..Distance(head, tail) |-> storage[Index((tail + i - 1) % Wrap)]]

Fifo == INSTANCE BoundedFifo WITH queue <- Contents

\* The ring implements the bounded queue: a push takes effect at the store of
\* head_ (or is refused at the reload of tail_), a pop at the store of tail_ (or
\* is refused at the reload of head_).
ImplementsFifo == Fifo!Spec
=============================================================================
