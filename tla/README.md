# Formal models of the L2Flow ingest process

TLA+ models of the ingest process in `src/` (the engine, the decoder, the
catalog, the SDK session and the application), TLC configurations that check them
on small instances, and TLAPS proofs of the main invariants for all instances.
Line numbers refer to `src/src/engine.cpp` unless another file is named.

## 1. The system

    SDK callback --Admit--> lanes --worker--> recovery --publish--> dispatcher --poll--> application
     (1 thread)      (SPSC slots)  (1 thread     (per channel)  (SPSC queues,      (drain threads,
                                    per lane)                    gap mailboxes)     main thread)

| Component | State it keeps | Operations | Hard behaviour | What makes it correct |
|---|---|---|---|---|
| SDK session (`sdk_runtime.cpp`) | handler gate, in-flight callback count, SDK objects | Connect, OnMessage, Shutdown | a callback during shutdown; a failing connect | no callback reaches a dead engine |
| Admission and lifecycle (1387-1766) | `accepting_`, `running_`, `callback_active_`, `healthy_`, ingress counter | Start, Admit, Stop, SetFatal | Stop racing Admit | an accepted message is decoded; nothing is accepted after Stop |
| Lane storage (223-308) | slots, free stack, `ready_` and `recycled_` rings | TryPublish, TryConsume, Release | slot ownership passes between two threads | a slot has one owner; a lane never shrinks |
| SPSC ring (159-214) | `head_`, `tail_`, cached copies, cells | TryPush, TryPop, empty | stale caches, counter wrap, plain-memory cells | bounded FIFO; no cell is read and written together |
| Sequence recovery (705-1294) and tick worker (1784-1930) | per channel: frontier, reorder table, timers, gap counters; per lane: shared deadline | Process, Poll, Flush, FreezeDecodeFailure | reordering, gaps, slot collisions, conflicts, overflow in mid-drain, one timer for many channels | strict native order; every position accounted for; no body lost; timers never forgotten |
| Gap mailbox and bitmap (338-412, 486-503, 553-599) | three buffers and a token per channel, dirty words, pending words | PublishGap, TryPollGap | ABA, preemption between claim and copy, bits set during an exchange | no torn gap; the latest gap is delivered to whoever keeps polling |
| Dispatcher queues (466-551, 601-634) | a ring per producer and owner, round-robin cursors | Publish*, TryPoll* | full queues, fairness over producers | per-producer FIFO; no producer is starved |
| Snapshot worker (1932-2006) | none | decode and publish | overflow | decoded once, published once or fatal |
| Decoder (`decoder.cpp`) | protected ranges of one message | DecodeTick, DecodeSnapshot, ExtractAdmissionRoute, ExtractTickNativeDescriptor | offset arithmetic, overlap, fixed point and time conversion | no read outside the body; values representable |
| Catalog (`catalog.cpp`) | open-addressing table, immutable once built | Build, LoadCsv, Find | probing around the end, duplicates | Find agrees with the list of entries |
| Stream configuration (`stream_config.cpp`) | none | LoadStreamConfig | duplicates, partial files | accepts exactly the complete tuples |
| Application (`apps/mdl_ingestd.cpp`) | drain threads, consumed counters | main, drain loops, shutdown | shutdown order, final drain, waiting for counts | all that was dispatched is drained; shutdown ends |

Components interact by calls within one thread (callback to Admit to
TryPublish; worker to recovery to publish) and by shared memory between threads
(lane rings, output rings, mailboxes, the lifecycle flags). The engine persists
nothing, so there is no crash recovery to model.

## 2. Modules and how they correspond to the code

| Module | Models | Granularity |
|---|---|---|
| `Application` | the process: main, SDK session and handler, lanes, dispatcher queues, drain threads | a shared access of main and of the handler; a message of a lane; a poll |
| `ApplicationProofs` | theorems about it | |
| `SequenceRecovery` | one tick lane: class SequenceRecovery and the TickWorker loop | a handler branch, or one iteration of a handler's loop |
| `SequenceRecoveryProofs` | theorems about one channel's state and output | |
| `RecoveryHistoryProofs` | theorems about bodies, gaps and their metadata, late records, faults, Flush and the shared timer; extends the former | |
| `BoundedFifo` | abstract: what a queue promises | |
| `SpscRing` | SpscRing::TryPush, TryPop, empty | one shared load or store |
| `SpscRingProofs` | theorems about it, the refinement of `BoundedFifo` among them | |
| `GapNotice` | abstract: what gap delivery promises | |
| `GapMailbox` | GapMailboxSlot, PublishGap, TryPollGap, and the gap side of the application's drain | one atomic operation; a ChannelGap is copied in two halves |
| `GapMailboxProofs` | theorems about it, the refinement of `GapNotice` among them | |
| `LaneStorage` | TryPublish, TryConsume, Release of a lane's slots | a ring operation (the ring implements `BoundedFifo`), or half a message |
| `LaneStorageProofs` | theorems about it | |
| `Admission` | Start, Admit, Stop, SetFatal, the loop of a lane | one shared access, over x86 store buffers |
| `AdmissionProofs` | theorems about it | |
| `Messages` | message families, LoadStreamConfig, ValidateConfig, the checks of Admit | operators |
| `Decoder` | a decoding thread: the dynamic parts of one body after another, and the ranges it remembers | one part, or the fixed fields between two |
| `DecoderProofs` | theorems about it, about `Inputs` and about `Catalog` | |
| `CanonicalFields` | what the fields of ticks and the scalars of snapshots become | operators |
| `Inputs` | one input after another for the operators of `Messages` and `CanonicalFields` | an input |
| `OpenAddressing` | the hash table of FindOrCreate and of the catalog | operators |
| `Catalog` | InstrumentCatalog: Build, LoadCsv, Find | a definition of Build's loop |
| `MCApplication`, `MCDecoder` | instances for TLC | |

The composition is by abstraction. `Application` uses for each queue the bounded
sequence that `SpscRing` implements, for admission the one step that `Admission`
takes apart, and for recovery the least it relies on: a tick is held back for as
long as recovery likes, and those of a channel leave in ascending order, which is
what `SequenceRecovery` proves (`StrictNativeOrder`). Gaps run beside all this and
are `GapMailbox`.

### Application

`main` is main's place, from startup through the loop to the exit; Connect and
Shutdown of the session run on the same thread. `caller` is the place of an SDK
thread inside OnMessage; a call counts itself (ActiveCallbackGuard), then looks at
the gate, then either is turned away, throws, or is admitted. A lane is a queue of
messages, its channel table (`table`, `channels`) and the ticks recovery retains
(`held`). An owner's drain thread goes through its stages (ticks, snapshots and,
for owner 0, late recovery and faults), polling each until it finds nothing.

- The SDK is external: it may deliver from the creation of the subscriber on, also
  before Connect returns, and IOManager::Shutdown ends new calls, not those that
  have begun; it may throw, which ends the process (std::terminate).
- A message decodes, is not in the catalog, or does not decode. What recovery then
  does depends on `Mode`, on memory and on the channel's history: a tick is retained
  (`TakeHold`), late, a duplicate or in conflict (`TakeLate`), freezes its channel
  (`TakeFreeze`: in FROM_OPEN, a decode failure or another body at the position of a
  retained tick), does not decode and is only counted (`TakeError`, in PARTIAL) or, in
  FROM_OPEN without a position or a state, fatal, or finds no state left, which is
  fatal too (`TakeUnplaced`).
- A frozen channel publishes its fault once and keeps what it retains: Flush skips it
  (834), no counter names these records, and the process may exit with 0. So
  `OrderlyExit` does not say that the tables are empty. It says that they hold ticks of
  frozen channels only, and that with exit code 0 each of these channels' faults has
  been consumed.
- Recovery is one step per message and one per tick that leaves. A tick that is next
  leaves before the lane takes another message (`Due`); when a tick with a gap before
  it leaves is up to timers, spans and collisions, which are `SequenceRecovery`'s. A
  tick whose queue stays full is lost, is fatal, and does not move the frontier
  (`EmitTick`, 1074-1077).
- Of Admit's refusals two are fatal beside the full lane (`RejectFatal`): a call that
  meets another one inside, and a body beyond its slot. The model lets the second
  happen to any message; its condition is in `Messages`.
- A signal is looked at in the loop only, so its flag has no variable.
- A pop and the count of the popped record are one step: nobody but the thread
  itself reads the queue's consumer side, and the count only grows, so main can
  see it late but never early. In the same way Stop's closing of the gate is one
  step with the end of the wait for callbacks: none is left to tell the difference.
- Memory order of `accepting_` and `active_callbacks_` is sequentially consistent
  here: between StopAccepting's store and the wait for the count there is
  IOManager::Shutdown, which stops the SDK's threads and orders the two. Without a
  call in between the same pattern is finding 3.
- `received`, `bypassed`, `admitted`, `set_aside` and `lost` are history.

### SequenceRecovery

The lane is one thread, and `pc` is its place in the code: `ready` (top of the
worker loop), `process` (Process / ProcessActive), `drain` (DrainContiguous,
with `ret` for its caller), `after` (after a message: the timer test), `poll`,
`flush`, `done`. `state[c]` is a ChannelState with the members' names; `channels`
is `channels_[0..channel_count_)` in creation order, the order in which Poll and
Flush visit them. `next_deadline_ns` and `next_timer` are the two timer variables.

- A tick is its native sequence and a body. CanonicalPayloadEqual together with
  the catalog_match comparison is equality of bodies; `CatalogBodies` are those
  with a catalog match, the others are the sequence tokens that advance the
  frontier without being published. Price, quantity and text do not occur.
- A pending slot is a tick or `Free`; `SlotOf` is `sequence & slot_mask_`.
- The retry loop of ProcessActive is the label `process`: AheadFar and
  AheadCollision force a gap, drain, and come back with the same tick.
- Publishing to a bounded queue succeeds or fails (`Outcomes`): PublishBounded
  spins 2048 times and gives up, which is fatal. Failing to allocate a channel's
  table is a `FALSE` outcome too. The lane goes on after a fatal error, as the
  code does.
- Time: `clock` is MonotonicNowNs; a tick carries a receive time that does not
  decrease but may lie behind a clock an idle scan has already used.
- The hash table of FindOrCreate is abstracted to "is c in `channels`"; the table
  itself is `OpenAddressing`, in the lanes of `Application`.
- `log` is history, not state of the code: what each channel received, committed,
  published as gaps and LateRecovery records, and lost to a full queue. The
  properties relate it to the state.

### SpscRing

Each side has a program counter; head_ and tail_ count modulo `Wrap` (2^64 in
the code) and `Distance` is unsigned subtraction. A cell is plain memory, so its
store and load are steps of their own. Loads of a thread's own counter cannot be
interfered with and share a step with what follows. Acquire loads pair with
release stores on the same counters, so an interleaving of these steps has every
outcome the code has. The refinement mapping to `BoundedFifo` reads the queue's
contents off storage between tail_ and head_.

### GapMailbox

`published_token` is the pair (generation, index) that the code packs into one
word; all accesses to it and to reader_index_ are seq_cst, hence interleaved. A
gap is its epoch, written to `lo` and `hi` of a buffer in two steps. A bitmap
word is a set of bit numbers. `phase` follows the application: the drain thread
polls until a false, leaves after Stop, and the main thread's final drain polls
until the next false. `GapNotice` is told of its end as `closed`: it promises the
latest gap of a channel only to a consumer that goes on polling, since what the last
poll leaves behind nobody fetches (finding 2). One test cannot succeed and is left out:
`channel_slot >= gap_channels_per_producer_` (577-579; no such bit is ever set).
The generation does not wrap: it would take 2^62 gaps. Setting the bit of a busy
mailbox again (586) turns out to be redundant for delivery: the publication that
made it busy sets the dirty bit afterwards.

### LaneStorage

A slot's index is in `free`, in `pslot`, in `ready`, in `cslot` or in `recycled`;
its plain memory is `metadata` and `body`. A message is its ingress sequence. The
size test of TryPublish is left out: Admit has made it before.

### Admission

One program counter per thread: the main thread runs Start and Stop, callers run
Admit, the worker is the loop common to TickWorker and SnapshotWorker, and
SetFatal is a subroutine with `ret`. A store is appended to the thread's buffer
and reaches memory by `Commit`; a load looks in its own buffer first; test_and_set
and the mutex need an empty buffer. This is what release stores and acquire loads
compile to on x86. The checks of a message (1569-1632) are one choice: it passes,
is rejected, or is too large and fatal. What the worker does with a message is
`SequenceRecovery` and `LaneStorage`; here it may be fatal or not, and the slot is
free again at once. A worker that leaves by an exception is not modelled: all that
it calls is noexcept.

### Messages, Decoder, CanonicalFields, Inputs

Sizes are those of the code (23 bytes of header, 70 to 248 fixed bytes, offsets of
the descriptors); size_t and 32-bit numbers have the widths `SizeMax` and `U32Max`
and wrap. A stream mask is the set of its bit positions, a stream file the sequence
of its lines. `AdmissionChecks` are Admit's checks in their order.

`Decoder` is a thread and a message after another: the parts of a class in the
order the code reads them (`Layout`), each with a length or count and a place that
come from the wire. A place is given absolutely; the relative offset of the
descriptor is what Locate computes with. Between the parts stand the errors the
fixed fields can raise. The levels of a list bring a queue each. `ranges`,
`protect` and `capacity` are thread_local in the code and survive the message;
the SDK's thread reads the route of a snapshot without a scope.

`CanonicalFields` maps a raw tick (wire fields; texts and enumerations as strings,
`"?"` for all unknown ones) to the canonical one with its validity bits and quality
flags, and a snapshot's scalar to its decimal. The fields of the snapshots are of a
few kinds, which is what the lists of scalars name.

What these two modules compute depends on one input only. `Inputs` names the sets the
inputs come from (`RawTick`, the wire fields of a tick; `Header`; a stream file of
`StreamLine`s with an engine configuration) and takes one of the given inputs at a
time; its invariants say what must hold of each.

### Catalog and OpenAddressing

An identity is a market, a source and a security; the hash is any function of
identities (`Hashes`). `catalog` is the object: is it accepted so far, its entries and
its table. Build and LoadCsv set it up (BeginBuild) or refuse; AddDefinition is one
turn of Build's loop, which checks a definition and places it at the free cell its
probe ends at, or refuses the whole list; NewCatalog drops the object. Nobody else sees
an object before its loop has ended (`Finished`). A row of LoadCsv is its fields. Probe
is the first cell in probing order that is free or holds the entry looked for; both
users need it to end, which it does as the table has at least twice the cells it can
hold entries.

## 3. Runs

| Run | Instance | Shows |
|---|---|---|
| `from_open` | 1 channel, FROM_OPEN, 2 bodies (1 in the catalog), sequences 1-4, 2 slots, 4 ticks, queues may overflow | table, order, accounting, conservation of bodies, history claim, gap metadata, frozen channels, gaps never hide a body |
| `partial` | 2 PARTIAL channels, sequences 1-4, 2 slots, 3 ticks, hold 2, wait 1, clock to 14, fair | disjoint gaps from an undecided origin, conservation, LateRecovery is justified, the shared deadline covers every channel's own timer, a retained record does not wait for ever, Flush leaves nothing |
| `spsc_ring` | capacity 4, counters modulo 8, 2 values | bounded FIFO, no cell race |
| `gap_word` | 1 lane, 4 channels, 3 of them in one word and 1 in the next, 5 gaps, 1 attempt, fair | no buffer race, no lost gap; delivery in order, none twice, and of the latest at last while the application polls, over busy mailboxes, leftover pending bits and a final drain |
| `lane_slots` | 3 slots, rings of 4, 7 messages | one owner per slot, messages whole and in order, refusal only when full |
| `admission` | 2 callers, 1 slot, 3 calls | one producer, diagnostic before health, nothing accepted once unhealthy, losses reported, Stop returns, calls begun before it are decoded |
| `application` | FROM_OPEN, 2 tick lanes, 1 snapshot lane, 1 owner, 2 slots, queues of 2, 3 callbacks, fair | no callback in the engine after the session is quiet, native order end to end, one state per channel, every accepted message accounted for at the exit, no starved producer, shutdown ends |
| `decoder` | bodies one short of, 2 and 4 (92) bytes beyond the fixed bytes; texts of up to 3 and 33 bytes, lists of up to 3 | parts in the body, disjoint and within the reserved room, overlaps only of a message's own parts; on one input per state: nothing guessed by the fields, positions agree, only selected messages that fit are admitted; catalogs of up to three definitions, built step by step: acceptance and lookups agree with the list |
| `smallest_origin` (violation) | 1 channel, 2 slots, 2 ticks | see findings |
| `final_drain` (violation) | 3 channels in a word | see findings |
| `stop_gate` (violation) | 1 caller, 1 call | see findings |
| `connect_failure` (violation) | 1 tick lane, 1 callback | see findings |

Why the bounds are enough to be interesting. Two slots and four sequences
give collisions, a record beyond the span, forced gaps of length one and more,
drains of several records and late ticks in one behaviour; two bodies give
duplicates, conflicts and tokens. In `partial` a hold of two ticks and a wait of one
put the two channels' deadlines and the scans in every order. A ring of four over
counters of eight wraps on every second lap. Four publications take the triple
buffer round, so an index comes back to the value a preempted reader has seen. In
`gap_word` three channels in a word, five
gaps and a mailbox that is busy at its first attempt let a poll return false before a
dirty word of undelivered gaps, and the final drain end there: the same bounds violate
`FinalDrainComplete`. With one attempt a mailbox is busy at once; that a retry, or a
second lane, breaks nothing is left to the theorems, which hold for every number of
either. Seven messages over three slots use every
slot twice and reach the full lane. Three calls by two callers give a concurrent
callback, a full lane and a call after either, against every stage of Start and
Stop. In `application` three messages over two slots fill a lane and over queues of
two fill a queue, the least that ValidateConfig allows; channels of both markets
share a lane and a home cell, the last of the table, so the second wraps around; two
lanes with records for one owner compete for its polls; a channel freezes, by a decode
failure or by a conflict, with a tick in its table, and the process exits with 0.
Catalog misses are left to
`from_open`. PARTIAL is the same configuration with `Mode = "PARTIAL"` (735,370
states, every property holds), too large to join to the run: the theorems of section 5 about it hold in both modes, and of PARTIAL recovery itself `partial` asks more.
Every bound is a named constant (`MaxArrivals`, `MaxArrivalTime`, `MaxLag`, `MaxTime`,
`MaxEpoch`, `MaxGaps`, `MaxMessages`, `MaxCalls`, `MaxCallbacks`).

In `decoder` the widths are scaled down so that the boundary cases are among small
numbers: size_t ends at 1023 and a 32-bit number at 255, above every legal size and
below sums and products of two; 2^31 - 1 becomes 100 and 2^63 - 1 becomes 2500000,
which keeps both above and below a bound for each of the decimal scales. `MCDecoder`
runs the three state machines one at a time, since they share nothing: an input is
examined or a catalog is built only while the decoding thread has not begun. The
inputs are all combinations of the raw fields at their boundaries, all stream files of
up to two lines, and configurations with one or two numbers at a boundary; the
catalogs are the lists of one, two (with equal and different ids) and three acceptable
definitions and those with a malformed row in first or second place (tables of two,
four and eight cells), under three hashes, one of which sends everything to the last
cell.

The configurations give sets of model values and small numbers to the constants;
no definition is replaced.

Each property also comes with a mutated definition in the module (marked
`Mutant`) that changes the code as a plausible mistake would, under which TLC
finds that property violated. They are not used by any specification.

### Fairness

- `SequenceRecovery`: weak fairness of the lane's own steps (a worker thread is
  always scheduled again and takes no locks), of the idle scan (the loop scans
  whenever the lane is empty and the timer is due; a due scan is at most `MaxLag`
  late), and of the clock. Nothing makes ticks arrive or the engine stop. Only
  `partial` uses it; its clock bound is beyond every deadline that can be armed.
- `GapMailbox`: weak fairness of the consumer (the drain loop and the final drain
  poll without end or until false) and of each lane once it is inside PublishGap.
  Nothing makes a gap occur, and finitely many do (`MaxGaps`): a lane that published
  one channel's gaps without end, each time inside the consumer's snapshot of it, would
  keep that mailbox busy and the higher bits of its word waiting.
- `Admission`: weak fairness of each thread inside a call and of its store buffer
  (hardware drains it in bounded time). Stop's return relies on finitely many
  callbacks (`MaxCalls`), which holds after the SDK has been shut down.
- `Application`: weak fairness of each drain thread, and of main, the callbacks and
  the lanes taken together: as long as one of them can go on, one does. That is less
  than the scheduler gives (every thread is scheduled again), and enough, since
  drain threads that spin cannot use up the others' turns and each of the others has
  finitely many steps to take. Neither a delivery nor a signal has to happen.

## 4. Findings

1. `smallest_origin`: `docs/mdl-ingestd-design.md:198` says the hold "selects the
   smallest observed native sequence as the process-start origin". A slot
   collision ends the hold early (770-775): the origin is the smallest *retained*
   sequence, and the colliding tick, although observed in the hold, can be
   smaller and goes to LateRecovery.
2. `final_drain`: TryPollGap looks at a dirty word only when that word's pending
   bits are zero (562). A poll that starts from leftover pending bits which all
   turn out unchanged leaves the word without exchanging it and returns false.
   The application takes that false as the end of the final drain
   (`apps/mdl_ingestd.cpp:369-376`) and can exit without the latest gap of a
   channel. The trace has three channels in a word and a poll that met a busy mailbox
   (`Attempts` is 1 there; with the code's 8, as many publications have to fall into
   one TrySnapshot). While the drain thread is running the next poll exchanges the
   word and finds the gap; the final drain has no next poll. So the abstract notice
   promises a channel's latest gap only until the application closes, and
   `ImplementsNotice` is checked with words of three channels, where the difference
   shows.
3. `stop_gate`: Stop stores accepting_ and then loads callback_active_ (1519-1525)
   with release and acquire order, which does not order a store before a later
   load of another variable. With the store still buffered, a callback enters,
   sees the gate open, and publishes to a lane whose worker has already exited:
   Admit returns kAccepted and the message is never decoded, against the comment
   at 1520-1522. Calls that began before Stop was called are safe
   (`EarlierCallsDecoded`). The shipped application quiesces the SDK before Stop and
   is not exposed; the public API of the engine is.
4. `connect_failure`: `docs/mdl-ingestd-design.md:331-337` fixes the shutdown order:
   lanes are drained and joined, then the dispatch queues are drained. When Connect
   returns null, main joins the drain threads first and calls Stop afterwards
   (`apps/mdl_ingestd.cpp:330-340`). The document also says that Connect may call the
   handler before it returns (328-329); a message admitted then is decoded, or flushed,
   into a queue nobody polls any more, and the process exits with it.

## 5. Proofs

`SequenceRecoveryProofs` proves, for every set of channels and bodies, table
size, span, mode, timer setting and bound, from `ConstantsAssumption` alone:
`TypeCorrect`, `TableConsistentHolds`, `StrictNativeOrderHolds`,
`FrontierAccountingHolds`, `HistoryClaimHolds`.

The inductive invariant `IInv` is TypeOK and, for each channel, `ChannelInv` of
its state, its history and whether it is being drained:

- the table part: pending_count is the cardinality of the occupied slots, each
  record is in its own slot, and nothing retained is behind the frontier (at the
  frontier only inside DrainContiguous);
- the frontier part: the committed sequences ascend and are all below the
  frontier; frontier = origin + commits + missing; epoch = number of gaps;
- the history part: a channel with complete history has no missing sequences, so
  its i-th commit is sequence i; recording a gap ends it for good.

None is inductive alone: order needs that a drained record is at the frontier,
hence the table; accounting needs that a forced gap ends at the smallest retained
sequence, at or above the frontier; the history claim needs the accounting. Lemmas
state what Insert, FreeFrontierSlot, the commit, AdvanceTo and FinishDiscovery
preserve; `OneChannelStep` lifts them to the lane, since a step changes one
channel; one lemma per action then applies them.

`RecoveryHistoryProofs` adds what a channel's history says, from the same assumption:
`FlushEmptiesTableHolds`, `BodyConservedHolds`, `GapsDisjointFromOutputHolds`,
`LateExplainedHolds`, and of steps `FrozenIsFinalHolds` and `GapNeverHidesABodyHolds`.
Two invariants, both relative to `IInv`:

- `ControlInv`: a channel is created once and untouched before that; a drain works on
  the unfrozen channel its caller was at (the index of a scan points at it, or one
  behind it); Flush has settled every channel it has passed;
- `HInv`: per channel, the shape of the gaps, one fault if and only if frozen, the
  explanation of each late record, and the conservation of bodies. While a handler
  has a tick in hand, also across the drain it forces before it retries, that tick is
  in none of the places a body can be: `Carried` is this tick, and conservation is
  stated with it.

That a gap hides no received body needs both: the gap ends below the smallest retained
sequence and below the tick in hand, and everything else received is behind the
frontier. The proof failed for an earlier form of the property, which did not except
sequences whose body was lost: in PARTIAL mode, after a full queue swallowed a
discovered tick, the code goes on and may declare a gap over its sequence, with the
engine unhealthy. The property now says so.

Of a gap's metadata it proves `GapMetadataDeliveredHolds`: while the engine is healthy,
the first dispatched record behind a gap, and no other, carries that gap. `MInv` says
that the latest gap, as long as no dispatched record has carried it, is the one the
channel keeps as pending (`MetaInv`), also after tokens and later gaps; and that a
channel past discovery has a frontier above zero unless Flush found it empty
(`StartedInv`). Every step does one of three things to a channel's metadata: nothing,
commit a record, or record a gap (`MetaKind`).

Of the shared timer it proves `TimersArmedHolds`. next_deadline_ns stands for the
timers of all channels, is cleared at the start of a scan and rebuilt by it, so the
property is false in the middle of one. `TimerInv` says which channels the deadline
covers at each place (`Covered`): outside a scan all but the one being drained, inside
a scan those it has passed; and that a channel's own timer runs exactly while it
retains records (`RunningInv`). It is stated while the engine is healthy and before
Flush, after which no timer is needed.

`SpscRingProofs` proves, for every capacity, every counter width it divides and every
set of values, `NoCellRaceHolds` and `RingImplementsFifo` (ImplementsFifo as the run
states it). `RingInv` is `CachesConservative` (a cached counter is at most a capacity
behind its original and never promises more than there is), what each side knows past
its test, and that the cells from tail_ to head_ hold values. The lemmas are about
numbers modulo `Wrap`: counters less than a capacity apart have different indexes,
also around the wrap, because the capacity divides it.

`LaneStorageProofs` proves, for every number of slots and messages and every ring that
holds them all (`LaneAssumption`), `OneOwnerHolds`, `ReceivedIntactHolds`,
`RefusedOnlyWhenFullHolds` and `RecycleNeverFails`: the fatal branch behind Release is
dead code. `LaneInv` is that the five places partition the slots and their lengths add
up to the number of slots (the count is what bounds the recycled ring), and that ready
slots hold the next messages in order.

`GapMailboxProofs` proves, for every number of lanes, channels, attempts and
publications, from `MailboxAssumption`, `NoBufferRaceHolds`, `NoLostGapHolds` and
`MailboxImplementsNotice`, the safety part of `ImplementsNotice`. `HandshakeInv` adds
to the first: a lane works on its own channels only (`LanesInv`); indexes are 0..3
(`IndexInv`); the buffer a lane is filling is not the one the current token names
(`TargetInv`); from the claim to the end of the copy, reader_index_ names the
claimed buffer (`ClaimInv`). A claim visible before the producer's load is avoided
by ChooseTarget; one made later passes its recheck only if it is of the published
buffer, which the producer never targets. `MailInv` follows one gap from there:
the token names a buffer that holds the whole latest gap (`TokenInv`, `WriteInv`); a
token the consumer has loaded is between the delivered and the published one, and if
it is not the published one the channel is marked again (`BeforeInv`); the copy is
the gap of that token in both halves (`CopyInv`); and only bits of channels are set
(`BitsInv`, on the lemma that word and bit determine the channel). For the refinement,
`DoneInv` says that an application that is done is in no poll, so nothing is returned
after the notice closes (`DoneStep`, `QuietStep`).

`AdmissionProofs` proves, for every set of callback threads, lane size and number of
calls, over store buffers of any length, from `AdmissionAssumption`:
`SingleProducerHolds`, `DiagnosticReadyHolds`, `UnhealthyAcceptsNothingHolds`,
`EarlierCallsDecodedHolds` and `TypeCorrect`. None is inductive without what is in the
buffers. The conjuncts of `AdmInv` say:

- a caller has callback_active_ until its clear *reaches memory*, not until it is
  stored, and then nobody else has it (`AccessInv`);
- a buffered head is followed in its buffer by that clear, so a flag seen clear means
  a head that can be seen (`HeadInv`); with the buffered one counted the lane stays
  within its slots (`LaneInv`);
- one thread claims the fatal state, and until its diagnostic is written no buffer
  holds a cleared healthy_ (`ClaimInv`, `DiagnosticInv`, `HealthInv`);
- a lane sees running_ cleared only after Stop has waited, and then the head of every
  earlier call is in memory (`RunInv`, `GateInv`, `EarlyInv`); so a lane that found
  itself empty has consumed them (`DoneInv`).

`ApplicationProofs` proves, for every number of SDK threads, lanes, owners, channels,
messages and calls, every capacity and every hash, from `ApplicationAssumption` and
`HashAssumption`:

- `SessionQuietHolds`. `QuietInv` adds that the count is the number of callbacks
  between counting themselves and leaving (`CountInv`), and where the session is
  (`PhaseInv`). The count alone does not do: a callback that has begun but not counted
  itself is invisible to the wait, and is kept out of the engine by the gate it will
  find closed.
- `BoundedBypassHolds`. `BypassInv` bounds the times a waiting queue was passed over
  by the turns the cursor has already made towards it.
- `OneStatePerChannelHolds`. `TableOK` is the invariant of linear probing: every state
  is in exactly one cell, and all cells from its home to there are in use, so a probe
  finds it or ends at a free cell. The table must not be full, which the bound on the
  states and the table's size give.
- `NativeOrderHolds`. Along the pipeline: retained ticks are at or above their
  channel's frontier (`HeldInv`); what is queued for an owner is behind the frontier,
  ascending, and after what the owner has (`OrderInv`); a channel has one lane and one
  owner (`Routed`).
- `OrderlyExitHolds`. `AccountInv` counts: admitted = in lanes + retained + settled,
  and for each kind dispatched = consumed + queued. `FaultInv` counts the faults: a
  channel freezes once and publishes once, so as long as nothing was lost the faults
  dispatched are as many as the frozen channels. A lane that has returned retains ticks
  of frozen channels only, and what it retains no longer changes (`LeftInv`). `EndInv`
  says what main knows at each place of the shutdown, so that at the end lanes and
  queues are empty and the counts equal.

`DecoderProofs` proves, for every width of size_t, all limits, bodies and contents of
descriptors, from `DecoderAssumption` (sizes of bodies fit a size_t, places are
integers) and `MessagesAssumption`: `RangesSoundHolds` and `OverlapIsOwnHolds`.
`LocatedInBody` is the arithmetic: a part that passes the tests of ReadText or ReadList
was found without a sum, product or difference that wrapped. `DecInv` has three parts
beside the types. `Scoped`: a lane's thread reads inside a scope, and lists occur in
snapshots only. `Remembered`: while a message is read, the ranges the thread remembers
are exactly the parts handed out, and none overlap; only a refused message leaves one
more behind, which the next scope clears. `Enough`: the ranges so far, the parts still
to be read and MaximumDepthItems queues for each list among them fit the room reserved
(`RoomFor`); it rests on the layouts, of which no class has more than eight parts and
a snapshot has two lists, the levels of which bring in queues only.

`DecoderProofs` also proves what the fields, the configuration and the catalog promise,
for all inputs and not only the enumerated ones. The assumptions say what type an input
has (`InputsAssumption`, `CatalogAssumption`), that the widths are positive
(`FieldsAssumption`), and that the table of a list has at least twice its cells. The
last is what the doubling loop of Build ends with; it is assumed because the powers of
two it rests on need induction, and TLC evaluates it for the lists of the run.

- `NothingGuessedHolds`. `P6Exact` is the arithmetic: the test before the
  multiplication lets no value through whose product leaves 64 bits, at either of its
  two bounds, so a value that is published is the exact multiple. Per kind
  of tick there are three lemmas: what the decoded record says (`ShanghaiSays`), which
  bit of validity means what (`ShanghaiValid`), and that a record without quality flags
  was not exposed to any of the conditions that set one (`ShanghaiFlags`); the property
  combines them.
- `PositionsAgreeHolds`. The three readers differ in what they refuse; the case split
  over market and sign shows that they never place a tick differently.
- `AdmittedFitsHolds`. A bit of the mask comes from a line with the very numbers of its
  key, and two such lines would have the same bit (`SelectedOnce`); the first failing
  check decides (`FirstFailure`), so an accepted message fails none; a test by division
  bounds the product (`ProductFits`). That no selected family is fatal at its smallest
  size is `SlotsHold`: the smallest slots ValidateConfig lets through hold the fixed
  bytes of every family.
- `FindAgreesHolds`. `CatalogInv`: a catalog under construction has as entries the
  first definitions, each well formed, no two with an id in common; its table is
  `TableOK`; the free cells are the size less the entries (without the count, that the
  probe of the next definition ends at a free cell cannot be said); and a catalog that
  was refused was not `Acceptable`, which is why acceptance is exact. `TableOK` is the
  invariant of linear probing: every entry is in a cell, and no cell between the home
  of its identity and its own is free. `ProbeEnds` and `DistanceIs` reduce the
  remainders around the end of the table to distances; `ProbeFinds` and `ProbePlaces`
  are what a lookup finds and what an insertion preserves.

`InputInv` of `Inputs` only says that the input is one of the given ones: there the
work is in the lemmas about the operators.

Only model-checked: liveness (`PendingEventuallyDrained`, `StopReturns`,
`LossIsReported`, `ShutdownCompletes`, the fairness part of `ImplementsNotice`), since
liveness under fairness is outside the prover. Every safety property of a passing run
is also a theorem.

## 6. Not modelled

- Option parsing, reading and splitting of files and lines, printed reports: I/O.
- The vendor SDK: external, used as described under Application.
- Values of the hashes (HashRouteBytes, the catalog's and the channel hash): any
  function in `Catalog`, a colliding one in `application`.
- Copying of texts, the retained ten levels of a snapshot and the layout of canonical
  records: data without control.
- A configured depth beyond a vector's max_size: reserve then throws length_error,
  which DynamicRangeScope (it catches bad_alloc) does not expect. BeginScope has the
  failure for want of memory.
- Statistics that are only reported, CPU pinning, NUMA placement, the benchmark.

Text of errors and logs is left out everywhere.

## 7. Plan

Done: recovery with its proofs (1), the ring over its abstract queue (2), gap
delivery over its abstract notice with its proof (3), lane slots (4), admission
and lifecycle (5), the process with the SDK session and both shutdown orders (6),
the decoder's walk and conversions (7), open addressing and the catalog (8), stream
selection, configuration and admission checks (9), the composed pipeline with the
round-robin polls, inside the process model (10).

Theorems done: every invariant and action property of the passing runs, and the
safety part of both refinements. Left: the assumption on the size of a table from the
doubling loop, and liveness, should a prover with induction over data and fairness
rules be at hand.
