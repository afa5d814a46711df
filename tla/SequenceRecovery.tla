-------------------------- MODULE SequenceRecovery --------------------------
(***************************************************************************)
(* One tick decoder lane of the ingest engine: the native-sequence         *)
(* recovery state machine (class SequenceRecovery in src/engine.cpp) and   *)
(* the worker loop that drives it with decoded ticks and timer scans.      *)
(*                                                                         *)
(* The lane is one thread.  pc is its place in the code, and a handler     *)
(* that loops (ProcessActive, DrainContiguous, Poll, Flush) takes one step *)
(* per iteration.  The steps between "ready" and the next "ready" are one  *)
(* uninterrupted call; only the environment's choices (which tick comes    *)
(* next, when it was received, whether a bounded queue has room) are       *)
(* nondeterministic.                                                       *)
(*                                                                         *)
(* A canonical tick is its native sequence and a body; CanonicalPayload-   *)
(* Equal together with the catalog_match comparison is equality of bodies. *)
(***************************************************************************)
EXTENDS Integers, Sequences, FiniteSets, FiniteSetsExt

CONSTANTS
  Channels,        \* (market, channel) pairs routed to this lane
  Bodies,          \* canonical projections a tick can carry
  CatalogBodies,   \* those whose instrument is in the catalog (catalog_match)
  NoBody,          \* contents of an unoccupied pending slot
  Mode,            \* "FROM_OPEN" or "PARTIAL" (StartMode)
  MaxSeq,          \* largest native sequence (INT64_MAX in the decoder)
  MaxU64,          \* largest std::uint64_t
  Entries,         \* reorder_entries_per_channel
  MaxSpan,         \* maximum_reorder_span
  InitialHold,     \* partial_initial_hold_ns
  GapWait,         \* the gap wait of the mode
  TimerScan,       \* recovery_timer_scan_ns
  MaxChannels,     \* maximum_channels_per_tick_lane
  Outcomes,        \* results a bounded publish or an allocation may have
  MaxArrivals,     \* bound: ticks consumed in one behaviour
  MaxArrivalTime,  \* bound: latest time a tick is received and consumed
  MaxLag,          \* bound: how late a due timer scan of the lane may come
  MaxTime          \* bound: latest clock value

ASSUME ConstantsAssumption ==
  /\ Channels # {} /\ CatalogBodies \subseteq Bodies
  /\ NoBody \notin Bodies
  /\ Mode \in {"FROM_OPEN", "PARTIAL"}
  /\ MaxSeq \in Nat \ {0} /\ MaxU64 \in Nat /\ MaxSeq < MaxU64
  /\ Entries \in Nat \ {0} /\ MaxSpan \in 0..Entries
  /\ InitialHold \in Nat /\ GapWait \in Nat /\ TimerScan \in Nat \ {0}
  /\ MaxChannels \in Nat \ {0}
  /\ TRUE \in Outcomes /\ Outcomes \subseteq BOOLEAN
  /\ MaxArrivals \in Nat /\ MaxArrivalTime \in Nat /\ MaxLag \in Nat \ {0}
  /\ MaxTime \in Nat /\ MaxTime < MaxU64

VARIABLES
  channels,          \* channels_[0 .. channel_count_), in order of creation
  state,             \* ChannelState of every channel
  next_deadline_ns,  \* earliest timer the lane has armed, 0 for none
  next_timer,        \* worker loop: time of the next timer scan
  healthy,           \* FALSE once fatal(...) was called
  clock,             \* the monotonic clock
  now,               \* the time handed to the call in progress
  last_receive,      \* receive time of the latest tick
  arrivals,          \* ticks consumed so far
  pc,                \* place of the lane thread in the code
  ret,               \* where DrainContiguous returns to
  cur,               \* channel of the call in progress
  msg,               \* tick being processed, Free between ticks
  index,             \* loop index of Poll and Flush
  log                \* history of each channel: what came in, what went out

lane == <<channels, next_deadline_ns, next_timer, healthy>>
time == <<clock, last_receive, arrivals>>
regs == <<now, cur, msg, index>>
vars == <<channels, state, next_deadline_ns, next_timer, healthy, clock, now,
          last_receive, arrivals, pc, ret, cur, msg, index, log>>

Seqs == 1..MaxSeq
SlotIndex == 0..(Entries - 1)
Free == [seq |-> 0, body |-> NoBody]
Slot == [seq : Seqs, body : Bodies] \cup {Free}
Tick == [seq : Seqs, body : Bodies]

(***************************************************************************)
(* Operations on one ChannelState record, as pure operators.               *)
(***************************************************************************)
NewChannel ==
  [frozen |-> FALSE,
   discovering |-> Mode = "PARTIAL",
   history_complete |-> Mode = "FROM_OPEN",
   gap_metadata_pending |-> FALSE,
   expected |-> IF Mode = "FROM_OPEN" THEN 1 ELSE 0,
   first_seen_ns |-> 0,
   gap_open_ns |-> 0,
   gap_epoch |-> 0,
   cumulative_missing |-> 0,
   pending_gap_first |-> 0,
   pending_gap_last |-> 0,
   pending_count |-> 0,
   pending |-> [i \in SlotIndex |-> Free]]

SlotOf(seq) == seq % Entries
Occupied(s) == {i \in SlotIndex : s.pending[i].seq # 0}
PendingSeqs(s) == {s.pending[i].seq : i \in Occupied(s)}

\* Mutant: the first occupied slot instead of the smallest sequence.
MinimumPendingFirstSlot(s) ==
  IF Occupied(s) = {} THEN MaxU64 ELSE s.pending[Min(Occupied(s))].seq

MinimumPending(s) == Min(PendingSeqs(s) \cup {MaxU64})

\* What Insert finds in the slot a tick maps to.
InsertResult(s, t) ==
  LET slot == s.pending[SlotOf(t.seq)]
  IN  CASE slot.seq = 0     -> "inserted"
        [] slot = t         -> "duplicate"
        [] slot.seq = t.seq /\ slot # t -> "conflict"
        [] OTHER            -> "collision"

\* Mutant: the record is stored but not counted.
InsertUncounted(s, t) ==
  [s EXCEPT !.pending = [s.pending EXCEPT ![SlotOf(t.seq)] = t]]

Insert(s, t) ==
  [s EXCEPT !.pending = [s.pending EXCEPT ![SlotOf(t.seq)] = t],
            !.pending_count = s.pending_count + 1]

\* Find: the frontier's own slot holds the frontier's record.
FrontierPresent(s) ==
  s.expected # 0 /\ s.pending[SlotOf(s.expected)].seq = s.expected

\* EmitOne on a table slot frees it before the record is published.
FreeFrontierSlot(s) ==
  [s EXCEPT !.pending = [s.pending EXCEPT ![SlotOf(s.expected)] = Free],
            !.pending_count = s.pending_count - 1]

\* Mutant: a sequence token also clears the gap metadata.
TakeGapMetadataAlways(s, body) == [s EXCEPT !.gap_metadata_pending = FALSE]

\* EmitOne: a dispatched record takes the pending gap metadata with it.
TakeGapMetadata(s, body) ==
  [s EXCEPT !.gap_metadata_pending =
              s.gap_metadata_pending /\ body \notin CatalogBodies]

EmittedRecord(s, t) ==
  LET marked == t.body \in CatalogBodies /\ s.gap_metadata_pending
  IN  [seq |-> t.seq, body |-> t.body,
       history_valid |-> s.history_complete,
       gap_first |-> IF marked THEN s.pending_gap_first ELSE 0,
       gap_last  |-> IF marked THEN s.pending_gap_last ELSE 0,
       gap_epoch |-> IF marked THEN s.gap_epoch ELSE 0]

\* A record outside the catalog is a sequence token: nothing is published.
EmitResults(body) == IF body \in CatalogBodies THEN Outcomes ELSE {TRUE}

\* Mutant: missing_count is last - first.
RecordGapOffByOne(s, next) ==
  IF next - 1 < s.expected
    THEN s
    ELSE [s EXCEPT
           !.history_complete = FALSE,
           !.gap_epoch = s.gap_epoch + 1,
           !.cumulative_missing = s.cumulative_missing + (next - 1 - s.expected),
           !.pending_gap_first = s.expected,
           !.pending_gap_last = next - 1,
           !.gap_metadata_pending = TRUE]

\* Mutant: the channel's history is not marked incomplete.
RecordGapKeepsHistory(s, next) ==
  IF next - 1 < s.expected
    THEN s
    ELSE [s EXCEPT
           !.gap_epoch = s.gap_epoch + 1,
           !.cumulative_missing = s.cumulative_missing + (next - s.expected),
           !.pending_gap_first = s.expected,
           !.pending_gap_last = next - 1,
           !.gap_metadata_pending = TRUE]

\* RecordGap(expected, next - 1, next) followed by expected = next.
RecordGap(s, next) ==
  IF next - 1 < s.expected
    THEN s
    ELSE [s EXCEPT
           !.history_complete = FALSE,
           !.gap_epoch = IF s.gap_epoch = MaxU64 THEN MaxU64 ELSE s.gap_epoch + 1,
           !.cumulative_missing =
              IF MaxU64 - s.cumulative_missing < next - s.expected
                THEN MaxU64
                ELSE s.cumulative_missing + (next - s.expected),
           !.pending_gap_first = s.expected,
           !.pending_gap_last = next - 1,
           !.gap_metadata_pending = TRUE]

\* Mutant: the gap is recorded but the frontier stays.
AdvanceToKeepsFrontier(s, next) == RecordGap(s, next)

AdvanceTo(s, next) == [RecordGap(s, next) EXCEPT !.expected = next]

FinishDiscovery(s) ==
  IF s.pending_count = 0
    THEN [s EXCEPT !.discovering = FALSE]
    ELSE [s EXCEPT !.discovering = FALSE, !.expected = MinimumPending(s)]

DeadlineReached(t, start, delay) == t >= start /\ t - start >= delay

\* Mutant: the latest deadline replaces an earlier one.
ScheduledLatest(deadline, start, delay) == start + delay

\* ScheduleDeadline(start, delay), as the new value of next_deadline_ns.
Scheduled(deadline, start, delay) ==
  LET d == IF MaxU64 - start < delay THEN MaxU64 ELSE start + delay
  IN  IF deadline = 0 \/ d < deadline THEN d ELSE deadline

(***************************************************************************)
(* The history of a channel.                                               *)
(*   origin    first sequence of the realtime stream, 0 while undecided    *)
(*   held      sequences observed while the channel was discovering        *)
(*   received  ticks handed to the channel while it was not frozen         *)
(*   committed ticks passed at the frontier: published, or sequence tokens *)
(*   gaps      published ChannelGap records                                *)
(*   late      published LateRecovery records                              *)
(*   faults    ChannelFaults (reported, or lost with the engine)           *)
(*   lost      ticks whose queue was full: the engine is fatal             *)
(***************************************************************************)
EmptyLog ==
  [origin |-> IF Mode = "FROM_OPEN" THEN 1 ELSE 0, held |-> {},
   received |-> {}, committed |-> <<>>, gaps |-> <<>>, late |-> {},
   faults |-> <<>>, lost |-> {}]

WithGap(l, s, next) ==
  IF next - 1 < s.expected
    THEN l
    ELSE [l EXCEPT !.gaps = Append(l.gaps,
            [first |-> s.expected, last |-> next - 1,
             epoch |-> RecordGap(s, next).gap_epoch,
             cumulative |-> RecordGap(s, next).cumulative_missing])]

Init ==
  /\ channels = <<>>
  /\ state = [c \in Channels |-> NewChannel]
  /\ next_deadline_ns = 0
  /\ clock = 1
  /\ next_timer = 1
  /\ healthy = TRUE
  /\ now = 1
  /\ last_receive = 1
  /\ arrivals = 0
  /\ pc = "ready"
  /\ ret = "ready"
  /\ cur = CHOOSE c \in Channels : TRUE
  /\ msg = Free
  /\ index = 1
  /\ log = [c \in Channels |-> EmptyLog]

-----------------------------------------------------------------------------
Used(c) == \E i \in 1..Len(channels) : channels[i] = c
Goto(label) == pc' = label /\ UNCHANGED ret
DrainThen(label) == pc' = "drain" /\ ret' = label
Update(c, s) == state' = [state EXCEPT ![c] = s]

\* DivertLateRecovery of the current tick, then return from the handler.
DivertLateRecovery(reason) ==
  \E ok \in Outcomes :
    /\ log' = [log EXCEPT ![cur] =
         IF ok
           THEN [log[cur] EXCEPT !.late = log[cur].late \cup
                  {[seq |-> msg.seq, body |-> msg.body, reason |-> reason,
                    committed_next |-> state[cur].expected,
                    epoch |-> state[cur].gap_epoch]}]
           ELSE [log[cur] EXCEPT !.lost = log[cur].lost \cup {msg}]]
    /\ healthy' = (healthy /\ ok)
    /\ Goto("after")
    /\ UNCHANGED <<state, channels, next_deadline_ns, next_timer>>

\* ForceGapToMinimum on channel c in state s; DrainContiguous returns to label.
ForceGapToMinimum(c, s, label) ==
  /\ Update(c, AdvanceTo(s, MinimumPending(s)))
  /\ log' = [log EXCEPT ![c] = WithGap(@, s, MinimumPending(s))]
  /\ DrainThen(label)

\* FinishDiscovery with retained records picks the origin and drains.
StartFromMinimum(c, s, label) ==
  /\ Update(c, FinishDiscovery(s))
  /\ log' = [log EXCEPT ![c].origin = MinimumPending(s)]
  /\ DrainThen(label)

FreezeFromOpen(c, reason, observed) ==
  /\ Update(c, [state[c] EXCEPT !.frozen = TRUE])
  /\ \E ok \in Outcomes :
       /\ healthy' = (healthy /\ ok)
       /\ log' = [log EXCEPT ![c].faults = Append(@,
            [reason |-> reason, expected |-> state[c].expected,
             observed |-> observed])]

-----------------------------------------------------------------------------
(* The environment: time passes between calls. *)
AdvanceClock ==
  /\ pc = "ready" /\ clock < MaxTime /\ clock < next_timer + MaxLag
  /\ clock' = clock + 1
  /\ UNCHANGED <<lane, state, now, last_receive, arrivals, pc, ret, cur, msg,
                 index, log>>

\* The lane's ring delivers ticks in callback order, so receive times do not
\* decrease; a receive time may lie behind the clock an idle scan has used.
Consume(t) ==
  /\ pc = "ready" /\ arrivals < MaxArrivals
  /\ t \in last_receive..clock /\ clock <= MaxArrivalTime
  /\ now' = t /\ last_receive' = t /\ arrivals' = arrivals + 1
  /\ UNCHANGED <<clock, index, next_deadline_ns, next_timer>>

\* Process, first part: FindOrCreate.
Process(c, tick, t) ==
  /\ Consume(t)
  /\ cur' = c /\ msg' = tick
  /\ \/ /\ Used(c)
        /\ Goto("process")
        /\ log' = IF state[c].frozen THEN log
                  ELSE [log EXCEPT ![c].received = @ \cup {tick}]
        /\ UNCHANGED <<channels, healthy>>
     \/ /\ ~Used(c) /\ Len(channels) < MaxChannels
        /\ channels' = Append(channels, c)
        /\ log' = [log EXCEPT ![c].received = @ \cup {tick}]
        /\ Goto("process")
        /\ UNCHANGED healthy
     \/ /\ ~Used(c) /\ (Len(channels) >= MaxChannels \/ FALSE \in Outcomes)
        /\ healthy' = FALSE
        /\ Goto("after")
        /\ UNCHANGED <<channels, log>>
  /\ UNCHANGED state

\* A tick that does not decode but whose native position is readable.
FreezeDecodeFailure(c, observed, t) ==
  /\ Consume(t)
  /\ Mode = "FROM_OPEN"
  /\ cur' = c
  /\ \/ /\ Used(c) \/ Len(channels) < MaxChannels
        /\ channels' = IF Used(c) THEN channels ELSE Append(channels, c)
        /\ IF state[c].frozen
             THEN UNCHANGED <<state, log, healthy>>
             ELSE FreezeFromOpen(c, "kDecodeFailure", observed)
     \/ /\ ~Used(c) /\ (Len(channels) >= MaxChannels \/ FALSE \in Outcomes)
        /\ healthy' = FALSE
        /\ UNCHANGED <<channels, state, log>>
  /\ Goto("after")
  /\ UNCHANGED msg

\* A tick that does not decode at all: dropped in PARTIAL, fatal in FROM_OPEN.
DecodeFailureWithoutPosition(t) ==
  /\ Consume(t)
  /\ healthy' = (healthy /\ Mode = "PARTIAL")
  /\ Goto("after")
  /\ UNCHANGED <<channels, state, log, cur, msg>>

-----------------------------------------------------------------------------
(* Process and ProcessActive on the current tick. *)
InProcess == pc = "process" /\ UNCHANGED <<time, regs>>
\* Mutant: no check for a frozen channel.
InActiveEvenFrozen == InProcess /\ ~state[cur].discovering

InActive == InProcess /\ ~state[cur].frozen /\ ~state[cur].discovering

ProcessFrozen ==
  /\ InProcess /\ state[cur].frozen
  /\ Goto("after")
  /\ UNCHANGED <<lane, state, log>>

\* The channel's history when the current tick was observed during the hold.
Held(origin) ==
  [log[cur] EXCEPT !.held = log[cur].held \cup {msg.seq}, !.origin = origin]

InDiscovery == InProcess /\ ~state[cur].frozen /\ state[cur].discovering

DiscoverDuplicate ==
  /\ InDiscovery /\ InsertResult(state[cur], msg) = "duplicate"
  /\ Goto("after")
  /\ UNCHANGED <<lane, state, log>>

DiscoverConflict ==
  /\ InDiscovery /\ InsertResult(state[cur], msg) = "conflict"
  /\ DivertLateRecovery("kPendingCanonicalConflict")

\* Mutant: discovery ends, but the tick that collided is not processed again.
DiscoverCollisionDropped ==
  /\ InDiscovery /\ InsertResult(state[cur], msg) = "collision"
  /\ Update(cur, FinishDiscovery(state[cur]))
  /\ log' = [log EXCEPT ![cur] = Held(MinimumPending(state[cur]))]
  /\ DrainThen("after")
  /\ UNCHANGED lane

\* The modulo slot is taken: discovery ends and the tick is processed again.
DiscoverCollision ==
  /\ InDiscovery /\ InsertResult(state[cur], msg) = "collision"
  /\ Update(cur, FinishDiscovery(state[cur]))
  /\ log' = [log EXCEPT ![cur] = Held(MinimumPending(state[cur]))]
  /\ DrainThen("process")
  /\ UNCHANGED lane

DiscoverInsert ==
  /\ InDiscovery /\ InsertResult(state[cur], msg) = "inserted"
  /\ LET fresh == state[cur].first_seen_ns = 0
         s == [Insert(state[cur], msg) EXCEPT
                !.first_seen_ns = IF fresh THEN now ELSE @]
         due == InitialHold = 0 \/ DeadlineReached(now, s.first_seen_ns, InitialHold)
     IN  /\ next_deadline_ns' = IF fresh /\ InitialHold # 0
                                  THEN Scheduled(next_deadline_ns, now, InitialHold)
                                  ELSE next_deadline_ns
         /\ Update(cur, IF due THEN FinishDiscovery(s) ELSE s)
         /\ log' = [log EXCEPT
              ![cur] = Held(IF due THEN MinimumPending(s) ELSE log[cur].origin)]
         /\ IF due THEN DrainThen("after") ELSE Goto("after")
  /\ UNCHANGED <<channels, next_timer, healthy>>

\* Mutant: the frontier record itself counts as late.
LateArrivalAtFrontier ==
  /\ InActive /\ msg.seq <= state[cur].expected
  /\ DivertLateRecovery("kBehindCommittedFrontier")

LateArrival ==
  /\ InActive /\ msg.seq < state[cur].expected
  /\ DivertLateRecovery("kBehindCommittedFrontier")

\* sequence == expected: emitted through a temporary slot, then drained.
EmitAtFrontier ==
  /\ InActive /\ msg.seq = state[cur].expected
  /\ \E ok \in EmitResults(msg.body) :
       LET s == state[cur]
           taken == TakeGapMetadata(s, msg.body)
       IN  /\ Update(cur, IF ok THEN [taken EXCEPT !.expected = s.expected + 1]
                                ELSE taken)
           /\ log' = [log EXCEPT ![cur] =
                IF ok THEN [log[cur] EXCEPT !.committed =
                              Append(log[cur].committed, EmittedRecord(s, msg))]
                      ELSE [log[cur] EXCEPT !.lost = log[cur].lost \cup {msg}]]
           /\ healthy' = (healthy /\ ok)
           /\ IF ok THEN DrainThen("after") ELSE Goto("after")
  /\ UNCHANGED <<channels, next_deadline_ns, next_timer>>

Ahead(result) ==
  /\ InActive /\ msg.seq > state[cur].expected
  /\ InsertResult(state[cur], msg) = result

AheadDuplicate ==
  /\ Ahead("duplicate")
  /\ Goto("after")
  /\ UNCHANGED <<lane, state, log>>

AheadConflict ==
  /\ Ahead("conflict")
  /\ \/ /\ Mode = "FROM_OPEN"
        /\ FreezeFromOpen(cur, "kCanonicalConflict", msg.seq)
        /\ Goto("after")
        /\ UNCHANGED <<channels, next_deadline_ns, next_timer>>
     \/ /\ Mode = "PARTIAL"
        /\ DivertLateRecovery("kPendingCanonicalConflict")

\* Retained within the span: the gap timer is armed when it is not running.
AheadRetain ==
  /\ Ahead("inserted") /\ msg.seq - state[cur].expected <= MaxSpan
  /\ LET opens == state[cur].gap_open_ns = 0
         s == [Insert(state[cur], msg) EXCEPT
                !.gap_open_ns = IF opens THEN now ELSE @]
     IN  /\ next_deadline_ns' = IF opens THEN Scheduled(next_deadline_ns, now, GapWait)
                                ELSE next_deadline_ns
         /\ IF GapWait = 0
              THEN ForceGapToMinimum(cur, s, "after")
              ELSE Update(cur, s) /\ Goto("after") /\ UNCHANGED log
  /\ UNCHANGED <<channels, next_timer, healthy>>

AheadFar ==
  /\ Ahead("inserted") /\ msg.seq - state[cur].expected > MaxSpan
  /\ ForceGapToMinimum(cur, Insert(state[cur], msg), "after")
  /\ UNCHANGED lane

\* Mutant: no retry after the table was moved forward.
AheadCollisionNoRetry ==
  /\ Ahead("collision")
  /\ ForceGapToMinimum(cur, state[cur], "after")
  /\ UNCHANGED lane

\* Mutant: the frontier jumps to the current tick without looking at the
\* smallest retained sequence.
AheadCollisionJump ==
  /\ Ahead("collision")
  /\ Update(cur, AdvanceTo(state[cur], msg.seq))
  /\ log' = [log EXCEPT ![cur] = WithGap(@, state[cur], msg.seq)]
  /\ Goto("process")
  /\ UNCHANGED lane

\* The slot is taken by another sequence: move the frontier and try again.
AheadCollision ==
  /\ Ahead("collision")
  /\ \/ /\ msg.seq < MinimumPending(state[cur])
        /\ Update(cur, AdvanceTo(state[cur], msg.seq))
        /\ log' = [log EXCEPT ![cur] = WithGap(@, state[cur], msg.seq)]
        /\ Goto("process")
     \/ /\ msg.seq >= MinimumPending(state[cur])
        /\ ForceGapToMinimum(cur, state[cur], "process")
  /\ UNCHANGED lane

-----------------------------------------------------------------------------
(* DrainContiguous, one iteration a step. *)
DrainEmit ==
  /\ pc = "drain" /\ FrontierPresent(state[cur])
  /\ LET s == state[cur]
         t == s.pending[SlotOf(s.expected)]
         taken == TakeGapMetadata(FreeFrontierSlot(s), t.body)
     IN  \E ok \in EmitResults(t.body) :
           /\ Update(cur, IF ok THEN [taken EXCEPT !.expected = s.expected + 1]
                                ELSE taken)
           /\ log' = [log EXCEPT ![cur] =
                IF ok THEN [log[cur] EXCEPT !.committed =
                              Append(log[cur].committed, EmittedRecord(s, t))]
                      ELSE [log[cur] EXCEPT !.lost = log[cur].lost \cup {t}]]
           /\ healthy' = (healthy /\ ok)
           /\ Goto(IF ok THEN "drain" ELSE ret)
  /\ UNCHANGED <<channels, next_deadline_ns, next_timer, time, regs>>

DrainDone ==
  /\ pc = "drain" /\ ~FrontierPresent(state[cur])
  /\ LET waiting == state[cur].pending_count # 0
     IN  /\ Update(cur, [state[cur] EXCEPT !.gap_open_ns = IF waiting THEN now ELSE 0])
         /\ next_deadline_ns' = IF waiting THEN Scheduled(next_deadline_ns, now, GapWait)
                                ELSE next_deadline_ns
  /\ Goto(ret)
  /\ UNCHANGED <<channels, next_timer, healthy, time, regs, log>>

-----------------------------------------------------------------------------
(* Poll, and the two places the worker loop calls it from. *)
CallPoll(t) ==
  /\ next_timer' = t + TimerScan
  /\ IF next_deadline_ns = 0 \/ t < next_deadline_ns
       THEN Goto("ready") /\ UNCHANGED next_deadline_ns
       ELSE Goto("poll") /\ next_deadline_ns' = 0

AfterMessage ==
  /\ pc = "after"
  /\ IF now >= next_timer
       THEN CallPoll(now)
       ELSE Goto("ready") /\ UNCHANGED <<next_deadline_ns, next_timer>>
  /\ msg' = Free /\ index' = 1
  /\ UNCHANGED <<channels, healthy, state, time, now, cur, log>>

IdlePoll ==
  /\ pc = "ready" /\ clock >= next_timer
  /\ now' = clock /\ index' = 1
  /\ CallPoll(clock)
  /\ UNCHANGED <<channels, healthy, state, time, cur, msg, log>>

InPoll ==
  /\ pc = "poll" /\ index <= Len(channels)
  /\ cur' = channels[index] /\ index' = index + 1
  /\ UNCHANGED <<channels, healthy, next_timer, time, now, msg>>

PollSkip ==
  /\ InPoll
  /\ LET s == state[channels[index]]
     IN  s.frozen \/ s.pending_count = 0 \/ (~s.discovering /\ s.gap_open_ns = 0)
  /\ Goto("poll")
  /\ UNCHANGED <<state, next_deadline_ns, log>>

\* Mutant: a hold that is not over yet is not scheduled again.
PollDiscoveringForgets ==
  /\ InPoll
  /\ LET c == channels[index]
         s == state[c]
     IN  /\ ~s.frozen /\ s.pending_count # 0 /\ s.discovering
         /\ IF DeadlineReached(now, s.first_seen_ns, InitialHold)
              THEN StartFromMinimum(c, s, "poll")
              ELSE Goto("poll") /\ UNCHANGED <<state, log>>
  /\ UNCHANGED next_deadline_ns

PollDiscovering ==
  /\ InPoll
  /\ LET c == channels[index]
         s == state[c]
     IN  /\ ~s.frozen /\ s.pending_count # 0 /\ s.discovering
         /\ IF DeadlineReached(now, s.first_seen_ns, InitialHold)
              THEN StartFromMinimum(c, s, "poll") /\ UNCHANGED next_deadline_ns
              ELSE /\ next_deadline_ns' =
                        Scheduled(next_deadline_ns, s.first_seen_ns, InitialHold)
                   /\ Goto("poll") /\ UNCHANGED <<state, log>>

PollGap ==
  /\ InPoll
  /\ LET c == channels[index]
         s == state[c]
     IN  /\ ~s.frozen /\ s.pending_count # 0 /\ ~s.discovering /\ s.gap_open_ns # 0
         /\ IF DeadlineReached(now, s.gap_open_ns, GapWait)
              THEN ForceGapToMinimum(c, s, "poll") /\ UNCHANGED next_deadline_ns
              ELSE /\ next_deadline_ns' =
                        Scheduled(next_deadline_ns, s.gap_open_ns, GapWait)
                   /\ Goto("poll") /\ UNCHANGED <<state, log>>

PollDone ==
  /\ pc = "poll" /\ index > Len(channels)
  /\ Goto("ready") /\ index' = 1
  /\ UNCHANGED <<lane, state, time, now, cur, msg, log>>

-----------------------------------------------------------------------------
(* Flush, when the engine stopped and the lane is empty. The idle branch of *)
(* the worker loop has polled first, so the next scan lies in the future.   *)
BeginFlush ==
  /\ pc = "ready" /\ clock < next_timer
  /\ now' = clock /\ index' = 1
  /\ Goto("flush")
  /\ UNCHANGED <<lane, state, time, cur, msg, log>>

InFlush ==
  /\ pc = "flush" /\ index <= Len(channels)
  /\ cur' = channels[index]
  /\ UNCHANGED <<lane, time, now, msg>>

\* Mutant: one forced gap per channel (if instead of while).
FlushStepOnce ==
  /\ InFlush
  /\ LET c == channels[index]
         s == state[c]
     IN  /\ ~s.frozen /\ s.pending_count # 0
         /\ IF s.discovering THEN StartFromMinimum(c, s, "flush")
                             ELSE ForceGapToMinimum(c, s, "flush")
  /\ index' = index + 1

FlushStep ==
  /\ InFlush
  /\ LET c == channels[index]
         s == state[c]
     IN  /\ ~s.frozen /\ s.pending_count # 0
         /\ IF s.discovering THEN StartFromMinimum(c, s, "flush")
                             ELSE ForceGapToMinimum(c, s, "flush")
  /\ UNCHANGED index

FlushNext ==
  /\ InFlush
  /\ LET c == channels[index]
     IN  /\ state[c].frozen \/ state[c].pending_count = 0
         /\ Update(c, IF state[c].frozen THEN state[c]
                      ELSE [state[c] EXCEPT !.discovering = FALSE])
  /\ index' = index + 1
  /\ Goto("flush")
  /\ UNCHANGED log

FlushDone ==
  /\ pc = "flush" /\ index > Len(channels)
  /\ Goto("done")
  /\ UNCHANGED <<lane, state, time, regs, log>>

Terminated == pc = "done" /\ UNCHANGED vars

ProcessStep ==
  \/ ProcessFrozen
  \/ DiscoverDuplicate \/ DiscoverConflict \/ DiscoverCollision \/ DiscoverInsert
  \/ LateArrival \/ EmitAtFrontier
  \/ AheadDuplicate \/ AheadConflict \/ AheadRetain \/ AheadFar \/ AheadCollision

CallStep ==
  \/ ProcessStep \/ DrainEmit \/ DrainDone \/ AfterMessage
  \/ PollSkip \/ PollDiscovering \/ PollGap \/ PollDone
  \/ FlushStep \/ FlushNext \/ FlushDone

Arrival ==
  \E t \in 1..MaxArrivalTime :
    \/ \E c \in Channels, tick \in Tick : Process(c, tick, t)
    \/ \E c \in Channels, seq \in Seqs : FreezeDecodeFailure(c, seq, t)
    \/ DecodeFailureWithoutPosition(t)

Next ==
  \/ AdvanceClock \/ Arrival \/ CallStep \/ IdlePoll \/ BeginFlush \/ Terminated

\* The lane thread is always scheduled again, an idle lane scans its timers,
\* and the monotonic clock does not stop.  Nothing forces ticks to arrive or
\* the engine to stop.
Fairness == WF_vars(CallStep) /\ WF_vars(IdlePoll) /\ WF_vars(AdvanceClock)

Spec == Init /\ [][Next]_vars /\ Fairness

-----------------------------------------------------------------------------
ChannelState ==
  [frozen : BOOLEAN, discovering : BOOLEAN, history_complete : BOOLEAN,
   gap_metadata_pending : BOOLEAN, expected : Nat, first_seen_ns : Nat,
   gap_open_ns : Nat, gap_epoch : Nat, cumulative_missing : Nat,
   pending_gap_first : Nat, pending_gap_last : Nat, pending_count : Nat,
   pending : [SlotIndex -> Slot]]

CommitRecord ==
  [seq : Seqs, body : Bodies, history_valid : BOOLEAN,
   gap_first : Nat, gap_last : Nat, gap_epoch : Nat]
GapRecord == [first : Nat, last : Nat, epoch : Nat, cumulative : Nat]
LateRecord ==
  [seq : Seqs, body : Bodies, committed_next : Nat, epoch : Nat,
   reason : {"kBehindCommittedFrontier", "kPendingCanonicalConflict"}]
FaultRecord ==
  [reason : {"kDecodeFailure", "kCanonicalConflict"}, expected : Nat,
   observed : Seqs]
ChannelLog ==
  [origin : Nat, held : SUBSET Seqs, received : SUBSET Tick,
   committed : Seq(CommitRecord), gaps : Seq(GapRecord),
   late : SUBSET LateRecord, faults : Seq(FaultRecord), lost : SUBSET Tick]

Labels == {"ready", "process", "after", "drain", "poll", "flush", "done"}

\* The state has the types of the C++ members it stands for.
TypeOK ==
  /\ channels \in Seq(Channels)
  /\ state \in [Channels -> ChannelState]
  /\ log \in [Channels -> ChannelLog]
  /\ next_deadline_ns \in Nat /\ next_timer \in Nat /\ clock \in Nat
  /\ now \in Nat /\ last_receive \in Nat /\ arrivals \in Nat
  /\ healthy \in BOOLEAN
  /\ pc \in Labels /\ ret \in Labels \ {"drain", "done"}
  /\ cur \in Channels /\ msg \in Slot /\ index \in Nat \ {0}
  /\ pc = "process" => msg \in Tick

Active(c) == ~state[c].discovering
Draining(c) == pc = "drain" /\ cur = c

\* The reorder table: every retained record sits in the slot its sequence maps
\* to, none lies behind the frontier (and none at the frontier except while
\* DrainContiguous runs), and pending_count, on which Poll and Flush decide
\* whether a channel still holds anything, is the number of occupied slots.
TableConsistent ==
  \A c \in Channels :
    /\ state[c].pending_count = Cardinality(Occupied(state[c]))
    /\ \A i \in Occupied(state[c]) :
         /\ SlotOf(state[c].pending[i].seq) = i
         /\ Active(c) => \/ state[c].pending[i].seq > state[c].expected
                         \/ /\ state[c].pending[i].seq = state[c].expected
                            /\ Draining(c)

\* The realtime stream of a channel never goes backward and never repeats a
\* native sequence, whatever order ticks arrive in, however gaps are forced,
\* and even after a queue overflow; everything emitted is behind the frontier.
StrictNativeOrder ==
  \A c \in Channels :
    LET out == log[c].committed
    IN  /\ \A i, j \in 1..Len(out) : i < j => out[i].seq < out[j].seq
        /\ \A i \in 1..Len(out) :
             log[c].origin <= out[i].seq /\ out[i].seq < state[c].expected

\* Every native position from the origin to the frontier is accounted for
\* once: it was committed, or it is counted in cumulative_missing_sequences.
\* The gap epoch is the number of ChannelGap records published.
FrontierAccounting ==
  \A c \in Channels : Active(c) =>
    /\ state[c].expected =
         log[c].origin + Len(log[c].committed) + state[c].cumulative_missing
    /\ state[c].gap_epoch = Len(log[c].gaps)

\* The published ranges are disjoint, ascending, and none contains a sequence
\* that was emitted; each record's running total is the sum of the ranges so far.
GapsDisjointFromOutput ==
  \A c \in Channels :
    LET g == log[c].gaps
    IN  /\ \A i \in 1..Len(g) :
             /\ g[i].first <= g[i].last /\ g[i].last < state[c].expected
             /\ g[i].epoch = i
             /\ g[i].cumulative = (g[i].last - g[i].first + 1) +
                                  (IF i = 1 THEN 0 ELSE g[i - 1].cumulative)
             /\ \A j \in 1..Len(log[c].committed) :
                  log[c].committed[j].seq \notin g[i].first..g[i].last
        /\ \A i, j \in 1..Len(g) : i < j => g[i].last < g[j].first

\* The tick whose handler is still looking for a place for it.
InFlight(c) ==
  IF cur = c /\ (pc = "process" \/ (pc = "drain" /\ ret = "process"))
    THEN {msg} ELSE {}
Pending(c) == {state[c].pending[i] : i \in Occupied(state[c])}
Published(c) ==
  {[seq |-> log[c].committed[i].seq, body |-> log[c].committed[i].body] :
     i \in 1..Len(log[c].committed)}
Diverted(c) == {[seq |-> r.seq, body |-> r.body] : r \in log[c].late}
Faulted(c) == {t \in Tick : \E i \in 1..Len(log[c].faults) :
                              log[c].faults[i].observed = t.seq}

\* No received body disappears: it is retained, emitted (or passed as a
\* sequence token), diverted to LateRecovery, or is the one a canonical
\* conflict froze the channel on.  Only a full queue loses a body, and then the
\* engine is no longer healthy.
BodyConserved ==
  \A c \in Channels :
    /\ log[c].received \subseteq
         InFlight(c) \cup Pending(c) \cup Published(c) \cup Diverted(c)
           \cup Faulted(c) \cup log[c].lost
    /\ Pending(c) \cup Published(c) \cup Diverted(c) \subseteq log[c].received
    /\ log[c].lost # {} => ~healthy

\* A record that claims complete channel history (kTickChannelHistoryValid) is
\* preceded on its channel by every sequence from 1: the i-th commit is
\* sequence i.  A PARTIAL channel never makes the claim.
HistoryClaim ==
  \A c \in Channels : \A i \in 1..Len(log[c].committed) :
    log[c].committed[i].history_valid =>
      Mode = "FROM_OPEN" /\ log[c].committed[i].seq = i

Dispatched(c) == {i \in 1..Len(log[c].committed) : log[c].committed[i].body \in CatalogBodies}
\* The gaps between dispatched record i of channel c and the one before it,
\* where a record whose queue was full does not count as dispatched.
GapsBefore(c, i) ==
  LET out == log[c].committed
      prev == Max({0} \cup {out[j].seq : j \in {k \in Dispatched(c) : k < i}})
  IN  {g \in 1..Len(log[c].gaps) :
         log[c].gaps[g].last < out[i].seq /\ log[c].gaps[g].first > prev}

\* While the engine is healthy, the first dispatched record behind a gap, and
\* no other, carries the gap's range and epoch, even when sequence tokens (not
\* dispatched) or a further gap come in between: then it is the latest gap.
GapMetadataDelivered ==
  healthy => \A c \in Channels : \A i \in Dispatched(c) :
    LET r == log[c].committed[i]
        before == GapsBefore(c, i)
    IN  IF before = {} THEN r.gap_epoch = 0 /\ r.gap_last = 0
        ELSE LET g == log[c].gaps[Max(before)]
             IN  r.gap_first = g.first /\ r.gap_last = g.last /\ r.gap_epoch = g.epoch

\* A LateRecovery record really is late: it lies behind the frontier it
\* reports, or another projection of the same sequence was kept in its place.
LateExplained ==
  \A c \in Channels : \A r \in log[c].late :
    /\ r.committed_next <= state[c].expected
    /\ r.reason = "kBehindCommittedFrontier" => r.seq < r.committed_next
    /\ r.reason = "kPendingCanonicalConflict" =>
         \E t \in Pending(c) \cup Published(c) \cup log[c].lost :
           t.seq = r.seq /\ t.body # r.body

Due(start, delay) == IF MaxU64 - start < delay THEN MaxU64 ELSE start + delay

\* Between calls, a healthy lane has a timer armed for every channel that
\* retains records, no later than that channel's own deadline: one shared
\* next_deadline_ns never makes a quieter channel wait beyond its time.
TimersArmed ==
  (pc = "ready" /\ healthy) =>
    \A c \in Channels : ~state[c].frozen /\ state[c].pending_count # 0 =>
      LET s == state[c]
          start == IF s.discovering THEN s.first_seen_ns ELSE s.gap_open_ns
      IN  /\ start # 0 /\ next_deadline_ns # 0
          /\ next_deadline_ns <=
               Due(start, IF s.discovering THEN InitialHold ELSE GapWait)

\* After Flush nothing is retained outside a frozen channel.
FlushEmptiesTable ==
  pc = "done" => \A c \in Channels :
    state[c].frozen \/ (state[c].pending_count = 0 /\ ~(Used(c) /\ state[c].discovering))

\* A frozen channel stays frozen, emits nothing more and reports exactly one
\* fault; only FROM_OPEN freezes.
FrozenIsFinal ==
  [][\A c \in Channels : state[c].frozen =>
       /\ state'[c] = state[c] /\ log'[c] = log[c]
       /\ Mode = "FROM_OPEN" /\ Len(log[c].faults) = 1]_vars

\* A gap is only ever declared over sequences of which no body was received
\* (unless one of the sequence's bodies was lost with the engine): the tick that
\* forces the gap and everything retained lie beyond it.
GapNeverHidesABody ==
  [][\A c \in Channels : Len(log'[c].gaps) > Len(log[c].gaps) =>
       LET g == log'[c].gaps[Len(log'[c].gaps)]
       IN  \A t \in log'[c].received :
             (\A u \in log'[c].lost : u.seq # t.seq) => t.seq \notin g.first..g.last]_vars

\* A record waiting behind a gap does not wait for ever: the timer scan, later
\* ticks or Flush empty the table, unless the channel freezes or the engine
\* becomes unhealthy.
PendingEventuallyDrained ==
  \A c \in Channels :
    (state[c].pending_count # 0) ~>
      (state[c].pending_count = 0 \/ state[c].frozen \/ ~healthy)

\* docs/mdl-ingestd-design.md: during the initial hold PARTIAL "selects the
\* smallest observed native sequence as the process-start origin".
OriginIsSmallestObserved ==
  \A c \in Channels : Active(c) /\ Used(c) =>
    \A seq \in log[c].held : log[c].origin <= seq
=============================================================================
