----------------------- MODULE RecoveryHistoryProofs -----------------------
(***************************************************************************)
(* More about SequenceRecovery, for every value of its constants: what the *)
(* history of a channel says of its ticks, gaps, LateRecovery records and  *)
(* faults, what Flush leaves behind, which record carries a gap's          *)
(* metadata, and that no channel's timer is forgotten.  Every invariant    *)
(* here is relative to IInv of SequenceRecoveryProofs.                     *)
(***************************************************************************)
EXTENDS SequenceRecoveryProofs

(***************************************************************************)
(* What the operations on a ChannelState leave alone.                      *)
(***************************************************************************)
\* Insert changes the table and its count.
LEMMA InsertKeeps ==
  ASSUME NEW s \in ChannelState, NEW t \in Tick
  PROVE  LET r == Insert(s, t)
         IN  /\ r \in ChannelState /\ r.frozen = s.frozen /\ r.discovering = s.discovering
             /\ r.expected = s.expected /\ r.pending_count = s.pending_count + 1
             /\ r.first_seen_ns = s.first_seen_ns /\ r.gap_open_ns = s.gap_open_ns
             /\ r.cumulative_missing = s.cumulative_missing /\ r.gap_epoch = s.gap_epoch
             /\ r.gap_metadata_pending = s.gap_metadata_pending
             /\ r.pending_gap_first = s.pending_gap_first
             /\ r.pending_gap_last = s.pending_gap_last
<1>1. SlotOf(t.seq) \in SlotIndex
  BY SlotInRange DEF Tick, Seqs
<1>2. [s.pending EXCEPT ![SlotOf(t.seq)] = t] \in [SlotIndex -> Slot] /\ s.pending_count + 1 \in Nat
  BY <1>1 DEF ChannelState, Slot, Tick
<1>3. QED
  BY <1>2 DEF Insert, ChannelState

\* AdvanceTo changes the frontier and the gap fields.
LEMMA AdvanceKeeps ==
  ASSUME NEW s \in ChannelState, NEW next \in Nat
  PROVE  LET r == AdvanceTo(s, next)
         IN  /\ r.frozen = s.frozen /\ r.discovering = s.discovering
             /\ r.expected = next /\ r.pending_count = s.pending_count
             /\ r.pending = s.pending
             /\ r.first_seen_ns = s.first_seen_ns /\ r.gap_open_ns = s.gap_open_ns
<1> DEFINE g == RecordGap(s, next)
<1>1. /\ g.frozen = s.frozen /\ g.discovering = s.discovering
      /\ g.pending_count = s.pending_count /\ g.pending = s.pending
      /\ g.first_seen_ns = s.first_seen_ns /\ g.gap_open_ns = s.gap_open_ns
      /\ DOMAIN g = DOMAIN s
  <2>1. CASE next - 1 < s.expected
    BY <2>1 DEF RecordGap
  <2>2. CASE ~(next - 1 < s.expected)
    BY <2>2 DEF RecordGap, ChannelState
  <2>3. QED
    BY <2>1, <2>2
<1>2. AdvanceTo(s, next) = [g EXCEPT !.expected = next] /\ "expected" \in DOMAIN g
  BY <1>1 DEF AdvanceTo, ChannelState
<1> HIDE DEF g
<1>3. QED
  BY <1>1, <1>2 DEF ChannelState

\* FinishDiscovery changes the frontier and the discovering flag.
LEMMA FinishKeeps ==
  ASSUME NEW s \in ChannelState
  PROVE  LET r == FinishDiscovery(s)
         IN  /\ r.frozen = s.frozen /\ ~r.discovering
             /\ r.pending_count = s.pending_count /\ r.pending = s.pending
             /\ r.first_seen_ns = s.first_seen_ns /\ r.gap_open_ns = s.gap_open_ns
             /\ r.cumulative_missing = s.cumulative_missing /\ r.gap_epoch = s.gap_epoch
             /\ r.gap_metadata_pending = s.gap_metadata_pending
             /\ r.pending_gap_first = s.pending_gap_first
             /\ r.pending_gap_last = s.pending_gap_last
             /\ r.expected = (IF s.pending_count = 0 THEN s.expected ELSE MinimumPending(s))
BY DEF FinishDiscovery, ChannelState

\* A record that passes the frontier changes the frontier and the metadata flag.
LEMMA TakeKeeps ==
  ASSUME NEW s \in ChannelState, NEW body, NEW next
  PROVE  LET u == TakeGapMetadata(s, body)
             r == [u EXCEPT !.expected = next]
         IN  /\ u.frozen = s.frozen /\ u.discovering = s.discovering
             /\ u.expected = s.expected /\ u.pending = s.pending
             /\ u.pending_count = s.pending_count
             /\ u.cumulative_missing = s.cumulative_missing /\ u.gap_epoch = s.gap_epoch
             /\ u.first_seen_ns = s.first_seen_ns /\ u.gap_open_ns = s.gap_open_ns
             /\ r.frozen = s.frozen /\ r.discovering = s.discovering
             /\ r.expected = next /\ r.pending = s.pending
             /\ r.pending_count = s.pending_count
             /\ r.cumulative_missing = s.cumulative_missing /\ r.gap_epoch = s.gap_epoch
             /\ r.first_seen_ns = s.first_seen_ns /\ r.gap_open_ns = s.gap_open_ns
             /\ r.pending_gap_first = s.pending_gap_first
             /\ r.pending_gap_last = s.pending_gap_last
             /\ r.gap_metadata_pending = (s.gap_metadata_pending /\ body \notin CatalogBodies)
BY DEF TakeGapMetadata, ChannelState

\* EmitOne frees the frontier's slot and counts it.
LEMMA FreeKeeps ==
  ASSUME NEW s \in ChannelState
  PROVE  LET r == FreeFrontierSlot(s)
         IN  /\ r.frozen = s.frozen /\ r.discovering = s.discovering
             /\ r.expected = s.expected /\ r.pending_count = s.pending_count - 1
             /\ r.cumulative_missing = s.cumulative_missing /\ r.gap_epoch = s.gap_epoch
             /\ r.gap_metadata_pending = s.gap_metadata_pending
             /\ r.pending_gap_first = s.pending_gap_first
             /\ r.pending_gap_last = s.pending_gap_last
             /\ r.first_seen_ns = s.first_seen_ns /\ r.gap_open_ns = s.gap_open_ns
BY DEF FreeFrontierSlot, ChannelState

\* The channel of the current tick with the tick retained: while discovering, and
\* ahead of the frontier.
HeldTick ==
  [Insert(state[cur], msg) EXCEPT
     !.first_seen_ns = IF state[cur].first_seen_ns = 0 THEN now ELSE @]
HoldOver == InitialHold = 0 \/ DeadlineReached(now, HeldTick.first_seen_ns, InitialHold)
RetainedTick ==
  [Insert(state[cur], msg) EXCEPT
     !.gap_open_ns = IF state[cur].gap_open_ns = 0 THEN now ELSE @]

\* Retaining a tick while discovering sets the first-seen time once.
LEMMA HeldTickKeeps ==
  ASSUME IInv, InProcess
  PROVE  LET s == state[cur]
             i == Insert(s, msg)
             r == HeldTick
         IN  /\ r \in ChannelState /\ r.frozen = s.frozen /\ r.discovering = s.discovering
             /\ r.expected = s.expected /\ r.pending_count = s.pending_count + 1
             /\ r.pending = i.pending /\ r.gap_open_ns = s.gap_open_ns
             /\ r.cumulative_missing = s.cumulative_missing /\ r.gap_epoch = s.gap_epoch
             /\ r.gap_metadata_pending = s.gap_metadata_pending
             /\ r.pending_gap_first = s.pending_gap_first
             /\ r.pending_gap_last = s.pending_gap_last
             /\ r.history_complete = i.history_complete
             /\ r.first_seen_ns = (IF s.first_seen_ns = 0 THEN now ELSE s.first_seen_ns)
<1> DEFINE s == state[cur]
           i == Insert(s, msg)
<1>1. s \in ChannelState /\ msg \in Tick /\ now \in Nat
  BY ProcessFacts
<1> HIDE DEF s
<1>2. /\ i \in ChannelState /\ i.frozen = s.frozen /\ i.discovering = s.discovering
      /\ i.expected = s.expected /\ i.pending_count = s.pending_count + 1
      /\ i.first_seen_ns = s.first_seen_ns /\ i.gap_open_ns = s.gap_open_ns
      /\ i.cumulative_missing = s.cumulative_missing /\ i.gap_epoch = s.gap_epoch
      /\ i.gap_metadata_pending = s.gap_metadata_pending
      /\ i.pending_gap_first = s.pending_gap_first /\ i.pending_gap_last = s.pending_gap_last
  BY <1>1, InsertKeeps
<1>3. HeldTick = [i EXCEPT !.first_seen_ns = IF s.first_seen_ns = 0 THEN now ELSE i.first_seen_ns]
  BY DEF HeldTick, s
<1> HIDE DEF i
<1>4. QED
  BY <1>1, <1>2, <1>3 DEF ChannelState, s, i

\* Retaining a tick ahead of the frontier starts the gap timer once.
LEMMA RetainedTickKeeps ==
  ASSUME IInv, InProcess
  PROVE  LET s == state[cur]
             i == Insert(s, msg)
             r == RetainedTick
         IN  /\ r \in ChannelState /\ r.frozen = s.frozen /\ r.discovering = s.discovering
             /\ r.expected = s.expected /\ r.pending_count = s.pending_count + 1
             /\ r.pending = i.pending /\ r.first_seen_ns = s.first_seen_ns
             /\ r.cumulative_missing = s.cumulative_missing /\ r.gap_epoch = s.gap_epoch
             /\ r.gap_metadata_pending = s.gap_metadata_pending
             /\ r.pending_gap_first = s.pending_gap_first
             /\ r.pending_gap_last = s.pending_gap_last
             /\ r.history_complete = i.history_complete
             /\ r.gap_open_ns = (IF s.gap_open_ns = 0 THEN now ELSE s.gap_open_ns)
<1> DEFINE s == state[cur]
           i == Insert(s, msg)
<1>1. s \in ChannelState /\ msg \in Tick /\ now \in Nat
  BY ProcessFacts
<1> HIDE DEF s
<1>2. /\ i \in ChannelState /\ i.frozen = s.frozen /\ i.discovering = s.discovering
      /\ i.expected = s.expected /\ i.pending_count = s.pending_count + 1
      /\ i.first_seen_ns = s.first_seen_ns /\ i.gap_open_ns = s.gap_open_ns
      /\ i.cumulative_missing = s.cumulative_missing /\ i.gap_epoch = s.gap_epoch
      /\ i.gap_metadata_pending = s.gap_metadata_pending
      /\ i.pending_gap_first = s.pending_gap_first /\ i.pending_gap_last = s.pending_gap_last
  BY <1>1, InsertKeeps
<1>3. RetainedTick = [i EXCEPT !.gap_open_ns = IF s.gap_open_ns = 0 THEN now ELSE i.gap_open_ns]
  BY DEF RetainedTick, s
<1> HIDE DEF i
<1>4. QED
  BY <1>1, <1>2, <1>3 DEF ChannelState, s, i

-----------------------------------------------------------------------------
(***************************************************************************)
(* The lane's control state.  A channel is created once, a channel that is *)
(* not in channels_ is untouched, DrainContiguous never runs on a frozen   *)
(* channel, and a scan is at the channel its index names.                  *)
(***************************************************************************)
Lanes == 1..Len(channels)

CreatedOnce ==
  /\ \A i, j \in Lanes : i # j => channels[i] # channels[j]
  /\ \A c \in Channels : ~Used(c) => state[c] = NewChannel

CallInv ==
  /\ pc \in {"process", "drain"} => Used(cur)
  /\ pc = "drain" => ~state[cur].frozen /\ ret \in {"process", "after", "poll", "flush"}
  /\ pc = "drain" /\ ret = "poll" => index - 1 \in Lanes /\ cur = channels[index - 1]
  /\ pc = "drain" /\ ret = "flush" => index \in Lanes /\ cur = channels[index]

\* Flush has done with a channel.
Settled(c) == state[c].frozen \/ (state[c].pending_count = 0 /\ ~state[c].discovering)

FlushInv ==
  /\ pc = "flush" \/ (pc = "drain" /\ ret = "flush") =>
       \A i \in Lanes : i < index => Settled(channels[i])
  /\ pc = "done" => \A i \in Lanes : Settled(channels[i])

ControlInv == CreatedOnce /\ CallInv /\ FlushInv

\* A step on a channel of the lane creates none.
LEMMA SameChannels ==
  ASSUME IInv, CreatedOnce, UNCHANGED channels,
         \/ UNCHANGED state
         \/ \E c \in Channels : \E r : Used(c) /\ state' = [state EXCEPT ![c] = r]
  PROVE  CreatedOnce'
<1>1. state \in [Channels -> ChannelState]
  BY DEF IInv, TypeOK
<1>2. ASSUME NEW c \in Channels, NEW r, Used(c), state' = [state EXCEPT ![c] = r]
      PROVE  \A e \in Channels : ~Used(e) => state'[e] = state[e]
  BY <1>1, <1>2
<1>3. \A e \in Channels : ~Used(e) => state'[e] = state[e]
  BY <1>2
<1>4. \A e \in Channels : Used(e)' <=> Used(e)
  BY DEF Used
<1>5. QED
  BY <1>3, <1>4 DEF CreatedOnce, Lanes

\* The channels of the lane are channels.
LEMMA LaneChannels ==
  ASSUME IInv
  PROVE  /\ Len(channels) \in Nat /\ index \in Nat \ {0}
         /\ \A i \in Lanes : channels[i] \in Channels /\ Used(channels[i])
<1>1. channels \in Seq(Channels) /\ index \in Nat \ {0}
  BY DEF IInv, TypeOK
<1>2. QED
  BY <1>1 DEF Lanes, Used

\* FindOrCreate appends a channel that was not there.
LEMMA Created ==
  ASSUME IInv, CreatedOnce, NEW c \in Channels,
         channels' = IF Used(c) THEN channels ELSE Append(channels, c),
         \A e \in Channels \ {c} : state'[e] = state[e]
  PROVE  CreatedOnce' /\ Used(c)'
<1>1. channels \in Seq(Channels) /\ Len(channels) \in Nat
  BY DEF IInv, TypeOK
<1>2. CASE Used(c)
  <2>1. \A e \in Channels : Used(e)' <=> Used(e)
    BY <1>2 DEF Used
  <2>2. \A e \in Channels : ~Used(e) => state'[e] = state[e]
    BY <1>2
  <2>3. QED
    BY <1>2, <2>1, <2>2 DEF CreatedOnce, Lanes
<1>3. CASE ~Used(c)
  <2> DEFINE n == Len(channels)
  <2>1. /\ Len(channels') = n + 1 /\ channels'[n + 1] = c
        /\ \A i \in 1..n : channels'[i] = channels[i] /\ channels[i] # c
    BY <1>1, <1>3 DEF Used
  <2> HIDE DEF n
  <2>2. \A i \in 1..(n + 1) : i \in 1..n \/ i = n + 1
    BY <1>1 DEF n
  <2>3. \A i \in 1..n : i \in 1..(n + 1)
    BY <1>1 DEF n
  <2>4. n + 1 \in 1..(n + 1)
    BY <1>1 DEF n
  <2>5. \A e \in Channels : Used(e) => Used(e)'
    BY <2>1, <2>3 DEF Used, n
  <2>6. Used(c)'
    BY <2>1, <2>4 DEF Used
  <2>7. \A i, j \in 1..(n + 1) : i # j => channels'[i] # channels'[j]
    BY <2>1, <2>2 DEF CreatedOnce, Lanes, n
  <2>8. \A e \in Channels : ~Used(e)' => state'[e] = NewChannel
    BY <2>5, <2>6 DEF CreatedOnce
  <2>9. QED
    BY <2>1, <2>6, <2>7, <2>8 DEF CreatedOnce, Lanes
<1>4. QED
  BY <1>2, <1>3

\* Time, dropped ticks and the bookkeeping of the scans.
LEMMA QuietControl == ASSUME IInv, ControlInv, QuietStep PROVE ControlInv'
<1>1. UNCHANGED <<state, log, channels>> /\ pc' \notin {"process", "drain"}
  BY DEF QuietStep, AdvanceClock, DecodeFailureWithoutPosition, ProcessFrozen,
         DiscoverDuplicate, AheadDuplicate, AfterMessage, IdlePoll, PollSkip,
         PollDone, BeginFlush, FlushDone, Terminated, InProcess, InDiscovery,
         Ahead, InActive, Consume, Goto, CallPoll, InPoll, vars, lane
<1>2. \/ pc' \notin {"flush", "done"}
      \/ pc' = "flush" /\ index' = 1
      \/ pc' = "done" /\ pc = "flush" /\ index > Len(channels)
      \/ pc' = "done" /\ pc = "done"
  BY DEF QuietStep, AdvanceClock, DecodeFailureWithoutPosition, ProcessFrozen,
         DiscoverDuplicate, AheadDuplicate, AfterMessage, IdlePoll, PollSkip,
         PollDone, BeginFlush, FlushDone, Terminated, InProcess, InDiscovery,
         Ahead, InActive, Consume, Goto, CallPoll, InPoll, vars
<1>3. CreatedOnce'
  BY <1>1, SameChannels DEF ControlInv
<1>4. CallInv'
  BY <1>1 DEF CallInv
<1>5. FlushInv'
  <2>1. Len(channels) \in Nat /\ index \in Nat
    BY LaneChannels
  <2>2. (\A i \in Lanes : Settled(channels[i]))' <=> (\A i \in Lanes : Settled(channels[i]))
    BY <1>1 DEF Settled, Lanes
  <2>3. \A i \in Lanes : ~(i < 1) /\ (index > Len(channels) => i < index)
    BY <2>1 DEF Lanes
  <2>4. CASE pc' = "flush" /\ index' = 1
    BY <1>1, <2>3, <2>4 DEF FlushInv, Lanes
  <2>5. CASE pc' = "done" /\ pc = "flush" /\ index > Len(channels)
    BY <2>2, <2>3, <2>5 DEF ControlInv, FlushInv
  <2>6. CASE pc' = "done" /\ pc = "done"
    BY <2>2, <2>6 DEF ControlInv, FlushInv
  <2>7. QED
    BY <1>1, <1>2, <2>4, <2>5, <2>6 DEF FlushInv
<1>6. QED
  BY <1>3, <1>4, <1>5 DEF ControlInv

\* A tick arrives and finds or creates its channel.
LEMMA ArrivalControl ==
  ASSUME IInv, ControlInv, NEW c \in Channels, NEW t \in 1..MaxArrivalTime,
         (\E tick \in Tick : Process(c, tick, t)) \/ (\E seq \in Seqs : FreezeDecodeFailure(c, seq, t))
  PROVE  ControlInv'
<1>1. state \in [Channels -> ChannelState]
  BY DEF IInv, TypeOK
<1>2. \A e \in Channels \ {c} : state'[e] = state[e]
  BY <1>1 DEF Process, FreezeDecodeFailure, FreezeFromOpen, Update
<1>3. pc' \in {"process", "after"}
  BY DEF Process, FreezeDecodeFailure, Goto
<1>4. CreatedOnce' /\ (pc' = "process" => Used(c)' /\ cur' = c)
  <2>1. CASE UNCHANGED <<channels, state>> /\ pc' = "after"
    BY <2>1, SameChannels DEF ControlInv
  <2>2. CASE channels' = IF Used(c) THEN channels ELSE Append(channels, c)
    BY <1>2, <2>2, Created DEF ControlInv, Process, FreezeDecodeFailure
  <2>3. QED
    BY <2>1, <2>2 DEF Process, FreezeDecodeFailure, Goto
<1>5. CallInv'
  BY <1>3, <1>4 DEF CallInv
<1>6. FlushInv'
  BY <1>3 DEF FlushInv
<1>7. QED
  BY <1>4, <1>5, <1>6 DEF ControlInv

\* A handler of the current tick.
LEMMA HandlerControl ==
  ASSUME IInv, ControlInv, InProcess, UNCHANGED channels, NEW r,
         state' = [state EXCEPT ![cur] = r],
         \/ pc' \in {"process", "after"}
         \/ pc' = "drain" /\ ret' \in {"process", "after"} /\ ~r.frozen
  PROVE  ControlInv'
<1>1. state \in [Channels -> ChannelState] /\ cur \in Channels /\ pc = "process" /\ cur' = cur
  BY DEF IInv, TypeOK, InProcess, regs
<1>2. Used(cur) /\ Used(cur)'
  BY <1>1 DEF ControlInv, CallInv, Used
<1>3. CreatedOnce'
  BY <1>1, <1>2, SameChannels DEF ControlInv
<1>4. CallInv'
  BY <1>1, <1>2 DEF CallInv
<1>5. FlushInv'
  BY DEF FlushInv
<1>6. QED
  BY <1>3, <1>4, <1>5 DEF ControlInv

\* The same when the handler ends in ForceGapToMinimum.
LEMMA ForceControl ==
  ASSUME IInv, ControlInv, InProcess, UNCHANGED channels,
         NEW s \in ChannelState, ~s.frozen, NEW label \in {"process", "after"},
         ForceGapToMinimum(cur, s, label)
  PROVE  ControlInv'
<1> DEFINE r == AdvanceTo(s, MinimumPending(s))
<1>1. state' = [state EXCEPT ![cur] = r] /\ pc' = "drain" /\ ret' = label
  BY DEF ForceGapToMinimum, Update, DrainThen
<1>2. MinimumPending(s) \in Nat
  BY MinimumPendingLeast
<1>3. ~r.frozen
  BY <1>2, AdvanceKeeps
<1> HIDE DEF r
<1>4. QED
  BY <1>1, <1>3, HandlerControl

\* What the handlers do to control, read off the actions.
LEMMA ProcessControl ==
  ASSUME IInv, ControlInv, ProcessStep
  PROVE  ControlInv'
<1>1. state \in [Channels -> ChannelState] /\ cur \in Channels
  BY DEF IInv, TypeOK
<1>2. CASE ProcessFrozen \/ DiscoverDuplicate \/ AheadDuplicate
  BY <1>2, QuietControl DEF QuietStep
<1>3. CASE DiscoverConflict \/ LateArrival
           \/ (AheadConflict /\ DivertLateRecovery("kPendingCanonicalConflict"))
  <2>1. InProcess /\ UNCHANGED <<channels, state>> /\ pc' = "after"
    BY <1>3 DEF DiscoverConflict, LateArrival, AheadConflict, Ahead, InDiscovery, InActive,
                DivertLateRecovery, Goto
  <2>2. state' = [state EXCEPT ![cur] = state[cur]]
    BY <1>1, <2>1
  <2>3. QED
    BY <2>1, <2>2, HandlerControl
<1>4. CASE AheadConflict /\ FreezeFromOpen(cur, "kCanonicalConflict", msg.seq) /\ Goto("after")
           /\ UNCHANGED channels
  <2>1. InProcess /\ pc' = "after" /\ state' = [state EXCEPT ![cur] = [state[cur] EXCEPT !.frozen = TRUE]]
    BY <1>4 DEF AheadConflict, Ahead, InActive, Goto, FreezeFromOpen, Update
  <2>2. QED
    BY <1>4, <2>1, HandlerControl
<1>5. CASE DiscoverCollision
  <2>1. /\ InProcess /\ ~state[cur].frozen /\ pc' = "drain" /\ ret' = "process"
        /\ UNCHANGED channels /\ state' = [state EXCEPT ![cur] = FinishDiscovery(state[cur])]
    BY <1>5 DEF DiscoverCollision, InDiscovery, DrainThen, Update, lane
  <2>2. ~FinishDiscovery(state[cur]).frozen
    BY <1>1, <2>1, FinishKeeps
  <2>3. QED
    BY <2>1, <2>2, HandlerControl
<1>6. CASE DiscoverInsert
  <2>1. /\ InProcess /\ ~state[cur].frozen /\ UNCHANGED channels
        /\ state' = [state EXCEPT ![cur] = IF HoldOver THEN FinishDiscovery(HeldTick) ELSE HeldTick]
        /\ IF HoldOver THEN pc' = "drain" /\ ret' = "after" ELSE pc' = "after"
    BY <1>6 DEF DiscoverInsert, InDiscovery, DrainThen, Goto, Update, HeldTick, HoldOver
  <2>2. HeldTick \in ChannelState /\ ~HeldTick.frozen
    BY <2>1, HeldTickKeeps
  <2>3. ~FinishDiscovery(HeldTick).frozen
    BY <2>2, FinishKeeps
  <2>4. QED
    BY <2>1, <2>2, <2>3, HandlerControl
<1>7. CASE EmitAtFrontier
  <2> DEFINE taken == TakeGapMetadata(state[cur], msg.body)
             r == [taken EXCEPT !.expected = state[cur].expected + 1]
  <2>1. /\ InProcess /\ ~state[cur].frozen /\ UNCHANGED channels
        /\ \/ state' = [state EXCEPT ![cur] = r] /\ pc' = "drain" /\ ret' = "after"
           \/ state' = [state EXCEPT ![cur] = taken] /\ pc' = "after"
    BY <1>7 DEF EmitAtFrontier, InActive, DrainThen, Goto, Update
  <2>2. ~r.frozen
    BY <1>1, <2>1, TakeKeeps
  <2> HIDE DEF r, taken
  <2>3. QED
    BY <2>1, <2>2, HandlerControl
<1>8. CASE AheadRetain
  <2>1. /\ InProcess /\ ~state[cur].frozen /\ UNCHANGED channels
        /\ \/ ForceGapToMinimum(cur, RetainedTick, "after")
           \/ state' = [state EXCEPT ![cur] = RetainedTick] /\ pc' = "after"
    BY <1>8 DEF AheadRetain, Ahead, InActive, Goto, Update, RetainedTick
  <2>2. RetainedTick \in ChannelState /\ ~RetainedTick.frozen
    BY <2>1, RetainedTickKeeps
  <2>3. QED
    BY <2>1, <2>2, HandlerControl, ForceControl
<1>9. CASE AheadFar
  <2>1. /\ InProcess /\ ~state[cur].frozen /\ UNCHANGED channels
        /\ ForceGapToMinimum(cur, Insert(state[cur], msg), "after")
    BY <1>9 DEF AheadFar, Ahead, InActive, lane
  <2>2. Insert(state[cur], msg) \in ChannelState /\ ~Insert(state[cur], msg).frozen
    BY <1>1, <2>1, ProcessFacts, InsertKeeps
  <2>3. QED
    BY <2>1, <2>2, ForceControl
<1>10. CASE AheadCollision
  <2>1. /\ InProcess /\ ~state[cur].frozen /\ UNCHANGED channels
        /\ \/ ForceGapToMinimum(cur, state[cur], "process")
           \/ state' = [state EXCEPT ![cur] = AdvanceTo(state[cur], msg.seq)] /\ pc' = "process"
    BY <1>10 DEF AheadCollision, Ahead, InActive, Goto, Update, lane
  <2>2. QED
    BY <1>1, <2>1, HandlerControl, ForceControl
<1>11. QED
  BY <1>2, <1>3, <1>4, <1>5, <1>6, <1>7, <1>8, <1>9, <1>10 DEF ProcessStep, AheadConflict

\* DrainContiguous stays on its channel until it returns.
LEMMA DrainControl ==
  ASSUME IInv, ControlInv, DrainEmit \/ DrainDone
  PROVE  ControlInv'
<1>1. /\ state \in [Channels -> ChannelState] /\ cur \in Channels /\ pc = "drain"
      /\ UNCHANGED <<channels, cur, index, ret>> /\ pc' \in {"drain", ret}
  BY DEF IInv, TypeOK, DrainEmit, DrainDone, Goto, regs
<1> DEFINE s == state[cur]
           t == s.pending[SlotOf(s.expected)]
           u == TakeGapMetadata(FreeFrontierSlot(s), t.body)
           r1 == [u EXCEPT !.expected = s.expected + 1]
           r3 == [s EXCEPT !.gap_open_ns = IF s.pending_count # 0 THEN now ELSE 0]
<1>2. \/ state' = [state EXCEPT ![cur] = u] \/ state' = [state EXCEPT ![cur] = r1]
      \/ state' = [state EXCEPT ![cur] = r3]
  BY DEF DrainEmit, DrainDone, Update
<1>3. u.frozen = s.frozen /\ r1.frozen = s.frozen /\ r3.frozen = s.frozen
  BY <1>1 DEF TakeGapMetadata, FreeFrontierSlot, ChannelState
<1> HIDE DEF u, r1, r3
<1>4. PICK r : state' = [state EXCEPT ![cur] = r] /\ r.frozen = s.frozen
  BY <1>2, <1>3
<1>5. Used(cur) /\ ~s.frozen /\ ret \in {"process", "after", "poll", "flush"}
  BY <1>1 DEF ControlInv, CallInv
<1>6. CreatedOnce'
  BY <1>1, <1>4, <1>5, SameChannels DEF ControlInv
<1>7. CallInv'
  <2>1. Used(cur)' /\ state'[cur'] = r
    BY <1>1, <1>4, <1>5 DEF Used
  <2>2. QED
    BY <1>1, <1>4, <1>5, <2>1 DEF ControlInv, CallInv, Lanes
<1>8. FlushInv'
  <2> SUFFICES ASSUME ret = "flush", NEW i \in Lanes, i < index
               PROVE  Settled(channels[i])'
    BY <1>1, <1>5 DEF FlushInv, Lanes
  <2>1. Settled(channels[i]) /\ channels[i] \in Channels
    BY <1>1, LaneChannels DEF ControlInv, FlushInv
  <2>2. channels[i] # cur
    <3>1. index \in Lanes /\ cur = channels[index] /\ i # index
      BY <1>1, LaneChannels DEF ControlInv, CallInv, Lanes
    <3>2. QED
      BY <3>1 DEF ControlInv, CreatedOnce
  <2>3. state'[channels[i]] = state[channels[i]]
    BY <1>1, <1>4, <2>1, <2>2
  <2>4. QED
    BY <1>1, <2>1, <2>3 DEF Settled
<1>9. QED
  BY <1>6, <1>7, <1>8 DEF ControlInv

\* Poll and Flush at the channel their index names.
LEMMA ScanControl ==
  ASSUME IInv, ControlInv, PollDiscovering \/ PollGap \/ FlushStep \/ FlushNext
  PROVE  ControlInv'
<1> DEFINE c == channels[index]
           s == state[c]
           r1 == FinishDiscovery(s)
           r2 == AdvanceTo(s, MinimumPending(s))
           r3 == IF s.frozen THEN s ELSE [s EXCEPT !.discovering = FALSE]
<1>1. /\ state \in [Channels -> ChannelState] /\ index \in Lanes /\ index \in Nat /\ c \in Channels
      /\ UNCHANGED channels /\ cur' = c /\ s \in ChannelState /\ Len(channels) \in Nat
  <2>1. index <= Len(channels) /\ cur' = c /\ UNCHANGED channels
    BY DEF PollDiscovering, PollGap, FlushStep, FlushNext, InPoll, InFlush, lane
  <2>2. index \in Lanes /\ index \in Nat /\ Len(channels) \in Nat
    BY <2>1, LaneChannels DEF Lanes
  <2>3. QED
    BY <2>1, <2>2, LaneChannels DEF IInv, TypeOK
<1>2. Used(c) /\ Used(cur)'
  BY <1>1 DEF Used, Lanes
<1>3. \/ /\ pc = "poll" /\ pc' = "poll" /\ UNCHANGED state
      \/ /\ pc = "poll" /\ pc' = "drain" /\ ret' = "poll" /\ index' = index + 1 /\ ~s.frozen
         /\ state' = [state EXCEPT ![c] = r1] \/ state' = [state EXCEPT ![c] = r2]
      \/ /\ pc = "flush" /\ pc' = "drain" /\ ret' = "flush" /\ index' = index /\ ~s.frozen
         /\ state' = [state EXCEPT ![c] = r1] \/ state' = [state EXCEPT ![c] = r2]
      \/ /\ pc = "flush" /\ pc' = "flush" /\ index' = index + 1
         /\ s.frozen \/ s.pending_count = 0
         /\ state' = [state EXCEPT ![c] = r3]
  BY DEF PollDiscovering, PollGap, FlushStep, FlushNext, InPoll, InFlush, StartFromMinimum,
         ForceGapToMinimum, Update, DrainThen, Goto
<1>4. /\ r1.frozen = s.frozen /\ r2.frozen = s.frozen
      /\ s.frozen \/ s.pending_count = 0 => r3.frozen \/ (r3.pending_count = 0 /\ ~r3.discovering)
  <2>1. MinimumPending(s) \in Nat
    BY <1>1, MinimumPendingLeast
  <2>2. r1.frozen = s.frozen
    BY <1>1, FinishKeeps
  <2>3. r2.frozen = s.frozen
    BY <1>1, <2>1, AdvanceKeeps
  <2>4. QED
    BY <1>1, <2>2, <2>3 DEF ChannelState
<1> HIDE DEF r1, r2, r3, s
<1>5. CreatedOnce'
  BY <1>1, <1>2, <1>3, SameChannels DEF ControlInv
<1>6. CallInv'
  <2>1. pc' = "drain" => ~state'[cur'].frozen
    BY <1>1, <1>3, <1>4 DEF s
  <2>2. (index + 1) - 1 = index
    BY <1>1
  <2> HIDE DEF c
  <2>3. pc' = "drain" /\ ret' = "poll" => index' - 1 = index
    BY <1>3, <2>2
  <2>4. QED
    BY <1>1, <1>2, <1>3, <2>1, <2>3 DEF CallInv, Lanes, c
<1>7. FlushInv'
  <2>1. CASE pc' = "poll" \/ (pc' = "drain" /\ ret' = "poll")
    BY <2>1 DEF FlushInv
  <2>2. CASE pc = "flush"
    <3>1. \A i \in Lanes : i < index => channels[i] # c /\ channels[i] \in Channels /\ Settled(channels[i])
      BY <1>1, <2>2, LaneChannels DEF ControlInv, CreatedOnce, FlushInv
    <3>2. PICK r : state' = [state EXCEPT ![c] = r]
      BY <1>3, <2>2
    <3>3. \A i \in Lanes : i < index => state'[channels[i]] = state[channels[i]]
      BY <1>1, <3>1, <3>2
    <3>4. \A i \in Lanes : i < index => Settled(channels[i])'
      BY <1>1, <3>1, <3>3 DEF Settled
    <3>5. CASE pc' = "drain" /\ index' = index
      BY <1>1, <3>4, <3>5 DEF FlushInv, Lanes
    <3>6. CASE /\ pc' = "flush" /\ index' = index + 1
               /\ s.frozen \/ s.pending_count = 0
               /\ state' = [state EXCEPT ![c] = r3]
      <4>1. state'[c].frozen \/ (state'[c].pending_count = 0 /\ ~state'[c].discovering)
        BY <1>1, <1>4, <3>6
      <4>2. \A i \in Lanes : i < index + 1 => i < index \/ i = index
        BY <1>1 DEF Lanes
      <4>3. QED
        BY <1>1, <3>4, <3>6, <4>1, <4>2 DEF FlushInv, Lanes, Settled
    <3>7. QED
      BY <1>3, <2>1, <2>2, <3>5, <3>6
  <2>3. QED
    BY <1>3, <2>1, <2>2
<1>8. QED
  BY <1>5, <1>6, <1>7 DEF ControlInv

\* Every step keeps the control invariant.
LEMMA NextControl == ASSUME IInv, ControlInv, [Next]_vars PROVE ControlInv'
<1>1. CASE UNCHANGED vars
  BY <1>1 DEF vars, ControlInv, CreatedOnce, CallInv, FlushInv, Lanes, Used, Settled
<1>2. CASE Arrival
  BY <1>2, ArrivalControl, QuietControl DEF Arrival, QuietStep
<1>3. CASE CallStep
  BY <1>3, QuietControl, ProcessControl, DrainControl, ScanControl DEF CallStep, QuietStep
<1>4. CASE AdvanceClock \/ IdlePoll \/ BeginFlush \/ Terminated
  BY <1>4, QuietControl DEF QuietStep
<1>5. QED
  BY <1>1, <1>2, <1>3, <1>4 DEF Next

\* Initially no channel exists.
LEMMA InitControl == ASSUME Init PROVE ControlInv
BY DEF Init, ControlInv, CreatedOnce, CallInv, FlushInv, Lanes, Used

\* After Flush nothing is retained outside a frozen channel, and no channel of the
\* lane is still discovering, however many forced gaps that took.
THEOREM FlushEmptiesTableHolds == Spec => []FlushEmptiesTable
<1>1. Init => IInv /\ ControlInv
  BY InitIInv, InitControl
<1>2. IInv /\ ControlInv /\ [Next]_vars => IInv' /\ ControlInv'
  BY NextIInv, NextControl
<1>3. IInv /\ ControlInv => FlushEmptiesTable
  <2> SUFFICES ASSUME IInv, ControlInv, pc = "done", NEW c \in Channels
               PROVE  state[c].frozen \/ (state[c].pending_count = 0
                                          /\ ~(Used(c) /\ state[c].discovering))
    BY DEF FlushEmptiesTable
  <2>1. CASE Used(c)
    BY <2>1 DEF Used, ControlInv, FlushInv, Lanes, Settled
  <2>2. CASE ~Used(c)
    BY <2>2 DEF ControlInv, CreatedOnce, NewChannel
  <2>3. QED
    BY <2>1, <2>2
<1>4. QED
  BY <1>1, <1>2, <1>3, PTL DEF Spec

-----------------------------------------------------------------------------
(***************************************************************************)
(* The history of one channel.  carried holds the tick whose handler has   *)
(* not found a place for it yet.                                           *)
(***************************************************************************)
PendingOf(s) == {s.pending[i] : i \in Occupied(s)}
PublishedOf(l) ==
  {[seq |-> l.committed[i].seq, body |-> l.committed[i].body] : i \in 1..Len(l.committed)}
DivertedOf(l) == {[seq |-> r.seq, body |-> r.body] : r \in l.late}
FaultedOf(l) ==
  {t \in Tick : \E i \in 1..Len(l.faults) : l.faults[i].observed = t.seq}

\* The published gaps are those of GapsDisjointFromOutput, and the latest carries
\* the channel's running total.
GapsInv(s, l) ==
  LET g == l.gaps
  IN  /\ \A i \in 1..Len(g) :
           /\ g[i].first <= g[i].last /\ g[i].last < s.expected
           /\ g[i].epoch = i
           /\ g[i].cumulative = (g[i].last - g[i].first + 1) +
                                (IF i = 1 THEN 0 ELSE g[i - 1].cumulative)
           /\ \A j \in 1..Len(l.committed) :
                l.committed[j].seq \notin g[i].first..g[i].last
      /\ \A i, j \in 1..Len(g) : i < j => g[i].last < g[j].first
      /\ s.cumulative_missing = IF Len(g) = 0 THEN 0 ELSE g[Len(g)].cumulative

\* Only a frozen channel has a fault, and exactly one.
FaultInv(s, l) ==
  /\ s.frozen => Mode = "FROM_OPEN" /\ Len(l.faults) = 1
  /\ ~s.frozen => Len(l.faults) = 0

LateInv(s, l) ==
  \A r \in l.late :
    /\ r.committed_next <= s.expected
    /\ r.reason = "kBehindCommittedFrontier" => r.seq < r.committed_next
    /\ r.reason = "kPendingCanonicalConflict" =>
         \E t \in PendingOf(s) \cup PublishedOf(l) \cup l.lost :
           t.seq = r.seq /\ t.body # r.body

BodyInv(s, l, carried, well) ==
  /\ l.received \subseteq carried \cup PendingOf(s) \cup PublishedOf(l) \cup DivertedOf(l)
                            \cup FaultedOf(l) \cup l.lost
  /\ carried \cup PendingOf(s) \cup PublishedOf(l) \cup DivertedOf(l) \subseteq l.received
  /\ l.lost # {} => ~well

HistoryInv(s, l, carried, well) ==
  GapsInv(s, l) /\ FaultInv(s, l) /\ LateInv(s, l) /\ BodyInv(s, l, carried, well)

Carrying == pc = "process" \/ (pc = "drain" /\ ret = "process")
Carried(c) == IF Carrying /\ cur = c /\ ~state[c].frozen THEN {msg} ELSE {}

HInv == \A c \in Channels : HistoryInv(state[c], log[c], Carried(c), healthy)

-----------------------------------------------------------------------------
(***************************************************************************)
(* Where the operations move ticks.                                        *)
(***************************************************************************)
\* What is retained depends on the table alone.
LEMMA SamePending ==
  ASSUME NEW s, NEW r, r.pending = s.pending
  PROVE  PendingOf(r) = PendingOf(s) /\ Occupied(r) = Occupied(s)
BY DEF PendingOf, Occupied

\* A retained tick is a tick.
LEMMA PendingTicks ==
  ASSUME NEW s \in ChannelState
  PROVE  PendingOf(s) \subseteq Tick
BY OccupiedTick DEF PendingOf

\* Insert into a free slot adds the tick.
LEMMA InsertPending ==
  ASSUME NEW s \in ChannelState, NEW t \in Tick, s.pending[SlotOf(t.seq)].seq = 0,
         NEW r, r.pending = Insert(s, t).pending
  PROVE  PendingOf(r) = PendingOf(s) \cup {t}
<1> DEFINE k == SlotOf(t.seq)
<1>1. k \in SlotIndex /\ t.seq # 0
  BY SlotInRange DEF Tick, Seqs
<1>2. r.pending = [s.pending EXCEPT ![k] = t] /\ s.pending \in [SlotIndex -> Slot]
  BY DEF Insert, ChannelState
<1>3. /\ r.pending[k] = t
      /\ \A i \in SlotIndex : i # k => r.pending[i] = s.pending[i]
  BY <1>1, <1>2
<1>4. Occupied(r) = Occupied(s) \cup {k} /\ k \notin Occupied(s)
  BY <1>1, <1>3 DEF Occupied
<1> HIDE DEF k
<1>5. \A i \in Occupied(s) : r.pending[i] = s.pending[i]
  BY <1>3, <1>4 DEF Occupied
<1>6. QED
  BY <1>3, <1>4, <1>5 DEF PendingOf

\* EmitOne takes the frontier's tick, and no other, out of the table.
LEMMA FreePending ==
  ASSUME NEW s \in ChannelState, FrontierPresent(s),
         NEW r, r.pending = FreeFrontierSlot(s).pending
  PROVE  PendingOf(s) = PendingOf(r) \cup {s.pending[SlotOf(s.expected)]}
<1> DEFINE k == SlotOf(s.expected)
<1>1. k \in SlotIndex /\ s.pending[k].seq # 0
  BY SlotInRange DEF ChannelState, FrontierPresent
<1>2. r.pending = [s.pending EXCEPT ![k] = Free] /\ s.pending \in [SlotIndex -> Slot]
  BY DEF FreeFrontierSlot, ChannelState
<1>3. /\ r.pending[k].seq = 0
      /\ \A i \in SlotIndex : i # k => r.pending[i] = s.pending[i]
  BY <1>1, <1>2 DEF Free
<1>4. Occupied(s) = Occupied(r) \cup {k} /\ k \notin Occupied(r)
  BY <1>1, <1>3 DEF Occupied
<1> HIDE DEF k
<1>5. \A i \in Occupied(r) : r.pending[i] = s.pending[i]
  BY <1>3, <1>4 DEF Occupied
<1>6. QED
  BY <1>4, <1>5 DEF PendingOf, k

\* A commit adds its tick to what was published.
LEMMA CommitPublished ==
  ASSUME NEW l \in ChannelLog, NEW m \in ChannelLog, NEW t \in Tick, NEW e \in CommitRecord,
         m.committed = Append(l.committed, e), e.seq = t.seq, e.body = t.body
  PROVE  PublishedOf(m) = PublishedOf(l) \cup {t}
<1> DEFINE n == Len(l.committed)
           p(x) == [seq |-> x.seq, body |-> x.body]
<1>1. /\ n \in Nat /\ Len(m.committed) = n + 1 /\ m.committed[n + 1] = e
      /\ \A i \in 1..n : m.committed[i] = l.committed[i]
  BY DEF ChannelLog
<1>2. p(e) = t
  BY DEF Tick
<1>3. \A i \in 1..(n + 1) : i \in 1..n \/ i = n + 1
  BY <1>1
<1>4. n + 1 \in 1..(n + 1) /\ \A i \in 1..n : i \in 1..(n + 1)
  BY <1>1
<1>5. PublishedOf(l) = {p(l.committed[i]) : i \in 1..n}
      /\ PublishedOf(m) = {p(m.committed[i]) : i \in 1..(n + 1)}
  BY <1>1 DEF PublishedOf
<1> HIDE DEF n, p
<1>6. QED
  BY <1>1, <1>2, <1>3, <1>4, <1>5

\* A step that only moves ticks between the handler, the table, the output and the
\* lost ones keeps the accounting of bodies, the explanation of every LateRecovery
\* record and the faults.
LEMMA MoveHistory ==
  ASSUME NEW s \in ChannelState, NEW l \in ChannelLog, NEW r \in ChannelState, NEW m \in ChannelLog,
         NEW k, NEW q, NEW well, NEW well2,
         FaultInv(s, l), LateInv(s, l), BodyInv(s, l, k, well),
         m.received = l.received, m.late = l.late, m.faults = l.faults,
         r.frozen = s.frozen, s.expected <= r.expected,
         k \cup PendingOf(s) \cup PublishedOf(l) \cup l.lost
           \subseteq q \cup PendingOf(r) \cup PublishedOf(m) \cup m.lost,
         PendingOf(s) \cup PublishedOf(l) \cup l.lost
           \subseteq PendingOf(r) \cup PublishedOf(m) \cup m.lost,
         q \cup PendingOf(r) \cup PublishedOf(m) \subseteq k \cup PendingOf(s) \cup PublishedOf(l),
         m.lost # {} => ~well2
  PROVE  FaultInv(r, m) /\ LateInv(r, m) /\ BodyInv(r, m, q, well2)
<1>1. FaultInv(r, m)
  BY DEF FaultInv
<1>2. LateInv(r, m)
  <2> SUFFICES ASSUME NEW x \in l.late
               PROVE  /\ x.committed_next <= r.expected
                      /\ x.reason = "kBehindCommittedFrontier" => x.seq < x.committed_next
                      /\ x.reason = "kPendingCanonicalConflict" =>
                           \E t \in PendingOf(r) \cup PublishedOf(m) \cup m.lost :
                             t.seq = x.seq /\ t.body # x.body
    BY DEF LateInv
  <2>1. x.committed_next \in Nat /\ s.expected \in Nat /\ r.expected \in Nat
    BY DEF ChannelLog, LateRecord, ChannelState
  <2>2. x.committed_next <= r.expected
    BY <2>1 DEF LateInv
  <2>3. QED
    BY <2>2 DEF LateInv
<1>3. DivertedOf(m) = DivertedOf(l) /\ FaultedOf(m) = FaultedOf(l)
  BY DEF DivertedOf, FaultedOf
<1>4. BodyInv(r, m, q, well2)
  BY <1>3 DEF BodyInv
<1>5. QED
  BY <1>1, <1>2, <1>4

\* The published gaps carry natural numbers.
LEMMA GapNumbers ==
  ASSUME NEW l \in ChannelLog
  PROVE  /\ Len(l.gaps) \in Nat
         /\ \A i \in 1..Len(l.gaps) : /\ l.gaps[i].first \in Nat /\ l.gaps[i].last \in Nat
                                      /\ l.gaps[i].epoch \in Nat /\ l.gaps[i].cumulative \in Nat
<1>1. l.gaps \in Seq(GapRecord)
  BY DEF ChannelLog
<1>2. Len(l.gaps) \in Nat /\ \A i \in 1..Len(l.gaps) : l.gaps[i] \in GapRecord
  BY <1>1
<1>3. QED
  BY <1>2 DEF GapRecord

\* The gaps stay sound while the frontier moves up without a new one.
LEMMA GapsSame ==
  ASSUME NEW s \in ChannelState, NEW l \in ChannelLog, NEW r \in ChannelState, NEW m \in ChannelLog,
         GapsInv(s, l), m.gaps = l.gaps, m.committed = l.committed,
         s.expected <= r.expected, r.cumulative_missing = s.cumulative_missing
  PROVE  GapsInv(r, m)
<1>1. s.expected \in Nat /\ r.expected \in Nat
  BY DEF ChannelState
<1>2. \A i \in 1..Len(l.gaps) : l.gaps[i].last \in Nat
  BY GapNumbers
<1>3. QED
  BY <1>1, <1>2 DEF GapsInv

\* A commit at the frontier lies beyond every gap.
LEMMA GapsCommit ==
  ASSUME NEW s \in ChannelState, NEW l \in ChannelLog, NEW r \in ChannelState, NEW m \in ChannelLog,
         NEW e \in CommitRecord, GapsInv(s, l), m.gaps = l.gaps,
         m.committed = Append(l.committed, e), e.seq = s.expected,
         r.expected = s.expected + 1, r.cumulative_missing = s.cumulative_missing
  PROVE  GapsInv(r, m)
<1> DEFINE n == Len(l.committed)
<1>1. /\ n \in Nat /\ Len(m.committed) = n + 1 /\ m.committed[n + 1] = e
      /\ \A i \in 1..n : m.committed[i] = l.committed[i]
  BY DEF ChannelLog
<1>2. \A i \in 1..(n + 1) : i \in 1..n \/ i = n + 1
  BY <1>1
<1>3. s.expected \in Nat
  BY DEF ChannelState
<1>4. \A i \in 1..Len(l.gaps) : l.gaps[i].last \in Nat /\ l.gaps[i].first \in Nat
  BY GapNumbers
<1>5. ASSUME NEW i \in 1..Len(l.gaps)
      PROVE  /\ l.gaps[i].last < r.expected
             /\ \A j \in 1..(n + 1) : m.committed[j].seq \notin l.gaps[i].first..l.gaps[i].last
  <2>1. l.gaps[i].last < s.expected /\ l.gaps[i].last \in Nat
    BY <1>4 DEF GapsInv
  <2>2. e.seq \notin l.gaps[i].first..l.gaps[i].last
    BY <1>3, <1>4, <2>1
  <2>3. \A j \in 1..n : l.committed[j].seq \notin l.gaps[i].first..l.gaps[i].last
    BY DEF GapsInv
  <2>4. \A j \in 1..(n + 1) : m.committed[j].seq \notin l.gaps[i].first..l.gaps[i].last
    BY <1>1, <1>2, <2>2, <2>3
  <2>5. l.gaps[i].last < s.expected + 1
    BY <1>3, <2>1
  <2>6. QED
    BY <2>4, <2>5
<1>6. QED
  BY <1>1, <1>5 DEF GapsInv

\* Moving the frontier publishes the range it skips, after every earlier gap.
LEMMA GapsAdvance ==
  ASSUME NEW s \in ChannelState, NEW l \in ChannelLog, NEW next \in Nat,
         s.expected <= next, next <= MaxU64, ~s.discovering,
         ChannelInv(s, l, TRUE), GapsInv(s, l)
  PROVE  LET m == WithGap(l, s, next)
             n == Len(l.gaps)
         IN  /\ GapsInv(AdvanceTo(s, next), m)
             /\ m.received = l.received /\ m.late = l.late /\ m.faults = l.faults
             /\ m.lost = l.lost /\ m.committed = l.committed
             /\ \/ m = l /\ next = s.expected
                \/ /\ Len(m.gaps) = n + 1 /\ s.expected < next
                   /\ m.gaps[n + 1].first = s.expected /\ m.gaps[n + 1].last = next - 1
                   /\ \A i \in 1..n : m.gaps[i] = l.gaps[i]
<1> DEFINE r == AdvanceTo(s, next)
           m == WithGap(l, s, next)
           n == Len(l.gaps)
<1>1. /\ r \in ChannelState /\ m \in ChannelLog /\ r.expected = next
      /\ CountInv(r, m)
  BY AdvanceInv
<1>2. /\ s.expected \in Nat /\ s.cumulative_missing \in Nat /\ l.origin \in Nat
      /\ Len(l.committed) \in Nat /\ n \in Nat
  BY DEF ChannelState, ChannelLog
<1>3. CASE next = s.expected
  <2>1. m = l /\ RecordGap(s, next) = s
    BY <1>2, <1>3 DEF WithGap, RecordGap
  <2>2. r = s
    BY <1>3, <2>1 DEF AdvanceTo, ChannelState
  <2>3. QED
    BY <1>3, <2>1, <2>2
<1>4. CASE next # s.expected
  <2> DEFINE g == [first |-> s.expected, last |-> next - 1,
                   epoch |-> RecordGap(s, next).gap_epoch,
                   cumulative |-> RecordGap(s, next).cumulative_missing]
  <2>1. m = [l EXCEPT !.gaps = Append(l.gaps, g)] /\ s.expected < next
    BY <1>2, <1>4 DEF WithGap
  <2>2. RecordGap(s, next).gap_epoch = r.gap_epoch
        /\ RecordGap(s, next).cumulative_missing = r.cumulative_missing
    <3>1. "expected" \in DOMAIN RecordGap(s, next) /\ "gap_epoch" \in DOMAIN RecordGap(s, next)
          /\ "cumulative_missing" \in DOMAIN RecordGap(s, next)
      BY <1>2, <1>4 DEF RecordGap, ChannelState
    <3>2. QED
      BY <3>1 DEF AdvanceTo
  <2>3. /\ g.first = s.expected /\ g.last = next - 1
        /\ g.epoch = r.gap_epoch /\ g.cumulative = r.cumulative_missing
    BY <2>2
  <2> HIDE DEF g
  <2>4. /\ m.received = l.received /\ m.late = l.late /\ m.faults = l.faults
        /\ m.lost = l.lost /\ m.committed = l.committed /\ m.gaps = Append(l.gaps, g)
        /\ m.origin = l.origin
    BY <2>1 DEF ChannelLog
  <2>5. /\ Len(m.gaps) = n + 1 /\ m.gaps[n + 1] = g
        /\ \A i \in 1..n : m.gaps[i] = l.gaps[i]
    BY <2>4 DEF ChannelLog
  <2>6. r.gap_epoch = n + 1 /\ r.cumulative_missing = s.cumulative_missing + (next - s.expected)
    <3>1. s.expected = l.origin + Len(l.committed) + s.cumulative_missing
      BY DEF ChannelInv, CountInv
    <3>2. next = l.origin + Len(l.committed) + r.cumulative_missing /\ r.gap_epoch = n + 1
      BY <1>1, <2>4, <2>5 DEF CountInv
    <3>3. r.cumulative_missing \in Nat
      BY <1>1 DEF ChannelState
    <3>4. QED
      BY <1>2, <3>1, <3>2, <3>3
  <2> HIDE DEF r, m
  <2>7. \A i \in 1..n : /\ l.gaps[i].first \in Nat /\ l.gaps[i].last \in Nat
                        /\ l.gaps[i].last < s.expected
    BY GapNumbers DEF GapsInv
  <2>8. \A i \in 1..(n + 1) : i \in 1..n \/ i = n + 1
    BY <1>2
  <2>9. \A i, j \in 1..(n + 1) : i < j => m.gaps[i].last < m.gaps[j].first
    <3> SUFFICES ASSUME NEW i \in 1..(n + 1), NEW j \in 1..(n + 1), i < j
                 PROVE  m.gaps[i].last < m.gaps[j].first
      OBVIOUS
    <3>1. i \in 1..n
      BY <1>2
    <3>2. CASE j \in 1..n
      BY <2>5, <3>1, <3>2 DEF GapsInv
    <3>3. CASE j = n + 1
      BY <2>3, <2>5, <2>7, <3>1, <3>3
    <3>4. QED
      BY <2>8, <3>2, <3>3
  <2>10. g.cumulative = (g.last - g.first + 1) +
                        (IF n + 1 = 1 THEN 0 ELSE m.gaps[(n + 1) - 1].cumulative)
    <3>1. CASE n = 0
      BY <1>2, <2>3, <2>6, <3>1 DEF GapsInv
    <3>2. CASE n # 0
      <4>1. n \in 1..n /\ (n + 1) - 1 = n /\ n + 1 # 1
        BY <1>2, <3>2
      <4>2. m.gaps[n].cumulative = s.cumulative_missing
        BY <2>5, <3>2, <4>1 DEF GapsInv
      <4>3. QED
        BY <1>2, <2>3, <2>6, <4>1, <4>2
    <3>3. QED
      BY <3>1, <3>2
  <2>11. \A j \in 1..Len(l.committed) : l.committed[j].seq \notin g.first..g.last
    <3>1. \A j \in 1..Len(l.committed) : l.committed[j].seq \in Nat /\ l.committed[j].seq < s.expected
      BY CommittedSeqs DEF ChannelInv, OrderInv
    <3>2. QED
      BY <1>2, <2>3, <3>1
  <2>12. ASSUME NEW i \in 1..(n + 1)
         PROVE  /\ m.gaps[i].first <= m.gaps[i].last /\ m.gaps[i].last < r.expected
                /\ m.gaps[i].epoch = i
                /\ m.gaps[i].cumulative = (m.gaps[i].last - m.gaps[i].first + 1) +
                                          (IF i = 1 THEN 0 ELSE m.gaps[i - 1].cumulative)
                /\ \A j \in 1..Len(m.committed) :
                     m.committed[j].seq \notin m.gaps[i].first..m.gaps[i].last
    <3>1. CASE i \in 1..n
      <4>1. i = 1 \/ i - 1 \in 1..n
        BY <1>2, <3>1
      <4>2. m.gaps[i] = l.gaps[i] /\ (i # 1 => m.gaps[i - 1] = l.gaps[i - 1])
        BY <2>5, <3>1, <4>1
      <4>3. l.gaps[i].last < next
        BY <1>2, <2>1, <2>7, <3>1
      <4>4. QED
        BY <1>1, <2>4, <3>1, <4>2, <4>3 DEF GapsInv
    <3>2. CASE i = n + 1
      <4>1. g.first <= g.last /\ g.last < next
        BY <1>2, <2>1, <2>3
      <4>2. QED
        BY <1>1, <2>3, <2>4, <2>5, <2>6, <2>10, <2>11, <3>2, <4>1
    <3>3. QED
      BY <2>8, <3>1, <3>2
  <2>13. r.cumulative_missing = IF Len(m.gaps) = 0 THEN 0 ELSE m.gaps[Len(m.gaps)].cumulative
    BY <1>2, <2>3, <2>5
  <2>14. GapsInv(r, m)
    BY <2>5, <2>9, <2>12, <2>13 DEF GapsInv
  <2>15. QED
    BY <2>1, <2>3, <2>4, <2>5, <2>14 DEF r, m
<1>5. QED
  BY <1>3, <1>4

\* A new gap hides no body that was received.
HideFree(l, m) ==
  Len(m.gaps) > Len(l.gaps) =>
    LET g == m.gaps[Len(m.gaps)]
    IN  \A t \in m.received :
          (\A u \in m.lost : u.seq # t.seq) => t.seq \notin g.first..g.last

\* The frontier of an active channel moves to next, below everything retained and
\* the tick in the handler's hand: nothing moves, and the gap hides nothing.
LEMMA AdvanceHistory ==
  ASSUME NEW s \in ChannelState, NEW l \in ChannelLog, NEW next \in Nat,
         NEW k \in SUBSET Tick, NEW well,
         s.expected <= next, next <= MaxU64, ~s.discovering, ~s.frozen,
         ChannelInv(s, l, TRUE), HistoryInv(s, l, k, well),
         \A i \in Occupied(s) : next <= s.pending[i].seq,
         \A t \in k : next <= t.seq
  PROVE  /\ HistoryInv(AdvanceTo(s, next), WithGap(l, s, next), k, well)
         /\ HideFree(l, WithGap(l, s, next))
<1> DEFINE r == AdvanceTo(s, next)
           m == WithGap(l, s, next)
           n == Len(l.gaps)
<1>1. /\ GapsInv(s, l) /\ FaultInv(s, l) /\ LateInv(s, l) /\ BodyInv(s, l, k, well)
      /\ s.expected \in Nat /\ n \in Nat
  BY DEF HistoryInv, ChannelState, ChannelLog
<1>2. /\ GapsInv(r, m)
      /\ m.received = l.received /\ m.late = l.late /\ m.faults = l.faults
      /\ m.lost = l.lost /\ m.committed = l.committed
      /\ \/ m = l /\ next = s.expected
         \/ /\ Len(m.gaps) = n + 1 /\ s.expected < next
            /\ m.gaps[n + 1].first = s.expected /\ m.gaps[n + 1].last = next - 1
  BY <1>1, GapsAdvance
<1>3. r \in ChannelState /\ m \in ChannelLog /\ r.expected = next /\ r.pending = s.pending
  BY AdvanceInv
<1>4. r.frozen = s.frozen
  BY AdvanceKeeps
<1> HIDE DEF r, m
<1>5. PendingOf(r) = PendingOf(s) /\ PublishedOf(m) = PublishedOf(l)
  BY <1>2, <1>3, SamePending DEF PublishedOf
<1>6. FaultInv(r, m) /\ LateInv(r, m) /\ BodyInv(r, m, k, well)
  <2>1. m.lost # {} => ~well
    BY <1>1, <1>2 DEF BodyInv
  <2>2. QED
    BY <1>1, <1>2, <1>3, <1>4, <1>5, <2>1, MoveHistory
<1>7. HideFree(l, m)
  <2> SUFFICES ASSUME Len(m.gaps) = n + 1, m.gaps[n + 1].first = s.expected,
                      m.gaps[n + 1].last = next - 1,
                      NEW t \in l.received, \A u \in l.lost : u.seq # t.seq
               PROVE  t.seq < s.expected \/ next <= t.seq
    <3>1. l.received \subseteq Tick /\ \A t \in Tick : t.seq \in Nat
      BY DEF ChannelLog, Tick, Seqs
    <3>2. \A t \in Tick : t.seq < s.expected \/ next <= t.seq => t.seq \notin s.expected..(next - 1)
      BY <1>1, <3>1
    <3>3. m = l => ~(Len(m.gaps) > Len(l.gaps))
      BY <1>1
    <3>4. QED
      BY <1>2, <3>1, <3>2, <3>3 DEF HideFree
  <2>1. t \in k \cup PendingOf(s) \cup PublishedOf(l) \cup DivertedOf(l) \cup FaultedOf(l)
    BY <1>1 DEF BodyInv
  <2>2. FaultedOf(l) = {}
    BY <1>1 DEF FaultInv, FaultedOf
  <2>3. \A u \in PendingOf(s) : next <= u.seq
    BY DEF PendingOf
  <2>4. \A u \in PublishedOf(l) : u.seq < s.expected
    BY DEF PublishedOf, ChannelInv, OrderInv
  <2>5. ASSUME t \in DivertedOf(l) PROVE t.seq < s.expected \/ next <= t.seq
    <3>1. PICK x \in l.late : t.seq = x.seq
      BY <2>5 DEF DivertedOf
    <3>2. x \in LateRecord
      BY DEF ChannelLog
    <3>3. CASE x.reason = "kBehindCommittedFrontier"
      <4>1. x.seq < x.committed_next /\ x.committed_next <= s.expected
        BY <1>1, <3>3 DEF LateInv
      <4>2. x.seq \in Nat /\ x.committed_next \in Nat
        BY <3>2 DEF LateRecord, Seqs
      <4>3. QED
        BY <1>1, <3>1, <4>1, <4>2
    <3>4. CASE x.reason = "kPendingCanonicalConflict"
      <4>1. PICK u \in PendingOf(s) \cup PublishedOf(l) \cup l.lost : u.seq = x.seq
        BY <1>1, <3>4 DEF LateInv
      <4>2. QED
        BY <2>3, <2>4, <3>1, <4>1
    <3>5. QED
      BY <3>2, <3>3, <3>4 DEF LateRecord
  <2>6. QED
    BY <2>1, <2>2, <2>3, <2>4, <2>5
<1>8. QED
  BY <1>2, <1>6, <1>7 DEF HistoryInv, r, m

\* ForceGapToMinimum.
LEMMA ForceHistory ==
  ASSUME NEW s \in ChannelState, NEW l \in ChannelLog,
         NEW k \in SUBSET Tick, NEW well, ~s.discovering, ~s.frozen,
         ChannelInv(s, l, TRUE), HistoryInv(s, l, k, well),
         \A t \in k : MinimumPending(s) <= t.seq
  PROVE  /\ HistoryInv(AdvanceTo(s, MinimumPending(s)), WithGap(l, s, MinimumPending(s)), k, well)
         /\ HideFree(l, WithGap(l, s, MinimumPending(s)))
<1> DEFINE next == MinimumPending(s)
<1>1. /\ next \in Nat /\ next <= MaxU64 /\ next \in PendingSeqs(s) \cup {MaxU64}
      /\ \A i \in Occupied(s) : next <= s.pending[i].seq
  BY MinimumPendingLeast
<1>2. s.expected <= next
  <2>1. s.expected \in Nat /\ s.expected <= MaxU64
    BY DEF ChannelState, ChannelInv, CountInv
  <2>2. CASE next \in PendingSeqs(s)
    BY <1>1, <2>1, <2>2 DEF PendingSeqs, ChannelInv, AheadInv
  <2>3. QED
    BY <1>1, <2>1, <2>2
<1> HIDE DEF next
<1>3. QED
  BY <1>1, <1>2, AdvanceHistory DEF next

\* FinishDiscovery on a channel that holds records.
LEMMA StartHistory ==
  ASSUME NEW s \in ChannelState, NEW l \in ChannelLog, NEW m \in ChannelLog, NEW k, NEW well,
         s.discovering, s.pending_count # 0, NEW d \in BOOLEAN,
         ChannelInv(s, l, d), HistoryInv(s, l, k, well),
         m.received = l.received, m.late = l.late, m.faults = l.faults,
         m.lost = l.lost, m.committed = l.committed, m.gaps = l.gaps
  PROVE  HistoryInv(FinishDiscovery(s), m, k, well) /\ HideFree(l, m)
<1> DEFINE r == FinishDiscovery(s)
<1>1. /\ r.frozen = s.frozen /\ r.pending = s.pending
      /\ r.cumulative_missing = s.cumulative_missing /\ r.expected = MinimumPending(s)
  BY FinishKeeps
<1>2. r \in ChannelState /\ s.expected = 0 /\ MinimumPending(s) \in Nat
  BY StartInv, MinimumPendingLeast DEF ChannelInv, CountInv
<1> HIDE DEF r
<1>3. s.expected <= r.expected
  BY <1>1, <1>2
<1>4. PendingOf(r) = PendingOf(s) /\ PublishedOf(m) = PublishedOf(l)
  BY <1>1, SamePending DEF PublishedOf
<1>5. GapsInv(r, m)
  BY <1>1, <1>2, <1>3, GapsSame DEF HistoryInv
<1>6. FaultInv(r, m) /\ LateInv(r, m) /\ BodyInv(r, m, k, well)
  <2>1. m.lost # {} => ~well
    BY DEF HistoryInv, BodyInv
  <2>2. QED
    BY <1>1, <1>2, <1>3, <1>4, <2>1, MoveHistory DEF HistoryInv
<1>7. HideFree(l, m)
  <2>1. Len(l.gaps) \in Nat
    BY GapNumbers
  <2>2. QED
    BY <2>1 DEF HideFree
<1>8. QED
  BY <1>5, <1>6, <1>7 DEF HistoryInv, r

\* A step that only changes timers or flags of the channel, or moves a tick from
\* the handler into the table.
LEMMA RetainHistory ==
  ASSUME NEW s \in ChannelState, NEW l \in ChannelLog, NEW r \in ChannelState, NEW m \in ChannelLog,
         NEW k, NEW q, NEW well, HistoryInv(s, l, k, well),
         r.frozen = s.frozen, r.expected = s.expected,
         r.cumulative_missing = s.cumulative_missing,
         PendingOf(s) \subseteq PendingOf(r),
         q \cup PendingOf(r) = k \cup PendingOf(s),
         m.received = l.received, m.late = l.late, m.faults = l.faults,
         m.lost = l.lost, m.committed = l.committed, m.gaps = l.gaps
  PROVE  HistoryInv(r, m, q, well) /\ HideFree(l, m)
<1>1. s.expected <= r.expected /\ s.expected \in Nat
  BY DEF ChannelState
<1>2. PublishedOf(m) = PublishedOf(l)
  BY DEF PublishedOf
<1>3. GapsInv(r, m)
  BY <1>1, GapsSame DEF HistoryInv
<1>4. FaultInv(r, m) /\ LateInv(r, m) /\ BodyInv(r, m, q, well)
  <2>1. m.lost # {} => ~well
    BY DEF HistoryInv, BodyInv
  <2>2. QED
    BY <1>1, <1>2, <2>1, MoveHistory DEF HistoryInv
<1>5. HideFree(l, m)
  <2>1. Len(l.gaps) \in Nat
    BY GapNumbers
  <2>2. QED
    BY <2>1 DEF HideFree
<1>6. QED
  BY <1>3, <1>4, <1>5 DEF HistoryInv

\* A tick at the frontier, from the handler or the table, is published.
LEMMA CommitHistory ==
  ASSUME NEW s \in ChannelState, NEW l \in ChannelLog, NEW r \in ChannelState, NEW m \in ChannelLog,
         NEW k, NEW q, NEW well, HistoryInv(s, l, k, well),
         NEW t \in Tick, NEW e \in CommitRecord, e.seq = t.seq, e.body = t.body,
         t.seq = s.expected, m.committed = Append(l.committed, e),
         r.frozen = s.frozen, r.expected = s.expected + 1,
         r.cumulative_missing = s.cumulative_missing,
         PendingOf(s) \subseteq PendingOf(r) \cup {t},
         q \cup PendingOf(r) \cup {t} = k \cup PendingOf(s),
         m.received = l.received, m.late = l.late, m.faults = l.faults,
         m.lost = l.lost, m.gaps = l.gaps
  PROVE  HistoryInv(r, m, q, well) /\ HideFree(l, m)
<1>1. s.expected <= r.expected /\ s.expected \in Nat
  BY DEF ChannelState
<1>2. PublishedOf(m) = PublishedOf(l) \cup {t}
  BY CommitPublished
<1>3. GapsInv(r, m)
  BY <1>1, GapsCommit DEF HistoryInv
<1>4. FaultInv(r, m) /\ LateInv(r, m) /\ BodyInv(r, m, q, well)
  <2>1. m.lost # {} => ~well
    BY DEF HistoryInv, BodyInv
  <2>2. QED
    BY <1>1, <1>2, <2>1, MoveHistory DEF HistoryInv
<1>5. HideFree(l, m)
  <2>1. Len(l.gaps) \in Nat
    BY GapNumbers
  <2>2. QED
    BY <2>1 DEF HideFree
<1>6. QED
  BY <1>3, <1>4, <1>5 DEF HistoryInv

\* A tick, from the handler or the table, is lost to a full queue: the engine is fatal.
LEMMA LoseHistory ==
  ASSUME NEW s \in ChannelState, NEW l \in ChannelLog, NEW r \in ChannelState, NEW m \in ChannelLog,
         NEW k, NEW q, NEW well, NEW well2, ~well2, HistoryInv(s, l, k, well), NEW t \in Tick,
         m.lost = l.lost \cup {t},
         r.frozen = s.frozen, r.expected = s.expected,
         r.cumulative_missing = s.cumulative_missing,
         PendingOf(s) \subseteq PendingOf(r) \cup {t},
         q \cup PendingOf(r) \cup {t} = k \cup PendingOf(s),
         m.received = l.received, m.late = l.late, m.faults = l.faults,
         m.committed = l.committed, m.gaps = l.gaps
  PROVE  HistoryInv(r, m, q, well2) /\ HideFree(l, m)
<1>1. s.expected <= r.expected /\ s.expected \in Nat
  BY DEF ChannelState
<1>2. PublishedOf(m) = PublishedOf(l)
  BY DEF PublishedOf
<1>3. GapsInv(r, m)
  BY <1>1, GapsSame DEF HistoryInv
<1>4. FaultInv(r, m) /\ LateInv(r, m) /\ BodyInv(r, m, q, well2)
  BY <1>1, <1>2, MoveHistory DEF HistoryInv
<1>5. HideFree(l, m)
  <2>1. Len(l.gaps) \in Nat
    BY GapNumbers
  <2>2. QED
    BY <2>1 DEF HideFree
<1>6. QED
  BY <1>3, <1>4, <1>5 DEF HistoryInv

-----------------------------------------------------------------------------
(***************************************************************************)
(* Every action keeps the histories, hides no body behind a gap and leaves *)
(* a frozen channel alone.                                                 *)
(***************************************************************************)
ChannelStepOK(c) ==
  /\ HideFree(log[c], log'[c])
  /\ state[c].frozen => state'[c] = state[c] /\ log'[c] = log[c]
StepOK == \A c \in Channels : ChannelStepOK(c)

\* Nothing happened to the channel.
LEMMA StillHistory ==
  ASSUME NEW s, NEW l \in ChannelLog, NEW k, NEW well, NEW well2,
         HistoryInv(s, l, k, well), well2 => well
  PROVE  HistoryInv(s, l, k, well2) /\ HideFree(l, l)
<1>1. HistoryInv(s, l, k, well2)
  BY DEF HistoryInv, BodyInv
<1>2. Len(l.gaps) \in Nat
  BY GapNumbers
<1>3. QED
  BY <1>1, <1>2 DEF HideFree

\* A step that changes channel c only.
LEMMA HistoryStep ==
  ASSUME IInv, HInv, NEW c \in Channels, NEW r \in ChannelState, NEW m \in ChannelLog, NEW q,
         state' = [state EXCEPT ![c] = r], log' = [log EXCEPT ![c] = m],
         Carrying => cur = c, Carrying' => cur' = c, healthy' => healthy,
         q = (IF Carrying' /\ ~r.frozen THEN {msg'} ELSE {}),
         HistoryInv(r, m, q, healthy'), HideFree(log[c], m),
         state[c].frozen => r = state[c] /\ m = log[c]
  PROVE  HInv' /\ StepOK
<1>1. state \in [Channels -> ChannelState] /\ log \in [Channels -> ChannelLog]
  BY DEF IInv, TypeOK
<1>2. ASSUME NEW e \in Channels
      PROVE  HistoryInv(state'[e], log'[e], Carried(e)', healthy') /\ ChannelStepOK(e)
  <2>1. CASE e = c
    <3>1. state'[e] = r /\ log'[e] = m
      BY <1>1, <2>1
    <3>2. Carried(e)' = q
      BY <2>1, <3>1 DEF Carried
    <3>3. QED
      BY <2>1, <3>1, <3>2 DEF ChannelStepOK
  <2>2. CASE e # c
    <3>1. state'[e] = state[e] /\ log'[e] = log[e] /\ log[e] \in ChannelLog
      BY <1>1, <2>2
    <3>2. Carried(e)' = {} /\ Carried(e) = {}
      BY <2>2 DEF Carried
    <3>3. HistoryInv(state[e], log[e], {}, healthy)
      BY <3>2 DEF HInv
    <3>4. QED
      BY <3>1, <3>2, <3>3, StillHistory DEF ChannelStepOK
  <2>3. QED
    BY <2>1, <2>2
<1>3. QED
  BY <1>2 DEF HInv, StepOK

\* A step that changes no channel and puts down nothing that was carried.
LEMMA StillStep ==
  ASSUME IInv, HInv, UNCHANGED <<state, log>>, healthy' => healthy,
         \A c \in Channels :
           \/ Carried(c)' = Carried(c)
           \/ Carried(c)' = {} /\ Carried(c) \subseteq PendingOf(state[c])
  PROVE  HInv' /\ StepOK
<1>1. ASSUME NEW c \in Channels
      PROVE  HistoryInv(state[c], log[c], Carried(c)', healthy') /\ HideFree(log[c], log[c])
  <2>1. state[c] \in ChannelState /\ log[c] \in ChannelLog
    BY CurFacts
  <2>2. HistoryInv(state[c], log[c], Carried(c), healthy)
    BY DEF HInv
  <2>3. HistoryInv(state[c], log[c], Carried(c)', healthy)
    <3>1. CASE Carried(c)' = Carried(c)
      BY <2>2, <3>1
    <3>2. CASE Carried(c)' = {} /\ Carried(c) \subseteq PendingOf(state[c])
      <4> DEFINE q == Carried(c)'
                 k == Carried(c)
                 s == state[c]
                 l == log[c]
      <4>1. q \cup PendingOf(s) = k \cup PendingOf(s)
        BY <3>2
      <4> HIDE DEF q, k, s, l
      <4>2. QED
        BY <2>1, <2>2, <4>1, RetainHistory DEF q, k, s, l
    <3>3. QED
      BY <3>1, <3>2
  <2>4. QED
    BY <2>1, <2>3, StillHistory
<1>2. QED
  BY <1>1 DEF HInv, StepOK, ChannelStepOK

\* Time, dropped ticks, duplicates and the bookkeeping of the scans: a duplicate is
\* already retained.
LEMMA QuietHistory ==
  ASSUME IInv, HInv, QuietStep
  PROVE  HInv' /\ StepOK
<1>0. healthy' => healthy
  <2>1. healthy' = healthy \/ healthy' = (healthy /\ Mode = "PARTIAL")
    BY DEF QuietStep, AdvanceClock, DecodeFailureWithoutPosition, ProcessFrozen,
           DiscoverDuplicate, AheadDuplicate, AfterMessage, IdlePoll, PollSkip,
           PollDone, BeginFlush, FlushDone, Terminated, InProcess, InDiscovery,
           Ahead, InActive, Consume, Goto, CallPoll, InPoll, vars, lane
  <2>2. QED
    BY <2>1
<1>1. UNCHANGED <<state, log>> /\ pc # "drain" /\ pc' \notin {"process", "drain"}
  BY DEF QuietStep, AdvanceClock, DecodeFailureWithoutPosition, ProcessFrozen,
         DiscoverDuplicate, AheadDuplicate, AfterMessage, IdlePoll, PollSkip,
         PollDone, BeginFlush, FlushDone, Terminated, InProcess, InDiscovery,
         Ahead, InActive, Consume, Goto, CallPoll, InPoll, vars, lane
<1>2. \/ pc # "process" \/ state[cur].frozen
      \/ InsertResult(state[cur], msg) = "duplicate" /\ InProcess
  BY DEF QuietStep, AdvanceClock, DecodeFailureWithoutPosition, ProcessFrozen,
         DiscoverDuplicate, AheadDuplicate, AfterMessage, IdlePoll, PollSkip,
         PollDone, BeginFlush, FlushDone, Terminated, InDiscovery,
         Ahead, InActive, Consume, InPoll
<1>3. ASSUME NEW c \in Channels, Carried(c) # {}
      PROVE  Carried(c) \subseteq PendingOf(state[c])
  <2>1. /\ pc = "process" /\ cur = c /\ ~state[c].frozen /\ Carried(c) = {msg}
        /\ InsertResult(state[cur], msg) = "duplicate" /\ InProcess
    BY <1>1, <1>2, <1>3 DEF Carried, Carrying
  <2>2. msg \in Tick /\ msg.seq \in Nat /\ msg.seq # 0
    BY <2>1, ProcessFacts DEF Tick, Seqs
  <2>3. state[c].pending[SlotOf(msg.seq)] = msg /\ SlotOf(msg.seq) \in SlotIndex
    BY <2>1, <2>2, SlotInRange DEF InsertResult
  <2>4. QED
    BY <2>1, <2>2, <2>3 DEF PendingOf, Occupied
<1>4. \A c \in Channels : Carried(c)' = {}
  BY <1>1 DEF Carried, Carrying
<1>5. QED
  BY <1>0, <1>1, <1>3, <1>4, StillStep

\* A tick is handed to a channel that is not frozen, and carried from then on.
LEMMA ProcessHistory ==
  ASSUME IInv, ControlInv, HInv, NEW c \in Channels, NEW tick \in Tick,
         NEW t \in 1..MaxArrivalTime, Process(c, tick, t)
  PROVE  HInv' /\ StepOK
<1>0. healthy' => healthy
  BY DEF Process
<1>1. /\ pc = "ready" /\ UNCHANGED state /\ cur' = c /\ msg' = tick
      /\ pc' \in {"process", "after"} /\ ret' = ret
  BY DEF Process, Consume, Goto
<1>2. ~Carrying /\ state \in [Channels -> ChannelState]
  BY <1>1 DEF Carrying, IInv, TypeOK
<1>3. CASE UNCHANGED log /\ (pc' = "after" \/ state[c].frozen)
  <2>1. \A e \in Channels : Carried(e)' = {} /\ Carried(e) = {}
    BY <1>1, <1>2, <1>3 DEF Carried, Carrying
  <2>2. QED
    BY <1>0, <1>1, <1>3, <2>1, StillStep
<1>4. CASE /\ log' = [log EXCEPT ![c].received = @ \cup {tick}]
           /\ pc' = "process" /\ ~state[c].frozen
  <2> DEFINE s == state[c]
             l == log[c]
             m == [l EXCEPT !.received = l.received \cup {tick}]
  <2>1. s \in ChannelState /\ l \in ChannelLog /\ HistoryInv(s, l, {}, healthy)
    <3>1. Carried(c) = {}
      BY <1>2 DEF Carried
    <3>2. QED
      BY <3>1, CurFacts DEF HInv
  <2>2. /\ m \in ChannelLog /\ m.received = l.received \cup {tick} /\ m.late = l.late
        /\ m.faults = l.faults /\ m.lost = l.lost /\ m.committed = l.committed /\ m.gaps = l.gaps
    BY <2>1 DEF ChannelLog
  <2>3. log' = [log EXCEPT ![c] = m] /\ state' = [state EXCEPT ![c] = s]
    BY <1>1, <1>2, <1>4
  <2> HIDE DEF m, s, l
  <2>4. PublishedOf(m) = PublishedOf(l) /\ DivertedOf(m) = DivertedOf(l) /\ FaultedOf(m) = FaultedOf(l)
    BY <2>2 DEF PublishedOf, DivertedOf, FaultedOf
  <2>5. HistoryInv(s, m, {tick}, healthy')
    <3>1. GapsInv(s, m) /\ FaultInv(s, m) /\ LateInv(s, m)
      BY <2>1, <2>2, <2>4 DEF HistoryInv, GapsInv, FaultInv, LateInv
    <3>2. BodyInv(s, m, {tick}, healthy')
      BY <1>0, <2>1, <2>2, <2>4 DEF HistoryInv, BodyInv
    <3>3. QED
      BY <3>1, <3>2 DEF HistoryInv
  <2>6. HideFree(l, m)
    <3>1. Len(l.gaps) \in Nat
      BY <2>1, GapNumbers
    <3>2. QED
      BY <2>2, <3>1 DEF HideFree
  <2>7. Carrying' /\ ~s.frozen /\ {tick} = {msg'}
    BY <1>1, <1>4 DEF Carrying, s
  <2>8. QED
    BY <1>0, <1>1, <1>2, <1>4, <2>1, <2>2, <2>3, <2>5, <2>6, <2>7, HistoryStep DEF s, l
<1>5. QED
  <2>1. ~Used(c) => ~state[c].frozen
    BY DEF ControlInv, CreatedOnce, NewChannel
  <2>2. QED
    BY <1>3, <1>4, <2>1 DEF Process, Goto

\* FreezeFromOpen: the tick it freezes on is the one fault of the channel.
LEMMA FreezeHistory ==
  ASSUME IInv, HInv, NEW c \in Channels, NEW observed \in Seqs,
         NEW reason \in {"kDecodeFailure", "kCanonicalConflict"},
         FreezeFromOpen(c, reason, observed), Mode = "FROM_OPEN", ~state[c].frozen,
         Carrying => cur = c, ~Carrying', Carrying => observed = msg.seq /\ msg \in Tick
  PROVE  HInv' /\ StepOK
<1> DEFINE s == state[c]
           l == log[c]
           k == Carried(c)
           f == [reason |-> reason, expected |-> s.expected, observed |-> observed]
           r == [s EXCEPT !.frozen = TRUE]
           m == [l EXCEPT !.faults = Append(l.faults, f)]
<1>1. s \in ChannelState /\ l \in ChannelLog /\ HistoryInv(s, l, k, healthy)
  BY CurFacts DEF HInv
<1>2. state' = [state EXCEPT ![c] = r] /\ log' = [log EXCEPT ![c] = m] /\ (healthy' => healthy)
  BY DEF FreezeFromOpen, Update
<1>3. f \in FaultRecord
  BY <1>1 DEF FaultRecord, ChannelState
<1>4. Append(l.faults, f) \in Seq(FaultRecord)
  BY <1>1, <1>3 DEF ChannelLog
<1>5. r \in ChannelState /\ m \in ChannelLog
  BY <1>1, <1>4 DEF ChannelState, ChannelLog
<1>6. /\ r.frozen /\ r.pending = s.pending /\ r.expected = s.expected
      /\ r.cumulative_missing = s.cumulative_missing
      /\ m.received = l.received /\ m.late = l.late /\ m.lost = l.lost
      /\ m.committed = l.committed /\ m.gaps = l.gaps /\ m.faults = Append(l.faults, f)
  BY <1>1 DEF ChannelState, ChannelLog
<1>7. Len(l.faults) = 0
  BY <1>1 DEF HistoryInv, FaultInv
<1>8. Len(m.faults) = 1 /\ m.faults[1].observed = observed
  BY <1>1, <1>3, <1>6, <1>7 DEF ChannelLog
<1>9. k \subseteq FaultedOf(m) /\ FaultedOf(l) = {}
  BY <1>7, <1>8 DEF FaultedOf, Carried
<1> HIDE DEF r, m, s, l, k
<1>10. /\ PendingOf(r) = PendingOf(s) /\ PublishedOf(m) = PublishedOf(l)
       /\ DivertedOf(m) = DivertedOf(l)
  BY <1>6, SamePending DEF PublishedOf, DivertedOf
<1>11. HistoryInv(r, m, {}, healthy')
  <2>1. GapsInv(r, m) /\ LateInv(r, m)
    BY <1>1, <1>6, <1>10 DEF HistoryInv, GapsInv, LateInv
  <2>2. FaultInv(r, m)
    BY <1>6, <1>8 DEF FaultInv
  <2>3. BodyInv(r, m, {}, healthy')
    BY <1>1, <1>2, <1>6, <1>9, <1>10 DEF HistoryInv, BodyInv
  <2>4. QED
    BY <2>1, <2>2, <2>3 DEF HistoryInv
<1>12. HideFree(l, m)
  <2>1. Len(l.gaps) \in Nat
    BY <1>1, GapNumbers
  <2>2. QED
    BY <1>6, <2>1 DEF HideFree
<1>13. QED
  BY <1>2, <1>5, <1>11, <1>12, HistoryStep DEF s, l

\* DivertLateRecovery: the tick becomes a LateRecovery record, or is lost.
LEMMA DivertHistory ==
  ASSUME IInv, HInv, InProcess, ~state[cur].frozen,
         NEW reason \in {"kBehindCommittedFrontier", "kPendingCanonicalConflict"},
         reason = "kBehindCommittedFrontier" => msg.seq < state[cur].expected,
         reason = "kPendingCanonicalConflict" => InsertResult(state[cur], msg) = "conflict",
         DivertLateRecovery(reason)
  PROVE  HInv' /\ StepOK
<1> DEFINE s == state[cur]
           l == log[cur]
           late == [seq |-> msg.seq, body |-> msg.body, reason |-> reason,
                    committed_next |-> s.expected, epoch |-> s.gap_epoch]
           m1 == [l EXCEPT !.late = l.late \cup {late}]
           m2 == [l EXCEPT !.lost = l.lost \cup {msg}]
<1>0. /\ cur \in Channels /\ msg \in Tick /\ s \in ChannelState /\ l \in ChannelLog
      /\ pc = "process" /\ cur' = cur /\ healthy \in BOOLEAN
  BY ProcessFacts
<1>1. HistoryInv(s, l, {msg}, healthy) /\ pc' = "after" /\ state' = [state EXCEPT ![cur] = s]
  <2>1. Carried(cur) = {msg}
    BY <1>0 DEF Carried, Carrying
  <2>2. QED
    BY <1>0, <2>1 DEF HInv, DivertLateRecovery, Goto, IInv, TypeOK
<1>2. Carrying /\ ~Carrying'
  BY <1>0, <1>1 DEF Carrying
<1>3. \/ log' = [log EXCEPT ![cur] = m1] /\ healthy' = healthy
      \/ log' = [log EXCEPT ![cur] = m2] /\ healthy' = FALSE
  <2>1. PICK ok \in Outcomes :
          /\ log' = [log EXCEPT ![cur] =
               IF ok THEN [log[cur] EXCEPT !.late = log[cur].late \cup {late}]
                     ELSE [log[cur] EXCEPT !.lost = log[cur].lost \cup {msg}]]
          /\ healthy' = (healthy /\ ok)
    BY DEF DivertLateRecovery
  <2>2. ok \in BOOLEAN
    BY ConstantsAssumption
  <2>3. CASE ok
    BY <1>0, <2>1, <2>3
  <2>4. CASE ~ok
    BY <2>1, <2>4
  <2>5. QED
    BY <2>2, <2>3, <2>4
<1>4. late \in LateRecord
  BY <1>0 DEF LateRecord, Tick, ChannelState
<1>5. /\ m1 \in ChannelLog /\ m1.late = l.late \cup {late} /\ m1.received = l.received
      /\ m1.lost = l.lost /\ m1.faults = l.faults
      /\ m1.committed = l.committed /\ m1.gaps = l.gaps
      /\ m2 \in ChannelLog /\ m2.late = l.late /\ m2.received = l.received
      /\ m2.lost = l.lost \cup {msg} /\ m2.faults = l.faults
      /\ m2.committed = l.committed /\ m2.gaps = l.gaps
  BY <1>0, <1>4 DEF ChannelLog
<1>6. /\ late.seq = msg.seq /\ late.body = msg.body /\ late.reason = reason
      /\ late.committed_next = s.expected /\ s.expected \in Nat
  BY <1>0 DEF ChannelState
<1>7. ASSUME reason = "kPendingCanonicalConflict"
      PROVE  \E t \in PendingOf(s) : t.seq = msg.seq /\ t.body # msg.body
  <2> DEFINE x == s.pending[SlotOf(msg.seq)]
  <2>1. msg.seq \in Nat /\ msg.seq # 0 /\ SlotOf(msg.seq) \in SlotIndex
    BY <1>0, SlotInRange DEF Tick, Seqs
  <2>2. x.seq = msg.seq /\ x # msg
    BY <1>7 DEF InsertResult
  <2>3. x \in PendingOf(s)
    BY <2>1, <2>2 DEF PendingOf, Occupied
  <2>4. x \in Tick
    BY <1>0, <2>3, PendingTicks
  <2>5. x.body # msg.body
    BY <1>0, <2>2, <2>4 DEF Tick
  <2>6. QED
    BY <2>2, <2>3, <2>5
<1> HIDE DEF s, l, m1, m2, late
<1>8. CASE log' = [log EXCEPT ![cur] = m1] /\ healthy' = healthy
  <2>1. PublishedOf(m1) = PublishedOf(l) /\ FaultedOf(m1) = FaultedOf(l)
    BY <1>5 DEF PublishedOf, FaultedOf
  <2>2. DivertedOf(m1) = DivertedOf(l) \cup {msg}
    <3>1. [seq |-> late.seq, body |-> late.body] = msg
      BY <1>0, <1>6 DEF Tick
    <3>2. QED
      BY <1>5, <3>1 DEF DivertedOf
  <2>3. GapsInv(s, m1) /\ FaultInv(s, m1)
    BY <1>1, <1>5 DEF HistoryInv, GapsInv, FaultInv
  <2>4. LateInv(s, m1)
    <3> SUFFICES ASSUME NEW x \in l.late \cup {late}
                 PROVE  /\ x.committed_next <= s.expected
                        /\ x.reason = "kBehindCommittedFrontier" => x.seq < x.committed_next
                        /\ x.reason = "kPendingCanonicalConflict" =>
                             \E t \in PendingOf(s) \cup PublishedOf(l) \cup l.lost :
                               t.seq = x.seq /\ t.body # x.body
      BY <1>5, <2>1 DEF LateInv
    <3>1. CASE x \in l.late
      BY <1>1, <3>1 DEF HistoryInv, LateInv
    <3>2. CASE x = late
      BY <1>6, <1>7, <3>2 DEF s
    <3>3. QED
      BY <3>1, <3>2
  <2>5. BodyInv(s, m1, {}, healthy')
    BY <1>1, <1>5, <1>8, <2>1, <2>2 DEF HistoryInv, BodyInv
  <2>6. HistoryInv(s, m1, {}, healthy')
    BY <2>3, <2>4, <2>5 DEF HistoryInv
  <2>7. HideFree(l, m1)
    <3>1. Len(l.gaps) \in Nat
      BY <1>0, GapNumbers
    <3>2. QED
      BY <1>5, <3>1 DEF HideFree
  <2>8. QED
    BY <1>0, <1>1, <1>2, <1>5, <1>8, <2>6, <2>7, HistoryStep DEF s, l
<1>9. CASE log' = [log EXCEPT ![cur] = m2] /\ healthy' = FALSE
  <2>1. HistoryInv(s, m2, {}, FALSE) /\ HideFree(l, m2)
    <3>1. {} \cup PendingOf(s) \cup {msg} = {msg} \cup PendingOf(s)
      OBVIOUS
    <3>2. QED
      BY <1>0, <1>1, <1>5, <3>1, LoseHistory
  <2>2. HistoryInv(s, m2, {}, healthy')
    BY <1>9, <2>1
  <2>3. QED
    BY <1>0, <1>1, <1>2, <1>5, <1>9, <2>1, <2>2, HistoryStep DEF s, l
<1>10. QED
  BY <1>3, <1>8, <1>9

\* A decode failure at a readable position freezes the channel once, or is fatal.
LEMMA DecodeFailureHistory ==
  ASSUME IInv, ControlInv, HInv, NEW c \in Channels, NEW seq \in Seqs,
         NEW t \in 1..MaxArrivalTime, FreezeDecodeFailure(c, seq, t)
  PROVE  HInv' /\ StepOK
<1>1. ~Carrying /\ ~Carrying' /\ Mode = "FROM_OPEN"
  BY DEF FreezeDecodeFailure, Consume, Goto, Carrying
<1>2. CASE UNCHANGED <<state, log>> /\ (healthy' => healthy)
  <2>1. \A e \in Channels : Carried(e)' = Carried(e)
    BY <1>1 DEF Carried
  <2>2. QED
    BY <1>2, <2>1, StillStep
<1>3. CASE ~state[c].frozen /\ FreezeFromOpen(c, "kDecodeFailure", seq)
  BY <1>1, <1>3, FreezeHistory
<1>4. QED
  BY <1>2, <1>3 DEF FreezeDecodeFailure

\* Conflicting and late ticks are diverted, or freeze the channel.
LEMMA ConflictHistory ==
  ASSUME IInv, HInv, DiscoverConflict \/ LateArrival \/ AheadConflict
  PROVE  HInv' /\ StepOK
<1>1. InProcess /\ ~state[cur].frozen
  BY DEF DiscoverConflict, LateArrival, AheadConflict, Ahead, InDiscovery, InActive
<1>2. CASE DivertLateRecovery("kPendingCanonicalConflict") /\ InsertResult(state[cur], msg) = "conflict"
  BY <1>1, <1>2, DivertHistory
<1>3. CASE DivertLateRecovery("kBehindCommittedFrontier") /\ msg.seq < state[cur].expected
  BY <1>1, <1>3, DivertHistory
<1>4. CASE Mode = "FROM_OPEN" /\ FreezeFromOpen(cur, "kCanonicalConflict", msg.seq) /\ Goto("after")
  <2>1. cur \in Channels /\ msg \in Tick /\ msg.seq \in Seqs
    BY <1>1, ProcessFacts DEF Tick
  <2>2. ~Carrying'
    BY <1>4 DEF Carrying, Goto
  <2>3. QED
    BY <1>1, <1>4, <2>1, <2>2, FreezeHistory
<1>5. QED
  BY <1>2, <1>3, <1>4 DEF DiscoverConflict, LateArrival, AheadConflict, Ahead

\* ForceGapToMinimum on a channel that has taken the tick or still looks for a place.
LEMMA ForceStepHistory ==
  ASSUME IInv, HInv, NEW c \in Channels, NEW s \in ChannelState, NEW label,
         ~state[c].frozen, ~s.frozen, ~s.discovering, ChannelInv(s, log[c], TRUE),
         NEW k \in SUBSET Tick, HistoryInv(s, log[c], k, healthy),
         k = (IF label = "process" THEN {msg} ELSE {}),
         \A t \in k : MinimumPending(s) <= t.seq,
         ForceGapToMinimum(c, s, label),
         Carrying => cur = c, cur' = c, msg' = msg, healthy' = healthy
  PROVE  HInv' /\ StepOK
<1> DEFINE r == AdvanceTo(s, MinimumPending(s))
           m == WithGap(log[c], s, MinimumPending(s))
<1>1. log[c] \in ChannelLog /\ MinimumPending(s) \in Nat
  BY CurFacts, MinimumPendingLeast
<1>2. r \in ChannelState /\ m \in ChannelLog
  BY <1>1, ForceInv
<1>3. ~r.frozen
  BY <1>1, AdvanceKeeps
<1>4. HistoryInv(r, m, k, healthy') /\ HideFree(log[c], m)
  BY <1>1, ForceHistory
<1>5. /\ state' = [state EXCEPT ![c] = r] /\ log' = [log EXCEPT ![c] = m]
      /\ pc' = "drain" /\ ret' = label
  <2>1. log' = [log EXCEPT ![c] = WithGap(log[c], s, MinimumPending(s))]
    BY DEF ForceGapToMinimum
  <2>2. QED
    BY <2>1 DEF ForceGapToMinimum, Update, DrainThen
<1> HIDE DEF r, m
<1>6. k = (IF Carrying' /\ ~r.frozen THEN {msg'} ELSE {})
  BY <1>3, <1>5 DEF Carrying
<1>7. QED
  BY <1>2, <1>4, <1>5, <1>6, HistoryStep

\* FinishDiscovery on a channel that holds records, with or without a tick that
\* still looks for a place.
LEMMA StartStepHistory ==
  ASSUME IInv, HInv, NEW c \in Channels, NEW s \in ChannelState, NEW m \in ChannelLog,
         NEW d \in BOOLEAN,
         ~state[c].frozen, ~s.frozen, s.discovering, s.pending_count # 0,
         ChannelInv(s, log[c], d),
         NEW k, HistoryInv(s, log[c], k, healthy),
         k = (IF Carrying' THEN {msg'} ELSE {}),
         m.received = log[c].received, m.late = log[c].late, m.faults = log[c].faults,
         m.lost = log[c].lost, m.committed = log[c].committed, m.gaps = log[c].gaps,
         state' = [state EXCEPT ![c] = FinishDiscovery(s)], log' = [log EXCEPT ![c] = m],
         Carrying => cur = c, cur' = c, healthy' = healthy
  PROVE  HInv' /\ StepOK
<1> DEFINE r == FinishDiscovery(s)
<1>1. log[c] \in ChannelLog
  BY CurFacts
<1>2. r \in ChannelState
  BY <1>1, StartInv
<1>3. ~r.frozen
  BY FinishKeeps
<1>4. HistoryInv(r, m, k, healthy') /\ HideFree(log[c], m)
  BY <1>1, StartHistory
<1> HIDE DEF r
<1>5. k = (IF Carrying' /\ ~r.frozen THEN {msg'} ELSE {})
  BY <1>3
<1>6. QED
  BY <1>2, <1>4, <1>5, HistoryStep DEF r

\* What is known inside a handler that has not found a place for its tick.
LEMMA HandlerFacts ==
  ASSUME IInv, HInv, InProcess, ~state[cur].frozen
  PROVE  /\ HistoryInv(state[cur], log[cur], {msg}, healthy)
         /\ Carrying /\ msg' = msg /\ cur' = cur /\ pc = "process"
<1>1. Carrying /\ msg' = msg /\ cur' = cur /\ cur \in Channels /\ pc = "process"
  BY ProcessFacts DEF InProcess, Carrying, regs
<1>2. Carried(cur) = {msg}
  BY <1>1 DEF Carried
<1>3. QED
  BY <1>1, <1>2 DEF HInv

\* A collision while discovering: the tick is still in hand.
LEMMA DiscoverCollisionHistory ==
  ASSUME IInv, HInv, DiscoverCollision
  PROVE  HInv' /\ StepOK
<1> DEFINE s == state[cur]
           l == log[cur]
           m == [l EXCEPT !.held = l.held \cup {msg.seq}, !.origin = MinimumPending(s)]
<1>0. /\ InProcess /\ s.discovering /\ ~s.frozen
      /\ s.pending[SlotOf(msg.seq)].seq # 0
  BY DEF DiscoverCollision, InDiscovery, InsertResult
<1>1. /\ cur \in Channels /\ msg \in Tick /\ msg.seq \in Seqs /\ msg.seq \in Nat
      /\ s \in ChannelState /\ l \in ChannelLog /\ ChannelInv(s, l, FALSE)
  <2>1. /\ cur \in Channels /\ msg \in Tick
        /\ s \in ChannelState /\ l \in ChannelLog /\ ChannelInv(s, l, FALSE)
    BY <1>0, ProcessFacts
  <2>2. msg.seq \in Seqs
    BY <2>1 DEF Tick
  <2>3. msg.seq \in Nat
    BY <2>2 DEF Seqs
  <2>4. QED
    BY <2>1, <2>2, <2>3
<1>2. HistoryInv(s, l, {msg}, healthy) /\ Carrying /\ msg' = msg /\ cur' = cur
  BY <1>0, HandlerFacts
<1>3. MinimumPending(s) \in Nat
  BY <1>1, MinimumPendingLeast
<1>4. /\ m \in ChannelLog /\ m.received = l.received /\ m.late = l.late /\ m.faults = l.faults
      /\ m.lost = l.lost /\ m.committed = l.committed /\ m.gaps = l.gaps
  BY <1>1, <1>3 DEF ChannelLog
<1>5. /\ state' = [state EXCEPT ![cur] = FinishDiscovery(s)] /\ log' = [log EXCEPT ![cur] = m]
      /\ Carrying' /\ healthy' = healthy
  BY DEF DiscoverCollision, Update, DrainThen, Held, lane, Carrying
<1> HIDE DEF m, s, l
<1>6. s.pending_count # 0
  BY <1>0, <1>1, OccupiedCounted
<1>7. {msg} = (IF Carrying' THEN {msg'} ELSE {})
  BY <1>2, <1>5
<1>8. QED
  BY <1>0, <1>1, <1>2, <1>4, <1>5, <1>6, <1>7, StartStepHistory DEF s, l

\* A tick retained while discovering, which may end the initial hold.
LEMMA DiscoverInsertHistory ==
  ASSUME IInv, HInv, DiscoverInsert
  PROVE  HInv' /\ StepOK
<1> DEFINE s0 == state[cur]
           l == log[cur]
           s == HeldTick
           m1 == [l EXCEPT !.held = l.held \cup {msg.seq}, !.origin = MinimumPending(s)]
           m2 == [l EXCEPT !.held = l.held \cup {msg.seq}, !.origin = l.origin]
<1>0. InProcess /\ s0.discovering /\ ~s0.frozen /\ s0.pending[SlotOf(msg.seq)].seq = 0
  BY DEF DiscoverInsert, InDiscovery, InsertResult
<1>1. /\ cur \in Channels /\ msg \in Tick /\ msg.seq \in Seqs
      /\ s0 \in ChannelState /\ l \in ChannelLog /\ ChannelInv(s0, l, FALSE)
  BY <1>0, ProcessFacts DEF Tick
<1>2. HistoryInv(s0, l, {msg}, healthy) /\ Carrying /\ msg' = msg /\ cur' = cur
  BY <1>0, HandlerFacts
<1>3. /\ s \in ChannelState /\ s.frozen = s0.frozen /\ s.discovering = s0.discovering
      /\ s.expected = s0.expected /\ s.pending_count = s0.pending_count + 1
      /\ s.pending = Insert(s0, msg).pending
      /\ s.cumulative_missing = s0.cumulative_missing /\ s.gap_epoch = s0.gap_epoch
      /\ s.history_complete = Insert(s0, msg).history_complete
  BY <1>0, HeldTickKeeps
<1>4. /\ state' = [state EXCEPT ![cur] = IF HoldOver THEN FinishDiscovery(s) ELSE s]
      /\ log' = [log EXCEPT ![cur] = IF HoldOver THEN m1 ELSE m2]
      /\ ~Carrying' /\ healthy' = healthy
  <2>1. state' = [state EXCEPT ![cur] = IF HoldOver THEN FinishDiscovery(s) ELSE s]
    BY DEF DiscoverInsert, Update, HeldTick, HoldOver
  <2>2. log' = [log EXCEPT ![cur] = Held(IF HoldOver THEN MinimumPending(s) ELSE log[cur].origin)]
    BY DEF DiscoverInsert, HeldTick, HoldOver
  <2>3. (pc' = "drain" /\ ret' = "after") \/ pc' = "after"
    BY DEF DiscoverInsert, DrainThen, Goto
  <2>4. QED
    BY <2>1, <2>2, <2>3 DEF DiscoverInsert, Held, Carrying
<1>5. ChannelInv(s, l, FALSE) /\ s.pending_count # 0
  <2> HIDE DEF s, s0, l
  <2>1. Insert(s0, msg) \in ChannelState /\ ChannelInv(Insert(s0, msg), l, FALSE)
    BY <1>0, <1>1, InsertInv
  <2>2. /\ Insert(s0, msg).expected = s0.expected /\ Insert(s0, msg).discovering = s0.discovering
        /\ Insert(s0, msg).pending_count = s0.pending_count + 1
        /\ Insert(s0, msg).cumulative_missing = s0.cumulative_missing
        /\ Insert(s0, msg).gap_epoch = s0.gap_epoch
    BY <1>1, InsertKeeps
  <2>3. ChannelInv(s, l, FALSE)
    BY <1>1, <1>3, <2>1, <2>2, SameTableInv
  <2>4. s0.pending_count \in Nat
    BY <1>1 DEF ChannelState
  <2>5. s.pending_count # 0
    BY <1>3, <2>4
  <2>6. QED
    BY <2>3, <2>5
<1>6. MinimumPending(s) \in Nat
  BY <1>3, MinimumPendingLeast
<1>7. /\ m1 \in ChannelLog /\ m1.received = l.received /\ m1.late = l.late
      /\ m1.faults = l.faults /\ m1.lost = l.lost /\ m1.committed = l.committed
      /\ m1.gaps = l.gaps
      /\ m2 \in ChannelLog /\ m2.received = l.received /\ m2.late = l.late
      /\ m2.faults = l.faults /\ m2.lost = l.lost /\ m2.committed = l.committed
      /\ m2.gaps = l.gaps
  BY <1>1, <1>6 DEF ChannelLog
<1>8. l \in ChannelLog /\ l.received = l.received
  BY <1>1
<1> HIDE DEF m1, m2, s, s0, l
<1>9. PendingOf(s) = PendingOf(s0) \cup {msg}
  BY <1>0, <1>1, <1>3, InsertPending
<1>10. HistoryInv(s, l, {}, healthy) /\ HistoryInv(s, m2, {}, healthy) /\ HideFree(l, m2)
  <2>1. PendingOf(s0) \subseteq PendingOf(s) /\ {} \cup PendingOf(s) = {msg} \cup PendingOf(s0)
    BY <1>9
  <2>2. QED
    BY <1>1, <1>2, <1>3, <1>7, <2>1, RetainHistory
<1>11. CASE HoldOver
  <2>1. state' = [state EXCEPT ![cur] = FinishDiscovery(s)] /\ log' = [log EXCEPT ![cur] = m1]
    BY <1>4, <1>11
  <2>2. {} = (IF Carrying' THEN {msg'} ELSE {})
    BY <1>4
  <2>3. ~s.frozen /\ s.discovering
    BY <1>0, <1>3
  <2>4. QED
    BY <1>0, <1>1, <1>2, <1>3, <1>4, <1>5, <1>7, <1>10, <2>1, <2>2, <2>3, StartStepHistory
       DEF s0, l
<1>12. CASE ~HoldOver
  <2>1. state' = [state EXCEPT ![cur] = s] /\ log' = [log EXCEPT ![cur] = m2]
    BY <1>4, <1>12
  <2>2. QED
    BY <1>0, <1>1, <1>2, <1>3, <1>4, <1>7, <1>10, <2>1, HistoryStep DEF s0, l
<1>13. QED
  BY <1>11, <1>12

\* The record EmitOne publishes is the tick's.
LEMMA EmittedFacts ==
  ASSUME NEW s \in ChannelState, NEW t \in Tick
  PROVE  /\ EmittedRecord(s, t) \in CommitRecord
         /\ EmittedRecord(s, t).seq = t.seq /\ EmittedRecord(s, t).body = t.body
BY DEF EmittedRecord, CommitRecord, ChannelState, Tick

\* EmitOne on the current channel, whose state is f once the record's slot is free.
Emits(f, t, ok) ==
  LET taken == TakeGapMetadata(f, t.body)
      s == state[cur]
      l == log[cur]
  IN  /\ state' = [state EXCEPT ![cur] =
            IF ok THEN [taken EXCEPT !.expected = s.expected + 1] ELSE taken]
      /\ log' = [log EXCEPT ![cur] =
            IF ok THEN [l EXCEPT !.committed = Append(l.committed, EmittedRecord(s, t))]
                  ELSE [l EXCEPT !.lost = l.lost \cup {t}]]
      /\ healthy' = (healthy /\ ok)

\* A record at the frontier passes it: from the handler's hand (f = s) or from the
\* table (f is s with the record's slot freed).
LEMMA EmitHistory ==
  ASSUME IInv, HInv, cur \in Channels, ~state[cur].frozen,
         NEW f \in ChannelState, NEW t \in Tick, t.seq = state[cur].expected,
         f.frozen = state[cur].frozen, f.expected = state[cur].expected,
         f.cumulative_missing = state[cur].cumulative_missing,
         NEW ok \in BOOLEAN, NEW k, NEW q, HistoryInv(state[cur], log[cur], k, healthy),
         PendingOf(state[cur]) \subseteq PendingOf(f) \cup {t},
         q \cup PendingOf(f) \cup {t} = k \cup PendingOf(state[cur]),
         q = (IF Carrying' THEN {msg'} ELSE {}), cur' = cur,
         Emits(f, t, ok)
  PROVE  HInv' /\ StepOK
<1> DEFINE s == state[cur]
           l == log[cur]
           taken == TakeGapMetadata(f, t.body)
           r == [taken EXCEPT !.expected = s.expected + 1]
           e == EmittedRecord(s, t)
           m1 == [l EXCEPT !.committed = Append(l.committed, e)]
           m2 == [l EXCEPT !.lost = l.lost \cup {t}]
<1>1. s \in ChannelState /\ l \in ChannelLog
  BY CurFacts
<1>2. e \in CommitRecord /\ e.seq = t.seq /\ e.body = t.body
  BY <1>1, EmittedFacts
<1>3. /\ taken.frozen = f.frozen /\ taken.expected = f.expected /\ taken.pending = f.pending
      /\ taken.cumulative_missing = f.cumulative_missing
      /\ r.frozen = f.frozen /\ r.expected = s.expected + 1 /\ r.pending = f.pending
      /\ r.cumulative_missing = f.cumulative_missing
  BY TakeKeeps
<1>4. taken \in ChannelState /\ r \in ChannelState
  <2>1. s.expected + 1 \in Nat
    BY <1>1 DEF ChannelState
  <2>2. QED
    BY <2>1 DEF TakeGapMetadata, ChannelState
<1> HIDE DEF e
<1>5. /\ m1 \in ChannelLog /\ m1.received = l.received /\ m1.late = l.late
      /\ m1.faults = l.faults /\ m1.lost = l.lost /\ m1.gaps = l.gaps
      /\ m1.committed = Append(l.committed, e)
  <2>1. Append(l.committed, e) \in Seq(CommitRecord)
    BY <1>1, <1>2 DEF ChannelLog
  <2>2. QED
    BY <1>1, <2>1 DEF ChannelLog
<1>6. /\ m2 \in ChannelLog /\ m2.received = l.received /\ m2.late = l.late
      /\ m2.faults = l.faults /\ m2.committed = l.committed /\ m2.gaps = l.gaps
      /\ m2.lost = l.lost \cup {t}
  BY <1>1 DEF ChannelLog
<1>7. /\ state' = [state EXCEPT ![cur] = IF ok THEN r ELSE taken]
      /\ log' = [log EXCEPT ![cur] = IF ok THEN m1 ELSE m2]
      /\ healthy' = (healthy /\ ok)
  BY DEF Emits, e
<1>8. /\ HistoryInv(s, l, k, healthy) /\ t.seq = s.expected
      /\ r.frozen = s.frozen /\ r.cumulative_missing = s.cumulative_missing
      /\ taken.frozen = s.frozen /\ taken.expected = s.expected
      /\ taken.cumulative_missing = s.cumulative_missing
  BY <1>3
<1> HIDE DEF taken, r, m1, m2
<1>9. PendingOf(taken) = PendingOf(f) /\ PendingOf(r) = PendingOf(f)
  BY <1>3, SamePending
<1>10. /\ PendingOf(s) \subseteq PendingOf(r) \cup {t}
       /\ q \cup PendingOf(r) \cup {t} = k \cup PendingOf(s)
  BY <1>9
<1>11. /\ PendingOf(s) \subseteq PendingOf(taken) \cup {t}
       /\ q \cup PendingOf(taken) \cup {t} = k \cup PendingOf(s)
  BY <1>9
<1> HIDE DEF s, l
<1>12. CASE ok
  <2>1. state' = [state EXCEPT ![cur] = r] /\ log' = [log EXCEPT ![cur] = m1] /\ healthy' = (healthy /\ TRUE)
    BY <1>7, <1>12
  <2>2. HistoryInv(r, m1, q, healthy) /\ HideFree(l, m1)
    BY <1>1, <1>2, <1>3, <1>4, <1>5, <1>8, <1>10, CommitHistory
  <2>3. HistoryInv(r, m1, q, healthy')
    BY <1>5, <2>1, <2>2, StillHistory
  <2>4. q = (IF Carrying' /\ ~r.frozen THEN {msg'} ELSE {}) /\ (healthy' => healthy)
    BY <1>3, <2>1
  <2>5. QED
    BY <1>4, <1>5, <2>1, <2>2, <2>3, <2>4, HistoryStep DEF s, l, Carrying
<1>13. CASE ~ok
  <2>1. state' = [state EXCEPT ![cur] = taken] /\ log' = [log EXCEPT ![cur] = m2] /\ healthy' = FALSE
    BY <1>7, <1>13
  <2>2. HistoryInv(taken, m2, q, healthy') /\ HideFree(l, m2)
    <3>1. ~healthy' /\ t \in Tick
      BY <2>1
    <3>2. /\ taken \in ChannelState /\ m2 \in ChannelLog /\ m2.lost = l.lost \cup {t}
          /\ taken.frozen = s.frozen /\ taken.expected = s.expected
          /\ taken.cumulative_missing = s.cumulative_missing
          /\ m2.received = l.received /\ m2.late = l.late /\ m2.faults = l.faults
          /\ m2.committed = l.committed /\ m2.gaps = l.gaps
      BY <1>4, <1>6, <1>8
    <3>3. HistoryInv(s, l, k, healthy)
      BY <1>8
    <3>4. QED
      BY ONLY <1>1, <1>11, <3>1, <3>2, <3>3, LoseHistory
  <2>3. q = (IF Carrying' /\ ~taken.frozen THEN {msg'} ELSE {})
    BY <1>3
  <2>4. QED
    BY <1>4, <1>6, <2>1, <2>2, <2>3, HistoryStep DEF s, l, Carrying
<1>14. QED
  BY <1>12, <1>13

\* A tick at the frontier is emitted out of the handler's hand, or lost.
LEMMA EmitAtFrontierHistory ==
  ASSUME IInv, HInv, EmitAtFrontier
  PROVE  HInv' /\ StepOK
<1>1. InProcess /\ ~state[cur].frozen /\ msg.seq = state[cur].expected
  BY DEF EmitAtFrontier, InActive
<1>2. cur \in Channels /\ msg \in Tick /\ state[cur] \in ChannelState
  BY <1>1, ProcessFacts
<1>3. HistoryInv(state[cur], log[cur], {msg}, healthy) /\ cur' = cur
  BY <1>1, HandlerFacts
<1>4. PICK ok \in EmitResults(msg.body) :
        Emits(state[cur], msg, ok) /\ (IF ok THEN DrainThen("after") ELSE Goto("after"))
  BY DEF EmitAtFrontier, Update, Emits
<1>5. ok \in BOOLEAN
  BY ConstantsAssumption DEF EmitResults
<1>6. ~Carrying'
  BY <1>4 DEF Carrying, DrainThen, Goto
<1>7. {} = (IF Carrying' THEN {msg'} ELSE {})
  BY <1>6
<1>8. {} \cup PendingOf(state[cur]) \cup {msg} = {msg} \cup PendingOf(state[cur])
  OBVIOUS
<1>9. QED
  BY <1>1, <1>2, <1>3, <1>4, <1>5, <1>7, <1>8, EmitHistory

\* DrainContiguous emits the record at the frontier out of the table, or loses it.
LEMMA DrainEmitHistory ==
  ASSUME IInv, ControlInv, HInv, DrainEmit
  PROVE  HInv' /\ StepOK
<1> DEFINE s == state[cur]
           f == FreeFrontierSlot(s)
           t == s.pending[SlotOf(s.expected)]
           k == Carried(cur)
<1>1. pc = "drain" /\ FrontierPresent(s) /\ ~s.frozen
  BY DEF DrainEmit, ControlInv, CallInv
<1>2. /\ cur \in Channels /\ s \in ChannelState /\ log[cur] \in ChannelLog
      /\ ~s.discovering /\ ChannelInv(s, log[cur], TRUE) /\ ret \in Labels \ {"drain", "done"}
  BY <1>1, DrainFacts
<1>3. PICK ok \in EmitResults(t.body) :
        /\ Emits(f, t, ok) /\ pc' = (IF ok THEN "drain" ELSE ret) /\ ret' = ret
  BY DEF DrainEmit, Update, Emits, Goto
<1>4. ok \in BOOLEAN
  BY ConstantsAssumption DEF EmitResults
<1>5. cur' = cur /\ msg' = msg
  BY DEF DrainEmit, regs
<1>6. Carrying' <=> Carrying
  BY <1>1, <1>2, <1>3 DEF Carrying
<1>7. k = (IF Carrying' THEN {msg'} ELSE {})
  BY <1>1, <1>5, <1>6 DEF Carried
<1>8. HistoryInv(s, log[cur], k, healthy)
  BY <1>2 DEF HInv
<1>9. /\ f.frozen = s.frozen /\ f.expected = s.expected
      /\ f.cumulative_missing = s.cumulative_missing /\ t.seq = s.expected
  BY <1>1, <1>2, FreeKeeps DEF FrontierPresent
<1>10. f \in ChannelState /\ t \in Tick /\ PendingOf(s) = PendingOf(f) \cup {t}
  <2>1. f \in ChannelState /\ t \in Tick
    <3> HIDE DEF s
    <3>1. QED
      BY <1>1, <1>2, FreeInv
  <2>2. PendingOf(s) = PendingOf(f) \cup {t}
    BY <1>1, <1>2, FreePending
  <2>3. QED
    BY <2>1, <2>2
<1> HIDE DEF f, t, k
<1>11. PendingOf(s) \subseteq PendingOf(f) \cup {t} /\ k \cup PendingOf(f) \cup {t} = k \cup PendingOf(s)
  BY <1>10
<1>12. QED
  BY <1>1, <1>2, <1>3, <1>4, <1>5, <1>7, <1>8, <1>9, <1>10, <1>11, EmitHistory

\* DrainContiguous ends: only the timer changes.
LEMMA DrainDoneHistory ==
  ASSUME IInv, ControlInv, HInv, DrainDone
  PROVE  HInv' /\ StepOK
<1> DEFINE s == state[cur]
           l == log[cur]
           k == Carried(cur)
           r == [s EXCEPT !.gap_open_ns = IF s.pending_count # 0 THEN now ELSE 0]
<1>1. /\ pc = "drain" /\ ~s.frozen /\ ret \in Labels \ {"drain", "done"}
      /\ pc' = ret /\ ret' = ret /\ cur' = cur /\ msg' = msg /\ healthy' = healthy
  BY DrainFacts DEF DrainDone, ControlInv, CallInv, regs, Goto
<1>2. /\ cur \in Channels /\ s \in ChannelState /\ l \in ChannelLog /\ now \in Nat
      /\ log \in [Channels -> ChannelLog]
  BY <1>1, DrainFacts, SplitIInv DEF PerChannel
<1>3. state' = [state EXCEPT ![cur] = r] /\ log' = [log EXCEPT ![cur] = l]
  BY <1>2 DEF DrainDone, Update
<1>4. /\ r \in ChannelState /\ r.frozen = s.frozen /\ r.pending = s.pending
      /\ r.expected = s.expected /\ r.cumulative_missing = s.cumulative_missing
  BY <1>2 DEF ChannelState
<1>5. HistoryInv(s, l, k, healthy)
  BY <1>2 DEF HInv
<1>6. k = (IF Carrying' THEN {msg'} ELSE {})
  BY <1>1 DEF Carried, Carrying
<1> HIDE DEF r, k, s, l
<1>7. PendingOf(r) = PendingOf(s)
  BY <1>4, SamePending
<1>8. HistoryInv(r, l, k, healthy) /\ HideFree(l, l)
  BY <1>2, <1>4, <1>5, <1>7, RetainHistory
<1>9. QED
  BY <1>1, <1>2, <1>3, <1>4, <1>6, <1>8, HistoryStep DEF s, l

\* A tick ahead of the frontier that takes its slot, and r, the channel once its gap
\* timer may have been started.
LEMMA AheadHistory ==
  ASSUME IInv, HInv, Ahead("inserted"), NEW r \in ChannelState,
         r.pending = Insert(state[cur], msg).pending, r.frozen = state[cur].frozen,
         r.discovering = state[cur].discovering,
         r.expected = state[cur].expected, r.pending_count = state[cur].pending_count + 1,
         r.cumulative_missing = state[cur].cumulative_missing,
         r.gap_epoch = state[cur].gap_epoch,
         r.history_complete = Insert(state[cur], msg).history_complete
  PROVE  /\ HistoryInv(r, log[cur], {}, healthy) /\ HideFree(log[cur], log[cur])
         /\ ChannelInv(r, log[cur], TRUE) /\ ~r.frozen /\ ~r.discovering
<1> DEFINE s == state[cur]
           i == Insert(s, msg)
           l == log[cur]
<1>1. InProcess /\ ~s.frozen /\ ~s.discovering /\ s.pending[SlotOf(msg.seq)].seq = 0
  BY DEF Ahead, InActive, InsertResult
<1>2. /\ cur \in Channels /\ msg \in Tick /\ s \in ChannelState /\ l \in ChannelLog
      /\ HistoryInv(s, l, {msg}, healthy)
  BY <1>1, ProcessFacts, HandlerFacts
<1>3. i \in ChannelState /\ ChannelInv(i, l, TRUE)
  BY AheadInsertFacts
<1>4. /\ i.expected = s.expected /\ i.pending_count = s.pending_count + 1
      /\ i.discovering = s.discovering
      /\ i.cumulative_missing = s.cumulative_missing /\ i.gap_epoch = s.gap_epoch
  BY <1>2, InsertKeeps
<1> HIDE DEF i
<1>5. ChannelInv(r, l, TRUE)
  BY <1>2, <1>3, <1>4, SameTableInv DEF i
<1>6. PendingOf(r) = PendingOf(s) \cup {msg}
  BY <1>1, <1>2, InsertPending
<1>7. PendingOf(s) \subseteq PendingOf(r) /\ {} \cup PendingOf(r) = {msg} \cup PendingOf(s)
  BY <1>6
<1>8. HistoryInv(r, l, {}, healthy) /\ HideFree(l, l)
  BY <1>2, <1>7, RetainHistory
<1>9. QED
  BY <1>1, <1>5, <1>8

\* A tick ahead of the frontier is retained; a zero gap wait forces the gap at once.
LEMMA AheadRetainHistory ==
  ASSUME IInv, HInv, AheadRetain
  PROVE  HInv' /\ StepOK
<1> DEFINE r == RetainedTick
           l == log[cur]
<1>1. /\ Ahead("inserted") /\ InProcess /\ ~state[cur].frozen /\ healthy' = healthy
      /\ \/ ForceGapToMinimum(cur, r, "after")
         \/ state' = [state EXCEPT ![cur] = r] /\ pc' = "after" /\ UNCHANGED log
  BY DEF AheadRetain, Ahead, InActive, Goto, Update, RetainedTick
<1>2. /\ cur \in Channels /\ l \in ChannelLog /\ log \in [Channels -> ChannelLog]
      /\ Carrying /\ msg' = msg /\ cur' = cur
  BY <1>1, ProcessFacts, HandlerFacts, SplitIInv DEF PerChannel
<1>3. /\ r \in ChannelState /\ HistoryInv(r, l, {}, healthy) /\ HideFree(l, l)
      /\ ChannelInv(r, l, TRUE) /\ ~r.frozen /\ ~r.discovering
  <2>1. /\ r \in ChannelState /\ r.pending = Insert(state[cur], msg).pending
        /\ r.frozen = state[cur].frozen /\ r.discovering = state[cur].discovering
        /\ r.expected = state[cur].expected /\ r.pending_count = state[cur].pending_count + 1
        /\ r.cumulative_missing = state[cur].cumulative_missing
        /\ r.gap_epoch = state[cur].gap_epoch
        /\ r.history_complete = Insert(state[cur], msg).history_complete
    BY <1>1, RetainedTickKeeps
  <2> HIDE DEF r
  <2>2. QED
    BY <1>1, <2>1, AheadHistory
<1> HIDE DEF r
<1>4. CASE ForceGapToMinimum(cur, r, "after")
  <2>1. ({} = IF "after" = "process" THEN {msg} ELSE {}) /\ {} \in SUBSET Tick
    OBVIOUS
  <2>2. QED
    BY <1>1, <1>2, <1>3, <1>4, <2>1, ForceStepHistory DEF l
<1>5. CASE state' = [state EXCEPT ![cur] = r] /\ pc' = "after" /\ UNCHANGED log
  <2>1. log' = [log EXCEPT ![cur] = l] /\ ~Carrying'
    BY <1>2, <1>5 DEF Carrying
  <2>2. {} = (IF Carrying' /\ ~r.frozen THEN {msg'} ELSE {})
    BY <2>1
  <2>3. QED
    BY <1>1, <1>2, <1>3, <1>5, <2>1, <2>2, HistoryStep DEF l
<1>6. QED
  BY <1>1, <1>4, <1>5

\* A tick beyond the span takes its slot and forces the gap.
LEMMA AheadFarHistory ==
  ASSUME IInv, HInv, AheadFar
  PROVE  HInv' /\ StepOK
<1> DEFINE r == Insert(state[cur], msg)
<1>1. /\ Ahead("inserted") /\ InProcess /\ ~state[cur].frozen /\ healthy' = healthy
      /\ ForceGapToMinimum(cur, r, "after")
  BY DEF AheadFar, Ahead, InActive, lane
<1>2. /\ cur \in Channels /\ state[cur] \in ChannelState /\ msg \in Tick
      /\ Carrying /\ msg' = msg /\ cur' = cur
  BY <1>1, ProcessFacts, HandlerFacts
<1>3. /\ r \in ChannelState /\ r.frozen = state[cur].frozen
      /\ r.discovering = state[cur].discovering
      /\ r.expected = state[cur].expected /\ r.pending_count = state[cur].pending_count + 1
      /\ r.cumulative_missing = state[cur].cumulative_missing
      /\ r.gap_epoch = state[cur].gap_epoch
  BY <1>2, InsertKeeps
<1>4. /\ HistoryInv(r, log[cur], {}, healthy)
      /\ ChannelInv(r, log[cur], TRUE) /\ ~r.frozen /\ ~r.discovering
  BY <1>1, <1>3, AheadHistory
<1> HIDE DEF r
<1>5. ({} = IF "after" = "process" THEN {msg} ELSE {}) /\ {} \in SUBSET Tick
  OBVIOUS
<1>6. QED
  BY <1>1, <1>2, <1>3, <1>4, <1>5, ForceStepHistory

\* A collision moves the frontier; the tick stays in hand.
LEMMA AheadCollisionHistory ==
  ASSUME IInv, HInv, AheadCollision
  PROVE  HInv' /\ StepOK
<1> DEFINE s == state[cur]
           l == log[cur]
           r == AdvanceTo(s, msg.seq)
           m == WithGap(l, s, msg.seq)
<1>1. /\ InProcess /\ ~s.frozen /\ ~s.discovering /\ msg.seq > s.expected /\ healthy' = healthy
      /\ \/ ForceGapToMinimum(cur, s, "process") /\ msg.seq >= MinimumPending(s)
         \/ /\ state' = [state EXCEPT ![cur] = r] /\ log' = [log EXCEPT ![cur] = m]
            /\ pc' = "process" /\ msg.seq < MinimumPending(s)
  BY DEF AheadCollision, Ahead, InActive, Goto, Update, lane
<1>2. /\ cur \in Channels /\ s \in ChannelState /\ l \in ChannelLog /\ msg \in Tick
      /\ ChannelInv(s, l, FALSE) /\ HistoryInv(s, l, {msg}, healthy)
      /\ Carrying /\ msg' = msg /\ cur' = cur
  BY <1>1, ProcessFacts, HandlerFacts
<1>3. /\ msg.seq \in Nat /\ MinimumPending(s) \in Nat /\ s.expected \in Nat
      /\ ChannelInv(s, l, TRUE) /\ MinimumPending(s) <= MaxU64 /\ MaxU64 \in Nat
      /\ \A i \in Occupied(s) : s.pending[i].seq \in Nat /\ MinimumPending(s) <= s.pending[i].seq
  <2>1. msg.seq \in Nat /\ s.expected \in Nat
    BY <1>2 DEF Tick, Seqs, ChannelState
  <2>2. /\ MinimumPending(s) \in Nat /\ MinimumPending(s) <= MaxU64
        /\ \A i \in Occupied(s) : MinimumPending(s) <= s.pending[i].seq
    BY <1>2, MinimumPendingLeast
  <2>3. ChannelInv(s, l, TRUE)
    BY <1>2, Weaken
  <2>4. \A i \in Occupied(s) : s.pending[i].seq \in Nat
    <3>1. \A i \in Occupied(s) : s.pending[i] \in Tick
      BY <1>2, OccupiedTick
    <3>2. QED
      BY <3>1 DEF Tick, Seqs
  <2>5. QED
    BY <2>1, <2>2, <2>3, <2>4, ConstantsAssumption
<1> HIDE DEF s, l
<1>4. CASE ForceGapToMinimum(cur, s, "process") /\ msg.seq >= MinimumPending(s)
  <2>1. {msg} \in SUBSET Tick /\ \A t \in {msg} : MinimumPending(s) <= t.seq
    BY <1>2, <1>3, <1>4
  <2>2. QED
    BY <1>1, <1>2, <1>3, <1>4, <2>1, ForceStepHistory DEF s, l
<1>5. CASE /\ state' = [state EXCEPT ![cur] = r] /\ log' = [log EXCEPT ![cur] = m]
           /\ pc' = "process" /\ msg.seq < MinimumPending(s)
  <2>1. /\ s.expected <= msg.seq /\ msg.seq <= MaxU64
        /\ \A i \in Occupied(s) : msg.seq <= s.pending[i].seq
        /\ \A t \in {msg} : msg.seq <= t.seq
        /\ {msg} \in SUBSET Tick
    BY <1>1, <1>2, <1>3, <1>5
  <2>2. r \in ChannelState /\ m \in ChannelLog
    BY <1>1, <1>2, <1>5, JumpInv
  <2>3. ~r.frozen
    BY <1>1, <1>2, <1>3, AdvanceKeeps
  <2>4. HistoryInv(r, m, {msg}, healthy) /\ HideFree(l, m)
    BY <1>1, <1>2, <1>3, <2>1, AdvanceHistory
  <2> HIDE DEF r, m
  <2>5. {msg} = (IF Carrying' /\ ~r.frozen THEN {msg'} ELSE {}) /\ Carrying'
    BY <1>2, <1>5, <2>3 DEF Carrying
  <2>6. QED
    BY <1>1, <1>2, <1>5, <2>2, <2>4, <2>5, HistoryStep DEF s, l
<1>6. QED
  BY <1>1, <1>4, <1>5

\* Poll and Flush at a channel: they start it, force its gap, or leave its ticks alone.
LEMMA ScanHistory ==
  ASSUME IInv, HInv, PollDiscovering \/ PollGap \/ FlushStep \/ FlushNext
  PROVE  HInv' /\ StepOK
<1> DEFINE c == channels[index]
           s == state[c]
           l == log[c]
           m == [l EXCEPT !.origin = MinimumPending(s)]
           r == IF s.frozen THEN s ELSE [s EXCEPT !.discovering = FALSE]
<1>1. /\ InPoll \/ InFlush
      /\ msg' = msg /\ healthy' = healthy
  BY DEF PollDiscovering, PollGap, FlushStep, FlushNext, InPoll, InFlush, lane
<1>2. c \in Channels /\ cur' = c /\ ~Carrying
  BY <1>1, ScanFacts DEF Carrying
<1>3. /\ s \in ChannelState /\ l \in ChannelLog /\ ChannelInv(s, l, TRUE)
      /\ HistoryInv(s, l, {}, healthy) /\ log \in [Channels -> ChannelLog]
  <2>1. Carried(c) = {}
    BY <1>2 DEF Carried
  <2>2. QED
    BY <1>2, <2>1, CurFacts, SplitIInv DEF HInv, PerChannel
<1>4. \/ /\ UNCHANGED <<state, log>> /\ pc' = "poll"
      \/ \E label \in {"poll", "flush"} :
           \/ StartFromMinimum(c, s, label) /\ s.discovering /\ ~s.frozen /\ s.pending_count # 0
           \/ ForceGapToMinimum(c, s, label) /\ ~s.discovering /\ ~s.frozen
      \/ state' = [state EXCEPT ![c] = r] /\ UNCHANGED log /\ pc' = "flush"
  BY DEF PollDiscovering, PollGap, FlushStep, FlushNext, Update, Goto
<1>5. CASE UNCHANGED <<state, log>> /\ pc' = "poll"
  <2>1. \A e \in Channels : Carried(e)' = Carried(e)
    BY <1>2, <1>5 DEF Carried, Carrying
  <2>2. QED
    BY <1>1, <1>5, <2>1, StillStep
<1>6. ASSUME NEW label \in {"poll", "flush"}, StartFromMinimum(c, s, label),
             s.discovering, ~s.frozen, s.pending_count # 0
      PROVE  HInv' /\ StepOK
  <2>1. MinimumPending(s) \in Nat
    BY <1>3, MinimumPendingLeast
  <2>2. /\ m \in ChannelLog /\ m.received = l.received /\ m.late = l.late /\ m.faults = l.faults
        /\ m.lost = l.lost /\ m.committed = l.committed /\ m.gaps = l.gaps
    BY <1>3, <2>1 DEF ChannelLog
  <2>3. /\ state' = [state EXCEPT ![c] = FinishDiscovery(s)] /\ log' = [log EXCEPT ![c] = m]
        /\ ~Carrying'
    BY <1>6 DEF StartFromMinimum, Update, DrainThen, Carrying
  <2>4. {} = (IF Carrying' THEN {msg'} ELSE {})
    BY <2>3
  <2> HIDE DEF m, c
  <2>5. QED
    BY <1>1, <1>2, <1>3, <1>6, <2>2, <2>3, <2>4, StartStepHistory
<1>7. ASSUME NEW label \in {"poll", "flush"}, ForceGapToMinimum(c, s, label),
             ~s.discovering, ~s.frozen
      PROVE  HInv' /\ StepOK
  <2>1. ({} = IF label = "process" THEN {msg} ELSE {}) /\ {} \in SUBSET Tick
    BY <1>7
  <2> HIDE DEF c
  <2>2. QED
    BY <1>1, <1>2, <1>3, <1>7, <2>1, ForceStepHistory
<1>8. CASE state' = [state EXCEPT ![c] = r] /\ UNCHANGED log /\ pc' = "flush"
  <2>1. /\ r \in ChannelState /\ r.frozen = s.frozen /\ r.pending = s.pending
        /\ r.expected = s.expected /\ r.cumulative_missing = s.cumulative_missing
    BY <1>3 DEF ChannelState
  <2>2. log' = [log EXCEPT ![c] = l] /\ ~Carrying'
    BY <1>3, <1>8 DEF Carrying
  <2>3. s.frozen => r = s
    OBVIOUS
  <2> HIDE DEF r, c, s, l
  <2>4. PendingOf(r) = PendingOf(s)
    BY <2>1, SamePending
  <2>5. HistoryInv(r, l, {}, healthy) /\ HideFree(l, l)
    BY <1>3, <2>1, <2>4, RetainHistory
  <2>6. {} = (IF Carrying' /\ ~r.frozen THEN {msg'} ELSE {})
    BY <2>2
  <2>7. QED
    BY <1>1, <1>2, <1>3, <1>8, <2>1, <2>2, <2>3, <2>5, <2>6, HistoryStep DEF s, l
<1>9. QED
  BY <1>4, <1>5, <1>6, <1>7, <1>8

\* Every step keeps the histories.
LEMMA NextHistory == ASSUME IInv, ControlInv, HInv, [Next]_vars PROVE HInv' /\ StepOK
<1>1. CASE UNCHANGED vars
  <2>1. \A c \in Channels : Carried(c)' = Carried(c)
    BY <1>1 DEF vars, Carried, Carrying
  <2>2. QED
    BY <1>1, <2>1, StillStep DEF vars
<1>2. CASE Arrival
  BY <1>2, ProcessHistory, DecodeFailureHistory, QuietHistory DEF Arrival, QuietStep
<1>3. CASE ProcessStep
  BY <1>3, QuietHistory, ConflictHistory, DiscoverCollisionHistory, DiscoverInsertHistory,
     EmitAtFrontierHistory, AheadRetainHistory, AheadFarHistory, AheadCollisionHistory
     DEF ProcessStep, QuietStep
<1>4. CASE CallStep
  BY <1>3, <1>4, QuietHistory, DrainEmitHistory, DrainDoneHistory, ScanHistory
     DEF CallStep, QuietStep
<1>5. CASE AdvanceClock \/ IdlePoll \/ BeginFlush \/ Terminated
  BY <1>5, QuietHistory DEF QuietStep
<1>6. QED
  BY <1>1, <1>2, <1>4, <1>5 DEF Next

\* A new lane has no history.
LEMMA InitHistory == ASSUME Init PROVE HInv
<1>1. \A c \in Channels : state[c] = NewChannel /\ log[c] = EmptyLog /\ Carried(c) = {}
  BY DEF Init, Carried, Carrying
<1>2. Occupied(NewChannel) = {}
  BY DEF Occupied, NewChannel, Free
<1>3. /\ EmptyLog.received = {} /\ EmptyLog.late = {} /\ EmptyLog.lost = {}
      /\ Len(EmptyLog.gaps) = 0 /\ Len(EmptyLog.committed) = 0 /\ Len(EmptyLog.faults) = 0
      /\ ~NewChannel.frozen /\ NewChannel.cumulative_missing = 0
  BY DEF EmptyLog, NewChannel
<1>4. PendingOf(NewChannel) = {} /\ PublishedOf(EmptyLog) = {} /\ DivertedOf(EmptyLog) = {}
  BY <1>2, <1>3 DEF PendingOf, PublishedOf, DivertedOf
<1>5. HistoryInv(NewChannel, EmptyLog, {}, healthy)
  <2>1. GapsInv(NewChannel, EmptyLog)
    BY <1>3 DEF GapsInv
  <2>2. FaultInv(NewChannel, EmptyLog) /\ LateInv(NewChannel, EmptyLog)
    BY <1>3 DEF FaultInv, LateInv
  <2>3. BodyInv(NewChannel, EmptyLog, {}, healthy)
    BY <1>3, <1>4 DEF BodyInv
  <2>4. QED
    BY <2>1, <2>2, <2>3 DEF HistoryInv
<1>6. QED
  BY <1>1, <1>5 DEF HInv

\* The histories, with the invariants they rest on, hold in every reachable state.
LEMMA HistoryInductive == Spec => [](IInv /\ ControlInv /\ HInv)
<1>1. Init => IInv /\ ControlInv /\ HInv
  BY InitIInv, InitControl, InitHistory
<1>2. IInv /\ ControlInv /\ HInv /\ [Next]_vars => IInv' /\ ControlInv' /\ HInv'
  BY NextIInv, NextControl, NextHistory
<1>3. QED
  BY <1>1, <1>2, PTL DEF Spec

-----------------------------------------------------------------------------
\* The published gap ranges are disjoint, ascending, numbered by epoch, behind the
\* frontier, clear of everything emitted, and carry the running total.
THEOREM GapsDisjointFromOutputHolds == Spec => []GapsDisjointFromOutput
<1>1. HInv => GapsDisjointFromOutput
  BY DEF HInv, HistoryInv, GapsInv, GapsDisjointFromOutput
<1>2. QED
  BY <1>1, HistoryInductive, PTL

\* Every LateRecovery record lies behind the frontier it reports, or another body of
\* its sequence was kept in its place.
THEOREM LateExplainedHolds == Spec => []LateExplained
<1>1. \A c \in Channels : Pending(c) = PendingOf(state[c]) /\ Published(c) = PublishedOf(log[c])
  BY DEF Pending, PendingOf, Published, PublishedOf
<1>2. HInv => LateExplained
  BY <1>1 DEF HInv, HistoryInv, LateInv, LateExplained
<1>3. QED
  BY <1>2, HistoryInductive, PTL

\* No received body disappears while the engine is healthy: it is in the handler's
\* hand, retained, published, diverted or the fault's, and nothing else is.
THEOREM BodyConservedHolds == Spec => []BodyConserved
<1>1. ASSUME HInv PROVE BodyConserved
  <2> SUFFICES ASSUME NEW c \in Channels
               PROVE  /\ log[c].received \subseteq
                           InFlight(c) \cup Pending(c) \cup Published(c) \cup Diverted(c)
                             \cup Faulted(c) \cup log[c].lost
                      /\ Pending(c) \cup Published(c) \cup Diverted(c) \subseteq log[c].received
                      /\ log[c].lost # {} => ~healthy
    BY DEF BodyConserved
  <2>1. /\ Pending(c) = PendingOf(state[c]) /\ Published(c) = PublishedOf(log[c])
        /\ Diverted(c) = DivertedOf(log[c]) /\ Faulted(c) = FaultedOf(log[c])
    BY DEF Pending, PendingOf, Published, PublishedOf, Diverted, DivertedOf, Faulted, FaultedOf
  <2>2. Carried(c) \subseteq InFlight(c)
    BY DEF Carried, Carrying, InFlight
  <2>3. BodyInv(state[c], log[c], Carried(c), healthy)
    BY <1>1 DEF HInv, HistoryInv
  <2>4. QED
    BY <2>1, <2>2, <2>3 DEF BodyInv
<1>2. QED
  BY <1>1, HistoryInductive, PTL

\* A frozen channel stays as it is, with the one fault that froze it; only FROM_OPEN
\* freezes.
THEOREM FrozenIsFinalHolds == Spec => FrozenIsFinal
<1> DEFINE A == \A c \in Channels : state[c].frozen =>
                  /\ state'[c] = state[c] /\ log'[c] = log[c]
                  /\ Mode = "FROM_OPEN" /\ Len(log[c].faults) = 1
<1>1. IInv /\ ControlInv /\ HInv /\ [Next]_vars => A
  <2>1. HInv => \A c \in Channels : FaultInv(state[c], log[c])
    BY DEF HInv, HistoryInv
  <2>2. QED
    BY <2>1, NextHistory DEF StepOK, ChannelStepOK, FaultInv
<1>2. Spec => [][A]_vars
  BY <1>1, HistoryInductive, PTL DEF Spec
<1>3. QED
  BY <1>2 DEF FrozenIsFinal

\* A gap is declared over no sequence of which a body was received, unless a body of
\* that sequence was lost with the engine.
THEOREM GapNeverHidesABodyHolds == Spec => GapNeverHidesABody
<1> DEFINE A == \A c \in Channels : Len(log'[c].gaps) > Len(log[c].gaps) =>
                  LET g == log'[c].gaps[Len(log'[c].gaps)]
                  IN  \A t \in log'[c].received :
                        (\A u \in log'[c].lost : u.seq # t.seq) => t.seq \notin g.first..g.last
<1>1. IInv /\ ControlInv /\ HInv /\ [Next]_vars => A
  BY NextHistory DEF StepOK, ChannelStepOK, HideFree
<1>2. Spec => [][A]_vars
  BY <1>1, HistoryInductive, PTL DEF Spec
<1>3. QED
  BY <1>2 DEF GapNeverHidesABody

-----------------------------------------------------------------------------
(***************************************************************************)
(* Gap metadata.  A gap that no dispatched record has carried yet is the   *)
(* channel's pending one.                                                  *)
(***************************************************************************)
Flushing == pc \in {"flush", "done"} \/ (pc = "drain" /\ ret = "flush")

\* A channel past its discovery has an origin, unless Flush found it empty.
StartedInv(s, flushing) == s.discovering \/ s.expected # 0 \/ (s.pending_count = 0 /\ flushing)

DispatchedOf(l) == {i \in 1..Len(l.committed) : l.committed[i].body \in CatalogBodies}
PassedBefore(l, i) ==
  {0} \cup {l.committed[j].seq : j \in {k \in DispatchedOf(l) : k < i}}
Beyond(l, i, p) ==
  {g \in 1..Len(l.gaps) : l.gaps[g].last < l.committed[i].seq /\ l.gaps[g].first > p}

\* Dispatched record i carries the latest gap since p, the dispatched one before it.
Carries(l, i, p) ==
  LET r == l.committed[i]
  IN  \/ Beyond(l, i, p) = {} /\ r.gap_epoch = 0 /\ r.gap_last = 0
      \/ \E b \in Beyond(l, i, p) :
           /\ \A g \in Beyond(l, i, p) : g <= b
           /\ r.gap_first = l.gaps[b].first /\ r.gap_last = l.gaps[b].last
           /\ r.gap_epoch = l.gaps[b].epoch

LastPassed(l, i, p) == p \in PassedBefore(l, i) /\ \A q \in PassedBefore(l, i) : q <= p

\* What the next dispatched record will carry.
PendingGap(s, l, p) ==
  IF s.gap_metadata_pending
    THEN /\ Len(l.gaps) # 0
         /\ LET g == l.gaps[Len(l.gaps)]
            IN  /\ g.first > p /\ g.first = s.pending_gap_first
                /\ g.last = s.pending_gap_last /\ g.epoch = s.gap_epoch
    ELSE \A g \in 1..Len(l.gaps) : l.gaps[g].first <= p

MetaInv(s, l) ==
  /\ \A i \in DispatchedOf(l) : \E p : LastPassed(l, i, p) /\ Carries(l, i, p)
  /\ \E p : LastPassed(l, Len(l.committed) + 1, p) /\ PendingGap(s, l, p)

\* A commit leaves the dispatched records and the one before each of them alone.
LEMMA PassedSame ==
  ASSUME NEW l \in ChannelLog, NEW m \in ChannelLog, NEW e \in CommitRecord,
         m.committed = l.committed \/ m.committed = Append(l.committed, e)
  PROVE  /\ Len(l.committed) \in Nat
         /\ \A i \in 1..Len(l.committed) :
              m.committed[i] = l.committed[i] /\ (i \in DispatchedOf(m) <=> i \in DispatchedOf(l))
         /\ \A i \in 1..(Len(l.committed) + 1) : PassedBefore(m, i) = PassedBefore(l, i)
<1> PICK n \in Nat : n = Len(l.committed)
  BY DEF ChannelLog
<1>1. l.committed \in Seq(CommitRecord)
  BY DEF ChannelLog
<1>2. \A i \in 1..n : m.committed[i] = l.committed[i] /\ i \in 1..Len(m.committed)
  BY <1>1
<1>3. \A i \in 1..n : i \in DispatchedOf(m) <=> i \in DispatchedOf(l)
  BY <1>2 DEF DispatchedOf
<1>4. ASSUME NEW i \in 1..(n + 1) PROVE PassedBefore(m, i) = PassedBefore(l, i)
  <2>1. \A k \in DispatchedOf(m) : k < i => k \in 1..n
    BY DEF DispatchedOf
  <2>2. \A k \in DispatchedOf(l) : k \in 1..n
    BY DEF DispatchedOf
  <2>3. {k \in DispatchedOf(m) : k < i} = {k \in DispatchedOf(l) : k < i}
    BY <1>3, <2>1, <2>2
  <2>4. \A k \in {x \in DispatchedOf(l) : x < i} : m.committed[k] = l.committed[k]
    BY <1>2, <2>2
  <2>5. QED
    BY <2>3, <2>4 DEF PassedBefore
<1>5. QED
  BY <1>2, <1>3, <1>4

\* A gap past a record does not count for it.
LEMMA CarriesSame ==
  ASSUME NEW l \in ChannelLog, NEW m \in ChannelLog, NEW i \in DispatchedOf(l), NEW p,
         m.committed[i] = l.committed[i], NEW g \in GapRecord,
         m.gaps = l.gaps \/ (m.gaps = Append(l.gaps, g) /\ l.committed[i].seq <= g.last),
         Carries(l, i, p)
  PROVE  Carries(m, i, p)
<1> PICK n \in Nat : n = Len(l.gaps)
  BY DEF ChannelLog
<1>1. l.gaps \in Seq(GapRecord) /\ g.last \in Nat
  BY DEF ChannelLog, GapRecord
<1>2. l.committed[i].seq \in Nat
  <2>1. l.committed[i] \in CommitRecord
    BY DEF ChannelLog, DispatchedOf
  <2>2. QED
    BY <2>1 DEF CommitRecord, Seqs
<1>3. \A k \in 1..n : m.gaps[k] = l.gaps[k] /\ k \in 1..Len(m.gaps)
  BY <1>1
<1>4. \A k \in 1..Len(m.gaps) : k \in 1..n \/ ~(m.gaps[k].last < m.committed[i].seq)
  BY <1>1, <1>2
<1>5. Beyond(m, i, p) = Beyond(l, i, p)
  BY <1>3, <1>4 DEF Beyond
<1>6. \A k \in Beyond(l, i, p) : m.gaps[k] = l.gaps[k]
  BY <1>3 DEF Beyond
<1>7. QED
  BY <1>5, <1>6 DEF Carries

\* What a step does to the gap metadata of a channel: nothing,
SameMeta(s, l, r, m) ==
  /\ r.gap_metadata_pending = s.gap_metadata_pending
  /\ r.pending_gap_first = s.pending_gap_first /\ r.pending_gap_last = s.pending_gap_last
  /\ r.gap_epoch = s.gap_epoch /\ m.committed = l.committed /\ m.gaps = l.gaps

\* a commit at the frontier,
CommitMeta(s, l, r, m) ==
  \E t \in Tick :
    /\ t.seq = s.expected /\ m.committed = Append(l.committed, EmittedRecord(s, t))
    /\ r.gap_metadata_pending = (s.gap_metadata_pending /\ t.body \notin CatalogBodies)
    /\ r.pending_gap_first = s.pending_gap_first /\ r.pending_gap_last = s.pending_gap_last
    /\ r.gap_epoch = s.gap_epoch /\ m.gaps = l.gaps

\* or a gap from the frontier on.
GapMeta(s, l, r, m) ==
  \E g \in GapRecord :
    /\ s.expected # 0 /\ g.first = s.expected /\ g.first <= g.last
    /\ m.gaps = Append(l.gaps, g) /\ m.committed = l.committed
    /\ r.gap_metadata_pending = TRUE /\ r.gap_epoch = g.epoch
    /\ r.pending_gap_first = g.first /\ r.pending_gap_last = g.last

\* Nothing changes.
LEMMA SameMetaInv ==
  ASSUME NEW s \in ChannelState, NEW l \in ChannelLog, NEW r \in ChannelState, NEW m \in ChannelLog,
         SameMeta(s, l, r, m), MetaInv(s, l)
  PROVE  MetaInv(r, m)
<1>1. DispatchedOf(m) = DispatchedOf(l) /\ \A i : PassedBefore(m, i) = PassedBefore(l, i)
  BY DEF SameMeta, DispatchedOf, PassedBefore
<1>2. \A i, p : (LastPassed(m, i, p) <=> LastPassed(l, i, p)) /\ Beyond(m, i, p) = Beyond(l, i, p)
  BY <1>1 DEF SameMeta, LastPassed, Beyond
<1>3. \A i, p : Carries(m, i, p) <=> Carries(l, i, p)
  BY <1>2 DEF SameMeta, Carries
<1>4. \A p : PendingGap(r, m, p) <=> PendingGap(s, l, p)
  BY DEF SameMeta, PendingGap
<1>5. QED
  BY <1>1, <1>2, <1>3, <1>4 DEF MetaInv, SameMeta

\* The new gap lies beyond everything dispatched.
LEMMA GapMetaInv ==
  ASSUME NEW s \in ChannelState, NEW l \in ChannelLog, NEW r \in ChannelState, NEW m \in ChannelLog,
         OrderInv(s, l), GapMeta(s, l, r, m), MetaInv(s, l)
  PROVE  MetaInv(r, m)
<1>1. PICK g \in GapRecord :
        /\ s.expected # 0 /\ g.first = s.expected /\ g.first <= g.last
        /\ m.gaps = Append(l.gaps, g) /\ m.committed = l.committed
        /\ r.gap_metadata_pending = TRUE /\ r.gap_epoch = g.epoch
        /\ r.pending_gap_first = g.first /\ r.pending_gap_last = g.last
  BY DEF GapMeta
<1>2. DispatchedOf(m) = DispatchedOf(l) /\ \A i : PassedBefore(m, i) = PassedBefore(l, i)
  BY <1>1 DEF DispatchedOf, PassedBefore
<1>3. \A i, p : LastPassed(m, i, p) <=> LastPassed(l, i, p)
  BY <1>2 DEF LastPassed
<1>4. g.first \in Nat /\ g.last \in Nat /\ s.expected \in Nat
  BY DEF GapRecord, ChannelState
<1>5. \A i \in 1..Len(l.committed) : l.committed[i].seq \in Nat /\ l.committed[i].seq < s.expected
  BY CommittedSeqs DEF OrderInv
<1>6. ASSUME NEW i \in DispatchedOf(m) PROVE \E p : LastPassed(m, i, p) /\ Carries(m, i, p)
  <2>1. i \in DispatchedOf(l) /\ i \in 1..Len(l.committed) /\ m.committed[i] = l.committed[i]
    BY <1>1, <1>2 DEF DispatchedOf
  <2>2. PICK p : LastPassed(l, i, p) /\ Carries(l, i, p)
    BY <2>1 DEF MetaInv
  <2>3. l.committed[i].seq <= g.last
    BY <1>1, <1>4, <1>5, <2>1
  <2>4. Carries(m, i, p)
    BY <1>1, <2>1, <2>2, <2>3, CarriesSame
  <2>5. QED
    BY <1>3, <2>2, <2>4
<1>7. PICK p : LastPassed(l, Len(l.committed) + 1, p) /\ PendingGap(s, l, p)
  BY DEF MetaInv
<1>8. g.first > p
  <2>1. p = 0 \/ \E j \in 1..Len(l.committed) : p = l.committed[j].seq
    BY <1>7 DEF LastPassed, PassedBefore, DispatchedOf
  <2>2. QED
    BY <1>1, <1>4, <1>5, <2>1
<1>9. Len(m.gaps) # 0 /\ m.gaps[Len(m.gaps)] = g
  <2>1. l.gaps \in Seq(GapRecord)
    BY DEF ChannelLog
  <2>2. QED
    BY <1>1, <2>1
<1>10. PendingGap(r, m, p)
  BY <1>1, <1>8, <1>9 DEF PendingGap
<1>11. QED
  BY <1>1, <1>3, <1>6, <1>7, <1>10 DEF MetaInv

\* The dispatched record takes the pending gap with it.
LEMMA CommitMetaInv ==
  ASSUME NEW s \in ChannelState, NEW l \in ChannelLog, NEW r \in ChannelState, NEW m \in ChannelLog,
         OrderInv(s, l), GapsInv(s, l), CommitMeta(s, l, r, m), MetaInv(s, l)
  PROVE  MetaInv(r, m)
<1>1. PICK t \in Tick :
        /\ t.seq = s.expected /\ m.committed = Append(l.committed, EmittedRecord(s, t))
        /\ r.gap_metadata_pending = (s.gap_metadata_pending /\ t.body \notin CatalogBodies)
        /\ r.pending_gap_first = s.pending_gap_first /\ r.pending_gap_last = s.pending_gap_last
        /\ r.gap_epoch = s.gap_epoch /\ m.gaps = l.gaps
  BY DEF CommitMeta
<1>2. PICK e \in CommitRecord : /\ e = EmittedRecord(s, t) /\ m.committed = Append(l.committed, e)
                               /\ e.seq = s.expected /\ e.body = t.body
  BY <1>1, EmittedFacts
<1>3. PICK n \in Nat : n = Len(l.committed)
  BY DEF ChannelLog
<1>4. /\ Len(m.committed) = n + 1 /\ m.committed[n + 1] = e
      /\ \A i \in 1..(n + 1) : i \in 1..n \/ i = n + 1
  <2>1. l.committed \in Seq(CommitRecord)
    BY DEF ChannelLog
  <2>2. QED
    BY <1>2, <1>3, <2>1
<1>5. \A i \in 1..n : m.committed[i] = l.committed[i] /\ (i \in DispatchedOf(m) <=> i \in DispatchedOf(l))
  BY <1>2, <1>3, PassedSame
<1>6. \A i \in 1..(n + 1) : PassedBefore(m, i) = PassedBefore(l, i)
  BY <1>2, <1>3, PassedSame
<1>7. \A i \in 1..(n + 1) : \A p : LastPassed(m, i, p) <=> LastPassed(l, i, p)
  BY <1>6 DEF LastPassed
<1>8. PICK p : LastPassed(l, n + 1, p) /\ PendingGap(s, l, p)
  BY <1>3 DEF MetaInv
<1>9. /\ \A g \in 1..Len(l.gaps) : /\ l.gaps[g].first \in Nat /\ l.gaps[g].last \in Nat
                                   /\ l.gaps[g].first <= l.gaps[g].last /\ l.gaps[g].last < s.expected
      /\ Len(l.gaps) \in Nat /\ s.expected \in Nat /\ s.expected # 0
  <2>1. \A g \in 1..Len(l.gaps) : l.gaps[g] \in GapRecord
    BY DEF ChannelLog
  <2>2. Len(l.gaps) \in Nat
    BY DEF ChannelLog
  <2>3. t.seq \in Seqs
    BY DEF Tick
  <2>4. s.expected \in Nat \ {0}
    BY <1>1, <2>3 DEF Seqs
  <2>5. QED
    BY <2>1, <2>2, <2>4 DEF GapRecord, GapsInv
<1>10. p \in Nat /\ p < s.expected
  <2>1. \A i \in 1..Len(l.committed) : l.committed[i].seq \in Nat /\ l.committed[i].seq < s.expected
    BY CommittedSeqs DEF OrderInv
  <2>2. p = 0 \/ \E j \in 1..Len(l.committed) : p = l.committed[j].seq
    BY <1>8 DEF LastPassed, PassedBefore, DispatchedOf
  <2>3. QED
    BY <1>9, <2>1, <2>2
<1>11. e.body \in CatalogBodies => Carries(m, n + 1, p)
  <2> HAVE e.body \in CatalogBodies
  <2>1. Beyond(m, n + 1, p) = {g \in 1..Len(l.gaps) : l.gaps[g].first > p}
    BY <1>1, <1>2, <1>4, <1>9 DEF Beyond
  <2>2. CASE s.gap_metadata_pending
    <3>1. /\ e.gap_first = s.pending_gap_first /\ e.gap_last = s.pending_gap_last
          /\ e.gap_epoch = s.gap_epoch
      BY <1>2, <2>2 DEF EmittedRecord
    <3>2. Len(l.gaps) # 0 /\ l.gaps[Len(l.gaps)].first > p
          /\ e.gap_first = l.gaps[Len(l.gaps)].first /\ e.gap_last = l.gaps[Len(l.gaps)].last
          /\ e.gap_epoch = l.gaps[Len(l.gaps)].epoch
      BY <1>8, <2>2, <3>1 DEF PendingGap
    <3>3. Len(l.gaps) \in Beyond(m, n + 1, p) /\ \A g \in Beyond(m, n + 1, p) : g <= Len(l.gaps)
      BY <1>9, <2>1, <3>2
    <3>4. QED
      BY <1>1, <1>4, <3>2, <3>3 DEF Carries
  <2>3. CASE ~s.gap_metadata_pending
    <3>1. e.gap_last = 0 /\ e.gap_epoch = 0
      BY <1>2, <2>3 DEF EmittedRecord
    <3>2. \A g \in 1..Len(l.gaps) : l.gaps[g].first <= p
      BY <1>8, <2>3 DEF PendingGap
    <3>3. Beyond(m, n + 1, p) = {}
      BY <1>9, <1>10, <2>1, <3>2
    <3>4. QED
      BY <1>4, <3>1, <3>3 DEF Carries
  <2>4. QED
    BY <2>2, <2>3
<1>12. ASSUME NEW i \in DispatchedOf(m) PROVE \E q : LastPassed(m, i, q) /\ Carries(m, i, q)
  <2>1. i \in 1..(n + 1) /\ m.committed[i].body \in CatalogBodies
    BY <1>4 DEF DispatchedOf
  <2>2. CASE i = n + 1
    BY <1>4, <1>7, <1>8, <1>11, <2>1, <2>2
  <2>3. CASE i \in 1..n
    <3>1. i \in DispatchedOf(l) /\ m.committed[i] = l.committed[i]
      BY <1>5, <2>3
    <3>2. PICK q : LastPassed(l, i, q) /\ Carries(l, i, q)
      BY <3>1 DEF MetaInv
    <3>3. PICK g \in GapRecord : TRUE
      <4>1. [first |-> 0, last |-> 0, epoch |-> 0, cumulative |-> 0] \in GapRecord
        BY DEF GapRecord
      <4>2. QED
        BY <4>1
    <3>4. Carries(m, i, q)
      BY <1>1, <3>1, <3>2, <3>3, CarriesSame
    <3>5. QED
      BY <1>7, <2>1, <3>2, <3>4
  <2>4. QED
    BY <1>4, <2>1, <2>2, <2>3
<1>13. PassedBefore(m, n + 2) =
         PassedBefore(l, n + 1) \cup (IF e.body \in CatalogBodies THEN {e.seq} ELSE {})
  <2>1. {k \in DispatchedOf(m) : k < n + 2} =
          {k \in DispatchedOf(m) : k < n + 1} \cup (IF e.body \in CatalogBodies THEN {n + 1} ELSE {})
    BY <1>4 DEF DispatchedOf
  <2>2. PassedBefore(m, n + 2) =
          PassedBefore(m, n + 1) \cup (IF e.body \in CatalogBodies THEN {m.committed[n + 1].seq} ELSE {})
    BY <2>1 DEF PassedBefore
  <2>3. n + 1 \in 1..(n + 1)
    OBVIOUS
  <2>4. QED
    BY <1>4, <1>6, <2>2, <2>3
<1>14. \E q : LastPassed(m, n + 2, q) /\ PendingGap(r, m, q)
  <2>1. CASE e.body \in CatalogBodies
    <3>1. \A q \in PassedBefore(l, n + 1) : q <= s.expected
      <4>1. \A q \in PassedBefore(l, n + 1) : q <= p /\ q \in Nat
        <5>1. \A i \in 1..Len(l.committed) : l.committed[i].seq \in Nat
          BY CommittedSeqs
        <5>2. \A q \in PassedBefore(l, n + 1) : q \in Nat
          BY <5>1 DEF PassedBefore, DispatchedOf
        <5>3. QED
          BY <1>8, <5>2 DEF LastPassed
      <4>2. QED
        BY <1>9, <1>10, <4>1
    <3>2. LastPassed(m, n + 2, s.expected)
      BY <1>2, <1>9, <1>13, <2>1, <3>1 DEF LastPassed
    <3>3. PendingGap(r, m, s.expected)
      <4>1. ~r.gap_metadata_pending
        BY <1>1, <1>2, <2>1
      <4>2. \A g \in 1..Len(l.gaps) : l.gaps[g].first <= s.expected
        BY <1>9
      <4>3. QED
        BY <1>1, <4>1, <4>2 DEF PendingGap
    <3>4. QED
      BY <3>2, <3>3
  <2>2. CASE e.body \notin CatalogBodies
    <3>1. LastPassed(m, n + 2, p)
      BY <1>8, <1>13, <2>2 DEF LastPassed
    <3>2. r.gap_metadata_pending = s.gap_metadata_pending
      BY <1>1, <1>2, <2>2 DEF ChannelState
    <3>3. PendingGap(r, m, p)
      BY <1>1, <1>8, <3>2 DEF PendingGap
    <3>4. QED
      BY <3>1, <3>3
  <2>3. QED
    BY <2>1, <2>2
<1>15. QED
  BY <1>4, <1>12, <1>14 DEF MetaInv

-----------------------------------------------------------------------------
\* Every step does one of the three to one channel, unless it makes the engine fatal.
MetaKind(s, l, r, m) == SameMeta(s, l, r, m) \/ CommitMeta(s, l, r, m) \/ GapMeta(s, l, r, m)

MInv ==
  /\ \A c \in Channels : StartedInv(state[c], Flushing)
  /\ healthy => \A c \in Channels : MetaInv(state[c], log[c])

\* A step that changes channel c only.
LEMMA MetaStep ==
  ASSUME IInv, HInv, MInv, IInv', NEW c \in Channels, NEW r, NEW m,
         state' = [state EXCEPT ![c] = r], log' = [log EXCEPT ![c] = m],
         healthy' => healthy, Flushing => Flushing',
         StartedInv(r, Flushing'), healthy' => MetaKind(state[c], log[c], r, m)
  PROVE  MInv'
<1>1. state \in [Channels -> ChannelState] /\ log \in [Channels -> ChannelLog]
  BY DEF IInv, TypeOK
<1>2. r \in ChannelState /\ m \in ChannelLog
  <2>1. state' \in [Channels -> ChannelState] /\ log' \in [Channels -> ChannelLog]
    BY DEF IInv, TypeOK
  <2>2. state'[c] = r /\ log'[c] = m
    BY <1>1
  <2>3. QED
    BY <2>1, <2>2
<1>3. ASSUME NEW e \in Channels PROVE StartedInv(state'[e], Flushing')
  BY <1>1 DEF MInv, StartedInv
<1>4. ASSUME NEW e \in Channels, healthy' PROVE MetaInv(state'[e], log'[e])
  <2>1. MetaInv(state[e], log[e]) /\ MetaInv(state[c], log[c])
    BY <1>4 DEF MInv
  <2>2. CASE e # c
    BY <1>1, <2>1, <2>2
  <2>3. CASE e = c
    <3>1. state[c] \in ChannelState /\ log[c] \in ChannelLog /\ OrderInv(state[c], log[c])
      BY CurFacts DEF ChannelInv
    <3>2. GapsInv(state[c], log[c])
      BY DEF HInv, HistoryInv
    <3>3. MetaInv(r, m)
      BY <1>2, <1>4, <2>1, <3>1, <3>2, SameMetaInv, CommitMetaInv, GapMetaInv DEF MetaKind
    <3>4. QED
      BY <1>1, <2>3, <3>3
  <2>4. QED
    BY <2>2, <2>3
<1>5. QED
  BY <1>3, <1>4 DEF MInv

\* Nothing happened to any channel.
LEMMA MetaStill ==
  ASSUME MInv, UNCHANGED <<state, log>>, healthy' => healthy, Flushing => Flushing'
  PROVE  MInv'
BY DEF MInv, StartedInv

\* Time, dropped ticks, duplicates and the bookkeeping of the scans.
LEMMA QuietMeta ==
  ASSUME IInv, MInv, QuietStep
  PROVE  MInv'
<1>1. UNCHANGED <<state, log>> /\ (healthy' = healthy \/ healthy' = (healthy /\ Mode = "PARTIAL"))
  BY DEF QuietStep, AdvanceClock, DecodeFailureWithoutPosition, ProcessFrozen,
         DiscoverDuplicate, AheadDuplicate, AfterMessage, IdlePoll, PollSkip,
         PollDone, BeginFlush, FlushDone, Terminated, InProcess, InDiscovery,
         Ahead, InActive, InPoll, CallPoll, lane, vars, Consume, Goto
<1>2. Flushing => Flushing'
  BY DEF QuietStep, AdvanceClock, DecodeFailureWithoutPosition, ProcessFrozen,
         DiscoverDuplicate, AheadDuplicate, AfterMessage, IdlePoll, PollSkip,
         PollDone, BeginFlush, FlushDone, Terminated, InProcess, InDiscovery,
         Ahead, InActive, InPoll, CallPoll, lane, vars, Consume, Goto, Flushing
<1>3. healthy' => healthy
  BY <1>1
<1>4. QED
  BY <1>1, <1>2, <1>3, MetaStill

\* The fields of a ChannelState that the metadata depends on.
SameGapFields(s, f) ==
  /\ f.expected = s.expected /\ f.gap_metadata_pending = s.gap_metadata_pending
  /\ f.pending_gap_first = s.pending_gap_first /\ f.pending_gap_last = s.pending_gap_last
  /\ f.gap_epoch = s.gap_epoch

\* AdvanceTo declares a gap or changes nothing but the frontier.
LEMMA AdvanceMeta ==
  ASSUME NEW s \in ChannelState, NEW f \in ChannelState, NEW l \in ChannelLog, NEW next \in Nat,
         SameGapFields(s, f), s.expected # 0
  PROVE  MetaKind(s, l, AdvanceTo(f, next), WithGap(l, f, next))
<1> DEFINE g == RecordGap(f, next)
           r == AdvanceTo(f, next)
           m == WithGap(l, f, next)
<1>1. f.expected \in Nat /\ f.gap_epoch \in Nat /\ f.cumulative_missing \in Nat /\ MaxU64 \in Nat
  BY ConstantsAssumption DEF ChannelState
<1>2. CASE next - 1 < f.expected
  <2>1. g = f /\ m = l
    BY <1>2 DEF RecordGap, WithGap
  <2>2. r = [f EXCEPT !.expected = next]
    BY <2>1 DEF AdvanceTo
  <2>3. /\ r.gap_metadata_pending = f.gap_metadata_pending
        /\ r.pending_gap_first = f.pending_gap_first /\ r.pending_gap_last = f.pending_gap_last
        /\ r.gap_epoch = f.gap_epoch
    BY <2>2 DEF ChannelState
  <2>4. SameMeta(s, l, r, m)
    BY <2>1, <2>3 DEF SameMeta, SameGapFields
  <2>5. QED
    BY <2>4 DEF MetaKind
<1>3. CASE ~(next - 1 < f.expected)
  <2>1. next - f.expected \in Nat /\ next - 1 \in Nat /\ f.expected <= next - 1
    BY <1>1, <1>3
  <2>2. /\ g.gap_metadata_pending = TRUE /\ g.pending_gap_first = f.expected
        /\ g.pending_gap_last = next - 1 /\ g.gap_epoch \in Nat /\ g.cumulative_missing \in Nat
        /\ DOMAIN g = DOMAIN f
    BY <1>1, <1>3, <2>1 DEF RecordGap, ChannelState
  <2>3. r = [g EXCEPT !.expected = next]
    BY DEF AdvanceTo
  <2>4. /\ r.gap_metadata_pending = TRUE /\ r.pending_gap_first = f.expected
        /\ r.pending_gap_last = next - 1 /\ r.gap_epoch = g.gap_epoch
    <3> HIDE DEF g, r
    <3>1. QED
      BY <2>2, <2>3 DEF ChannelState
  <2>5. PICK x \in GapRecord :
          x = [first |-> f.expected, last |-> next - 1, epoch |-> g.gap_epoch,
               cumulative |-> g.cumulative_missing]
    BY <1>1, <2>1, <2>2 DEF GapRecord
  <2>6. m.gaps = Append(l.gaps, x) /\ m.committed = l.committed
    BY <1>3, <2>5 DEF WithGap, ChannelLog
  <2>7. x.first = f.expected /\ x.last = next - 1 /\ x.epoch = g.gap_epoch
    BY <2>5
  <2> HIDE DEF g, r, m
  <2>8. GapMeta(s, l, r, m)
    BY <2>1, <2>4, <2>6, <2>7 DEF GapMeta, SameGapFields
  <2>9. QED
    BY <2>8 DEF MetaKind, r, m
<1>4. QED
  BY <1>2, <1>3

\* Ticks arrive: at most the channel is created, frozen or given one more body.
LEMMA ArrivalMeta ==
  ASSUME IInv, HInv, MInv, IInv', NEW c \in Channels, NEW t \in 1..MaxArrivalTime,
         \/ \E tick \in Tick : Process(c, tick, t)
         \/ \E seq \in Seqs : FreezeDecodeFailure(c, seq, t)
  PROVE  MInv'
<1>1. state \in [Channels -> ChannelState] /\ log \in [Channels -> ChannelLog]
  BY DEF IInv, TypeOK
<1>2. (healthy' => healthy) /\ ~Flushing
  <2>1. \/ healthy' = healthy \/ healthy' = FALSE \/ \E ok \in Outcomes : healthy' = (healthy /\ ok)
    BY DEF Process, FreezeDecodeFailure, FreezeFromOpen
  <2>2. pc = "ready"
    BY DEF Process, FreezeDecodeFailure, Consume
  <2>3. healthy' => healthy
    BY <2>1
  <2>4. QED
    BY <2>2, <2>3 DEF Flushing
<1>3. state[c] \in ChannelState /\ log[c] \in ChannelLog /\ StartedInv(state[c], FALSE)
  BY <1>1, <1>2 DEF MInv, StartedInv
<1>4. CASE UNCHANGED <<state, log>>
  BY <1>2, <1>4, MetaStill
<1>5. CASE \E tick \in Tick : UNCHANGED state /\ log' = [log EXCEPT ![c].received = @ \cup {tick}]
  <2> PICK tick \in Tick : UNCHANGED state /\ log' = [log EXCEPT ![c].received = @ \cup {tick}]
    BY <1>5
  <2>1. PICK m : m = [log[c] EXCEPT !.received = log[c].received \cup {tick}]
    OBVIOUS
  <2>2. log' = [log EXCEPT ![c] = m] /\ state' = [state EXCEPT ![c] = state[c]]
    BY <1>1, <2>1
  <2>3. m.committed = log[c].committed /\ m.gaps = log[c].gaps
    BY <1>3, <2>1 DEF ChannelLog
  <2>4. MetaKind(state[c], log[c], state[c], m)
    BY <2>3 DEF MetaKind, SameMeta
  <2>5. StartedInv(state[c], Flushing')
    BY <1>3 DEF StartedInv
  <2>6. QED
    BY <1>2, <2>2, <2>4, <2>5, MetaStep
<1>6. CASE \E seq \in Seqs : FreezeFromOpen(c, "kDecodeFailure", seq)
  <2> PICK seq \in Seqs : FreezeFromOpen(c, "kDecodeFailure", seq)
    BY <1>6
  <2>1. PICK r : r = [state[c] EXCEPT !.frozen = TRUE]
    OBVIOUS
  <2>2. PICK m : m = [log[c] EXCEPT !.faults = Append(log[c].faults,
                       [reason |-> "kDecodeFailure", expected |-> state[c].expected, observed |-> seq])]
    OBVIOUS
  <2>3. log' = [log EXCEPT ![c] = m] /\ state' = [state EXCEPT ![c] = r]
    BY <1>1, <2>1, <2>2 DEF FreezeFromOpen, Update
  <2>4. m.committed = log[c].committed /\ m.gaps = log[c].gaps
    BY <1>3, <2>2 DEF ChannelLog
  <2>5. SameGapFields(state[c], r) /\ r.discovering = state[c].discovering
    BY <1>3, <2>1 DEF ChannelState, SameGapFields
  <2>6. MetaKind(state[c], log[c], r, m)
    BY <2>4, <2>5 DEF MetaKind, SameMeta, SameGapFields
  <2>7. StartedInv(r, Flushing')
    BY <1>3, <2>5 DEF StartedInv, SameGapFields
  <2>8. QED
    BY <1>2, <2>3, <2>6, <2>7, MetaStep
<1>7. QED
  BY <1>4, <1>5, <1>6 DEF Process, FreezeDecodeFailure

\* Sequences start at 1, and so does what MinimumPending returns.
LEMMA MinimumPendingPositive ==
  ASSUME NEW s \in ChannelState
  PROVE  MinimumPending(s) \in Nat /\ MinimumPending(s) # 0
<1>1. MinimumPending(s) \in Nat /\ MinimumPending(s) \in PendingSeqs(s) \cup {MaxU64}
  BY MinimumPendingLeast
<1>2. \A q \in PendingSeqs(s) : q # 0
  BY DEF PendingSeqs, Occupied
<1>3. QED
  BY <1>1, <1>2, ConstantsAssumption

\* A step of a handler.
LEMMA HandlerMeta ==
  ASSUME IInv, HInv, MInv, IInv', InProcess, NEW r, NEW m,
         state' = [state EXCEPT ![cur] = r], log' = [log EXCEPT ![cur] = m],
         healthy' => healthy, r.discovering \/ r.expected # 0,
         healthy' => MetaKind(state[cur], log[cur], r, m)
  PROVE  MInv'
<1>1. ~Flushing /\ cur \in Channels
  BY ProcessFacts DEF Flushing
<1>2. StartedInv(r, Flushing')
  BY DEF StartedInv
<1>3. QED
  BY <1>1, <1>2, MetaStep

\* ForceGapToMinimum on the channel as it is once the tick is retained.
LEMMA ForceMeta ==
  ASSUME IInv, HInv, MInv, IInv', InProcess, NEW f \in ChannelState, NEW label,
         SameGapFields(state[cur], f), ~state[cur].discovering, UNCHANGED healthy,
         ForceGapToMinimum(cur, f, label)
  PROVE  MInv'
<1>1. state[cur] \in ChannelState /\ log[cur] \in ChannelLog /\ cur \in Channels
  BY ProcessFacts
<1>2. state[cur].expected # 0
  BY <1>1, ProcessFacts DEF MInv, StartedInv, Flushing
<1>3. PICK next : next = MinimumPending(f)
  OBVIOUS
<1>4. next \in Nat /\ next # 0
  BY <1>3, MinimumPendingPositive
<1>5. PICK r : r = AdvanceTo(f, next)
  OBVIOUS
<1>6. PICK m : m = WithGap(log[cur], f, next)
  OBVIOUS
<1>7. state' = [state EXCEPT ![cur] = r] /\ log' = [log EXCEPT ![cur] = m]
  BY <1>3, <1>5, <1>6 DEF ForceGapToMinimum, Update
<1>8. MetaKind(state[cur], log[cur], r, m)
  BY <1>1, <1>2, <1>4, <1>5, <1>6, AdvanceMeta
<1>9. r.expected # 0
  BY <1>4, <1>5, AdvanceKeeps
<1>10. QED
  BY <1>7, <1>8, <1>9, HandlerMeta

\* A diverted tick leaves frontier, stream and gaps alone.
LEMMA DivertMeta ==
  ASSUME IInv, HInv, MInv, IInv', InProcess, NEW reason, DivertLateRecovery(reason)
  PROVE  MInv'
<1>1. /\ cur \in Channels /\ pc = "process" /\ state[cur] \in ChannelState /\ log[cur] \in ChannelLog
      /\ state \in [Channels -> ChannelState]
  BY ProcessFacts DEF IInv, TypeOK
<1>2. PICK ok \in Outcomes :
        /\ log' = [log EXCEPT ![cur] =
             IF ok
               THEN [log[cur] EXCEPT !.late = log[cur].late \cup
                      {[seq |-> msg.seq, body |-> msg.body, reason |-> reason,
                        committed_next |-> state[cur].expected,
                        epoch |-> state[cur].gap_epoch]}]
               ELSE [log[cur] EXCEPT !.lost = log[cur].lost \cup {msg}]]
        /\ healthy' = (healthy /\ ok)
  BY DEF DivertLateRecovery
<1>3. PICK m : /\ log' = [log EXCEPT ![cur] = m]
               /\ m.committed = log[cur].committed /\ m.gaps = log[cur].gaps
  <2>1. CASE ok
    <3>1. PICK late : log' = [log EXCEPT ![cur] = [log[cur] EXCEPT !.late = late]]
      BY <1>2, <2>1
    <3>2. PICK m : m = [log[cur] EXCEPT !.late = late]
      OBVIOUS
    <3>3. m.committed = log[cur].committed /\ m.gaps = log[cur].gaps
      BY <1>1, <3>2 DEF ChannelLog
    <3>4. QED
      BY <3>1, <3>2, <3>3
  <2>2. CASE ~ok
    <3>1. PICK m : m = [log[cur] EXCEPT !.lost = log[cur].lost \cup {msg}]
      OBVIOUS
    <3>2. m.committed = log[cur].committed /\ m.gaps = log[cur].gaps
      BY <1>1, <3>1 DEF ChannelLog
    <3>3. log' = [log EXCEPT ![cur] = m]
      BY <1>2, <2>2, <3>1
    <3>4. QED
      BY <3>2, <3>3
  <2>3. QED
    BY <2>1, <2>2
<1>4. state' = [state EXCEPT ![cur] = state[cur]] /\ (healthy' => healthy)
  BY <1>1, <1>2 DEF DivertLateRecovery
<1>5. state[cur].discovering \/ state[cur].expected # 0
  BY <1>1 DEF MInv, StartedInv, Flushing
<1>6. MetaKind(state[cur], log[cur], state[cur], m)
  BY <1>3 DEF MetaKind, SameMeta
<1>7. QED
  BY <1>3, <1>4, <1>5, <1>6, HandlerMeta

\* EmitOne: the record takes the metadata with it, or the engine is fatal.
LEMMA EmitKind ==
  ASSUME IInv, cur \in Channels, NEW f \in ChannelState, NEW t \in Tick, NEW ok \in BOOLEAN,
         t.seq = state[cur].expected, SameGapFields(state[cur], f), Emits(f, t, ok)
  PROVE  \E r, m : /\ state' = [state EXCEPT ![cur] = r] /\ log' = [log EXCEPT ![cur] = m]
                   /\ r.expected # 0 /\ (healthy' => healthy)
                   /\ healthy' => MetaKind(state[cur], log[cur], r, m)
<1> DEFINE s == state[cur]
           l == log[cur]
<1>1. s \in ChannelState /\ l \in ChannelLog /\ s.expected \in Nat /\ s.expected # 0
  <2>1. t.seq \in Nat /\ t.seq # 0
    BY DEF Tick, Seqs
  <2>2. QED
    BY <2>1, CurFacts
<1>2. PICK taken : taken = TakeGapMetadata(f, t.body)
  OBVIOUS
<1>3. PICK r : r = [taken EXCEPT !.expected = s.expected + 1]
  OBVIOUS
<1>4. /\ taken.expected = f.expected
      /\ r.expected = s.expected + 1 /\ r.gap_epoch = f.gap_epoch
      /\ r.pending_gap_first = f.pending_gap_first /\ r.pending_gap_last = f.pending_gap_last
      /\ r.gap_metadata_pending = (f.gap_metadata_pending /\ t.body \notin CatalogBodies)
  BY <1>2, <1>3, TakeKeeps
<1>5. CASE ok
  <2>1. PICK m : m = [l EXCEPT !.committed = Append(l.committed, EmittedRecord(s, t))]
    OBVIOUS
  <2>2. state' = [state EXCEPT ![cur] = r] /\ log' = [log EXCEPT ![cur] = m] /\ healthy' = (healthy /\ ok)
    BY <1>2, <1>3, <1>5, <2>1 DEF Emits
  <2>3. m.committed = Append(l.committed, EmittedRecord(s, t)) /\ m.gaps = l.gaps
    BY <1>1, <2>1 DEF ChannelLog
  <2>4. CommitMeta(s, l, r, m)
    BY <1>4, <2>3 DEF CommitMeta, SameGapFields
  <2>5. r.expected # 0
    BY <1>1, <1>4
  <2>6. healthy' => healthy
    BY <2>2
  <2>7. QED
    BY <2>2, <2>4, <2>5, <2>6 DEF MetaKind
<1>6. CASE ~ok
  <2>1. PICK m : m = [l EXCEPT !.lost = l.lost \cup {t}]
    OBVIOUS
  <2>2. state' = [state EXCEPT ![cur] = taken] /\ log' = [log EXCEPT ![cur] = m] /\ healthy' = FALSE
    BY <1>2, <1>6, <2>1 DEF Emits
  <2>3. taken.expected # 0
    BY <1>1, <1>4 DEF SameGapFields
  <2>4. QED
    BY <2>2, <2>3
<1>7. QED
  BY <1>5, <1>6

\* Every handler of the current tick.
LEMMA ProcessMeta ==
  ASSUME IInv, ControlInv, HInv, MInv, IInv', ProcessStep
  PROVE  MInv'
<1> DEFINE s == state[cur]
           l == log[cur]
<1>1. state \in [Channels -> ChannelState] /\ log \in [Channels -> ChannelLog] /\ cur \in Channels
  BY DEF IInv, TypeOK
<1>2. s \in ChannelState /\ l \in ChannelLog
  BY <1>1
<1>3. CASE ProcessFrozen \/ DiscoverDuplicate \/ AheadDuplicate
  BY <1>3, QuietMeta DEF QuietStep
<1>4. CASE \/ DiscoverConflict \/ LateArrival
           \/ AheadConflict /\ DivertLateRecovery("kPendingCanonicalConflict")
  BY <1>4, DivertMeta DEF DiscoverConflict, LateArrival, AheadConflict, Ahead, InDiscovery, InActive
<1>5. CASE AheadConflict /\ FreezeFromOpen(cur, "kCanonicalConflict", msg.seq)
  <2>1. InProcess /\ ~s.discovering
    BY <1>5 DEF AheadConflict, Ahead, InActive
  <2>2. s.expected # 0
    BY <1>1, <2>1, ProcessFacts DEF MInv, StartedInv, Flushing
  <2>3. PICK r : r = [s EXCEPT !.frozen = TRUE]
    OBVIOUS
  <2>4. PICK m : m = [l EXCEPT !.faults = Append(l.faults,
                       [reason |-> "kCanonicalConflict", expected |-> s.expected, observed |-> msg.seq])]
    OBVIOUS
  <2>5. log' = [log EXCEPT ![cur] = m] /\ state' = [state EXCEPT ![cur] = r]
    BY <1>1, <1>5, <2>3, <2>4 DEF FreezeFromOpen, Update
  <2>6. m.committed = l.committed /\ m.gaps = l.gaps
    BY <1>2, <2>4 DEF ChannelLog
  <2>7. SameGapFields(s, r)
    BY <1>2, <2>3 DEF ChannelState, SameGapFields
  <2>8. MetaKind(s, l, r, m) /\ r.expected # 0
    BY <2>2, <2>6, <2>7 DEF MetaKind, SameMeta, SameGapFields
  <2>9. healthy' => healthy
    <3>1. \E ok \in Outcomes : healthy' = (healthy /\ ok)
      BY <1>5 DEF FreezeFromOpen
    <3>2. QED
      BY <3>1
  <2>10. QED
    BY <2>1, <2>5, <2>8, <2>9, HandlerMeta
<1>6. CASE DiscoverCollision \/ DiscoverInsert
  <2>1. InProcess /\ UNCHANGED healthy /\ s.discovering
    BY <1>6 DEF DiscoverCollision, DiscoverInsert, InDiscovery, lane
  <2>2. /\ HeldTick \in ChannelState /\ SameGapFields(s, HeldTick)
        /\ HeldTick.discovering = s.discovering /\ HeldTick.pending_count = s.pending_count + 1
    BY <2>1, HeldTickKeeps DEF SameGapFields
  <2>3. PICK f \in {s, HeldTick} :
          /\ state' = [state EXCEPT ![cur] = FinishDiscovery(f)] \/ state' = [state EXCEPT ![cur] = f]
          /\ \E o : log' = [log EXCEPT ![cur] = [l EXCEPT !.held = l.held \cup {msg.seq}, !.origin = o]]
          /\ f = s => f.pending_count # 0
    <3>1. CASE DiscoverCollision
      <4>1. s.pending_count # 0
        <5>1. s.pending[SlotOf(msg.seq)].seq # 0
          BY <3>1 DEF DiscoverCollision, InsertResult
        <5>2. msg \in Tick /\ ChannelInv(s, l, FALSE)
          BY <2>1, ProcessFacts
        <5>3. msg.seq \in Nat
          BY <5>2 DEF Tick, Seqs
        <5> HIDE DEF s, l
        <5>4. QED
          BY <1>2, <5>1, <5>2, <5>3, OccupiedCounted
      <4>2. QED
        BY <3>1, <4>1 DEF DiscoverCollision, Update, Held
    <3>2. CASE DiscoverInsert
      <4>1. s.pending_count \in Nat /\ HeldTick.pending_count # 0
        BY <1>2, <2>2 DEF ChannelState
      <4>2. QED
        BY <3>2, <4>1 DEF DiscoverInsert, Update, Held, HeldTick, HoldOver
    <3>3. QED
      BY <1>6, <3>1, <3>2
  <2>4. /\ f \in ChannelState /\ SameGapFields(s, f) /\ f.discovering /\ f.pending_count # 0
    <3>1. s.pending_count \in Nat
      BY <1>2 DEF ChannelState
    <3>2. SameGapFields(s, s)
      BY DEF SameGapFields
    <3>3. CASE f = s
      BY <1>2, <2>1, <2>3, <3>2, <3>3
    <3>4. CASE f = HeldTick
      <4>1. f \in ChannelState /\ SameGapFields(s, f) /\ f.discovering
        BY <2>1, <2>2, <3>4
      <4>2. f.pending_count = s.pending_count + 1
        BY <2>2, <3>4
      <4>3. QED
        BY <3>1, <4>1, <4>2
    <3>5. QED
      BY <2>3, <3>3, <3>4
  <2>5. PICK m : /\ log' = [log EXCEPT ![cur] = m] /\ m.committed = l.committed /\ m.gaps = l.gaps
    <3>1. PICK o : log' = [log EXCEPT ![cur] = [l EXCEPT !.held = l.held \cup {msg.seq}, !.origin = o]]
      BY <2>3
    <3>2. PICK m : m = [l EXCEPT !.held = l.held \cup {msg.seq}, !.origin = o]
      OBVIOUS
    <3>3. m.committed = l.committed /\ m.gaps = l.gaps
      BY <1>2, <3>2 DEF ChannelLog
    <3>4. QED
      BY <3>1, <3>2, <3>3
  <2>6. PICK r : /\ state' = [state EXCEPT ![cur] = r] /\ r.gap_epoch = f.gap_epoch
                 /\ r.gap_metadata_pending = f.gap_metadata_pending
                 /\ r.pending_gap_first = f.pending_gap_first
                 /\ r.pending_gap_last = f.pending_gap_last
                 /\ r.discovering \/ r.expected # 0
    <3>1. MinimumPending(f) # 0
      BY <2>4, MinimumPendingPositive
    <3>2. CASE state' = [state EXCEPT ![cur] = f]
      BY <2>4, <3>2
    <3>3. CASE state' = [state EXCEPT ![cur] = FinishDiscovery(f)]
      BY <2>4, <3>1, <3>3, FinishKeeps
    <3>4. QED
      BY <2>3, <3>2, <3>3
  <2>7. MetaKind(s, l, r, m)
    BY <2>4, <2>5, <2>6 DEF MetaKind, SameMeta, SameGapFields
  <2>8. QED
    BY <2>1, <2>5, <2>6, <2>7, HandlerMeta
<1>7. CASE EmitAtFrontier
  <2>1. InProcess /\ msg.seq = s.expected /\ msg \in Tick
    BY <1>7, ProcessFacts DEF EmitAtFrontier, InActive
  <2>2. PICK ok \in EmitResults(msg.body) : Emits(s, msg, ok)
    BY <1>7 DEF EmitAtFrontier, Update, Emits
  <2>3. ok \in BOOLEAN /\ SameGapFields(s, s)
    BY ConstantsAssumption DEF EmitResults, SameGapFields
  <2>4. PICK r, m : /\ state' = [state EXCEPT ![cur] = r] /\ log' = [log EXCEPT ![cur] = m]
                    /\ r.expected # 0 /\ (healthy' => healthy)
                    /\ healthy' => MetaKind(s, l, r, m)
    BY <1>1, <1>2, <2>1, <2>2, <2>3, EmitKind
  <2>5. QED
    BY <2>1, <2>4, HandlerMeta
<1>8. CASE AheadRetain \/ AheadFar
  <2>1. InProcess /\ UNCHANGED healthy /\ ~s.discovering
    BY <1>8 DEF AheadRetain, AheadFar, Ahead, InActive, lane
  <2>2. s.expected # 0
    BY <1>1, <2>1, ProcessFacts DEF MInv, StartedInv, Flushing
  <2>3. RetainedTick \in ChannelState /\ SameGapFields(s, RetainedTick)
    BY <2>1, RetainedTickKeeps DEF SameGapFields
  <2>4. Insert(s, msg) \in ChannelState /\ SameGapFields(s, Insert(s, msg))
    BY <1>2, <2>1, ProcessFacts, InsertKeeps DEF SameGapFields
  <2>5. \/ ForceGapToMinimum(cur, RetainedTick, "after") \/ ForceGapToMinimum(cur, Insert(s, msg), "after")
        \/ state' = [state EXCEPT ![cur] = RetainedTick] /\ log' = log
    BY <1>8 DEF AheadRetain, AheadFar, RetainedTick, Update
  <2>6. CASE state' = [state EXCEPT ![cur] = RetainedTick] /\ log' = log
    <3>1. log' = [log EXCEPT ![cur] = l]
      BY <1>1, <2>6
    <3>2. MetaKind(s, l, RetainedTick, l) /\ RetainedTick.expected # 0
      BY <2>2, <2>3 DEF MetaKind, SameMeta, SameGapFields
    <3>3. QED
      BY <2>1, <2>6, <3>1, <3>2, HandlerMeta
  <2>7. QED
    BY <2>1, <2>3, <2>4, <2>5, <2>6, ForceMeta
<1>9. CASE AheadCollision
  <2>1. InProcess /\ UNCHANGED healthy /\ ~s.discovering
    BY <1>9 DEF AheadCollision, Ahead, InActive, lane
  <2>2. s.expected # 0
    BY <1>1, <2>1, ProcessFacts DEF MInv, StartedInv, Flushing
  <2>3. SameGapFields(s, s)
    BY DEF SameGapFields
  <2>4. PICK next \in Nat : next = msg.seq /\ next # 0
    BY <2>1, ProcessFacts DEF Tick, Seqs
  <2>5. \/ ForceGapToMinimum(cur, s, "process")
        \/ /\ state' = [state EXCEPT ![cur] = AdvanceTo(s, next)]
           /\ log' = [log EXCEPT ![cur] = WithGap(l, s, next)]
    BY <1>1, <1>9, <2>4 DEF AheadCollision, Update
  <2>6. CASE /\ state' = [state EXCEPT ![cur] = AdvanceTo(s, next)]
             /\ log' = [log EXCEPT ![cur] = WithGap(l, s, next)]
    <3>1. MetaKind(s, l, AdvanceTo(s, next), WithGap(l, s, next))
      BY <1>2, <2>2, <2>3, AdvanceMeta
    <3>2. AdvanceTo(s, next).expected # 0
      BY <1>2, <2>4, AdvanceKeeps
    <3>3. QED
      BY <2>1, <2>6, <3>1, <3>2, HandlerMeta
  <2>7. QED
    BY <1>2, <2>1, <2>3, <2>5, <2>6, ForceMeta
<1>10. QED
  BY <1>3, <1>4, <1>5, <1>6, <1>7, <1>8, <1>9 DEF ProcessStep, AheadConflict

\* DrainContiguous.
LEMMA DrainMeta ==
  ASSUME IInv, ControlInv, HInv, MInv, IInv', DrainEmit \/ DrainDone
  PROVE  MInv'
<1> DEFINE s == state[cur]
           l == log[cur]
<1>1. /\ pc = "drain" /\ ret' = ret /\ pc' \in {"drain", ret}
      /\ cur \in Channels /\ s \in ChannelState /\ l \in ChannelLog
      /\ log \in [Channels -> ChannelLog] /\ ChannelInv(s, l, TRUE) /\ ~s.discovering
  <2>1. pc = "drain" /\ ret' = ret /\ pc' \in {"drain", ret}
    BY DEF DrainEmit, DrainDone, Goto
  <2>2. QED
    BY <2>1, DrainFacts DEF IInv, TypeOK
<1>2. Flushing => Flushing'
  BY <1>1 DEF Flushing
<1>3. CASE DrainEmit
  <2> DEFINE f == FreeFrontierSlot(s)
             t == s.pending[SlotOf(s.expected)]
  <2>1. FrontierPresent(s)
    BY <1>3 DEF DrainEmit
  <2>2. f \in ChannelState /\ t \in Tick /\ t.seq = s.expected
    <3> HIDE DEF s
    <3>1. f \in ChannelState /\ t \in Tick
      BY <1>1, <2>1, FreeInv
    <3>2. QED
      BY <2>1, <3>1 DEF FrontierPresent
  <2>3. SameGapFields(s, f)
    BY <1>1, FreeKeeps DEF SameGapFields
  <2>4. PICK ok \in EmitResults(t.body) : Emits(f, t, ok)
    BY <1>3 DEF DrainEmit, Update, Emits
  <2>5. ok \in BOOLEAN
    BY ConstantsAssumption DEF EmitResults
  <2> HIDE DEF f, t
  <2>6. PICK r, m : /\ state' = [state EXCEPT ![cur] = r] /\ log' = [log EXCEPT ![cur] = m]
                    /\ r.expected # 0 /\ (healthy' => healthy)
                    /\ healthy' => MetaKind(s, l, r, m)
    BY <1>1, <2>2, <2>3, <2>4, <2>5, EmitKind
  <2>7. StartedInv(r, Flushing')
    BY <2>6 DEF StartedInv
  <2>8. QED
    BY <1>1, <1>2, <2>6, <2>7, MetaStep
<1>4. CASE DrainDone
  <2>1. PICK r : r = [s EXCEPT !.gap_open_ns = IF s.pending_count # 0 THEN now ELSE 0]
    OBVIOUS
  <2>2. state' = [state EXCEPT ![cur] = r] /\ log' = [log EXCEPT ![cur] = l] /\ healthy' = healthy
    BY <1>1, <1>4, <2>1 DEF DrainDone, Update
  <2>3. /\ SameGapFields(s, r) /\ r.discovering = s.discovering
        /\ r.pending_count = s.pending_count
    BY <1>1, <2>1 DEF ChannelState, SameGapFields
  <2>4. StartedInv(r, Flushing')
    BY <1>1, <1>2, <2>3 DEF MInv, StartedInv, SameGapFields
  <2>5. MetaKind(s, l, r, l)
    BY <2>3 DEF MetaKind, SameMeta, SameGapFields
  <2>6. QED
    BY <1>1, <1>2, <2>2, <2>4, <2>5, MetaStep
<1>5. QED
  BY <1>3, <1>4

\* Poll and Flush at the channel their index names.
LEMMA ScanMeta ==
  ASSUME IInv, ControlInv, HInv, MInv, IInv', PollDiscovering \/ PollGap \/ FlushStep \/ FlushNext
  PROVE  MInv'
<1> DEFINE c == channels[index]
           s == state[c]
           l == log[c]
           next == MinimumPending(s)
<1>1. /\ state \in [Channels -> ChannelState] /\ log \in [Channels -> ChannelLog]
      /\ c \in Channels /\ s \in ChannelState /\ l \in ChannelLog /\ healthy' = healthy
  <2>1. index <= Len(channels) /\ healthy' = healthy
    BY DEF PollDiscovering, PollGap, FlushStep, FlushNext, InPoll, InFlush, lane
  <2>2. index \in Lanes
    BY <2>1, LaneChannels DEF Lanes
  <2>3. QED
    BY <2>1, <2>2, LaneChannels DEF IInv, TypeOK
<1>2. Flushing => Flushing'
  BY DEF PollDiscovering, PollGap, FlushStep, FlushNext, InPoll, InFlush, StartFromMinimum,
         ForceGapToMinimum, DrainThen, Goto, Flushing
<1>3. StartedInv(s, Flushing)
  BY <1>1 DEF MInv
<1>4. next \in Nat /\ next # 0
  BY <1>1, MinimumPendingPositive
<1>5. CASE UNCHANGED <<state, log>>
  BY <1>1, <1>2, <1>5, MetaStill
<1>6. CASE s.pending_count # 0 /\ \E label : StartFromMinimum(c, s, label)
  <2>1. PICK m : m = [l EXCEPT !.origin = next]
    OBVIOUS
  <2>2. PICK r : r = FinishDiscovery(s)
    OBVIOUS
  <2>3. state' = [state EXCEPT ![c] = r] /\ log' = [log EXCEPT ![c] = m]
    BY <1>1, <1>6, <2>1, <2>2 DEF StartFromMinimum, Update
  <2>4. m.committed = l.committed /\ m.gaps = l.gaps
    BY <1>1, <2>1 DEF ChannelLog
  <2>5. /\ r.gap_metadata_pending = s.gap_metadata_pending /\ r.gap_epoch = s.gap_epoch
        /\ r.pending_gap_first = s.pending_gap_first /\ r.pending_gap_last = s.pending_gap_last
        /\ r.expected = next
    BY <1>1, <1>6, <2>2, FinishKeeps
  <2>6. MetaKind(s, l, r, m) /\ StartedInv(r, Flushing')
    BY <1>4, <2>4, <2>5 DEF MetaKind, SameMeta, StartedInv
  <2>7. QED
    BY <1>1, <1>2, <2>3, <2>6, MetaStep
<1>7. CASE s.pending_count # 0 /\ ~s.discovering /\ \E label : ForceGapToMinimum(c, s, label)
  <2>1. s.expected # 0 /\ SameGapFields(s, s)
    BY <1>3, <1>7 DEF StartedInv, SameGapFields
  <2>2. PICK r : r = AdvanceTo(s, next)
    OBVIOUS
  <2>3. PICK m : m = WithGap(l, s, next)
    OBVIOUS
  <2>4. state' = [state EXCEPT ![c] = r] /\ log' = [log EXCEPT ![c] = m]
    BY <1>1, <1>7, <2>2, <2>3 DEF ForceGapToMinimum, Update
  <2> HIDE DEF next
  <2>5. MetaKind(s, l, r, m) /\ r.expected = next
    BY <1>1, <1>4, <2>1, <2>2, <2>3, AdvanceMeta, AdvanceKeeps
  <2>6. StartedInv(r, Flushing')
    BY <1>4, <2>5 DEF StartedInv
  <2>7. QED
    BY <1>1, <1>2, <2>4, <2>5, <2>6, MetaStep
<1>8. CASE FlushNext
  <2>1. PICK r : r = IF s.frozen THEN s ELSE [s EXCEPT !.discovering = FALSE]
    OBVIOUS
  <2>2. /\ state' = [state EXCEPT ![c] = r] /\ log' = [log EXCEPT ![c] = l]
        /\ s.frozen \/ s.pending_count = 0
    BY <1>1, <1>8, <2>1 DEF FlushNext, Update
  <2>3. Flushing /\ Flushing'
    BY <1>8 DEF FlushNext, InFlush, Goto, Flushing
  <2>4. SameGapFields(s, r) /\ r.pending_count = s.pending_count
    BY <1>1, <2>1 DEF SameGapFields, ChannelState
  <2>5. StartedInv(r, Flushing')
    <3>1. CASE s.frozen
      BY <1>3, <2>1, <2>3, <3>1 DEF StartedInv
    <3>2. CASE s.pending_count = 0
      BY <2>3, <2>4, <3>2 DEF StartedInv
    <3>3. QED
      BY <2>2, <3>1, <3>2
  <2>6. MetaKind(s, l, r, l)
    BY <2>4 DEF MetaKind, SameMeta, SameGapFields
  <2>7. QED
    BY <1>1, <1>2, <2>2, <2>5, <2>6, MetaStep
<1>9. QED
  BY <1>5, <1>6, <1>7, <1>8 DEF PollDiscovering, PollGap, FlushStep

\* Every step keeps it.
LEMMA NextMeta == ASSUME IInv, ControlInv, HInv, MInv, [Next]_vars PROVE MInv'
<1>0. IInv'
  BY NextIInv
<1>1. CASE UNCHANGED vars
  BY <1>1, MetaStill DEF vars, Flushing
<1>2. CASE Arrival
  BY <1>0, <1>2, ArrivalMeta, QuietMeta DEF Arrival, QuietStep
<1>3. CASE CallStep
  BY <1>0, <1>3, QuietMeta, ProcessMeta, DrainMeta, ScanMeta DEF CallStep, QuietStep
<1>4. CASE AdvanceClock \/ IdlePoll \/ BeginFlush \/ Terminated
  BY <1>4, QuietMeta DEF QuietStep
<1>5. QED
  BY <1>1, <1>2, <1>3, <1>4 DEF Next

\* A new channel has dispatched nothing and has no gap.
LEMMA InitMeta == ASSUME Init PROVE MInv
<1>1. StartedInv(NewChannel, Flushing)
  <2>1. NewChannel.discovering = (Mode = "PARTIAL")
    BY DEF NewChannel
  <2>2. NewChannel.expected = IF Mode = "FROM_OPEN" THEN 1 ELSE 0
    BY DEF NewChannel
  <2>3. CASE Mode = "PARTIAL"
    BY <2>1, <2>3 DEF StartedInv
  <2>4. CASE Mode = "FROM_OPEN"
    BY <2>2, <2>4 DEF StartedInv
  <2>5. QED
    BY <2>3, <2>4, ConstantsAssumption
<1>2. MetaInv(NewChannel, EmptyLog)
  <2>1. DispatchedOf(EmptyLog) = {} /\ Len(EmptyLog.committed) = 0 /\ Len(EmptyLog.gaps) = 0
    BY DEF DispatchedOf, EmptyLog
  <2>2. PassedBefore(EmptyLog, 1) = {0}
    BY <2>1 DEF PassedBefore
  <2>3. LastPassed(EmptyLog, 1, 0)
    BY <2>2 DEF LastPassed
  <2>4. PendingGap(NewChannel, EmptyLog, 0)
    BY <2>1 DEF PendingGap, NewChannel
  <2>5. QED
    BY <2>1, <2>3, <2>4 DEF MetaInv
<1>3. QED
  BY <1>1, <1>2 DEF Init, MInv

\* A set whose greatest element is known.
LEMMA MaxIs ==
  ASSUME NEW S \in SUBSET Int, NEW p \in S, \A q \in S : q <= p
  PROVE  Max(S) = p
<1>1. \E x \in S : \A y \in S : x >= y
  OBVIOUS
<1>2. Max(S) \in S /\ \A y \in S : Max(S) >= y
  BY <1>1 DEF Max
<1>3. Max(S) \in Int /\ p \in Int /\ Max(S) >= p /\ Max(S) <= p
  BY <1>2
<1>4. QED
  BY <1>3

\* While the engine is healthy, the first dispatched record behind a gap carries the
\* latest gap before it, and no other record carries one.
THEOREM GapMetadataDeliveredHolds == Spec => []GapMetadataDelivered
<1>1. Init => IInv /\ ControlInv /\ HInv /\ MInv
  BY InitIInv, InitControl, InitHistory, InitMeta
<1>2. IInv /\ ControlInv /\ HInv /\ MInv /\ [Next]_vars => (IInv /\ ControlInv /\ HInv /\ MInv)'
  BY NextIInv, NextControl, NextHistory, NextMeta
<1>3. IInv /\ MInv => GapMetadataDelivered
  <2> SUFFICES ASSUME IInv, MInv, healthy, NEW c \in Channels, NEW i \in Dispatched(c)
               PROVE  LET r == log[c].committed[i]
                          before == GapsBefore(c, i)
                      IN  IF before = {} THEN r.gap_epoch = 0 /\ r.gap_last = 0
                          ELSE LET g == log[c].gaps[Max(before)]
                               IN  /\ r.gap_first = g.first /\ r.gap_last = g.last
                                   /\ r.gap_epoch = g.epoch
    BY DEF GapMetadataDelivered
  <2> PICK l \in ChannelLog : l = log[c]
    BY CurFacts
  <2>1. i \in DispatchedOf(l) /\ Dispatched(c) = DispatchedOf(l)
    BY DEF Dispatched, DispatchedOf
  <2>2. PICK p : LastPassed(l, i, p) /\ Carries(l, i, p)
    BY <2>1 DEF MInv, MetaInv
  <2>3. Max(PassedBefore(l, i)) = p
    <3>1. PassedBefore(l, i) \in SUBSET Int
      BY CommittedSeqs DEF PassedBefore, DispatchedOf
    <3>2. QED
      BY <2>2, <3>1, MaxIs DEF LastPassed
  <2>4. GapsBefore(c, i) = Beyond(l, i, p)
    BY <2>1, <2>3 DEF GapsBefore, Beyond, PassedBefore
  <2>5. CASE Beyond(l, i, p) = {}
    BY <2>2, <2>4, <2>5 DEF Carries
  <2>6. CASE Beyond(l, i, p) # {}
    <3>1. PICK b \in Beyond(l, i, p) :
            /\ \A g \in Beyond(l, i, p) : g <= b
            /\ l.committed[i].gap_first = l.gaps[b].first /\ l.committed[i].gap_last = l.gaps[b].last
            /\ l.committed[i].gap_epoch = l.gaps[b].epoch
      BY <2>2, <2>6 DEF Carries
    <3>2. Beyond(l, i, p) \in SUBSET Int
      BY DEF Beyond
    <3>3. Max(Beyond(l, i, p)) = b
      BY <3>1, <3>2, MaxIs
    <3>4. QED
      BY <2>4, <2>6, <3>1, <3>3
  <2>7. QED
    BY <2>5, <2>6
<1>4. QED
  BY <1>1, <1>2, <1>3, PTL DEF Spec

-----------------------------------------------------------------------------
(***************************************************************************)
(* The timers.  One next_deadline_ns stands for the timers of all channels *)
(* of a lane, is cleared by every scan and rebuilt by it, and is still     *)
(* never later than the deadline of a channel that retains records.        *)
(***************************************************************************)
\* The time handed to a call is never the 0 that stands for a timer not running.
ClockInv == now # 0 /\ clock # 0 /\ last_receive # 0

TimerStart(s) == IF s.discovering THEN s.first_seen_ns ELSE s.gap_open_ns
TimerDelay(s) == IF s.discovering THEN InitialHold ELSE GapWait

\* The timer of a channel runs exactly while it retains records, except that
\* DrainContiguous sets it right only when it ends.
RunningInv(s, draining) ==
  ~s.frozen /\ ~draining => (TimerStart(s) = 0 <=> s.pending_count = 0)

\* The lane's deadline covers the channel's own.
Armed(s, deadline) ==
  ~s.frozen /\ s.pending_count # 0 =>
    deadline # 0 /\ deadline <= Due(TimerStart(s), TimerDelay(s))

\* The channels the lane's deadline must cover: all of them outside a scan, except
\* the one being drained; inside a scan, those it has passed.
Covered(c) ==
  \/ pc \in {"ready", "process", "after"}
  \/ pc = "drain" /\ ret \in {"process", "after"} /\ c # cur
  \/ pc = "poll" /\ \E i \in Lanes : i < index /\ channels[i] = c
  \/ pc = "drain" /\ ret = "poll" /\ \E i \in Lanes : i < index - 1 /\ channels[i] = c

TimerInv ==
  healthy /\ ~Flushing =>
    \A c \in Channels : /\ RunningInv(state[c], Draining(c))
                        /\ Covered(c) => Armed(state[c], next_deadline_ns)

-----------------------------------------------------------------------------
\* The deadline after a call covers whatever it covered before.
Earlier(deadline, later) == later = deadline \/ (later # 0 /\ (deadline # 0 => later <= deadline))

\* ScheduleDeadline covers the timer it is called for, and those covered before.
LEMMA ScheduledCovers ==
  ASSUME NEW deadline \in Nat, NEW start \in Nat, NEW delay \in Nat, start # 0
  PROVE  LET later == Scheduled(deadline, start, delay)
         IN  /\ later \in Nat /\ later # 0 /\ later <= Due(start, delay)
             /\ Earlier(deadline, later)
<1>1. MaxU64 \in Nat /\ MaxU64 # 0
  BY ConstantsAssumption
<1>2. Due(start, delay) \in Nat /\ Due(start, delay) # 0
  BY <1>1 DEF Due
<1>3. Scheduled(deadline, start, delay) =
        IF deadline = 0 \/ Due(start, delay) < deadline THEN Due(start, delay) ELSE deadline
  BY DEF Scheduled, Due
<1> HIDE DEF Due
<1>4. QED
  BY <1>2, <1>3 DEF Earlier

\* What a channel's timer is due at is a number.
LEMMA DueType ==
  ASSUME NEW s \in ChannelState
  PROVE  /\ TimerStart(s) \in Nat /\ TimerDelay(s) \in Nat
         /\ Due(TimerStart(s), TimerDelay(s)) \in Nat
<1>1. TimerStart(s) \in Nat /\ TimerDelay(s) \in Nat
  BY ConstantsAssumption DEF TimerStart, TimerDelay, ChannelState
<1>2. QED
  BY <1>1, ConstantsAssumption DEF Due

\* A channel that is covered stays covered.
LEMMA ArmedEarlier ==
  ASSUME NEW s \in ChannelState, NEW deadline \in Nat, NEW later \in Nat,
         Armed(s, deadline), Earlier(deadline, later)
  PROVE  Armed(s, later)
BY DueType DEF Armed, Earlier

\* A step that changes channel c only: the others keep their timers and their cover.
LEMMA TimerStep ==
  ASSUME IInv, TimerInv, ~Flushing, NEW c \in Channels, NEW r \in ChannelState,
         state' = [state EXCEPT ![c] = r], healthy' => healthy,
         pc = "drain" => cur = c, next_deadline_ns' \in Nat,
         Earlier(next_deadline_ns, next_deadline_ns'),
         \A e \in Channels \ {c} : Covered(e)' => Covered(e),
         healthy' => RunningInv(r, pc' = "drain" /\ cur' = c),
         healthy' /\ Covered(c)' => Armed(r, next_deadline_ns')
  PROVE  TimerInv'
<1>1. state \in [Channels -> ChannelState] /\ next_deadline_ns \in Nat
  BY DEF IInv, TypeOK
<1> SUFFICES ASSUME healthy', NEW e \in Channels
             PROVE  /\ RunningInv(state'[e], Draining(e)')
                    /\ Covered(e)' => Armed(state'[e], next_deadline_ns')
  BY DEF TimerInv
<1>2. CASE e = c
  <2>1. state'[e] = r
    BY <1>1, <1>2
  <2>2. QED
    BY <1>2, <2>1 DEF Draining
<1>3. CASE e # c
  <2>1. state'[e] = state[e] /\ state[e] \in ChannelState /\ ~Draining(e)
    BY <1>1, <1>3 DEF Draining
  <2>2. RunningInv(state[e], Draining(e)) /\ (Covered(e) => Armed(state[e], next_deadline_ns))
    BY DEF TimerInv
  <2>3. RunningInv(state[e], Draining(e)')
    BY <2>1, <2>2 DEF RunningInv
  <2>4. Covered(e)' => Armed(state[e], next_deadline_ns')
    BY <1>1, <1>3, <2>1, <2>2, ArmedEarlier
  <2>5. QED
    BY <2>1, <2>3, <2>4
<1>4. QED
  BY <1>2, <1>3

\* A step that changes no channel and does not drain.
LEMMA TimerStill ==
  ASSUME IInv, TimerInv, ~Flushing, UNCHANGED state, healthy' => healthy,
         pc # "drain", pc' # "drain", next_deadline_ns' = next_deadline_ns,
         \A e \in Channels : Covered(e)' => Covered(e)
  PROVE  TimerInv'
<1>1. \A e \in Channels : Draining(e)' = FALSE /\ Draining(e) = FALSE
  BY DEF Draining
<1>2. QED
  BY <1>1 DEF TimerInv

\* A channel that has not been created yet retains nothing.
LEMMA UnusedArmed ==
  ASSUME CreatedOnce, NEW c \in Channels, NEW deadline
  PROVE  ~Used(c) => Armed(state[c], deadline)
BY DEF CreatedOnce, Armed, NewChannel

\* Every time the lane works with is a time of its clock.
LEMMA NextClock == ASSUME IInv, ClockInv, [Next]_vars PROVE ClockInv'
<1>1. clock \in Nat /\ last_receive \in Nat /\ now \in Nat
  BY DEF IInv, TypeOK
<1>2. CASE \E t \in 1..MaxArrivalTime : Consume(t)
  <2>1. PICK t \in 1..MaxArrivalTime : Consume(t)
    BY <1>2
  <2>2. t # 0
    BY ConstantsAssumption
  <2>3. QED
    BY <2>1, <2>2 DEF Consume, ClockInv
<1>3. CASE AdvanceClock \/ IdlePoll \/ BeginFlush
  BY <1>1, <1>3 DEF AdvanceClock, IdlePoll, BeginFlush, ClockInv, time
<1>4. CASE UNCHANGED <<now, clock, last_receive>>
  BY <1>4 DEF ClockInv
<1>5. Arrival => \E t \in 1..MaxArrivalTime : Consume(t)
  BY DEF Arrival, Process, FreezeDecodeFailure, DecodeFailureWithoutPosition
<1>6. CallStep \/ Terminated \/ UNCHANGED vars => UNCHANGED <<now, clock, last_receive>>
  <2>1. ProcessStep => InProcess
    BY DEF ProcessStep, ProcessFrozen, DiscoverDuplicate, DiscoverConflict, DiscoverCollision,
           DiscoverInsert, LateArrival, EmitAtFrontier, AheadDuplicate, AheadConflict,
           AheadRetain, AheadFar, AheadCollision, InDiscovery, InActive, Ahead
  <2>2. QED
    BY <2>1 DEF CallStep, InProcess, DrainEmit, DrainDone, AfterMessage, PollSkip,
           PollDiscovering, PollGap, PollDone, FlushStep, FlushNext, FlushDone,
           Terminated, InPoll, InFlush, vars, time, regs
<1>7. QED
  BY <1>2, <1>3, <1>4, <1>5, <1>6 DEF Next

-----------------------------------------------------------------------------
\* The steps that change no channel: a scan that starts has nothing to cover yet, one
\* that ends has passed every channel of the lane.
LEMMA QuietTimer == ASSUME IInv, ControlInv, TimerInv, QuietStep PROVE TimerInv'
<1>1. UNCHANGED state /\ pc # "drain" /\ pc' # "drain"
  BY DEF QuietStep, AdvanceClock, DecodeFailureWithoutPosition, ProcessFrozen,
         DiscoverDuplicate, AheadDuplicate, AfterMessage, IdlePoll, PollSkip,
         PollDone, BeginFlush, FlushDone, Terminated, InProcess, InDiscovery,
         Ahead, InActive, Consume, Goto, CallPoll, InPoll, vars
<1>2. CASE Flushing'
  BY <1>2 DEF TimerInv
<1>3. CASE AdvanceClock \/ (\E t \in 1..MaxArrivalTime : DecodeFailureWithoutPosition(t))
           \/ ProcessFrozen \/ DiscoverDuplicate \/ AheadDuplicate
  <2>1. /\ pc \in {"ready", "process"} /\ UNCHANGED <<next_deadline_ns, channels>>
        /\ healthy' = healthy \/ healthy' = (healthy /\ Mode = "PARTIAL")
    BY <1>3 DEF AdvanceClock, DecodeFailureWithoutPosition, ProcessFrozen,
         DiscoverDuplicate, AheadDuplicate, InProcess, InDiscovery,
         Ahead, InActive, Consume, lane
  <2>2. (\A e \in Channels : Covered(e)) /\ ~Flushing
    BY <1>1, <2>1 DEF Covered, Flushing
  <2>3. healthy' => healthy
    BY <2>1
  <2>4. QED
    BY <1>1, <2>1, <2>2, <2>3, TimerStill
<1>4. CASE AfterMessage \/ IdlePoll
  <2>1. /\ pc \in {"ready", "after"} /\ UNCHANGED <<channels, healthy>> /\ index' = 1
        /\ \/ pc' = "ready" /\ UNCHANGED next_deadline_ns
           \/ pc' = "poll"
    BY <1>4 DEF AfterMessage, IdlePoll, CallPoll, Goto
  <2>2. (\A e \in Channels : Covered(e)) /\ ~Flushing
    BY <1>1, <2>1 DEF Covered, Flushing
  <2>3. CASE pc' = "ready" /\ UNCHANGED next_deadline_ns
    BY <1>1, <2>1, <2>2, <2>3, TimerStill
  <2>4. CASE pc' = "poll"
    <3>1. \A e \in Channels : ~Covered(e)'
      <4>1. \A i \in Nat \ {0} : ~(i < 1)
        OBVIOUS
      <4>2. \A i \in Lanes' : i \in Nat \ {0}
        BY <2>1, LaneChannels DEF Lanes
      <4>3. QED
        BY <2>1, <2>4, <4>1, <4>2 DEF Covered
    <3>2. \A e \in Channels : Draining(e)' = FALSE /\ Draining(e) = FALSE
      BY <1>1 DEF Draining
    <3>3. QED
      BY <1>1, <2>1, <2>2, <3>1, <3>2 DEF TimerInv
  <2>5. QED
    BY <2>1, <2>3, <2>4
<1>5. CASE PollSkip
  <2> DEFINE c == channels[index]
             s == state[c]
  <2>1. /\ pc = "poll" /\ pc' = "poll" /\ index <= Len(channels) /\ index' = index + 1
        /\ UNCHANGED <<channels, healthy, next_deadline_ns>>
        /\ s.frozen \/ s.pending_count = 0 \/ (~s.discovering /\ s.gap_open_ns = 0)
    BY <1>5 DEF PollSkip, InPoll, Goto
  <2>2. ~Flushing /\ ~Flushing' /\ index \in Lanes /\ index \in Nat /\ c \in Channels
    BY <2>1, LaneChannels DEF Flushing, Lanes
  <2>3. ASSUME healthy PROVE Armed(s, next_deadline_ns)
    <3>1. RunningInv(s, Draining(c)) /\ ~Draining(c)
      BY <2>1, <2>2, <2>3 DEF TimerInv, Draining
    <3>2. QED
      BY <2>1, <3>1 DEF RunningInv, Armed, TimerStart
  <2>4. ASSUME NEW e \in Channels, Covered(e)' PROVE Covered(e) \/ e = c
    <3>1. PICK i \in Lanes : i < index + 1 /\ channels[i] = e
      BY <2>1, <2>4 DEF Covered, Lanes
    <3>2. i < index \/ i = index
      BY <2>2, <3>1 DEF Lanes
    <3>3. QED
      BY <2>1, <3>1, <3>2 DEF Covered
  <2>5. \A e \in Channels : Draining(e)' = FALSE /\ Draining(e) = FALSE
    BY <1>1 DEF Draining
  <2> HIDE DEF s, c
  <2>6. QED
    BY <1>1, <2>1, <2>2, <2>3, <2>4, <2>5 DEF TimerInv, s
<1>6. CASE PollDone
  <2>1. /\ pc = "poll" /\ pc' = "ready" /\ index > Len(channels)
        /\ UNCHANGED <<channels, healthy, next_deadline_ns>>
    BY <1>6 DEF PollDone, Goto, lane
  <2>2. ASSUME NEW e \in Channels PROVE Covered(e) \/ Armed(state[e], next_deadline_ns)
    <3>1. CASE Used(e)
      <4>1. PICK i \in Lanes : channels[i] = e
        BY <3>1 DEF Used, Lanes
      <4>2. i < index
        BY <2>1, LaneChannels DEF Lanes
      <4>3. QED
        BY <2>1, <4>1, <4>2 DEF Covered
    <3>2. QED
      BY <3>1, UnusedArmed DEF ControlInv
  <2>3. \A e \in Channels : Draining(e)' = FALSE /\ Draining(e) = FALSE
    BY <1>1 DEF Draining
  <2>4. ~Flushing
    BY <2>1 DEF Flushing
  <2>5. QED
    BY <1>1, <2>1, <2>2, <2>3, <2>4 DEF TimerInv
<1>7. CASE BeginFlush \/ FlushDone \/ Terminated
  <2>1. pc' \in {"flush", "done"}
    BY <1>7 DEF BeginFlush, FlushDone, Terminated, Goto, vars
  <2>2. QED
    BY <1>2, <2>1 DEF Flushing
<1>8. QED
  BY <1>3, <1>4, <1>5, <1>6, <1>7 DEF QuietStep

\* A tick or a decode failure is taken from the ring.
LEMMA ArrivalTimer ==
  ASSUME IInv, ControlInv, TimerInv, NEW c \in Channels, NEW t \in 1..MaxArrivalTime,
         \/ \E tick \in Tick : Process(c, tick, t)
         \/ \E seq \in Seqs : FreezeDecodeFailure(c, seq, t)
  PROVE  TimerInv'
<1>1. /\ pc = "ready" /\ pc' \in {"process", "after"} /\ next_deadline_ns' = next_deadline_ns
      /\ healthy' => healthy
  BY DEF Process, FreezeDecodeFailure, FreezeFromOpen, Consume, Goto
<1>2. (\A e \in Channels : Covered(e)) /\ ~Flushing
  BY <1>1 DEF Covered, Flushing
<1>3. CASE UNCHANGED state
  BY <1>1, <1>2, <1>3, TimerStill
<1>4. CASE state' = [state EXCEPT ![c] = [state[c] EXCEPT !.frozen = TRUE]]
  <2> DEFINE r == [state[c] EXCEPT !.frozen = TRUE]
  <2>1. state[c] \in ChannelState /\ next_deadline_ns \in Nat
    BY DEF IInv, TypeOK
  <2>2. r \in ChannelState /\ r.frozen
    BY <2>1 DEF ChannelState
  <2> HIDE DEF r
  <2>3. RunningInv(r, pc' = "drain" /\ cur' = c) /\ Armed(r, next_deadline_ns')
    BY <2>2 DEF RunningInv, Armed
  <2>4. Earlier(next_deadline_ns, next_deadline_ns') /\ next_deadline_ns' \in Nat
    BY <1>1, <2>1 DEF Earlier
  <2>5. QED
    BY <1>1, <1>2, <1>4, <2>2, <2>3, <2>4, TimerStep DEF r
<1>5. QED
  BY <1>3, <1>4 DEF Process, FreezeDecodeFailure, FreezeFromOpen, Update

\* A handler of the current tick.
LEMMA HandlerTimer ==
  ASSUME IInv, TimerInv, InProcess, NEW r \in ChannelState,
         state' = [state EXCEPT ![cur] = r], healthy' => healthy,
         next_deadline_ns' \in Nat, Earlier(next_deadline_ns, next_deadline_ns'),
         \/ /\ pc' \in {"process", "after"}
            /\ healthy' => RunningInv(r, FALSE) /\ Armed(r, next_deadline_ns')
         \/ pc' = "drain" /\ ret' \in {"process", "after"}
  PROVE  TimerInv'
<1>1. cur \in Channels /\ pc = "process" /\ cur' = cur
  BY ProcessFacts
<1>2. (\A e \in Channels : Covered(e)) /\ ~Flushing
  BY <1>1 DEF Covered, Flushing
<1>3. healthy' => RunningInv(r, pc' = "drain" /\ cur' = cur)
  <2>1. CASE pc' = "drain"
    BY <1>1, <2>1 DEF RunningInv
  <2>2. CASE pc' # "drain"
    <3>1. (pc' = "drain" /\ cur' = cur) = FALSE
      BY <2>2
    <3>2. QED
      BY <2>2, <3>1
  <2>3. QED
    BY <2>1, <2>2
<1>4. healthy' /\ Covered(cur)' => Armed(r, next_deadline_ns')
  BY <1>1 DEF Covered
<1>5. QED
  BY <1>1, <1>2, <1>3, <1>4, TimerStep

\* What the timers say of the current channel inside a handler.
LEMMA HandlerCovered ==
  ASSUME IInv, TimerInv, InProcess, healthy
  PROVE  RunningInv(state[cur], FALSE) /\ Armed(state[cur], next_deadline_ns)
<1>1. cur \in Channels /\ pc = "process"
  BY ProcessFacts
<1>2. Covered(cur) /\ ~Flushing /\ Draining(cur) = FALSE
  BY <1>1 DEF Covered, Flushing, Draining
<1>3. QED
  BY <1>1, <1>2 DEF TimerInv

\* A handler that leaves the table and the timers of its channel, or freezes it.
LEMMA KeepTimer ==
  ASSUME IInv, TimerInv, InProcess, NEW r \in ChannelState,
         state' = [state EXCEPT ![cur] = r], healthy' => healthy,
         UNCHANGED next_deadline_ns, pc' \in {"process", "after"},
         \/ r.frozen
         \/ /\ r.frozen = state[cur].frozen /\ r.discovering = state[cur].discovering
            /\ r.pending_count = state[cur].pending_count
            /\ r.first_seen_ns = state[cur].first_seen_ns /\ r.gap_open_ns = state[cur].gap_open_ns
  PROVE  TimerInv'
<1>1. next_deadline_ns' \in Nat /\ Earlier(next_deadline_ns, next_deadline_ns')
  BY ProcessFacts DEF Earlier
<1>2. ASSUME healthy' PROVE RunningInv(r, FALSE) /\ Armed(r, next_deadline_ns')
  <2>1. RunningInv(state[cur], FALSE) /\ Armed(state[cur], next_deadline_ns)
    BY <1>2, HandlerCovered
  <2>2. CASE r.frozen
    BY <2>2 DEF RunningInv, Armed
  <2>3. CASE ~r.frozen
    <3>1. TimerStart(r) = TimerStart(state[cur]) /\ TimerDelay(r) = TimerDelay(state[cur])
      BY <2>3 DEF TimerStart, TimerDelay
    <3>2. QED
      BY <2>1, <2>3, <3>1 DEF RunningInv, Armed
  <2>4. QED
    BY <2>2, <2>3
<1>3. QED
  BY <1>1, <1>2, HandlerTimer

\* AdvanceTo yields a channel state.
LEMMA AdvanceType ==
  ASSUME NEW s \in ChannelState, NEW next \in Nat
  PROVE  AdvanceTo(s, next) \in ChannelState
<1>1. s.expected \in Nat /\ s.gap_epoch \in Nat /\ s.cumulative_missing \in Nat /\ MaxU64 \in Nat
  BY ConstantsAssumption DEF ChannelState
<1>2. CASE next - 1 < s.expected
  BY <1>2 DEF AdvanceTo, RecordGap, ChannelState
<1>3. CASE ~(next - 1 < s.expected)
  <2> DEFINE e == IF s.gap_epoch = MaxU64 THEN MaxU64 ELSE s.gap_epoch + 1
             m == IF MaxU64 - s.cumulative_missing < next - s.expected
                    THEN MaxU64 ELSE s.cumulative_missing + (next - s.expected)
             g == [s EXCEPT !.history_complete = FALSE, !.gap_epoch = e,
                            !.cumulative_missing = m, !.pending_gap_first = s.expected,
                            !.pending_gap_last = next - 1, !.gap_metadata_pending = TRUE]
  <2>1. e \in Nat /\ m \in Nat /\ next - 1 \in Nat
    BY <1>1, <1>3
  <2>2. AdvanceTo(s, next) = [g EXCEPT !.expected = next]
    BY <1>3 DEF AdvanceTo, RecordGap
  <2> HIDE DEF e, m
  <2>3. g \in ChannelState
    BY <1>1, <2>1 DEF ChannelState
  <2> HIDE DEF g
  <2>4. QED
    BY <2>2, <2>3 DEF ChannelState
<1>4. QED
  BY <1>2, <1>3

\* The handlers of the current tick.
LEMMA ProcessTimer ==
  ASSUME IInv, ControlInv, ClockInv, TimerInv, ProcessStep
  PROVE  TimerInv'
<1>1. /\ state \in [Channels -> ChannelState] /\ cur \in Channels /\ next_deadline_ns \in Nat
      /\ now \in Nat /\ now # 0 /\ InitialHold \in Nat /\ GapWait \in Nat
      /\ state[cur] \in ChannelState
  BY ConstantsAssumption DEF IInv, TypeOK, ClockInv
<1>2. CASE ProcessFrozen \/ DiscoverDuplicate \/ AheadDuplicate
  BY <1>2, QuietTimer DEF QuietStep
<1>3. CASE DiscoverConflict \/ LateArrival
           \/ (AheadConflict /\ DivertLateRecovery("kPendingCanonicalConflict"))
  <2>1. /\ InProcess /\ UNCHANGED <<next_deadline_ns, state>> /\ pc' = "after"
        /\ healthy' => healthy
    BY <1>3 DEF DiscoverConflict, LateArrival, AheadConflict, Ahead, InDiscovery, InActive,
                DivertLateRecovery, Goto
  <2>2. state' = [state EXCEPT ![cur] = state[cur]]
    BY <1>1, <2>1
  <2>3. QED
    BY <1>1, <2>1, <2>2, KeepTimer
<1>4. CASE AheadConflict /\ FreezeFromOpen(cur, "kCanonicalConflict", msg.seq) /\ Goto("after")
           /\ UNCHANGED next_deadline_ns
  <2> DEFINE r == [state[cur] EXCEPT !.frozen = TRUE]
  <2>1. /\ InProcess /\ pc' = "after" /\ state' = [state EXCEPT ![cur] = r]
        /\ healthy' => healthy
    BY <1>4 DEF AheadConflict, Ahead, InActive, Goto, FreezeFromOpen, Update
  <2>2. r \in ChannelState /\ r.frozen
    BY <1>1 DEF ChannelState
  <2> HIDE DEF r
  <2>3. QED
    BY <1>4, <2>1, <2>2, KeepTimer
<1>5. ASSUME NEW r \in ChannelState, InProcess, state' = [state EXCEPT ![cur] = r],
             pc' = "drain", ret' \in {"process", "after"}, healthy' => healthy,
             \/ UNCHANGED next_deadline_ns
             \/ next_deadline_ns' = Scheduled(next_deadline_ns, now, InitialHold)
             \/ next_deadline_ns' = Scheduled(next_deadline_ns, now, GapWait)
      PROVE  TimerInv'
  <2>1. next_deadline_ns' \in Nat /\ Earlier(next_deadline_ns, next_deadline_ns')
    <3>1. CASE UNCHANGED next_deadline_ns
      BY <1>1, <3>1 DEF Earlier
    <3>2. QED
      BY <1>1, <1>5, <3>1, ScheduledCovers
  <2>2. QED
    BY <1>5, <2>1, HandlerTimer
<1>6. CASE DiscoverCollision
  <2>1. /\ InProcess /\ pc' = "drain" /\ ret' = "process" /\ healthy' = healthy
        /\ UNCHANGED next_deadline_ns
        /\ state' = [state EXCEPT ![cur] = FinishDiscovery(state[cur])]
    BY <1>6 DEF DiscoverCollision, InDiscovery, DrainThen, Update, lane
  <2>2. FinishDiscovery(state[cur]) \in ChannelState
    BY <1>1, MinimumPendingLeast DEF FinishDiscovery, ChannelState
  <2>3. QED
    BY <1>5, <2>1, <2>2
<1>7. CASE DiscoverInsert
  <2> DEFINE s == state[cur]
             r == HeldTick
  <2>1. /\ InProcess /\ s.discovering /\ healthy' = healthy
        /\ state' = [state EXCEPT ![cur] = IF HoldOver THEN FinishDiscovery(r) ELSE r]
        /\ IF HoldOver THEN pc' = "drain" /\ ret' = "after" ELSE pc' = "after"
        /\ next_deadline_ns' = IF s.first_seen_ns = 0 /\ InitialHold # 0
                                 THEN Scheduled(next_deadline_ns, now, InitialHold)
                                 ELSE next_deadline_ns
    BY <1>7 DEF DiscoverInsert, InDiscovery, DrainThen, Goto, Update, HeldTick, HoldOver
  <2>2. /\ r \in ChannelState /\ r.frozen = s.frozen /\ r.discovering = s.discovering
        /\ r.pending_count = s.pending_count + 1
        /\ r.first_seen_ns = (IF s.first_seen_ns = 0 THEN now ELSE s.first_seen_ns)
    BY <2>1, HeldTickKeeps
  <2>3. CASE HoldOver
    <3>1. FinishDiscovery(r) \in ChannelState
      BY <2>2, MinimumPendingLeast DEF FinishDiscovery, ChannelState
    <3>2. QED
      BY <1>5, <2>1, <2>3, <3>1
  <2>4. CASE ~HoldOver
    <3>1. InitialHold # 0 /\ s.pending_count \in Nat /\ s.first_seen_ns \in Nat
      BY <1>1, <2>4 DEF HoldOver, ChannelState
    <3>2. /\ TimerStart(r) = r.first_seen_ns /\ TimerDelay(r) = InitialHold
          /\ TimerStart(s) = s.first_seen_ns /\ TimerDelay(s) = InitialHold
      BY <2>1, <2>2 DEF TimerStart, TimerDelay
    <3>3. RunningInv(r, FALSE)
      BY <1>1, <2>2, <3>1, <3>2 DEF RunningInv
    <3>4. /\ next_deadline_ns' \in Nat /\ Earlier(next_deadline_ns, next_deadline_ns')
          /\ healthy' => Armed(r, next_deadline_ns')
      <4>1. CASE s.first_seen_ns = 0
        <5>1. /\ next_deadline_ns' = Scheduled(next_deadline_ns, now, InitialHold)
              /\ TimerStart(r) = now
          BY <2>1, <2>2, <3>1, <3>2, <4>1
        <5>2. QED
          BY <1>1, <3>2, <5>1, ScheduledCovers DEF Armed
      <4>2. CASE s.first_seen_ns # 0
        <5>1. next_deadline_ns' = next_deadline_ns /\ TimerStart(r) = TimerStart(s)
          BY <2>1, <2>2, <3>2, <4>2
        <5>2. ASSUME healthy' PROVE Armed(r, next_deadline_ns')
          <6>1. RunningInv(s, FALSE) /\ Armed(s, next_deadline_ns)
            BY <2>1, <5>2, HandlerCovered
          <6>2. ~s.frozen => s.pending_count # 0
            BY <3>2, <4>2, <6>1 DEF RunningInv
          <6>3. QED
            BY <2>2, <3>2, <5>1, <6>1, <6>2 DEF Armed
        <5>3. QED
          BY <1>1, <5>1, <5>2 DEF Earlier
      <4>3. QED
        BY <4>1, <4>2
    <3>5. state' = [state EXCEPT ![cur] = r] /\ pc' = "after"
      BY <2>1, <2>4
    <3> HIDE DEF r
    <3>6. QED
      BY <2>1, <2>2, <3>3, <3>4, <3>5, HandlerTimer
  <2>5. QED
    BY <2>3, <2>4
<1>8. CASE EmitAtFrontier
  <2> DEFINE u == TakeGapMetadata(state[cur], msg.body)
             r == [u EXCEPT !.expected = state[cur].expected + 1]
  <2>1. /\ InProcess /\ UNCHANGED next_deadline_ns
        /\ \/ state' = [state EXCEPT ![cur] = r] /\ pc' = "drain" /\ ret' = "after" /\ (healthy' => healthy)
           \/ healthy' = FALSE
    BY <1>8 DEF EmitAtFrontier, InActive, DrainThen, Goto, Update
  <2>2. r \in ChannelState
    <3>1. u \in ChannelState
      BY <1>1 DEF TakeGapMetadata, ChannelState
    <3>2. state[cur].expected + 1 \in Nat
      BY <1>1 DEF ChannelState
    <3> HIDE DEF u
    <3>3. QED
      BY <3>1, <3>2 DEF ChannelState
  <2> HIDE DEF r
  <2>3. CASE healthy' = FALSE
    BY <2>3 DEF TimerInv
  <2>4. QED
    BY <1>5, <2>1, <2>2, <2>3
<1>9. ASSUME InProcess, healthy' = healthy, NEW r \in ChannelState, NEW label \in {"process", "after"},
             ForceGapToMinimum(cur, r, label),
             \/ UNCHANGED next_deadline_ns
             \/ next_deadline_ns' = Scheduled(next_deadline_ns, now, GapWait)
      PROVE  TimerInv'
  <2> DEFINE q == AdvanceTo(r, MinimumPending(r))
  <2>1. state' = [state EXCEPT ![cur] = q] /\ pc' = "drain" /\ ret' = label
    BY <1>9 DEF ForceGapToMinimum, Update, DrainThen
  <2>2. q \in ChannelState
    BY <1>9, MinimumPendingLeast, AdvanceType
  <2> HIDE DEF q
  <2>3. QED
    BY <1>5, <1>9, <2>1, <2>2
<1>10. CASE AheadRetain
  <2> DEFINE s == state[cur]
             r == RetainedTick
  <2>1. /\ InProcess /\ ~s.discovering /\ healthy' = healthy
        /\ \/ ForceGapToMinimum(cur, r, "after")
           \/ state' = [state EXCEPT ![cur] = r] /\ pc' = "after"
        /\ next_deadline_ns' = IF s.gap_open_ns = 0
                                 THEN Scheduled(next_deadline_ns, now, GapWait)
                                 ELSE next_deadline_ns
    BY <1>10 DEF AheadRetain, Ahead, InActive, Goto, Update, RetainedTick
  <2>2. /\ r \in ChannelState /\ r.frozen = s.frozen /\ r.discovering = s.discovering
        /\ r.pending_count = s.pending_count + 1
        /\ r.gap_open_ns = (IF s.gap_open_ns = 0 THEN now ELSE s.gap_open_ns)
    BY <2>1, RetainedTickKeeps
  <2>3. CASE ForceGapToMinimum(cur, r, "after")
    BY <1>9, <2>1, <2>2, <2>3
  <2>4. CASE state' = [state EXCEPT ![cur] = r] /\ pc' = "after"
    <3>1. s.pending_count \in Nat /\ s.gap_open_ns \in Nat
      BY <1>1 DEF ChannelState
    <3>2. /\ TimerStart(r) = r.gap_open_ns /\ TimerDelay(r) = GapWait
          /\ TimerStart(s) = s.gap_open_ns /\ TimerDelay(s) = GapWait
      BY <2>1, <2>2 DEF TimerStart, TimerDelay
    <3>3. RunningInv(r, FALSE)
      BY <1>1, <2>2, <3>1, <3>2 DEF RunningInv
    <3>4. /\ next_deadline_ns' \in Nat /\ Earlier(next_deadline_ns, next_deadline_ns')
          /\ healthy' => Armed(r, next_deadline_ns')
      <4>1. CASE s.gap_open_ns = 0
        <5>1. /\ next_deadline_ns' = Scheduled(next_deadline_ns, now, GapWait)
              /\ TimerStart(r) = now
          BY <2>1, <2>2, <3>2, <4>1
        <5>2. QED
          BY <1>1, <3>2, <5>1, ScheduledCovers DEF Armed
      <4>2. CASE s.gap_open_ns # 0
        <5>1. next_deadline_ns' = next_deadline_ns /\ TimerStart(r) = TimerStart(s)
          BY <2>1, <2>2, <3>2, <4>2
        <5>2. ASSUME healthy' PROVE Armed(r, next_deadline_ns')
          <6>1. RunningInv(s, FALSE) /\ Armed(s, next_deadline_ns)
            BY <2>1, <5>2, HandlerCovered
          <6>2. ~s.frozen => s.pending_count # 0
            BY <3>2, <4>2, <6>1 DEF RunningInv
          <6>3. QED
            BY <2>2, <3>2, <5>1, <6>1, <6>2 DEF Armed
        <5>3. QED
          BY <1>1, <5>1, <5>2 DEF Earlier
      <4>3. QED
        BY <4>1, <4>2
    <3> HIDE DEF r
    <3>5. QED
      BY <2>1, <2>2, <2>4, <3>3, <3>4, HandlerTimer
  <2>5. QED
    BY <2>1, <2>3, <2>4
<1>11. CASE AheadFar
  <2>1. /\ InProcess /\ healthy' = healthy /\ UNCHANGED next_deadline_ns
        /\ ForceGapToMinimum(cur, Insert(state[cur], msg), "after")
    BY <1>11 DEF AheadFar, Ahead, InActive, lane
  <2>2. Insert(state[cur], msg) \in ChannelState
    BY <1>1, <2>1, ProcessFacts, InsertKeeps
  <2>3. QED
    BY <1>9, <2>1, <2>2
<1>12. CASE AheadCollision
  <2> DEFINE r == AdvanceTo(state[cur], msg.seq)
  <2>1. /\ InProcess /\ healthy' = healthy /\ UNCHANGED next_deadline_ns
        /\ \/ ForceGapToMinimum(cur, state[cur], "process")
           \/ state' = [state EXCEPT ![cur] = r] /\ pc' = "process"
    BY <1>12 DEF AheadCollision, Ahead, InActive, Goto, Update, lane
  <2>2. msg.seq \in Nat
    <3>1. msg.seq \in Seqs
      BY <2>1, ProcessFacts DEF Tick
    <3>2. QED
      BY <3>1 DEF Seqs
  <2>3. /\ r \in ChannelState /\ r.frozen = state[cur].frozen /\ r.discovering = state[cur].discovering
        /\ r.pending_count = state[cur].pending_count
        /\ r.first_seen_ns = state[cur].first_seen_ns /\ r.gap_open_ns = state[cur].gap_open_ns
    BY <1>1, <2>2, AdvanceKeeps, AdvanceType
  <2> HIDE DEF r
  <2>4. CASE state' = [state EXCEPT ![cur] = r] /\ pc' = "process"
    BY <2>1, <2>3, <2>4, KeepTimer
  <2>5. QED
    BY <1>1, <1>9, <2>1, <2>4
<1>13. QED
  BY <1>2, <1>3, <1>4, <1>6, <1>7, <1>8, <1>10, <1>11, <1>12 DEF ProcessStep, AheadConflict

\* The channel being drained need not be covered, also inside a scan.
LEMMA DrainedUncovered ==
  ASSUME IInv, ControlInv, pc = "drain", ret # "flush"
  PROVE  ~Covered(cur)
<1>1. CASE ret # "poll"
  BY <1>1 DEF Covered
<1>2. CASE ret = "poll"
  <2>1. index - 1 \in Lanes /\ cur = channels[index - 1]
    BY <1>2 DEF ControlInv, CallInv
  <2>2. \A i \in Lanes : i < index - 1 => channels[i] # cur
    BY <2>1, LaneChannels DEF ControlInv, CreatedOnce, Lanes
  <2>3. QED
    BY <1>2, <2>2 DEF Covered
<1>3. QED
  BY <1>1, <1>2

\* DrainContiguous: the channel is covered again when it ends, with the gap timer
\* started at the time of the call if records are left.
LEMMA DrainTimer ==
  ASSUME IInv, ControlInv, ClockInv, TimerInv, DrainEmit \/ DrainDone
  PROVE  TimerInv'
<1> DEFINE s == state[cur]
<1>1. /\ pc = "drain" /\ UNCHANGED <<channels, cur, index, ret>>
      /\ ret \in {"process", "after", "poll", "flush"}
  BY DEF DrainEmit, DrainDone, Goto, regs, ControlInv, CallInv
<1>2. /\ cur \in Channels /\ s \in ChannelState /\ ~s.discovering
      /\ now \in Nat /\ now # 0 /\ next_deadline_ns \in Nat /\ GapWait \in Nat
  BY <1>1, DrainFacts, ConstantsAssumption DEF ClockInv
<1>3. CASE ret = "flush"
  <2>1. pc' \in {"drain", "flush"}
    BY <1>3 DEF DrainEmit, DrainDone, Goto
  <2>2. QED
    BY <1>1, <1>3, <2>1 DEF TimerInv, Flushing
<1>4. CASE ret # "flush" /\ DrainEmit
  <2> DEFINE t == s.pending[SlotOf(s.expected)]
             f == FreeFrontierSlot(s)
             u == TakeGapMetadata(f, t.body)
             r == [u EXCEPT !.expected = s.expected + 1]
  <2>1. /\ FrontierPresent(s) /\ UNCHANGED next_deadline_ns
        /\ \/ state' = [state EXCEPT ![cur] = r] /\ pc' = "drain" /\ (healthy' => healthy)
           \/ healthy' = FALSE
    BY <1>4 DEF DrainEmit, Update, Goto
  <2>2. r \in ChannelState
    <3>1. f \in ChannelState
      <4> HIDE DEF s
      <4>1. ChannelInv(s, log[cur], TRUE) /\ log[cur] \in ChannelLog
        BY <1>1, DrainFacts DEF s
      <4>2. QED
        BY <1>2, <2>1, <4>1, FreeInv
    <3>2. s.expected + 1 \in Nat
      BY <1>2 DEF ChannelState
    <3> HIDE DEF f
    <3>3. u \in ChannelState
      BY <3>1 DEF TakeGapMetadata, ChannelState
    <3> HIDE DEF u
    <3>4. QED
      BY <3>2, <3>3 DEF ChannelState
  <2> HIDE DEF r
  <2>3. CASE healthy' = FALSE
    BY <2>3 DEF TimerInv
  <2>4. CASE state' = [state EXCEPT ![cur] = r] /\ pc' = "drain" /\ (healthy' => healthy)
    <3>1. /\ \A e \in Channels \ {cur} : Covered(e)' => Covered(e)
          /\ Covered(cur) <=> Covered(cur)'
      BY <1>1, <2>4 DEF Covered, Lanes
    <3>2. RunningInv(r, pc' = "drain" /\ cur' = cur) /\ ~Flushing
      BY <1>1, <1>4, <2>4 DEF RunningInv, Flushing
    <3>3. ~Covered(cur)
      BY <1>1, <1>4, DrainedUncovered
    <3>4. Earlier(next_deadline_ns, next_deadline_ns') /\ next_deadline_ns' \in Nat
      BY <1>2, <2>1 DEF Earlier
    <3>5. QED
      BY <1>1, <1>2, <2>2, <2>4, <3>1, <3>2, <3>3, <3>4, TimerStep
  <2>5. QED
    BY <2>1, <2>3, <2>4
<1>5. CASE ret # "flush" /\ DrainDone
  <2> DEFINE r == [s EXCEPT !.gap_open_ns = IF s.pending_count # 0 THEN now ELSE 0]
  <2>1. /\ state' = [state EXCEPT ![cur] = r] /\ pc' = ret /\ healthy' = healthy
        /\ next_deadline_ns' = IF s.pending_count # 0
                                 THEN Scheduled(next_deadline_ns, now, GapWait)
                                 ELSE next_deadline_ns
    BY <1>5 DEF DrainDone, Update, Goto
  <2>2. /\ r \in ChannelState /\ ~r.discovering /\ r.pending_count = s.pending_count
        /\ r.gap_open_ns = IF s.pending_count # 0 THEN now ELSE 0
    BY <1>2 DEF ChannelState
  <2> HIDE DEF r
  <2>3. /\ TimerDelay(r) = GapWait
        /\ TimerStart(r) = IF s.pending_count # 0 THEN now ELSE 0
    BY <2>2 DEF TimerStart, TimerDelay
  <2>4. RunningInv(r, pc' = "drain" /\ cur' = cur)
    BY <1>2, <2>2, <2>3 DEF RunningInv
  <2>5. /\ Armed(r, next_deadline_ns') /\ next_deadline_ns' \in Nat
        /\ Earlier(next_deadline_ns, next_deadline_ns')
    <3>1. CASE s.pending_count # 0
      <4>1. next_deadline_ns' = Scheduled(next_deadline_ns, now, GapWait) /\ TimerStart(r) = now
        BY <2>1, <2>3, <3>1
      <4>2. QED
        BY <1>2, <2>3, <4>1, ScheduledCovers DEF Armed
    <3>2. CASE s.pending_count = 0
      BY <1>2, <2>1, <2>2, <3>2 DEF Armed, Earlier
    <3>3. QED
      BY <3>1, <3>2
  <2>6. \A e \in Channels \ {cur} : Covered(e)' => Covered(e)
    <3>1. CASE ret \in {"process", "after"}
      BY <1>1, <3>1 DEF Covered
    <3>2. CASE ret = "poll"
      <4> SUFFICES ASSUME NEW i \in Lanes, i < index, channels[i] # cur
                   PROVE  i < index - 1
        BY <1>1, <2>1, <3>2 DEF Covered, Lanes
      <4>1. cur = channels[index - 1]
        BY <1>1, <3>2 DEF ControlInv, CallInv
      <4>2. i # index - 1 /\ i \in Nat /\ index \in Nat
        BY <4>1, LaneChannels DEF Lanes
      <4>3. QED
        BY <4>2
    <3>3. QED
      BY <1>1, <1>5, <3>1, <3>2
  <2>7. ~Flushing
    BY <1>1, <1>5 DEF Flushing
  <2>8. QED
    BY <1>1, <1>2, <2>1, <2>2, <2>4, <2>5, <2>6, <2>7, TimerStep
<1>6. QED
  BY <1>3, <1>4, <1>5

\* Poll at a channel: its deadline is entered again, or it is drained.
LEMMA ScanTimer ==
  ASSUME IInv, ControlInv, ClockInv, TimerInv,
         PollDiscovering \/ PollGap \/ FlushStep \/ FlushNext
  PROVE  TimerInv'
<1> DEFINE c == channels[index]
           s == state[c]
<1>1. CASE FlushStep \/ FlushNext
  <2>1. Flushing'
    BY <1>1 DEF FlushStep, FlushNext, StartFromMinimum, ForceGapToMinimum, DrainThen, Goto, Flushing
  <2>2. QED
    BY <2>1 DEF TimerInv
<1>2. CASE PollDiscovering \/ PollGap
  <2>1. /\ pc = "poll" /\ index <= Len(channels) /\ cur' = c /\ index' = index + 1
        /\ UNCHANGED <<channels, healthy>> /\ ~s.frozen /\ s.pending_count # 0
    BY <1>2 DEF PollDiscovering, PollGap, InPoll
  <2>2. /\ ~Flushing /\ index \in Lanes /\ index \in Nat /\ c \in Channels
        /\ Len(channels) \in Nat /\ next_deadline_ns \in Nat
        /\ s \in ChannelState /\ state \in [Channels -> ChannelState]
    BY <2>1, LaneChannels DEF Flushing, Lanes, IInv, TypeOK
  <2>3. \A i \in Lanes : i < index => channels[i] # c
    BY <2>2 DEF ControlInv, CreatedOnce
  <2>4. \/ /\ next_deadline_ns' = Scheduled(next_deadline_ns, TimerStart(s), TimerDelay(s))
           /\ pc' = "poll" /\ UNCHANGED state
        \/ /\ pc' = "drain" /\ ret' = "poll" /\ UNCHANGED next_deadline_ns
           /\ \/ state' = [state EXCEPT ![c] = FinishDiscovery(s)]
              \/ state' = [state EXCEPT ![c] = AdvanceTo(s, MinimumPending(s))]
    BY <1>2 DEF PollDiscovering, PollGap, Goto, StartFromMinimum, ForceGapToMinimum, Update,
                DrainThen, TimerStart, TimerDelay
  <2>5. CASE /\ next_deadline_ns' = Scheduled(next_deadline_ns, TimerStart(s), TimerDelay(s))
             /\ pc' = "poll" /\ UNCHANGED state
    <3>1. CASE ~healthy
      BY <2>1, <3>1 DEF TimerInv
    <3>2. CASE healthy
      <4>1. RunningInv(s, FALSE)
        <5>1. Draining(c) = FALSE
          BY <2>1 DEF Draining
        <5>2. QED
          BY <2>2, <3>2, <5>1 DEF TimerInv
      <4>2. TimerStart(s) # 0
        BY <2>1, <4>1 DEF RunningInv
      <4>3. /\ next_deadline_ns' \in Nat /\ Earlier(next_deadline_ns, next_deadline_ns')
            /\ Armed(s, next_deadline_ns')
        <5> HIDE DEF s
        <5>1. TimerStart(s) \in Nat /\ TimerDelay(s) \in Nat
          BY <2>2, DueType
        <5>2. QED
          BY <2>2, <2>5, <4>2, <5>1, ScheduledCovers DEF Armed
      <4>4. RunningInv(s, pc' = "drain" /\ cur' = c)
        BY <4>1 DEF RunningInv
      <4>5. ASSUME NEW e \in Channels \ {c}, Covered(e)' PROVE Covered(e)
        <5>1. PICK i \in Lanes : i < index + 1 /\ channels[i] = e
          BY <2>1, <2>5, <4>5 DEF Covered, Lanes
        <5>2. i # index
          BY <5>1
        <5>3. i < index
          BY <2>2, <5>1, <5>2 DEF Lanes
        <5>4. QED
          BY <2>1, <5>1, <5>3 DEF Covered
      <4>6. state' = [state EXCEPT ![c] = s]
        BY <2>2, <2>5
      <4> HIDE DEF s, c
      <4>7. QED
        BY <2>1, <2>2, <4>3, <4>4, <4>5, <4>6, TimerStep
    <3>3. QED
      BY <3>1, <3>2
  <2>6. ASSUME NEW r \in ChannelState, state' = [state EXCEPT ![c] = r],
               pc' = "drain", ret' = "poll", UNCHANGED next_deadline_ns
        PROVE  TimerInv'
    <3>1. PICK k \in Channels : k = c
      BY <2>2
    <3>2. /\ RunningInv(r, pc' = "drain" /\ cur' = k) /\ state' = [state EXCEPT ![k] = r]
          /\ (healthy' => healthy) /\ (pc = "drain" => cur = k)
      BY <2>1, <2>6, <3>1 DEF RunningInv
    <3>3. ASSUME NEW e \in Channels, Covered(e)' PROVE Covered(e) /\ e # k
      <4>1. index' - 1 = index
        BY <2>1, <2>2
      <4>2. PICK i \in Lanes : i < index /\ channels[i] = e
        BY <2>1, <2>6, <3>3, <4>1 DEF Covered, Lanes
      <4>3. QED
        BY <2>1, <2>3, <3>1, <4>2 DEF Covered
    <3>4. Earlier(next_deadline_ns, next_deadline_ns') /\ next_deadline_ns' \in Nat
      BY <2>2, <2>6 DEF Earlier
    <3>5. ~Covered(k)' /\ \A e \in Channels \ {k} : Covered(e)' => Covered(e)
      BY <3>3
    <3> HIDE DEF c
    <3>6. QED
      BY ONLY IInv, TimerInv, <2>2, <2>6, <3>2, <3>4, <3>5, TimerStep
  <2>7. FinishDiscovery(s) \in ChannelState /\ AdvanceTo(s, MinimumPending(s)) \in ChannelState
    <3> HIDE DEF s
    <3>1. MinimumPending(s) \in Nat
      BY <2>2, MinimumPendingLeast
    <3>2. FinishDiscovery(s) \in ChannelState
      BY <2>2, <3>1 DEF FinishDiscovery, ChannelState
    <3>3. QED
      BY <2>2, <3>1, <3>2, AdvanceType
  <2>8. QED
    BY <2>4, <2>5, <2>6, <2>7
<1>3. QED
  BY <1>1, <1>2

\* Every step keeps the timers.
LEMMA NextTimer ==
  ASSUME IInv, ControlInv, ClockInv, TimerInv, [Next]_vars
  PROVE  TimerInv'
<1>1. CASE UNCHANGED vars
  BY <1>1 DEF vars, TimerInv, Flushing, Covered, Draining, Lanes
<1>2. CASE Arrival
  BY <1>2, ArrivalTimer, QuietTimer DEF Arrival, QuietStep
<1>3. CASE CallStep
  BY <1>3, QuietTimer, ProcessTimer, DrainTimer, ScanTimer DEF CallStep, QuietStep
<1>4. CASE AdvanceClock \/ IdlePoll \/ BeginFlush \/ Terminated
  BY <1>4, QuietTimer DEF QuietStep
<1>5. QED
  BY <1>1, <1>2, <1>3, <1>4 DEF Next

\* Between calls a healthy lane has a deadline no later than that of any channel that
\* retains records, and each such channel's timer is running, for every number of
\* channels, every scan interval and every order of ticks, scans and drains.
THEOREM TimersArmedHolds == Spec => []TimersArmed
<1>1. Init => IInv /\ ControlInv /\ ClockInv /\ TimerInv
  <2>1. Init => ClockInv /\ TimerInv
    BY DEF Init, ClockInv, TimerInv, RunningInv, Armed, NewChannel, TimerStart
  <2>2. QED
    BY <2>1, InitIInv, InitControl
<1>2. IInv /\ ControlInv /\ ClockInv /\ TimerInv /\ [Next]_vars
        => IInv' /\ ControlInv' /\ ClockInv' /\ TimerInv'
  BY NextIInv, NextControl, NextClock, NextTimer
<1>3. IInv /\ TimerInv => TimersArmed
  <2> SUFFICES ASSUME TimerInv, pc = "ready", healthy, NEW c \in Channels,
                      ~state[c].frozen, state[c].pending_count # 0
               PROVE  /\ TimerStart(state[c]) # 0 /\ next_deadline_ns # 0
                      /\ next_deadline_ns <= Due(TimerStart(state[c]), TimerDelay(state[c]))
    BY DEF TimersArmed, TimerStart, TimerDelay
  <2>1. /\ RunningInv(state[c], Draining(c)) /\ ~Draining(c)
        /\ Armed(state[c], next_deadline_ns)
    BY DEF TimerInv, Flushing, Covered, Draining
  <2>2. QED
    BY <2>1 DEF RunningInv, Armed
<1>4. QED
  BY <1>1, <1>2, <1>3, PTL DEF Spec
=============================================================================
