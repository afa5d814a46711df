----------------------- MODULE SequenceRecoveryProofs -----------------------
(***************************************************************************)
(* Proofs about SequenceRecovery for every value of its constants.         *)
(***************************************************************************)
EXTENDS SequenceRecovery, FiniteSetTheorems, WellFoundedInduction, TLAPS

(***************************************************************************)
(* The operators the model is built from.                                  *)
(***************************************************************************)

\* Insert and Find index inside the slot array (slot_mask_).
LEMMA SlotInRange == \A n \in Nat : SlotOf(n) \in SlotIndex
BY ConstantsAssumption DEF SlotOf, SlotIndex

\* A nonempty set of naturals has the least element Min selects.
LEMMA MinIsLeast ==
  ASSUME NEW S \in SUBSET Nat, S # {}
  PROVE  Min(S) \in S /\ \A y \in S : Min(S) <= y
<1> DEFINE Less == {p \in Nat \X Nat : p[1] < p[2]}
<1>0. IsWellFoundedOn(Less, Nat)
  BY NatLessThanWellFounded DEF OpToRel
<1>1. PICK x \in S : \A y \in S : ~(<<y, x>> \in Less)
  BY <1>0, WFMin
<1>2. ASSUME NEW y \in S, y < x PROVE FALSE
  <2>1. <<y, x>> \in Less
    BY <1>2
  <2>2. QED
    BY <1>1, <2>1
<1>3. \A y \in S : x <= y
  BY <1>2
<1>4. QED
  BY <1>3 DEF Min

-----------------------------------------------------------------------------
(***************************************************************************)
(* The inductive invariant, channel by channel.  draining says whether the *)
(* lane is inside DrainContiguous on the channel: only then may a record   *)
(* sit at the frontier.                                                    *)
(***************************************************************************)
SlotsInv(s) ==
  /\ s.pending_count = Cardinality(Occupied(s))
  /\ \A i \in Occupied(s) : SlotOf(s.pending[i].seq) = i

AheadInv(s, draining) ==
  ~s.discovering =>
    \A i \in Occupied(s) :
      \/ s.pending[i].seq > s.expected
      \/ s.pending[i].seq = s.expected /\ draining

CountInv(s, l) ==
  /\ s.expected = l.origin + Len(l.committed) + s.cumulative_missing
  /\ s.expected <= MaxU64
  /\ s.gap_epoch = Len(l.gaps)
  /\ s.gap_epoch <= s.cumulative_missing
  /\ s.discovering => Mode = "PARTIAL" /\ s.expected = 0
  /\ s.history_complete => Mode = "FROM_OPEN" /\ s.cumulative_missing = 0
  /\ Mode = "FROM_OPEN" => l.origin = 1

OrderInv(s, l) ==
  /\ \A i, j \in 1..Len(l.committed) :
       i < j => l.committed[i].seq < l.committed[j].seq
  /\ \A i \in 1..Len(l.committed) :
       /\ l.origin <= l.committed[i].seq
       /\ l.committed[i].seq < s.expected
       /\ l.committed[i].history_valid =>
            Mode = "FROM_OPEN" /\ l.committed[i].seq = i

ChannelInv(s, l, draining) ==
  SlotsInv(s) /\ AheadInv(s, draining) /\ CountInv(s, l) /\ OrderInv(s, l)

IInv ==
  /\ TypeOK
  /\ pc = "drain" => ~state[cur].discovering
  /\ pc = "drain" /\ ret = "process" => msg \in Tick
  /\ \A c \in Channels : ChannelInv(state[c], log[c], Draining(c))

-----------------------------------------------------------------------------
\* The pending table is finite, and empty exactly when its cardinality is 0.
LEMMA OccupiedFinite ==
  ASSUME NEW s \in ChannelState
  PROVE  /\ IsFiniteSet(Occupied(s))
         /\ Cardinality(Occupied(s)) \in Nat
         /\ Cardinality(Occupied(s)) = 0 <=> Occupied(s) = {}
<1>1. IsFiniteSet(SlotIndex)
  BY FS_Interval, ConstantsAssumption DEF SlotIndex
<1>2. Occupied(s) \subseteq SlotIndex
  BY DEF Occupied
<1>3. IsFiniteSet(Occupied(s))
  BY <1>1, <1>2, FS_Subset
<1>4. QED
  BY <1>3, FS_CardinalityType, FS_EmptySet

\* An occupied slot holds a tick.
LEMMA OccupiedTick ==
  ASSUME NEW s \in ChannelState, NEW i \in Occupied(s)
  PROVE  i \in SlotIndex /\ s.pending[i] \in Tick /\ s.pending[i].seq \in Seqs
<1>1. i \in SlotIndex /\ s.pending[i].seq # 0
  BY DEF Occupied
<1>2. s.pending[i] \in Slot
  BY <1>1 DEF ChannelState
<1>3. s.pending[i] # Free
  BY <1>1 DEF Free
<1>4. s.pending[i] \in Tick
  BY <1>2, <1>3 DEF Slot, Tick
<1>5. QED
  BY <1>1, <1>4 DEF Tick

\* MinimumPending is the smallest retained sequence, or UINT64_MAX when the
\* table is empty.
LEMMA MinimumPendingLeast ==
  ASSUME NEW s \in ChannelState
  PROVE  /\ MinimumPending(s) \in Nat
         /\ MinimumPending(s) \in PendingSeqs(s) \cup {MaxU64}
         /\ MinimumPending(s) <= MaxU64
         /\ \A i \in Occupied(s) : MinimumPending(s) <= s.pending[i].seq
<1> DEFINE S == PendingSeqs(s) \cup {MaxU64}
<1>1. S \in SUBSET Nat /\ S # {}
  BY OccupiedTick, ConstantsAssumption DEF PendingSeqs, Seqs
<1>2. Min(S) \in S /\ \A y \in S : Min(S) <= y
  BY <1>1, MinIsLeast
<1>3. \A i \in Occupied(s) : s.pending[i].seq \in S
  BY DEF PendingSeqs
<1>4. QED
  BY <1>1, <1>2, <1>3 DEF MinimumPending

\* A record ahead of the frontier inserted into its free slot keeps the table
\* consistent.
LEMMA InsertInv ==
  ASSUME NEW s \in ChannelState, NEW l \in ChannelLog, NEW d \in BOOLEAN,
         NEW t \in Tick, s.pending[SlotOf(t.seq)].seq = 0,
         ~s.discovering => t.seq > s.expected,
         ChannelInv(s, l, d)
  PROVE  /\ Insert(s, t) \in ChannelState
         /\ Insert(s, t).discovering = s.discovering
         /\ ChannelInv(Insert(s, t), l, d)
<1> DEFINE r == Insert(s, t)
           k == SlotOf(t.seq)
<1>1. k \in SlotIndex /\ t.seq \in Nat /\ t.seq # 0
  BY SlotInRange, ConstantsAssumption DEF Tick, Seqs
<1>2. r \in ChannelState
  <2>1. [s.pending EXCEPT ![k] = t] \in [SlotIndex -> Slot]
    BY <1>1 DEF ChannelState, Slot, Tick
  <2>2. s.pending_count + 1 \in Nat
    BY DEF ChannelState
  <2>3. QED
    BY <2>1, <2>2 DEF ChannelState, Insert
<1>3. /\ r.pending = [s.pending EXCEPT ![k] = t]
      /\ r.pending_count = s.pending_count + 1
      /\ r.expected = s.expected /\ r.discovering = s.discovering
      /\ r.cumulative_missing = s.cumulative_missing
      /\ r.gap_epoch = s.gap_epoch /\ r.history_complete = s.history_complete
  BY DEF Insert, ChannelState
<1>4. Occupied(r) = Occupied(s) \cup {k} /\ k \notin Occupied(s)
  BY <1>1, <1>3 DEF Occupied, ChannelState
<1>5. Cardinality(Occupied(r)) = Cardinality(Occupied(s)) + 1
  BY <1>4, OccupiedFinite, FS_AddElement
<1>6. SlotsInv(r)
  BY <1>1, <1>3, <1>4, <1>5 DEF ChannelInv, SlotsInv, Occupied, ChannelState
<1>7. AheadInv(r, d)
  BY <1>1, <1>3, <1>4 DEF ChannelInv, AheadInv, Occupied, ChannelState
<1>8. CountInv(r, l) /\ OrderInv(r, l)
  BY <1>3 DEF ChannelInv, CountInv, OrderInv
<1>9. QED
  BY <1>2, <1>3, <1>6, <1>7, <1>8 DEF ChannelInv

\* EmitOne frees the frontier's slot; what stays retained is ahead.
LEMMA FreeInv ==
  ASSUME NEW s \in ChannelState, NEW l \in ChannelLog,
         FrontierPresent(s), ~s.discovering,
         ChannelInv(s, l, TRUE)
  PROVE  /\ FreeFrontierSlot(s) \in ChannelState
         /\ ChannelInv(FreeFrontierSlot(s), l, FALSE)
         /\ s.pending[SlotOf(s.expected)] \in Tick
<1> DEFINE r == FreeFrontierSlot(s)
           k == SlotOf(s.expected)
<1>1. s.expected \in Nat /\ s.expected # 0 /\ k \in SlotIndex
  BY SlotInRange DEF ChannelState, FrontierPresent
<1>2. k \in Occupied(s)
  BY <1>1 DEF FrontierPresent, Occupied
<1>3. Cardinality(Occupied(s)) \in Nat \ {0}
  BY <1>2, OccupiedFinite
<1>4. s.pending_count - 1 \in Nat
  BY <1>3 DEF ChannelInv, SlotsInv
<1>5. r \in ChannelState
  <2>1. [s.pending EXCEPT ![k] = Free] \in [SlotIndex -> Slot]
    BY <1>1 DEF ChannelState, Slot
  <2>2. QED
    BY <1>4, <2>1 DEF ChannelState, FreeFrontierSlot
<1>6. /\ r.pending = [s.pending EXCEPT ![k] = Free]
      /\ r.pending_count = s.pending_count - 1
      /\ r.expected = s.expected /\ r.discovering = s.discovering
      /\ r.cumulative_missing = s.cumulative_missing
      /\ r.gap_epoch = s.gap_epoch /\ r.history_complete = s.history_complete
  BY DEF FreeFrontierSlot, ChannelState
<1>7. Occupied(r) = Occupied(s) \ {k}
  BY <1>1, <1>6 DEF Occupied, ChannelState, Free
<1>8. Cardinality(Occupied(r)) = Cardinality(Occupied(s)) - 1
  BY <1>2, <1>7, OccupiedFinite, FS_RemoveElement
<1>9. \A i \in Occupied(r) : i \in Occupied(s) /\ i # k /\ r.pending[i] = s.pending[i]
  BY <1>1, <1>6, <1>7 DEF Occupied, ChannelState
<1>10. SlotsInv(r)
  BY <1>6, <1>8, <1>9 DEF ChannelInv, SlotsInv
<1>11. AheadInv(r, FALSE)
  BY <1>6, <1>9 DEF ChannelInv, AheadInv, SlotsInv
<1>12. CountInv(r, l) /\ OrderInv(r, l)
  BY <1>6 DEF ChannelInv, CountInv, OrderInv
<1>13. QED
  BY <1>2, <1>5, <1>10, <1>11, <1>12, OccupiedTick DEF ChannelInv

\* Timers, the frozen flag and the gap metadata play no part in ChannelInv.
LEMMA SameTableInv ==
  ASSUME NEW s \in ChannelState, NEW r \in ChannelState,
         NEW l \in ChannelLog, NEW m \in ChannelLog, NEW d \in BOOLEAN,
         ChannelInv(s, l, d),
         r.pending = s.pending, r.pending_count = s.pending_count,
         r.expected = s.expected, r.discovering = s.discovering,
         r.cumulative_missing = s.cumulative_missing,
         r.gap_epoch = s.gap_epoch, r.history_complete = s.history_complete,
         m.origin = l.origin, m.committed = l.committed, m.gaps = l.gaps
  PROVE  ChannelInv(r, m, d)
<1>1. Occupied(r) = Occupied(s)
  BY DEF Occupied
<1>2. QED
  BY <1>1 DEF ChannelInv, SlotsInv, AheadInv, CountInv, OrderInv

\* Committed records carry natural sequences.
LEMMA CommittedSeqs ==
  ASSUME NEW l \in ChannelLog
  PROVE  \A i \in 1..Len(l.committed) : l.committed[i].seq \in Nat
<1>1. l.committed \in Seq(CommitRecord)
  BY DEF ChannelLog
<1>2. \A i \in 1..Len(l.committed) : l.committed[i] \in CommitRecord
  BY <1>1
<1>3. QED
  BY <1>2 DEF CommitRecord, Seqs

\* A record that passes the frontier extends the stream by the next sequence.
LEMMA CommitInv ==
  ASSUME NEW s \in ChannelState, NEW l \in ChannelLog, NEW t \in Tick,
         t.seq = s.expected, ~s.discovering, ChannelInv(s, l, FALSE)
  PROVE  LET r == [TakeGapMetadata(s, t.body) EXCEPT !.expected = s.expected + 1]
             m == [l EXCEPT !.committed = Append(l.committed, EmittedRecord(s, t))]
         IN  r \in ChannelState /\ m \in ChannelLog /\ ChannelInv(r, m, TRUE)
             /\ r.discovering = s.discovering
<1> DEFINE r == [TakeGapMetadata(s, t.body) EXCEPT !.expected = s.expected + 1]
           e == EmittedRecord(s, t)
           m == [l EXCEPT !.committed = Append(l.committed, e)]
           n == Len(l.committed)
<1>1. /\ s.expected \in Nat /\ s.expected + 1 \in Nat
      /\ t.seq \in Seqs /\ t.body \in Bodies
  BY DEF ChannelState, Tick
<1>2. r \in ChannelState
  BY <1>1 DEF ChannelState, TakeGapMetadata
<1>3. e \in CommitRecord
  BY <1>1 DEF CommitRecord, EmittedRecord, ChannelState
<1>4. e.seq = s.expected /\ e.history_valid = s.history_complete
  BY DEF EmittedRecord
<1>5. Append(l.committed, e) \in Seq(CommitRecord)
  BY <1>3 DEF ChannelLog
<1>6. m \in ChannelLog
  BY <1>5 DEF ChannelLog
<1>7. /\ r.pending = s.pending /\ r.pending_count = s.pending_count
      /\ r.expected = s.expected + 1 /\ r.discovering = s.discovering
      /\ r.cumulative_missing = s.cumulative_missing
      /\ r.gap_epoch = s.gap_epoch /\ r.history_complete = s.history_complete
  BY DEF TakeGapMetadata, ChannelState
<1>8. /\ m.origin = l.origin /\ m.gaps = l.gaps
      /\ m.committed = Append(l.committed, e)
  BY DEF ChannelLog
<1>9. /\ n \in Nat /\ Len(m.committed) = n + 1
      /\ \A i \in 1..n : m.committed[i] = l.committed[i]
      /\ m.committed[n + 1] = e
  BY <1>3, <1>8 DEF ChannelLog
<1>10. Occupied(r) = Occupied(s)
  BY <1>7 DEF Occupied
<1>11. SlotsInv(r)
  BY <1>7, <1>10 DEF ChannelInv, SlotsInv
<1>12. AheadInv(r, TRUE)
  <2> SUFFICES ASSUME NEW i \in Occupied(s)
               PROVE  s.pending[i].seq >= s.expected + 1
    BY <1>1, <1>7, <1>10, OccupiedTick DEF AheadInv, Seqs
  <2>1. s.pending[i].seq > s.expected /\ s.pending[i].seq \in Nat
    BY OccupiedTick DEF ChannelInv, AheadInv, Seqs
  <2>2. QED
    BY <1>1, <2>1
<1>13. CountInv(r, m)
  <2>1. s.expected + 1 <= MaxU64
    BY <1>1, ConstantsAssumption DEF Seqs
  <2>2. l.origin \in Nat /\ s.cumulative_missing \in Nat
    BY DEF ChannelState, ChannelLog
  <2>3. QED
    BY <1>1, <1>7, <1>8, <1>9, <2>1, <2>2 DEF ChannelInv, CountInv
<1>14. OrderInv(r, m)
  <2>1. l.origin \in Nat /\ s.cumulative_missing \in Nat
    BY DEF ChannelState, ChannelLog
  <2>2. l.origin <= s.expected
    BY <1>9, <2>1 DEF ChannelInv, CountInv
  <2>3. s.history_complete => Mode = "FROM_OPEN" /\ s.expected = n + 1
    BY <1>9, <2>1 DEF ChannelInv, CountInv
  <2>4. \A i \in 1..n : l.committed[i].seq \in Nat
    BY CommittedSeqs
  <2>5. \A i \in 1..(n + 1) : i \in 1..n \/ i = n + 1
    BY <1>9
  <2>6. \A i \in 1..(n + 1) :
          /\ m.origin <= m.committed[i].seq
          /\ m.committed[i].seq < r.expected
          /\ m.committed[i].history_valid =>
               Mode = "FROM_OPEN" /\ m.committed[i].seq = i
    BY <1>1, <1>4, <1>7, <1>8, <1>9, <2>2, <2>3, <2>4, <2>5 DEF ChannelInv, OrderInv
  <2>7. \A i, j \in 1..(n + 1) : i < j => m.committed[i].seq < m.committed[j].seq
    <3> SUFFICES ASSUME NEW i \in 1..(n + 1), NEW j \in 1..(n + 1), i < j
                 PROVE  m.committed[i].seq < m.committed[j].seq
      OBVIOUS
    <3>1. i \in 1..n
      BY <1>9
    <3>2. CASE j \in 1..n
      BY <1>9, <3>1, <3>2 DEF ChannelInv, OrderInv
    <3>3. CASE j = n + 1
      BY <1>4, <1>9, <3>1, <3>3 DEF ChannelInv, OrderInv
    <3>4. QED
      BY <2>5, <3>2, <3>3
  <2>8. QED
    BY <1>9, <2>6, <2>7 DEF OrderInv
<1>15. QED
  BY <1>2, <1>6, <1>7, <1>11, <1>12, <1>13, <1>14 DEF ChannelInv

\* Moving the frontier to next accounts for everything it skips as missing.
LEMMA AdvanceInv ==
  ASSUME NEW s \in ChannelState, NEW l \in ChannelLog, NEW next \in Nat,
         s.expected <= next, next <= MaxU64, ~s.discovering,
         ChannelInv(s, l, TRUE)
  PROVE  /\ AdvanceTo(s, next) \in ChannelState
         /\ WithGap(l, s, next) \in ChannelLog
         /\ AdvanceTo(s, next).discovering = s.discovering
         /\ AdvanceTo(s, next).expected = next
         /\ AdvanceTo(s, next).pending = s.pending
         /\ SlotsInv(AdvanceTo(s, next))
         /\ CountInv(AdvanceTo(s, next), WithGap(l, s, next))
         /\ OrderInv(AdvanceTo(s, next), WithGap(l, s, next))
<1> DEFINE g == RecordGap(s, next)
           r == AdvanceTo(s, next)
           m == WithGap(l, s, next)
<1>1. /\ s.expected \in Nat /\ s.cumulative_missing \in Nat /\ s.gap_epoch \in Nat
      /\ l.origin \in Nat /\ Len(l.committed) \in Nat /\ Len(l.gaps) \in Nat
  BY DEF ChannelState, ChannelLog
<1>2. /\ s.expected = l.origin + Len(l.committed) + s.cumulative_missing
      /\ s.gap_epoch = Len(l.gaps) /\ s.gap_epoch <= s.cumulative_missing
      /\ s.history_complete => Mode = "FROM_OPEN" /\ s.cumulative_missing = 0
      /\ Mode = "FROM_OPEN" => l.origin = 1
  BY DEF ChannelInv, CountInv
<1>3. CASE next = s.expected
  <2>1. g = s /\ m = l
    BY <1>1, <1>3 DEF RecordGap, WithGap
  <2>2. r = s
    BY <1>3, <2>1 DEF AdvanceTo, ChannelState
  <2>3. QED
    BY <1>3, <2>1, <2>2 DEF ChannelInv
<1>4. CASE next # s.expected
  <2>1. ~(next - 1 < s.expected) /\ next - s.expected \in Nat \ {0} /\ next - 1 \in Nat
    BY <1>1, <1>4
  <2>2. s.gap_epoch # MaxU64 /\ ~(MaxU64 - s.cumulative_missing < next - s.expected)
    BY <1>1, <1>2, <1>4, ConstantsAssumption
  <2>3. g = [s EXCEPT
               !.history_complete = FALSE,
               !.gap_epoch = s.gap_epoch + 1,
               !.cumulative_missing = s.cumulative_missing + (next - s.expected),
               !.pending_gap_first = s.expected,
               !.pending_gap_last = next - 1,
               !.gap_metadata_pending = TRUE]
    BY <2>1, <2>2 DEF RecordGap
  <2>4. g \in ChannelState
    <3>1. s.gap_epoch + 1 \in Nat /\ s.cumulative_missing + (next - s.expected) \in Nat
      BY <1>1, <2>1
    <3>2. QED
      BY <1>1, <2>1, <2>3, <3>1 DEF ChannelState
  <2>5. /\ g.history_complete = FALSE /\ g.gap_epoch = s.gap_epoch + 1
        /\ g.cumulative_missing = s.cumulative_missing + (next - s.expected)
        /\ g.discovering = s.discovering
        /\ g.pending = s.pending /\ g.pending_count = s.pending_count
    BY <2>3 DEF ChannelState
  <2>6. r \in ChannelState
    BY <2>4 DEF AdvanceTo, ChannelState
  <2>7. /\ r.history_complete = FALSE /\ r.gap_epoch = s.gap_epoch + 1
        /\ r.cumulative_missing = s.cumulative_missing + (next - s.expected)
        /\ r.discovering = s.discovering /\ r.expected = next
        /\ r.pending = s.pending /\ r.pending_count = s.pending_count
    BY <2>4, <2>5 DEF AdvanceTo, ChannelState
  <2>8. PICK gap \in GapRecord : m = [l EXCEPT !.gaps = Append(l.gaps, gap)]
    BY <1>1, <2>1, <2>4 DEF WithGap, GapRecord, ChannelState
  <2>9. Append(l.gaps, gap) \in Seq(GapRecord) /\ Len(Append(l.gaps, gap)) = Len(l.gaps) + 1
    BY DEF ChannelLog
  <2>10. m \in ChannelLog
    BY <2>8, <2>9 DEF ChannelLog
  <2>11. m.origin = l.origin /\ m.committed = l.committed /\ m.gaps = Append(l.gaps, gap)
    BY <2>8 DEF ChannelLog
  <2>12. Occupied(r) = Occupied(s)
    BY <2>7 DEF Occupied
  <2>13. SlotsInv(r)
    BY <2>7, <2>12 DEF ChannelInv, SlotsInv
  <2>14. CountInv(r, m)
    <3>1. r.expected = m.origin + Len(m.committed) + r.cumulative_missing
      BY <1>1, <1>2, <2>7, <2>11
    <3>2. r.gap_epoch = Len(m.gaps) /\ r.gap_epoch <= r.cumulative_missing
      BY <1>1, <1>2, <2>1, <2>7, <2>9, <2>11
    <3>3. QED
      BY <1>2, <2>7, <2>11, <3>1, <3>2 DEF CountInv
  <2>15. OrderInv(r, m)
    <3>1. \A i \in 1..Len(l.committed) : l.committed[i].seq \in Nat
      BY CommittedSeqs
    <3>2. \A i \in 1..Len(l.committed) : l.committed[i].seq < next
      BY <1>1, <3>1 DEF ChannelInv, OrderInv
    <3>3. QED
      BY <2>7, <2>11, <3>2 DEF ChannelInv, OrderInv
  <2>16. QED
    BY <2>6, <2>7, <2>10, <2>13, <2>14, <2>15
<1>5. QED
  BY <1>3, <1>4

\* ForceGapToMinimum leaves every retained record at or ahead of the frontier.
LEMMA ForceInv ==
  ASSUME NEW s \in ChannelState, NEW l \in ChannelLog, ~s.discovering,
         ChannelInv(s, l, TRUE)
  PROVE  LET next == MinimumPending(s)
         IN  /\ AdvanceTo(s, next) \in ChannelState
             /\ WithGap(l, s, next) \in ChannelLog
             /\ ~AdvanceTo(s, next).discovering
             /\ ChannelInv(AdvanceTo(s, next), WithGap(l, s, next), TRUE)
<1> DEFINE next == MinimumPending(s)
<1>1. /\ next \in Nat /\ next <= MaxU64
      /\ \A i \in Occupied(s) : next <= s.pending[i].seq
  BY MinimumPendingLeast
<1>2. s.expected <= next
  <2>1. next \in PendingSeqs(s) \cup {MaxU64}
    BY MinimumPendingLeast
  <2>2. s.expected \in Nat /\ s.expected <= MaxU64
    BY DEF ChannelState, ChannelInv, CountInv
  <2>3. CASE next = MaxU64
    BY <2>2, <2>3
  <2>4. CASE next \in PendingSeqs(s)
    BY <1>1, <2>2, <2>4 DEF PendingSeqs, ChannelInv, AheadInv
  <2>5. QED
    BY <2>1, <2>3, <2>4
<1> DEFINE r == AdvanceTo(s, next)
<1>3. /\ r \in ChannelState /\ WithGap(l, s, next) \in ChannelLog
      /\ r.discovering = s.discovering /\ r.expected = next /\ r.pending = s.pending
      /\ SlotsInv(r) /\ CountInv(r, WithGap(l, s, next)) /\ OrderInv(r, WithGap(l, s, next))
  BY <1>1, <1>2, AdvanceInv
<1>4. AheadInv(r, TRUE)
  <2>1. Occupied(r) = Occupied(s)
    BY <1>3 DEF Occupied
  <2>2. \A i \in Occupied(s) : s.pending[i].seq \in Nat
    BY OccupiedTick DEF Seqs
  <2>3. QED
    BY <1>1, <1>3, <2>1, <2>2 DEF AheadInv
<1>5. QED
  BY <1>3, <1>4 DEF ChannelInv

\* A colliding tick below everything retained becomes the frontier itself.
LEMMA JumpInv ==
  ASSUME NEW s \in ChannelState, NEW l \in ChannelLog, NEW t \in Tick, ~s.discovering,
         t.seq > s.expected, t.seq < MinimumPending(s), ChannelInv(s, l, FALSE)
  PROVE  /\ AdvanceTo(s, t.seq) \in ChannelState
         /\ WithGap(l, s, t.seq) \in ChannelLog
         /\ ChannelInv(AdvanceTo(s, t.seq), WithGap(l, s, t.seq), FALSE)
<1> DEFINE next == t.seq
           r == AdvanceTo(s, next)
<1>1. next \in Nat /\ next <= MaxU64 /\ s.expected \in Nat /\ s.expected <= next
  BY ConstantsAssumption DEF Tick, Seqs, ChannelState
<1>2. ChannelInv(s, l, TRUE)
  BY DEF ChannelInv, AheadInv
<1> HIDE DEF next
<1>3. /\ r \in ChannelState /\ WithGap(l, s, next) \in ChannelLog
      /\ r.discovering = s.discovering /\ r.expected = next /\ r.pending = s.pending
      /\ SlotsInv(r) /\ CountInv(r, WithGap(l, s, next)) /\ OrderInv(r, WithGap(l, s, next))
  BY <1>1, <1>2, AdvanceInv
<1> USE DEF next
<1>4. AheadInv(r, FALSE)
  <2>1. Occupied(r) = Occupied(s)
    BY <1>3 DEF Occupied
  <2>2. \A i \in Occupied(s) : s.pending[i].seq \in Nat
    BY OccupiedTick DEF Seqs
  <2>3. QED
    BY <1>1, <1>3, <2>1, <2>2, MinimumPendingLeast DEF AheadInv
<1>5. QED
  BY <1>3, <1>4 DEF ChannelInv

\* FinishDiscovery with retained records: the smallest becomes the origin.
LEMMA StartInv ==
  ASSUME NEW s \in ChannelState, NEW l \in ChannelLog, NEW d \in BOOLEAN,
         s.discovering, s.pending_count # 0, ChannelInv(s, l, d)
  PROVE  LET m == [l EXCEPT !.origin = MinimumPending(s)]
         IN  /\ FinishDiscovery(s) \in ChannelState /\ m \in ChannelLog
             /\ ~FinishDiscovery(s).discovering
             /\ ChannelInv(FinishDiscovery(s), m, TRUE)
<1> DEFINE next == MinimumPending(s)
           r == FinishDiscovery(s)
           m == [l EXCEPT !.origin = next]
<1>1. /\ next \in Nat /\ next <= MaxU64
      /\ \A i \in Occupied(s) : next <= s.pending[i].seq
  BY MinimumPendingLeast
<1>2. r = [s EXCEPT !.discovering = FALSE, !.expected = next]
  BY DEF FinishDiscovery
<1>3. r \in ChannelState /\ m \in ChannelLog
  BY <1>1, <1>2 DEF ChannelState, ChannelLog
<1>4. /\ r.discovering = FALSE /\ r.expected = next /\ r.pending = s.pending
      /\ r.pending_count = s.pending_count /\ r.gap_epoch = s.gap_epoch
      /\ r.cumulative_missing = s.cumulative_missing
      /\ r.history_complete = s.history_complete
      /\ m.origin = next /\ m.committed = l.committed /\ m.gaps = l.gaps
  BY <1>2 DEF ChannelState, ChannelLog
<1>5. /\ Len(l.committed) = 0 /\ s.cumulative_missing = 0 /\ s.gap_epoch = 0
      /\ Len(l.gaps) = 0 /\ Mode = "PARTIAL"
  <2>1. /\ l.origin \in Nat /\ Len(l.committed) \in Nat /\ s.cumulative_missing \in Nat
        /\ s.gap_epoch \in Nat
    BY DEF ChannelState, ChannelLog
  <2>2. QED
    BY <2>1 DEF ChannelInv, CountInv
<1>6. Occupied(r) = Occupied(s)
  BY <1>4 DEF Occupied
<1>7. SlotsInv(r)
  BY <1>4, <1>6 DEF ChannelInv, SlotsInv
<1>8. AheadInv(r, TRUE)
  <2>1. \A i \in Occupied(s) : s.pending[i].seq \in Nat
    BY OccupiedTick DEF Seqs
  <2>2. QED
    BY <1>1, <1>4, <1>6, <2>1 DEF AheadInv
<1>9. CountInv(r, m)
  BY <1>1, <1>4, <1>5 DEF ChannelInv, CountInv
<1>10. OrderInv(r, m)
  BY <1>4, <1>5 DEF OrderInv
<1>11. QED
  BY <1>3, <1>4, <1>7, <1>8, <1>9, <1>10 DEF ChannelInv

\* DrainContiguous ends when the frontier's slot does not hold the frontier.
LEMMA DrainEndInv ==
  ASSUME NEW s \in ChannelState, NEW l \in ChannelLog, ~FrontierPresent(s),
         ChannelInv(s, l, TRUE)
  PROVE  ChannelInv(s, l, FALSE)
<1>1. AheadInv(s, FALSE)
  <2> SUFFICES ASSUME ~s.discovering, NEW i \in Occupied(s)
               PROVE  s.pending[i].seq # s.expected
    BY DEF ChannelInv, AheadInv
  <2>1. s.pending[i].seq \in Seqs /\ SlotOf(s.pending[i].seq) = i
    BY OccupiedTick DEF ChannelInv, SlotsInv
  <2>2. QED
    BY <2>1 DEF FrontierPresent, Seqs
<1>2. QED
  BY <1>1 DEF ChannelInv

-----------------------------------------------------------------------------
(***************************************************************************)
(* Steps that change one channel, or none.                                 *)
(***************************************************************************)
\* A table with nothing at the frontier is also a table that may be draining.
LEMMA Weaken ==
  ASSUME NEW s, NEW l, NEW d \in BOOLEAN, ChannelInv(s, l, FALSE)
  PROVE  ChannelInv(s, l, d)
BY DEF ChannelInv, AheadInv

\* A step that changes channel c only: the other channels keep their invariant.
LEMMA OneChannelStep ==
  ASSUME IInv, NEW c \in Channels, NEW s \in ChannelState, NEW l \in ChannelLog,
         state' = [state EXCEPT ![c] = s], log' = [log EXCEPT ![c] = l],
         pc = "drain" => cur = c,
         ChannelInv(s, l, pc' = "drain" /\ cur' = c)
  PROVE  /\ state' \in [Channels -> ChannelState]
         /\ log' \in [Channels -> ChannelLog]
         /\ \A e \in Channels : ChannelInv(state'[e], log'[e], Draining(e)')
<1>1. state \in [Channels -> ChannelState] /\ log \in [Channels -> ChannelLog]
  BY DEF IInv, TypeOK
<1>2. state'[c] = s /\ log'[c] = l
  BY <1>1
<1>3. ASSUME NEW e \in Channels PROVE ChannelInv(state'[e], log'[e], Draining(e)')
  <2>1. CASE e = c
    BY <1>2, <2>1 DEF Draining
  <2>2. CASE e # c
    <3>1. state'[e] = state[e] /\ log'[e] = log[e]
      BY <1>1, <2>2
    <3>2. Draining(e) = FALSE
      BY <2>2 DEF Draining
    <3>3. ChannelInv(state[e], log[e], Draining(e))
      BY DEF IInv
    <3>4. ChannelInv(state[e], log[e], FALSE)
      BY <3>2, <3>3
    <3>5. Draining(e)' \in BOOLEAN
      BY DEF Draining
    <3>6. QED
      BY <3>1, <3>4, <3>5, Weaken
  <2>3. QED
    BY <2>1, <2>2
<1>4. QED
  BY <1>1, <1>3

\* A step that changes no channel and does not leave DrainContiguous.
LEMMA NoChannelStep ==
  ASSUME IInv, UNCHANGED <<state, log>>, pc # "drain"
  PROVE  /\ state' \in [Channels -> ChannelState]
         /\ log' \in [Channels -> ChannelLog]
         /\ \A e \in Channels : ChannelInv(state'[e], log'[e], Draining(e)')
<1>1. state \in [Channels -> ChannelState] /\ log \in [Channels -> ChannelLog]
  BY DEF IInv, TypeOK
<1>2. ASSUME NEW e \in Channels PROVE ChannelInv(state'[e], log'[e], Draining(e)')
  <2>1. Draining(e) = FALSE /\ Draining(e)' \in BOOLEAN
    BY DEF Draining
  <2>2. ChannelInv(state[e], log[e], Draining(e))
    BY DEF IInv
  <2>3. ChannelInv(state[e], log[e], FALSE)
    BY <2>1, <2>2
  <2>4. QED
    BY <2>1, <2>3, Weaken
<1>3. QED
  BY <1>1, <1>2

\* ScheduleDeadline yields a time.
LEMMA ScheduledType ==
  ASSUME NEW d \in Nat, NEW start \in Nat, NEW delay \in Nat
  PROVE  Scheduled(d, start, delay) \in Nat
BY ConstantsAssumption DEF Scheduled

\* The invariant without what is said of each channel.
Frame ==
  /\ channels \in Seq(Channels)
  /\ next_deadline_ns \in Nat /\ next_timer \in Nat /\ clock \in Nat
  /\ now \in Nat /\ last_receive \in Nat /\ arrivals \in Nat
  /\ healthy \in BOOLEAN
  /\ pc \in Labels /\ ret \in Labels \ {"drain", "done"}
  /\ cur \in Channels /\ msg \in Slot /\ index \in Nat \ {0}
  /\ pc = "process" => msg \in Tick
  /\ pc = "drain" /\ ret = "process" => msg \in Tick

PerChannel ==
  /\ state \in [Channels -> ChannelState]
  /\ log \in [Channels -> ChannelLog]
  /\ \A c \in Channels : ChannelInv(state[c], log[c], Draining(c))

\* The invariant is its frame, its per-channel part and the state of a drain.
LEMMA SplitIInv ==
  IInv <=> Frame /\ PerChannel /\ (pc = "drain" => ~state[cur].discovering)
BY DEF IInv, TypeOK, Frame, PerChannel

\* The same, after a step.
LEMMA SplitIInvPrime ==
  IInv' <=> Frame' /\ PerChannel' /\ (pc' = "drain" => ~state'[cur'].discovering)
BY DEF IInv, TypeOK, Frame, PerChannel

-----------------------------------------------------------------------------
(***************************************************************************)
(* Every action preserves the invariant.                                   *)
(***************************************************************************)
QuietStep ==
  \/ AdvanceClock \/ (\E t \in 1..MaxArrivalTime : DecodeFailureWithoutPosition(t))
  \/ ProcessFrozen \/ DiscoverDuplicate \/ AheadDuplicate
  \/ AfterMessage \/ IdlePoll \/ PollSkip \/ PollDone \/ BeginFlush \/ FlushDone
  \/ Terminated

\* Steps that touch no channel: time, dropped ticks, and the scans' bookkeeping.
LEMMA QuietStepInv == ASSUME IInv, QuietStep PROVE IInv'
<1> USE ConstantsAssumption
<1>0. Frame
  BY SplitIInv
<1>1. UNCHANGED <<state, log>> /\ pc # "drain" /\ pc' # "drain"
  BY DEF QuietStep, AdvanceClock, DecodeFailureWithoutPosition, ProcessFrozen,
         DiscoverDuplicate, AheadDuplicate, AfterMessage, IdlePoll, PollSkip,
         PollDone, BeginFlush, FlushDone, Terminated, InProcess, InDiscovery,
         Ahead, InActive, Consume, Goto, CallPoll, InPoll, vars
<1>2. PerChannel'
  BY <1>1, NoChannelStep DEF PerChannel
<1>3. Frame'
  <2>1. CASE AdvanceClock
    BY <1>0, <2>1 DEF Frame, AdvanceClock, lane
  <2>2. CASE \E t \in 1..MaxArrivalTime : DecodeFailureWithoutPosition(t)
    BY <1>0, <2>2 DEF Frame, DecodeFailureWithoutPosition, Consume, Goto, Labels
  <2>3. CASE ProcessFrozen \/ DiscoverDuplicate \/ AheadDuplicate
    BY <1>0, <2>3 DEF Frame, ProcessFrozen, DiscoverDuplicate, AheadDuplicate,
         InProcess, InDiscovery, InActive, Ahead, Goto, Labels, lane, time, regs
  <2>4. CASE AfterMessage \/ IdlePoll
    BY <1>0, <2>4 DEF Frame, AfterMessage, IdlePoll, CallPoll, Goto, Labels, time,
         Slot
  <2>5. CASE PollSkip
    <3>1. channels[index] \in Channels
      BY <1>0, <2>5 DEF Frame, PollSkip, InPoll
    <3>2. QED
      BY <1>0, <2>5, <3>1 DEF Frame, PollSkip, InPoll, Goto, Labels, time
  <2>6. CASE PollDone \/ BeginFlush \/ FlushDone \/ Terminated
    BY <1>0, <2>6 DEF Frame, PollDone, BeginFlush, FlushDone, Terminated, Goto,
         Labels, lane, time, regs, vars
  <2>7. QED
    BY <2>1, <2>2, <2>3, <2>4, <2>5, <2>6 DEF QuietStep
<1>4. QED
  BY <1>1, <1>2, <1>3, SplitIInvPrime

\* What IInv says of the channel of the call in progress.
LEMMA CurFacts ==
  ASSUME IInv, NEW c \in Channels
  PROVE  /\ state[c] \in ChannelState /\ log[c] \in ChannelLog
         /\ Draining(c) \in BOOLEAN
         /\ ChannelInv(state[c], log[c], Draining(c))
         /\ ~Draining(c) => ChannelInv(state[c], log[c], FALSE)
         /\ ChannelInv(state[c], log[c], TRUE)
<1>1. /\ state[c] \in ChannelState /\ log[c] \in ChannelLog
      /\ ChannelInv(state[c], log[c], Draining(c))
  BY DEF IInv, TypeOK
<1>2. Draining(c) \in BOOLEAN
  BY DEF Draining
<1>3. ~Draining(c) => ChannelInv(state[c], log[c], FALSE)
  BY <1>1, <1>2 DEF ChannelInv, AheadInv
<1>4. ChannelInv(state[c], log[c], TRUE)
  BY <1>1, <1>2 DEF ChannelInv, AheadInv
<1>5. QED
  BY <1>1, <1>2, <1>3, <1>4

\* A step on channel c that does not start draining: the table is unchanged.
LEMMA SameTableStep ==
  ASSUME IInv, pc # "drain", pc' # "drain",
         NEW c \in Channels, NEW r \in ChannelState, NEW m \in ChannelLog,
         state' = [state EXCEPT ![c] = r], log' = [log EXCEPT ![c] = m],
         r.pending = state[c].pending, r.pending_count = state[c].pending_count,
         r.expected = state[c].expected, r.discovering = state[c].discovering,
         r.cumulative_missing = state[c].cumulative_missing,
         r.gap_epoch = state[c].gap_epoch,
         r.history_complete = state[c].history_complete,
         m.origin = log[c].origin, m.committed = log[c].committed,
         m.gaps = log[c].gaps
  PROVE  PerChannel'
<1>1. ChannelInv(state[c], log[c], FALSE)
  BY CurFacts DEF Draining
<1>2. ChannelInv(r, m, FALSE)
  BY <1>1, CurFacts, SameTableInv
<1>3. (pc' = "drain" /\ cur' = c) = FALSE
  OBVIOUS
<1>4. ChannelInv(r, m, pc' = "drain" /\ cur' = c)
  BY <1>2, <1>3
<1>5. QED
  BY <1>4, OneChannelStep DEF PerChannel

\* Process finds or creates the tick's channel; only its history changes.
LEMMA ProcessInv ==
  ASSUME IInv, NEW c \in Channels, NEW tick \in Tick, NEW t \in 1..MaxArrivalTime,
         Process(c, tick, t)
  PROVE  IInv'
<1> DEFINE m == [log[c] EXCEPT !.received = log[c].received \cup {tick}]
<1>0. Frame /\ log \in [Channels -> ChannelLog] /\ state \in [Channels -> ChannelState]
  BY SplitIInv DEF PerChannel
<1>1. pc # "drain" /\ pc' # "drain"
  BY DEF Process, Consume, Goto
<1>2. Frame'
  <2>1. channels' \in Seq(Channels)
    <3>1. channels' = channels \/ channels' = Append(channels, c)
      BY DEF Process
    <3>2. QED
      BY <1>0, <3>1 DEF Frame
  <2>2. healthy' \in BOOLEAN
    BY <1>0 DEF Frame, Process
  <2>3. msg' \in Tick /\ msg' \in Slot /\ cur' \in Channels
    BY DEF Process, Slot, Tick
  <2>4. pc' \in Labels /\ ret' = ret
    BY DEF Process, Goto, Labels
  <2>5. /\ now' \in Nat /\ last_receive' \in Nat /\ arrivals' \in Nat
        /\ UNCHANGED <<clock, index, next_deadline_ns, next_timer>>
    <3>1. Consume(t)
      BY DEF Process
    <3>2. QED
      BY <1>0, <3>1, ConstantsAssumption DEF Frame, Consume
  <2>6. QED
    BY <1>0, <2>1, <2>2, <2>3, <2>4, <2>5 DEF Frame
<1>3. UNCHANGED state /\ (UNCHANGED log \/ log' = [log EXCEPT ![c] = m])
  BY DEF Process
<1>4. PerChannel'
  <2>1. CASE UNCHANGED log
    BY <1>1, <1>3, <2>1, NoChannelStep DEF PerChannel
  <2>2. CASE log' = [log EXCEPT ![c] = m]
    <3>1. /\ m \in ChannelLog /\ m.origin = log[c].origin
          /\ m.committed = log[c].committed /\ m.gaps = log[c].gaps
      BY <1>0 DEF ChannelLog
    <3>2. state' = [state EXCEPT ![c] = state[c]]
      BY <1>0, <1>3
    <3>3. state[c] \in ChannelState
      BY <1>0
    <3>4. QED
      BY <1>1, <2>2, <3>1, <3>2, <3>3, SameTableStep
  <2>3. QED
    BY <1>3, <2>1, <2>2
<1>5. QED
  BY <1>1, <1>2, <1>4, SplitIInvPrime

\* FreezeFromOpen sets the frozen flag and reports; the table stays.
LEMMA FreezeInv ==
  ASSUME IInv, pc # "drain", pc' # "drain", NEW c \in Channels,
         NEW reason \in {"kDecodeFailure", "kCanonicalConflict"},
         NEW observed \in Seqs,
         FreezeFromOpen(c, reason, observed)
  PROVE  PerChannel'
<1> DEFINE f == [reason |-> reason, expected |-> state[c].expected,
                 observed |-> observed]
           r == [state[c] EXCEPT !.frozen = TRUE]
           m == [log[c] EXCEPT !.faults = Append(log[c].faults, f)]
<1>1. state[c] \in ChannelState /\ log[c] \in ChannelLog
  BY CurFacts
<1>2. state' = [state EXCEPT ![c] = r] /\ log' = [log EXCEPT ![c] = m]
  BY DEF FreezeFromOpen, Update
<1>3. f \in FaultRecord
  BY <1>1 DEF FaultRecord, ChannelState
<1>4. Append(log[c].faults, f) \in Seq(FaultRecord)
  BY <1>1, <1>3 DEF ChannelLog
<1>5. r \in ChannelState /\ m \in ChannelLog
  BY <1>1, <1>4 DEF ChannelState, ChannelLog
<1>6. /\ r.pending = state[c].pending /\ r.pending_count = state[c].pending_count
      /\ r.expected = state[c].expected /\ r.discovering = state[c].discovering
      /\ r.cumulative_missing = state[c].cumulative_missing
      /\ r.gap_epoch = state[c].gap_epoch
      /\ r.history_complete = state[c].history_complete
      /\ m.origin = log[c].origin /\ m.committed = log[c].committed
      /\ m.gaps = log[c].gaps
  BY <1>1 DEF ChannelState, ChannelLog
<1> HIDE DEF r, m
<1>7. QED
  BY <1>2, <1>5, <1>6, SameTableStep

\* A decode failure with a readable position freezes the channel, or is fatal.
LEMMA FreezeDecodeFailureInv ==
  ASSUME IInv, NEW c \in Channels, NEW seq \in Seqs, NEW t \in 1..MaxArrivalTime,
         FreezeDecodeFailure(c, seq, t)
  PROVE  IInv'
<1>0. Frame
  BY SplitIInv
<1>1. pc # "drain" /\ pc' # "drain"
  BY DEF FreezeDecodeFailure, Consume, Goto
<1>2. \/ UNCHANGED <<state, log>>
      \/ FreezeFromOpen(c, "kDecodeFailure", seq)
  BY DEF FreezeDecodeFailure
<1>3. PerChannel'
  BY <1>1, <1>2, NoChannelStep, FreezeInv DEF PerChannel
<1>4. healthy' \in BOOLEAN
  BY <1>0 DEF FreezeDecodeFailure, FreezeFromOpen, Frame
<1>5. Frame'
  <2>1. channels' \in Seq(Channels)
    <3>1. channels' = channels \/ channels' = Append(channels, c)
      BY DEF FreezeDecodeFailure
    <3>2. QED
      BY <1>0, <3>1 DEF Frame
  <2>2. cur' \in Channels /\ UNCHANGED msg
    BY <1>0 DEF Frame, FreezeDecodeFailure
  <2>3. pc' = "after" /\ ret' = ret
    BY DEF FreezeDecodeFailure, Goto
  <2>4. /\ now' \in Nat /\ last_receive' \in Nat /\ arrivals' \in Nat
        /\ UNCHANGED <<clock, index, next_deadline_ns, next_timer>>
    BY <1>0, ConstantsAssumption DEF Frame, FreezeDecodeFailure, Consume
  <2>5. QED
    BY <1>0, <1>4, <2>1, <2>2, <2>3, <2>4 DEF Frame, Labels
<1>6. QED
  BY <1>1, <1>3, <1>5, SplitIInvPrime

\* DivertLateRecovery publishes or loses the tick; the table stays.
LEMMA DivertInv ==
  ASSUME IInv, pc = "process", UNCHANGED <<time, regs>>,
         NEW reason \in {"kBehindCommittedFrontier", "kPendingCanonicalConflict"},
         DivertLateRecovery(reason)
  PROVE  IInv'
<1>0. Frame /\ cur \in Channels /\ msg \in Tick
  BY SplitIInv DEF Frame
<1>1. pc # "drain" /\ pc' = "after"
  BY DEF DivertLateRecovery, Goto
<1>2. state[cur] \in ChannelState /\ log[cur] \in ChannelLog
      /\ state \in [Channels -> ChannelState]
  BY <1>0, CurFacts, SplitIInv DEF PerChannel
<1> DEFINE late == [seq |-> msg.seq, body |-> msg.body, reason |-> reason,
                    committed_next |-> state[cur].expected,
                    epoch |-> state[cur].gap_epoch]
           m1 == [log[cur] EXCEPT !.late = log[cur].late \cup {late}]
           m2 == [log[cur] EXCEPT !.lost = log[cur].lost \cup {msg}]
<1>3. UNCHANGED state /\ \/ log' = [log EXCEPT ![cur] = m1]
                         \/ log' = [log EXCEPT ![cur] = m2]
  <2>1. PICK ok \in Outcomes :
          log' = [log EXCEPT ![cur] =
            IF ok THEN [log[cur] EXCEPT !.late = log[cur].late \cup {late}]
                  ELSE [log[cur] EXCEPT !.lost = log[cur].lost \cup {msg}]]
    BY DEF DivertLateRecovery
  <2>2. CASE ok
    BY <2>1, <2>2 DEF DivertLateRecovery
  <2>3. CASE ~ok
    BY <2>1, <2>3 DEF DivertLateRecovery
  <2>4. QED
    BY <2>2, <2>3
<1>4. late \in LateRecord
  BY <1>0, <1>2 DEF LateRecord, Tick, ChannelState
<1>5. m1 \in ChannelLog /\ m2 \in ChannelLog
  BY <1>0, <1>2, <1>4 DEF ChannelLog
<1>6. /\ m1.origin = log[cur].origin /\ m1.committed = log[cur].committed
      /\ m1.gaps = log[cur].gaps
      /\ m2.origin = log[cur].origin /\ m2.committed = log[cur].committed
      /\ m2.gaps = log[cur].gaps
  BY <1>2 DEF ChannelLog
<1>7. state' = [state EXCEPT ![cur] = state[cur]]
  BY <1>0, <1>2, <1>3
<1> HIDE DEF m1, m2
<1>8. PerChannel'
  BY <1>0, <1>1, <1>2, <1>3, <1>5, <1>6, <1>7, SameTableStep
<1>9. Frame'
  BY <1>0, <1>1 DEF Frame, DivertLateRecovery, Goto, Labels, time, regs
<1>10. QED
  BY <1>1, <1>8, <1>9, SplitIInvPrime

-----------------------------------------------------------------------------
(***************************************************************************)
(* Steps on one channel, once the new state of the channel is known.       *)
(***************************************************************************)
\* The lane is in DrainContiguous on channel c after the step.
LEMMA DrainingStep ==
  ASSUME IInv, NEW c \in Channels, NEW r \in ChannelState, NEW m \in ChannelLog,
         state' = [state EXCEPT ![c] = r], log' = [log EXCEPT ![c] = m],
         pc = "drain" => cur = c, pc' = "drain", cur' = c,
         ~r.discovering, ChannelInv(r, m, TRUE), Frame'
  PROVE  IInv'
<1>1. (pc' = "drain" /\ cur' = c) = TRUE
  OBVIOUS
<1>2. ChannelInv(r, m, pc' = "drain" /\ cur' = c)
  BY <1>1
<1>3. PerChannel'
  BY <1>2, OneChannelStep DEF PerChannel
<1>4. state'[cur'] = r
  BY DEF IInv, TypeOK
<1>5. QED
  BY <1>3, <1>4, SplitIInvPrime

\* The lane is not in DrainContiguous after the step.
LEMMA SettledStep ==
  ASSUME IInv, NEW c \in Channels, NEW r \in ChannelState, NEW m \in ChannelLog,
         state' = [state EXCEPT ![c] = r], log' = [log EXCEPT ![c] = m],
         pc = "drain" => cur = c, pc' # "drain",
         ChannelInv(r, m, FALSE), Frame'
  PROVE  IInv'
<1>1. (pc' = "drain" /\ cur' = c) = FALSE
  OBVIOUS
<1>2. ChannelInv(r, m, pc' = "drain" /\ cur' = c)
  BY <1>1
<1>3. PerChannel'
  BY <1>2, OneChannelStep DEF PerChannel
<1>4. QED
  BY <1>3, SplitIInvPrime

\* The part of the state a handler of the current tick leaves alone.
LEMMA ProcessFrame ==
  ASSUME IInv, InProcess, UNCHANGED <<channels, next_timer>>,
         next_deadline_ns' \in Nat, healthy' \in BOOLEAN,
         pc' \in Labels, ret' \in Labels \ {"drain", "done"}
  PROVE  Frame'
<1>1. Frame
  BY SplitIInv
<1>2. QED
  BY <1>1 DEF Frame, InProcess, time, regs

\* What is known of the current tick and its channel inside a handler.
LEMMA ProcessFacts ==
  ASSUME IInv, InProcess
  PROVE  /\ cur \in Channels /\ msg \in Tick /\ now \in Nat /\ healthy \in BOOLEAN
         /\ next_deadline_ns \in Nat /\ ret \in Labels \ {"drain", "done"}
         /\ state[cur] \in ChannelState /\ log[cur] \in ChannelLog
         /\ ChannelInv(state[cur], log[cur], FALSE)
         /\ pc = "process" /\ cur' = cur
<1>1. /\ cur \in Channels /\ msg \in Tick /\ now \in Nat /\ healthy \in BOOLEAN
      /\ next_deadline_ns \in Nat /\ ret \in Labels \ {"drain", "done"}
      /\ pc = "process" /\ cur' = cur
  BY SplitIInv DEF Frame, InProcess, regs
<1>2. ~Draining(cur)
  BY <1>1 DEF Draining
<1>3. QED
  BY <1>1, <1>2, CurFacts

\* Conflicting and late ticks are diverted, or freeze the channel.
LEMMA ConflictInv ==
  ASSUME IInv, DiscoverConflict \/ LateArrival \/ AheadConflict
  PROVE  IInv'
<1>0. InProcess
  BY DEF DiscoverConflict, LateArrival, AheadConflict, Ahead, InDiscovery, InActive
<1>1. CASE DivertLateRecovery("kPendingCanonicalConflict")
           \/ DivertLateRecovery("kBehindCommittedFrontier")
  BY <1>0, <1>1, DivertInv DEF InProcess
<1>2. CASE /\ FreezeFromOpen(cur, "kCanonicalConflict", msg.seq)
           /\ Goto("after") /\ UNCHANGED <<channels, next_deadline_ns, next_timer>>
  <2>1. cur \in Channels /\ msg.seq \in Seqs /\ pc # "drain" /\ pc' = "after" /\ ret' = ret
    BY <1>0, <1>2, ProcessFacts DEF Tick, Goto
  <2>2. PerChannel'
    BY <1>2, <2>1, FreezeInv
  <2>3. healthy' \in BOOLEAN
    BY <1>0, <1>2, ProcessFacts DEF FreezeFromOpen
  <2>4. Frame'
    BY <1>0, <1>2, <2>1, <2>3, ProcessFacts, ProcessFrame DEF Labels
  <2>5. QED
    BY <2>1, <2>2, <2>4, SplitIInvPrime
<1>3. QED
  BY <1>1, <1>2 DEF DiscoverConflict, LateArrival, AheadConflict

\* An occupied slot means a channel with something pending.
LEMMA OccupiedCounted ==
  ASSUME NEW s \in ChannelState, NEW l, NEW d, ChannelInv(s, l, d)
  PROVE  /\ s.pending_count = 0 <=> Occupied(s) = {}
         /\ \A n \in Nat : s.pending[SlotOf(n)].seq # 0 => s.pending_count # 0
<1>1. s.pending_count = 0 <=> Occupied(s) = {}
  BY OccupiedFinite DEF ChannelInv, SlotsInv
<1>2. QED
  BY <1>1, SlotInRange DEF Occupied

\* A collision while discovering ends discovery on a table that is not empty.
LEMMA DiscoverCollisionInv == ASSUME IInv, DiscoverCollision PROVE IInv'
<1>0. InProcess /\ state[cur].discovering
  BY DEF DiscoverCollision, InDiscovery
<1> DEFINE s == state[cur]
           l == log[cur]
           r == FinishDiscovery(s)
           m0 == [l EXCEPT !.origin = MinimumPending(s)]
           m == [l EXCEPT !.held = l.held \cup {msg.seq}, !.origin = MinimumPending(s)]
<1>1. /\ cur \in Channels /\ msg \in Tick /\ msg.seq \in Seqs
      /\ s \in ChannelState /\ l \in ChannelLog /\ ChannelInv(s, l, FALSE)
  BY <1>0, ProcessFacts DEF Tick
<1>2. s.pending_count # 0
  <2>1. s.pending[SlotOf(msg.seq)].seq # 0
    BY DEF DiscoverCollision, InsertResult
  <2>2. msg.seq \in Nat
    BY <1>1 DEF Seqs
  <2> HIDE DEF s, l
  <2>3. QED
    BY <1>1, <2>1, <2>2, OccupiedCounted
<1>3. r \in ChannelState /\ m0 \in ChannelLog /\ ~r.discovering /\ ChannelInv(r, m0, TRUE)
  BY <1>0, <1>1, <1>2, StartInv
<1>4. /\ m \in ChannelLog /\ m.origin = m0.origin /\ m.committed = m0.committed
      /\ m.gaps = m0.gaps
  BY <1>1, <1>3 DEF ChannelLog
<1> HIDE DEF r, m, m0
<1>5. ChannelInv(r, m, TRUE)
  BY <1>3, <1>4, SameTableInv
<1>6. /\ state' = [state EXCEPT ![cur] = r] /\ log' = [log EXCEPT ![cur] = m]
      /\ pc' = "drain" /\ ret' = "process"
  BY DEF DiscoverCollision, Update, DrainThen, Held, r, m
<1>7. Frame'
  <2>1. UNCHANGED <<channels, next_timer, next_deadline_ns, healthy>>
    BY DEF DiscoverCollision, lane
  <2>2. QED
    BY <1>0, <1>6, <2>1, ProcessFacts, ProcessFrame DEF Labels
<1>8. QED
  BY <1>0, <1>1, <1>3, <1>4, <1>5, <1>6, <1>7, ProcessFacts, DrainingStep

\* A tick retained while discovering, which may end the initial hold.
LEMMA DiscoverInsertInv == ASSUME IInv, DiscoverInsert PROVE IInv'
<1> DEFINE s0 == state[cur]
           l == log[cur]
           fresh == s0.first_seen_ns = 0
           s1 == Insert(s0, msg)
           s == [s1 EXCEPT !.first_seen_ns = IF fresh THEN now ELSE s1.first_seen_ns]
           due == InitialHold = 0 \/ DeadlineReached(now, s.first_seen_ns, InitialHold)
           r == FinishDiscovery(s)
           m0 == [l EXCEPT !.origin = MinimumPending(s)]
           m1 == [l EXCEPT !.held = l.held \cup {msg.seq}, !.origin = MinimumPending(s)]
           m2 == [l EXCEPT !.held = l.held \cup {msg.seq}, !.origin = l.origin]
<1>0. InProcess /\ s0.discovering /\ s0.pending[SlotOf(msg.seq)].seq = 0
  BY DEF DiscoverInsert, InDiscovery, InsertResult
<1>1. /\ cur \in Channels /\ msg \in Tick /\ msg.seq \in Seqs /\ now \in Nat
      /\ s0 \in ChannelState /\ l \in ChannelLog /\ ChannelInv(s0, l, FALSE)
  BY <1>0, ProcessFacts DEF Tick
<1>2. s1 \in ChannelState /\ s1.discovering = s0.discovering /\ ChannelInv(s1, l, FALSE)
  BY <1>0, <1>1, InsertInv
<1>3. s1.pending_count # 0
  <2>1. s1.pending_count = s0.pending_count + 1 /\ s0.pending_count \in Nat
    BY <1>1 DEF Insert, ChannelState
  <2>2. QED
    BY <2>1
<1> HIDE DEF s1, s0, l, fresh
<1>4. /\ s \in ChannelState /\ s.pending = s1.pending /\ s.expected = s1.expected
      /\ s.pending_count = s1.pending_count /\ s.discovering = s1.discovering
      /\ s.cumulative_missing = s1.cumulative_missing /\ s.gap_epoch = s1.gap_epoch
      /\ s.history_complete = s1.history_complete
  BY <1>1, <1>2 DEF ChannelState
<1> HIDE DEF s
<1>5. ChannelInv(s, l, FALSE)
  BY <1>1, <1>2, <1>4, SameTableInv
<1>6. /\ state' = [state EXCEPT ![cur] = IF due THEN r ELSE s]
      /\ log' = [log EXCEPT ![cur] = IF due THEN m1 ELSE m2]
      /\ IF due THEN pc' = "drain" /\ ret' = "after" ELSE pc' = "after" /\ ret' = ret
  <2>1. state' = [state EXCEPT ![cur] = IF due THEN r ELSE s]
    BY DEF DiscoverInsert, Update, fresh, s, s1, s0
  <2>2. log' = [log EXCEPT ![cur] = Held(IF due THEN MinimumPending(s) ELSE log[cur].origin)]
    BY DEF DiscoverInsert, fresh, s, s1, s0
  <2>3. log' = [log EXCEPT ![cur] = IF due THEN m1 ELSE m2]
    BY <2>2 DEF Held, l
  <2>4. IF due THEN pc' = "drain" /\ ret' = "after" ELSE pc' = "after" /\ ret' = ret
    BY DEF DiscoverInsert, DrainThen, Goto, fresh, s, s1, s0
  <2>5. QED
    BY <2>1, <2>3, <2>4
<1>7. Frame'
  <2>1. UNCHANGED <<channels, next_timer, healthy>>
    BY DEF DiscoverInsert
  <2>2. next_deadline_ns' \in Nat
    <3>1. \/ next_deadline_ns' = next_deadline_ns
          \/ next_deadline_ns' = Scheduled(next_deadline_ns, now, InitialHold)
      BY DEF DiscoverInsert
    <3>2. next_deadline_ns \in Nat /\ InitialHold \in Nat
      BY <1>0, ProcessFacts, ConstantsAssumption
    <3>3. QED
      BY <1>1, <3>1, <3>2, ScheduledType
  <2>3. pc' \in Labels /\ ret' \in Labels \ {"drain", "done"}
    BY <1>0, <1>6, ProcessFacts DEF Labels
  <2>4. QED
    BY <1>0, <2>1, <2>2, <2>3, ProcessFacts, ProcessFrame
<1>8. CASE due
  <2>1. r \in ChannelState /\ m0 \in ChannelLog /\ ~r.discovering /\ ChannelInv(r, m0, TRUE)
    BY <1>0, <1>1, <1>2, <1>3, <1>4, <1>5, StartInv
  <2>2. /\ m1 \in ChannelLog /\ m1.origin = m0.origin /\ m1.committed = m0.committed
        /\ m1.gaps = m0.gaps
    BY <1>1, <2>1 DEF ChannelLog
  <2> HIDE DEF r, m1, m0, due
  <2>3. ChannelInv(r, m1, TRUE)
    BY <2>1, <2>2, SameTableInv
  <2>4. /\ state' = [state EXCEPT ![cur] = r] /\ log' = [log EXCEPT ![cur] = m1]
        /\ pc' = "drain"
    BY <1>6, <1>8
  <2>5. QED
    BY <1>0, <1>1, <1>7, <2>1, <2>2, <2>3, <2>4, ProcessFacts, DrainingStep
<1>9. CASE ~due
  <2>1. /\ m2 \in ChannelLog /\ m2.origin = l.origin /\ m2.committed = l.committed
        /\ m2.gaps = l.gaps
    BY <1>1 DEF ChannelLog
  <2> HIDE DEF m2, due
  <2>2. ChannelInv(s, m2, FALSE)
    BY <1>1, <1>4, <1>5, <2>1, SameTableInv
  <2>3. /\ state' = [state EXCEPT ![cur] = s] /\ log' = [log EXCEPT ![cur] = m2]
        /\ pc' = "after"
    BY <1>6, <1>9
  <2>4. QED
    BY <1>0, <1>1, <1>4, <1>7, <2>1, <2>2, <2>3, ProcessFacts, SettledStep
<1>10. QED
  BY <1>8, <1>9

\* A tick at the frontier is emitted, or lost to a full queue.
LEMMA EmitAtFrontierInv == ASSUME IInv, EmitAtFrontier PROVE IInv'
<1> DEFINE s == state[cur]
           l == log[cur]
           taken == TakeGapMetadata(s, msg.body)
           r == [taken EXCEPT !.expected = s.expected + 1]
           m1 == [l EXCEPT !.committed = Append(l.committed, EmittedRecord(s, msg))]
           m2 == [l EXCEPT !.lost = l.lost \cup {msg}]
<1>0. InProcess /\ ~s.discovering /\ msg.seq = s.expected
  BY DEF EmitAtFrontier, InActive
<1>1. /\ cur \in Channels /\ msg \in Tick
      /\ s \in ChannelState /\ l \in ChannelLog /\ ChannelInv(s, l, FALSE)
  BY <1>0, ProcessFacts
<1>2. PICK ok \in EmitResults(msg.body) :
        /\ state' = [state EXCEPT ![cur] = IF ok THEN r ELSE taken]
        /\ log' = [log EXCEPT ![cur] = IF ok THEN m1 ELSE m2]
        /\ healthy' = (healthy /\ ok)
        /\ IF ok THEN pc' = "drain" /\ ret' = "after" ELSE pc' = "after" /\ ret' = ret
  BY DEF EmitAtFrontier, Update, DrainThen, Goto
<1>3. Frame'
  <2>1. UNCHANGED <<channels, next_timer, next_deadline_ns>>
    BY DEF EmitAtFrontier
  <2>2. healthy' \in BOOLEAN
    BY <1>2
  <2>3. pc' \in Labels /\ ret' \in Labels \ {"drain", "done"}
    BY <1>0, <1>2, ProcessFacts DEF Labels
  <2>4. QED
    BY <1>0, <2>1, <2>2, <2>3, ProcessFacts, ProcessFrame
<1>4. CASE ok
  <2>1. /\ r \in ChannelState /\ m1 \in ChannelLog /\ ChannelInv(r, m1, TRUE)
        /\ r.discovering = s.discovering
    BY <1>0, <1>1, CommitInv
  <2> HIDE DEF r, m1
  <2>2. /\ state' = [state EXCEPT ![cur] = r] /\ log' = [log EXCEPT ![cur] = m1]
        /\ pc' = "drain"
    BY <1>2, <1>4
  <2>3. QED
    BY <1>0, <1>1, <1>3, <2>1, <2>2, ProcessFacts, DrainingStep
<1>5. CASE ~ok
  <2>1. /\ taken \in ChannelState /\ taken.pending = s.pending
        /\ taken.expected = s.expected
        /\ taken.pending_count = s.pending_count /\ taken.discovering = s.discovering
        /\ taken.cumulative_missing = s.cumulative_missing
        /\ taken.gap_epoch = s.gap_epoch /\ taken.history_complete = s.history_complete
    BY <1>1 DEF ChannelState, TakeGapMetadata
  <2>2. /\ m2 \in ChannelLog /\ m2.origin = l.origin /\ m2.committed = l.committed
        /\ m2.gaps = l.gaps
    BY <1>1 DEF ChannelLog
  <2> HIDE DEF taken, m2
  <2>3. ChannelInv(taken, m2, FALSE)
    BY <1>1, <2>1, <2>2, SameTableInv
  <2>4. /\ state' = [state EXCEPT ![cur] = taken] /\ log' = [log EXCEPT ![cur] = m2]
        /\ pc' = "after"
    BY <1>2, <1>5
  <2>5. QED
    BY <1>0, <1>1, <1>3, <2>1, <2>2, <2>3, <2>4, ProcessFacts, SettledStep
<1>6. QED
  BY <1>4, <1>5

\* A tick ahead of the frontier that finds its slot free.
LEMMA AheadInsertFacts ==
  ASSUME IInv, Ahead("inserted")
  PROVE  /\ InProcess /\ ~state[cur].discovering /\ cur \in Channels
         /\ Insert(state[cur], msg) \in ChannelState
         /\ ~Insert(state[cur], msg).discovering
         /\ log[cur] \in ChannelLog
         /\ ChannelInv(Insert(state[cur], msg), log[cur], FALSE)
         /\ ChannelInv(Insert(state[cur], msg), log[cur], TRUE)
<1> DEFINE s == state[cur]
           l == log[cur]
<1>0. /\ InProcess /\ ~s.discovering /\ msg.seq > s.expected
      /\ s.pending[SlotOf(msg.seq)].seq = 0
  BY DEF Ahead, InActive, InsertResult
<1>1. /\ cur \in Channels /\ msg \in Tick
      /\ s \in ChannelState /\ l \in ChannelLog /\ ChannelInv(s, l, FALSE)
  BY <1>0, ProcessFacts
<1> HIDE DEF s, l
<1>2. /\ Insert(s, msg) \in ChannelState /\ Insert(s, msg).discovering = s.discovering
      /\ ChannelInv(Insert(s, msg), l, FALSE)
  BY <1>0, <1>1, InsertInv
<1>3. ChannelInv(Insert(s, msg), l, TRUE)
  BY <1>2, Weaken
<1>4. QED
  BY <1>0, <1>1, <1>2, <1>3 DEF s, l

\* ForceGapToMinimum from any place: the lane goes on to DrainContiguous.
LEMMA ForceStep ==
  ASSUME IInv, NEW c \in Channels, NEW s \in ChannelState, NEW label,
         ~s.discovering, ChannelInv(s, log[c], TRUE),
         ForceGapToMinimum(c, s, label),
         pc # "drain", cur' = c, Frame'
  PROVE  IInv'
<1> DEFINE r == AdvanceTo(s, MinimumPending(s))
           m == WithGap(log[c], s, MinimumPending(s))
<1>1. log[c] \in ChannelLog
  BY CurFacts
<1>2. r \in ChannelState /\ m \in ChannelLog /\ ~r.discovering /\ ChannelInv(r, m, TRUE)
  BY <1>1, ForceInv
<1>3. /\ state' = [state EXCEPT ![c] = r] /\ log' = [log EXCEPT ![c] = m]
      /\ pc' = "drain"
  BY DEF ForceGapToMinimum, Update, DrainThen
<1> HIDE DEF r, m
<1>4. QED
  BY <1>2, <1>3, DrainingStep

\* FinishDiscovery on a channel that holds records, from Poll or Flush.
LEMMA StartStep ==
  ASSUME IInv, NEW c \in Channels, NEW label,
         state[c].discovering, state[c].pending_count # 0,
         StartFromMinimum(c, state[c], label),
         pc # "drain", cur' = c, Frame'
  PROVE  IInv'
<1> DEFINE s == state[c]
           r == FinishDiscovery(s)
           m == [log[c] EXCEPT !.origin = MinimumPending(s)]
<1>1. s \in ChannelState /\ log[c] \in ChannelLog /\ ChannelInv(s, log[c], TRUE)
  BY CurFacts
<1>2. r \in ChannelState /\ m \in ChannelLog /\ ~r.discovering /\ ChannelInv(r, m, TRUE)
  BY <1>1, StartInv
<1>3. /\ state' = [state EXCEPT ![c] = r] /\ log' = [log EXCEPT ![c] = m]
      /\ pc' = "drain"
  BY DEF StartFromMinimum, Update, DrainThen
<1> HIDE DEF r, m
<1>4. QED
  BY <1>2, <1>3, DrainingStep

\* A tick within the span is retained; a zero gap wait forces the gap at once.
LEMMA AheadRetainInv == ASSUME IInv, AheadRetain PROVE IInv'
<1> DEFINE opens == state[cur].gap_open_ns = 0
           s1 == Insert(state[cur], msg)
           s == [s1 EXCEPT !.gap_open_ns = IF opens THEN now ELSE s1.gap_open_ns]
<1>0. Ahead("inserted")
  BY DEF AheadRetain
<1>1. /\ InProcess /\ cur \in Channels /\ s1 \in ChannelState /\ ~s1.discovering
      /\ log[cur] \in ChannelLog /\ log \in [Channels -> ChannelLog]
      /\ ChannelInv(s1, log[cur], FALSE) /\ ChannelInv(s1, log[cur], TRUE)
  BY <1>0, AheadInsertFacts, SplitIInv DEF PerChannel
<1>2. /\ now \in Nat /\ next_deadline_ns \in Nat /\ pc # "drain" /\ cur' = cur
      /\ ret \in Labels \ {"drain", "done"} /\ healthy \in BOOLEAN
  BY <1>1, ProcessFacts
<1> HIDE DEF s1, opens
<1>3. /\ s \in ChannelState /\ s.pending = s1.pending /\ s.expected = s1.expected
      /\ s.pending_count = s1.pending_count /\ s.discovering = s1.discovering
      /\ s.cumulative_missing = s1.cumulative_missing /\ s.gap_epoch = s1.gap_epoch
      /\ s.history_complete = s1.history_complete
  BY <1>1, <1>2 DEF ChannelState
<1> HIDE DEF s
<1>4. ChannelInv(s, log[cur], FALSE) /\ ChannelInv(s, log[cur], TRUE)
  BY <1>1, <1>3, SameTableInv
<1>5. IF GapWait = 0
        THEN ForceGapToMinimum(cur, s, "after")
        ELSE state' = [state EXCEPT ![cur] = s] /\ pc' = "after" /\ ret' = ret
             /\ UNCHANGED log
  BY DEF AheadRetain, Update, Goto, opens, s, s1
<1>6. Frame'
  <2>1. UNCHANGED <<channels, next_timer, healthy>>
    BY DEF AheadRetain
  <2>2. \/ next_deadline_ns' = next_deadline_ns
        \/ next_deadline_ns' = Scheduled(next_deadline_ns, now, GapWait)
    BY DEF AheadRetain
  <2>3. next_deadline_ns' \in Nat
    <3>1. GapWait \in Nat
      BY ConstantsAssumption
    <3>2. QED
      BY <1>2, <2>2, <3>1, ScheduledType
  <2>4. pc' \in Labels /\ ret' \in Labels \ {"drain", "done"}
    BY <1>2, <1>5 DEF Labels, ForceGapToMinimum, DrainThen
  <2>5. QED
    BY <1>1, <1>2, <2>1, <2>3, <2>4, ProcessFrame
<1>7. CASE GapWait = 0
  BY <1>1, <1>2, <1>3, <1>4, <1>5, <1>6, <1>7, ForceStep
<1>8. CASE GapWait # 0
  <2>1. /\ state' = [state EXCEPT ![cur] = s] /\ pc' = "after"
        /\ log' = [log EXCEPT ![cur] = log[cur]]
    BY <1>1, <1>5, <1>8
  <2>2. QED
    BY <1>1, <1>2, <1>3, <1>4, <1>6, <2>1, SettledStep
<1>9. QED
  BY <1>7, <1>8

\* A tick beyond the span forces the gap.
LEMMA AheadFarInv == ASSUME IInv, AheadFar PROVE IInv'
<1>0. Ahead("inserted") /\ ForceGapToMinimum(cur, Insert(state[cur], msg), "after")
  BY DEF AheadFar
<1>1. UNCHANGED <<channels, next_timer, healthy, next_deadline_ns>>
  BY DEF AheadFar, lane
<1>2. pc' = "drain" /\ ret' = "after"
  BY <1>0 DEF ForceGapToMinimum, DrainThen
<1>3. InProcess
  BY <1>0 DEF Ahead, InActive
<1>4. Frame'
  BY <1>1, <1>2, <1>3, ProcessFacts, ProcessFrame DEF Labels
<1>5. QED
  BY <1>0, <1>3, <1>4, AheadInsertFacts, ProcessFacts, ForceStep

\* A collision moves the frontier to the tick or to the smallest retained one.
LEMMA AheadCollisionInv == ASSUME IInv, AheadCollision PROVE IInv'
<1> DEFINE s == state[cur]
           l == log[cur]
           r == AdvanceTo(s, msg.seq)
           m == WithGap(l, s, msg.seq)
<1>0. InProcess /\ ~s.discovering /\ msg.seq > s.expected
  BY DEF AheadCollision, Ahead, InActive
<1>1. /\ cur \in Channels /\ msg \in Tick /\ pc # "drain" /\ cur' = cur
      /\ s \in ChannelState /\ l \in ChannelLog /\ ChannelInv(s, l, FALSE)
  BY <1>0, ProcessFacts
<1>2. UNCHANGED <<channels, next_timer, healthy, next_deadline_ns>>
  BY DEF AheadCollision, lane
<1>3. CASE /\ msg.seq < MinimumPending(s)
           /\ Update(cur, r) /\ log' = [log EXCEPT ![cur] = m] /\ Goto("process")
  <2>1. pc' = "process" /\ ret' = ret /\ state' = [state EXCEPT ![cur] = r]
    BY <1>3 DEF Goto, Update
  <2>2. Frame'
    BY <1>0, <1>2, <2>1, ProcessFacts, ProcessFrame DEF Labels
  <2>3. r \in ChannelState /\ m \in ChannelLog /\ ChannelInv(r, m, FALSE)
    BY <1>0, <1>1, <1>3, JumpInv
  <2> HIDE DEF r, m
  <2>4. QED
    BY <1>1, <1>3, <2>1, <2>2, <2>3, SettledStep
<1>4. CASE ForceGapToMinimum(cur, s, "process")
  <2>1. pc' = "drain" /\ ret' = "process"
    BY <1>4 DEF ForceGapToMinimum, DrainThen
  <2>2. Frame'
    BY <1>0, <1>2, <2>1, ProcessFacts, ProcessFrame DEF Labels
  <2>3. ChannelInv(s, l, TRUE)
    BY <1>1, Weaken
  <2>4. QED
    BY <1>0, <1>1, <1>4, <2>2, <2>3, ForceStep
<1>5. QED
  BY <1>3, <1>4 DEF AheadCollision

\* What is known inside DrainContiguous.
LEMMA DrainFacts ==
  ASSUME IInv, pc = "drain"
  PROVE  /\ Frame /\ cur \in Channels /\ now \in Nat /\ healthy \in BOOLEAN
         /\ next_deadline_ns \in Nat /\ ret \in Labels \ {"drain", "done"}
         /\ ~state[cur].discovering
         /\ state[cur] \in ChannelState /\ log[cur] \in ChannelLog
         /\ ChannelInv(state[cur], log[cur], TRUE)
<1>1. Frame /\ cur \in Channels
  BY SplitIInv DEF Frame
<1>2. QED
  BY <1>1, CurFacts, SplitIInv DEF Frame

\* DrainContiguous emits the record at the frontier.
LEMMA DrainEmitInv == ASSUME IInv, DrainEmit PROVE IInv'
<1> DEFINE s == state[cur]
           l == log[cur]
           f == FreeFrontierSlot(s)
           t == s.pending[SlotOf(s.expected)]
           taken == TakeGapMetadata(f, t.body)
           r == [taken EXCEPT !.expected = s.expected + 1]
           m1 == [l EXCEPT !.committed = Append(l.committed, EmittedRecord(s, t))]
           m2 == [l EXCEPT !.lost = l.lost \cup {t}]
<1>0. pc = "drain" /\ FrontierPresent(s)
  BY DEF DrainEmit
<1>1. /\ Frame /\ cur \in Channels /\ s \in ChannelState /\ l \in ChannelLog
      /\ ~s.discovering /\ ChannelInv(s, l, TRUE) /\ ret \in Labels \ {"drain", "done"}
  BY <1>0, DrainFacts
<1>2. PICK ok \in EmitResults(t.body) :
        /\ state' = [state EXCEPT ![cur] = IF ok THEN r ELSE taken]
        /\ log' = [log EXCEPT ![cur] = IF ok THEN m1 ELSE m2]
        /\ healthy' = (healthy /\ ok)
        /\ pc' = (IF ok THEN "drain" ELSE ret) /\ ret' = ret
  BY DEF DrainEmit, Update, Goto
<1>3. UNCHANGED <<channels, next_deadline_ns, next_timer, time, regs>> /\ cur' = cur
  BY DEF DrainEmit, regs
<1>4. Frame'
  <2>1. healthy' \in BOOLEAN /\ pc' \in Labels /\ ret' = ret
    BY <1>1, <1>2 DEF Labels
  <2>2. pc' = "process" => ret = "process"
    BY <1>1, <1>2
  <2>3. QED
    BY <1>0, <1>1, <1>3, <2>1, <2>2 DEF Frame, time, regs
<1>5. f \in ChannelState /\ ChannelInv(f, l, FALSE) /\ t \in Tick
  <2> HIDE DEF s, l
  <2>1. QED
    BY <1>0, <1>1, FreeInv
<1>6. /\ f.expected = s.expected /\ f.discovering = s.discovering
      /\ f.history_complete = s.history_complete /\ f.gap_epoch = s.gap_epoch
      /\ f.gap_metadata_pending = s.gap_metadata_pending
      /\ f.pending_gap_first = s.pending_gap_first
      /\ f.pending_gap_last = s.pending_gap_last
  BY <1>1 DEF FreeFrontierSlot, ChannelState
<1>7. EmittedRecord(f, t) = EmittedRecord(s, t) /\ t.seq = s.expected
  BY <1>0, <1>6 DEF EmittedRecord, FrontierPresent
<1> HIDE DEF f, t
<1>8. CASE ok
  <2>1. /\ r \in ChannelState /\ m1 \in ChannelLog /\ ChannelInv(r, m1, TRUE)
        /\ ~r.discovering
    <3>1. /\ [taken EXCEPT !.expected = f.expected + 1] = r
          /\ [l EXCEPT !.committed = Append(l.committed, EmittedRecord(f, t))] = m1
      BY <1>6, <1>7
    <3> HIDE DEF r, m1, s, l
    <3>2. QED
      BY <1>1, <1>5, <1>6, <1>7, <3>1, CommitInv
  <2> HIDE DEF r, m1
  <2>2. /\ state' = [state EXCEPT ![cur] = r] /\ log' = [log EXCEPT ![cur] = m1]
        /\ pc' = "drain"
    BY <1>2, <1>8
  <2>3. QED
    BY <1>1, <1>3, <1>4, <2>1, <2>2, DrainingStep
<1>9. CASE ~ok
  <2>1. /\ taken \in ChannelState /\ taken.pending = f.pending
        /\ taken.expected = f.expected
        /\ taken.pending_count = f.pending_count /\ taken.discovering = f.discovering
        /\ taken.cumulative_missing = f.cumulative_missing
        /\ taken.gap_epoch = f.gap_epoch /\ taken.history_complete = f.history_complete
    BY <1>5 DEF ChannelState, TakeGapMetadata
  <2>2. /\ m2 \in ChannelLog /\ m2.origin = l.origin /\ m2.committed = l.committed
        /\ m2.gaps = l.gaps
    BY <1>1, <1>5 DEF ChannelLog
  <2> HIDE DEF taken, m2
  <2>3. ChannelInv(taken, m2, FALSE)
    BY <1>1, <1>5, <2>1, <2>2, SameTableInv
  <2>4. /\ state' = [state EXCEPT ![cur] = taken] /\ log' = [log EXCEPT ![cur] = m2]
        /\ pc' # "drain"
    BY <1>1, <1>2, <1>9
  <2>5. QED
    BY <1>1, <1>4, <2>1, <2>2, <2>3, <2>4, SettledStep
<1>10. QED
  BY <1>8, <1>9

\* DrainContiguous ends and arms the gap timer for what is still retained.
LEMMA DrainDoneInv == ASSUME IInv, DrainDone PROVE IInv'
<1> DEFINE s == state[cur]
           l == log[cur]
           r == [s EXCEPT !.gap_open_ns = IF s.pending_count # 0 THEN now ELSE 0]
<1>0. pc = "drain" /\ ~FrontierPresent(s)
  BY DEF DrainDone
<1>1. /\ Frame /\ cur \in Channels /\ s \in ChannelState /\ l \in ChannelLog
      /\ ChannelInv(s, l, TRUE) /\ ret \in Labels \ {"drain", "done"}
      /\ now \in Nat /\ next_deadline_ns \in Nat /\ log \in [Channels -> ChannelLog]
  BY <1>0, DrainFacts, SplitIInv DEF PerChannel
<1>2. ChannelInv(s, l, FALSE)
  BY <1>0, <1>1, DrainEndInv
<1>3. /\ r \in ChannelState /\ r.pending = s.pending /\ r.expected = s.expected
      /\ r.pending_count = s.pending_count /\ r.discovering = s.discovering
      /\ r.cumulative_missing = s.cumulative_missing /\ r.gap_epoch = s.gap_epoch
      /\ r.history_complete = s.history_complete
  BY <1>1 DEF ChannelState
<1>4. /\ state' = [state EXCEPT ![cur] = r] /\ log' = [log EXCEPT ![cur] = l]
      /\ pc' = ret /\ ret' = ret
  BY <1>1 DEF DrainDone, Update, Goto
<1>5. Frame'
  <2>1. \/ next_deadline_ns' = next_deadline_ns
        \/ next_deadline_ns' = Scheduled(next_deadline_ns, now, GapWait)
    BY DEF DrainDone
  <2>2. GapWait \in Nat
    BY ConstantsAssumption
  <2>3. next_deadline_ns' \in Nat
    BY <1>1, <2>1, <2>2, ScheduledType
  <2>4. UNCHANGED <<channels, next_timer, healthy, time, regs>>
    BY DEF DrainDone
  <2>5. QED
    BY <1>0, <1>1, <1>4, <2>3, <2>4 DEF Frame, time, regs
<1> HIDE DEF r
<1>6. ChannelInv(r, l, FALSE)
  BY <1>1, <1>2, <1>3, SameTableInv
<1>7. QED
  BY <1>1, <1>3, <1>4, <1>5, <1>6, SettledStep

\* What is known when Poll or Flush looks at a channel of the lane.
LEMMA ScanFacts ==
  ASSUME IInv, InPoll \/ InFlush
  PROVE  /\ Frame /\ channels[index] \in Channels /\ pc # "drain"
         /\ cur' = channels[index] /\ now \in Nat /\ index + 1 \in Nat \ {0}
         /\ pc = "poll" \/ pc = "flush"
<1>1. Frame
  BY SplitIInv
<1>2. index \in 1..Len(channels) /\ cur' = channels[index] /\ (pc = "poll" \/ pc = "flush")
  BY <1>1 DEF InPoll, InFlush, Frame
<1>3. QED
  BY <1>1, <1>2 DEF Frame

\* Poll ends an initial hold, or schedules it again.
LEMMA PollDiscoveringInv == ASSUME IInv, PollDiscovering PROVE IInv'
<1> DEFINE c == channels[index]
           s == state[c]
<1>0. InPoll /\ s.pending_count # 0 /\ s.discovering
  BY DEF PollDiscovering
<1>1. Frame /\ c \in Channels /\ pc = "poll" /\ cur' = c /\ index + 1 \in Nat \ {0}
  BY <1>0, ScanFacts DEF InPoll
<1>2. s \in ChannelState /\ s.first_seen_ns \in Nat
  BY <1>1, CurFacts DEF ChannelState
<1>3. \/ StartFromMinimum(c, s, "poll") /\ UNCHANGED next_deadline_ns
      \/ /\ next_deadline_ns' = Scheduled(next_deadline_ns, s.first_seen_ns, InitialHold)
         /\ pc' = "poll" /\ ret' = ret /\ UNCHANGED <<state, log>>
  BY DEF PollDiscovering, Goto
<1>4. Frame'
  <2>1. next_deadline_ns \in Nat /\ InitialHold \in Nat
    BY <1>1, ConstantsAssumption DEF Frame
  <2> HIDE DEF s
  <2>2. next_deadline_ns' \in Nat
    BY <1>2, <1>3, <2>1, ScheduledType
  <2>3. pc' \in {"drain", "poll"} /\ ret' \in Labels \ {"drain", "done"} /\
        (pc' = "drain" => ret' = "poll")
    BY <1>1, <1>3 DEF StartFromMinimum, DrainThen, Labels, Frame
  <2> HIDE DEF c
  <2>4. QED
    BY <1>0, <1>1, <2>2, <2>3 DEF Frame, InPoll, Labels, time
<1>5. CASE StartFromMinimum(c, s, "poll")
  BY <1>0, <1>1, <1>4, <1>5, StartStep
<1>6. CASE UNCHANGED <<state, log>> /\ pc' = "poll"
  <2>1. PerChannel'
    BY <1>1, <1>6, NoChannelStep DEF PerChannel
  <2>2. QED
    BY <1>4, <1>6, <2>1, SplitIInvPrime
<1>7. QED
  BY <1>3, <1>5, <1>6

\* Poll forces a gap whose wait is over, or schedules it again.
LEMMA PollGapInv == ASSUME IInv, PollGap PROVE IInv'
<1> DEFINE c == channels[index]
           s == state[c]
<1>0. InPoll /\ ~s.discovering
  BY DEF PollGap
<1>1. Frame /\ c \in Channels /\ pc = "poll" /\ cur' = c /\ index + 1 \in Nat \ {0}
  BY <1>0, ScanFacts DEF InPoll
<1>2. s \in ChannelState /\ s.gap_open_ns \in Nat /\ ChannelInv(s, log[c], TRUE)
  BY <1>1, CurFacts DEF ChannelState
<1>3. \/ ForceGapToMinimum(c, s, "poll") /\ UNCHANGED next_deadline_ns
      \/ /\ next_deadline_ns' = Scheduled(next_deadline_ns, s.gap_open_ns, GapWait)
         /\ pc' = "poll" /\ ret' = ret /\ UNCHANGED <<state, log>>
  BY DEF PollGap, Goto
<1>4. Frame'
  <2>1. next_deadline_ns \in Nat /\ GapWait \in Nat
    BY <1>1, ConstantsAssumption DEF Frame
  <2> HIDE DEF s
  <2>2. next_deadline_ns' \in Nat
    BY <1>2, <1>3, <2>1, ScheduledType
  <2>3. pc' \in {"drain", "poll"} /\ ret' \in Labels \ {"drain", "done"} /\
        (pc' = "drain" => ret' = "poll")
    BY <1>1, <1>3 DEF ForceGapToMinimum, DrainThen, Labels, Frame
  <2> HIDE DEF c
  <2>4. QED
    BY <1>0, <1>1, <2>2, <2>3 DEF Frame, InPoll, Labels, time
<1>5. CASE ForceGapToMinimum(c, s, "poll")
  BY <1>0, <1>1, <1>2, <1>4, <1>5, ForceStep
<1>6. CASE UNCHANGED <<state, log>> /\ pc' = "poll"
  <2>1. PerChannel'
    BY <1>1, <1>6, NoChannelStep DEF PerChannel
  <2>2. QED
    BY <1>4, <1>6, <2>1, SplitIInvPrime
<1>7. QED
  BY <1>3, <1>5, <1>6

\* Flush starts or advances a channel that still holds records.
LEMMA FlushStepInv == ASSUME IInv, FlushStep PROVE IInv'
<1> DEFINE c == channels[index]
           s == state[c]
<1>0. InFlush /\ s.pending_count # 0 /\ UNCHANGED index
  BY DEF FlushStep
<1>1. Frame /\ c \in Channels /\ pc = "flush" /\ cur' = c
  BY <1>0, ScanFacts DEF InFlush
<1>2. s \in ChannelState /\ ChannelInv(s, log[c], TRUE)
  BY <1>1, CurFacts
<1>3. \/ s.discovering /\ StartFromMinimum(c, s, "flush")
      \/ ~s.discovering /\ ForceGapToMinimum(c, s, "flush")
  BY DEF FlushStep
<1>4. Frame'
  <2>1. pc' = "drain" /\ ret' = "flush"
    BY <1>3 DEF StartFromMinimum, ForceGapToMinimum, DrainThen
  <2> HIDE DEF c
  <2>2. QED
    BY <1>0, <1>1, <2>1 DEF Frame, InFlush, Labels, lane, time
<1>5. CASE s.discovering /\ StartFromMinimum(c, s, "flush")
  BY <1>0, <1>1, <1>4, <1>5, StartStep
<1>6. CASE ~s.discovering /\ ForceGapToMinimum(c, s, "flush")
  BY <1>1, <1>2, <1>4, <1>6, ForceStep
<1>7. QED
  BY <1>3, <1>5, <1>6

\* FinishDiscovery on an empty table: there is nothing to be ahead of the frontier.
LEMMA FinishEmptyInv ==
  ASSUME NEW s \in ChannelState, NEW l \in ChannelLog,
         s.pending_count = 0, ChannelInv(s, l, FALSE)
  PROVE  /\ [s EXCEPT !.discovering = FALSE] \in ChannelState
         /\ ChannelInv([s EXCEPT !.discovering = FALSE], l, FALSE)
<1> DEFINE r == [s EXCEPT !.discovering = FALSE]
<1>1. Occupied(s) = {}
  BY OccupiedCounted
<1>2. r \in ChannelState
  BY DEF ChannelState
<1>3. /\ r.pending = s.pending /\ r.expected = s.expected
      /\ r.pending_count = s.pending_count /\ r.discovering = FALSE
      /\ r.cumulative_missing = s.cumulative_missing /\ r.gap_epoch = s.gap_epoch
      /\ r.history_complete = s.history_complete
  BY DEF ChannelState
<1> HIDE DEF r
<1>4. Occupied(r) = {} /\ Occupied(r) = Occupied(s)
  BY <1>1, <1>3 DEF Occupied
<1>5. SlotsInv(r) /\ AheadInv(r, FALSE)
  BY <1>3, <1>4 DEF ChannelInv, SlotsInv, AheadInv
<1>6. CountInv(r, l) /\ OrderInv(r, l)
  BY <1>3 DEF ChannelInv, CountInv, OrderInv
<1>7. QED
  BY <1>2, <1>5, <1>6 DEF ChannelInv, r

\* Flush leaves a channel that is frozen or empty.
LEMMA FlushNextInv == ASSUME IInv, FlushNext PROVE IInv'
<1> DEFINE c == channels[index]
           s == state[c]
           r == [s EXCEPT !.discovering = FALSE]
<1>0. /\ InFlush /\ index' = index + 1 /\ pc' = "flush" /\ ret' = ret /\ UNCHANGED log
      /\ s.frozen \/ s.pending_count = 0
      /\ state' = [state EXCEPT ![c] = IF s.frozen THEN s ELSE r]
  BY DEF FlushNext, Goto, Update
<1>1. /\ Frame /\ c \in Channels /\ pc = "flush" /\ cur' = c /\ index + 1 \in Nat \ {0}
      /\ log \in [Channels -> ChannelLog] /\ state \in [Channels -> ChannelState]
  BY <1>0, ScanFacts, SplitIInv DEF InFlush, PerChannel
<1>2. s \in ChannelState /\ log[c] \in ChannelLog /\ ChannelInv(s, log[c], FALSE)
  BY <1>1, CurFacts DEF Draining
<1>3. Frame'
  <2> HIDE DEF c
  <2>1. QED
    BY <1>0, <1>1 DEF Frame, InFlush, Labels, lane, time
<1>4. log' = [log EXCEPT ![c] = log[c]]
  BY <1>0, <1>1
<1>5. CASE s.frozen
  BY <1>0, <1>1, <1>2, <1>3, <1>4, <1>5, SettledStep
<1>6. CASE ~s.frozen
  <2>1. r \in ChannelState /\ ChannelInv(r, log[c], FALSE)
    BY <1>0, <1>2, <1>6, FinishEmptyInv
  <2> HIDE DEF r
  <2>2. QED
    BY <1>0, <1>1, <1>2, <1>3, <1>4, <1>6, <2>1, SettledStep
<1>7. QED
  BY <1>5, <1>6

\* The invariant holds in a new lane.
LEMMA InitIInv == ASSUME Init PROVE IInv
<1> USE ConstantsAssumption
<1>1. NewChannel \in ChannelState
  <2>1. [i \in SlotIndex |-> Free] \in [SlotIndex -> Slot]
    BY DEF Slot
  <2>2. QED
    BY <2>1 DEF NewChannel, ChannelState
<1>2. EmptyLog \in ChannelLog
  BY DEF EmptyLog, ChannelLog
<1>3. Occupied(NewChannel) = {}
  BY DEF Occupied, NewChannel, Free
<1>4. SlotsInv(NewChannel) /\ AheadInv(NewChannel, FALSE)
  BY <1>3, FS_EmptySet DEF SlotsInv, AheadInv, NewChannel
<1>5. CountInv(NewChannel, EmptyLog)
  <2>1. /\ NewChannel.expected = EmptyLog.origin /\ EmptyLog.origin \in 0..1
        /\ NewChannel.cumulative_missing = 0 /\ NewChannel.gap_epoch = 0
        /\ Len(EmptyLog.committed) = 0 /\ Len(EmptyLog.gaps) = 0
    BY DEF NewChannel, EmptyLog
  <2>2. /\ NewChannel.discovering => Mode = "PARTIAL" /\ NewChannel.expected = 0
        /\ NewChannel.history_complete => Mode = "FROM_OPEN"
        /\ Mode = "FROM_OPEN" => EmptyLog.origin = 1
    BY DEF NewChannel, EmptyLog
  <2>3. 1 <= MaxU64
    OBVIOUS
  <2>4. QED
    BY <2>1, <2>2, <2>3 DEF CountInv
<1>6. OrderInv(NewChannel, EmptyLog)
  BY DEF OrderInv, EmptyLog
<1>7. PerChannel
  <2>1. state \in [Channels -> ChannelState] /\ log \in [Channels -> ChannelLog]
    BY <1>1, <1>2 DEF Init
  <2>2. \A c \in Channels : /\ state[c] = NewChannel /\ log[c] = EmptyLog
                            /\ Draining(c) = FALSE
    BY DEF Init, Draining
  <2>3. QED
    BY <1>4, <1>5, <1>6, <2>1, <2>2 DEF PerChannel, ChannelInv
<1>8. Frame
  BY DEF Frame, Init, Labels, Slot
<1>9. pc = "ready"
  BY DEF Init
<1>10. QED
  BY <1>7, <1>8, <1>9, SplitIInv

\* Every step of the lane and of its environment preserves the invariant.
LEMMA NextIInv == ASSUME IInv, [Next]_vars PROVE IInv'
<1>1. CASE UNCHANGED vars
  <2>1. \A c \in Channels : Draining(c)' = Draining(c)
    BY <1>1 DEF vars, Draining
  <2>2. QED
    BY <1>1, <2>1 DEF IInv, TypeOK, vars
<1>2. CASE Arrival
  BY <1>2, ProcessInv, FreezeDecodeFailureInv, QuietStepInv DEF Arrival, QuietStep
<1>3. CASE ProcessStep
  BY <1>3, QuietStepInv, ConflictInv, DiscoverCollisionInv, DiscoverInsertInv,
     EmitAtFrontierInv, AheadRetainInv, AheadFarInv, AheadCollisionInv
     DEF ProcessStep, QuietStep
<1>4. CASE CallStep
  BY <1>3, <1>4, QuietStepInv, DrainEmitInv, DrainDoneInv, PollDiscoveringInv,
     PollGapInv, FlushStepInv, FlushNextInv DEF CallStep, QuietStep
<1>5. CASE AdvanceClock \/ IdlePoll \/ BeginFlush \/ Terminated
  BY <1>5, QuietStepInv DEF QuietStep
<1>6. QED
  BY <1>1, <1>2, <1>4, <1>5 DEF Next

\* The invariant is inductive: it holds in every reachable state of a lane.
THEOREM Inductive == Spec => []IInv
BY InitIInv, NextIInv, PTL DEF Spec

-----------------------------------------------------------------------------
(***************************************************************************)
(* The properties the invariant establishes.                               *)
(***************************************************************************)

\* Types: in particular pending_count, unsigned in the code, never underflows
\* and every subscript of the pending table lies inside it.
THEOREM TypeCorrect == Spec => []TypeOK
<1>1. IInv => TypeOK
  BY DEF IInv
<1>2. QED
  BY <1>1, Inductive, PTL

\* The reorder table of every channel is consistent with its frontier and
\* count, for every table size, span and timer setting.
THEOREM TableConsistentHolds == Spec => []TableConsistent
<1>1. IInv => TableConsistent
  BY DEF IInv, ChannelInv, SlotsInv, AheadInv, TableConsistent, Active
<1>2. QED
  BY <1>1, Inductive, PTL

\* EmitOne, DrainContiguous and the forced gaps never emit a native sequence
\* twice or behind one already emitted.
THEOREM StrictNativeOrderHolds == Spec => []StrictNativeOrder
<1>1. IInv => StrictNativeOrder
  BY DEF IInv, ChannelInv, OrderInv, StrictNativeOrder
<1>2. QED
  BY <1>1, Inductive, PTL

\* RecordGap's counters account for every position between the origin and the
\* frontier, and neither of its saturating sums ever saturates.
THEOREM FrontierAccountingHolds == Spec => []FrontierAccounting
<1>1. IInv => FrontierAccounting
  BY DEF IInv, ChannelInv, CountInv, FrontierAccounting
<1>2. QED
  BY <1>1, Inductive, PTL

\* A record with kTickChannelHistoryValid is the i-th record of its channel and
\* carries sequence i.
THEOREM HistoryClaimHolds == Spec => []HistoryClaim
<1>1. IInv => HistoryClaim
  BY DEF IInv, ChannelInv, OrderInv, HistoryClaim
<1>2. QED
  BY <1>1, Inductive, PTL
=============================================================================
