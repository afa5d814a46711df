-------------------------- MODULE GapMailboxProofs --------------------------
(***************************************************************************)
(* The claim/recheck handshake of the gap mailboxes, the announcement of   *)
(* every undelivered gap, and the refinement of the abstract notice,       *)
(* proved for any number of lanes, channels, attempts and published gaps.  *)
(***************************************************************************)
EXTENDS GapMailbox, FiniteSetTheorems, NaturalsInduction, WellFoundedInduction, TLAPS

\* A lane writes the mailboxes of its own channels, into one of three buffers.
LanesInv ==
  /\ slot \in [LaneIds -> Channels] /\ target \in [LaneIds -> Buffers]
  /\ ppc \in [LaneIds -> {"idle", "write", "write2", "store", "mark"}]
  /\ \A p \in LaneIds : slot[p][1] = p

IndexInv ==
  /\ reader_index \in [Channels -> 0..3]
  /\ published_token \in [Channels -> [gen : Nat, index : 0..3]]
  /\ cpc = "claim" /\ channel \in Channels => before.index \in 0..3

\* The buffer being filled is not the one the current token names.
TargetInv ==
  \A p \in LaneIds : ppc[p] \in {"write", "write2", "store"} =>
    target[p] # published_token[slot[p]].index

\* From the claim until the copy ends, reader_index_ names the claimed buffer.
ClaimInv ==
  cpc \in {"recheck", "copy", "copy2"} /\ channel \in Channels =>
    reader_index[channel] = before.index

HandshakeInv == LanesInv /\ IndexInv /\ TargetInv /\ ClaimInv /\ NoBufferRace

\* Publish never chooses the current buffer or the one the consumer has claimed.
LEMMA ChooseTargetAvoids ==
  ASSUME NEW current \in 0..3, NEW reader \in 0..3
  PROVE  /\ ChooseTarget(current, reader) \in Buffers
         /\ ChooseTarget(current, reader) # current
         /\ ChooseTarget(current, reader) # reader
BY DEF ChooseTarget, Buffers

\* The handshake invariant holds initially.
LEMMA InitHandshake == ASSUME Init PROVE HandshakeInv
<1> USE MailboxAssumption
<1>1. \A p \in LaneIds : <<p, 0>> \in Channels
  BY DEF Channels, LaneIds
<1>2. LanesInv
  BY <1>1 DEF Init, LanesInv, Buffers
<1>3. IndexInv
  BY DEF Init, IndexInv, FirstToken, NoBuffer
<1>4. TargetInv /\ ClaimInv /\ NoBufferRace
  BY DEF Init, TargetInv, ClaimInv, NoBufferRace, Writing, Copying
<1>5. QED
  BY <1>2, <1>3, <1>4 DEF HandshakeInv

\* Publish's loads: a copy in progress on the same channel keeps its buffer.
LEMMA PublishLoadHandshake ==
  ASSUME HandshakeInv, NEW c \in Channels, PublishLoad(c)
  PROVE  HandshakeInv'
<1> DEFINE p == c[1]
           t == ChooseTarget(published_token[c].index, reader_index[c])
<1>1. p \in LaneIds /\ LanesInv /\ IndexInv
  BY DEF Channels, HandshakeInv
<1>2. /\ slot' = [slot EXCEPT ![p] = c] /\ target' = [target EXCEPT ![p] = t]
      /\ ppc' = [ppc EXCEPT ![p] = "write"]
      /\ UNCHANGED <<published_token, reader_index, cpc, channel, before>>
  BY DEF PublishLoad, polling
<1>3. t \in Buffers /\ t # published_token[c].index /\ t # reader_index[c]
  <2>1. published_token[c].index \in 0..3 /\ reader_index[c] \in 0..3
    BY <1>1 DEF IndexInv
  <2>2. QED
    BY <2>1, ChooseTargetAvoids
<1> HIDE DEF t
<1>4. LanesInv'
  BY <1>1, <1>2, <1>3 DEF LanesInv
<1>5. IndexInv' /\ ClaimInv'
  BY <1>2 DEF HandshakeInv, IndexInv, ClaimInv
<1>6. \A q \in LaneIds : q # p => /\ slot'[q] = slot[q] /\ target'[q] = target[q]
                                  /\ ppc'[q] = ppc[q]
  BY <1>1, <1>2 DEF LanesInv
<1>7. slot'[p] = c /\ target'[p] = t
  BY <1>1, <1>2 DEF LanesInv
<1>8. TargetInv'
  BY <1>2, <1>3, <1>6, <1>7 DEF HandshakeInv, TargetInv
<1>9. NoBufferRace'
  <2> SUFFICES ASSUME NEW q \in LaneIds, Writing(q)', Copying', slot'[q] = channel',
                      target'[q] = before.index'
               PROVE  FALSE
    BY DEF NoBufferRace
  <2>1. Copying /\ slot'[q] = channel /\ target'[q] = before.index
    BY <1>2 DEF Copying
  <2>2. CASE q = p
    BY <1>3, <1>7, <2>1, <2>2 DEF HandshakeInv, ClaimInv, Copying
  <2>3. CASE q # p
    BY <1>6, <2>1, <2>3 DEF HandshakeInv, NoBufferRace, Writing
  <2>4. QED
    BY <2>2, <2>3
<1>10. QED
  BY <1>4, <1>5, <1>8, <1>9 DEF HandshakeInv

\* The rest of PublishGap leaves the chosen buffer alone until the token names it.
LEMMA PublishStepHandshake ==
  ASSUME HandshakeInv, NEW p \in LaneIds, PublishStep(p)
  PROVE  HandshakeInv'
<1>1. LanesInv /\ IndexInv /\ TargetInv
  BY DEF HandshakeInv
<1>2. /\ UNCHANGED <<slot, target, reader_index, cpc, channel, before>>
      /\ slot[p] \in Channels /\ target[p] \in 0..2
  BY <1>1 DEF PublishStep, WriteFirstHalf, WriteSecondHalf, StoreToken, MarkDirty,
       polling, LanesInv, Buffers
<1>3. CASE WriteFirstHalf(p) \/ WriteSecondHalf(p) \/ MarkDirty(p)
  <2>1. /\ UNCHANGED published_token
        /\ \A q \in LaneIds : q # p => ppc'[q] = ppc[q]
        /\ ppc'[p] \in {"idle", "write2", "store"}
        /\ ppc'[p] \in {"write2", "store"} => ppc[p] \in {"write", "write2"}
        /\ ppc' \in [LaneIds -> {"idle", "write", "write2", "store", "mark"}]
    BY <1>1, <1>3 DEF WriteFirstHalf, WriteSecondHalf, MarkDirty, LanesInv
  <2>2. LanesInv' /\ IndexInv' /\ ClaimInv'
    BY <1>1, <1>2, <2>1 DEF LanesInv, IndexInv, ClaimInv, HandshakeInv
  <2>3. TargetInv'
    BY <1>1, <1>2, <2>1 DEF TargetInv
  <2>4. NoBufferRace'
    BY <1>2, <2>1 DEF HandshakeInv, NoBufferRace, Writing, Copying
  <2>5. QED
    BY <2>2, <2>3, <2>4 DEF HandshakeInv
<1>4. CASE StoreToken(p)
  <2>1. /\ published_token' = [published_token EXCEPT ![slot[p]] =
             [gen |-> published_token[slot[p]].gen + 1, index |-> target[p]]]
        /\ ppc' = [ppc EXCEPT ![p] = "mark"]
    BY <1>4 DEF StoreToken
  <2>2. /\ \A q \in LaneIds : q # p => ppc'[q] = ppc[q]
        /\ ppc'[p] = "mark"
        /\ ppc' \in [LaneIds -> {"idle", "write", "write2", "store", "mark"}]
    BY <1>1, <2>1 DEF LanesInv
  <2>3. published_token' \in [Channels -> [gen : Nat, index : 0..3]]
    <3>1. published_token[slot[p]].gen \in Nat
      BY <1>1, <1>2 DEF IndexInv
    <3>2. [gen |-> published_token[slot[p]].gen + 1, index |-> target[p]]
            \in [gen : Nat, index : 0..3]
      BY <1>2, <3>1
    <3>3. QED
      BY <1>1, <2>1, <3>2 DEF IndexInv
  <2>4. LanesInv' /\ IndexInv' /\ ClaimInv'
    BY <1>1, <1>2, <2>2, <2>3 DEF LanesInv, IndexInv, ClaimInv, HandshakeInv
  <2>5. TargetInv'
    <3> SUFFICES ASSUME NEW q \in LaneIds, ppc'[q] \in {"write", "write2", "store"}
                 PROVE  target'[q] # published_token'[slot'[q]].index
      BY DEF TargetInv
    <3>1. q # p /\ slot[q] # slot[p] /\ slot[q] \in Channels
      BY <1>1, <2>2 DEF LanesInv
    <3>2. published_token'[slot[q]] = published_token[slot[q]]
      BY <1>1, <2>1, <3>1 DEF IndexInv
    <3>3. QED
      BY <1>1, <1>2, <2>2, <3>1, <3>2 DEF TargetInv
  <2>6. NoBufferRace'
    BY <1>2, <2>2 DEF HandshakeInv, NoBufferRace, Writing, Copying
  <2>7. QED
    BY <2>4, <2>5, <2>6 DEF HandshakeInv
<1>5. QED
  BY <1>3, <1>4 DEF PublishStep

\* A confirmed claim names the current buffer, which no producer is filling.
LEMMA PollHandshake ==
  ASSUME HandshakeInv, PollStep
  PROVE  HandshakeInv'
<1>1. LanesInv /\ IndexInv /\ TargetInv /\ ClaimInv
  BY DEF HandshakeInv
<1>2. UNCHANGED <<ppc, slot, target, published_token>>
  BY DEF PollStep, BeginPoll, ScanWord, PollNothing, AfterFalse, LoadToken, Claim,
       Recheck, Unclaim, CopyFirstHalf, CopySecondHalf, ReturnGap, AlreadyReturned,
       Shared, producing
<1>3. LanesInv' /\ TargetInv'
  BY <1>1, <1>2 DEF LanesInv, TargetInv
<1>4. CASE cpc' \notin {"recheck", "copy", "copy2"} /\ IndexInv'
  BY <1>3, <1>4 DEF HandshakeInv, ClaimInv, NoBufferRace, Copying
<1>5. CASE BeginPoll \/ ScanWord \/ PollNothing \/ AfterFalse
  <2>1. /\ UNCHANGED reader_index
        /\ cpc' \notin {"claim", "recheck", "copy", "copy2"}
    BY <1>5 DEF BeginPoll, ScanWord, PollNothing, AfterFalse, TakeBit, Shared
  <2>2. QED
    BY <1>1, <1>2, <1>4, <2>1 DEF IndexInv
<1>6. CASE LoadToken
  <2>1. CASE published_token[channel].index = NoBuffer
    <3>1. UNCHANGED reader_index /\ cpc' \notin {"claim", "recheck", "copy", "copy2"}
      BY <1>6, <2>1 DEF LoadToken, TakeBit, Shared
    <3>2. QED
      BY <1>1, <1>2, <1>4, <3>1 DEF IndexInv
  <2>2. CASE published_token[channel].index # NoBuffer
    <3>1. /\ before' = published_token[channel] /\ cpc' = "claim"
          /\ UNCHANGED <<reader_index, channel>>
      BY <1>6, <2>2 DEF LoadToken, Shared
    <3>2. channel \in Channels => before'.index \in 0..3
      BY <1>1, <3>1 DEF IndexInv
    <3>3. QED
      BY <1>1, <1>2, <1>4, <3>1, <3>2 DEF IndexInv
  <2>3. QED
    BY <2>1, <2>2
<1>7. CASE Claim
  <2>1. /\ reader_index' = [reader_index EXCEPT ![channel] = before.index]
        /\ cpc = "claim" /\ cpc' = "recheck" /\ UNCHANGED <<before, channel>>
    BY <1>7 DEF Claim
  <2>2. IndexInv' /\ ClaimInv'
    BY <1>1, <1>2, <2>1 DEF IndexInv, ClaimInv
  <2>3. NoBufferRace'
    BY <2>1 DEF NoBufferRace, Copying
  <2>4. QED
    BY <1>3, <2>2, <2>3 DEF HandshakeInv
<1>8. CASE Recheck
  <2>1. /\ cpc = "recheck" /\ UNCHANGED <<reader_index, before, channel>>
        /\ cpc' = IF before = published_token[channel] THEN "copy" ELSE "unclaim"
    BY <1>8 DEF Recheck, Shared
  <2>2. IndexInv' /\ ClaimInv'
    BY <1>1, <1>2, <2>1 DEF IndexInv, ClaimInv
  <2>3. NoBufferRace'
    <3> SUFFICES ASSUME NEW q \in LaneIds, Writing(q)', Copying', slot'[q] = channel',
                        target'[q] = before.index'
                 PROVE  FALSE
      BY DEF NoBufferRace
    <3>1. before = published_token[channel]
      BY <2>1 DEF Copying
    <3>2. ppc[q] \in {"write", "write2"} /\ slot[q] = channel /\ target[q] = before.index
      BY <1>2, <2>1 DEF Writing
    <3>3. QED
      BY <1>1, <3>1, <3>2 DEF TargetInv
  <2>4. QED
    BY <1>3, <2>2, <2>3 DEF HandshakeInv
<1>9. CASE Unclaim \/ ReturnGap \/ AlreadyReturned
  <2>1. /\ reader_index' = [reader_index EXCEPT ![channel] = NoBuffer]
        /\ cpc' \notin {"claim", "recheck", "copy", "copy2"}
    BY <1>9 DEF Unclaim, ReturnGap, AlreadyReturned, TakeBit
  <2>2. reader_index' \in [Channels -> 0..3]
    <3>1. NoBuffer \in 0..3 /\ reader_index \in [Channels -> 0..3]
      BY <1>1 DEF IndexInv, NoBuffer
    <3>2. QED
      BY <2>1, <3>1
  <2>3. IndexInv'
    BY <1>1, <1>2, <2>1, <2>2 DEF IndexInv
  <2>4. QED
    BY <1>4, <2>1, <2>3
<1>10. CASE CopyFirstHalf \/ CopySecondHalf
  <2>1. /\ UNCHANGED <<reader_index, before, channel>>
        /\ Copying /\ cpc' \in {"copy2", "finish"}
    BY <1>10 DEF CopyFirstHalf, CopySecondHalf, Shared, Copying
  <2>2. IndexInv' /\ ClaimInv'
    BY <1>1, <1>2, <2>1 DEF IndexInv, ClaimInv, Copying
  <2>3. NoBufferRace'
    BY <1>2, <2>1 DEF HandshakeInv, NoBufferRace, Writing, Copying
  <2>4. QED
    BY <1>3, <2>2, <2>3 DEF HandshakeInv
<1>11. QED
  BY <1>5, <1>6, <1>7, <1>8, <1>9, <1>10 DEF PollStep

\* The handshake invariant is inductive.
THEOREM HandshakeInductive == Spec => []HandshakeInv
<1>1. ASSUME HandshakeInv, [Next]_vars PROVE HandshakeInv'
  <2>1. CASE \E c \in Channels : PublishLoad(c)
    BY <1>1, <2>1, PublishLoadHandshake
  <2>2. CASE \E p \in LaneIds : PublishStep(p)
    BY <1>1, <2>2, PublishStepHandshake
  <2>3. CASE PollStep
    BY <1>1, <2>3, PollHandshake
  <2>4. CASE Stop \/ Terminated \/ UNCHANGED vars
    <3>1. UNCHANGED <<ppc, slot, target, published_token, reader_index, cpc, channel,
                      before>>
      BY <2>4 DEF Stop, Terminated, vars, producing, polling
    <3>2. QED
      BY <1>1, <3>1 DEF HandshakeInv, LanesInv, IndexInv, TargetInv, ClaimInv,
           NoBufferRace, Writing, Copying
  <2>5. QED
    BY <1>1, <2>1, <2>2, <2>3, <2>4 DEF Next
<1>2. QED
  BY <1>1, InitHandshake, PTL DEF Spec

\* GapMailboxSlot::Publish never writes the buffer TrySnapshot is copying, for
\* any number of lanes, channels and gaps.
THEOREM NoBufferRaceHolds == Spec => []NoBufferRace
<1>1. HandshakeInv => NoBufferRace
  BY DEF HandshakeInv
<1>2. QED
  BY <1>1, HandshakeInductive, PTL

-----------------------------------------------------------------------------
(***************************************************************************)
(* What the consumer gets.  The invariant follows one gap from its         *)
(* publication, through buffer, token and bitmap, to the application.      *)
(***************************************************************************)
MailToken == [gen : Nat, index : 0..3]
MailGap == [lo : Nat, hi : Nat]

MailTypes ==
  /\ published \in [Channels -> Nat] /\ delivered \in [Channels -> Nat]
  /\ buffers \in [Channels -> [Buffers -> MailGap]]
  /\ delivered_token \in [Channels -> MailToken]
  /\ before \in MailToken /\ snapshot \in MailGap /\ channel \in Channels
  /\ dirty \in [Words -> SUBSET Nat] /\ pending \in [Words -> SUBSET Nat]
  /\ word_cursor \in Nat /\ count \in Nat

\* Only bits of channels are set.
BitsInv ==
  \A w \in Words : \A bit \in dirty[w] \cup pending[w] :
    \E c \in Channels : WordOf(c) = w /\ BitOf(c) = bit

\* Generations are epochs, and the token names a whole gap.
TokenInv(c) ==
  /\ published_token[c].gen = published[c]
  /\ published_token[c].index = NoBuffer => published[c] = 0
  /\ delivered_token[c].gen = delivered[c] /\ delivered[c] <= published[c]
  /\ delivered[c] = published[c] => delivered_token[c] = published_token[c]
  /\ published_token[c].index # NoBuffer =>
       buffers[c][published_token[c].index] = [lo |-> published[c], hi |-> published[c]]

\* A lane inside PublishGap fills its buffer with the next epoch.
WriteInv(p) ==
  LET next == published[slot[p]] + 1
  IN  /\ ppc[p] \in {"write", "write2", "store"} => next <= MaxEpoch
      /\ ppc[p] \in {"write2", "store"} => buffers[slot[p]][target[p]].lo = next
      /\ ppc[p] = "store" => buffers[slot[p]][target[p]].hi = next

Marked(c) == BitOf(c) \in dirty[WordOf(c)] \/ (ppc[c[1]] = "mark" /\ slot[c[1]] = c)

Looking == cpc \in {"claim", "recheck", "unclaim", "copy", "copy2", "finish"}

\* A token loaded by the consumer: neither older than what it has returned nor
\* newer than what is published, and a newer one is announced again.
BeforeInv ==
  Looking =>
    /\ before.index \in Buffers
    /\ delivered[channel] <= before.gen /\ before.gen <= published[channel]
    /\ before.gen = published[channel] => before = published_token[channel]
    /\ before.gen = delivered[channel] => before = delivered_token[channel]
    /\ before.gen # published[channel] => Marked(channel)

\* The copy is the gap of the token, in both halves.
CopyInv ==
  /\ Copying => buffers[channel][before.index] = [lo |-> before.gen, hi |-> before.gen]
  /\ cpc \in {"copy2", "finish"} => snapshot.lo = before.gen
  /\ cpc = "finish" => snapshot.hi = before.gen

MailInv ==
  /\ MailTypes /\ BitsInv /\ BeforeInv /\ CopyInv /\ NoLostGap
  /\ \A c \in Channels : TokenInv(c)
  /\ \A p \in LaneIds : WriteInv(p)

-----------------------------------------------------------------------------
\* A set of numbers has a least element: what Min returns is one of the bits.
LEMMA MinOfBits ==
  ASSUME NEW bits \in SUBSET Nat, bits # {}
  PROVE  Min(bits) \in bits
<1> DEFINE Less == {p \in Nat \X Nat : p[1] < p[2]}
<1>1. IsWellFoundedOn(Less, Nat)
  BY NatLessThanWellFounded DEF OpToRel
<1>2. PICK x \in bits : \A y \in bits : ~(<<y, x>> \in Less)
  BY <1>1, WFMin
<1>3. ASSUME NEW y \in bits, y < x PROVE FALSE
  <2>1. <<y, x>> \in Less
    BY <1>3
  <2>2. QED
    BY <1>2, <2>1
<1>4. \A y \in bits : x <= y
  BY <1>3
<1>5. QED
  BY <1>4 DEF Min

\* A quotient below the divisor's multiple.
LEMMA Quotient ==
  ASSUME NEW m \in Nat \ {0}, NEW n \in Nat
  PROVE  n \div m \in Nat /\ n % m \in 0..(m - 1) /\ n = m * (n \div m) + (n % m)
OBVIOUS

LEMMA QuotientUnique ==
  ASSUME NEW m \in Nat \ {0}, NEW q \in Nat, NEW k \in Nat, NEW r \in 0..(m - 1),
         NEW s \in 0..(m - 1), m * q + r = m * k + s
  PROVE  q = k /\ r = s
OBVIOUS

\* The bit of a channel slot lies in the bitmap of its lane, and a bit leads back to
\* its channel, at every width of a word.
LEMMA BitmapRoundTrip ==
  ASSUME NEW c \in Channels
  PROVE  /\ WordOf(c) \in Words /\ BitOf(c) \in Nat
         /\ ChannelOf(WordOf(c), BitOf(c)) = c
<1> USE MailboxAssumption
<1> DEFINE a == c[1]
           b == c[2]
           m == WordsPerLane
           q == b \div WordBits
           r == b % WordBits
<1>1. /\ c = <<a, b>> /\ a \in Nat /\ a <= Lanes - 1 /\ b \in Nat /\ b <= ChannelSlots - 1
  BY DEF Channels, LaneIds
<1>2. q \in Nat /\ r \in 0..(WordBits - 1) /\ b = WordBits * q + r
  BY <1>1, Quotient
<1>3. m \in Nat /\ ChannelSlots <= WordBits * m
  <2> DEFINE n == ChannelSlots + WordBits - 1
  <2>1. n \in Nat
    OBVIOUS
  <2>2. /\ n \div WordBits \in Nat /\ n % WordBits \in 0..(WordBits - 1)
        /\ n = WordBits * (n \div WordBits) + (n % WordBits)
    BY <2>1, Quotient
  <2>3. m = n \div WordBits
    BY DEF WordsPerLane
  <2> HIDE DEF m
  <2>4. QED
    BY <2>2, <2>3
<1>4. WordOf(c) = m * a + q /\ BitOf(c) = r
  BY <1>1, <1>2, <1>3 DEF WordOf, BitOf
<1>5. ChannelOf(WordOf(c), BitOf(c)) =
        <<WordOf(c) \div m, (WordOf(c) % m) * WordBits + BitOf(c)>>
  BY DEF ChannelOf
<1>6. Words = 0..(Lanes * m - 1)
  BY DEF Words
<1> HIDE DEF a, b, m, q, r
<1>7. q < m
  BY <1>1, <1>2, <1>3
<1>8. WordOf(c) \in Nat /\ m \in Nat \ {0} /\ q \in 0..(m - 1)
  BY <1>1, <1>2, <1>3, <1>4, <1>7
<1>9. WordOf(c) \div m = a /\ WordOf(c) % m = q
  <2> DEFINE k == WordOf(c) \div m
             s == WordOf(c) % m
  <2>1. k \in Nat /\ s \in 0..(m - 1) /\ WordOf(c) = m * k + s
    BY <1>8, Quotient
  <2> HIDE DEF k, s
  <2>2. m * k + s = m * a + q
    BY <1>4, <2>1
  <2>3. k = a /\ s = q
    BY ONLY <1>1, <1>8, <2>1, <2>2, QuotientUnique
  <2>4. QED
    BY <2>3 DEF k, s
<1>10. WordOf(c) <= Lanes * m - 1
  <2>1. m * a <= m * (Lanes - 1)
    BY <1>1, <1>8
  <2>2. m * (Lanes - 1) = Lanes * m - m
    BY <1>8
  <2>3. QED
    BY <1>1, <1>2, <1>4, <1>7, <1>8, <2>1, <2>2
<1>11. (WordOf(c) % m) * WordBits + BitOf(c) = b
  BY <1>2, <1>4, <1>9
<1>12. WordOf(c) \in Words
  BY <1>1, <1>6, <1>8, <1>10
<1>13. QED
  BY <1>1, <1>2, <1>4, <1>5, <1>9, <1>11, <1>12

\* The word under the cursor is one of the bitmap's.
LEMMA WordInBitmap ==
  ASSUME NEW n \in Nat
  PROVE  n % Cardinality(Words) \in Words
<1> USE MailboxAssumption
<1> DEFINE c == <<0, 0>>
           k == Lanes * WordsPerLane
<1>1. c \in Channels
  BY DEF Channels, LaneIds
<1>2. WordOf(c) \in Words
  BY <1>1, BitmapRoundTrip
<1>3. Words = 0..(k - 1)
  BY DEF Words
<1>4. k \in Int
  <2>1. ChannelSlots + WordBits - 1 \in Nat
    OBVIOUS
  <2>2. WordsPerLane \in Nat
    BY <2>1, Quotient DEF WordsPerLane
  <2>3. QED
    BY <2>2
<1> HIDE DEF k, c
<1>5. k \in Nat \ {0}
  BY <1>2, <1>3, <1>4
<1>6. Cardinality(Words) = k
  BY <1>3, <1>5, FS_Interval
<1>7. n % k \in 0..(k - 1)
  BY <1>5, Quotient
<1>8. QED
  BY <1>3, <1>6, <1>7

\* NoLostGap, with the two ways in which a producer announces a gap as one.
Announced(c) ==
  \/ BitOf(c) \in pending[WordOf(c)] \/ Marked(c)
  \/ channel = c /\ (cpc = "load" \/ Looking)

LEMMA NoLostGapIs ==
  NoLostGap <=> \A c \in Channels : delivered[c] # published[c] => Announced(c)
BY DEF NoLostGap, Announced, Marked, Looking

Gaps == <<published, delivered>>

\* The application that has finished its final drain is in no poll.
DoneInv == phase = "done" => cpc = "idle"

\* Nothing is published and nothing lost at the start.
LEMMA InitMail == ASSUME Init PROVE MailInv /\ DoneInv /\ Notice!Init
<1> USE MailboxAssumption
<1>1. MailTypes
  BY DEF Init, MailTypes, MailToken, MailGap, Blank, FirstToken, NoBuffer, Channels, LaneIds
<1>2. BitsInv /\ BeforeInv /\ CopyInv /\ NoLostGap
  BY DEF Init, BitsInv, BeforeInv, CopyInv, Copying, Looking, NoLostGap
<1>3. \A c \in Channels : TokenInv(c)
  BY DEF Init, TokenInv, FirstToken, NoBuffer
<1>4. \A p \in LaneIds : WriteInv(p)
  BY DEF Init, WriteInv
<1>5. DoneInv /\ Notice!Init
  BY DEF Init, DoneInv, Notice!Init
<1>6. QED
  BY <1>1, <1>2, <1>3, <1>4, <1>5 DEF MailInv

\* A step of a lane that changes no count: what is announced stays announced.
LEMMA LaneStep ==
  ASSUME MailInv, UNCHANGED <<published, delivered, published_token, delivered_token, pending,
                              cpc, channel, before, snapshot, word_cursor, count>>,
         BitsInv', buffers' \in [Channels -> [Buffers -> MailGap]],
         dirty' \in [Words -> SUBSET Nat],
         \A d \in Channels : Marked(d) => Marked(d)',
         \A d \in Channels : published_token[d].index # NoBuffer =>
           buffers'[d][published_token[d].index] = buffers[d][published_token[d].index],
         Copying => buffers'[channel][before.index] = buffers[channel][before.index],
         \A q \in LaneIds : WriteInv(q)'
  PROVE  MailInv' /\ UNCHANGED Gaps
<1>1. MailTypes'
  BY DEF MailInv, MailTypes
<1>2. \A d \in Channels : TokenInv(d)'
  BY DEF MailInv, TokenInv
<1>3. BeforeInv' /\ CopyInv'
  BY DEF MailInv, BeforeInv, CopyInv, Looking, Copying, MailTypes
<1>4. NoLostGap'
  <2>1. \A c \in Channels : Announced(c) => Announced(c)'
    BY DEF Announced, Looking
  <2>2. \A c \in Channels : delivered'[c] # published'[c] => Announced(c)'
    BY <2>1, NoLostGapIs DEF MailInv
  <2>3. QED
    BY <2>2 DEF NoLostGap, Announced, Marked, Looking
<1>5. QED
  BY <1>1, <1>2, <1>3, <1>4 DEF MailInv, Gaps

\* The loads of Publish.
LEMMA PublishLoadMail ==
  ASSUME HandshakeInv, MailInv, NEW c \in Channels, PublishLoad(c)
  PROVE  MailInv' /\ UNCHANGED Gaps
<1> DEFINE p == c[1]
<1>1. p \in LaneIds /\ LanesInv
  BY DEF Channels, HandshakeInv
<1>2. /\ slot' = [slot EXCEPT ![p] = c] /\ ppc' = [ppc EXCEPT ![p] = "write"]
      /\ \A q \in LaneIds : q # p => target'[q] = target[q]
      /\ ppc[p] = "idle" /\ published[c] < MaxEpoch
      /\ UNCHANGED <<published, delivered, published_token, delivered_token, pending, dirty,
                     buffers, cpc, channel, before, snapshot, word_cursor, count>>
  BY <1>1 DEF PublishLoad, polling, LanesInv
<1>3. \A q \in LaneIds : q # p => slot'[q] = slot[q] /\ ppc'[q] = ppc[q]
  BY <1>1, <1>2 DEF LanesInv
<1>4. slot'[p] = c /\ ppc'[p] = "write"
  BY <1>1, <1>2 DEF LanesInv
<1>5. \A d \in Channels : Marked(d) => Marked(d)'
  <2> SUFFICES ASSUME NEW d \in Channels, Marked(d) PROVE Marked(d)'
    OBVIOUS
  <2>1. d[1] \in LaneIds
    BY DEF Channels
  <2> HIDE DEF p
  <2>2. QED
    BY <1>2, <1>3, <2>1 DEF Marked
<1>6. \A q \in LaneIds : WriteInv(q)'
  <2> SUFFICES ASSUME NEW q \in LaneIds PROVE WriteInv(q)'
    OBVIOUS
  <2>1. CASE q = p
    <3>1. published[c] \in Nat /\ MaxEpoch \in Nat
      BY MailboxAssumption DEF MailInv, MailTypes
    <3>2. published[c] + 1 <= MaxEpoch
      BY <1>2, <3>1
    <3>3. QED
      BY <1>2, <1>4, <2>1, <3>2 DEF WriteInv
  <2>2. CASE q # p
    BY <1>2, <1>3, <2>2 DEF MailInv, WriteInv
  <2>3. QED
    BY <2>1, <2>2
<1>7. BitsInv' /\ MailTypes
  BY <1>2 DEF MailInv, BitsInv
<1> HIDE DEF p
<1>8. QED
  BY <1>2, <1>5, <1>6, <1>7, LaneStep DEF MailTypes

\* A half of the gap is written where neither the token nor the consumer points.
LEMMA WriteHalfMail ==
  ASSUME HandshakeInv, MailInv, NEW p \in LaneIds, WriteFirstHalf(p) \/ WriteSecondHalf(p)
  PROVE  MailInv' /\ UNCHANGED Gaps
<1> DEFINE c == slot[p]
           t == target[p]
           next == published[slot[p]] + 1
<1>1. /\ LanesInv /\ TargetInv /\ NoBufferRace /\ MailTypes
      /\ c \in Channels /\ c[1] = p /\ t \in Buffers /\ next \in Nat /\ buffers[c][t] \in MailGap
  BY DEF HandshakeInv, MailInv, MailTypes, LanesInv
<1>2. /\ UNCHANGED <<published, delivered, published_token, delivered_token, pending, dirty,
                     slot, target, cpc, channel, before, snapshot, word_cursor, count>>
      /\ Writing(p) /\ ppc'[p] \in {"write2", "store"}
      /\ \A q \in LaneIds : q # p => ppc'[q] = ppc[q]
  BY <1>1 DEF WriteFirstHalf, WriteSecondHalf, polling, LanesInv, Writing
<1>3. /\ buffers' \in [Channels -> [Buffers -> MailGap]]
      /\ \A d \in Channels : \A i \in Buffers : d # c \/ i # t => buffers'[d][i] = buffers[d][i]
      /\ buffers'[c][t].lo = next
      /\ ppc'[p] = "store" => buffers'[c][t].hi = next
  <2>1. CASE WriteFirstHalf(p)
    <3>1. buffers' = [buffers EXCEPT ![c][t].lo = next] /\ ppc'[p] = "write2"
      BY <1>1, <2>1 DEF WriteFirstHalf, LanesInv
    <3> HIDE DEF c, t, next
    <3>2. QED
      BY <1>1, <3>1 DEF MailTypes, MailGap
  <2>2. CASE WriteSecondHalf(p)
    <3>1. buffers' = [buffers EXCEPT ![c][t].hi = next] /\ ppc[p] = "write2"
      BY <2>2 DEF WriteSecondHalf
    <3>2. buffers[c][t].lo = next
      BY <3>1 DEF MailInv, WriteInv
    <3> HIDE DEF c, t, next
    <3>3. QED
      BY <1>1, <3>1, <3>2 DEF MailTypes, MailGap
  <2>3. QED
    BY <2>1, <2>2
<1>4. \A d \in Channels : Marked(d) => Marked(d)'
  <2> SUFFICES ASSUME NEW d \in Channels, Marked(d) PROVE Marked(d)'
    OBVIOUS
  <2>1. d[1] \in LaneIds
    BY DEF Channels
  <2>2. QED
    BY <1>2, <2>1 DEF Marked, Writing
<1>5. \A q \in LaneIds : WriteInv(q)'
  <2> SUFFICES ASSUME NEW q \in LaneIds PROVE WriteInv(q)'
    OBVIOUS
  <2>1. WriteInv(q) /\ WriteInv(p)
    BY DEF MailInv
  <2>2. CASE q = p
    BY <1>2, <1>3, <2>1, <2>2 DEF WriteInv, Writing
  <2>3. CASE q # p
    <3>1. slot[q] \in Channels /\ slot[q] # c /\ target[q] \in Buffers
      BY <1>1, <2>3 DEF LanesInv
    <3>2. buffers'[slot[q]][target[q]] = buffers[slot[q]][target[q]]
      BY <1>3, <3>1
    <3>3. QED
      BY <1>2, <2>1, <2>3, <3>2 DEF WriteInv
  <2>4. QED
    BY <2>2, <2>3
<1>6. \A d \in Channels : published_token[d].index # NoBuffer =>
        buffers'[d][published_token[d].index] = buffers[d][published_token[d].index]
  <2> SUFFICES ASSUME NEW d \in Channels, published_token[d].index # NoBuffer
               PROVE  buffers'[d][published_token[d].index] = buffers[d][published_token[d].index]
    OBVIOUS
  <2>1. published_token[d].index \in Buffers
    BY DEF HandshakeInv, IndexInv, NoBuffer, Buffers
  <2>2. d = c => published_token[d].index # t
    BY <1>1, <1>2 DEF TargetInv, Writing
  <2>3. QED
    BY <1>3, <2>1, <2>2
<1>7. Copying => buffers'[channel][before.index] = buffers[channel][before.index]
  <2> SUFFICES ASSUME Copying PROVE buffers'[channel][before.index] = buffers[channel][before.index]
    OBVIOUS
  <2>1. before.index \in Buffers /\ channel \in Channels
    BY <1>1 DEF MailInv, BeforeInv, Looking, Copying, MailTypes
  <2>2. channel = c => before.index # t
    BY <1>1, <1>2 DEF NoBufferRace
  <2>3. QED
    BY <1>3, <2>1, <2>2
<1>8. BitsInv'
  BY <1>2 DEF MailInv, BitsInv
<1>9. dirty' \in [Words -> SUBSET Nat]
  BY <1>1, <1>2 DEF MailTypes
<1> HIDE DEF c, t, next
<1>10. QED
  BY <1>2, <1>3, <1>4, <1>5, <1>6, <1>7, <1>8, <1>9, LaneStep

\* The store of the token publishes the gap, which its lane is about to announce.
LEMMA StoreTokenMail ==
  ASSUME HandshakeInv, MailInv, NEW p \in LaneIds, StoreToken(p)
  PROVE  MailInv' /\ Notice!Next
<1> DEFINE c == slot[p]
           t == target[p]
<1>1. /\ LanesInv /\ IndexInv /\ MailTypes /\ TokenInv(c) /\ WriteInv(p)
      /\ c \in Channels /\ c[1] = p /\ t \in Buffers /\ published[c] \in Nat
      /\ buffers[c][t] \in MailGap /\ MaxEpoch \in Nat
  BY MailboxAssumption DEF HandshakeInv, MailInv, MailTypes, LanesInv
<1>2. /\ published_token' = [published_token EXCEPT ![c] =
           [gen |-> published_token[c].gen + 1, index |-> t]]
      /\ published' = [published EXCEPT ![c] = published[c] + 1]
      /\ ppc' = [ppc EXCEPT ![p] = "mark"] /\ ppc[p] = "store"
      /\ UNCHANGED <<delivered, delivered_token, pending, dirty, slot, target, buffers,
                     cpc, channel, before, snapshot, word_cursor, count, phase>>
  BY DEF StoreToken, polling
<1>3. /\ published'[c] = published[c] + 1 /\ published' \in [Channels -> Nat]
      /\ \A d \in Channels : d # c => published'[d] = published[d]
  BY <1>1, <1>2 DEF MailTypes
<1>4. /\ published_token'[c] = [gen |-> published[c] + 1, index |-> t]
      /\ \A d \in Channels : d # c => published_token'[d] = published_token[d]
  BY <1>1, <1>2 DEF IndexInv, TokenInv
<1>5. ppc'[p] = "mark" /\ \A q \in LaneIds : q # p => ppc'[q] = ppc[q]
  BY <1>1, <1>2 DEF LanesInv
<1>6. \A d \in Channels : d = c \/ Marked(d) => Marked(d)'
  <2>1. \A d \in Channels : d[1] \in LaneIds
    BY DEF Channels
  <2>2. ASSUME NEW d \in Channels, d = c PROVE Marked(d)'
    BY <1>1, <1>2, <1>5, <2>2 DEF Marked
  <2>3. ASSUME NEW d \in Channels, Marked(d) PROVE Marked(d)'
    BY <1>2, <1>5, <2>1, <2>3 DEF Marked
  <2>4. QED
    BY <2>2, <2>3
<1>7. buffers[c][t] = [lo |-> published[c] + 1, hi |-> published[c] + 1]
  BY <1>1, <1>2 DEF WriteInv, MailGap
<1>8. \A d \in Channels : TokenInv(d)'
  <2> SUFFICES ASSUME NEW d \in Channels PROVE TokenInv(d)'
    OBVIOUS
  <2>1. TokenInv(d) /\ delivered[c] \in Nat
    BY <1>1 DEF MailInv, MailTypes
  <2> HIDE DEF c, t
  <2>2. CASE d = c
    <3>1. delivered[c] <= published[c] /\ delivered[c] # published'[c] /\ delivered[c] <= published'[c]
      BY <1>1, <1>3, <2>1 DEF TokenInv
    <3>2. /\ published_token'[c].gen = published'[c] /\ published_token'[c].index = t
          /\ t # NoBuffer
      BY <1>1, <1>3, <1>4 DEF Buffers, NoBuffer
    <3>3. QED
      BY <1>1, <1>2, <1>3, <1>7, <2>2, <3>1, <3>2 DEF TokenInv
  <2>3. CASE d # c
    BY <1>2, <1>3, <1>4, <2>1, <2>3 DEF TokenInv
  <2>4. QED
    BY <2>2, <2>3
<1>9. \A q \in LaneIds : WriteInv(q)'
  <2> SUFFICES ASSUME NEW q \in LaneIds PROVE WriteInv(q)'
    OBVIOUS
  <2>1. CASE q = p
    BY <1>5, <2>1 DEF WriteInv
  <2>2. CASE q # p
    <3>1. slot[q] \in Channels /\ slot[q] # c
      BY <1>1, <2>2 DEF LanesInv
    <3>2. QED
      BY <1>2, <1>3, <1>5, <2>2, <3>1 DEF MailInv, WriteInv
  <2>3. QED
    BY <2>1, <2>2
<1>10. MailTypes' /\ BitsInv' /\ CopyInv'
  BY <1>1, <1>2, <1>3 DEF MailInv, MailTypes, BitsInv, CopyInv, Copying
<1>11. BeforeInv'
  <2> SUFFICES ASSUME Looking PROVE BeforeInv'
    BY <1>2 DEF BeforeInv, Looking
  <2>1. /\ before.index \in Buffers
        /\ delivered[channel] <= before.gen /\ before.gen <= published[channel]
        /\ before.gen = published[channel] => before = published_token[channel]
        /\ before.gen = delivered[channel] => before = delivered_token[channel]
        /\ before.gen # published[channel] => Marked(channel)
        /\ channel \in Channels /\ before.gen \in Nat
    BY <1>1 DEF MailInv, BeforeInv, MailTypes, MailToken
  <2> HIDE DEF c, t
  <2>2. CASE channel = c
    <3>1. before.gen <= published'[c] /\ before.gen # published'[c]
      BY <1>1, <1>3, <2>1, <2>2
    <3>2. Marked(channel)'
      BY <1>2, <1>6, <2>1, <2>2 DEF Marked
    <3>3. QED
      BY <1>2, <2>1, <2>2, <3>1, <3>2 DEF BeforeInv
  <2>3. CASE channel # c
    <3>1. Marked(channel) => Marked(channel)'
      BY <1>2, <1>6, <2>1 DEF Marked
    <3>2. QED
      BY <1>2, <1>3, <1>4, <2>1, <2>3, <3>1 DEF BeforeInv
  <2>4. QED
    BY <2>2, <2>3
<1>12. NoLostGap'
  <2>1. ASSUME NEW d \in Channels, delivered'[d] # published'[d] PROVE Announced(d)'
    <3>1. CASE d = c
      BY <1>6, <3>1 DEF Announced
    <3>2. CASE d # c
      <4>1. Announced(d)
        BY <1>2, <1>3, <2>1, <3>2, NoLostGapIs DEF MailInv
      <4>2. QED
        BY <1>2, <1>6, <4>1 DEF Announced, Looking
    <3>3. QED
      BY <3>1, <3>2
  <2>2. QED
    BY <2>1 DEF NoLostGap, Announced, Marked, Looking
<1>13. Notice!Publish(c)
  <2>1. published[c] < MaxEpoch
    BY <1>1, <1>2 DEF WriteInv
  <2>2. QED
    BY <1>2, <2>1 DEF Notice!Publish
<1>14. QED
  BY <1>1, <1>8, <1>9, <1>10, <1>11, <1>12, <1>13 DEF MailInv, Notice!Next

\* The announcement moves from the lane to the bitmap.
LEMMA MarkDirtyMail ==
  ASSUME HandshakeInv, MailInv, NEW p \in LaneIds, MarkDirty(p)
  PROVE  MailInv' /\ UNCHANGED Gaps
<1> DEFINE c == slot[p]
<1>1. LanesInv /\ MailTypes /\ c \in Channels /\ c[1] = p
  BY DEF HandshakeInv, MailInv, LanesInv
<1>2. /\ dirty' = [dirty EXCEPT ![WordOf(c)] = dirty[WordOf(c)] \cup {BitOf(c)}]
      /\ ppc' = [ppc EXCEPT ![p] = "idle"]
      /\ UNCHANGED <<published, delivered, published_token, delivered_token, pending, buffers,
                     slot, target, cpc, channel, before, snapshot, word_cursor, count>>
  BY DEF MarkDirty, polling
<1>3. WordOf(c) \in Words /\ BitOf(c) \in Nat
  BY <1>1, BitmapRoundTrip
<1> HIDE DEF c
<1>4. /\ dirty' \in [Words -> SUBSET Nat] /\ BitOf(c) \in dirty'[WordOf(c)]
      /\ \A w \in Words : dirty[w] \subseteq dirty'[w]
      /\ \A w \in Words : \A bit \in dirty'[w] :
           bit \in dirty[w] \/ (w = WordOf(c) /\ bit = BitOf(c))
  BY <1>1, <1>2, <1>3 DEF MailTypes
<1>5. ppc'[p] = "idle" /\ \A q \in LaneIds : q # p => ppc'[q] = ppc[q]
  BY <1>1, <1>2 DEF LanesInv
<1>6. BitsInv'
  BY <1>1, <1>2, <1>4 DEF MailInv, BitsInv
<1>7. \A d \in Channels : Marked(d) => Marked(d)'
  <2> SUFFICES ASSUME NEW d \in Channels, Marked(d) PROVE Marked(d)'
    OBVIOUS
  <2>1. d[1] \in LaneIds /\ WordOf(d) \in Words
    BY BitmapRoundTrip DEF Channels
  <2>2. CASE BitOf(d) \in dirty[WordOf(d)]
    BY <1>4, <2>1, <2>2 DEF Marked
  <2>3. CASE ppc[d[1]] = "mark" /\ slot[d[1]] = d
    <3>1. CASE d[1] = p
      BY <1>4, <2>3, <3>1 DEF Marked, c
    <3>2. CASE d[1] # p
      BY <1>2, <1>5, <2>1, <2>3, <3>2 DEF Marked
    <3>3. QED
      BY <3>1, <3>2
  <2>4. QED
    BY <2>2, <2>3 DEF Marked
<1>8. \A q \in LaneIds : WriteInv(q)'
  BY <1>2, <1>5 DEF MailInv, WriteInv
<1>9. buffers' \in [Channels -> [Buffers -> MailGap]]
  BY <1>1, <1>2 DEF MailTypes
<1>10. QED
  BY <1>2, <1>4, <1>6, <1>7, <1>8, <1>9, LaneStep

-----------------------------------------------------------------------------
Delivery == <<published, delivered, published_token, delivered_token, buffers, ppc, slot, target>>

\* A step of the consumer that returns nothing keeps the tokens, the buffers and what
\* the lanes are doing.
LEMMA PollKeeps ==
  ASSUME MailInv, UNCHANGED Delivery
  PROVE  /\ \A c \in Channels : TokenInv(c)'
         /\ \A p \in LaneIds : WriteInv(p)'
         /\ UNCHANGED Gaps
         /\ dirty' = dirty => \A d \in Channels : Marked(d)' <=> Marked(d)
<1>1. \A c \in Channels : TokenInv(c)'
  BY DEF MailInv, TokenInv, Delivery
<1>2. \A p \in LaneIds : WriteInv(p)'
  BY DEF MailInv, WriteInv, Delivery
<1>3. QED
  BY <1>1, <1>2 DEF Marked, Gaps, Delivery

\* Taking the next bit of a word: the consumer looks at its channel, and every other
\* announced gap stays announced.
LEMMA TakeBitMail ==
  ASSUME MailInv, NEW word \in Words, NEW bits \in SUBSET Nat, TakeBit(word, bits),
         \/ bits = pending[word] /\ dirty' = dirty
         \/ pending[word] = {} /\ bits = dirty[word] /\ dirty' = [dirty EXCEPT ![word] = {}],
         UNCHANGED Delivery, UNCHANGED <<snapshot, word_cursor>>, before' \in MailToken,
         (cpc = "load" \/ Looking) /\ delivered[channel] # published[channel] => Marked(channel)
  PROVE  MailInv' /\ UNCHANGED Gaps
<1>1. MailTypes /\ BitsInv
  BY DEF MailInv
<1>2. /\ pending' = [pending EXCEPT ![word] = IF bits = {} THEN {} ELSE bits \ {Min(bits)}]
      /\ bits = {} => cpc' = "word" /\ count' = count + 1 /\ channel' = channel
      /\ bits # {} => cpc' = "load" /\ count' = count /\ channel' = ChannelOf(word, Min(bits))
  BY DEF TakeBit
<1>3. /\ pending' \in [Words -> SUBSET Nat] /\ dirty' \in [Words -> SUBSET Nat]
      /\ pending'[word] \subseteq bits
      /\ \A b \in bits : b # Min(bits) => b \in pending'[word]
      /\ \A w \in Words : w # word => pending'[w] = pending[w] /\ dirty'[w] = dirty[w]
      /\ dirty'[word] \subseteq dirty[word]
      /\ \A b \in dirty[word] \cup pending[word] : b \in bits \/ b \in dirty'[word]
  BY <1>1, <1>2 DEF MailTypes
<1>4. bits \subseteq dirty[word] \cup pending[word]
  OBVIOUS
<1>5. BitsInv'
  BY <1>1, <1>3, <1>4 DEF BitsInv
<1>6. channel' \in Channels
  <2>1. CASE bits = {}
    BY <1>1, <1>2, <2>1 DEF MailTypes
  <2>2. CASE bits # {}
    <3>1. PICK d \in Channels : WordOf(d) = word /\ BitOf(d) = Min(bits)
      BY <1>1, <1>4, <2>2, MinOfBits DEF BitsInv
    <3>2. QED
      BY <1>2, <2>2, <3>1, BitmapRoundTrip
  <2>3. QED
    BY <2>1, <2>2
<1>7. MailTypes'
  <2>1. count' \in Nat
    BY <1>1, <1>2 DEF MailTypes
  <2>2. QED
    BY <1>1, <1>3, <1>6, <2>1 DEF MailTypes, Delivery
<1>8. BeforeInv' /\ CopyInv'
  BY <1>2 DEF BeforeInv, CopyInv, Looking, Copying
<1>9. ASSUME NEW c \in Channels, delivered'[c] # published'[c] PROVE Announced(c)'
  <2>1. delivered[c] # published[c] /\ Announced(c) /\ WordOf(c) \in Words
    BY <1>9, NoLostGapIs, BitmapRoundTrip DEF MailInv, Delivery
  <2>2. CASE ppc[c[1]] = "mark" /\ slot[c[1]] = c
    BY <2>2 DEF Announced, Marked, Delivery
  <2>3. CASE BitOf(c) \in dirty[WordOf(c)] \cup pending[WordOf(c)]
    <3>1. CASE WordOf(c) # word
      BY <1>3, <2>1, <2>3, <3>1 DEF Announced, Marked
    <3>2. CASE WordOf(c) = word /\ BitOf(c) \in dirty'[word]
      BY <3>2 DEF Announced, Marked
    <3>3. CASE WordOf(c) = word /\ BitOf(c) \in bits
      <4>1. CASE BitOf(c) = Min(bits)
        <5>1. channel' = c /\ cpc' = "load"
          BY <1>2, <3>3, <4>1, BitmapRoundTrip
        <5>2. QED
          BY <5>1 DEF Announced
      <4>2. CASE BitOf(c) # Min(bits)
        BY <1>3, <3>3, <4>2 DEF Announced
      <4>3. QED
        BY <4>1, <4>2
    <3>4. QED
      BY <1>3, <2>3, <3>1, <3>2, <3>3
  <2>4. QED
    BY <2>1, <2>2, <2>3 DEF Announced, Marked
<1>10. NoLostGap'
  BY <1>9 DEF NoLostGap, Announced, Marked, Looking
<1>11. QED
  BY <1>5, <1>7, <1>8, <1>10, PollKeeps DEF MailInv

\* A step of the consumer that moves no bit: it goes on looking at the same channel, or
\* looks at none.
LEMMA LookMail ==
  ASSUME MailInv, UNCHANGED Delivery, UNCHANGED <<dirty, pending, channel>>,
         before' \in MailToken, snapshot' \in MailGap, word_cursor' \in Nat, count' \in Nat,
         BeforeInv', CopyInv', cpc = "load" \/ Looking => cpc' = "load" \/ Looking'
  PROVE  MailInv' /\ UNCHANGED Gaps
<1>1. MailTypes' /\ BitsInv'
  BY DEF MailInv, MailTypes, BitsInv, Delivery
<1>2. NoLostGap'
  <2>1. \A c \in Channels : delivered[c] # published[c] => Announced(c)
    BY NoLostGapIs DEF MailInv
  <2>2. \A c \in Channels : Announced(c) => Announced(c)'
    BY PollKeeps DEF Announced
  <2>3. \A c \in Channels : delivered'[c] # published'[c] => Announced(c)'
    BY <2>1, <2>2 DEF Delivery
  <2>4. QED
    BY <2>3 DEF NoLostGap, Announced, Marked, Looking
<1>3. QED
  BY <1>1, <1>2, PollKeeps DEF MailInv

\* Entering and leaving TryPollGap, and the steps inside TrySnapshot.
LEMMA SnapshotMail ==
  ASSUME HandshakeInv, MailInv,
         BeginPoll \/ PollNothing \/ AfterFalse \/ Claim \/ Recheck \/ CopyFirstHalf \/ CopySecondHalf
  PROVE  MailInv' /\ UNCHANGED Gaps
<1>1. MailTypes /\ IndexInv
  BY DEF MailInv, HandshakeInv
<1>2. CASE BeginPoll \/ PollNothing \/ AfterFalse
  <2>1. /\ UNCHANGED Delivery
        /\ UNCHANGED <<dirty, pending, channel, before, snapshot, word_cursor>>
        /\ count' \in {0, count} /\ ~(cpc = "load" \/ Looking)
        /\ cpc' \in {"word", "false", "idle"}
    BY <1>2 DEF BeginPoll, PollNothing, AfterFalse, Shared, producing, Delivery, Looking
  <2>2. BeforeInv' /\ CopyInv'
    BY <2>1 DEF BeforeInv, CopyInv, Looking, Copying
  <2>3. count' \in Nat /\ before' \in MailToken /\ snapshot' \in MailGap /\ word_cursor' \in Nat
    BY <1>1, <2>1 DEF MailTypes
  <2>4. QED
    BY <2>1, <2>2, <2>3, LookMail
<1>3. CASE Claim \/ Recheck \/ CopyFirstHalf \/ CopySecondHalf
  <2>1. /\ UNCHANGED Delivery
        /\ UNCHANGED <<dirty, pending, channel, before, word_cursor, count>>
        /\ Looking /\ Looking'
    BY <1>3 DEF Claim, Recheck, CopyFirstHalf, CopySecondHalf, Shared, producing, Delivery, Looking
  <2>2. /\ before.index \in Buffers /\ before \in MailToken /\ channel \in Channels
        /\ buffers[channel][before.index] \in MailGap
        /\ TokenInv(channel) /\ CopyInv /\ BeforeInv
    BY <1>1, <2>1 DEF MailInv, MailTypes, BeforeInv
  <2>3. BeforeInv'
    <3>1. Marked(channel) => Marked(channel)'
      BY <2>1 DEF Marked, Delivery
    <3>2. QED
      BY <2>1, <2>2, <3>1 DEF BeforeInv, Delivery
  <2>4. snapshot' \in MailGap /\ CopyInv'
    <3>1. CASE Claim
      BY <1>1, <3>1 DEF Claim, CopyInv, Copying, MailTypes
    <3>2. CASE Recheck
      <4>1. CASE before = published_token[channel]
        <5>1. before.index # NoBuffer
          BY <2>2 DEF Buffers, NoBuffer
        <5>2. buffers[channel][before.index] = [lo |-> before.gen, hi |-> before.gen]
          BY <2>2, <4>1, <5>1 DEF TokenInv
        <5>3. cpc' = "copy" /\ UNCHANGED <<snapshot, buffers>>
          BY <3>2, <4>1 DEF Recheck, Shared
        <5>4. QED
          BY <1>1, <2>1, <5>2, <5>3 DEF CopyInv, MailTypes
      <4>2. CASE before # published_token[channel]
        BY <1>1, <3>2, <4>2 DEF Recheck, CopyInv, Copying, MailTypes
      <4>3. QED
        BY <4>1, <4>2
    <3>3. CASE CopyFirstHalf
      <4>1. /\ snapshot' = [snapshot EXCEPT !.lo = buffers[channel][before.index].lo]
            /\ cpc = "copy" /\ cpc' = "copy2" /\ UNCHANGED buffers
        BY <3>3 DEF CopyFirstHalf, Shared
      <4>2. buffers[channel][before.index] = [lo |-> before.gen, hi |-> before.gen]
        BY <2>2, <4>1 DEF CopyInv, Copying
      <4>3. snapshot' \in MailGap /\ snapshot'.lo = before.gen
        BY <1>1, <2>2, <4>1, <4>2 DEF MailTypes, MailGap
      <4>4. QED
        BY <2>1, <4>1, <4>2, <4>3 DEF CopyInv
    <3>4. CASE CopySecondHalf
      <4>1. /\ snapshot' = [snapshot EXCEPT !.hi = buffers[channel][before.index].hi]
            /\ cpc = "copy2" /\ cpc' = "finish"
        BY <3>4 DEF CopySecondHalf
      <4>2. /\ buffers[channel][before.index] = [lo |-> before.gen, hi |-> before.gen]
            /\ snapshot.lo = before.gen
        BY <2>2, <4>1 DEF CopyInv, Copying
      <4>3. snapshot' \in MailGap /\ snapshot'.lo = before.gen /\ snapshot'.hi = before.gen
        BY <1>1, <2>2, <4>1, <4>2 DEF MailTypes, MailGap
      <4>4. QED
        BY <2>1, <4>1, <4>3 DEF CopyInv, Copying
    <3>5. QED
      BY <1>3, <3>1, <3>2, <3>3, <3>4
  <2>5. word_cursor' \in Nat /\ count' \in Nat /\ before' \in MailToken
    BY <1>1, <2>1 DEF MailTypes
  <2>6. QED
    BY <2>1, <2>3, <2>4, <2>5, LookMail
<1>4. QED
  BY <1>2, <1>3

\* Going through the bitmap: only a channel without news is passed over.
LEMMA ScanMail ==
  ASSUME HandshakeInv, MailInv, ScanWord \/ LoadToken \/ AlreadyReturned
  PROVE  MailInv' /\ UNCHANGED Gaps
<1>1. MailTypes /\ IndexInv
  BY DEF MailInv, HandshakeInv
<1>2. Word \in Words /\ dirty[Word] \in SUBSET Nat /\ pending[Word] \in SUBSET Nat
  <2>1. word_cursor + count \in Nat
    BY <1>1 DEF MailTypes
  <2>2. Word \in Words
    BY <2>1, WordInBitmap DEF Word
  <2>3. QED
    BY <1>1, <2>2 DEF MailTypes
<1>3. CASE ScanWord
  <2>1. /\ UNCHANGED Delivery /\ UNCHANGED <<snapshot, word_cursor, before>>
        /\ ~(cpc = "load" \/ Looking)
    BY <1>3 DEF ScanWord, Shared, producing, Delivery, Looking
  <2>2. before' \in MailToken
    BY <1>1, <2>1 DEF MailTypes
  <2>3. CASE pending[Word] = {}
    <3>1. TakeBit(Word, dirty[Word]) /\ dirty' = [dirty EXCEPT ![Word] = {}]
      BY <1>3, <2>3 DEF ScanWord
    <3>2. QED
      BY <1>2, <2>1, <2>2, <2>3, <3>1, TakeBitMail
  <2>4. CASE pending[Word] # {}
    <3>1. TakeBit(Word, pending[Word]) /\ dirty' = dirty
      BY <1>3, <2>4 DEF ScanWord
    <3>2. QED
      BY <1>2, <2>1, <2>2, <3>1, TakeBitMail
  <2>5. QED
    BY <2>3, <2>4
<1>4. CASE LoadToken
  <2>1. /\ UNCHANGED Delivery /\ UNCHANGED <<snapshot, word_cursor, dirty>>
        /\ cpc = "load" /\ before' = published_token[channel]
    BY <1>4 DEF LoadToken, Shared, producing, Delivery
  <2>2. before' \in MailToken /\ channel \in Channels /\ TokenInv(channel)
    BY <1>1, <2>1 DEF MailInv, MailTypes, IndexInv, MailToken
  <2>3. CASE published_token[channel].index = NoBuffer
    <3>1. TakeBit(Word, pending[Word])
      BY <1>4, <2>3 DEF LoadToken
    <3>2. delivered[channel] = published[channel]
      BY <1>1, <2>2, <2>3 DEF TokenInv, MailTypes
    <3>3. QED
      BY <1>2, <2>1, <2>2, <3>1, <3>2, TakeBitMail
  <2>4. CASE published_token[channel].index # NoBuffer
    <3>1. cpc' = "claim" /\ UNCHANGED <<pending, count, channel>>
      BY <1>4, <2>4 DEF LoadToken
    <3>2. before'.index \in Buffers
      BY <2>1, <2>2, <2>4 DEF MailToken, Buffers, NoBuffer
    <3>3. BeforeInv' /\ CopyInv'
      <4>1. CopyInv'
        BY <3>1 DEF CopyInv, Copying
      <4>2. published[channel] \in Nat /\ delivered[channel] \in Nat
        BY <1>1 DEF MailTypes
      <4>3. QED
        BY <2>1, <2>2, <3>1, <3>2, <4>1, <4>2 DEF BeforeInv, TokenInv, Delivery
    <3>4. snapshot' \in MailGap /\ word_cursor' \in Nat /\ count' \in Nat /\ Looking'
      BY <1>1, <2>1, <3>1 DEF MailTypes, Looking
    <3>5. QED
      BY <2>1, <2>2, <3>1, <3>3, <3>4, LookMail
  <2>5. QED
    BY <2>3, <2>4
<1>5. CASE AlreadyReturned
  <2>1. /\ UNCHANGED Delivery /\ UNCHANGED <<snapshot, word_cursor, dirty, before>>
        /\ cpc = "finish" /\ delivered_token[channel] = before /\ TakeBit(Word, pending[Word])
    BY <1>5 DEF AlreadyReturned, producing, Delivery
  <2>2. before' \in MailToken /\ TokenInv(channel) /\ BeforeInv
    BY <1>1, <2>1 DEF MailInv, MailTypes
  <2>3. delivered[channel] # published[channel] => Marked(channel)
    BY <2>1, <2>2 DEF BeforeInv, Looking, TokenInv
  <2>4. QED
    BY <1>2, <2>1, <2>2, <2>3, TakeBitMail
<1>6. QED
  BY <1>3, <1>4, <1>5

\* A snapshot that failed is tried again, or its bit is set again.
LEMMA UnclaimMail ==
  ASSUME MailInv, Unclaim
  PROVE  MailInv' /\ UNCHANGED Gaps
<1>1. MailTypes /\ channel \in Channels /\ WordOf(channel) \in Words /\ BitOf(channel) \in Nat
  BY BitmapRoundTrip DEF MailInv, MailTypes
<1>2. /\ UNCHANGED Delivery /\ cpc = "unclaim" /\ cpc' \in {"load", "false"}
      /\ UNCHANGED <<snapshot, word_cursor, dirty, before, count, channel>>
  BY DEF Unclaim, producing, Delivery
<1>3. BeforeInv' /\ CopyInv'
  BY <1>2 DEF BeforeInv, CopyInv, Looking, Copying
<1>4. CASE cpc' = "load" /\ UNCHANGED pending
  <2>1. snapshot' \in MailGap /\ word_cursor' \in Nat /\ count' \in Nat /\ before' \in MailToken
    BY <1>1, <1>2 DEF MailTypes
  <2>2. QED
    BY <1>2, <1>3, <1>4, <2>1, LookMail
<1>5. CASE /\ pending' = [pending EXCEPT ![WordOf(channel)] =
                            pending[WordOf(channel)] \cup {BitOf(channel)}]
           /\ cpc' = "false"
  <2>1. /\ pending' \in [Words -> SUBSET Nat] /\ BitOf(channel) \in pending'[WordOf(channel)]
        /\ \A w \in Words : pending[w] \subseteq pending'[w]
        /\ \A w \in Words : \A bit \in pending'[w] :
             bit \in pending[w] \/ (w = WordOf(channel) /\ bit = BitOf(channel))
    BY <1>1, <1>5 DEF MailTypes
  <2>2. MailTypes' /\ BitsInv'
    BY <1>1, <1>2, <2>1 DEF MailInv, MailTypes, BitsInv, Delivery
  <2>3. ASSUME NEW c \in Channels, delivered'[c] # published'[c] PROVE Announced(c)'
    <3>1. Announced(c) /\ WordOf(c) \in Words
      BY <1>2, <2>3, NoLostGapIs, BitmapRoundTrip DEF MailInv, Delivery
    <3>2. CASE c = channel
      BY <2>1, <3>2 DEF Announced
    <3>3. CASE c # channel
      BY <1>2, <2>1, <3>1, <3>3, PollKeeps DEF Announced
    <3>4. QED
      BY <3>2, <3>3
  <2>4. NoLostGap'
    BY <2>3 DEF NoLostGap, Announced, Marked, Looking
  <2>5. QED
    BY <1>2, <1>3, <2>2, <2>4, PollKeeps DEF MailInv
<1>6. QED
  BY <1>4, <1>5 DEF Unclaim

\* TryPollGap returns a whole gap of the channel, later than the one before it.
LEMMA ReturnGapMail ==
  ASSUME HandshakeInv, MailInv, DoneInv, ReturnGap
  PROVE  MailInv' /\ Notice!Next
<1>1. /\ MailTypes /\ BeforeInv /\ CopyInv /\ TokenInv(channel) /\ IndexInv
      /\ channel \in Channels /\ before \in MailToken
      /\ delivered[channel] \in Nat /\ published[channel] \in Nat /\ before.gen \in Nat
  BY DEF MailInv, HandshakeInv, MailTypes, MailToken
<1>2. /\ cpc = "finish" /\ cpc' = "idle" /\ delivered_token[channel] # before
      /\ delivered_token' = [delivered_token EXCEPT ![channel] = before]
      /\ delivered' = [delivered EXCEPT ![channel] = snapshot.hi]
      /\ word_cursor' = (Word + 1) % Cardinality(Words)
      /\ UNCHANGED <<published, published_token, buffers, ppc, slot, target, dirty, pending,
                     count, channel, before, snapshot, phase>>
      /\ phase # "done"
  BY DEF ReturnGap, producing, DoneInv
<1>3. /\ snapshot.hi = before.gen /\ before.gen <= published[channel]
      /\ delivered[channel] < before.gen
      /\ before.gen = published[channel] => before = published_token[channel]
      /\ before.gen # published[channel] => Marked(channel)
  BY <1>1, <1>2 DEF BeforeInv, CopyInv, Looking
<1>4. /\ delivered'[channel] = before.gen /\ delivered_token'[channel] = before
      /\ \A d \in Channels : d # channel => /\ delivered'[d] = delivered[d]
                                            /\ delivered_token'[d] = delivered_token[d]
      /\ delivered' \in [Channels -> Nat] /\ delivered_token' \in [Channels -> MailToken]
  BY <1>1, <1>2, <1>3 DEF MailTypes
<1>5. word_cursor' \in Nat
  <2>1. word_cursor + count \in Nat
    BY <1>1 DEF MailTypes
  <2>2. Word \in Words
    BY <2>1, WordInBitmap DEF Word
  <2>3. Word + 1 \in Nat
    BY <2>2 DEF Words
  <2>4. word_cursor' \in Words
    BY <1>2, <2>3, WordInBitmap
  <2>5. QED
    BY <2>4 DEF Words
<1>6. MailTypes' /\ BitsInv'
  BY <1>1, <1>2, <1>4, <1>5 DEF MailInv, MailTypes, BitsInv
<1>7. BeforeInv' /\ CopyInv'
  BY <1>2 DEF BeforeInv, CopyInv, Looking, Copying
<1>8. \A d \in Channels : TokenInv(d)'
  <2> SUFFICES ASSUME NEW d \in Channels PROVE TokenInv(d)'
    OBVIOUS
  <2>1. TokenInv(d)
    BY DEF MailInv
  <2>2. CASE d = channel
    BY <1>2, <1>3, <1>4, <2>1, <2>2 DEF TokenInv
  <2>3. CASE d # channel
    BY <1>2, <1>4, <2>1, <2>3 DEF TokenInv
  <2>4. QED
    BY <2>2, <2>3
<1>9. \A p \in LaneIds : WriteInv(p)'
  BY <1>2 DEF MailInv, WriteInv
<1>10. ASSUME NEW c \in Channels, delivered'[c] # published'[c] PROVE Announced(c)'
  <2>1. Marked(c) => Marked(c)'
    BY <1>2 DEF Marked
  <2>2. CASE c = channel
    BY <1>2, <1>3, <1>4, <1>10, <2>1, <2>2 DEF Announced
  <2>3. CASE c # channel
    <3>1. Announced(c)
      BY <1>2, <1>4, <1>10, <2>3, NoLostGapIs DEF MailInv
    <3>2. QED
      BY <1>2, <2>1, <2>3, <3>1 DEF Announced
  <2>4. QED
    BY <2>2, <2>3
<1>11. NoLostGap'
  BY <1>10 DEF NoLostGap, Announced, Marked, Looking
<1>12. Notice!Deliver(channel)
  <2>1. before.gen \in (delivered[channel] + 1)..published[channel]
    BY <1>1, <1>3
  <2>2. delivered' = [delivered EXCEPT ![channel] = before.gen]
    BY <1>2, <1>3
  <2>3. phase # "done" /\ UNCHANGED <<published, phase>>
    BY <1>2
  <2>4. QED
    BY <2>1, <2>2, <2>3 DEF Notice!Deliver
<1>13. QED
  BY <1>1, <1>6, <1>7, <1>8, <1>9, <1>11, <1>12 DEF MailInv, Notice!Next

\* The application closes once, after a poll of its final drain returned false.
LEMMA DoneStep ==
  ASSUME DoneInv, [Next]_vars
  PROVE  /\ DoneInv'
         /\ UNCHANGED phase \/ AfterFalse
         /\ AfterFalse => phase # "done"
<1>1. CASE \E c \in Channels : PublishLoad(c)
  BY <1>1 DEF DoneInv, PublishLoad, polling, AfterFalse
<1>2. CASE \E p \in LaneIds : PublishStep(p)
  BY <1>2 DEF DoneInv, PublishStep, WriteFirstHalf, WriteSecondHalf, StoreToken, MarkDirty,
       polling, AfterFalse
<1>3. CASE AfterFalse
  BY <1>3 DEF DoneInv, AfterFalse
<1>4. CASE PollStep /\ ~AfterFalse
  BY <1>4 DEF DoneInv, PollStep, BeginPoll, ScanWord, PollNothing, LoadToken, Claim, Recheck,
       Unclaim, CopyFirstHalf, CopySecondHalf, ReturnGap, AlreadyReturned
<1>5. CASE Stop \/ Terminated \/ UNCHANGED vars
  BY <1>5 DEF DoneInv, Stop, Terminated, vars, polling, AfterFalse
<1>6. QED
  BY <1>1, <1>2, <1>3, <1>4, <1>5 DEF Next

\* A step that returns nothing and publishes nothing closes the notice or is none of it.
LEMMA QuietStep ==
  ASSUME DoneInv, [Next]_vars, UNCHANGED Gaps
  PROVE  [Notice!Next]_(Notice!vars)
<1>1. CASE UNCHANGED phase
  BY <1>1 DEF Gaps, Notice!vars
<1>2. CASE AfterFalse /\ phase' # "done"
  BY <1>2, DoneStep DEF Gaps, Notice!vars
<1>3. CASE AfterFalse /\ phase' = "done"
  <2>1. Notice!Close
    BY <1>3, DoneStep DEF Gaps, Notice!Close
  <2>2. QED
    BY <2>1 DEF Notice!Next
<1>4. QED
  BY <1>1, <1>2, <1>3, DoneStep

\* Every step keeps the invariant and is a step of the abstract notice, or none.
LEMMA MailStep ==
  ASSUME HandshakeInv, MailInv, DoneInv, [Next]_vars
  PROVE  MailInv' /\ [Notice!Next]_(Notice!vars)
<1>1. CASE \E c \in Channels : PublishLoad(c)
  BY <1>1, PublishLoadMail, QuietStep
<1>2. CASE \E p \in LaneIds : PublishStep(p)
  <2> PICK p \in LaneIds : PublishStep(p)
    BY <1>2
  <2>1. CASE WriteFirstHalf(p) \/ WriteSecondHalf(p) \/ MarkDirty(p)
    BY <2>1, WriteHalfMail, MarkDirtyMail, QuietStep
  <2>2. CASE StoreToken(p)
    BY <2>2, StoreTokenMail
  <2>3. QED
    BY <2>1, <2>2 DEF PublishStep
<1>3. CASE PollStep
  <2>1. CASE ReturnGap
    BY <2>1, ReturnGapMail
  <2>2. CASE ~ReturnGap
    BY <1>3, <2>2, SnapshotMail, ScanMail, UnclaimMail, QuietStep DEF PollStep
  <2>3. QED
    BY <2>1, <2>2
<1>4. CASE Stop \/ Terminated \/ UNCHANGED vars
  <2>1. /\ UNCHANGED Delivery
        /\ UNCHANGED <<dirty, pending, channel, before, snapshot, word_cursor, count, cpc>>
    BY <1>4 DEF Stop, Terminated, vars, producing, polling, Delivery
  <2>2. MailTypes' /\ BeforeInv' /\ CopyInv'
    BY <2>1 DEF MailInv, MailTypes, BeforeInv, CopyInv, Looking, Copying, Marked, Delivery
  <2>3. Looking' <=> Looking
    BY <2>1 DEF Looking
  <2>4. QED
    BY <2>1, <2>2, <2>3, LookMail, QuietStep DEF MailTypes
<1>5. QED
  BY <1>1, <1>2, <1>3, <1>4 DEF Next

\* No gap is lost between the bitmap's words, the consumer's pending bits and a busy
\* mailbox: one the consumer has not returned is announced somewhere, for every number
\* of lanes, channels and bits of a word.
THEOREM NoLostGapHolds == Spec => []NoLostGap
<1>1. Init => MailInv /\ DoneInv
  BY InitMail
<1>2. HandshakeInv /\ MailInv /\ DoneInv /\ [Next]_vars => MailInv' /\ DoneInv'
  BY MailStep, DoneStep
<1>3. MailInv => NoLostGap
  BY DEF MailInv
<1>4. QED
  BY <1>1, <1>2, <1>3, HandshakeInductive, PTL DEF Spec

\* The mailboxes implement the abstract notice, step by step: TryPollGap returns whole
\* gaps, those of a channel in order and none twice, and none after the application's
\* final drain.  That the latest is returned at last while the application polls, which
\* ImplementsNotice also says, is checked by TLC.
THEOREM MailboxImplementsNotice == Spec => Notice!Init /\ [][Notice!Next]_(Notice!vars)
<1>1. Init => MailInv /\ DoneInv /\ Notice!Init
  BY InitMail
<1>2. HandshakeInv /\ MailInv /\ DoneInv /\ [Next]_vars =>
        MailInv' /\ DoneInv' /\ [Notice!Next]_(Notice!vars)
  BY MailStep, DoneStep
<1>3. QED
  BY <1>1, <1>2, HandshakeInductive, PTL DEF Spec
=============================================================================
