----------------------------- MODULE GapMailbox -----------------------------
(***************************************************************************)
(* Gap control delivery (src/engine.cpp): one GapMailboxSlot for every     *)
(* channel slot of every tick lane, the dirty bitmap over them, and        *)
(* Dispatcher::PublishGap and TryPollGap.  Every tick lane is a producer   *)
(* of its own slots; one consumer thread polls all of them.                *)
(*                                                                         *)
(* Each atomic operation is a step, and a ChannelGap, which is copied as   *)
(* plain memory, is written and read in two halves.  A gap is its epoch.   *)
(* A bitmap word is the set of its bits.                                   *)
(***************************************************************************)
EXTENDS Naturals, FiniteSets, FiniteSetsExt

CONSTANTS
  Lanes,        \* number of tick producers
  ChannelSlots, \* gap_channels_per_producer_
  WordBits,     \* bits of a bitmap word (64 in the code)
  Attempts,     \* kMaximumAttempts of TrySnapshot
  MaxEpoch,     \* bound: gaps published per channel
  MaxGaps       \* bound: gaps published by all lanes

ASSUME MailboxAssumption ==
  /\ Lanes \in Nat \ {0} /\ ChannelSlots \in Nat \ {0} /\ WordBits \in Nat \ {0}
  /\ Attempts \in Nat \ {0} /\ MaxEpoch \in Nat /\ MaxGaps \in Nat

LaneIds == 0..(Lanes - 1)
Channels == LaneIds \X (0..(ChannelSlots - 1))
WordsPerLane == (ChannelSlots + WordBits - 1) \div WordBits
Words == 0..(Lanes * WordsPerLane - 1)
Buffers == 0..2
NoBuffer == 3                      \* kNoReader, and the index of the first token
WordOf(c) == c[1] * WordsPerLane + c[2] \div WordBits
BitOf(c) == c[2] % WordBits
ChannelOf(w, bit) == <<w \div WordsPerLane, (w % WordsPerLane) * WordBits + bit>>

VARIABLES
  buffers,          \* buffers_ of every mailbox, each in two halves
  published_token,  \* [gen, index] of every mailbox
  reader_index,     \* buffer claimed by the consumer, or NoBuffer
  delivered_token,  \* the consumer's record of what it returned last
  dirty,            \* gap_dirty_words_
  pending,          \* gap_consumer_pending_
  word_cursor,      \* gap_consumer_word_cursor_
  ppc, slot, target,    \* each producer: place in PublishGap, channel, buffer
  cpc, count, channel, attempt, before, snapshot,  \* the consumer's locals
  published, delivered, \* history: epochs published to and returned from a slot
  stopped,          \* the lanes have been joined (Stop)
  phase             \* the application: "drain" loop, "final" drain, "done"

producing == <<ppc, slot, target, published, stopped>>
polling == <<cpc, count, channel, attempt, before, snapshot, pending, word_cursor,
             delivered_token, delivered, phase>>
vars == <<producing, polling, buffers, published_token, reader_index, dirty>>

Blank == [lo |-> 0, hi |-> 0]
FirstToken == [gen |-> 0, index |-> NoBuffer]

Init ==
  /\ buffers = [c \in Channels |-> [i \in Buffers |-> Blank]]
  /\ published_token = [c \in Channels |-> FirstToken]
  /\ reader_index = [c \in Channels |-> NoBuffer]
  /\ delivered_token = [c \in Channels |-> FirstToken]
  /\ dirty = [w \in Words |-> {}]
  /\ pending = [w \in Words |-> {}]
  /\ word_cursor = 0
  /\ ppc = [p \in LaneIds |-> "idle"]
  /\ slot = [p \in LaneIds |-> <<p, 0>>]
  /\ target = [p \in LaneIds |-> 0]
  /\ cpc = "idle" /\ count = 0 /\ channel = <<0, 0>> /\ attempt = 0
  /\ before = FirstToken /\ snapshot = Blank
  /\ published = [c \in Channels |-> 0]
  /\ delivered = [c \in Channels |-> 0]
  /\ stopped = FALSE /\ phase = "drain"

-----------------------------------------------------------------------------
(* PublishGap on a tick lane. *)

\* Mutant: the buffer the consumer has claimed is not skipped.
ChooseTargetBlind(current, reader) == (current + 1) % 3

ChooseTarget(current, reader) ==
  LET next == (current + 1) % 3
  IN  IF next = reader THEN (next + 1) % 3 ELSE next

\* Publish loads the token, which only this lane stores, and reader_index_.
PublishLoad(c) ==
  LET p == c[1]
  IN  /\ ppc[p] = "idle" /\ ~stopped
      /\ published[c] < MaxEpoch
      /\ MapThenSumSet(LAMBDA d : published[d], Channels) < MaxGaps
      /\ slot' = [slot EXCEPT ![p] = c]
      /\ target' = [target EXCEPT ![p] =
           ChooseTarget(published_token[c].index, reader_index[c])]
      /\ ppc' = [ppc EXCEPT ![p] = "write"]
      /\ UNCHANGED <<published, stopped, polling, buffers, published_token, reader_index,
                     dirty>>

WriteFirstHalf(p) ==
  /\ ppc[p] = "write"
  /\ buffers' = [buffers EXCEPT ![slot[p]][target[p]].lo = published[slot[p]] + 1]
  /\ ppc' = [ppc EXCEPT ![p] = "write2"]
  /\ UNCHANGED <<slot, target, published, stopped, polling, published_token,
                 reader_index, dirty>>

WriteSecondHalf(p) ==
  /\ ppc[p] = "write2"
  /\ buffers' = [buffers EXCEPT ![slot[p]][target[p]].hi = published[slot[p]] + 1]
  /\ ppc' = [ppc EXCEPT ![p] = "store"]
  /\ UNCHANGED <<slot, target, published, stopped, polling, published_token,
                 reader_index, dirty>>

\* ++producer_generation_, then the store of the versioned token.
StoreToken(p) ==
  LET c == slot[p]
  IN  /\ ppc[p] = "store"
      /\ published_token' = [published_token EXCEPT ![c] =
           [gen |-> @.gen + 1, index |-> target[p]]]
      /\ published' = [published EXCEPT ![c] = @ + 1]
      /\ ppc' = [ppc EXCEPT ![p] = "mark"]
      /\ UNCHANGED <<slot, target, stopped, polling, buffers, reader_index, dirty>>

\* fetch_or of the channel's dirty bit.
MarkDirty(p) ==
  /\ ppc[p] = "mark"
  /\ dirty' = [dirty EXCEPT ![WordOf(slot[p])] = @ \cup {BitOf(slot[p])}]
  /\ ppc' = [ppc EXCEPT ![p] = "idle"]
  /\ UNCHANGED <<slot, target, published, stopped, polling, buffers, published_token,
                 reader_index>>

\* Stop joins the lanes: none is inside PublishGap and none publishes again.
Stop ==
  /\ ~stopped /\ \A p \in LaneIds : ppc[p] = "idle"
  /\ stopped' = TRUE
  /\ UNCHANGED <<ppc, slot, target, published, polling, buffers, published_token,
                 reader_index, dirty>>

-----------------------------------------------------------------------------
(* TryPollGap on the consumer's thread. *)
Shared == <<producing, buffers, published_token, reader_index>>

Word == (word_cursor + count) % Cardinality(Words)

\* Mutant: the scan starts behind the cursor's word and never comes to it.
BeginPollPastCursor ==
  /\ cpc = "idle" /\ phase # "done"
  /\ cpc' = "word" /\ count' = 1
  /\ UNCHANGED <<Shared, dirty, pending, word_cursor, channel, attempt, before,
                 snapshot, delivered_token, delivered, phase>>

BeginPoll ==
  /\ cpc = "idle" /\ phase # "done"
  /\ cpc' = "word" /\ count' = 0
  /\ UNCHANGED <<Shared, dirty, pending, word_cursor, channel, attempt, before,
                 snapshot, delivered_token, delivered, phase>>

\* A poll returned false.  The application's drain thread polls again, or has
\* seen drain_running cleared after Stop; the main thread then polls until the
\* next false and is done.
AfterFalse ==
  /\ cpc = "false"
  /\ cpc' = "idle"
  /\ \/ phase = "drain" /\ UNCHANGED phase
     \/ phase = "drain" /\ stopped /\ phase' = "final"
     \/ phase = "final" /\ phase' = "done"
  /\ UNCHANGED <<Shared, dirty, count, channel, attempt, before, snapshot, pending,
                 word_cursor, delivered_token, delivered>>

\* The next set bit of the word, or the next word.
TakeBit(word, bits) ==
  /\ pending' = [pending EXCEPT ![word] = IF bits = {} THEN {} ELSE bits \ {Min(bits)}]
  /\ IF bits = {}
       THEN cpc' = "word" /\ count' = count + 1 /\ UNCHANGED <<channel, attempt>>
       ELSE /\ cpc' = "load" /\ attempt' = 0 /\ UNCHANGED count
            /\ channel' = ChannelOf(word, Min(bits))

\* A word that still has pending bits is not exchanged for new dirty bits.
ScanWord ==
  /\ cpc = "word" /\ count < Cardinality(Words)
  /\ IF pending[Word] = {}
       THEN TakeBit(Word, dirty[Word]) /\ dirty' = [dirty EXCEPT ![Word] = {}]
       ELSE TakeBit(Word, pending[Word]) /\ UNCHANGED dirty
  /\ UNCHANGED <<Shared, before, snapshot, word_cursor, delivered_token, delivered,
                 phase>>

\* All words were scanned: TryPollGap returns false.
PollNothing ==
  /\ cpc = "word" /\ count = Cardinality(Words)
  /\ cpc' = "false"
  /\ UNCHANGED <<Shared, dirty, count, channel, attempt, before, snapshot, pending,
                 word_cursor, delivered_token, delivered, phase>>

\* A mailbox without a token has nothing to return (kNoChange).
LoadToken ==
  /\ cpc = "load"
  /\ before' = published_token[channel]
  /\ IF published_token[channel].index = NoBuffer
       THEN TakeBit(Word, pending[Word])
       ELSE cpc' = "claim" /\ UNCHANGED <<pending, count, channel, attempt>>
  /\ UNCHANGED <<Shared, dirty, snapshot, word_cursor, delivered_token, delivered,
                 phase>>

Claim ==
  /\ cpc = "claim"
  /\ reader_index' = [reader_index EXCEPT ![channel] = before.index]
  /\ cpc' = "recheck"
  /\ UNCHANGED <<producing, buffers, published_token, dirty, count, channel, attempt,
                 before, snapshot, pending, word_cursor, delivered_token, delivered,
                 phase>>

Recheck ==
  /\ cpc = "recheck"
  /\ cpc' = IF before = published_token[channel] THEN "copy" ELSE "unclaim"
  /\ UNCHANGED <<Shared, dirty, count, channel, attempt, before, snapshot, pending,
                 word_cursor, delivered_token, delivered, phase>>

\* Another attempt, or kBusy: the bit is set again and TryPollGap returns false.
Unclaim ==
  /\ cpc = "unclaim"
  /\ reader_index' = [reader_index EXCEPT ![channel] = NoBuffer]
  /\ attempt' = attempt + 1
  /\ IF attempt + 1 < Attempts
       THEN cpc' = "load" /\ UNCHANGED pending
       ELSE /\ cpc' = "false"
            /\ pending' = [pending EXCEPT ![WordOf(channel)] = @ \cup {BitOf(channel)}]
  /\ UNCHANGED <<producing, buffers, published_token, dirty, count, channel,
                 before, snapshot, word_cursor, delivered_token, delivered, phase>>

CopyFirstHalf ==
  /\ cpc = "copy"
  /\ snapshot' = [snapshot EXCEPT !.lo = buffers[channel][before.index].lo]
  /\ cpc' = "copy2"
  /\ UNCHANGED <<Shared, dirty, count, channel, attempt, before, pending,
                 word_cursor, delivered_token, delivered, phase>>

CopySecondHalf ==
  /\ cpc = "copy2"
  /\ snapshot' = [snapshot EXCEPT !.hi = buffers[channel][before.index].hi]
  /\ cpc' = "finish"
  /\ UNCHANGED <<Shared, dirty, count, channel, attempt, before, pending,
                 word_cursor, delivered_token, delivered, phase>>

\* Mutant: the token is loaded again to remember what was returned.
ReturnGapLatestToken ==
  /\ cpc = "finish" /\ delivered_token[channel] # before
  /\ reader_index' = [reader_index EXCEPT ![channel] = NoBuffer]
  /\ delivered_token' = [delivered_token EXCEPT ![channel] = published_token[channel]]
  /\ delivered' = [delivered EXCEPT ![channel] = snapshot.hi]
  /\ word_cursor' = (Word + 1) % Cardinality(Words)
  /\ cpc' = "idle"
  /\ UNCHANGED <<producing, buffers, published_token, dirty, count, channel, attempt,
                 before, snapshot, pending, phase>>

\* kReady: TryPollGap returns the gap and moves the word cursor on.
ReturnGap ==
  /\ cpc = "finish" /\ delivered_token[channel] # before
  /\ reader_index' = [reader_index EXCEPT ![channel] = NoBuffer]
  /\ delivered_token' = [delivered_token EXCEPT ![channel] = before]
  /\ delivered' = [delivered EXCEPT ![channel] = snapshot.hi]
  /\ word_cursor' = (Word + 1) % Cardinality(Words)
  /\ cpc' = "idle"
  /\ UNCHANGED <<producing, buffers, published_token, dirty, count, channel, attempt,
                 before, snapshot, pending, phase>>

\* kNoChange: the gap was returned before; go on with the word.
AlreadyReturned ==
  /\ cpc = "finish" /\ delivered_token[channel] = before
  /\ reader_index' = [reader_index EXCEPT ![channel] = NoBuffer]
  /\ TakeBit(Word, pending[Word])
  /\ UNCHANGED <<producing, buffers, published_token, dirty, before, snapshot,
                 word_cursor, delivered_token, delivered, phase>>

Terminated == phase = "done" /\ UNCHANGED vars

PublishStep(p) ==
  WriteFirstHalf(p) \/ WriteSecondHalf(p) \/ StoreToken(p) \/ MarkDirty(p)

PollStep ==
  \/ BeginPoll \/ ScanWord \/ PollNothing \/ AfterFalse
  \/ LoadToken \/ Claim \/ Recheck \/ Unclaim
  \/ CopyFirstHalf \/ CopySecondHalf \/ ReturnGap \/ AlreadyReturned

Next ==
  \/ \E c \in Channels : PublishLoad(c)
  \/ \E p \in LaneIds : PublishStep(p)
  \/ Stop \/ PollStep \/ Terminated

\* A lane that has begun to publish finishes, and the application keeps polling;
\* nothing forces a gap to occur.
Fairness == WF_vars(PollStep) /\ \A p \in LaneIds : WF_vars(PublishStep(p))

Spec == Init /\ [][Next]_vars /\ Fairness

-----------------------------------------------------------------------------
Half == 0..MaxEpoch
Token == [gen : 0..MaxEpoch, index : 0..3]

\* Indexes, tokens and bitmap words have the ranges of the code's members.
TypeOK ==
  /\ buffers \in [Channels -> [Buffers -> [lo : Half, hi : Half]]]
  /\ published_token \in [Channels -> Token]
  /\ delivered_token \in [Channels -> Token]
  /\ reader_index \in [Channels -> 0..3]
  /\ dirty \in [Words -> SUBSET (0..(WordBits - 1))]
  /\ pending \in [Words -> SUBSET (0..(WordBits - 1))]
  /\ word_cursor \in Words
  /\ ppc \in [LaneIds -> {"idle", "write", "write2", "store", "mark"}]
  /\ slot \in [LaneIds -> Channels] /\ target \in [LaneIds -> Buffers]
  /\ cpc \in {"idle", "false", "word", "load", "claim", "recheck", "unclaim", "copy",
              "copy2", "finish"}
  /\ count \in 0..Cardinality(Words) /\ channel \in Channels
  /\ attempt \in 0..Attempts /\ before \in Token
  /\ snapshot \in [lo : Half, hi : Half]
  /\ published \in [Channels -> Half] /\ delivered \in [Channels -> Half]
  /\ stopped \in BOOLEAN /\ phase \in {"drain", "final", "done"}

Writing(p) == ppc[p] \in {"write", "write2"}
Copying == cpc \in {"copy", "copy2"}

\* A preempted consumer's buffer is never overwritten: while TrySnapshot copies a
\* confirmed buffer, the producer of that channel writes another one, whatever
\* happened between the claim, its recheck and the producer's own loads.
NoBufferRace ==
  \A p \in LaneIds :
    ~(Writing(p) /\ Copying /\ slot[p] = channel /\ target[p] = before.index)

\* Lost updates: a gap the consumer has not returned is still announced - its bit
\* is in the dirty word or in the consumer's pending word, the consumer is about
\* to look at it, or its producer is about to set the bit.
NoLostGap ==
  \A c \in Channels : delivered[c] # published[c] =>
    \/ BitOf(c) \in dirty[WordOf(c)] \cup pending[WordOf(c)]
    \/ ppc[c[1]] = "mark" /\ slot[c[1]] = c
    \/ /\ channel = c
       /\ cpc \in {"load", "claim", "recheck", "unclaim", "copy", "copy2", "finish"}

\* apps/mdl_ingestd.cpp: "Once producers and the normal consumer are stopped,
\* drain any final dirty state here": when the final drain ends, the application
\* has seen every channel's latest gap.
FinalDrainComplete == phase = "done" => delivered = published

Notice == INSTANCE GapNotice WITH closed <- (phase = "done")

\* The mailboxes implement the abstract notice, with its liveness: gaps of a
\* channel are returned in order, none twice, and a channel's latest gap is
\* returned at last, from any word and any bit, for as long as the application
\* polls.  What its last poll leaves behind is the subject of FinalDrainComplete.
ImplementsNotice == Notice!Spec
=============================================================================
