--------------------------- MODULE MCApplication ---------------------------
(* Application on a small instance. *)
EXTENDS Application

Tick(market, channel, seq, ordinal, verdict) ==
  [stream |-> "tick", market |-> market, channel |-> channel, seq |-> seq,
   ordinal |-> ordinal, verdict |-> verdict]

Snapshot(ordinal) ==
  [stream |-> "snapshot", market |-> 6, channel |-> 1, seq |-> 1,
   ordinal |-> ordinal, verdict |-> "ok"]

\* Channel 2 of both markets in one lane, channel 1 in the other; two instruments
\* on one channel, also at one native position; a tick that does not decode.  Catalog
\* misses are in SequenceRecovery.
MCMessages ==
  {Tick(4, 2, 1, 0, "ok"), Tick(4, 2, 2, 1, "ok"), Tick(4, 2, 2, 0, "ok"),
   Tick(4, 2, 3, 0, "error"), Tick(6, 2, 1, 0, "ok"), Tick(6, 1, 1, 0, "ok"), Snapshot(1)}

\* All home cells are the last one: the second channel wraps around.
MCHashChannel == [key \in Keys |-> TableSize(MaxChannels) - 1]
=============================================================================
