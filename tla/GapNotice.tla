----------------------------- MODULE GapNotice -----------------------------
(***************************************************************************)
(* What the gap mailboxes promise: the consumer learns of each channel's   *)
(* gaps in order, may miss intermediate ones, and as long as it has not    *)
(* closed it is told the latest in the end.  A gap is its epoch; every     *)
(* ChannelGap carries the channel's cumulative counts, so a later one      *)
(* supersedes the earlier ones.                                            *)
(***************************************************************************)
EXTENDS Naturals

CONSTANTS Channels, MaxEpoch

VARIABLES
  published,  \* epoch of the latest gap of each channel, 0 for none
  delivered,  \* epoch of the latest gap handed to the consumer
  closed      \* the consumer polls no more

vars == <<published, delivered, closed>>

Init ==
  /\ published = [c \in Channels |-> 0]
  /\ delivered = [c \in Channels |-> 0]
  /\ closed = FALSE

Publish(c) ==
  /\ published[c] < MaxEpoch
  /\ published' = [published EXCEPT ![c] = @ + 1]
  /\ UNCHANGED <<delivered, closed>>

Deliver(c) ==
  /\ ~closed
  /\ \E epoch \in (delivered[c] + 1)..published[c] :
       delivered' = [delivered EXCEPT ![c] = epoch]
  /\ UNCHANGED <<published, closed>>

Close ==
  /\ ~closed /\ closed' = TRUE
  /\ UNCHANGED <<published, delivered>>

Next == Close \/ \E c \in Channels : Publish(c) \/ Deliver(c)

Spec == Init /\ [][Next]_vars /\ \A c \in Channels : WF_vars(Deliver(c))
=============================================================================
