------------------------- MODULE ApplicationProofs -------------------------
(***************************************************************************)
(* The running process, for any number of SDK threads, lanes, owners,      *)
(* channels, messages and calls: the SDK's callbacks are quiet before the  *)
(* engine stops, the rotating polls starve no lane, a channel has one      *)
(* state, its ticks reach an owner in native order, and the orderly        *)
(* shutdown leaves nothing behind and accounts for every message.          *)
(***************************************************************************)
EXTENDS Application, FiniteSetTheorems, SequenceTheorems, NaturalsInduction,
        WellFoundedInduction, TLAPS

\* The callbacks that have counted themselves and not yet left.
Inside == {k \in Callers : caller[k] \in {"test", "admit", "leave"}}

CallersInv == caller \in [Callers -> {"idle", "count", "test", "admit", "leave"}]

\* active_callbacks_ is the number of those callbacks.
CountInv == active = Cardinality(Inside)

\* Where the session is: no manager before CreateSubscriber, the gate closed from
\* the beginning of the shutdown on, nothing to shut down when Connect was refused.
PhaseInv ==
  /\ main \in {"startup", "connect"} => sdk = "none"
  /\ outcome # "none" => accepting = FALSE
  /\ main \in {"shut down", "await callbacks", "join lanes", "join drains"} => outcome # "none"
  /\ main \in {"connect failed", "join drains early", "join lanes early"} /\ outcome = "none"
       => sdk = "none"
  /\ sdk = "none" => \A k \in Callers : caller[k] = "idle"

QuietInv == CallersInv /\ CountInv /\ PhaseInv /\ SessionQuiet

\* The callbacks inside are finitely many.
LEMMA InsideFinite == IsFiniteSet(Inside)
<1>1. Inside \in SUBSET Callers
  BY DEF Inside
<1>2. QED
  BY <1>1, ApplicationAssumption, FS_Subset

\* A callback that enters is counted once, one that leaves is discounted once.
LEMMA InsideCount ==
  ASSUME CallersInv, NEW k \in Callers, NEW from, NEW to,
         caller[k] = from, caller' = [caller EXCEPT ![k] = to]
  PROVE  /\ from = "count" /\ to = "test"
              => Cardinality(Inside') = Cardinality(Inside) + 1
         /\ from = "leave" /\ to = "idle"
              => Cardinality(Inside') = Cardinality(Inside) - 1
         /\ from \in {"test", "admit"} /\ to \in {"admit", "leave"} => Inside' = Inside
         /\ from = "idle" /\ to = "count" => Inside' = Inside
<1>1. from = "count" /\ to = "test" => Inside' = Inside \cup {k} /\ k \notin Inside
  BY DEF Inside, CallersInv
<1>2. from = "leave" /\ to = "idle" => Inside' = Inside \ {k} /\ k \in Inside
  BY DEF Inside, CallersInv
<1>3. /\ from \in {"test", "admit"} /\ to \in {"admit", "leave"} => Inside' = Inside
      /\ from = "idle" /\ to = "count" => Inside' = Inside
  BY DEF Inside, CallersInv
<1>4. IsFiniteSet(Inside)
  BY InsideFinite
<1>5. /\ Cardinality(Inside \cup {k}) =
           IF k \in Inside THEN Cardinality(Inside) ELSE Cardinality(Inside) + 1
      /\ Cardinality(Inside \ {k}) =
           IF k \in Inside THEN Cardinality(Inside) - 1 ELSE Cardinality(Inside)
  BY <1>4, FS_AddElement, FS_RemoveElement
<1>6. QED
  BY <1>1, <1>2, <1>3, <1>5

\* No callback has begun when the process starts.
LEMMA InitQuiet == ASSUME Init PROVE QuietInv
<1>1. CallersInv /\ PhaseInv /\ SessionQuiet
  BY DEF Init, CallersInv, PhaseInv, SessionQuiet
<1>2. Inside = {}
  BY DEF Init, Inside
<1>3. CountInv
  BY <1>2, FS_EmptySet DEF Init, CountInv
<1>4. QED
  BY <1>1, <1>3 DEF QuietInv

\* Lanes and drain threads leave the session and main alone.
LEMMA QuietUnchanged ==
  ASSUME QuietInv, UNCHANGED <<process, session>>
  PROVE  QuietInv'
<1>1. UNCHANGED <<main, outcome, sdk, accepting, active, caller>>
  BY DEF process, session
<1>2. CallersInv' /\ PhaseInv' /\ SessionQuiet'
  BY <1>1 DEF QuietInv, CallersInv, PhaseInv, SessionQuiet
<1>3. Inside' = Inside
  BY <1>1 DEF Inside
<1>4. QED
  BY <1>1, <1>2, <1>3 DEF QuietInv, CountInv

\* A callback begins only while the manager is open, which it is in no state
\* where Connect was refused.
LEMMA DeliverQuiet ==
  ASSUME QuietInv, NEW k \in Callers, Deliver(k)
  PROVE  QuietInv'
<1>1. /\ sdk = "open" /\ caller[k] = "idle"
      /\ caller' = [caller EXCEPT ![k] = "count"]
      /\ UNCHANGED <<main, outcome, sdk, accepting, active>>
  BY DEF Deliver, process
<1>2. CallersInv' /\ PhaseInv' /\ SessionQuiet'
  BY <1>1 DEF QuietInv, CallersInv, PhaseInv, SessionQuiet
<1>3. Inside' = Inside
  BY <1>1, InsideCount DEF QuietInv
<1>4. QED
  BY <1>1, <1>2, <1>3 DEF QuietInv, CountInv

\* A callback passes the gate only while it is open, and then no quiet state has
\* been reached; the count goes with its entering and leaving.
LEMMA OnMessageQuiet ==
  ASSUME QuietInv, NEW k \in Callers, OnMessage(k)
  PROVE  QuietInv'
<1>1. UNCHANGED <<main, outcome, sdk, accepting>>
  BY DEF OnMessage, CountCallback, TestAccepting, Reject, RejectFatal, Throw, AdmitMdlMessage, Leave,
         Callback, process
<1>2. CASE CountCallback(k)
  <2>1. /\ caller[k] = "count" /\ caller' = [caller EXCEPT ![k] = "test"]
        /\ active' = active + 1
    BY <1>2 DEF CountCallback, Callback
  <2>2. CallersInv' /\ PhaseInv' /\ SessionQuiet'
    BY <1>1, <2>1 DEF QuietInv, CallersInv, PhaseInv, SessionQuiet
  <2>3. Cardinality(Inside') = Cardinality(Inside) + 1
    BY <2>1, InsideCount DEF QuietInv
  <2>4. QED
    BY <2>1, <2>2, <2>3 DEF QuietInv, CountInv
<1>3. CASE TestAccepting(k)
  <2>1. /\ caller[k] = "test" /\ active' = active
        /\ caller' = [caller EXCEPT ![k] = IF accepting THEN "admit" ELSE "leave"]
    BY <1>3 DEF TestAccepting, Callback
  <2>2. CallersInv' /\ PhaseInv'
    BY <1>1, <2>1 DEF QuietInv, CallersInv, PhaseInv
  <2>3. SessionQuiet'
    BY <1>1, <2>1 DEF QuietInv, CallersInv, PhaseInv, SessionQuiet
  <2>4. Inside' = Inside
    BY <2>1, InsideCount DEF QuietInv
  <2>5. QED
    BY <2>1, <2>2, <2>3, <2>4 DEF QuietInv, CountInv
<1>4. CASE Reject(k) \/ RejectFatal(k) \/ Throw(k) \/ \E m \in Messages : AdmitMdlMessage(k, m)
  <2>1. /\ caller[k] = "admit" /\ active' = active
        /\ caller' = [caller EXCEPT ![k] = "leave"]
    BY <1>4 DEF Reject, RejectFatal, Throw, AdmitMdlMessage, Callback
  <2>2. CallersInv' /\ PhaseInv' /\ SessionQuiet'
    BY <1>1, <2>1 DEF QuietInv, CallersInv, PhaseInv, SessionQuiet
  <2>3. Inside' = Inside
    BY <2>1, InsideCount DEF QuietInv
  <2>4. QED
    BY <2>1, <2>2, <2>3 DEF QuietInv, CountInv
<1>5. CASE Leave(k)
  <2>1. /\ caller[k] = "leave" /\ caller' = [caller EXCEPT ![k] = "idle"]
        /\ active' = active - 1
    BY <1>5 DEF Leave, Callback
  <2>2. CallersInv' /\ PhaseInv' /\ SessionQuiet'
    BY <1>1, <2>1 DEF QuietInv, CallersInv, PhaseInv, SessionQuiet
  <2>3. Cardinality(Inside') = Cardinality(Inside) - 1
    BY <2>1, InsideCount DEF QuietInv
  <2>4. QED
    BY <2>1, <2>2, <2>3 DEF QuietInv, CountInv
<1>6. QED
  BY <1>2, <1>3, <1>4, <1>5 DEF OnMessage

\* The wait for the callbacks ends when none is inside.
LEMMA AwaitCallbacksQuiet ==
  ASSUME QuietInv, AwaitCallbacks
  PROVE  QuietInv'
<1>1. /\ main = "await callbacks" /\ active = 0
      /\ main' \in {"connect failed", "join lanes"}
      /\ UNCHANGED <<outcome, sdk, accepting, active, caller>>
  BY DEF AwaitCallbacks, session
<1>2. Inside = {}
  BY <1>1, InsideFinite, FS_EmptySet DEF QuietInv, CountInv
<1>3. \A k \in Callers : caller[k] # "admit"
  BY <1>2 DEF Inside
<1>4. CallersInv' /\ PhaseInv' /\ SessionQuiet'
  BY <1>1, <1>3 DEF QuietInv, CallersInv, PhaseInv, SessionQuiet
<1>5. Inside' = Inside
  BY <1>1 DEF Inside
<1>6. QED
  BY <1>1, <1>4, <1>5 DEF QuietInv, CountInv

\* The other steps of main and of the session do not touch the callbacks.
LEMMA MainQuiet ==
  ASSUME QuietInv, MainStep \/ HandleSignal
  PROVE  QuietInv'
<1>1. CASE AwaitCallbacks
  BY <1>1, AwaitCallbacksQuiet
<1>2. ASSUME ~AwaitCallbacks
      PROVE  QuietInv'
  <2>1. UNCHANGED <<active, caller>>
    BY <1>2 DEF MainStep, HandleSignal, GiveUp, Startup, ConnectRefused, CreateSubscriber,
           ConnectSucceeds, ConnectFails, StopOnFailure, LeaveLoop, ShutdownManager, Terminate,
           StopDrainEarly, StopEngineLate, JoinLanesLate, AwaitConsumed, JoinDrains,
           session, Handler
  <2>2. CallersInv' /\ Inside' = Inside
    BY <2>1 DEF QuietInv, CallersInv, Inside
  <2>3. CASE GiveUp \/ Terminate \/ JoinLanesLate \/ JoinDrains
    <3>1. main' = "exited" /\ UNCHANGED <<outcome, sdk, accepting>>
      BY <2>3 DEF GiveUp, Terminate, JoinLanesLate, JoinDrains, Exit, session
    <3>2. PhaseInv' /\ SessionQuiet'
      BY <2>1, <3>1 DEF QuietInv, PhaseInv, SessionQuiet
    <3>3. QED
      BY <2>1, <2>2, <3>2 DEF QuietInv, CountInv
  <2>4. CASE Startup \/ ConnectRefused \/ CreateSubscriber \/ ConnectSucceeds
    <3>1. PhaseInv'
      BY <2>1, <2>4 DEF Startup, ConnectRefused, CreateSubscriber, ConnectSucceeds, Main,
             session, Handler, QuietInv, PhaseInv
    <3>2. SessionQuiet'
      BY <2>1, <2>4 DEF Startup, ConnectRefused, CreateSubscriber, ConnectSucceeds, Main,
             session, QuietInv, PhaseInv, SessionQuiet
    <3>3. QED
      BY <2>1, <2>2, <3>1, <3>2 DEF QuietInv, CountInv
  <2>5. CASE ConnectFails \/ StopOnFailure \/ HandleSignal \/ ShutdownManager
    <3>1. PhaseInv'
      BY <2>1, <2>5 DEF ConnectFails, StopOnFailure, HandleSignal, LeaveLoop, ShutdownManager,
             Main, Handler, QuietInv, PhaseInv
    <3>2. SessionQuiet'
      BY <2>5 DEF ConnectFails, StopOnFailure, HandleSignal, LeaveLoop, ShutdownManager,
             Main, SessionQuiet
    <3>3. QED
      BY <2>1, <2>2, <3>1, <3>2 DEF QuietInv, CountInv
  <2>6. CASE StopDrainEarly \/ StopEngineLate \/ AwaitConsumed
    <3>1. PhaseInv' /\ SessionQuiet'
      BY <2>1, <2>6 DEF StopDrainEarly, StopEngineLate, AwaitConsumed, Main, session,
             QuietInv, PhaseInv, SessionQuiet
    <3>2. QED
      BY <2>1, <2>2, <3>1 DEF QuietInv, CountInv
  <2>7. QED
    BY <1>2, <2>3, <2>4, <2>5, <2>6 DEF MainStep
<1>3. QED
  BY <1>1, <1>2

\* Every step of the process keeps the invariant.
LEMMA StepQuiet ==
  ASSUME QuietInv, [Next]_vars
  PROVE  QuietInv'
<1>1. CASE Ended \/ UNCHANGED vars
  BY <1>1, QuietUnchanged DEF Ended, vars
<1>2. CASE Alive /\ (MainStep \/ HandleSignal)
  BY <1>2, MainQuiet
<1>3. ASSUME NEW k \in Callers, Alive /\ (Deliver(k) \/ OnMessage(k))
      PROVE  QuietInv'
  BY <1>3, DeliverQuiet, OnMessageQuiet
<1>4. ASSUME NEW l \in Lanes, Alive /\ Worker(l)
      PROVE  QuietInv'
  <2>1. UNCHANGED <<process, session>>
    BY <1>4 DEF Worker, TakeTick, TakeSnapshot, EmitTick, LaneExit, Consume, Outside
  <2>2. QED
    BY <2>1, QuietUnchanged
<1>5. ASSUME NEW o \in OwnerIds, Alive /\ Drain(o)
      PROVE  QuietInv'
  <2>1. UNCHANGED <<process, session>>
    BY <1>5 DEF Drain, Poll, TestDrainRunning
  <2>2. QED
    BY <2>1, QuietUnchanged
<1>6. QED
  BY <1>1, <1>2, <1>3, <1>4, <1>5 DEF Next

\* Once QuiesceSdkCallbacks has returned, no callback is on its way into the engine
\* (sdk_runtime.cpp:146-167), however many SDK threads there are and whatever they
\* had begun.
THEOREM SessionQuietHolds == Spec => []SessionQuiet
<1>1. Init => QuietInv
  BY InitQuiet
<1>2. QuietInv /\ [Next]_vars => QuietInv'
  BY StepQuiet
<1>3. QuietInv => SessionQuiet
  BY DEF QuietInv
<1>4. QED
  BY <1>1, <1>2, <1>3, PTL DEF Spec

-----------------------------------------------------------------------------
(***************************************************************************)
(* The round robin of the polls.                                           *)
(***************************************************************************)

\* A set of numbers that is not empty has a least one.
LEMMA Least ==
  ASSUME NEW S \in SUBSET Nat, S # {}
  PROVE  Min(S) \in S /\ \A y \in S : Min(S) <= y
<1> DEFINE Less == {p \in Nat \X Nat : p[1] < p[2]}
<1>1. IsWellFoundedOn(Less, Nat)
  BY NatLessThanWellFounded DEF OpToRel
<1>2. PICK m \in S : \A y \in S : ~(<<y, m>> \in Less)
  BY <1>1, WFMin
<1>3. ASSUME NEW y \in S PROVE m <= y
  <2>1. m \in Nat /\ y \in Nat /\ ~(<<y, m>> \in Less)
    BY <1>2, <1>3
  <2>2. QED
    BY <2>1
<1>4. QED
  BY <1>3 DEF Min

\* The producers from a cursor on before producer q, of n.
Turns(n, q, from) == IF q >= from THEN q - from ELSE q + n - from

\* The polls that may still pass over a queue.
Ahead(e) == Turns(Producers(e[1]), e[2], cursor[Poller(e)])

BypassInv ==
  /\ bypassed \in [Edges -> Nat]
  /\ cursor = [p \in {Poller(e) : e \in Edges} |-> cursor[p]]
  /\ \A e \in Edges : /\ cursor[Poller(e)] \in 0..(Producers(e[1]) - 1)
                      /\ bypassed[e] + Ahead(e) < Producers(e[1])

\* What an edge is.
LEMMA EdgeParts ==
  ASSUME NEW e \in Edges
  PROVE  /\ e = <<e[1], e[2], e[3]>> /\ e[1] \in Kinds /\ e[2] \in Nat /\ e[3] \in OwnerIds
         /\ e[2] < Producers(e[1]) /\ Producers(e[1]) \in Nat
         /\ e[1] \in {"late", "fault"} => e[3] = 0
BY ApplicationAssumption DEF Edges, Producers

\* No queue has been passed over when the process starts.
LEMMA InitBypass == ASSUME Init PROVE BypassInv
<1>1. ASSUME NEW e \in Edges
      PROVE  cursor[Poller(e)] = 0 /\ bypassed[e] = 0
  BY DEF Init
<1>2. ASSUME NEW e \in Edges
      PROVE  /\ cursor[Poller(e)] \in 0..(Producers(e[1]) - 1)
             /\ bypassed[e] + Ahead(e) < Producers(e[1])
  BY <1>1, EdgeParts DEF Ahead, Turns
<1>3. QED
  BY <1>2 DEF Init, BypassInv

\* The first producer with a record in the order of the round robin: nobody ready
\* lies between the cursor and it.
LEMMA FirstPolledIsNext ==
  ASSUME NEW kind, NEW o, NEW n \in Nat, NEW ready \in SUBSET (0..(n - 1)), ready # {},
         NEW from \in 0..(n - 1), from = cursor[<<kind, o>>],
         NEW p, p = FirstPolled(kind, o, ready)
  PROVE  /\ p \in ready
         /\ \A q \in ready : \/ p <= q /\ q < from
                             \/ from <= p /\ q < from
                             \/ from <= p /\ p <= q
<1> DEFINE later == {x \in ready : x >= from}
<1>1. p = IF later # {} THEN Min(later) ELSE Min(ready)
  BY DEF FirstPolled
<1>2. ready \in SUBSET Nat /\ later \in SUBSET Nat /\ from \in Nat
  OBVIOUS
<1>3. CASE later # {}
  <2>1. p \in later /\ \A y \in later : p <= y
    BY <1>1, <1>2, <1>3, Least
  <2>2. QED
    BY <1>2, <2>1
<1>4. CASE later = {}
  <2>1. p \in ready /\ \A y \in ready : p <= y
    BY <1>1, <1>2, <1>4, Least
  <2>2. \A y \in ready : y \in Nat /\ y < from
    BY <1>2, <1>4
  <2>3. QED
    BY <2>1, <2>2
<1>5. QED
  BY <1>3, <1>4

\* The producer that is polled has a record.
LEMMA PolledReady ==
  ASSUME NEW kind, NEW o, NEW n \in Nat, NEW ready \in SUBSET (0..(n - 1)), ready # {}
  PROVE  FirstPolled(kind, o, ready) \in ready
<1>1. PICK later \in SUBSET ready :
        FirstPolled(kind, o, ready) = IF later # {} THEN Min(later) ELSE Min(ready)
  BY DEF FirstPolled
<1>2. later \in SUBSET Nat /\ ready \in SUBSET Nat
  OBVIOUS
<1>3. later # {} => Min(later) \in later
  BY <1>2, Least
<1>4. Min(ready) \in ready
  BY <1>2, Least
<1>5. QED
  BY <1>1, <1>3, <1>4

\* The cursor moves past the producer it chose, and so nearer to all that are ready.
LEMMA TurnsShrink ==
  ASSUME NEW n \in Nat \ {0}, NEW from \in 0..(n - 1), NEW p \in 0..(n - 1), NEW q \in 0..(n - 1)
  PROVE  /\ (p + 1) % n \in 0..(n - 1)
         /\ Turns(n, q, from) \in Nat /\ Turns(n, q, (p + 1) % n) \in 0..(n - 1)
         /\ /\ q # p
            /\ \/ p <= q /\ q < from
               \/ from <= p /\ q < from
               \/ from <= p /\ p <= q
            => Turns(n, q, (p + 1) % n) < Turns(n, q, from)
<1>1. (p + 1) % n = IF p + 1 = n THEN 0 ELSE p + 1
  OBVIOUS
<1>2. QED
  BY <1>1 DEF Turns

\* One poll: every queue with a record comes nearer, by the poll counted against it.
LEMMA PollBypass ==
  ASSUME BypassInv, NEW o \in OwnerIds, NEW kind \in Kinds, kind = stage[o], Ready(o) # {},
         NEW p, p = FirstPolled(kind, o, Ready(o)), TryPoll(kind, p, o)
  PROVE  BypassInv'
<1>1. /\ cursor' = [cursor EXCEPT ![<<kind, o>>] = (p + 1) % Producers(kind)]
      /\ bypassed' = [e \in Edges |->
            IF Poller(e) # <<kind, o>> THEN bypassed[e]
            ELSE IF e = <<kind, p, o>> \/ queue[e] = <<>> THEN 0 ELSE bypassed[e] + 1]
  BY DEF TryPoll
<1>2. PICK n \in Nat \ {0} : n = Producers(kind)
  BY ApplicationAssumption DEF Producers
<1>3. cursor' = [q \in {Poller(e) : e \in Edges} |-> cursor'[q]]
  BY <1>1 DEF BypassInv
<1>4. bypassed' \in [Edges -> Nat]
  BY <1>1 DEF BypassInv
<1>5. ASSUME NEW e \in Edges, Poller(e) = <<kind, o>>
      PROVE  /\ cursor'[Poller(e)] \in 0..(Producers(e[1]) - 1)
             /\ bypassed'[e] + Ahead(e)' < Producers(e[1])
  <2>1. PICK q \in 0..(n - 1) : e[2] = q /\ e[1] = kind /\ e = <<kind, q, o>>
    <3>1. e[1] = kind /\ e[3] = o
      BY <1>5 DEF Poller
    <3>2. e = <<e[1], e[2], e[3]>> /\ e[2] \in 0..(n - 1)
      BY <1>2, <3>1, EdgeParts
    <3>3. QED
      BY <3>1, <3>2
  <2>2. PICK from \in 0..(n - 1) : from = cursor[<<kind, o>>]
    BY <1>2, <1>5, <2>1 DEF BypassInv
  <2>3. /\ bypassed[e] \in Nat /\ Ahead(e) = Turns(n, q, from) /\ bypassed[e] + Ahead(e) < n
    BY <1>2, <1>5, <2>1, <2>2 DEF BypassInv, Ahead
  <2>4. cursor'[Poller(e)] = (p + 1) % n /\ Ahead(e)' = Turns(n, q, (p + 1) % n)
    <3>1. cursor'[Poller(e)] = (p + 1) % n
      BY <1>1, <1>2, <1>5 DEF BypassInv
    <3>2. QED
      BY <1>2, <2>1, <3>1 DEF Ahead
  <2>5. Ready(o) \in SUBSET (0..(n - 1))
    BY <1>2 DEF Ready
  <2>6. /\ p \in Ready(o)
        /\ \A r \in Ready(o) : \/ p <= r /\ r < from
                               \/ from <= p /\ r < from
                               \/ from <= p /\ p <= r
    BY <2>2, <2>5, FirstPolledIsNext
  <2>7. p \in 0..(n - 1)
    BY <2>5, <2>6
  <2>8. /\ (p + 1) % n \in 0..(n - 1)
        /\ Turns(n, q, from) \in Nat /\ Turns(n, q, (p + 1) % n) \in 0..(n - 1)
        /\ /\ q # p
           /\ \/ p <= q /\ q < from
              \/ from <= p /\ q < from
              \/ from <= p /\ p <= q
           => Turns(n, q, (p + 1) % n) < Turns(n, q, from)
    BY <2>7, TurnsShrink
  <2>9. CASE e = <<kind, p, o>> \/ queue[e] = <<>>
    <3>1. bypassed'[e] = 0
      BY <1>1, <1>5, <2>9
    <3>2. QED
      BY <1>2, <2>1, <2>4, <2>8, <3>1
  <2>10. CASE e # <<kind, p, o>> /\ queue[e] # <<>>
    <3>1. bypassed'[e] = bypassed[e] + 1
      BY <1>1, <1>5, <2>10
    <3>2. q \in Ready(o) /\ q # p
      BY <1>2, <2>1, <2>10 DEF Ready
    <3>3. Turns(n, q, (p + 1) % n) < Turns(n, q, from)
      BY <2>6, <2>8, <3>2
    <3>4. QED
      BY <1>2, <2>1, <2>3, <2>4, <2>8, <3>1, <3>3
  <2>11. QED
    BY <2>9, <2>10
<1>6. ASSUME NEW e \in Edges, Poller(e) # <<kind, o>>
      PROVE  /\ cursor'[Poller(e)] \in 0..(Producers(e[1]) - 1)
             /\ bypassed'[e] + Ahead(e)' < Producers(e[1])
  <2>1. cursor'[Poller(e)] = cursor[Poller(e)] /\ bypassed'[e] = bypassed[e]
    BY <1>1, <1>6 DEF BypassInv
  <2>2. QED
    BY <2>1 DEF BypassInv, Ahead
<1>7. QED
  BY <1>3, <1>4, <1>5, <1>6 DEF BypassInv

\* Only a poll moves a cursor or counts.
LEMMA StepBypass ==
  ASSUME BypassInv, [Next]_vars
  PROVE  BypassInv'
<1>1. CASE UNCHANGED <<cursor, bypassed>>
  BY <1>1 DEF BypassInv, Ahead
<1>2. CASE Ended \/ UNCHANGED vars
  BY <1>1, <1>2 DEF Ended, vars, drain
<1>3. CASE MainStep \/ HandleSignal
  BY <1>1, <1>3 DEF MainStep, HandleSignal, GiveUp, Startup, ConnectRefused, CreateSubscriber,
         ConnectSucceeds, ConnectFails, StopOnFailure, LeaveLoop, ShutdownManager, Terminate,
         AwaitCallbacks, StopDrainEarly, StopEngineLate, JoinLanesLate, AwaitConsumed, JoinDrains,
         Rest
<1>4. CASE \E k \in Callers : Deliver(k) \/ OnMessage(k)
  BY <1>1, <1>4 DEF Deliver, OnMessage, CountCallback, TestAccepting, Reject, RejectFatal, Throw,
         AdmitMdlMessage, Leave, Callback, drain
<1>5. CASE \E l \in Lanes : Worker(l)
  BY <1>1, <1>5 DEF Worker, TakeTick, TakeSnapshot, EmitTick, LaneExit, Consume, Outside, drain
<1>6. ASSUME NEW o \in OwnerIds, Drain(o) PROVE BypassInv'
  BY <1>1, <1>6, PollBypass DEF Drain, Poll, TestDrainRunning
<1>7. QED
  BY <1>2, <1>3, <1>4, <1>5, <1>6 DEF Next

\* TryPollTick and its like: with the rotating cursor a queue that has a record is
\* passed over fewer times than its kind has producers, for every number of lanes
\* and owners and however busy the others are.
THEOREM BoundedBypassHolds == Spec => []BoundedBypass
<1>1. Init => BypassInv
  BY InitBypass
<1>2. BypassInv /\ [Next]_vars => BypassInv'
  BY StepBypass
<1>3. BypassInv => BoundedBypass
  <2> SUFFICES ASSUME BypassInv, NEW e \in Edges PROVE bypassed[e] < Producers(e[1])
    BY DEF BoundedBypass
  <2>1. /\ bypassed[e] \in Nat /\ bypassed[e] + Ahead(e) < Producers(e[1])
        /\ cursor[Poller(e)] \in 0..(Producers(e[1]) - 1)
    BY DEF BypassInv
  <2>2. e[2] \in Nat /\ Producers(e[1]) \in Nat
    BY EdgeParts
  <2>3. Ahead(e) \in Nat
    BY <2>1, <2>2 DEF Ahead, Turns
  <2>4. QED
    BY <2>1, <2>2, <2>3
<1>4. QED
  BY <1>1, <1>2, <1>3, PTL DEF Spec

-----------------------------------------------------------------------------
(***************************************************************************)
(* The table of channels.                                                  *)
(***************************************************************************)
Cells == 0..(TableSize(MaxChannels) - 1)
ChannelState == [key : Keys, frontier : Nat, frozen : BOOLEAN]

\* The cells a probe for a key passes before it reaches a cell.
Passed(key, cell) == Turns(TableSize(MaxChannels), cell, HashChannel[key])

\* Every state is in the table, one per key, and between the home cell of its key
\* and its own there is no free cell: a probe does not end before it.
TableOK(states, t) ==
  /\ \A i \in 1..Len(states) : \E cell \in Cells : t[cell] = i
  /\ \A cell \in Cells : t[cell] \in 0..Len(states)
  /\ \A cell, other \in Cells :
       t[cell] # 0 /\ Passed(states[t[cell]].key, other) < Passed(states[t[cell]].key, cell)
         => t[other] # 0
  /\ \A i, j \in 1..Len(states) : states[i].key = states[j].key => i = j

\* Two producers are not as far from a cursor, and the distance is what the masked
\* difference of the code gives.
LEMMA TurnsDiffer ==
  ASSUME NEW n \in Nat \ {0}, NEW from \in 0..(n - 1), NEW p \in 0..(n - 1), NEW q \in 0..(n - 1)
  PROVE  /\ Turns(n, q, from) \in Nat
         /\ Turns(n, p, from) = Turns(n, q, from) => p = q
         /\ (n + q - from) % n = Turns(n, q, from)
<1>1. CASE q >= from
  <2>1. PICK d \in 0..(n - 1) : d = q - from
    BY <1>1
  <2>2. (n + d) % n = d /\ n + q - from = n + d
    BY <2>1
  <2>3. QED
    BY <1>1, <2>1, <2>2 DEF Turns
<1>2. CASE q < from
  <2>1. PICK d \in 0..(n - 1) : d = n + q - from
    BY <1>2
  <2>2. d % n = d
    BY <2>1
  <2>3. QED
    BY <1>2, <2>1, <2>2 DEF Turns
<1>3. QED
  BY <1>1, <1>2

\* The distance of OpenAddressing is the number of cells passed.
LEMMA DistanceIs ==
  ASSUME NEW t \in [Cells -> Nat], NEW key \in Keys, NEW cell \in Cells
  PROVE  ProbeDistance(t, HashChannel[key], cell) = Passed(key, cell)
<1>1. PICK n \in Nat \ {0} : n = TableSize(MaxChannels)
  BY HashAssumption
<1>2. HashChannel[key] \in 0..(n - 1) /\ cell \in 0..(n - 1) /\ DOMAIN t = 0..(n - 1)
  BY <1>1, HashAssumption DEF Cells
<1>3. Cardinality(0..(n - 1)) = n
  BY <1>1, FS_Interval
<1>4. ProbeDistance(t, HashChannel[key], cell) = (n + cell - HashChannel[key]) % n
  BY <1>2, <1>3 DEF ProbeDistance
<1>5. QED
  BY <1>1, <1>2, <1>4, TurnsDiffer DEF Passed

\* A cell is a number of cells from the home cell of a key, each cell another.
LEMMA PassedIs ==
  ASSUME NEW key \in Keys, NEW cell \in Cells
  PROVE  /\ Passed(key, cell) \in Nat
         /\ \A other \in Cells : Passed(key, cell) = Passed(key, other) => cell = other
<1>1. PICK n \in Nat \ {0} : n = TableSize(MaxChannels)
  BY HashAssumption
<1>2. HashChannel[key] \in 0..(n - 1) /\ Cells = 0..(n - 1)
  BY <1>1, HashAssumption DEF Cells
<1>3. \A other \in Cells : Passed(key, other) = Turns(n, other, HashChannel[key])
  BY <1>1 DEF Passed
<1>4. \A other \in Cells : /\ Turns(n, cell, HashChannel[key]) \in Nat
                           /\ Turns(n, cell, HashChannel[key]) = Turns(n, other, HashChannel[key])
                                => cell = other
  BY <1>2, TurnsDiffer
<1>5. QED
  BY <1>3, <1>4

\* A probe that ends in a cell has passed no free cell and no entry looked for.
LEMMA ProbeEnds ==
  ASSUME NEW t \in [Cells -> Nat], NEW key \in Keys, NEW hits,
         NEW cell \in Cells, cell = Probe(t, HashChannel[key], hits)
  PROVE  /\ t[cell] \in {0} \cup hits
         /\ \A other \in Cells : t[other] \in {0} \cup hits /\ other # cell =>
              Passed(key, cell) < Passed(key, other)
<1> DEFINE stops == {c \in Cells : t[c] \in {0} \cup hits}
           distances == {Passed(key, c) : c \in stops}
           Nearest(c) == \A other \in stops : ProbeDistance(t, HashChannel[key], c)
                                                <= ProbeDistance(t, HashChannel[key], other)
<1>1. Stops(t, HashChannel[key], hits) = stops
  BY DEF Stops
<1>2. stops # {}
  <2> SUFFICES ASSUME stops = {} PROVE FALSE
    OBVIOUS
  <2>1. cell = Cardinality(Cells)
    BY <1>1 DEF Probe
  <2>2. PICK n \in Nat \ {0} : n = TableSize(MaxChannels)
    BY HashAssumption
  <2>3. Cardinality(0..(n - 1)) = n
    BY <2>2, FS_Interval
  <2>4. QED
    BY <2>1, <2>2, <2>3 DEF Cells
<1>3. cell = CHOOSE c \in stops : Nearest(c)
  BY <1>1, <1>2 DEF Probe
<1>4. \E c \in stops : Nearest(c)
  <2>1. distances \in SUBSET Nat /\ distances # {}
    BY <1>2, PassedIs
  <2>2. Min(distances) \in distances /\ \A d \in distances : Min(distances) <= d
    BY <2>1, Least
  <2>3. PICK c \in stops : Passed(key, c) = Min(distances)
    BY <2>2
  <2>4. ASSUME NEW other \in stops PROVE Passed(key, c) <= Passed(key, other)
    BY <2>2, <2>3
  <2>5. QED
    BY <2>4, DistanceIs
<1>5. cell \in stops /\ Nearest(cell)
  BY <1>3, <1>4
<1>6. ASSUME NEW other \in Cells, t[other] \in {0} \cup hits, other # cell
      PROVE  Passed(key, cell) < Passed(key, other)
  <2>1. Passed(key, cell) <= Passed(key, other)
    BY <1>5, <1>6, DistanceIs
  <2>2. QED
    BY <1>6, <2>1, PassedIs
<1>7. QED
  BY <1>5, <1>6

\* The table holds for states with the same keys.
LEMMA SameKeys ==
  ASSUME NEW states, NEW other, NEW t \in [Cells -> Nat], TableOK(states, t),
         Len(other) = Len(states), Len(states) \in Nat,
         \A i \in 1..Len(states) : other[i].key = states[i].key
  PROVE  TableOK(other, t)
<1>1. \A cell \in Cells : t[cell] # 0 => other[t[cell]].key = states[t[cell]].key
  BY DEF TableOK
<1>2. QED
  BY <1>1 DEF TableOK

\* FindOrCreate finds the channel's state, or there is none and the new one goes
\* where later probes for it end.
LEMMA FindOrCreateFinds ==
  ASSUME NEW states \in Seq(ChannelState), NEW t \in [Cells -> Nat], TableOK(states, t),
         NEW key \in Keys, NEW cell \in Cells,
         cell = Probe(t, HashChannel[key], {i \in DOMAIN states : states[i].key = key}),
         NEW new \in ChannelState, new.key = key
  PROVE  /\ t[cell] # 0 => t[cell] \in 1..Len(states) /\ states[t[cell]].key = key
         /\ t[cell] = 0 =>
              /\ \A i \in 1..Len(states) : states[i].key # key
              /\ TableOK(Append(states, new), [t EXCEPT ![cell] = Len(states) + 1])
<1>0. PICK hits : hits = {i \in DOMAIN states : states[i].key = key}
  OBVIOUS
<1>1. /\ Len(states) \in Nat /\ DOMAIN states = 1..Len(states)
      /\ \A i \in 1..Len(states) : states[i] \in ChannelState
  OBVIOUS
<1>2. /\ t[cell] \in {0} \cup hits
      /\ \A other \in Cells : t[other] \in {0} \cup hits /\ other # cell =>
           Passed(key, cell) < Passed(key, other)
  <2>1. cell = Probe(t, HashChannel[key], hits)
    BY <1>0, Zenon
  <2>2. QED
    BY <2>1, ProbeEnds
<1>3. t[cell] # 0 => t[cell] \in 1..Len(states) /\ states[t[cell]].key = key
  BY <1>0, <1>1, <1>2
<1>4. ASSUME t[cell] = 0, NEW i \in 1..Len(states), states[i].key = key PROVE FALSE
  <2>1. PICK c \in Cells : t[c] = i
    BY DEF TableOK
  <2>2. c # cell /\ i \in hits /\ t[c] # 0
    BY <1>0, <1>1, <1>4, <2>1
  <2>3. Passed(key, cell) < Passed(key, c)
    BY <1>2, <2>1, <2>2
  <2>4. t[cell] # 0
    BY <1>4, <2>1, <2>2, <2>3 DEF TableOK
  <2>5. QED
    BY <1>4, <2>4
<1>5. ASSUME t[cell] = 0
      PROVE  TableOK(Append(states, new), [t EXCEPT ![cell] = Len(states) + 1])
  <2>1. PICK n \in Nat : n = Len(states)
    BY <1>1
  <2>2. PICK more : more = Append(states, new)
    OBVIOUS
  <2>3. PICK u : u = [t EXCEPT ![cell] = n + 1]
    OBVIOUS
  <2>4. /\ Len(more) = n + 1 /\ more[n + 1] = new
        /\ \A i \in 1..n : more[i] = states[i]
    BY <2>1, <2>2
  <2>5. u[cell] = n + 1 /\ \A c \in Cells : c # cell => u[c] = t[c]
    BY <2>3
  <2>6. \A c \in Cells : t[c] \in Nat /\ t[c] <= n
    BY <2>1 DEF TableOK
  <2>7. \A i \in 1..(n + 1) : \E c \in Cells : u[c] = i
    <3> SUFFICES ASSUME NEW i \in 1..(n + 1), i # n + 1 PROVE \E c \in Cells : u[c] = i
      BY <2>5
    <3>1. PICK c \in Cells : t[c] = i
      BY <2>1 DEF TableOK
    <3>2. c # cell
      BY <1>5, <3>1
    <3>3. QED
      BY <2>5, <3>1, <3>2
  <2>8. ASSUME NEW c \in Cells PROVE u[c] \in 0..(n + 1)
    <3>1. CASE c = cell
      BY <2>5, <3>1
    <3>2. CASE c # cell
      <4>1. u[c] = t[c] /\ t[c] \in Nat /\ t[c] <= n
        BY <2>5, <2>6, <3>2
      <4>2. QED
        BY <4>1
    <3>3. QED
      BY <3>1, <3>2
  <2>9. ASSUME NEW c \in Cells, NEW other \in Cells, u[c] # 0,
               Passed(more[u[c]].key, other) < Passed(more[u[c]].key, c)
        PROVE  u[other] # 0
    <3>1. CASE other = cell
      BY <2>5, <3>1
    <3>2. CASE other # cell /\ c # cell
      <4>0. u[c] = t[c] /\ u[other] = t[other] /\ t[c] \in Nat /\ t[c] <= n
        BY <2>5, <2>6, <3>2
      <4>1. u[c] = t[c] /\ u[other] = t[other] /\ t[c] \in 1..n
        BY <2>9, <4>0
      <4>2. more[u[c]] = states[t[c]]
        BY <2>4, <4>1
      <4>3. QED
        BY <2>9, <4>1, <4>2 DEF TableOK
    <3>3. CASE other # cell /\ c = cell
      <4>1. more[u[c]].key = key
        BY <2>4, <2>5, <3>3
      <4>2. Passed(key, other) < Passed(key, cell)
        BY <2>9, <3>3, <4>1
      <4>3. t[other] # 0
        BY <1>2, <3>3, <4>2, PassedIs
      <4>4. QED
        BY <2>5, <3>3, <4>3
    <3>4. QED
      BY <3>1, <3>2, <3>3
  <2>10. ASSUME NEW i \in 1..(n + 1), NEW j \in 1..(n + 1), more[i].key = more[j].key
         PROVE  i = j
    <3>1. \A k \in 1..n : more[k].key # key
      BY <1>4, <1>5, <2>1, <2>4
    <3>2. CASE i \in 1..n /\ j \in 1..n
      BY <2>1, <2>4, <2>10, <3>2 DEF TableOK
    <3>3. CASE i = n + 1 \/ j = n + 1
      BY <2>4, <2>10, <3>1, <3>3
    <3>4. QED
      BY <3>2, <3>3
  <2>11. TableOK(more, u)
    BY <2>4, <2>7, <2>8, <2>9, <2>10 DEF TableOK
  <2>12. QED
    BY <2>1, <2>2, <2>3, <2>11
<1>6. QED
  BY <1>3, <1>4, <1>5

-----------------------------------------------------------------------------
(***************************************************************************)
(* The pipeline: lanes, channel states, retained ticks and queues.         *)
(***************************************************************************)
PipeTypes ==
  /\ lane \in [Lanes -> Seq(Messages)]
  /\ queue \in [Edges -> Seq(Messages)]
  /\ held \in [TickLane -> SUBSET Messages]
  /\ channels \in [TickLane -> Seq(ChannelState)]
  /\ table \in [TickLane -> [Cells -> Nat]]

TableInv == \A l \in TickLane : TableOK(channels[l], table[l])

\* A tick is only ever in the lane of its channel, and in that lane's queues.
Routed ==
  /\ \A l \in Lanes : \A i \in 1..Len(lane[l]) : Route(lane[l][i]) = l
  /\ \A l \in TickLane : \A m \in held[l] : Route(m) = l
  /\ \A e \in Edges : e[1] = "tick" =>
       \A i \in 1..Len(queue[e]) : Key(queue[e][i]) % TickLanes = e[2]

\* What a message gives: its key, lane and owner.
LEMMA MessageParts ==
  ASSUME NEW m \in Messages
  PROVE  /\ Key(m) \in Keys /\ Key(m) \in Nat /\ m.seq \in Nat \ {0}
         /\ Key(m) % TickLanes \in 0..(TickLanes - 1)
         /\ Route(m) \in Lanes /\ InstrumentOwner(m) \in OwnerIds
         /\ Route(m) \in TickLane => m.stream = "tick" /\ Route(m) = <<"tick", Key(m) % TickLanes>>
<1>1. /\ m.market \in {4, 6} /\ m.channel \in 0..(MarketShift - 1) /\ m.seq \in Nat \ {0}
      /\ m.ordinal \in Nat /\ m.stream \in {"tick", "snapshot"}
  BY ApplicationAssumption DEF Message
<1>2. /\ TickLanes \in Nat \ {0} /\ SnapshotLanes \in Nat \ {0} /\ Owners \in Nat \ {0}
      /\ MarketShift \in Nat
  BY ApplicationAssumption
<1>3. Key(m) \in Nat /\ Key(m) \in Keys
  BY <1>1, <1>2 DEF Key, Keys
<1>4. Key(m) % TickLanes \in 0..(TickLanes - 1)
  BY <1>2, <1>3
<1>5. m.ordinal % SnapshotLanes \in 0..(SnapshotLanes - 1) /\ InstrumentOwner(m) \in OwnerIds
  BY <1>1, <1>2 DEF InstrumentOwner, OwnerIds
<1>6. Route(m) \in Lanes
  BY <1>1, <1>4, <1>5 DEF Route, Lanes
<1>7. Route(m) \in TickLane => m.stream = "tick" /\ Route(m) = <<"tick", Key(m) % TickLanes>>
  BY <1>1 DEF Route, TickLane
<1>8. QED
  BY <1>1, <1>3, <1>4, <1>5, <1>6, <1>7

\* What a lane is, and the queues it publishes to.
LEMMA LaneParts ==
  ASSUME NEW l \in Lanes
  PROVE  /\ l = <<l[1], l[2]>> /\ l[1] \in {"tick", "snapshot"} /\ l[2] \in Nat
         /\ l \in TickLane <=> l[1] = "tick"
         /\ \A o \in OwnerIds : <<l[1], l[2], o>> \in Edges
         /\ l \in TickLane => \A kind \in {"late", "fault"} : <<kind, l[2], 0>> \in Edges
<1>1. CASE l[1] = "tick"
  <2>1. l \in {"tick"} \X (0..(TickLanes - 1))
    BY <1>1 DEF Lanes
  <2>2. PICK p \in 0..(TickLanes - 1) : l = <<"tick", p>>
    BY <2>1
  <2>3. p \in 0..(TickLanes + SnapshotLanes) /\ p < TickLanes /\ 0 \in OwnerIds
    BY ApplicationAssumption DEF OwnerIds
  <2>4. QED
    BY <2>2, <2>3 DEF TickLane, Edges, Kinds, Producers
<1>2. CASE l[1] # "tick"
  <2>1. l \in {"snapshot"} \X (0..(SnapshotLanes - 1))
    BY <1>2 DEF Lanes
  <2>2. PICK p \in 0..(SnapshotLanes - 1) : l = <<"snapshot", p>>
    BY <2>1
  <2>3. p \in 0..(TickLanes + SnapshotLanes) /\ p < SnapshotLanes
    BY ApplicationAssumption
  <2>4. QED
    BY <2>2, <2>3 DEF TickLane, Edges, Kinds, Producers
<1>3. QED
  BY <1>1, <1>2

\* What a publication does to the queues.
LEMMA PublishIs ==
  ASSUME queue \in [Edges -> Seq(Messages)], NEW edge \in Edges, NEW m \in Messages,
         Publish(edge, m)
  PROVE  /\ queue' \in [Edges -> Seq(Messages)]
         /\ \A e \in Edges : e # edge => queue'[e] = queue[e]
         /\ queue'[edge] = queue[edge] \/ queue'[edge] = Append(queue[edge], m)
<1>1. Append(queue[edge], m) \in Seq(Messages)
  OBVIOUS
<1>2. queue' = queue \/ queue' = [queue EXCEPT ![edge] = Append(queue[edge], m)]
  BY DEF Publish
<1>3. QED
  BY <1>1, <1>2

\* The state FindOrCreate found or created for a key, and the states and table with it.
FoundOK(l, key, found) ==
  /\ found.states \in Seq(ChannelState) /\ found.table \in [Cells -> Nat]
  /\ found.index \in 1..Len(found.states) /\ found.states[found.index].key = key
  /\ TableOK(found.states, found.table)
  /\ \/ found.states = channels[l]
     \/ /\ StatesOf(l, key) = {}
        /\ found.states = Append(channels[l], [key |-> key, frontier |-> 0, frozen |-> FALSE])

\* FindOrCreate returns the state of the key, with a table that is in order.
LEMMA FindOrCreateIs ==
  ASSUME PipeTypes, TableInv, NEW l \in TickLane, NEW key \in Keys, NEW cell,
         cell = Probe(table[l], HashChannel[key], StatesOf(l, key)),
         NEW found, found = FindOrCreate(l, key, cell), found.index # 0
  PROVE  FoundOK(l, key, found)
<1> DEFINE new == [key |-> key, frontier |-> 0, frozen |-> FALSE]
<1>1. PICK states \in Seq(ChannelState) : states = channels[l]
  BY DEF PipeTypes
<1>2. PICK t \in [Cells -> Nat] : t = table[l]
  BY DEF PipeTypes
<1>3. TableOK(states, t) /\ DOMAIN table[l] = Cells
  BY <1>1, <1>2 DEF TableInv
<1>4. cell \in Cells
  BY <1>3 DEF FindOrCreate
<1>5. new \in ChannelState /\ new.key = key
  BY DEF ChannelState
<1>6. StatesOf(l, key) = {i \in DOMAIN states : states[i].key = key}
  BY <1>1 DEF StatesOf
<1>7. cell = Probe(t, HashChannel[key], {i \in DOMAIN states : states[i].key = key})
  BY <1>2, <1>6, Zenon
<1>8. /\ t[cell] # 0 => t[cell] \in 1..Len(states) /\ states[t[cell]].key = key
      /\ t[cell] = 0 =>
           /\ \A i \in 1..Len(states) : states[i].key # key
           /\ TableOK(Append(states, new), [t EXCEPT ![cell] = Len(states) + 1])
  BY <1>3, <1>4, <1>5, <1>7, FindOrCreateFinds
<1>9. CASE t[cell] # 0
  <2>1. found = [index |-> t[cell], table |-> t, states |-> states]
    BY <1>1, <1>2, <1>3, <1>4, <1>9 DEF FindOrCreate
  <2>2. QED
    BY <1>1, <1>3, <1>8, <1>9, <2>1 DEF FoundOK
<1>10. CASE t[cell] = 0
  <2>1. found = [index |-> Len(states) + 1, table |-> [t EXCEPT ![cell] = Len(states) + 1],
                 states |-> Append(states, new)]
    BY <1>1, <1>2, <1>3, <1>4, <1>10 DEF FindOrCreate
  <2>2. /\ Len(states) \in Nat /\ Append(states, new) \in Seq(ChannelState)
        /\ Len(Append(states, new)) = Len(states) + 1
        /\ Append(states, new)[Len(states) + 1] = new
    BY <1>5
  <2>3. [t EXCEPT ![cell] = Len(states) + 1] \in [Cells -> Nat]
    <3>1. PICK n \in Nat : n = Len(states) + 1
      BY <2>2
    <3>2. [t EXCEPT ![cell] = n] \in [Cells -> Nat]
      OBVIOUS
    <3>3. QED
      BY <3>1, <3>2
  <2>4. StatesOf(l, key) = {}
    BY <1>6, <1>8, <1>10
  <2>5. QED
    BY <1>1, <1>5, <1>8, <1>10, <2>1, <2>2, <2>3, <2>4 DEF FoundOK
<1>11. QED
  BY <1>9, <1>10

\* One message of a tick lane: it is counted or lost, or its channel has a state.
LEMMA TakeTickIs ==
  ASSUME PipeTypes, TableInv, NEW l \in TickLane, NEW m \in Messages, TakeTick(l, m)
  PROVE  /\ lane' = [lane EXCEPT ![l] = Tail(@)] /\ UNCHANGED Outside
         /\ \/ UNCHANGED <<table, channels, held>> /\ (Lose \/ SetAside)
            \/ \E found : /\ FoundOK(l, Key(m), found)
                          /\ \/ TakeFreeze(l, m, found, found.states[found.index])
                             \/ TakeLate(l, m, found, found.states[found.index])
                             \/ TakeHold(l, m, found, found.states[found.index])
<1>1. Consume(l)
  BY DEF TakeTick
<1>2. PICK cell : cell = Probe(table[l], HashChannel[Key(m)], StatesOf(l, Key(m)))
  OBVIOUS
<1>3. PICK found : found = FindOrCreate(l, Key(m), cell)
  OBVIOUS
<1>4. \/ TakeUnplaced(l, m, found) \/ TakeError(l, m)
      \/ /\ found.index # 0
         /\ \/ TakeFreeze(l, m, found, found.states[found.index])
            \/ TakeLate(l, m, found, found.states[found.index])
            \/ TakeHold(l, m, found, found.states[found.index])
  BY <1>2, <1>3, Zenon DEF TakeTick
<1>5. Key(m) \in Keys
  BY MessageParts
<1>6. CASE TakeUnplaced(l, m, found) \/ TakeError(l, m)
  BY <1>1, <1>6 DEF TakeUnplaced, TakeError, Consume
<1>7. CASE found.index # 0
  <2>1. FoundOK(l, Key(m), found)
    BY <1>2, <1>3, <1>5, <1>7, FindOrCreateIs
  <2>2. QED
    BY <1>1, <1>4, <1>6, <2>1 DEF Consume
<1>8. QED
  BY <1>4, <1>6, <1>7

\* States stay where they are and keep their keys; frontiers only grow.
Kept(l) ==
  \A i \in 1..Len(channels[l]) :
    /\ i \in 1..Len(channels'[l]) /\ channels'[l][i].key = channels[l][i].key
    /\ channels[l][i].frontier <= channels'[l][i].frontier

\* What placing a tick's state does: its frontier stays, and a state that is new is
\* its channel's first.
LEMMA PlaceIs ==
  ASSUME PipeTypes, TableInv, NEW l \in TickLane, NEW key \in Keys, NEW found, FoundOK(l, key, found),
         NEW state \in ChannelState, state.key = key,
         state.frontier = found.states[found.index].frontier, Place(l, found, state)
  PROVE  /\ channels' \in [TickLane -> Seq(ChannelState)] /\ table' \in [TickLane -> [Cells -> Nat]]
         /\ TableInv'
         /\ \A j \in TickLane : j # l => channels'[j] = channels[j]
         /\ found.index \in 1..Len(channels'[l]) /\ channels'[l][found.index] = state
         /\ \A i \in 1..Len(channels'[l]) : channels'[l][i].key = key => i = found.index
         /\ \A i \in 1..Len(channels[l]) :
              /\ i \in 1..Len(channels'[l])
              /\ channels[l][i].key = key =>
                   i = found.index /\ found.states[found.index] = channels[l][i]
              /\ channels[l][i].key # key => channels'[l][i] = channels[l][i]
         /\ \A i \in 1..Len(channels'[l]) :
              channels'[l][i].key # key => i \in 1..Len(channels[l])
<1>1. PICK states \in Seq(ChannelState) : states = found.states
  BY DEF FoundOK
<1>2. PICK k \in 1..Len(states) : k = found.index
  BY <1>1 DEF FoundOK
<1>3. PICK placed : placed = [states EXCEPT ![k] = state]
  OBVIOUS
<1>4. /\ placed \in Seq(ChannelState) /\ Len(placed) = Len(states) /\ Len(states) \in Nat
      /\ placed[k] = state /\ \A i \in 1..Len(states) : i # k => placed[i] = states[i]
  BY <1>3
<1>5. /\ channels' = [channels EXCEPT ![l] = placed] /\ table' = [table EXCEPT ![l] = found.table]
  BY <1>1, <1>2, <1>3 DEF Place
<1>6. /\ channels'[l] = placed /\ table'[l] = found.table
      /\ \A j \in TickLane : j # l => channels'[j] = channels[j] /\ table'[j] = table[j]
      /\ channels' \in [TickLane -> Seq(ChannelState)] /\ table' \in [TickLane -> [Cells -> Nat]]
  BY <1>4, <1>5 DEF PipeTypes, FoundOK
<1>7. /\ states[k].key = key /\ TableOK(states, found.table) /\ found.table \in [Cells -> Nat]
      /\ state.frontier = states[k].frontier
  BY <1>1, <1>2 DEF FoundOK
<1>8. \A i \in 1..Len(states) : placed[i].key = states[i].key
  BY <1>4, <1>7
<1>9. TableOK(placed, found.table)
  BY <1>4, <1>7, <1>8, SameKeys
<1>10. TableInv'
  BY <1>6, <1>9 DEF TableInv
<1>11. \A i \in 1..Len(placed) : placed[i].key = key => i = k
  BY <1>4, <1>7, <1>9 DEF TableOK
<1>12. PICK old \in Seq(ChannelState) : old = channels[l]
  BY DEF PipeTypes
<1>13. /\ \A i \in 1..Len(old) : i \in 1..Len(states) /\ states[i] = old[i]
       /\ \A i \in 1..Len(states) : states[i].key # key => i \in 1..Len(old)
  <2>1. CASE states = old
    BY <2>1
  <2>2. CASE states = Append(old, [key |-> key, frontier |-> 0, frozen |-> FALSE])
    <3>1. /\ Len(old) \in Nat /\ Len(states) = Len(old) + 1
          /\ states[Len(old) + 1] = [key |-> key, frontier |-> 0, frozen |-> FALSE]
          /\ \A i \in 1..Len(old) : states[i] = old[i]
      BY <2>2
    <3>2. states[Len(old) + 1].key = key
      BY <3>1
    <3>3. QED
      BY <3>1, <3>2
  <2>3. QED
    BY <1>1, <1>12, <2>1, <2>2 DEF FoundOK
<1>14. ASSUME NEW i \in 1..Len(old)
       PROVE  /\ i \in 1..Len(placed)
              /\ old[i].key = key => i = k /\ states[k] = old[i]
              /\ old[i].key # key => placed[i] = old[i]
  <2>1. i \in 1..Len(states) /\ states[i] = old[i]
    BY <1>13
  <2>2. old[i].key = key => i = k
    BY <1>4, <1>8, <1>11, <2>1
  <2>3. old[i].key # key => i # k
    BY <1>7, <2>1
  <2>4. QED
    BY <1>4, <2>1, <2>2, <2>3
<1>15. \A i \in 1..Len(placed) : placed[i].key # key => i \in 1..Len(old)
  BY <1>4, <1>8, <1>13
<1>16. QED
  BY <1>1, <1>2, <1>4, <1>6, <1>10, <1>11, <1>12, <1>14, <1>15

\* What the frontier reaches when a tick leaves.
Reached(l, m) == IF Fits(l, m) THEN m.seq ELSE m.seq - 1

\* What the emission of a tick does to the states: the frontier of its channel's,
\* which is not frozen.
LEMMA EmitIs ==
  ASSUME PipeTypes, TableInv, NEW l \in TickLane, NEW m \in held[l], EmitTick(l, m)
  PROVE  /\ channels' \in [TickLane -> Seq(ChannelState)] /\ TableInv'
         /\ \A j \in TickLane : j # l => channels'[j] = channels[j]
         /\ Len(channels'[l]) = Len(channels[l])
         /\ StatesOf(l, Key(m)) # {}
         /\ \A i \in 1..Len(channels[l]) :
              /\ channels[l][i].key # Key(m) => channels'[l][i] = channels[l][i]
              /\ channels[l][i].key = Key(m) =>
                   /\ ~channels[l][i].frozen
                   /\ channels'[l][i] = [channels[l][i] EXCEPT !.frontier = Reached(l, m)]
<1>0. m \in Messages /\ Reached(l, m) \in Nat
  BY MessageParts DEF PipeTypes, Reached
<1>1. PICK k \in StatesOf(l, Key(m)) :
        ~channels[l][k].frozen /\ channels' = [channels EXCEPT ![l][k].frontier = Reached(l, m)]
  BY DEF EmitTick, Reached
<1>2. PICK n \in Nat : n = Reached(l, m)
  BY <1>0
<1>3. PICK old \in Seq(ChannelState) : old = channels[l]
  BY DEF PipeTypes
<1>4. k \in 1..Len(old) /\ old[k].key = Key(m) /\ old[k] \in ChannelState
  BY <1>1, <1>3 DEF StatesOf
<1>5. PICK state : state = [old[k] EXCEPT !.frontier = n]
  OBVIOUS
<1>6. state \in ChannelState /\ state.key = Key(m)
  BY <1>4, <1>5 DEF ChannelState
<1>7. PICK moved : moved = [old EXCEPT ![k] = state]
  OBVIOUS
<1>8. /\ moved \in Seq(ChannelState) /\ Len(moved) = Len(old) /\ Len(old) \in Nat
      /\ moved[k] = state /\ \A i \in 1..Len(old) : i # k => moved[i] = old[i]
  BY <1>4, <1>6, <1>7
<1>9. channels' = [channels EXCEPT ![l] = moved]
  BY <1>1, <1>2, <1>3, <1>5, <1>7
<1>10. /\ channels'[l] = moved /\ \A j \in TickLane : j # l => channels'[j] = channels[j]
       /\ channels' \in [TickLane -> Seq(ChannelState)]
  BY <1>8, <1>9 DEF PipeTypes
<1>11. table' = table /\ TableOK(old, table[l]) /\ table[l] \in [Cells -> Nat]
  BY <1>3 DEF EmitTick, TableInv, PipeTypes
<1>12. TableOK(moved, table[l])
  BY <1>4, <1>6, <1>8, <1>11, SameKeys
<1>13. TableInv'
  BY <1>10, <1>11, <1>12 DEF TableInv
<1>14. \A i \in 1..Len(old) : old[i].key = Key(m) => i = k
  BY <1>4, <1>11 DEF TableOK
<1>15. QED
  BY <1>1, <1>2, <1>3, <1>4, <1>5, <1>8, <1>10, <1>13, <1>14

\* The place of every owner's loop; only owner 0 polls late records and faults.
StageInv ==
  /\ stage \in [OwnerIds -> Kinds \cup {"test", "exited"}]
  /\ \A o \in OwnerIds : stage[o] \in {"late", "fault"} => o = 0

\* What the handler makes of a tick's state and of the retained ticks: the channel
\* is frozen, or all stays, or the tick is one more.
Handled(l, m, found, state) ==
  \/ state = [found.states[found.index] EXCEPT !.frozen = TRUE] /\ held' = held
  \/ state = found.states[found.index] /\ held' = held
  \/ /\ state = found.states[found.index] /\ held' = [held EXCEPT ![l] = @ \cup {m}]
     /\ ~state.frozen /\ m.seq > state.frontier
     /\ \A h \in HeldOf(l, Key(m)) : h.seq # m.seq

\* One message of a tick lane, without the counts: the queues of ticks stay.
LEMMA TakeTickParts ==
  ASSUME PipeTypes, TableInv, NEW l \in TickLane, NEW m \in Messages, TakeTick(l, m)
  PROVE  /\ lane' = [lane EXCEPT ![l] = Tail(@)] /\ UNCHANGED Outside
         /\ queue' \in [Edges -> Seq(Messages)]
         /\ \A e \in Edges : e[1] = "tick" => queue'[e] = queue[e]
         /\ \/ UNCHANGED <<table, channels, held>>
            \/ \E found, state :
                 /\ FoundOK(l, Key(m), found) /\ Place(l, found, state)
                 /\ state \in ChannelState /\ state.key = Key(m)
                 /\ state.frontier = found.states[found.index].frontier
                 /\ Handled(l, m, found, state)
<1>1. queue \in [Edges -> Seq(Messages)]
  BY DEF PipeTypes
<1>2. l \in Lanes
  BY DEF TickLane
<1>3. \A kind \in {"late", "fault"} : <<kind, l[2], 0>> \in Edges
  BY <1>2, LaneParts
<1>4. ASSUME NEW kind \in {"late", "fault"}, PublishOnly(<<kind, l[2], 0>>, m)
      PROVE  /\ queue' \in [Edges -> Seq(Messages)]
             /\ \A e \in Edges : e[1] = "tick" => queue'[e] = queue[e]
  <2>1. PICK edge \in Edges : edge = <<kind, l[2], 0>>
    BY <1>3
  <2>2. edge[1] # "tick" /\ Publish(edge, m)
    BY <1>4, <2>1 DEF PublishOnly
  <2>3. QED
    BY <1>1, <2>2, PublishIs
<1>5. CASE UNCHANGED <<table, channels, held>> /\ (Lose \/ SetAside)
  BY <1>1, <1>5, TakeTickIs DEF Lose, SetAside
<1>6. ASSUME NEW found, FoundOK(l, Key(m), found), NEW old, old = found.states[found.index],
             \/ TakeFreeze(l, m, found, old) \/ TakeLate(l, m, found, old)
             \/ TakeHold(l, m, found, old)
      PROVE  /\ queue' \in [Edges -> Seq(Messages)]
             /\ \A e \in Edges : e[1] = "tick" => queue'[e] = queue[e]
             /\ \E state :
                 /\ Place(l, found, state)
                 /\ state \in ChannelState /\ state.key = Key(m)
                 /\ state.frontier = found.states[found.index].frontier
                 /\ Handled(l, m, found, state)
  <2>1. old \in ChannelState /\ old.key = Key(m)
    BY <1>6 DEF FoundOK
  <2>2. CASE TakeFreeze(l, m, found, old)
    <3>1. PICK state : state = [old EXCEPT !.frozen = TRUE]
      OBVIOUS
    <3>2. /\ state \in ChannelState /\ state.key = Key(m) /\ state.frontier = old.frontier
      BY <2>1, <3>1 DEF ChannelState
    <3>3. Place(l, found, state) /\ Handled(l, m, found, state)
      BY <1>6, <2>2, <3>1 DEF TakeFreeze, Handled
    <3>4. /\ queue' \in [Edges -> Seq(Messages)]
          /\ \A e \in Edges : e[1] = "tick" => queue'[e] = queue[e]
      BY <1>1, <1>4, <2>2 DEF TakeFreeze, SetAside
    <3>5. QED
      BY <1>6, <3>2, <3>3, <3>4
  <2>3. CASE TakeLate(l, m, found, old)
    <3>1. Place(l, found, old) /\ Handled(l, m, found, old)
      BY <1>6, <2>3 DEF TakeLate, Handled
    <3>2. /\ queue' \in [Edges -> Seq(Messages)]
          /\ \A e \in Edges : e[1] = "tick" => queue'[e] = queue[e]
      BY <1>1, <1>4, <2>3 DEF TakeLate, SetAside
    <3>3. QED
      BY <1>6, <2>1, <3>1, <3>2
  <2>4. CASE TakeHold(l, m, found, old)
    <3>1. Place(l, found, old) /\ Handled(l, m, found, old) /\ queue' = queue
      BY <1>6, <2>4 DEF TakeHold, Handled
    <3>2. QED
      BY <1>1, <1>6, <2>1, <3>1
  <2>5. QED
    BY <1>6, <2>2, <2>3, <2>4
<1>7. QED
  BY <1>5, <1>6, TakeTickIs

\* What the lanes have done with the messages.
accounts == <<dispatched, healthy, admitted, set_aside, lost>>

\* One step of a drain thread: it polls a queue that has a record, or nothing.
LEMMA DrainIs ==
  ASSUME StageInv, NEW o \in OwnerIds, Drain(o)
  PROVE  /\ StageInv'
         /\ \/ UNCHANGED <<lane, table, channels, held, queue, received, consumed, accounts>>
            \/ \E e \in Edges : /\ queue[e] # <<>> /\ TryPoll(e[1], e[2], e[3])
                                /\ UNCHANGED <<lane, table, channels, held, accounts>>
<1>1. UNCHANGED <<lane, table, channels, held, accounts>>
  BY DEF Drain, Poll, TestDrainRunning, lanes, accounts, counts
<1>2. CASE TestDrainRunning(o)
  BY <1>1, <1>2 DEF TestDrainRunning, StageInv, Kinds
<1>3. CASE Poll(o) /\ Ready(o) = {}
  <2>1. /\ stage[o] \in Kinds /\ stage' = [stage EXCEPT ![o] = NextStage(o)[stage[o]]]
        /\ UNCHANGED <<queue, received, consumed>>
    BY <1>3 DEF Poll
  <2>2. /\ NextStage(o)[stage[o]] \in Kinds \cup {"test", "exited"}
        /\ NextStage(o)[stage[o]] \in {"late", "fault"} => o = 0
    BY <2>1 DEF NextStage, StageInv, Kinds
  <2>3. StageInv'
    BY <2>1, <2>2 DEF StageInv
  <2>4. QED
    BY <1>1, <2>1, <2>3
<1>4. CASE Poll(o) /\ Ready(o) # {}
  <2>1. PICK kind \in Kinds : kind = stage[o]
    BY <1>4 DEF Poll
  <2>2. PICK p : p = FirstPolled(kind, o, Ready(o)) /\ TryPoll(kind, p, o) /\ UNCHANGED stage
    BY <1>4, <2>1 DEF Poll
  <2>3. PICK n \in Nat \ {0} : n = Producers(kind) /\ n <= TickLanes + SnapshotLanes
    BY ApplicationAssumption DEF Producers
  <2>4. Ready(o) \in SUBSET (0..(n - 1))
    BY <2>1, <2>3 DEF Ready
  <2>5. p \in Ready(o)
    BY <1>4, <2>2, <2>4, PolledReady
  <2>6. queue[<<kind, p, o>>] # <<>> /\ p \in 0..(n - 1)
    BY <2>1, <2>4, <2>5 DEF Ready
  <2>7. PICK e : e = <<kind, p, o>>
    OBVIOUS
  <2>8. e \in Edges /\ e[1] = kind /\ e[2] = p /\ e[3] = o
    BY <2>1, <2>3, <2>6, <2>7, ApplicationAssumption DEF Edges, StageInv
  <2>9. QED
    BY <1>1, <2>2, <2>6, <2>7, <2>8 DEF StageInv
<1>5. QED
  BY <1>2, <1>3, <1>4 DEF Drain

\* The steps that change what is between admission and the drain threads.
LEMMA StepCases ==
  ASSUME StageInv, [Next]_vars
  PROVE  /\ StageInv'
         /\ \/ UNCHANGED <<lane, table, channels, held, queue, received, consumed, accounts>>
            \/ \E k \in Callers : RejectFatal(k)
            \/ \E k \in Callers, m \in Messages : AdmitMdlMessage(k, m)
            \/ \E l \in TickLane : lane[l] # <<>> /\ TakeTick(l, Head(lane[l]))
            \/ \E l \in Lanes \ TickLane : lane[l] # <<>> /\ TakeSnapshot(l, Head(lane[l]))
            \/ \E l \in TickLane : \E m \in held[l] : EmitTick(l, m)
            \/ \E e \in Edges : /\ queue[e] # <<>> /\ TryPoll(e[1], e[2], e[3])
                                /\ UNCHANGED <<lane, table, channels, held, accounts>>
<1>1. CASE Ended \/ UNCHANGED vars
  BY <1>1 DEF Ended, vars, lanes, drain, accounts, counts, StageInv
<1>2. CASE MainStep \/ HandleSignal
  <2>1. UNCHANGED <<lane, table, channels, held, queue, received, consumed, accounts>>
    BY <1>2 DEF MainStep, HandleSignal, GiveUp, Startup, ConnectRefused, CreateSubscriber,
         ConnectSucceeds, ConnectFails, StopOnFailure, LeaveLoop, ShutdownManager, Terminate,
         AwaitCallbacks, StopDrainEarly, StopEngineLate, JoinLanesLate, AwaitConsumed, JoinDrains,
         Rest, lanes, accounts, counts
  <2>2. stage' = stage \/ stage' = [o \in OwnerIds |-> "test"]
    BY <1>2 DEF MainStep, HandleSignal, GiveUp, Startup, ConnectRefused, CreateSubscriber,
         ConnectSucceeds, ConnectFails, StopOnFailure, LeaveLoop, ShutdownManager, Terminate,
         AwaitCallbacks, StopDrainEarly, StopEngineLate, JoinLanesLate, AwaitConsumed, JoinDrains
  <2>3. QED
    BY <2>1, <2>2 DEF StageInv
<1>3. CASE \E k \in Callers : Deliver(k) \/ OnMessage(k)
  <2>1. stage' = stage
    BY <1>3 DEF Deliver, OnMessage, CountCallback, TestAccepting, Reject, RejectFatal, Throw,
         AdmitMdlMessage, Leave, Callback, drain
  <2>2. \/ UNCHANGED <<lane, table, channels, held, queue, received, consumed, accounts>>
        \/ \E k \in Callers : RejectFatal(k)
        \/ \E k \in Callers, m \in Messages : AdmitMdlMessage(k, m)
    BY <1>3 DEF Deliver, OnMessage, CountCallback, TestAccepting, Reject, Throw,
         Leave, Callback, drain, lanes, accounts, counts
  <2>3. QED
    BY <2>1, <2>2 DEF StageInv
<1>4. ASSUME NEW l \in Lanes, Worker(l)
      PROVE  /\ stage' = stage
             /\ \/ UNCHANGED <<lane, table, channels, held, queue, received, consumed, accounts>>
                \/ l \in TickLane /\ lane[l] # <<>> /\ TakeTick(l, Head(lane[l]))
                \/ l \notin TickLane /\ lane[l] # <<>> /\ TakeSnapshot(l, Head(lane[l]))
                \/ l \in TickLane /\ \E m \in held[l] : EmitTick(l, m)
  <2>1. stage' = stage
    BY <1>4 DEF Worker, TakeTick, TakeSnapshot, EmitTick, LaneExit, Consume, Outside, drain
  <2>2. QED
    BY <1>4, <2>1 DEF Worker, LaneExit, drain, accounts, counts
<1>5. ASSUME NEW o \in OwnerIds, Drain(o)
      PROVE  /\ StageInv'
             /\ \/ UNCHANGED <<lane, table, channels, held, queue, received, consumed, accounts>>
                \/ \E e \in Edges : /\ queue[e] # <<>> /\ TryPoll(e[1], e[2], e[3])
                                    /\ UNCHANGED <<lane, table, channels, held, accounts>>
  BY <1>5, DrainIs
<1>6. QED
  BY <1>1, <1>2, <1>3, <1>4, <1>5 DEF Next, StageInv

PipeInv == StageInv /\ PipeTypes /\ TableInv /\ Routed

\* Empty tables are in order.
LEMMA InitPipe == ASSUME Init PROVE PipeInv
<1>1. StageInv
  BY DEF Init, StageInv
<1>2. <<>> \in Seq(Messages) /\ <<>> \in Seq(ChannelState)
  OBVIOUS
<1>3. \A l \in TickLane : channels[l] = <<>> /\ table[l] = [cell \in Cells |-> 0]
  BY DEF Init, EmptyTable, Cells
<1>4. PipeTypes
  BY <1>2 DEF Init, PipeTypes, EmptyTable, Cells
<1>5. TableOK(<<>>, [cell \in Cells |-> 0])
  BY DEF TableOK
<1>6. TableInv
  BY <1>3, <1>5 DEF TableInv
<1>7. Routed
  BY DEF Init, Routed, TickLane
<1>8. QED
  BY <1>1, <1>4, <1>6, <1>7 DEF PipeInv

\* A message of a lane or of a queue is a message, and so are the ones behind it.
LEMMA Taken ==
  ASSUME NEW s \in Seq(Messages), s # <<>>
  PROVE  /\ Head(s) \in Messages /\ Head(s) = s[1] /\ 1 \in 1..Len(s)
         /\ Tail(s) \in Seq(Messages) /\ Len(s) \in Nat /\ Len(Tail(s)) = Len(s) - 1
         /\ \A i \in 1..Len(Tail(s)) : i + 1 \in 1..Len(s) /\ Tail(s)[i] = s[i + 1]
OBVIOUS

\* Admission puts a message into the lane of its route.
LEMMA AdmitPipe ==
  ASSUME PipeInv, NEW k \in Callers, NEW m \in Messages, AdmitMdlMessage(k, m)
  PROVE  PipeTypes' /\ TableInv' /\ Routed'
<1>1. PICK l \in Lanes : l = Route(m)
  BY MessageParts
<1>2. /\ UNCHANGED <<table, channels, held, queue>>
      /\ lane' = lane \/ lane' = [lane EXCEPT ![l] = Append(lane[l], m)]
  BY <1>1 DEF AdmitMdlMessage, Callback
<1>3. lane[l] \in Seq(Messages)
  BY DEF PipeInv, PipeTypes
<1>4. /\ Append(lane[l], m) \in Seq(Messages) /\ Len(lane[l]) \in Nat
      /\ Len(Append(lane[l], m)) = Len(lane[l]) + 1 /\ Append(lane[l], m)[Len(lane[l]) + 1] = m
      /\ \A i \in 1..Len(lane[l]) : Append(lane[l], m)[i] = lane[l][i]
  BY <1>3
<1>5. PipeTypes'
  BY <1>2, <1>4 DEF PipeInv, PipeTypes
<1>6. TableInv'
  BY <1>2 DEF PipeInv, TableInv
<1>7. ASSUME NEW j \in Lanes, NEW i \in 1..Len(lane'[j]) PROVE Route(lane'[j][i]) = j
  <2>1. CASE lane'[j] = lane[j]
    BY <1>7, <2>1 DEF PipeInv, Routed
  <2>2. CASE j = l /\ lane'[j] = Append(lane[l], m)
    <3>1. i \in 1..Len(lane[l]) \/ i = Len(lane[l]) + 1
      BY <1>4, <1>7, <2>2
    <3>2. QED
      BY <1>1, <1>4, <2>2, <3>1 DEF PipeInv, Routed
  <2>3. QED
    <3>1. CASE lane' = lane
      BY <2>1, <3>1
    <3>2. CASE lane' = [lane EXCEPT ![l] = Append(lane[l], m)]
      <4>1. lane'[j] = IF j = l THEN Append(lane[l], m) ELSE lane[j]
        BY <3>2 DEF PipeInv, PipeTypes
      <4>2. QED
        BY <2>1, <2>2, <4>1
    <3>3. QED
      BY <1>2, <3>1, <3>2
<1>8. Routed'
  BY <1>2, <1>7 DEF PipeInv, Routed
<1>9. QED
  BY <1>5, <1>6, <1>8

\* What is left of a lane is still in it.
LEMMA ConsumeRouted ==
  ASSUME PipeInv, NEW l \in Lanes, lane[l] # <<>>, lane' = [lane EXCEPT ![l] = Tail(@)]
  PROVE  /\ lane' \in [Lanes -> Seq(Messages)]
         /\ \A j \in Lanes : \A i \in 1..Len(lane'[j]) : Route(lane'[j][i]) = j
<1>1. PICK s \in Seq(Messages) : s = lane[l]
  BY DEF PipeInv, PipeTypes
<1>2. /\ Tail(s) \in Seq(Messages)
      /\ \A i \in 1..Len(Tail(s)) : i + 1 \in 1..Len(s) /\ Tail(s)[i] = s[i + 1]
  BY <1>1, Taken
<1>3. /\ lane' \in [Lanes -> Seq(Messages)] /\ lane'[l] = Tail(s)
      /\ \A j \in Lanes : j # l => lane'[j] = lane[j]
  BY <1>1, <1>2 DEF PipeInv, PipeTypes
<1>4. \A i \in 1..Len(s) : Route(s[i]) = l
  BY <1>1 DEF PipeInv, Routed
<1>5. ASSUME NEW j \in Lanes, NEW i \in 1..Len(lane'[j]) PROVE Route(lane'[j][i]) = j
  <2>1. CASE j = l
    <3>1. i \in 1..Len(Tail(s)) /\ lane'[j] = Tail(s)
      BY <1>3, <1>5, <2>1
    <3>2. i + 1 \in 1..Len(s) /\ lane'[j][i] = s[i + 1]
      BY <1>2, <3>1
    <3>3. QED
      BY <1>4, <2>1, <3>2
  <2>2. CASE j # l
    BY <1>3, <1>5, <2>2 DEF PipeInv, Routed
  <2>3. QED
    BY <2>1, <2>2
<1>6. QED
  BY <1>3, <1>5

\* A tick that is taken leaves the tables in order and is retained in its own lane.
LEMMA TakeTickPipe ==
  ASSUME PipeInv, NEW l \in TickLane, lane[l] # <<>>, TakeTick(l, Head(lane[l]))
  PROVE  PipeTypes' /\ TableInv' /\ Routed'
<1>1. l \in Lanes /\ PipeTypes /\ TableInv /\ Routed
  BY DEF TickLane, PipeInv
<1>2. PICK m \in Messages : m = Head(lane[l]) /\ Route(m) = l
  <2>1. lane[l] \in Seq(Messages)
    BY <1>1 DEF PipeTypes
  <2>2. Head(lane[l]) \in Messages /\ Head(lane[l]) = lane[l][1] /\ 1 \in 1..Len(lane[l])
    BY <2>1, Taken
  <2>3. Route(lane[l][1]) = l
    BY <1>1, <2>2 DEF Routed
  <2>4. QED
    BY <2>2, <2>3
<1>3. TakeTick(l, m) /\ Key(m) \in Keys
  BY <1>2, MessageParts
<1>4. /\ lane' = [lane EXCEPT ![l] = Tail(@)]
      /\ queue' \in [Edges -> Seq(Messages)]
      /\ \A e \in Edges : e[1] = "tick" => queue'[e] = queue[e]
  BY <1>1, <1>3, TakeTickParts
<1>5. /\ lane' \in [Lanes -> Seq(Messages)]
      /\ \A j \in Lanes : \A i \in 1..Len(lane'[j]) : Route(lane'[j][i]) = j
  BY <1>1, <1>4, ConsumeRouted
<1>6. /\ channels' \in [TickLane -> Seq(ChannelState)]
      /\ table' \in [TickLane -> [Cells -> Nat]] /\ TableInv'
      /\ held' \in [TickLane -> SUBSET Messages]
      /\ \A j \in TickLane : \A h \in held'[j] : Route(h) = j
  <2>1. CASE UNCHANGED <<table, channels, held>>
    BY <1>1, <2>1 DEF PipeTypes, TableInv, Routed
  <2>2. ASSUME NEW found, NEW state,
               FoundOK(l, Key(m), found), Place(l, found, state),
               state \in ChannelState, state.key = Key(m),
               state.frontier = found.states[found.index].frontier,
               Handled(l, m, found, state)
        PROVE  /\ channels' \in [TickLane -> Seq(ChannelState)]
               /\ table' \in [TickLane -> [Cells -> Nat]] /\ TableInv'
               /\ held' \in [TickLane -> SUBSET Messages]
               /\ \A j \in TickLane : \A h \in held'[j] : Route(h) = j
    <3>1. /\ channels' \in [TickLane -> Seq(ChannelState)]
          /\ table' \in [TickLane -> [Cells -> Nat]] /\ TableInv'
      BY <1>1, <1>3, <2>2, PlaceIs
    <3>2. held' \in [TickLane -> SUBSET Messages]
      BY <1>1, <2>2 DEF Handled, PipeTypes
    <3>3. \A j \in TickLane : \A h \in held'[j] : h \in held[j] \/ (j = l /\ h = m)
      BY <1>1, <2>2 DEF Handled, PipeTypes
    <3>4. \A j \in TickLane : \A h \in held'[j] : Route(h) = j
      BY <1>1, <1>2, <3>3 DEF Routed
    <3>5. QED
      BY <3>1, <3>2, <3>4
  <2>3. QED
    BY <1>1, <1>3, <2>1, <2>2, TakeTickParts
<1>7. PipeTypes'
  BY <1>4, <1>5, <1>6 DEF PipeTypes
<1>8. Routed'
  BY <1>1, <1>4, <1>5, <1>6 DEF Routed
<1>9. QED
  BY <1>6, <1>7, <1>8

\* A record goes to the queue of its lane and of its instrument's owner.
LEMMA DispatchIs ==
  ASSUME queue \in [Edges -> Seq(Messages)], NEW l \in Lanes, NEW m \in Messages, Dispatch(l, m)
  PROVE  /\ queue' \in [Edges -> Seq(Messages)]
         /\ <<l[1], l[2], InstrumentOwner(m)>> \in Edges
         /\ \A e \in Edges :
              \/ queue'[e] = queue[e]
              \/ /\ queue'[e] = Append(queue[e], m)
                 /\ e = <<l[1], l[2], InstrumentOwner(m)>>
<1>1. PICK edge \in Edges : edge = <<l[1], l[2], InstrumentOwner(m)>>
  BY MessageParts, LaneParts
<1>2. CASE m.verdict = "ok"
  <2>1. Publish(edge, m)
    BY <1>1, <1>2 DEF Dispatch, PublishOnly, EdgeOf
  <2>2. QED
    BY <1>1, <2>1, PublishIs
<1>3. CASE m.verdict # "ok"
  <2>1. queue' = queue
    BY <1>3 DEF Dispatch, SetAside
  <2>2. QED
    BY <1>1, <2>1
<1>4. QED
  BY <1>2, <1>3

\* A snapshot does not touch the ticks.
LEMMA TakeSnapshotPipe ==
  ASSUME PipeInv, NEW l \in Lanes \ TickLane, lane[l] # <<>>, TakeSnapshot(l, Head(lane[l]))
  PROVE  /\ PipeTypes' /\ TableInv' /\ Routed'
         /\ \A e \in Edges : e[1] = "tick" => queue'[e] = queue[e]
<1>1. lane' = [lane EXCEPT ![l] = Tail(@)] /\ UNCHANGED <<table, channels, held>>
  BY DEF TakeSnapshot, Consume
<1>2. /\ lane' \in [Lanes -> Seq(Messages)]
      /\ \A j \in Lanes : \A i \in 1..Len(lane'[j]) : Route(lane'[j][i]) = j
  BY <1>1, ConsumeRouted
<1>3. PICK m \in Messages : Dispatch(l, m)
  <2>1. lane[l] \in Seq(Messages)
    BY DEF PipeInv, PipeTypes
  <2>2. QED
    BY <2>1, Taken DEF TakeSnapshot
<1>4. queue \in [Edges -> Seq(Messages)] /\ l[1] # "tick"
  BY LaneParts DEF PipeInv, PipeTypes
<1>5. /\ queue' \in [Edges -> Seq(Messages)]
      /\ \A e \in Edges : e[1] = "tick" => queue'[e] = queue[e]
  <2>1. PICK owner : owner = InstrumentOwner(m)
    OBVIOUS
  <2>2. /\ queue' \in [Edges -> Seq(Messages)]
        /\ \A e \in Edges : queue'[e] = queue[e] \/ e = <<l[1], l[2], owner>>
    BY <1>3, <1>4, <2>1, DispatchIs
  <2>3. QED
    BY <1>4, <2>2
<1>6. PipeTypes'
  BY <1>1, <1>2, <1>5 DEF PipeInv, PipeTypes
<1>7. TableInv' /\ Routed'
  BY <1>1, <1>2, <1>5 DEF PipeInv, TableInv, Routed
<1>8. QED
  BY <1>5, <1>6, <1>7

\* A tick goes from the lane of its channel to a queue of that lane.
LEMMA EmitPipe ==
  ASSUME PipeInv, NEW l \in TickLane, NEW m \in held[l], EmitTick(l, m)
  PROVE  PipeTypes' /\ TableInv' /\ Routed'
<1>1. l \in Lanes /\ PipeTypes /\ TableInv /\ Routed /\ m \in Messages /\ Route(m) = l
  BY DEF TickLane, PipeInv, PipeTypes, Routed
<1>2. channels' \in [TickLane -> Seq(ChannelState)] /\ TableInv'
  BY <1>1, EmitIs
<1>3. /\ UNCHANGED <<lane, table>> /\ held' = [held EXCEPT ![l] = @ \ {m}] /\ Dispatch(l, m)
  BY DEF EmitTick
<1>4. queue \in [Edges -> Seq(Messages)]
  BY <1>1 DEF PipeTypes
<1>5. PICK owner : owner = InstrumentOwner(m)
  OBVIOUS
<1>6. /\ queue' \in [Edges -> Seq(Messages)]
      /\ \A e \in Edges :
           queue'[e] = queue[e] \/ (queue'[e] = Append(queue[e], m) /\ e = <<l[1], l[2], owner>>)
  BY <1>1, <1>3, <1>4, <1>5, DispatchIs
<1>7. PipeTypes'
  BY <1>1, <1>2, <1>3, <1>6 DEF PipeTypes
<1>8. Key(m) % TickLanes = l[2]
  BY <1>1, MessageParts
<1>9. ASSUME NEW e \in Edges, e[1] = "tick", NEW i \in 1..Len(queue'[e])
      PROVE  Key(queue'[e][i]) % TickLanes = e[2]
  <2>1. CASE queue'[e] = queue[e]
    BY <1>1, <1>9, <2>1 DEF Routed
  <2>2. CASE queue'[e] = Append(queue[e], m) /\ e = <<l[1], l[2], owner>>
    <3>1. /\ i \in 1..Len(queue[e]) => queue'[e][i] = queue[e][i]
          /\ i \notin 1..Len(queue[e]) => queue'[e][i] = m
      BY <1>4, <1>9, <2>2
    <3>2. e[2] = l[2]
      BY <2>2
    <3>3. QED
      BY <1>1, <1>8, <1>9, <3>1, <3>2 DEF Routed
  <2>3. QED
    BY <1>6, <2>1, <2>2
<1>10. Routed'
  BY <1>1, <1>3, <1>9 DEF Routed, PipeTypes
<1>11. QED
  BY <1>2, <1>7, <1>10

\* A poll takes a record away.
LEMMA PollPipe ==
  ASSUME PipeInv, NEW edge \in Edges, queue[edge] # <<>>, TryPoll(edge[1], edge[2], edge[3]),
         UNCHANGED <<lane, table, channels, held>>
  PROVE  PipeTypes' /\ TableInv' /\ Routed'
<1>1. PICK s \in Seq(Messages) : s = queue[edge]
  BY DEF PipeInv, PipeTypes
<1>2. /\ Tail(s) \in Seq(Messages)
      /\ \A i \in 1..Len(Tail(s)) : i + 1 \in 1..Len(s) /\ Tail(s)[i] = s[i + 1]
  BY <1>1, Taken
<1>3. queue' = [queue EXCEPT ![edge] = Tail(s)]
  BY <1>1, EdgeParts DEF TryPoll
<1>4. /\ queue' \in [Edges -> Seq(Messages)] /\ queue'[edge] = Tail(s)
      /\ \A e \in Edges : e # edge => queue'[e] = queue[e]
  BY <1>2, <1>3 DEF PipeInv, PipeTypes
<1>5. ASSUME NEW e \in Edges, e[1] = "tick", NEW i \in 1..Len(queue'[e])
      PROVE  Key(queue'[e][i]) % TickLanes = e[2]
  <2>1. \A x \in 1..Len(queue[e]) : Key(queue[e][x]) % TickLanes = e[2]
    BY <1>5 DEF PipeInv, Routed
  <2>2. CASE e = edge
    <3>1. i \in 1..Len(Tail(s)) /\ queue'[e][i] = Tail(s)[i]
      BY <1>4, <1>5, <2>2
    <3>2. i + 1 \in 1..Len(s) /\ queue'[e][i] = s[i + 1]
      BY <1>2, <3>1
    <3>3. QED
      BY <1>1, <2>1, <2>2, <3>2
  <2>3. CASE e # edge
    BY <1>4, <1>5, <2>1, <2>3
  <2>4. QED
    BY <2>2, <2>3
<1>6. QED
  BY <1>4, <1>5 DEF PipeInv, PipeTypes, TableInv, Routed

\* Every step keeps types, tables and routes.
LEMMA StepPipe ==
  ASSUME PipeInv, [Next]_vars
  PROVE  PipeInv'
<1>1. StageInv
  BY DEF PipeInv
<1>2. CASE UNCHANGED <<lane, table, channels, held, queue>>
  BY <1>1, <1>2, StepCases DEF PipeInv, PipeTypes, TableInv, Routed
<1>3. (\E k \in Callers : RejectFatal(k)) => UNCHANGED <<lane, table, channels, held, queue>>
  BY DEF RejectFatal, Callback, lanes
<1>4. QED
  BY <1>1, <1>2, <1>3, StepCases, AdmitPipe, TakeTickPipe, TakeSnapshotPipe, EmitPipe, PollPipe
     DEF PipeInv

\* SequenceRecovery::FindOrCreate: a lane never has two states for one channel, for
\* every number of channels and every hash, however the home cells collide.
THEOREM OneStatePerChannelHolds == Spec => []OneStatePerChannel
<1>1. Init => PipeInv
  BY InitPipe
<1>2. PipeInv /\ [Next]_vars => PipeInv'
  BY StepPipe
<1>3. PipeInv => OneStatePerChannel
  <2> SUFFICES ASSUME PipeInv, NEW l \in TickLane, NEW i \in DOMAIN channels[l],
                      NEW j \in DOMAIN channels[l], channels[l][i].key = channels[l][j].key
               PROVE  i = j
    BY DEF OneStatePerChannel
  <2>1. channels[l] \in Seq(ChannelState) /\ TableOK(channels[l], table[l])
    BY DEF PipeInv, PipeTypes, TableInv
  <2>2. i \in 1..Len(channels[l]) /\ j \in 1..Len(channels[l])
    BY <2>1
  <2>3. QED
    BY <2>1, <2>2 DEF TableOK
<1>4. QED
  BY <1>1, <1>2, <1>3, PTL DEF Spec

-----------------------------------------------------------------------------
(***************************************************************************)
(* The order of the ticks of a channel.                                    *)
(***************************************************************************)

\* A retained tick has a state, which is behind it, and it is the only one with its
\* position.
HeldInv ==
  \A l \in TickLane : \A m \in held[l] :
    /\ \E i \in 1..Len(channels[l]) : channels[l][i].key = Key(m)
    /\ \A i \in 1..Len(channels[l]) : channels[l][i].key = Key(m) =>
         channels[l][i].frontier < m.seq
    /\ \A h \in held[l] : Key(h) = Key(m) /\ h.seq = m.seq => h = m

\* The frontier of a channel has reached a position.
Behind(l, key, n) ==
  \E i \in 1..Len(channels[l]) : channels[l][i].key = key /\ n <= channels[l][i].frontier

\* The states of a lane are channel states.
LEMMA StateOfLane ==
  ASSUME PipeTypes, NEW l \in TickLane, NEW i \in 1..Len(channels[l])
  PROVE  channels[l][i] \in ChannelState /\ channels[l][i].frontier \in Nat
<1>1. PICK states \in Seq(ChannelState) : states = channels[l]
  BY DEF PipeTypes
<1>2. states[i] \in ChannelState
  BY <1>1
<1>3. QED
  BY <1>1, <1>2 DEF ChannelState

\* Nothing is retained when the process starts.
LEMMA InitHeld == ASSUME Init PROVE HeldInv
BY DEF Init, HeldInv

\* A tick that recovery retains is ahead of the frontier and new.
LEMMA TakeTickHeld ==
  ASSUME PipeInv, HeldInv, NEW l \in TickLane, NEW m \in Messages, TakeTick(l, m)
  PROVE  HeldInv' /\ \A j \in TickLane : Kept(j)
<1>1. PipeTypes /\ TableInv /\ Key(m) \in Keys
  BY MessageParts DEF PipeInv
<1>2. \A j \in TickLane : channels[j] \in Seq(ChannelState) /\ Len(channels[j]) \in Nat
  BY <1>1 DEF PipeTypes
<1>3. \A j \in TickLane : \A i \in 1..Len(channels[j]) : channels[j][i].frontier \in Nat
  BY StateOfLane DEF PipeInv
<1>4. CASE UNCHANGED <<table, channels, held>>
  BY <1>3, <1>4 DEF HeldInv, Kept
<1>5. ASSUME NEW found, NEW state,
             FoundOK(l, Key(m), found), Place(l, found, state),
             state \in ChannelState, state.key = Key(m),
             state.frontier = found.states[found.index].frontier,
             Handled(l, m, found, state)
      PROVE  HeldInv' /\ \A j \in TickLane : Kept(j)
  <2>1. /\ \A j \in TickLane : j # l => channels'[j] = channels[j]
        /\ found.index \in 1..Len(channels'[l]) /\ channels'[l][found.index] = state
        /\ \A i \in 1..Len(channels'[l]) : channels'[l][i].key = Key(m) => i = found.index
        /\ \A i \in 1..Len(channels[l]) :
             /\ i \in 1..Len(channels'[l])
             /\ channels[l][i].key = Key(m) =>
                  i = found.index /\ found.states[found.index] = channels[l][i]
             /\ channels[l][i].key # Key(m) => channels'[l][i] = channels[l][i]
        /\ \A i \in 1..Len(channels'[l]) :
             channels'[l][i].key # Key(m) => i \in 1..Len(channels[l])
    BY <1>1, <1>5, PlaceIs
  <2>2. \A j \in TickLane : j # l => Kept(j)
    BY <1>3, <2>1 DEF Kept
  <2>3. Kept(l)
    <3> SUFFICES ASSUME NEW i \in 1..Len(channels[l])
                 PROVE  /\ i \in 1..Len(channels'[l]) /\ channels'[l][i].key = channels[l][i].key
                        /\ channels[l][i].frontier <= channels'[l][i].frontier
      BY DEF Kept
    <3>1. channels[l][i].frontier \in Nat
      BY <1>3
    <3>2. CASE channels[l][i].key = Key(m)
      BY <1>5, <2>1, <3>1, <3>2
    <3>3. CASE channels[l][i].key # Key(m)
      BY <2>1, <3>1, <3>3
    <3>4. QED
      BY <3>2, <3>3
  <2>4. ASSUME NEW h \in held'[l], Key(h) # Key(m)
        PROVE  /\ h \in held[l]
               /\ \E i \in 1..Len(channels'[l]) : channels'[l][i].key = Key(h)
               /\ \A i \in 1..Len(channels'[l]) : channels'[l][i].key = Key(h) =>
                    channels'[l][i].frontier < h.seq
    <3>1. h \in held[l]
      BY <1>1, <1>5, <2>4 DEF Handled, PipeTypes
    <3>2. /\ \E i \in 1..Len(channels[l]) : channels[l][i].key = Key(h)
          /\ \A i \in 1..Len(channels[l]) : channels[l][i].key = Key(h) =>
               channels[l][i].frontier < h.seq
      BY <3>1 DEF HeldInv
    <3>3. \E i \in 1..Len(channels'[l]) : channels'[l][i].key = Key(h)
      BY <2>1, <2>4, <3>2
    <3>4. ASSUME NEW i \in 1..Len(channels'[l]), channels'[l][i].key = Key(h)
          PROVE  channels'[l][i].frontier < h.seq
      <4>1. i \in 1..Len(channels[l])
        BY <2>1, <2>4, <3>4
      <4>2. channels[l][i].key # Key(m)
        BY <1>5, <2>1, <2>4, <3>4, <4>1
      <4>3. channels'[l][i] = channels[l][i]
        BY <2>1, <4>1, <4>2
      <4>4. QED
        BY <3>2, <3>4, <4>1, <4>3
    <3>5. QED
      BY <3>1, <3>3, <3>4
  <2>5. ASSUME NEW h \in held'[l], Key(h) = Key(m)
        PROVE  /\ \E i \in 1..Len(channels'[l]) : channels'[l][i].key = Key(h)
               /\ \A i \in 1..Len(channels'[l]) : channels'[l][i].key = Key(h) =>
                    channels'[l][i].frontier < h.seq
    <3>1. \E i \in 1..Len(channels'[l]) : channels'[l][i].key = Key(h)
      BY <1>5, <2>1, <2>5
    <3>2. state.frontier < h.seq
      <4>1. CASE h \in held[l]
        <5>1. PICK i \in 1..Len(channels[l]) : channels[l][i].key = Key(h)
          BY <4>1 DEF HeldInv
        <5>2. channels[l][i].frontier < h.seq
          BY <4>1, <5>1 DEF HeldInv
        <5>3. state.frontier = channels[l][i].frontier
          BY <1>5, <2>1, <2>5, <5>1
        <5>4. QED
          BY <5>2, <5>3
      <4>2. CASE h = m /\ m.seq > state.frontier
        BY <1>5, <4>2, MessageParts DEF ChannelState
      <4>3. h \in held[l] \/ (h = m /\ m.seq > state.frontier)
        <5>1. CASE held' = held
          BY <2>5, <5>1
        <5>2. CASE held' = [held EXCEPT ![l] = @ \cup {m}] /\ m.seq > state.frontier
          BY <1>1, <2>5, <5>2 DEF PipeTypes
        <5>3. QED
          BY <1>5, <5>1, <5>2 DEF Handled
      <4>4. QED
        BY <4>1, <4>2, <4>3
    <3>3. QED
      BY <2>1, <2>5, <3>1, <3>2
  <2>6. ASSUME NEW h \in held'[l], NEW g \in held'[l], Key(h) = Key(g), h.seq = g.seq
        PROVE  h = g
    <3>1. CASE h \in held[l] /\ g \in held[l]
      BY <2>6, <3>1 DEF HeldInv
    <3>2. CASE /\ held' = [held EXCEPT ![l] = @ \cup {m}]
               /\ \A x \in HeldOf(l, Key(m)) : x.seq # m.seq
      <4>1. (h \in held[l] \/ h = m) /\ (g \in held[l] \/ g = m)
        BY <1>1, <3>2 DEF PipeTypes
      <4>2. QED
        BY <2>6, <3>1, <3>2, <4>1 DEF HeldOf
    <3>3. QED
      BY <1>1, <1>5, <3>1, <3>2 DEF Handled, PipeTypes
  <2>7. \A j \in TickLane : j # l => held'[j] = held[j]
    BY <1>1, <1>5 DEF Handled, PipeTypes
  <2>8. ASSUME NEW j \in TickLane, NEW h \in held'[j]
        PROVE  /\ \E i \in 1..Len(channels'[j]) : channels'[j][i].key = Key(h)
               /\ \A i \in 1..Len(channels'[j]) : channels'[j][i].key = Key(h) =>
                    channels'[j][i].frontier < h.seq
               /\ \A g \in held'[j] : Key(g) = Key(h) /\ g.seq = h.seq => g = h
    <3>1. CASE j = l
      BY <2>4, <2>5, <2>6, <2>8, <3>1
    <3>2. CASE j # l
      BY <2>1, <2>7, <2>8, <3>2 DEF HeldInv
    <3>3. QED
      BY <3>1, <3>2
  <2>9. QED
    BY <2>2, <2>3, <2>8 DEF HeldInv
<1>6. QED
  BY <1>1, <1>4, <1>5, TakeTickParts

\* The smallest retained tick leaves, and the frontier moves up to it if it fits.
LEMMA EmitHeld ==
  ASSUME PipeInv, HeldInv, NEW l \in TickLane, NEW m \in held[l], EmitTick(l, m)
  PROVE  /\ HeldInv' /\ \A j \in TickLane : Kept(j)
         /\ Fits(l, m) => Behind(l, Key(m), m.seq)'
<1>1. PipeTypes /\ TableInv /\ m \in Messages
  BY DEF PipeInv, PipeTypes
<1>2. \A j \in TickLane : channels[j] \in Seq(ChannelState) /\ Len(channels[j]) \in Nat
  BY <1>1 DEF PipeTypes
<1>3. \A j \in TickLane : \A i \in 1..Len(channels[j]) :
        channels[j][i].frontier \in Nat /\ channels[j][i] \in ChannelState
  BY StateOfLane DEF PipeInv
<1>4. /\ \A j \in TickLane : j # l => channels'[j] = channels[j]
      /\ Len(channels'[l]) = Len(channels[l])
      /\ \A i \in 1..Len(channels[l]) :
           /\ channels[l][i].key # Key(m) => channels'[l][i] = channels[l][i]
           /\ channels[l][i].key = Key(m) =>
                channels'[l][i] = [channels[l][i] EXCEPT !.frontier = Reached(l, m)]
  BY <1>1, EmitIs
<1>5. /\ held'[l] = held[l] \ {m} /\ \A j \in TickLane : j # l => held'[j] = held[j]
      /\ \A h \in HeldOf(l, Key(m)) : m.seq <= h.seq
  BY <1>1 DEF EmitTick, PipeTypes
<1>6. ASSUME NEW i \in 1..Len(channels[l])
      PROVE  /\ channels'[l][i].key = channels[l][i].key
             /\ channels'[l][i].frozen = channels[l][i].frozen
             /\ channels[l][i].key = Key(m) => channels'[l][i].frontier = Reached(l, m)
             /\ channels[l][i].frontier <= channels'[l][i].frontier
  <2>1. channels[l][i] \in ChannelState /\ channels[l][i].frontier \in Nat
    BY <1>3
  <2>2. CASE channels[l][i].key = Key(m)
    <3>1. channels[l][i].frontier < m.seq
      BY <2>2 DEF HeldInv
    <3>2. m.seq \in Nat /\ Reached(l, m) \in {m.seq, m.seq - 1}
      BY <1>1, MessageParts DEF Reached
    <3>3. PICK old \in ChannelState : old = channels[l][i]
      BY <2>1
    <3>4. channels'[l][i] = [old EXCEPT !.frontier = Reached(l, m)]
      BY <1>4, <2>2, <3>3
    <3>5. /\ channels'[l][i].key = old.key /\ channels'[l][i].frozen = old.frozen
          /\ channels'[l][i].frontier = Reached(l, m)
      BY <3>4 DEF ChannelState
    <3>6. QED
      BY <2>1, <3>1, <3>2, <3>3, <3>5
  <2>3. CASE channels[l][i].key # Key(m)
    <3>1. channels'[l][i] = channels[l][i]
      BY <1>4, <2>3
    <3>2. QED
      BY <2>1, <2>3, <3>1
  <2>4. QED
    BY <2>2, <2>3
<1>7. \A j \in TickLane : Kept(j)
  BY <1>3, <1>4, <1>6 DEF Kept
<1>8. ASSUME Fits(l, m) PROVE Behind(l, Key(m), m.seq)'
  <2>1. PICK i \in 1..Len(channels[l]) : channels[l][i].key = Key(m)
    BY DEF HeldInv
  <2>2. m.seq <= channels'[l][i].frontier /\ channels'[l][i].key = Key(m)
    BY <1>1, <1>6, <1>8, <2>1, MessageParts DEF Reached
  <2>3. QED
    BY <1>4, <2>2 DEF Behind
<1>9. ASSUME NEW h \in held'[l]
      PROVE  /\ \E i \in 1..Len(channels'[l]) : channels'[l][i].key = Key(h)
             /\ \A i \in 1..Len(channels'[l]) : channels'[l][i].key = Key(h) =>
                  channels'[l][i].frontier < h.seq
             /\ \A g \in held'[l] : Key(g) = Key(h) /\ g.seq = h.seq => g = h
  <2>1. /\ h \in held[l] /\ h # m
        /\ \E i \in 1..Len(channels[l]) : channels[l][i].key = Key(h)
        /\ \A i \in 1..Len(channels[l]) : channels[l][i].key = Key(h) =>
             channels[l][i].frontier < h.seq
        /\ \A g \in held'[l] : Key(g) = Key(h) /\ g.seq = h.seq => g = h
    BY <1>5 DEF HeldInv
  <2>2. CASE Key(h) = Key(m)
    <3>1. m.seq < h.seq
      <4>1. h \in Messages /\ m.seq \in Nat /\ h.seq \in Nat
        BY <1>1, <2>1, MessageParts DEF PipeTypes
      <4>2. m.seq # h.seq
        BY <2>1, <2>2 DEF HeldInv
      <4>3. m.seq <= h.seq
        BY <1>5, <2>1, <2>2 DEF HeldOf
      <4>4. QED
        BY <4>1, <4>2, <4>3
    <3>2. Reached(l, m) < h.seq
      <4>1. h \in Messages /\ m.seq \in Nat /\ h.seq \in Nat
        BY <1>1, <2>1, MessageParts DEF PipeTypes
      <4>2. QED
        BY <3>1, <4>1 DEF Reached
    <3>3. QED
      BY <1>4, <1>6, <2>1, <2>2, <3>2
  <2>3. CASE Key(h) # Key(m)
    BY <1>4, <1>6, <2>1, <2>3
  <2>4. QED
    BY <2>2, <2>3
<1>10. HeldInv'
  BY <1>4, <1>5, <1>9 DEF HeldInv
<1>11. QED
  BY <1>7, <1>8, <1>10

\* The other steps do not touch the retained ticks.
LEMMA StepHeld ==
  ASSUME PipeInv, HeldInv, [Next]_vars
  PROVE  HeldInv' /\ \A l \in TickLane : Kept(l)
<1>1. StageInv /\ PipeTypes
  BY DEF PipeInv
<1>2. \A l \in TickLane : \A i \in 1..Len(channels[l]) : channels[l][i].frontier \in Nat
  BY <1>1, StateOfLane
<1>3. CASE UNCHANGED <<channels, held>>
  BY <1>2, <1>3 DEF HeldInv, Kept
<1>4. ASSUME NEW l \in TickLane, lane[l] # <<>>, TakeTick(l, Head(lane[l]))
      PROVE  HeldInv' /\ \A j \in TickLane : Kept(j)
  <2>1. lane[l] \in Seq(Messages)
    BY <1>1 DEF PipeTypes, TickLane
  <2>2. Head(lane[l]) \in Messages
    BY <1>4, <2>1, Taken
  <2>3. QED
    BY <1>4, <2>2, TakeTickHeld
<1>5. CASE (\E k \in Callers : RejectFatal(k)) \/ \E k \in Callers, m \in Messages : AdmitMdlMessage(k, m)
  BY <1>3, <1>5 DEF AdmitMdlMessage, RejectFatal, lanes
<1>6. CASE \E l \in Lanes \ TickLane : lane[l] # <<>> /\ TakeSnapshot(l, Head(lane[l]))
  BY <1>3, <1>6 DEF TakeSnapshot
<1>7. QED
  BY <1>1, <1>3, <1>4, <1>5, <1>6, EmitHeld, StepCases

\* The ticks that wait for their owner, and those it has got: the frontier of their
\* channel has passed them, the waiting ones ascend, and follow those it has got.
TickEdges == {e \in Edges : e[1] = "tick"}
ReceivedTypes == received \in [OwnerIds -> [Keys -> Seq(Nat)]]
QueuedBehind ==
  \A e \in TickEdges : \A i \in 1..Len(queue[e]) :
    Behind(<<"tick", e[2]>>, Key(queue[e][i]), queue[e][i].seq)
QueuedAscend ==
  \A e \in TickEdges : \A i, j \in 1..Len(queue[e]) :
    i < j /\ Key(queue[e][i]) = Key(queue[e][j]) => queue[e][i].seq < queue[e][j].seq
QueuedAfter ==
  \A e \in TickEdges : \A i \in 1..Len(queue[e]) :
    \A j \in 1..Len(received[e[3]][Key(queue[e][i])]) :
      received[e[3]][Key(queue[e][i])][j] < queue[e][i].seq
ReceivedBehind ==
  \A o \in OwnerIds, key \in Keys : \A i \in 1..Len(received[o][key]) :
    Behind(<<"tick", key % TickLanes>>, key, received[o][key][i])
OrderInv ==
  ReceivedTypes /\ QueuedBehind /\ QueuedAscend /\ QueuedAfter /\ ReceivedBehind /\ NativeOrder

\* Nothing waits and nothing was polled when the process starts.
LEMMA InitOrder == ASSUME Init PROVE OrderInv
<1>1. /\ \A e \in TickEdges : Len(queue[e]) = 0
      /\ \A o \in OwnerIds, key \in Keys : received[o][key] = <<>>
  BY DEF Init, TickEdges
<1>2. ReceivedTypes
  BY DEF Init, ReceivedTypes
<1>3. QueuedBehind /\ QueuedAscend /\ QueuedAfter
  BY <1>1 DEF QueuedBehind, QueuedAscend, QueuedAfter
<1>4. ReceivedBehind /\ NativeOrder
  BY <1>1 DEF ReceivedBehind, NativeOrder
<1>5. QED
  BY <1>2, <1>3, <1>4 DEF OrderInv

\* A frontier that has passed a position has passed it.
LEMMA BehindKept ==
  ASSUME PipeTypes, PipeTypes', NEW l \in TickLane, Kept(l), NEW key, NEW n \in Nat, Behind(l, key, n)
  PROVE  Behind(l, key, n)'
<1>1. PICK i \in 1..Len(channels[l]) : channels[l][i].key = key /\ n <= channels[l][i].frontier
  BY DEF Behind
<1>2. /\ i \in 1..Len(channels'[l]) /\ channels'[l][i].key = key
      /\ channels[l][i].frontier <= channels'[l][i].frontier
  BY <1>1 DEF Kept
<1>3. channels[l][i].frontier \in Nat
  BY StateOfLane
<1>4. channels'[l][i].frontier \in Nat
  <2>1. PICK states \in Seq(ChannelState) : states = channels'[l]
    BY DEF PipeTypes
  <2>2. states[i] \in ChannelState
    BY <1>2, <2>1
  <2>3. QED
    BY <2>1, <2>2 DEF ChannelState
<1>5. QED
  BY <1>1, <1>2, <1>3, <1>4 DEF Behind

\* A queue of ticks belongs to the lane of all its channels.
LEMMA TickEdgeParts ==
  ASSUME PipeInv, NEW e \in TickEdges
  PROVE  /\ e \in Edges /\ e = <<"tick", e[2], e[3]>> /\ e[3] \in OwnerIds
         /\ <<"tick", e[2]>> \in TickLane /\ queue[e] \in Seq(Messages)
         /\ \A i \in 1..Len(queue[e]) :
              /\ queue[e][i] \in Messages /\ queue[e][i].seq \in Nat
              /\ Key(queue[e][i]) \in Keys /\ Key(queue[e][i]) % TickLanes = e[2]
<1>1. e \in Edges /\ e = <<"tick", e[2], e[3]>> /\ e[3] \in OwnerIds
  BY EdgeParts DEF TickEdges
<1>2. e[2] \in 0..(TickLanes - 1)
  BY <1>1, EdgeParts, ApplicationAssumption DEF TickEdges, Producers
<1>3. <<"tick", e[2]>> \in TickLane
  BY <1>2 DEF TickLane, Lanes
<1>4. queue[e] \in Seq(Messages)
  BY <1>1 DEF PipeInv, PipeTypes
<1>5. ASSUME NEW i \in 1..Len(queue[e])
      PROVE  /\ queue[e][i] \in Messages /\ queue[e][i].seq \in Nat
             /\ Key(queue[e][i]) \in Keys /\ Key(queue[e][i]) % TickLanes = e[2]
  <2>1. queue[e][i] \in Messages
    BY <1>4
  <2>2. QED
    BY <1>1, <2>1, MessageParts DEF PipeInv, Routed, TickEdges
<1>6. QED
  BY <1>1, <1>3, <1>4, <1>5

\* A channel has a tick lane.
LEMMA KeyLane ==
  ASSUME NEW key \in Keys
  PROVE  <<"tick", key % TickLanes>> \in TickLane
<1>1. PICK m \in Messages : key = Key(m)
  BY DEF Keys
<1>2. Key(m) % TickLanes \in 0..(TickLanes - 1)
  BY MessageParts
<1>3. QED
  BY <1>1, <1>2 DEF TickLane, Lanes


\* The queues of ticks and what the owners have got stay as they are.
LEMMA SameOrder ==
  ASSUME PipeInv, PipeInv', OrderInv, \A l \in TickLane : Kept(l),
         received' = received, \A e \in TickEdges : queue'[e] = queue[e]
  PROVE  OrderInv'
<1>1. PipeTypes /\ PipeTypes'
  BY DEF PipeInv
<1>2. \A l \in TickLane, key \in Keys, n \in Nat : Behind(l, key, n) => Behind(l, key, n)'
  BY <1>1, BehindKept
<1>3. QueuedBehind'
  <2> SUFFICES ASSUME NEW e \in TickEdges, NEW i \in 1..Len(queue'[e])
               PROVE  Behind(<<"tick", e[2]>>, Key(queue[e][i]), queue[e][i].seq)'
    BY DEF QueuedBehind, TickEdges
  <2>1. PICK q : q = queue[e] /\ queue'[e] = q /\ i \in 1..Len(q)
    OBVIOUS
  <2>2. PICK m : m = q[i]
    OBVIOUS
  <2>3. <<"tick", e[2]>> \in TickLane /\ m.seq \in Nat /\ Key(m) \in Keys
    BY <2>1, <2>2, TickEdgeParts
  <2>4. Behind(<<"tick", e[2]>>, Key(m), m.seq)
    BY <2>1, <2>2 DEF OrderInv, QueuedBehind
  <2>5. PICK key \in Keys, n \in Nat : key = Key(m) /\ n = m.seq
    BY <2>3
  <2>6. Behind(<<"tick", e[2]>>, key, n)'
    BY <1>2, <2>3, <2>4, <2>5
  <2>7. QED
    BY <2>1, <2>2, <2>5, <2>6 DEF Behind
<1>4. QueuedAscend' /\ QueuedAfter'
  BY DEF OrderInv, QueuedAscend, QueuedAfter, TickEdges
<1>5. ReceivedBehind'
  <2> SUFFICES ASSUME NEW o \in OwnerIds, NEW key \in Keys, NEW i \in 1..Len(received[o][key])
               PROVE  Behind(<<"tick", key % TickLanes>>, key, received[o][key][i])'
    BY DEF ReceivedBehind
  <2>1. <<"tick", key % TickLanes>> \in TickLane
    BY KeyLane
  <2>2. PICK n \in Nat : n = received[o][key][i]
    BY DEF OrderInv, ReceivedTypes
  <2>3. Behind(<<"tick", key % TickLanes>>, key, n)
    BY <2>2 DEF OrderInv, ReceivedBehind
  <2>4. Behind(<<"tick", key % TickLanes>>, key, n)'
    BY <1>2, <2>1, <2>3
  <2>5. QED
    BY <2>2, <2>4 DEF Behind
<1>6. ReceivedTypes' /\ NativeOrder'
  BY DEF OrderInv, ReceivedTypes, NativeOrder
<1>7. QED
  BY <1>3, <1>4, <1>5, <1>6 DEF OrderInv

\* A tick that is emitted comes after all of its channel that wait or were polled.
LEMMA EmitOrder ==
  ASSUME PipeInv, PipeInv', HeldInv, OrderInv, NEW l \in TickLane, NEW m \in held[l],
         EmitTick(l, m)
  PROVE  OrderInv'
<1>1. /\ PipeTypes /\ PipeTypes' /\ l \in Lanes /\ m \in Messages /\ Route(m) = l
      /\ queue \in [Edges -> Seq(Messages)]
  BY DEF PipeInv, PipeTypes, Routed, TickLane
<1>2. /\ \A j \in TickLane : Kept(j)
      /\ Fits(l, m) => Behind(l, Key(m), m.seq)'
  BY EmitHeld
<1>3. \A j \in TickLane, key \in Keys, n \in Nat : Behind(j, key, n) => Behind(j, key, n)'
  BY <1>1, <1>2, BehindKept
<1>4. /\ m.seq \in Nat /\ Key(m) \in Keys /\ l = <<"tick", l[2]>> /\ Key(m) % TickLanes = l[2]
      /\ l = <<"tick", Key(m) % TickLanes>>
  BY <1>1, MessageParts
<1>5. received' = received /\ Dispatch(l, m)
  BY DEF EmitTick, Outside, drain
<1>6. PICK owner : owner = InstrumentOwner(m)
  OBVIOUS
<1>7. \A e \in Edges :
        \/ queue'[e] = queue[e]
        \/ queue'[e] = Append(queue[e], m) /\ e = <<l[1], l[2], owner>> /\ Fits(l, m)
  <2>1. ~Fits(l, m) => queue' = queue
    BY <1>5 DEF Fits, Dispatch, PublishOnly, Publish
  <2>2. QED
    BY <1>1, <1>5, <1>6, <2>1, DispatchIs
<1>8. \A n \in Nat : Behind(l, Key(m), n) => n < m.seq
  <2> SUFFICES ASSUME NEW n \in Nat, Behind(l, Key(m), n) PROVE n < m.seq
    OBVIOUS
  <2>1. PICK i \in 1..Len(channels[l]) :
          channels[l][i].key = Key(m) /\ n <= channels[l][i].frontier
    BY DEF Behind
  <2>2. channels[l][i].frontier < m.seq /\ channels[l][i].frontier \in Nat
    BY <1>1, <2>1, StateOfLane DEF HeldInv
  <2>3. QED
    BY <1>4, <2>1, <2>2
<1>9. ASSUME NEW e \in TickEdges
      PROVE  /\ queue[e] \in Seq(Messages) /\ Len(queue[e]) \in Nat
             /\ \A i \in 1..Len(queue[e]) : queue[e][i] \in Messages
             /\ \/ queue'[e] = queue[e]
                \/ /\ Fits(l, m) /\ e[2] = l[2] /\ Len(queue'[e]) = Len(queue[e]) + 1
                   /\ queue'[e][Len(queue[e]) + 1] = m
                   /\ \A i \in 1..Len(queue[e]) : queue'[e][i] = queue[e][i]
  <2>1. e \in Edges /\ queue[e] \in Seq(Messages)
    BY TickEdgeParts
  <2>2. CASE queue'[e] = Append(queue[e], m) /\ e = <<l[1], l[2], owner>> /\ Fits(l, m)
    <3>1. PICK q \in Seq(Messages) : q = queue[e]
      BY <2>1
    <3>2. /\ Len(q) \in Nat /\ Len(Append(q, m)) = Len(q) + 1 /\ Append(q, m)[Len(q) + 1] = m
          /\ \A i \in 1..Len(q) : Append(q, m)[i] = q[i] /\ q[i] \in Messages
      BY <1>1
    <3>3. e[2] = l[2]
      BY <2>2
    <3>4. QED
      BY <2>1, <2>2, <3>1, <3>2, <3>3
  <2>3. QED
    BY <1>7, <2>1, <2>2
<1>10. QueuedBehind'
  <2> SUFFICES ASSUME NEW e \in TickEdges, NEW i \in 1..Len(queue'[e])
               PROVE  Behind(<<"tick", e[2]>>, Key(queue[e][i]), queue[e][i].seq)'
    BY DEF QueuedBehind, TickEdges
  <2>0. PICK key, n : key = Key(queue'[e][i]) /\ n = queue'[e][i].seq
    OBVIOUS
  <2>1. ASSUME i \in 1..Len(queue[e]), queue'[e][i] = queue[e][i]
        PROVE  Behind(<<"tick", e[2]>>, key, n)'
    <3>1. <<"tick", e[2]>> \in TickLane /\ n \in Nat /\ key \in Keys
      BY <2>0, <2>1, TickEdgeParts
    <3>2. Behind(<<"tick", e[2]>>, key, n)
      BY <2>0, <2>1 DEF OrderInv, QueuedBehind
    <3>3. QED
      BY <1>3, <3>1, <3>2
  <2>2. ASSUME queue'[e][i] = m, e[2] = l[2], Fits(l, m)
        PROVE  Behind(<<"tick", e[2]>>, key, n)'
    <3>1. l = <<"tick", e[2]>> /\ key = Key(m) /\ n = m.seq
      BY <1>4, <2>0, <2>2
    <3>2. QED
      BY <1>2, <2>2, <3>1 DEF Behind
  <2>3. Behind(<<"tick", e[2]>>, key, n)'
    BY <1>9, <2>1, <2>2
  <2>4. QED
    BY <2>0, <2>3 DEF Behind
<1>11. QueuedAscend'
  <2> SUFFICES ASSUME NEW e \in TickEdges, NEW i \in 1..Len(queue'[e]), NEW j \in 1..Len(queue'[e]),
                      i < j, Key(queue'[e][i]) = Key(queue'[e][j])
               PROVE  queue'[e][i].seq < queue'[e][j].seq
    BY DEF QueuedAscend, TickEdges
  <2>1. CASE /\ i \in 1..Len(queue[e]) /\ queue'[e][i] = queue[e][i]
             /\ j \in 1..Len(queue[e]) /\ queue'[e][j] = queue[e][j]
    BY <2>1 DEF OrderInv, QueuedAscend
  <2>2. CASE /\ i \in 1..Len(queue[e]) /\ queue'[e][i] = queue[e][i]
             /\ queue'[e][j] = m /\ e[2] = l[2]
    <3>1. queue[e][i].seq \in Nat
      BY <2>2, TickEdgeParts
    <3>2. Behind(l, Key(m), queue[e][i].seq)
      <4>1. Behind(<<"tick", e[2]>>, Key(queue[e][i]), queue[e][i].seq)
        BY <2>2 DEF OrderInv, QueuedBehind
      <4>2. <<"tick", e[2]>> = l /\ Key(queue[e][i]) = Key(m)
        BY <1>4, <2>2
      <4>3. QED
        BY <4>1, <4>2
    <3>3. QED
      BY <1>8, <2>2, <3>1, <3>2
  <2>3. QED
    BY <1>9, <2>1, <2>2
<1>12. QueuedAfter'
  <2> SUFFICES ASSUME NEW e \in TickEdges, NEW i \in 1..Len(queue'[e]),
                      NEW j \in 1..Len(received[e[3]][Key(queue'[e][i])])
               PROVE  received[e[3]][Key(queue'[e][i])][j] < queue'[e][i].seq
    BY <1>5 DEF QueuedAfter, TickEdges
  <2>1. CASE i \in 1..Len(queue[e]) /\ queue'[e][i] = queue[e][i]
    BY <2>1 DEF OrderInv, QueuedAfter
  <2>2. CASE queue'[e][i] = m
    <3>1. e[3] \in OwnerIds
      BY TickEdgeParts
    <3>2. PICK n \in Nat : n = received[e[3]][Key(m)][j]
      BY <1>4, <2>2, <3>1 DEF OrderInv, ReceivedTypes
    <3>3. Behind(<<"tick", Key(m) % TickLanes>>, Key(m), n)
      BY <1>4, <2>2, <3>1, <3>2 DEF OrderInv, ReceivedBehind
    <3>4. QED
      BY <1>4, <1>8, <2>2, <3>2, <3>3
  <2>3. QED
    BY <1>9, <2>1, <2>2
<1>13. ReceivedBehind'
  <2> SUFFICES ASSUME NEW o \in OwnerIds, NEW key \in Keys, NEW i \in 1..Len(received[o][key])
               PROVE  Behind(<<"tick", key % TickLanes>>, key, received[o][key][i])'
    BY <1>5 DEF ReceivedBehind
  <2>1. <<"tick", key % TickLanes>> \in TickLane
    BY KeyLane
  <2>2. PICK n \in Nat : n = received[o][key][i]
    BY DEF OrderInv, ReceivedTypes
  <2>3. Behind(<<"tick", key % TickLanes>>, key, n)
    BY <2>2 DEF OrderInv, ReceivedBehind
  <2>4. Behind(<<"tick", key % TickLanes>>, key, n)'
    BY <1>3, <2>1, <2>3
  <2>5. QED
    BY <1>5, <2>2, <2>4 DEF Behind
<1>14. ReceivedTypes' /\ NativeOrder'
  BY <1>5 DEF OrderInv, ReceivedTypes, NativeOrder
<1>15. QED
  BY <1>10, <1>11, <1>12, <1>13, <1>14 DEF OrderInv

\* A tick that is polled comes after all that its owner has got, and before all of
\* its channel that wait: these are in the same queue.
LEMMA PollOrder ==
  ASSUME PipeInv, PipeInv', OrderInv, NEW edge \in TickEdges, queue[edge] # <<>>,
         TryPoll(edge[1], edge[2], edge[3]), UNCHANGED <<lane, table, channels, held>>
  PROVE  OrderInv'
<1>1. PICK o \in OwnerIds : o = edge[3]
  BY TickEdgeParts
<1>2. edge \in Edges /\ edge = <<"tick", edge[2], o>> /\ edge[1] = "tick"
  BY <1>1, TickEdgeParts DEF TickEdges
<1>3. PICK s \in Seq(Messages) : s = queue[edge]
  BY TickEdgeParts
<1>4. PICK m \in Messages : m = Head(s) /\ m = s[1] /\ 1 \in 1..Len(s)
  BY <1>3, Taken
<1>5. PICK key \in Keys : key = Key(m)
  BY MessageParts
<1>6. PICK n \in Nat : n = m.seq
  BY MessageParts
<1>7. key % TickLanes = edge[2]
  BY <1>3, <1>4, <1>5, TickEdgeParts
<1>8. PICK r \in Seq(Nat) : r = received[o][key]
  BY DEF OrderInv, ReceivedTypes
<1>9. /\ queue' = [queue EXCEPT ![edge] = Tail(s)]
      /\ received' = [received EXCEPT ![o][key] = Append(r, n)]
  <2>1. /\ queue' = [queue EXCEPT ![<<edge[1], edge[2], edge[3]>>] = Tail(@)]
        /\ received' = [received EXCEPT ![edge[3]][Key(Head(queue[<<edge[1], edge[2], edge[3]>>]))] =
                          Append(@, Head(queue[<<edge[1], edge[2], edge[3]>>]).seq)]
    BY <1>2 DEF TryPoll
  <2>2. <<edge[1], edge[2], edge[3]>> = edge
    BY <1>1, <1>2
  <2>3. queue' = [queue EXCEPT ![edge] = Tail(s)]
    BY <1>3, <2>1, <2>2
  <2>4. received' = [received EXCEPT ![o][key] = Append(@, n)]
    BY <1>1, <1>3, <1>4, <1>5, <1>6, <2>1, <2>2
  <2>5. QED
    BY <1>8, <2>3, <2>4
<1>10. /\ queue'[edge] = Tail(s) /\ \A e \in Edges : e # edge => queue'[e] = queue[e]
  BY <1>2, <1>9 DEF PipeInv, PipeTypes
<1>11. /\ Len(s) \in Nat /\ Len(Tail(s)) = Len(s) - 1
       /\ \A i \in 1..Len(Tail(s)) : i + 1 \in 1..Len(s) /\ Tail(s)[i] = s[i + 1]
  BY <1>3, Taken
<1>12. /\ Append(r, n) \in Seq(Nat) /\ Len(r) \in Nat /\ Len(Append(r, n)) = Len(r) + 1
       /\ Append(r, n)[Len(r) + 1] = n
       /\ \A i \in 1..Len(r) : Append(r, n)[i] = r[i] /\ r[i] \in Nat
  OBVIOUS
<1>13. /\ received'[o][key] = Append(r, n)
       /\ \A p \in OwnerIds, k \in Keys : ~(p = o /\ k = key) => received'[p][k] = received[p][k]
       /\ ReceivedTypes'
  BY <1>9, <1>12 DEF OrderInv, ReceivedTypes
<1>14. \A e \in TickEdges : \A i \in 1..Len(queue'[e]) :
         \E j \in 1..Len(queue[e]) :
           queue'[e][i] = queue[e][j] /\ (IF e = edge THEN j = i + 1 ELSE j = i)
  BY <1>3, <1>10, <1>11 DEF TickEdges
<1>15. \A i \in 1..Len(r) : r[i] < n
  <2>1. \A i \in 1..Len(received[o][key]) : received[o][key][i] < m.seq
    BY <1>1, <1>3, <1>4, <1>5 DEF OrderInv, QueuedAfter
  <2>2. QED
    BY <1>6, <1>8, <2>1
<1>16. QueuedBehind'
  <2> SUFFICES ASSUME NEW e \in TickEdges, NEW i \in 1..Len(queue'[e])
               PROVE  Behind(<<"tick", e[2]>>, Key(queue[e][i]), queue[e][i].seq)'
    BY DEF QueuedBehind, TickEdges
  <2>1. PICK j \in 1..Len(queue[e]) : queue'[e][i] = queue[e][j]
    BY <1>14
  <2>2. Behind(<<"tick", e[2]>>, Key(queue[e][j]), queue[e][j].seq)
    BY DEF OrderInv, QueuedBehind
  <2>3. QED
    BY <2>1, <2>2 DEF Behind
<1>17. QueuedAscend'
  <2> SUFFICES ASSUME NEW e \in TickEdges, NEW i \in 1..Len(queue'[e]), NEW j \in 1..Len(queue'[e]),
                      i < j, Key(queue'[e][i]) = Key(queue'[e][j])
               PROVE  queue'[e][i].seq < queue'[e][j].seq
    BY DEF QueuedAscend, TickEdges
  <2>1. PICK x \in 1..Len(queue[e]) :
          queue'[e][i] = queue[e][x] /\ (IF e = edge THEN x = i + 1 ELSE x = i)
    BY <1>14
  <2>2. PICK y \in 1..Len(queue[e]) :
          queue'[e][j] = queue[e][y] /\ (IF e = edge THEN y = j + 1 ELSE y = j)
    BY <1>14
  <2>3. x < y
    BY <2>1, <2>2
  <2>4. QED
    BY <2>1, <2>2, <2>3 DEF OrderInv, QueuedAscend
<1>18. QueuedAfter'
  <2> SUFFICES ASSUME NEW e \in TickEdges, NEW i \in 1..Len(queue'[e]),
                      NEW j \in 1..Len(received'[e[3]][Key(queue'[e][i])])
               PROVE  received'[e[3]][Key(queue'[e][i])][j] < queue'[e][i].seq
    BY DEF QueuedAfter, TickEdges
  <2>1. PICK x \in 1..Len(queue[e]) :
          queue'[e][i] = queue[e][x] /\ (IF e = edge THEN x = i + 1 ELSE x = i)
    BY <1>14
  <2>2. PICK h \in Messages : h = queue[e][x]
    BY TickEdgeParts
  <2>3. /\ e = <<"tick", e[2], e[3]>> /\ e[3] \in OwnerIds /\ Key(h) \in Keys
        /\ Key(h) % TickLanes = e[2]
    BY <2>2, TickEdgeParts
  <2>4. \A y \in 1..Len(received[e[3]][Key(h)]) : received[e[3]][Key(h)][y] < h.seq
    BY <2>2 DEF OrderInv, QueuedAfter
  <2>5. CASE e[3] = o /\ Key(h) = key
    <3>1. e = edge
      BY <1>2, <1>7, <2>3, <2>5
    <3>2. n < h.seq
      <4>1. 1 < x /\ 1 \in 1..Len(queue[edge]) /\ Key(queue[edge][1]) = Key(queue[edge][x])
        BY <1>3, <1>4, <1>5, <2>1, <2>2, <2>5, <3>1
      <4>2. QED
        BY <1>3, <1>4, <1>6, <2>2, <3>1, <4>1 DEF OrderInv, QueuedAscend
    <3>3. j \in 1..Len(Append(r, n)) /\ received'[e[3]][Key(h)] = Append(r, n)
      BY <1>13, <2>1, <2>2, <2>5
    <3>4. Append(r, n)[j] < h.seq
      <4>1. CASE j \in 1..Len(r)
        BY <1>8, <1>12, <2>4, <2>5, <4>1
      <4>2. CASE j \notin 1..Len(r)
        <5>1. Append(r, n)[j] = n
          BY <1>8, <1>12, <3>3, <4>2
        <5>2. QED
          BY <3>2, <5>1
      <4>3. QED
        BY <4>1, <4>2
    <3>5. QED
      BY <2>1, <2>2, <3>3, <3>4
  <2>6. CASE ~(e[3] = o /\ Key(h) = key)
    <3>1. received'[e[3]][Key(h)] = received[e[3]][Key(h)]
      BY <1>13, <2>3, <2>6
    <3>2. QED
      BY <2>1, <2>2, <2>4, <3>1
  <2>7. QED
    BY <2>5, <2>6
<1>19. ReceivedBehind'
  <2> SUFFICES ASSUME NEW p \in OwnerIds, NEW k \in Keys, NEW i \in 1..Len(received'[p][k])
               PROVE  Behind(<<"tick", k % TickLanes>>, k, received[p][k][i])'
    BY DEF ReceivedBehind
  <2>1. CASE i \in 1..Len(received[p][k]) /\ received'[p][k][i] = received[p][k][i]
    <3>1. Behind(<<"tick", k % TickLanes>>, k, received[p][k][i])
      BY <2>1 DEF OrderInv, ReceivedBehind
    <3>2. QED
      BY <2>1, <3>1 DEF Behind
  <2>2. CASE received'[p][k][i] = n /\ k = key
    <3>1. Behind(<<"tick", edge[2]>>, Key(queue[edge][1]), queue[edge][1].seq)
      BY <1>3, <1>4 DEF OrderInv, QueuedBehind
    <3>2. Behind(<<"tick", k % TickLanes>>, k, n)
      BY <1>3, <1>4, <1>5, <1>6, <1>7, <2>2, <3>1
    <3>3. QED
      BY <2>2, <3>2 DEF Behind
  <2>3. CASE p = o /\ k = key
    <3>1. received'[p][k] = Append(r, n) /\ received[p][k] = r
      BY <1>8, <1>13, <2>3
    <3>2. i \in 1..(Len(r) + 1)
      BY <1>12, <3>1
    <3>3. CASE i \in 1..Len(r)
      BY <1>12, <2>1, <3>1, <3>3
    <3>4. CASE i = Len(r) + 1
      BY <1>12, <2>2, <2>3, <3>1, <3>4
    <3>5. i \in 1..Len(r) \/ i = Len(r) + 1
      BY <1>12, <3>2
    <3>6. QED
      BY <3>3, <3>4, <3>5
  <2>4. CASE ~(p = o /\ k = key)
    <3>1. received'[p][k] = received[p][k]
      BY <1>13, <2>4
    <3>2. QED
      BY <2>1, <3>1
  <2>5. QED
    BY <2>3, <2>4
<1>20. NativeOrder'
  <2> SUFFICES ASSUME NEW p \in OwnerIds, NEW k \in Keys, NEW i \in DOMAIN received'[p][k],
                      NEW j \in DOMAIN received'[p][k], i < j
               PROVE  received'[p][k][i] < received'[p][k][j]
    BY DEF NativeOrder
  <2>1. CASE p = o /\ k = key
    <3>1. i \in 1..Len(r) + 1 /\ j \in 1..Len(r) + 1
      BY <1>12, <1>13, <2>1
    <3>2. \A x, y \in 1..Len(r) : x < y => r[x] < r[y]
      BY <1>8 DEF OrderInv, NativeOrder
    <3>3. Append(r, n)[i] < Append(r, n)[j]
      BY <1>12, <1>15, <3>1, <3>2
    <3>4. QED
      BY <1>13, <2>1, <3>3
  <2>2. CASE ~(p = o /\ k = key)
    BY <1>13, <2>2 DEF OrderInv, NativeOrder
  <2>3. QED
    BY <2>1, <2>2
<1>21. QED
  BY <1>13, <1>16, <1>17, <1>18, <1>19, <1>20 DEF OrderInv

\* Every step keeps the order.
LEMMA StepOrder ==
  ASSUME PipeInv, PipeInv', HeldInv, OrderInv, [Next]_vars
  PROVE  OrderInv'
<1>1. StageInv /\ PipeTypes /\ TableInv /\ \A l \in TickLane : Kept(l)
  BY StepHeld DEF PipeInv
<1>2. CASE received' = received /\ \A e \in TickEdges : queue'[e] = queue[e]
  BY <1>1, <1>2, SameOrder
<1>3. CASE UNCHANGED <<lane, table, channels, held, queue, received>>
  BY <1>2, <1>3
<1>4. CASE (\E k \in Callers : RejectFatal(k)) \/ \E k \in Callers, m \in Messages : AdmitMdlMessage(k, m)
  BY <1>2, <1>4 DEF AdmitMdlMessage, RejectFatal, Callback, drain
<1>5. ASSUME NEW l \in TickLane, lane[l] # <<>>, TakeTick(l, Head(lane[l]))
      PROVE  OrderInv'
  <2>1. lane[l] \in Seq(Messages)
    BY <1>1 DEF PipeTypes, TickLane
  <2>2. Head(lane[l]) \in Messages
    BY <1>5, <2>1, Taken
  <2>3. \A e \in TickEdges : queue'[e] = queue[e]
    BY <1>1, <1>5, <2>2, TakeTickParts DEF TickEdges
  <2>4. received' = received
    BY <1>5 DEF TakeTick, Consume, Outside, drain
  <2>5. QED
    BY <1>2, <2>3, <2>4
<1>6. ASSUME NEW l \in Lanes \ TickLane, lane[l] # <<>>, TakeSnapshot(l, Head(lane[l]))
      PROVE  OrderInv'
  <2>1. received' = received
    BY <1>6 DEF TakeSnapshot, Consume, Outside, drain
  <2>2. QED
    BY <1>2, <1>6, <2>1, TakeSnapshotPipe DEF TickEdges
<1>7. ASSUME NEW edge \in Edges, queue[edge] # <<>>, TryPoll(edge[1], edge[2], edge[3]),
             UNCHANGED <<lane, table, channels, held>>
      PROVE  OrderInv'
  <2>1. CASE edge \in TickEdges
    BY <1>7, <2>1, PollOrder
  <2>2. CASE edge \notin TickEdges
    <3>1. edge[1] # "tick" /\ edge = <<edge[1], edge[2], edge[3]>>
      BY <2>2, EdgeParts DEF TickEdges
    <3>2. received' = received /\ queue' = [queue EXCEPT ![edge] = Tail(@)]
      BY <1>7, <3>1 DEF TryPoll
    <3>3. \A e \in TickEdges : queue'[e] = queue[e]
      BY <1>1, <2>2, <3>2 DEF TickEdges, PipeTypes
    <3>4. QED
      BY <1>2, <3>2, <3>3
  <2>3. QED
    BY <2>1, <2>2
<1>8. QED
  BY <1>1, <1>3, <1>4, <1>5, <1>6, <1>7, EmitOrder, StepCases

\* From the SDK's threads to the owner: whatever the number of lanes, owners and
\* channels, an owner gets the ticks of a channel in strictly ascending order.
THEOREM NativeOrderHolds == Spec => []NativeOrder
<1>1. Init => PipeInv /\ HeldInv /\ OrderInv
  BY InitPipe, InitHeld, InitOrder
<1>2. PipeInv /\ HeldInv /\ OrderInv /\ [Next]_vars => (PipeInv /\ HeldInv /\ OrderInv)'
  BY StepPipe, StepHeld, StepOrder
<1>3. OrderInv => NativeOrder
  BY DEF OrderInv
<1>4. QED
  BY <1>1, <1>2, <1>3, PTL DEF Spec

-----------------------------------------------------------------------------
(***************************************************************************)
(* What becomes of a message that was accepted.                            *)
(***************************************************************************)

\* The places that are taken in the queues of a set.
Items(S, q) == {x \in S \X Nat : x[2] \in 1..Len(q[x[1]])}

\* A message that joins a queue takes one more place.
LEMMA ItemAdded ==
  ASSUME NEW S, NEW q, NEW r, NEW e \in S, \A f \in S : f # e => r[f] = q[f],
         Len(q[e]) \in Nat, Len(r[e]) = Len(q[e]) + 1, IsFiniteSet(Items(S, q))
  PROVE  IsFiniteSet(Items(S, r)) /\ Cardinality(Items(S, r)) = Cardinality(Items(S, q)) + 1
<1>1. PICK n \in Nat : n = Len(q[e])
  OBVIOUS
<1>2. Len(r[e]) = n + 1 /\ \A f \in S : f # e => r[f] = q[f]
  BY <1>1
<1>3. <<e, n + 1>> \notin Items(S, q)
  BY <1>1 DEF Items
<1>4. Items(S, r) = Items(S, q) \cup {<<e, n + 1>>}
  <2>1. ASSUME NEW x \in S \X Nat
        PROVE  x \in Items(S, r) <=> x \in Items(S, q) \/ x = <<e, n + 1>>
    <3>1. PICK f \in S, i \in Nat : x = <<f, i>>
      BY <2>1
    <3>2. (x \in Items(S, r) <=> i \in 1..Len(r[f])) /\ (x \in Items(S, q) <=> i \in 1..Len(q[f]))
      BY <3>1 DEF Items
    <3>3. CASE f = e
      BY <1>1, <1>2, <3>1, <3>2, <3>3
    <3>4. CASE f # e
      BY <1>2, <3>1, <3>2, <3>4
    <3>5. QED
      BY <3>3, <3>4
  <2>2. /\ \A x \in Items(S, r) : x \in S \X Nat
        /\ \A x \in Items(S, q) \cup {<<e, n + 1>>} : x \in S \X Nat
    BY DEF Items
  <2>3. QED
    BY <2>1, <2>2
<1>5. PICK A : A = Items(S, q)
  OBVIOUS
<1>6. IsFiniteSet(A \cup {<<e, n + 1>>})
      /\ Cardinality(A \cup {<<e, n + 1>>}) =
           IF <<e, n + 1>> \in A THEN Cardinality(A) ELSE Cardinality(A) + 1
  BY <1>5, FS_AddElement
<1>7. QED
  BY <1>3, <1>4, <1>5, <1>6

\* A message that leaves a queue frees one.
LEMMA ItemRemoved ==
  ASSUME NEW S, NEW q, NEW r, NEW e \in S, \A f \in S : f # e => r[f] = q[f],
         Len(r[e]) \in Nat, Len(q[e]) = Len(r[e]) + 1, IsFiniteSet(Items(S, q))
  PROVE  IsFiniteSet(Items(S, r)) /\ Cardinality(Items(S, q)) = Cardinality(Items(S, r)) + 1
<1>1. PICK n \in Nat : n = Len(q[e])
  OBVIOUS
<1>2. n # 0 /\ Len(r[e]) = n - 1 /\ \A f \in S : f # e => r[f] = q[f]
  BY <1>1
<1>3. <<e, n>> \in Items(S, q)
  BY <1>1, <1>2 DEF Items
<1>4. Items(S, r) = Items(S, q) \ {<<e, n>>}
  <2>1. ASSUME NEW x \in S \X Nat
        PROVE  x \in Items(S, r) <=> x \in Items(S, q) /\ x # <<e, n>>
    <3>1. PICK f \in S, i \in Nat : x = <<f, i>>
      BY <2>1
    <3>2. (x \in Items(S, r) <=> i \in 1..Len(r[f])) /\ (x \in Items(S, q) <=> i \in 1..Len(q[f]))
      BY <3>1 DEF Items
    <3>3. CASE f = e
      BY <1>1, <1>2, <3>1, <3>2, <3>3
    <3>4. CASE f # e
      BY <1>2, <3>1, <3>2, <3>4
    <3>5. QED
      BY <3>3, <3>4
  <2>2. \A x : x \in Items(S, r) \/ x \in Items(S, q) => x \in S \X Nat
    BY DEF Items
  <2>3. QED
    BY <2>1, <2>2
<1>5. PICK A : A = Items(S, q)
  OBVIOUS
<1>6. /\ IsFiniteSet(A \ {<<e, n>>})
      /\ Cardinality(A \ {<<e, n>>}) = IF <<e, n>> \in A THEN Cardinality(A) - 1 ELSE Cardinality(A)
  BY <1>5, FS_RemoveElement
<1>7. Cardinality(A) \in Nat
  BY <1>5, FS_CardinalityType
<1>8. IsFiniteSet(Items(S, r)) /\ Cardinality(Items(S, r)) = Cardinality(Items(S, q)) - 1
  BY <1>3, <1>4, <1>5, <1>6, Zenon
<1>9. QED
  BY <1>5, <1>7, <1>8

\* The queues of another set keep theirs.
LEMMA ItemsKept ==
  ASSUME NEW S, NEW q, NEW r, \A e \in S : r[e] = q[e]
  PROVE  Items(S, r) = Items(S, q)
<1>1. \A x \in S \X Nat : x[1] \in S
  OBVIOUS
<1>2. QED
  BY <1>1 DEF Items

\* Without a taken place the queues are empty.
LEMMA NoItems ==
  ASSUME NEW S, NEW q, \A e \in S : q[e] \in Seq(Messages)
  PROVE  Items(S, q) = {} <=> \A e \in S : q[e] = <<>>
<1>1. ASSUME Items(S, q) = {}, NEW e \in S PROVE q[e] = <<>>
  <2>1. <<e, 1>> \notin Items(S, q)
    BY <1>1
  <2>2. ~(1 \in 1..Len(q[e]))
    BY <2>1 DEF Items
  <2>3. q[e] \in Seq(Messages)
    OBVIOUS
  <2>4. QED
    BY <2>2, <2>3
<1>2. ASSUME \A e \in S : q[e] = <<>> PROVE Items(S, q) = {}
  <2>1. \A x \in S \X Nat : q[x[1]] = <<>>
    BY <1>2
  <2>2. QED
    BY <2>1 DEF Items
<1>3. QED
  BY <1>1, <1>2

\* The queues of a kind of record.
Of(kind) == {e \in Edges : e[1] = kind}

\* Dispatched and not consumed is what is in the queues.
PolledInv ==
  /\ dispatched \in [Kinds -> Nat] /\ consumed \in [Kinds -> Nat]
  /\ \A kind \in Kinds :
       /\ IsFiniteSet(Items(Of(kind), queue))
       /\ dispatched[kind] = consumed[kind] + Cardinality(Items(Of(kind), queue))

\* The messages a lane is done with; a loss is fatal.
Settled == Total(dispatched) + set_aside + lost
SettledInv == PolledInv /\ set_aside \in Nat /\ lost \in Nat /\ (lost > 0 => ~healthy)

\* An accepted message is in its lane, or retained, or settled.
AcceptedInv ==
  /\ admitted \in Nat
  /\ IsFiniteSet(Items(Lanes, lane)) /\ IsFiniteSet(Retained)
  /\ admitted = Cardinality(Items(Lanes, lane)) + Cardinality(Retained) + Settled

\* The total over the kinds grows with each.
LEMMA TotalCounts ==
  ASSUME NEW f \in [Kinds -> Nat]
  PROVE  /\ Total(f) \in Nat
         /\ \A kind \in Kinds : Total([f EXCEPT ![kind] = f[kind] + 1]) = Total(f) + 1
<1>1. f["tick"] \in Nat /\ f["snapshot"] \in Nat /\ f["late"] \in Nat /\ f["fault"] \in Nat
  BY DEF Kinds
<1>2. ASSUME NEW kind \in Kinds
      PROVE  Total([f EXCEPT ![kind] = f[kind] + 1]) = Total(f) + 1
  <2>1. PICK g : g = [f EXCEPT ![kind] = f[kind] + 1]
    OBVIOUS
  <2>2. g[kind] = f[kind] + 1 /\ \A k \in Kinds : k # kind => g[k] = f[k]
    BY <2>1
  <2>3. CASE kind = "tick"
    BY <1>1, <2>1, <2>2, <2>3 DEF Total, Kinds
  <2>4. CASE kind = "snapshot"
    BY <1>1, <2>1, <2>2, <2>4 DEF Total, Kinds
  <2>5. CASE kind = "late"
    BY <1>1, <2>1, <2>2, <2>5 DEF Total, Kinds
  <2>6. CASE kind = "fault"
    BY <1>1, <2>1, <2>2, <2>6 DEF Total, Kinds
  <2>7. QED
    BY <2>3, <2>4, <2>5, <2>6 DEF Kinds
<1>3. QED
  BY <1>1, <1>2 DEF Total

\* No message has been accepted when the process starts.
LEMMA InitAccount == ASSUME Init PROVE SettledInv /\ AcceptedInv
<1>1. /\ \A kind \in Kinds : dispatched[kind] = 0 /\ consumed[kind] = 0
      /\ dispatched \in [Kinds -> Nat] /\ consumed \in [Kinds -> Nat]
      /\ set_aside = 0 /\ lost = 0 /\ admitted = 0 /\ Total(dispatched) = 0
  BY DEF Init, Total, Kinds
<1>2. /\ \A e \in Edges : queue[e] = <<>>
      /\ \A l \in Lanes : lane[l] = <<>>
      /\ queue \in [Edges -> Seq(Messages)] /\ lane \in [Lanes -> Seq(Messages)]
  BY InitPipe DEF Init, PipeInv, PipeTypes
<1>3. ASSUME NEW kind \in Kinds PROVE Items(Of(kind), queue) = {}
  <2>1. \A e \in Of(kind) : queue[e] \in Seq(Messages) /\ queue[e] = <<>>
    BY <1>2 DEF Of
  <2>2. QED
    BY <1>2, <2>1, NoItems
<1>4. Items(Lanes, lane) = {}
  BY <1>2, NoItems
<1>5. Retained = {}
  BY DEF Init, Retained
<1>6. IsFiniteSet({}) /\ Cardinality({}) = 0
  BY FS_EmptySet
<1>7. SettledInv
  <2>1. ASSUME NEW kind \in Kinds
        PROVE  /\ IsFiniteSet(Items(Of(kind), queue))
               /\ dispatched[kind] = consumed[kind] + Cardinality(Items(Of(kind), queue))
    <3>1. IsFiniteSet(Items(Of(kind), queue)) /\ Cardinality(Items(Of(kind), queue)) = 0
      BY <1>3, <1>6
    <3>2. QED
      BY <1>1, <3>1
  <2>2. QED
    BY <1>1, <2>1 DEF SettledInv, PolledInv
<1>8. AcceptedInv
  BY <1>1, <1>4, <1>5, <1>6 DEF AcceptedInv, Settled
<1>9. QED
  BY <1>7, <1>8

\* The settled messages are a number.
LEMMA SettledNat == ASSUME SettledInv PROVE Settled \in Nat /\ Total(dispatched) \in Nat
<1>1. Total(dispatched) \in Nat
  BY TotalCounts DEF SettledInv, PolledInv
<1>2. QED
  BY <1>1 DEF SettledInv, Settled

\* A publication settles a message: it is in a queue and counted, or lost.
LEMMA PublishSettles ==
  ASSUME PipeTypes, SettledInv, NEW edge \in Edges, NEW m \in Messages, PublishOnly(edge, m),
         consumed' = consumed
  PROVE  SettledInv' /\ Settled' = Settled + 1
<1>1. /\ dispatched \in [Kinds -> Nat] /\ consumed \in [Kinds -> Nat] /\ lost \in Nat
      /\ set_aside \in Nat /\ set_aside' = set_aside /\ edge[1] \in Kinds
      /\ Total(dispatched) \in Nat
  BY SettledNat, EdgeParts DEF SettledInv, PolledInv, PublishOnly
<1>2. CASE /\ queue' = [queue EXCEPT ![edge] = Append(@, m)]
           /\ dispatched' = [dispatched EXCEPT ![edge[1]] = @ + 1]
           /\ UNCHANGED <<healthy, lost>>
  <2>1. dispatched' \in [Kinds -> Nat] /\ Total(dispatched') = Total(dispatched) + 1
    <3>1. PICK k \in Kinds : k = edge[1]
      BY <1>1
    <3>2. dispatched' = [dispatched EXCEPT ![k] = dispatched[k] + 1]
      BY <1>2, <3>1
    <3>3. dispatched' \in [Kinds -> Nat]
      BY <1>1, <3>2
    <3>4. QED
      BY <1>1, <3>2, <3>3, TotalCounts
  <2>2. queue \in [Edges -> Seq(Messages)]
    BY DEF PipeTypes
  <2>3. ASSUME NEW kind \in Kinds
        PROVE  /\ IsFiniteSet(Items(Of(kind), queue'))
               /\ dispatched'[kind] = consumed[kind] + Cardinality(Items(Of(kind), queue'))
    <3>1. /\ IsFiniteSet(Items(Of(kind), queue))
          /\ dispatched[kind] = consumed[kind] + Cardinality(Items(Of(kind), queue))
          /\ consumed[kind] \in Nat /\ Cardinality(Items(Of(kind), queue)) \in Nat
      BY FS_CardinalityType DEF SettledInv, PolledInv
    <3>2. Of(kind) \in SUBSET Edges
      BY DEF Of
    <3>3. CASE edge \in Of(kind)
      <4>1. /\ IsFiniteSet(Items(Of(kind), queue'))
            /\ Cardinality(Items(Of(kind), queue')) = Cardinality(Items(Of(kind), queue)) + 1
        <5>1. PICK S : S = Of(kind)
          OBVIOUS
        <5>2. PICK r : r = queue'
          OBVIOUS
        <5>3. PICK q : q = queue
          OBVIOUS
        <5>4. /\ edge \in S /\ IsFiniteSet(Items(S, q)) /\ \A f \in S : f # edge => r[f] = q[f]
              /\ Len(q[edge]) \in Nat /\ Len(r[edge]) = Len(q[edge]) + 1
          BY <1>2, <2>2, <3>1, <3>2, <3>3, <5>1, <5>2, <5>3
        <5>5. IsFiniteSet(Items(S, r)) /\ Cardinality(Items(S, r)) = Cardinality(Items(S, q)) + 1
          BY <5>4, ItemAdded
        <5>6. QED
          BY <5>1, <5>2, <5>3, <5>5
      <4>2. dispatched'[kind] = dispatched[kind] + 1
        BY <1>1, <1>2, <3>3 DEF Of
      <4>3. QED
        BY <3>1, <4>1, <4>2
    <3>4. CASE edge \notin Of(kind)
      <4>1. \A e \in Of(kind) : queue'[e] = queue[e]
        BY <1>2, <2>2, <3>2, <3>4
      <4>2. Items(Of(kind), queue') = Items(Of(kind), queue)
        BY <4>1, ItemsKept
      <4>3. dispatched'[kind] = dispatched[kind]
        BY <1>1, <1>2, <3>4 DEF Of
      <4>4. QED
        BY <3>1, <4>2, <4>3
    <3>5. QED
      BY <3>3, <3>4
  <2>4. PolledInv'
    BY <1>1, <2>1, <2>3 DEF PolledInv, Of
  <2>5. QED
    BY <1>1, <1>2, <2>1, <2>4 DEF SettledInv, Settled
<1>3. CASE healthy' = FALSE /\ lost' = lost + 1 /\ UNCHANGED <<queue, dispatched>>
  <2>1. PolledInv'
    BY <1>3 DEF SettledInv, PolledInv, Of
  <2>2. Settled' = Settled + 1
    BY <1>1, <1>3 DEF Settled
  <2>3. QED
    BY <1>1, <1>3, <2>1, <2>2 DEF SettledInv
<1>4. QED
  BY <1>2, <1>3 DEF PublishOnly, Publish

\* What a lane counts is settled.
LEMMA SetAsideSettles ==
  ASSUME SettledInv, consumed' = consumed, SetAside
  PROVE  SettledInv' /\ Settled' = Settled + 1
<1>1. /\ UNCHANGED <<queue, dispatched, healthy, lost>> /\ set_aside' = set_aside + 1
      /\ set_aside \in Nat /\ lost \in Nat /\ Total(dispatched) \in Nat
  BY SettledNat DEF SetAside, SettledInv
<1>2. PolledInv'
  BY <1>1 DEF SettledInv, PolledInv, Of
<1>3. QED
  BY <1>1, <1>2 DEF SettledInv, Settled

\* What is lost is settled.
LEMMA LoseSettles ==
  ASSUME SettledInv, consumed' = consumed, Lose
  PROVE  SettledInv' /\ Settled' = Settled + 1
<1>1. /\ UNCHANGED <<queue, dispatched, set_aside>> /\ healthy' = FALSE /\ lost' = lost + 1
      /\ set_aside \in Nat /\ lost \in Nat /\ Total(dispatched) \in Nat
  BY SettledNat DEF Lose, SettledInv
<1>2. PolledInv'
  BY <1>1 DEF SettledInv, PolledInv, Of
<1>3. QED
  BY <1>1, <1>2 DEF SettledInv, Settled

\* A decoded message is published, lost or counted.
LEMMA DispatchSettles ==
  ASSUME PipeTypes, SettledInv, consumed' = consumed, NEW l \in Lanes, NEW m \in Messages,
         Dispatch(l, m)
  PROVE  SettledInv' /\ Settled' = Settled + 1
<1>1. PICK edge \in Edges : edge = <<l[1], l[2], InstrumentOwner(m)>>
  BY MessageParts, LaneParts
<1>2. CASE m.verdict = "ok"
  <2>1. PublishOnly(edge, m)
    BY <1>1, <1>2 DEF Dispatch, EdgeOf
  <2>2. QED
    BY <2>1, PublishSettles
<1>3. CASE m.verdict # "ok"
  BY <1>3, SetAsideSettles DEF Dispatch
<1>4. QED
  BY <1>2, <1>3

\* A message less in a lane.
LEMMA ConsumeCounts ==
  ASSUME PipeTypes, NEW l \in Lanes, lane[l] # <<>>, lane' = [lane EXCEPT ![l] = Tail(@)],
         IsFiniteSet(Items(Lanes, lane))
  PROVE  /\ IsFiniteSet(Items(Lanes, lane'))
         /\ Cardinality(Items(Lanes, lane)) = Cardinality(Items(Lanes, lane')) + 1
<1>1. PICK q : q = lane
  OBVIOUS
<1>2. PICK r : r = lane'
  OBVIOUS
<1>3. PICK s \in Seq(Messages) : s = lane[l]
  BY DEF PipeTypes
<1>4. Len(s) \in Nat /\ Len(Tail(s)) = Len(s) - 1 /\ Len(s) # 0
  BY <1>3
<1>5. q[l] = s /\ r[l] = Tail(s) /\ \A f \in Lanes : f # l => r[f] = q[f]
  BY <1>1, <1>2, <1>3 DEF PipeTypes
<1>6. Len(r[l]) \in Nat /\ Len(q[l]) = Len(r[l]) + 1
  BY <1>4, <1>5
<1>7. PICK S : S = Lanes
  OBVIOUS
<1>8. l \in S /\ IsFiniteSet(Items(S, q)) /\ \A f \in S : f # l => r[f] = q[f]
  BY <1>1, <1>5, <1>7
<1>9. IsFiniteSet(Items(S, r)) /\ Cardinality(Items(S, q)) = Cardinality(Items(S, r)) + 1
  BY <1>6, <1>8, ItemRemoved
<1>10. QED
  BY <1>1, <1>2, <1>7, <1>9

\* What a change of one lane's retained ticks does to those of all: a tick is
\* retained in one lane only.
LEMMA RetainedIs ==
  ASSUME PipeInv, NEW l \in TickLane, NEW gone \in SUBSET held[l], NEW come \in SUBSET Messages,
         held' = [held EXCEPT ![l] = (held[l] \ gone) \cup come]
  PROVE  Retained' = (Retained \ gone) \cup come /\ gone \in SUBSET Retained
<1>1. /\ held'[l] = (held[l] \ gone) \cup come
      /\ \A j \in TickLane : j # l => held'[j] = held[j]
      /\ \A j \in TickLane : held[j] \in SUBSET Messages
  BY DEF PipeInv, PipeTypes
<1>2. \A j \in TickLane : j # l => \A h \in held[j] : h \notin gone
  BY DEF PipeInv, Routed
<1>3. gone \in SUBSET Retained
  BY <1>1 DEF Retained
<1>4. ASSUME NEW h \in Messages
      PROVE  h \in Retained' <=> (h \in Retained /\ h \notin gone) \/ h \in come
  <2>1. ASSUME h \in Retained' PROVE (h \in Retained /\ h \notin gone) \/ h \in come
    <3>1. PICK j \in TickLane : h \in held'[j]
      BY <2>1 DEF Retained
    <3>2. QED
      BY <1>1, <1>2, <3>1 DEF Retained
  <2>2. ASSUME h \in Retained, h \notin gone PROVE h \in Retained'
    <3>1. PICK j \in TickLane : h \in held[j]
      BY <2>2 DEF Retained
    <3>2. h \in held'[j]
      BY <1>1, <2>2, <3>1
    <3>3. QED
      BY <3>2 DEF Retained
  <2>3. ASSUME h \in come PROVE h \in Retained'
    BY <1>1, <2>3 DEF Retained
  <2>4. QED
    BY <2>1, <2>2, <2>3
<1>5. \A h \in Retained' : h \in Messages
  BY DEF Retained
<1>6. \A h \in Retained : h \in Messages
  BY DEF Retained
<1>7. QED
  BY <1>3, <1>4, <1>5, <1>6

\* A tick that is taken is retained or settled.
LEMMA TakeTickSettles ==
  ASSUME PipeInv, SettledInv, IsFiniteSet(Retained), NEW l \in TickLane,
         NEW m \in Messages, Route(m) = l, TakeTick(l, m)
  PROVE  /\ SettledInv' /\ IsFiniteSet(Retained')
         /\ Cardinality(Retained') + Settled' = Cardinality(Retained) + Settled + 1
<1>1. PipeTypes /\ TableInv /\ l \in Lanes /\ held \in [TickLane -> SUBSET Messages]
  BY DEF PipeInv, PipeTypes, TickLane
<1>2. consumed' = consumed
  BY <1>1, TakeTickIs DEF Outside, drain
<1>3. Settled \in Nat /\ Cardinality(Retained) \in Nat
  BY SettledNat, FS_CardinalityType
<1>4. \A kind \in {"late", "fault"} : <<kind, l[2], 0>> \in Edges
  BY <1>1, LaneParts
<1>5. CASE UNCHANGED <<table, channels, held>> /\ (Lose \/ SetAside)
  <2>1. Retained' = Retained
    BY <1>5 DEF Retained
  <2>2. SettledInv' /\ Settled' = Settled + 1
    BY <1>2, <1>5, LoseSettles, SetAsideSettles
  <2>3. QED
    BY <1>3, <2>1, <2>2
<1>6. ASSUME UNCHANGED held,
             \/ SetAside
             \/ \E kind \in {"late", "fault"} : PublishOnly(<<kind, l[2], 0>>, m)
      PROVE  /\ SettledInv' /\ IsFiniteSet(Retained')
             /\ Cardinality(Retained') + Settled' = Cardinality(Retained) + Settled + 1
  <2>1. Retained' = Retained
    BY <1>6 DEF Retained
  <2>2. SettledInv' /\ Settled' = Settled + 1
    <3>1. CASE SetAside
      BY <1>2, <3>1, SetAsideSettles
    <3>2. ASSUME NEW kind \in {"late", "fault"}, PublishOnly(<<kind, l[2], 0>>, m)
          PROVE  SettledInv' /\ Settled' = Settled + 1
      <4>1. PICK edge \in Edges : edge = <<kind, l[2], 0>>
        BY <1>4
      <4>2. PublishOnly(edge, m)
        BY <3>2, <4>1
      <4>3. QED
        BY <1>1, <1>2, <4>2, PublishSettles
    <3>3. QED
      BY <1>6, <3>1, <3>2
  <2>3. QED
    BY <1>3, <2>1, <2>2
<1>7. ASSUME NEW found,
             \/ TakeFreeze(l, m, found, found.states[found.index])
             \/ TakeLate(l, m, found, found.states[found.index])
      PROVE  /\ SettledInv' /\ IsFiniteSet(Retained')
             /\ Cardinality(Retained') + Settled' = Cardinality(Retained) + Settled + 1
  <2>1. /\ UNCHANGED held
        /\ \/ SetAside
           \/ \E kind \in {"late", "fault"} : PublishOnly(<<kind, l[2], 0>>, m)
    BY <1>7 DEF TakeFreeze, TakeLate
  <2>2. QED
    BY <1>6, <2>1
<1>8. ASSUME NEW found, FoundOK(l, Key(m), found),
             TakeHold(l, m, found, found.states[found.index])
      PROVE  /\ SettledInv' /\ IsFiniteSet(Retained')
             /\ Cardinality(Retained') + Settled' = Cardinality(Retained) + Settled + 1
  <2>1. PICK none \in SUBSET held[l], new \in SUBSET Messages : none = {} /\ new = {m}
    OBVIOUS
  <2>2. held' = [held EXCEPT ![l] = (held[l] \ none) \cup new]
    <3>1. /\ held' = [held EXCEPT ![l] = held[l] \cup {m}]
          /\ held[l] \cup {m} = (held[l] \ none) \cup new
      BY <1>8, <2>1 DEF TakeHold
    <3>2. QED
      BY <3>1
  <2>3. Retained' = (Retained \ none) \cup new
    BY <2>2, RetainedIs
  <2>4. Retained' = Retained \cup {m}
    BY <2>1, <2>3
  <2>5. m \notin Retained
    <3>1. m \notin held[l]
      BY <1>8 DEF TakeHold, HeldOf
    <3>2. QED
      BY <3>1 DEF Retained, PipeInv, Routed
  <2>6. IsFiniteSet(Retained') /\ Cardinality(Retained') = Cardinality(Retained) + 1
    BY <2>4, <2>5, FS_AddElement
  <2>7. UNCHANGED <<queue, dispatched, healthy, lost, set_aside>>
    BY <1>8 DEF TakeHold
  <2>8. SettledInv' /\ Settled' = Settled
    BY <1>2, <2>7 DEF SettledInv, PolledInv, Settled, Of
  <2>9. QED
    BY <1>3, <2>6, <2>8
<1>9. QED
  BY <1>1, <1>5, <1>7, <1>8, TakeTickIs

AccountInv == SettledInv /\ AcceptedInv

\* The three parts of the balance are numbers.
LEMMA AcceptedNat ==
  ASSUME AccountInv
  PROVE  /\ Cardinality(Items(Lanes, lane)) \in Nat /\ Cardinality(Retained) \in Nat
         /\ Settled \in Nat
BY SettledNat, FS_CardinalityType DEF AccountInv, AcceptedInv

\* An accepted message is in its lane; a full lane accepts none.
LEMMA AdmitAccount ==
  ASSUME PipeInv, AccountInv, NEW k \in Callers, NEW m \in Messages, AdmitMdlMessage(k, m)
  PROVE  AccountInv'
<1>1. PICK l \in Lanes : l = Route(m)
  BY MessageParts
<1>2. UNCHANGED <<queue, held, dispatched, consumed, set_aside, lost>>
  BY DEF AdmitMdlMessage, Callback, drain
<1>3. /\ UNCHANGED <<Retained, Settled>>
      /\ SettledInv /\ AcceptedInv
  BY <1>2 DEF Retained, Settled, AccountInv
<1>4. CASE /\ lane' = [lane EXCEPT ![l] = Append(@, m)]
           /\ admitted' = admitted + 1 /\ UNCHANGED healthy
  <2>1. SettledInv'
    BY <1>2, <1>3, <1>4 DEF SettledInv, PolledInv, Of
  <2>2. PICK q : q = lane
    OBVIOUS
  <2>3. PICK r : r = lane'
    OBVIOUS
  <2>4. PICK S : S = Lanes
    OBVIOUS
  <2>5. lane[l] \in Seq(Messages)
    BY DEF PipeInv, PipeTypes
  <2>6. lane'[l] = Append(lane[l], m) /\ \A f \in Lanes : f # l => lane'[f] = lane[f]
    BY <1>4 DEF PipeInv, PipeTypes
  <2>7. /\ l \in S /\ IsFiniteSet(Items(S, q)) /\ \A f \in S : f # l => r[f] = q[f]
        /\ Len(q[l]) \in Nat /\ Len(r[l]) = Len(q[l]) + 1
    BY <1>3, <2>2, <2>3, <2>4, <2>5, <2>6 DEF AcceptedInv
  <2>8. IsFiniteSet(Items(S, r)) /\ Cardinality(Items(S, r)) = Cardinality(Items(S, q)) + 1
    BY <2>7, ItemAdded
  <2>9. AcceptedInv'
    BY <1>3, <1>4, <2>2, <2>3, <2>4, <2>8, AcceptedNat DEF AcceptedInv
  <2>10. QED
    BY <2>1, <2>9 DEF AccountInv
<1>5. CASE healthy' = FALSE /\ UNCHANGED <<lane, admitted>>
  BY <1>2, <1>3, <1>5 DEF SettledInv, PolledInv, Of, AcceptedInv, AccountInv
<1>6. QED
  BY <1>1, <1>4, <1>5 DEF AdmitMdlMessage

\* A tick leaves its lane and is retained or settled.
LEMMA TakeTickAccount ==
  ASSUME PipeInv, AccountInv, NEW l \in TickLane, lane[l] # <<>>,
         TakeTick(l, Head(lane[l]))
  PROVE  AccountInv'
<1>1. l \in Lanes /\ PipeTypes /\ TableInv /\ SettledInv /\ AcceptedInv
  BY DEF TickLane, PipeInv, AccountInv
<1>2. PICK m \in Messages : m = Head(lane[l]) /\ Route(m) = l
  <2>1. lane[l] \in Seq(Messages)
    BY <1>1 DEF PipeTypes
  <2>2. Head(lane[l]) \in Messages /\ Head(lane[l]) = lane[l][1] /\ 1 \in 1..Len(lane[l])
    BY <2>1, Taken
  <2>3. Route(lane[l][1]) = l
    BY <1>1, <2>2 DEF PipeInv, Routed
  <2>4. QED
    BY <2>2, <2>3
<1>3. /\ lane' = [lane EXCEPT ![l] = Tail(@)] /\ admitted' = admitted
  BY <1>1, <1>2, TakeTickIs DEF Outside
<1>4. /\ IsFiniteSet(Items(Lanes, lane'))
      /\ Cardinality(Items(Lanes, lane)) = Cardinality(Items(Lanes, lane')) + 1
  BY <1>1, <1>3, ConsumeCounts DEF AcceptedInv
<1>5. /\ SettledInv' /\ IsFiniteSet(Retained')
      /\ Cardinality(Retained') + Settled' = Cardinality(Retained) + Settled + 1
  BY <1>1, <1>2, TakeTickSettles DEF AcceptedInv
<1>6. /\ Cardinality(Items(Lanes, lane')) \in Nat /\ Cardinality(Retained') \in Nat
  BY <1>4, <1>5, FS_CardinalityType
<1>7. Settled' \in Nat
  <2>1. Total(dispatched') \in Nat
    BY <1>5, TotalCounts DEF SettledInv, PolledInv
  <2>2. QED
    BY <1>5, <2>1 DEF SettledInv, Settled
<1>8. admitted = Cardinality(Items(Lanes, lane')) + Cardinality(Retained') + Settled'
  <2>1. PICK a \in Nat, b \in Nat, c \in Nat :
          a = Cardinality(Items(Lanes, lane')) /\ b = Cardinality(Retained') /\ c = Settled'
    BY <1>6, <1>7
  <2>2. PICK d \in Nat, e \in Nat, f \in Nat :
          d = Cardinality(Items(Lanes, lane)) /\ e = Cardinality(Retained) /\ f = Settled
    BY AcceptedNat
  <2>3. admitted = d + e + f
    BY <1>1, <2>2 DEF AcceptedInv
  <2>4. d = a + 1
    BY <1>4, <2>1, <2>2
  <2>5. b + c = e + f + 1
    BY <1>5, <2>1, <2>2
  <2>6. admitted = a + b + c
    BY <2>3, <2>4, <2>5
  <2>7. QED
    BY <2>1, <2>6
<1>9. AcceptedInv'
  BY <1>1, <1>3, <1>4, <1>5, <1>8 DEF AcceptedInv
<1>10. QED
  BY <1>5, <1>9 DEF AccountInv

\* A snapshot leaves its lane and is settled.
LEMMA TakeSnapshotAccount ==
  ASSUME PipeInv, AccountInv, NEW l \in Lanes \ TickLane, lane[l] # <<>>,
         TakeSnapshot(l, Head(lane[l]))
  PROVE  AccountInv'
<1>1. l \in Lanes /\ PipeTypes /\ SettledInv /\ AcceptedInv
  BY DEF PipeInv, AccountInv
<1>2. PICK m \in Messages : Dispatch(l, m)
  <2>1. lane[l] \in Seq(Messages)
    BY <1>1 DEF PipeTypes
  <2>2. QED
    BY <2>1, Taken DEF TakeSnapshot
<1>3. /\ lane' = [lane EXCEPT ![l] = Tail(@)] /\ UNCHANGED <<admitted, held, consumed>>
  BY DEF TakeSnapshot, Consume, Outside, drain
<1>4. /\ IsFiniteSet(Items(Lanes, lane'))
      /\ Cardinality(Items(Lanes, lane)) = Cardinality(Items(Lanes, lane')) + 1
  BY <1>1, <1>3, ConsumeCounts DEF AcceptedInv
<1>5. SettledInv' /\ Settled' = Settled + 1
  BY <1>1, <1>2, <1>3, DispatchSettles
<1>6. Retained' = Retained
  BY <1>3 DEF Retained
<1>7. Cardinality(Items(Lanes, lane')) \in Nat
  BY <1>4, FS_CardinalityType
<1>8. AcceptedInv'
  BY <1>1, <1>3, <1>4, <1>5, <1>6, <1>7, AcceptedNat DEF AcceptedInv
<1>9. QED
  BY <1>5, <1>8 DEF AccountInv

\* A retained tick is settled.
LEMMA EmitAccount ==
  ASSUME PipeInv, AccountInv, NEW l \in TickLane, NEW m \in held[l], EmitTick(l, m)
  PROVE  AccountInv'
<1>1. /\ l \in Lanes /\ PipeTypes /\ SettledInv /\ AcceptedInv /\ m \in Messages
  BY DEF TickLane, PipeInv, PipeTypes, AccountInv
<1>2. /\ held' = [held EXCEPT ![l] = held[l] \ {m}] /\ Dispatch(l, m)
      /\ UNCHANGED <<lane, admitted, consumed>>
  BY DEF EmitTick, Outside, drain
<1>3. PICK gone \in SUBSET held[l], none \in SUBSET Messages : gone = {m} /\ none = {}
  OBVIOUS
<1>4. held' = [held EXCEPT ![l] = (held[l] \ gone) \cup none]
  <2>1. held[l] \ {m} = (held[l] \ gone) \cup none
    BY <1>3
  <2>2. QED
    BY <1>2, <2>1
<1>5. Retained' = (Retained \ gone) \cup none /\ gone \in SUBSET Retained
  BY <1>4, RetainedIs
<1>6. Retained' = Retained \ {m} /\ m \in Retained
  BY <1>3, <1>5
<1>7. IsFiniteSet(Retained') /\ Cardinality(Retained') = Cardinality(Retained) - 1
  BY <1>1, <1>6, FS_RemoveElement DEF AcceptedInv
<1>8. SettledInv' /\ Settled' = Settled + 1
  BY <1>1, <1>2, DispatchSettles
<1>9. AcceptedInv'
  BY <1>1, <1>2, <1>7, <1>8, AcceptedNat DEF AcceptedInv
<1>10. QED
  BY <1>8, <1>9 DEF AccountInv

\* A record leaves its queue and is consumed.
LEMMA PollAccount ==
  ASSUME PipeInv, AccountInv, NEW edge \in Edges, queue[edge] # <<>>,
         TryPoll(edge[1], edge[2], edge[3]),
         UNCHANGED <<lane, table, channels, held, accounts>>
  PROVE  AccountInv'
<1>1. /\ PipeTypes /\ SettledInv /\ AcceptedInv /\ edge[1] \in Kinds
      /\ edge = <<edge[1], edge[2], edge[3]>>
      /\ UNCHANGED <<dispatched, healthy, admitted, set_aside, lost>>
  BY EdgeParts DEF PipeInv, AccountInv, accounts
<1>2. /\ queue' = [queue EXCEPT ![edge] = Tail(@)]
      /\ consumed' = [consumed EXCEPT ![edge[1]] = @ + 1]
      /\ consumed \in [Kinds -> Nat] /\ dispatched \in [Kinds -> Nat]
  BY <1>1 DEF TryPoll, SettledInv, PolledInv
<1>3. consumed' \in [Kinds -> Nat]
  BY <1>1, <1>2
<1>4. ASSUME NEW kind \in Kinds
      PROVE  /\ IsFiniteSet(Items(Of(kind), queue'))
             /\ dispatched[kind] = consumed'[kind] + Cardinality(Items(Of(kind), queue'))
  <2>1. /\ IsFiniteSet(Items(Of(kind), queue))
        /\ dispatched[kind] = consumed[kind] + Cardinality(Items(Of(kind), queue))
        /\ consumed[kind] \in Nat
    BY <1>1 DEF SettledInv, PolledInv
  <2>2. Of(kind) \in SUBSET Edges /\ queue \in [Edges -> Seq(Messages)]
    BY <1>1 DEF Of, PipeTypes
  <2>3. CASE edge \in Of(kind)
    <3>1. PICK S : S = Of(kind)
      OBVIOUS
    <3>2. PICK q : q = queue
      OBVIOUS
    <3>3. PICK r : r = queue'
      OBVIOUS
    <3>4. PICK s \in Seq(Messages) : s = queue[edge]
      BY <2>2
    <3>5. Len(s) \in Nat /\ Len(Tail(s)) = Len(s) - 1 /\ Len(s) # 0
      BY <3>4
    <3>6. q[edge] = s /\ r[edge] = Tail(s) /\ \A f \in S : f # edge => r[f] = q[f]
      BY <1>2, <2>2, <3>1, <3>2, <3>3, <3>4
    <3>7. /\ edge \in S /\ IsFiniteSet(Items(S, q))
          /\ Len(r[edge]) \in Nat /\ Len(q[edge]) = Len(r[edge]) + 1
      BY <2>1, <2>3, <3>1, <3>2, <3>5, <3>6
    <3>8. IsFiniteSet(Items(S, r)) /\ Cardinality(Items(S, q)) = Cardinality(Items(S, r)) + 1
      BY <3>6, <3>7, ItemRemoved
    <3>9. Cardinality(Items(S, r)) \in Nat
      BY <3>8, FS_CardinalityType
    <3>10. consumed'[kind] = consumed[kind] + 1
      BY <1>1, <1>2, <2>3 DEF Of
    <3>11. QED
      BY <2>1, <3>1, <3>2, <3>3, <3>8, <3>9, <3>10
  <2>4. CASE edge \notin Of(kind)
    <3>1. \A e \in Of(kind) : queue'[e] = queue[e]
      BY <1>2, <2>2, <2>4
    <3>2. Items(Of(kind), queue') = Items(Of(kind), queue)
      BY <3>1, ItemsKept
    <3>3. consumed'[kind] = consumed[kind]
      BY <1>1, <1>2, <2>4 DEF Of
    <3>4. QED
      BY <2>1, <3>2, <3>3
  <2>5. QED
    BY <2>3, <2>4
<1>5. PolledInv'
  BY <1>1, <1>2, <1>3, <1>4 DEF PolledInv, Of
<1>6. SettledInv' /\ AcceptedInv'
  BY <1>1, <1>5 DEF SettledInv, AcceptedInv, Settled, Retained
<1>7. QED
  BY <1>6 DEF AccountInv

\* Every step keeps the balance.
LEMMA StepAccount ==
  ASSUME PipeInv, AccountInv, [Next]_vars
  PROVE  AccountInv'
<1>1. StageInv
  BY DEF PipeInv
<1>2. CASE UNCHANGED <<lane, table, channels, held, queue, received, consumed, accounts>>
  BY <1>2 DEF accounts, AccountInv, SettledInv, PolledInv, AcceptedInv, Settled, Retained, Of
<1>3. CASE \E k \in Callers : RejectFatal(k)
  <2>1. /\ UNCHANGED <<lane, held, queue, dispatched, consumed, admitted, set_aside, lost>>
        /\ healthy' = FALSE
    BY <1>3 DEF RejectFatal, Callback, lanes, drain, counts
  <2>2. QED
    BY <2>1 DEF AccountInv, SettledInv, PolledInv, AcceptedInv, Settled, Retained, Of
<1>4. QED
  BY <1>1, <1>2, <1>3, StepCases, AdmitAccount, TakeTickAccount, TakeSnapshotAccount, EmitAccount,
     PollAccount

-----------------------------------------------------------------------------
(***************************************************************************)
(* The faults of the frozen channels.                                      *)
(***************************************************************************)

\* Every frozen channel has published one fault, or losing it was fatal.
FaultInv ==
  /\ IsFiniteSet(FrozenChannels)
  /\ dispatched["fault"] <= Cardinality(FrozenChannels)
  /\ Cardinality(FrozenChannels) <= dispatched["fault"] + lost

\* No channel is frozen when the process starts.
LEMMA InitFault == ASSUME Init PROVE FaultInv
<1>1. FrozenChannels = {}
  BY DEF Init, FrozenChannels, Frozen, StatesOf
<1>2. dispatched["fault"] = 0 /\ lost = 0
  BY DEF Init, Kinds
<1>3. QED
  BY <1>1, <1>2, FS_EmptySet DEF FaultInv

\* A channel is frozen when a state of its key is.
LEMMA FrozenIs ==
  ASSUME NEW l, NEW key, NEW states \in Seq(ChannelState), states = channels[l]
  PROVE  Frozen(l, key) <=> \E i \in 1..Len(states) : states[i].key = key /\ states[i].frozen
BY DEF Frozen, StatesOf

LEMMA FrozenNextIs ==
  ASSUME NEW l, NEW key, NEW states \in Seq(ChannelState), states = channels'[l]
  PROVE  Frozen(l, key)' <=> \E i \in 1..Len(states) : states[i].key = key /\ states[i].frozen
BY DEF Frozen, StatesOf

\* Placing a state freezes its channel if the state is frozen, and no other.
LEMMA PlaceFrozen ==
  ASSUME PipeTypes, TableInv, NEW l \in TickLane, NEW key \in Keys, NEW found,
         FoundOK(l, key, found), NEW state \in ChannelState, state.key = key,
         state.frontier = found.states[found.index].frontier, Place(l, found, state)
  PROVE  /\ Frozen(l, key) <=> found.states[found.index].frozen
         /\ Frozen(l, key)' <=> state.frozen
         /\ \A j \in TickLane, k \in Keys :
              j # l \/ k # key => (Frozen(j, k)' <=> Frozen(j, k))
<1>1. /\ channels' \in [TickLane -> Seq(ChannelState)]
      /\ \A j \in TickLane : j # l => channels'[j] = channels[j]
      /\ found.index \in 1..Len(channels'[l]) /\ channels'[l][found.index] = state
      /\ \A i \in 1..Len(channels'[l]) : channels'[l][i].key = key => i = found.index
      /\ \A i \in 1..Len(channels[l]) :
           /\ i \in 1..Len(channels'[l])
           /\ channels[l][i].key = key =>
                i = found.index /\ found.states[found.index] = channels[l][i]
           /\ channels[l][i].key # key => channels'[l][i] = channels[l][i]
      /\ \A i \in 1..Len(channels'[l]) :
           channels'[l][i].key # key => i \in 1..Len(channels[l])
  BY PlaceIs
<1>2. PICK old \in Seq(ChannelState), new \in Seq(ChannelState) :
        old = channels[l] /\ new = channels'[l]
  BY <1>1 DEF PipeTypes
<1>3. Frozen(l, key)' <=> state.frozen
  BY <1>1, <1>2, FrozenNextIs
<1>4. Frozen(l, key) <=> found.states[found.index].frozen
  <2>1. ASSUME Frozen(l, key) PROVE found.states[found.index].frozen
    <3>1. PICK i \in 1..Len(old) : old[i].key = key /\ old[i].frozen
      BY <1>2, <2>1, FrozenIs
    <3>2. found.states[found.index] = old[i]
      BY <1>1, <1>2, <3>1
    <3>3. QED
      BY <3>1, <3>2
  <2>2. ASSUME found.states[found.index].frozen PROVE Frozen(l, key)
    <3>1. CASE found.states = channels[l]
      <4>1. found.index \in 1..Len(old) /\ old[found.index].key = key /\ old[found.index].frozen
        BY <1>2, <2>2, <3>1 DEF FoundOK
      <4>2. QED
        BY <1>2, <4>1, FrozenIs
    <3>2. CASE found.states = Append(channels[l], [key |-> key, frontier |-> 0, frozen |-> FALSE])
      <4>1. CASE found.index \in 1..Len(old)
        <5>1. found.states[found.index] = old[found.index]
          BY <1>2, <3>2, <4>1
        <5>2. QED
          BY <1>2, <2>2, <4>1, <5>1, FrozenIs DEF FoundOK
      <4>2. CASE found.index \notin 1..Len(old)
        <5>1. PICK fresh : fresh = [key |-> key, frontier |-> 0, frozen |-> FALSE]
          OBVIOUS
        <5>2. Len(found.states) = Len(old) + 1 /\ found.index \in 1..Len(found.states)
          BY <1>2, <3>2 DEF FoundOK
        <5>3. found.index = Len(old) + 1
          BY <1>2, <4>2, <5>2
        <5>4. found.states[found.index] = fresh
          BY <1>2, <3>2, <5>1, <5>3
        <5>5. ~fresh.frozen
          BY <5>1
        <5>6. QED
          BY <2>2, <5>4, <5>5
      <4>3. QED
        BY <4>1, <4>2
    <3>3. QED
      BY <3>1, <3>2 DEF FoundOK
  <2>3. QED
    BY <2>1, <2>2
<1>5. ASSUME NEW j \in TickLane, NEW k \in Keys, j # l
      PROVE  Frozen(j, k)' <=> Frozen(j, k)
  <2>1. channels'[j] = channels[j]
    BY <1>1, <1>5
  <2>2. QED
    BY <2>1 DEF Frozen, StatesOf
<1>6. ASSUME NEW k \in Keys, k # key
      PROVE  Frozen(l, k)' <=> Frozen(l, k)
  <2>1. ASSUME Frozen(l, k)' PROVE Frozen(l, k)
    <3>1. PICK i \in 1..Len(new) : new[i].key = k /\ new[i].frozen
      BY <1>2, <2>1, FrozenNextIs
    <3>2. i \in 1..Len(old)
      BY <1>1, <1>2, <1>6, <3>1
    <3>3. old[i].key # key
      BY <1>1, <1>2, <1>6, <3>1, <3>2
    <3>4. old[i] = new[i]
      BY <1>1, <1>2, <3>2, <3>3
    <3>5. QED
      BY <1>2, <3>1, <3>2, <3>4, FrozenIs
  <2>2. ASSUME Frozen(l, k) PROVE Frozen(l, k)'
    <3>1. PICK i \in 1..Len(old) : old[i].key = k /\ old[i].frozen
      BY <1>2, <2>2, FrozenIs
    <3>2. i \in 1..Len(new) /\ new[i] = old[i]
      BY <1>1, <1>2, <1>6, <3>1
    <3>3. QED
      BY <1>2, <3>1, <3>2, FrozenNextIs
  <2>3. QED
    BY <2>1, <2>2
<1>7. QED
  BY <1>3, <1>4, <1>5, <1>6

\* The frozen channels and the faults stay, and losses only grow.
Same ==
  /\ \A l \in TickLane, key \in Keys : Frozen(l, key)' <=> Frozen(l, key)
  /\ dispatched'["fault"] = dispatched["fault"] /\ lost' \in Nat /\ lost <= lost'

LEMMA SameFault ==
  ASSUME AccountInv, FaultInv, Same
  PROVE  FaultInv'
<1>1. ASSUME NEW c \in TickLane \X Keys
      PROVE  c \in FrozenChannels' <=> c \in FrozenChannels
  <2>1. PICK l \in TickLane, key \in Keys : c = <<l, key>>
    OBVIOUS
  <2>2. Frozen(l, key)' <=> Frozen(l, key)
    BY DEF Same
  <2>3. (c \in FrozenChannels <=> Frozen(l, key)) /\ (c \in FrozenChannels' <=> Frozen(l, key)')
    BY <2>1 DEF FrozenChannels
  <2>4. QED
    BY <2>2, <2>3
<1>2. FrozenChannels' = FrozenChannels
  BY <1>1 DEF FrozenChannels
<1>3. PICK n \in Nat : n = Cardinality(FrozenChannels)
  BY FS_CardinalityType DEF FaultInv
<1>4. dispatched["fault"] \in Nat /\ lost \in Nat
  BY DEF AccountInv, SettledInv, PolledInv, Kinds
<1>5. QED
  BY <1>2, <1>3, <1>4 DEF FaultInv, Same

\* A channel that becomes frozen is one more, and its fault is published or lost.
LEMMA OneFault ==
  ASSUME AccountInv, FaultInv, NEW l \in TickLane, NEW key \in Keys,
         ~Frozen(l, key), Frozen(l, key)',
         \A j \in TickLane, k \in Keys : j # l \/ k # key => (Frozen(j, k)' <=> Frozen(j, k)),
         \/ dispatched'["fault"] = dispatched["fault"] + 1 /\ lost' = lost
         \/ dispatched'["fault"] = dispatched["fault"] /\ lost' = lost + 1
  PROVE  FaultInv'
<1>1. PICK new \in TickLane \X Keys : new = <<l, key>>
  OBVIOUS
<1>2. ASSUME NEW c \in TickLane \X Keys
      PROVE  c \in FrozenChannels' <=> c \in FrozenChannels \/ c = new
  <2>1. PICK j \in TickLane, k \in Keys : c = <<j, k>>
    OBVIOUS
  <2>2. (c \in FrozenChannels <=> Frozen(j, k)) /\ (c \in FrozenChannels' <=> Frozen(j, k)')
    BY <2>1 DEF FrozenChannels
  <2>3. CASE j = l /\ k = key
    BY <1>1, <2>1, <2>2, <2>3
  <2>4. CASE j # l \/ k # key
    <3>1. c # new
      BY <1>1, <2>1, <2>4
    <3>2. Frozen(j, k)' <=> Frozen(j, k)
      BY <2>4
    <3>3. QED
      BY <2>2, <3>1, <3>2
  <2>5. QED
    BY <2>3, <2>4
<1>3. FrozenChannels' = FrozenChannels \cup {new}
  BY <1>2 DEF FrozenChannels
<1>4. new \notin FrozenChannels
  BY <1>1 DEF FrozenChannels
<1>5. IsFiniteSet(FrozenChannels') /\ Cardinality(FrozenChannels') = Cardinality(FrozenChannels) + 1
  BY <1>3, <1>4, FS_AddElement DEF FaultInv
<1>6. PICK n \in Nat : n = Cardinality(FrozenChannels)
  BY FS_CardinalityType DEF FaultInv
<1>7. dispatched["fault"] \in Nat /\ lost \in Nat
  BY DEF AccountInv, SettledInv, PolledInv, Kinds
<1>8. QED
  BY <1>5, <1>6, <1>7 DEF FaultInv

\* What a publication counts.
LEMMA PublishCounts ==
  ASSUME AccountInv, NEW kind \in Kinds, NEW p, NEW o, NEW m, Publish(<<kind, p, o>>, m)
  PROVE  \/ /\ dispatched'["fault"] = IF kind = "fault" THEN dispatched["fault"] + 1
                                                        ELSE dispatched["fault"]
            /\ lost' = lost
         \/ dispatched'["fault"] = dispatched["fault"] /\ lost' = lost + 1
<1>1. dispatched \in [Kinds -> Nat]
  BY DEF AccountInv, SettledInv, PolledInv
<1>2. \/ dispatched' = [dispatched EXCEPT ![kind] = @ + 1] /\ lost' = lost
      \/ dispatched' = dispatched /\ lost' = lost + 1
  BY DEF Publish
<1>3. QED
  BY <1>1, <1>2 DEF Kinds

\* A step that changes no state, and publishes no fault.
LEMMA StillSame ==
  ASSUME AccountInv, NEW l \in Lanes, NEW m,
         \A j \in TickLane, key \in Keys : Frozen(j, key)' <=> Frozen(j, key),
         \/ SetAside \/ Lose \/ UNCHANGED <<dispatched, lost>>
         \/ PublishOnly(<<"late", l[2], 0>>, m) \/ Dispatch(l, m)
  PROVE  Same
<1>1. lost \in Nat
  BY DEF AccountInv, SettledInv
<1>2. CASE SetAside \/ Lose \/ UNCHANGED <<dispatched, lost>>
  BY <1>1, <1>2 DEF Same, SetAside, Lose
<1>3. ASSUME NEW kind \in {"tick", "snapshot", "late"}, NEW p, NEW o, Publish(<<kind, p, o>>, m)
      PROVE  Same
  <2>1. /\ dispatched'["fault"] = dispatched["fault"]
        /\ lost' = lost \/ lost' = lost + 1
    BY <1>3, PublishCounts DEF Kinds
  <2>2. QED
    BY <1>1, <2>1 DEF Same
<1>4. CASE PublishOnly(<<"late", l[2], 0>>, m)
  BY <1>3, <1>4 DEF PublishOnly
<1>5. CASE Dispatch(l, m)
  <2>1. l[1] \in {"tick", "snapshot"}
    BY LaneParts
  <2>2. QED
    BY <1>2, <1>3, <1>5, <2>1 DEF Dispatch, PublishOnly, EdgeOf
<1>6. QED
  BY <1>2, <1>4, <1>5

\* A tick that is taken freezes its channel with one fault, or freezes nothing.
LEMMA TakeTickFault ==
  ASSUME PipeInv, AccountInv, FaultInv, NEW l \in TickLane, NEW m \in Messages, TakeTick(l, m)
  PROVE  FaultInv'
<1>1. PipeTypes /\ TableInv /\ l \in Lanes /\ Key(m) \in Keys
  BY MessageParts DEF PipeInv, TickLane
<1>2. CASE UNCHANGED <<table, channels, held>> /\ (Lose \/ SetAside)
  <2>1. \A j \in TickLane, key \in Keys : Frozen(j, key)' <=> Frozen(j, key)
    BY <1>2 DEF Frozen, StatesOf
  <2>2. QED
    BY <1>1, <1>2, <2>1, StillSame, SameFault
<1>3. ASSUME NEW found, FoundOK(l, Key(m), found), NEW old, old = found.states[found.index],
             NEW state \in ChannelState, state.key = Key(m), state.frontier = old.frontier,
             Place(l, found, state), state.frozen <=> old.frozen,
             \/ SetAside \/ UNCHANGED <<dispatched, lost>>
             \/ PublishOnly(<<"late", l[2], 0>>, m)
      PROVE  FaultInv'
  <2>1. /\ Frozen(l, Key(m)) <=> found.states[found.index].frozen
        /\ Frozen(l, Key(m))' <=> state.frozen
        /\ \A j \in TickLane, k \in Keys :
             j # l \/ k # Key(m) => (Frozen(j, k)' <=> Frozen(j, k))
    BY <1>1, <1>3, PlaceFrozen
  <2>2. ASSUME NEW j \in TickLane, NEW key \in Keys
        PROVE  Frozen(j, key)' <=> Frozen(j, key)
    BY <1>3, <2>1
  <2>3. QED
    BY <1>1, <1>3, <2>2, StillSame, SameFault
<1>4. ASSUME NEW found, FoundOK(l, Key(m), found), NEW old, old = found.states[found.index],
             \/ TakeFreeze(l, m, found, old) \/ TakeLate(l, m, found, old)
             \/ TakeHold(l, m, found, old)
      PROVE  FaultInv'
  <2>1. old \in ChannelState /\ old.key = Key(m)
    BY <1>4 DEF FoundOK
  <2>2. CASE TakeLate(l, m, found, old) \/ TakeHold(l, m, found, old)
    <3>1. /\ Place(l, found, old)
          /\ \/ SetAside \/ UNCHANGED <<dispatched, lost>>
             \/ PublishOnly(<<"late", l[2], 0>>, m)
      BY <2>2 DEF TakeLate, TakeHold
    <3>2. QED
      BY <1>3, <1>4, <2>1, <3>1
  <2>3. CASE TakeFreeze(l, m, found, old)
    <3>1. PICK state : state = [old EXCEPT !.frozen = TRUE]
      OBVIOUS
    <3>2. /\ state \in ChannelState /\ state.key = Key(m) /\ state.frontier = old.frontier
          /\ state.frozen
      BY <2>1, <3>1 DEF ChannelState
    <3>3. Place(l, found, state)
      BY <2>3, <3>1 DEF TakeFreeze
    <3>4. CASE old.frozen
      <4>1. SetAside
        BY <2>3, <3>4 DEF TakeFreeze
      <4>2. QED
        BY <1>3, <1>4, <3>2, <3>3, <3>4, <4>1
    <3>5. CASE ~old.frozen
      <4>1. Publish(<<"fault", l[2], 0>>, m)
        BY <2>3, <3>5 DEF TakeFreeze, PublishOnly
      <4>2. \/ dispatched'["fault"] = dispatched["fault"] + 1 /\ lost' = lost
            \/ dispatched'["fault"] = dispatched["fault"] /\ lost' = lost + 1
        BY <4>1, PublishCounts DEF Kinds
      <4>3. /\ Frozen(l, Key(m)) <=> found.states[found.index].frozen
            /\ Frozen(l, Key(m))' <=> state.frozen
            /\ \A j \in TickLane, k \in Keys :
                 j # l \/ k # Key(m) => (Frozen(j, k)' <=> Frozen(j, k))
        BY <1>1, <1>4, <3>2, <3>3, PlaceFrozen
      <4>4. PICK key \in Keys : key = Key(m)
        BY <1>1
      <4>5. /\ ~Frozen(l, key) /\ Frozen(l, key)'
            /\ \A j \in TickLane, k \in Keys : j # l \/ k # key => (Frozen(j, k)' <=> Frozen(j, k))
        BY <1>4, <3>2, <3>5, <4>3, <4>4
      <4>6. QED
        BY <4>2, <4>5, OneFault
    <3>6. QED
      BY <3>4, <3>5
  <2>4. QED
    BY <1>4, <2>2, <2>3
<1>5. QED
  BY <1>1, <1>2, <1>4, TakeTickIs

\* A tick that leaves does not freeze its channel.
LEMMA EmitFault ==
  ASSUME PipeInv, AccountInv, FaultInv, NEW l \in TickLane, NEW m \in held[l], EmitTick(l, m)
  PROVE  FaultInv'
<1>1. PipeTypes /\ TableInv /\ l \in Lanes
  BY DEF PipeInv, TickLane
<1>2. /\ channels' \in [TickLane -> Seq(ChannelState)]
      /\ \A j \in TickLane : j # l => channels'[j] = channels[j]
      /\ Len(channels'[l]) = Len(channels[l])
      /\ \A i \in 1..Len(channels[l]) :
           /\ channels[l][i].key # Key(m) => channels'[l][i] = channels[l][i]
           /\ channels[l][i].key = Key(m) =>
                channels'[l][i] = [channels[l][i] EXCEPT !.frontier = Reached(l, m)]
  BY <1>1, EmitIs
<1>3. PICK old \in Seq(ChannelState), new \in Seq(ChannelState) :
        old = channels[l] /\ new = channels'[l]
  BY <1>1, <1>2 DEF PipeTypes
<1>4. ASSUME NEW i \in 1..Len(old)
      PROVE  new[i].key = old[i].key /\ (new[i].frozen <=> old[i].frozen)
  <2>1. PICK state \in ChannelState : state = old[i]
    OBVIOUS
  <2>2. new[i] = state \/ new[i] = [state EXCEPT !.frontier = Reached(l, m)]
    BY <1>2, <1>3, <2>1
  <2>3. QED
    BY <2>1, <2>2 DEF ChannelState
<1>5. ASSUME NEW j \in TickLane, NEW key \in Keys
      PROVE  Frozen(j, key)' <=> Frozen(j, key)
  <2>1. CASE j = l
    <3>1. Frozen(l, key) <=> \E i \in 1..Len(old) : old[i].key = key /\ old[i].frozen
      BY <1>3, FrozenIs
    <3>2. Frozen(l, key)' <=> \E i \in 1..Len(new) : new[i].key = key /\ new[i].frozen
      BY <1>3, FrozenNextIs
    <3>3. Len(new) = Len(old)
      BY <1>2, <1>3
    <3>4. QED
      BY <1>4, <2>1, <3>1, <3>2, <3>3
  <2>2. CASE j # l
    <3>1. channels'[j] = channels[j]
      BY <1>2, <2>2
    <3>2. QED
      BY <3>1 DEF Frozen, StatesOf
  <2>3. QED
    BY <2>1, <2>2
<1>6. Dispatch(l, m)
  BY DEF EmitTick
<1>7. QED
  BY <1>1, <1>5, <1>6, StillSame, SameFault

\* Every step keeps the balance of the faults.
LEMMA StepFault ==
  ASSUME PipeInv, AccountInv, FaultInv, [Next]_vars
  PROVE  FaultInv'
<1>1. StageInv /\ PipeTypes /\ lost \in Nat
  BY DEF PipeInv, AccountInv, SettledInv
<1>2. CASE UNCHANGED <<channels, dispatched, lost>>
  BY <1>1, <1>2, SameFault DEF Same, Frozen, StatesOf
<1>3. CASE UNCHANGED <<lane, table, channels, held, queue, received, consumed, accounts>>
  BY <1>2, <1>3 DEF accounts
<1>4. CASE (\E k \in Callers : RejectFatal(k)) \/ \E k \in Callers, m \in Messages : AdmitMdlMessage(k, m)
  BY <1>2, <1>4 DEF RejectFatal, AdmitMdlMessage, Callback, lanes, counts
<1>5. ASSUME NEW l \in TickLane, lane[l] # <<>>, TakeTick(l, Head(lane[l]))
      PROVE  FaultInv'
  <2>1. lane[l] \in Seq(Messages)
    BY <1>1 DEF PipeTypes, TickLane
  <2>2. Head(lane[l]) \in Messages
    BY <1>5, <2>1, Taken
  <2>3. QED
    BY <1>5, <2>2, TakeTickFault
<1>6. ASSUME NEW l \in Lanes \ TickLane, TakeSnapshot(l, Head(lane[l]))
      PROVE  FaultInv'
  <2>1. UNCHANGED channels /\ Dispatch(l, Head(lane[l]))
    BY <1>6 DEF TakeSnapshot
  <2>2. \A j \in TickLane, key \in Keys : Frozen(j, key)' <=> Frozen(j, key)
    BY <2>1 DEF Frozen, StatesOf
  <2>3. Same
    BY <2>1, <2>2, StillSame
  <2>4. QED
    BY <2>3, SameFault
<1>7. ASSUME UNCHANGED <<lane, table, channels, held, accounts>>
      PROVE  FaultInv'
  BY <1>2, <1>7 DEF accounts
<1>8. QED
  BY <1>1, <1>3, <1>4, <1>5, <1>6, <1>7, EmitFault, StepCases

-----------------------------------------------------------------------------
(***************************************************************************)
(* The orderly shutdown.                                                   *)
(***************************************************************************)
Stranded(l) == \A m \in held[l] : Frozen(l, Key(m))
Drained ==
  /\ exited = Lanes /\ ~running
  /\ \A e \in Edges : queue[e] = <<>>
  /\ \A l \in Lanes : lane[l] = <<>>
  /\ \A l \in TickLane : Stranded(l)

\* A worker has returned with nothing left in its lane but ticks of frozen channels,
\* and none has while the engine runs.
LeftInv ==
  /\ running => exited = {}
  /\ exited \in SUBSET Lanes
  /\ \A l \in exited : lane[l] = <<>> /\ (l \in TickLane => Stranded(l))

\* The outcome tells the orderly shutdown from the others, and when it has waited
\* for the drain threads to catch up, everything is drained and stays so.
EndInv ==
  /\ main \in {"startup", "connect", "connecting", "loop"} => outcome = "none"
  /\ main \in {"shut down", "await callbacks"} => outcome \in {"stopped", "failed"}
  /\ main \in {"connect failed", "join drains early", "join lanes early"} => outcome # "stopped"
  /\ main \in {"join lanes", "join drains"} => ~running
  /\ main = "join drains" => Drained
  /\ main = "exited" /\ outcome = "stopped" /\ exit # "terminated"
       => Drained /\ (lost > 0 => exit = "1")

\* Before the start all lanes have ended, empty.
LEMMA InitEnd == ASSUME Init PROVE LeftInv /\ EndInv
<1>1. LeftInv
  BY DEF Init, LeftInv, TickLane, Stranded
<1>2. EndInv
  BY DEF Init, EndInv
<1>3. QED
  BY <1>1, <1>2

\* The steps of main: only AwaitConsumed finds everything drained.
LEMMA MainEnd ==
  ASSUME PipeInv, AccountInv, LeftInv, EndInv, MainStep \/ HandleSignal
  PROVE  LeftInv' /\ EndInv'
<1>1. /\ UNCHANGED <<lane, held, channels, queue, healthy, lost>>
      /\ exited' = exited \/ (Startup /\ exited' = {})
  BY DEF MainStep, HandleSignal, GiveUp, Startup, ConnectRefused, CreateSubscriber,
         ConnectSucceeds, ConnectFails, StopOnFailure, LeaveLoop, ShutdownManager, Terminate,
         AwaitCallbacks, StopDrainEarly, StopEngineLate, JoinLanesLate, AwaitConsumed, JoinDrains,
         Rest, lanes, counts
<1>0. \A l \in TickLane : Stranded(l)' <=> Stranded(l)
  BY <1>1 DEF Stranded, Frozen, StatesOf
<1>2. CASE Startup
  <2>1. /\ main = "startup" /\ main' = "connect" /\ UNCHANGED outcome /\ exited' = {}
    BY <1>2 DEF Startup, Main
  <2>2. QED
    BY <1>1, <2>1 DEF LeftInv, EndInv
<1>3. ASSUME ~Startup PROVE LeftInv'
  <2>1. exited' = exited /\ (running' = running \/ running' = FALSE)
    BY <1>1, <1>3 DEF MainStep, HandleSignal, GiveUp, ConnectRefused, CreateSubscriber,
         ConnectSucceeds, ConnectFails, StopOnFailure, LeaveLoop, ShutdownManager, Terminate,
         AwaitCallbacks, StopDrainEarly, StopEngineLate, JoinLanesLate, AwaitConsumed, JoinDrains
  <2>2. QED
    BY <1>0, <1>1, <2>1 DEF LeftInv
<1>4. CASE \/ ConnectRefused \/ CreateSubscriber \/ ConnectSucceeds \/ ConnectFails
           \/ StopOnFailure \/ HandleSignal \/ ShutdownManager \/ StopDrainEarly
  <2>1. EndInv'
    BY <1>4 DEF ConnectRefused, CreateSubscriber, ConnectSucceeds, ConnectFails, StopOnFailure,
           HandleSignal, LeaveLoop, ShutdownManager, StopDrainEarly, Main, EndInv
  <2>2. QED
    BY <1>2, <1>3, <2>1
<1>5. CASE AwaitCallbacks \/ StopEngineLate
  <2>1. EndInv'
    BY <1>5 DEF AwaitCallbacks, StopEngineLate, Main, EndInv
  <2>2. QED
    BY <1>2, <1>3, <2>1
<1>6. CASE GiveUp \/ JoinLanesLate \/ Terminate
  <2>1. EndInv'
    BY <1>6 DEF GiveUp, JoinLanesLate, Terminate, Exit, EndInv
  <2>2. QED
    BY <1>2, <1>3, <2>1
<1>7. CASE AwaitConsumed
  <2>1. /\ main = "join lanes" /\ main' = "join drains" /\ UNCHANGED <<outcome, running, exited>>
        /\ exited = Lanes /\ \A kind \in Kinds : consumed[kind] >= dispatched[kind]
    BY <1>7 DEF AwaitConsumed, Main, Rest, lanes
  <2>2. ASSUME NEW e \in Edges PROVE queue[e] = <<>>
    <3>1. PICK kind \in Kinds : kind = e[1]
      BY EdgeParts
    <3>2. PICK S : S = Of(kind)
      OBVIOUS
    <3>3. IsFiniteSet(Items(S, queue)) /\ dispatched[kind] = consumed[kind] + Cardinality(Items(S, queue))
      BY <3>2 DEF AccountInv, SettledInv, PolledInv
    <3>4. consumed[kind] \in Nat
      BY DEF AccountInv, SettledInv, PolledInv
    <3>5. PICK n \in Nat : n = Cardinality(Items(S, queue))
      BY <3>3, FS_CardinalityType
    <3>6. n = 0
      <4>1. dispatched[kind] = consumed[kind] + n /\ consumed[kind] >= dispatched[kind]
        BY <2>1, <3>3, <3>5
      <4>2. QED
        BY <3>4, <4>1
    <3>7. Items(S, queue) = {}
      BY <3>3, <3>5, <3>6, FS_EmptySet
    <3>8. e \in S /\ \A f \in S : queue[f] \in Seq(Messages)
      BY <3>1, <3>2 DEF Of, PipeInv, PipeTypes
    <3>9. \A f \in S : queue[f] = <<>>
      BY <3>7, <3>8, NoItems
    <3>10. QED
      BY <3>8, <3>9
  <2>3. Drained'
    BY <1>0, <1>1, <2>1, <2>2 DEF Drained, LeftInv, EndInv, TickLane
  <2>4. EndInv'
    BY <2>1, <2>3 DEF EndInv
  <2>5. QED
    BY <1>2, <1>3, <2>4
<1>8. CASE JoinDrains
  <2>1. /\ main = "join drains" /\ main' = "exited" /\ UNCHANGED <<outcome, running, exited>>
        /\ exit' = IF ~healthy \/ failed THEN "1" ELSE "0"
    BY <1>8 DEF JoinDrains, Exit, Rest, lanes
  <2>2. Drained'
    BY <1>0, <1>1, <2>1 DEF Drained, EndInv
  <2>3. lost > 0 => exit' = "1"
    BY <2>1 DEF AccountInv, SettledInv
  <2>4. EndInv'
    BY <1>1, <2>1, <2>2, <2>3 DEF EndInv
  <2>5. QED
    BY <1>2, <1>3, <2>4
<1>9. QED
  BY <1>2, <1>4, <1>5, <1>6, <1>7, <1>8 DEF MainStep

\* A worker that has returned does not take another step; while one has not, the
\* shutdown waits.
LEMMA WorkerEnd ==
  ASSUME PipeInv, LeftInv, EndInv, main # "exited", NEW l \in Lanes, Worker(l)
  PROVE  LeftInv' /\ EndInv'
<1>1. l \notin exited /\ UNCHANGED <<main, outcome, exit, running>>
  BY DEF Worker, TakeTick, TakeSnapshot, EmitTick, LaneExit, Consume, Outside, process
<1>2. main # "join drains"
  BY <1>1 DEF EndInv, Drained
<1>3. EndInv'
  BY <1>1, <1>2 DEF EndInv
<1>4. CASE LaneExit(l)
  <2>1. /\ ~running /\ lane[l] = <<>> /\ exited' = exited \cup {l}
        /\ UNCHANGED <<lane, channels, held>> /\ (l \in TickLane => Stranded(l))
    BY <1>4 DEF LaneExit, Stranded
  <2>2. \A j \in TickLane : Stranded(j)' <=> Stranded(j)
    BY <2>1 DEF Stranded, Frozen, StatesOf
  <2>3. QED
    BY <1>1, <1>3, <2>1, <2>2 DEF LeftInv
<1>5. ASSUME ~LaneExit(l) PROVE LeftInv'
  <2>1. exited' = exited
    BY <1>5 DEF Worker, TakeTick, TakeSnapshot, EmitTick, Consume, Outside
  <2>2. \A j \in Lanes : j # l => lane'[j] = lane[j]
    BY <1>5 DEF Worker, TakeTick, TakeSnapshot, EmitTick, Consume, PipeInv, PipeTypes
  <2>3. \A j \in TickLane : j # l => held'[j] = held[j]
    <3>1. held \in [TickLane -> SUBSET Messages]
      BY DEF PipeInv, PipeTypes
    <3>2. CASE l \in TickLane /\ \E m \in held[l] : EmitTick(l, m)
      BY <3>1, <3>2 DEF EmitTick
    <3>3. CASE l \notin TickLane /\ TakeSnapshot(l, Head(lane[l]))
      BY <3>3 DEF TakeSnapshot
    <3>4. CASE l \in TickLane /\ lane[l] # <<>> /\ TakeTick(l, Head(lane[l]))
      <4>1. PICK m \in Messages : TakeTick(l, m)
        <5>1. lane[l] \in Seq(Messages)
          BY DEF PipeInv, PipeTypes
        <5>2. QED
          BY <3>4, <5>1, Taken
      <4>2. held' = held \/ \E keep : held' = [held EXCEPT ![l] = keep]
        BY <3>4, <4>1, TakeTickParts DEF PipeInv, Handled
      <4>3. QED
        BY <3>1, <4>2
    <3>5. QED
      BY <1>5, <3>2, <3>3, <3>4 DEF Worker
  <2>4. \A j \in TickLane : j # l => channels'[j] = channels[j]
    <3>1. PipeTypes /\ TableInv
      BY DEF PipeInv
    <3>2. CASE l \in TickLane /\ \E m \in held[l] : EmitTick(l, m)
      BY <3>1, <3>2, EmitIs
    <3>3. CASE l \notin TickLane /\ TakeSnapshot(l, Head(lane[l]))
      BY <3>3 DEF TakeSnapshot
    <3>4. CASE l \in TickLane /\ lane[l] # <<>> /\ TakeTick(l, Head(lane[l]))
      <4>1. PICK m \in Messages : TakeTick(l, m)
        <5>1. lane[l] \in Seq(Messages)
          BY DEF PipeInv, PipeTypes
        <5>2. QED
          BY <3>4, <5>1, Taken
      <4>2. channels' = channels \/ \E states : channels' = [channels EXCEPT ![l] = states]
        BY <3>1, <3>4, <4>1, TakeTickParts DEF Place
      <4>3. QED
        BY <3>1, <4>2 DEF PipeTypes
    <3>5. QED
      BY <1>5, <3>2, <3>3, <3>4 DEF Worker
  <2>5. \A j \in TickLane : j # l => (Stranded(j)' <=> Stranded(j))
    BY <2>3, <2>4 DEF Stranded, Frozen, StatesOf
  <2>6. QED
    BY <1>1, <2>1, <2>2, <2>5 DEF LeftInv
<1>6. QED
  BY <1>3, <1>4, <1>5

\* Every step keeps the invariants of the shutdown.
LEMMA StepEnd ==
  ASSUME PipeInv, AccountInv, LeftInv, EndInv, [Next]_vars
  PROVE  LeftInv' /\ EndInv'
<1>1. CASE Ended \/ UNCHANGED vars
  <2>1. UNCHANGED <<main, outcome, exit, running, exited, lane, held, channels, queue, lost>>
    BY <1>1 DEF Ended, vars, process, lanes, counts
  <2>2. \A l \in TickLane : Stranded(l)' <=> Stranded(l)
    BY <2>1 DEF Stranded, Frozen, StatesOf
  <2>3. QED
    BY <2>1, <2>2 DEF LeftInv, EndInv, Drained
<1>2. CASE MainStep \/ HandleSignal
  BY <1>2, MainEnd
<1>3. ASSUME main # "exited", NEW k \in Callers, Deliver(k) \/ OnMessage(k)
      PROVE  LeftInv' /\ EndInv'
  <2>1. UNCHANGED <<main, outcome, exit, running, exited, held, channels, queue, lost>>
    BY <1>3 DEF Deliver, OnMessage, CountCallback, TestAccepting, Reject, RejectFatal, Throw,
         AdmitMdlMessage, Leave, Callback, process, lanes, counts
  <2>2. lane' = lane \/ running
    BY <1>3 DEF Deliver, OnMessage, CountCallback, TestAccepting, Reject, RejectFatal, Throw,
         AdmitMdlMessage, Leave, Callback, lanes
  <2>3. \A l \in TickLane : Stranded(l)' <=> Stranded(l)
    BY <2>1 DEF Stranded, Frozen, StatesOf
  <2>4. QED
    BY <1>3, <2>1, <2>2, <2>3 DEF LeftInv, EndInv, Drained
<1>4. ASSUME main # "exited", NEW l \in Lanes, Worker(l)
      PROVE  LeftInv' /\ EndInv'
  BY <1>4, WorkerEnd
<1>5. ASSUME main # "exited", NEW o \in OwnerIds, Drain(o)
      PROVE  LeftInv' /\ EndInv'
  <2>1. UNCHANGED <<main, outcome, exit, running, exited, lane, held, channels, lost>>
    BY <1>5 DEF Drain, Poll, TestDrainRunning, process, lanes, counts
  <2>2. queue' = queue \/ \E e \in Edges : queue[e] # <<>>
    BY <1>5, DrainIs DEF PipeInv
  <2>3. \A l \in TickLane : Stranded(l)' <=> Stranded(l)
    BY <2>1 DEF Stranded, Frozen, StatesOf
  <2>4. QED
    BY <1>5, <2>1, <2>2, <2>3 DEF LeftInv, EndInv, Drained
<1>6. QED
  BY <1>1, <1>2, <1>3, <1>4, <1>5 DEF Next, Alive

ExitInv == PipeInv /\ AccountInv /\ FaultInv /\ LeftInv /\ EndInv

\* After the orderly shutdown of any number of lanes and owners nothing is left in a
\* lane or a queue, and in a recovery table only ticks of frozen channels.  Every
\* accepted message was consumed as a record, or counted, or is one of these, or its
\* loss shows in the exit code; with exit code 0 every frozen channel's fault was
\* consumed (apps/mdl_ingestd.cpp, SequenceRecovery::FreezeFromOpen and Flush).
THEOREM OrderlyExitHolds == Spec => []OrderlyExit
<1>1. Init => ExitInv
  BY InitPipe, InitAccount, InitFault, InitEnd DEF ExitInv, AccountInv
<1>2. ExitInv /\ [Next]_vars => ExitInv'
  BY StepPipe, StepAccount, StepFault, StepEnd DEF ExitInv
<1>3. ExitInv => OrderlyExit
  <2> SUFFICES ASSUME ExitInv, main = "exited", outcome = "stopped", exit # "terminated"
               PROVE  /\ \A e \in Edges : queue[e] = <<>>
                      /\ \A l \in Lanes : lane[l] = <<>>
                      /\ \A l \in TickLane : \A m \in held[l] : Frozen(l, Key(m))
                      /\ admitted = Total(consumed) + set_aside + lost + Cardinality(Retained)
                      /\ lost > 0 => exit = "1"
                      /\ exit = "0" => Cardinality(FrozenChannels) = consumed["fault"]
    BY DEF OrderlyExit
  <2>1. Drained /\ (lost > 0 => exit = "1") /\ PipeTypes /\ AccountInv /\ FaultInv
    BY DEF ExitInv, EndInv, PipeInv
  <2>2. Items(Lanes, lane) = {}
    BY <2>1, NoItems DEF Drained, PipeTypes
  <2>3. PICK kept \in Nat : kept = Cardinality(Retained)
    BY <2>1, AcceptedNat
  <2>4. ASSUME NEW kind \in Kinds PROVE dispatched[kind] = consumed[kind]
    <3>1. PICK S : S = Of(kind)
      OBVIOUS
    <3>2. \A e \in S : queue[e] \in Seq(Messages) /\ queue[e] = <<>>
      BY <2>1, <3>1 DEF Of, Drained, PipeTypes
    <3>3. Items(S, queue) = {}
      BY <3>2, NoItems
    <3>4. dispatched[kind] = consumed[kind] + 0 /\ consumed[kind] \in Nat
      BY <2>1, <3>1, <3>3, FS_EmptySet DEF AccountInv, SettledInv, PolledInv
    <3>5. QED
      BY <3>4
  <2>5. Total(dispatched) = Total(consumed)
    BY <2>4 DEF Total, Kinds
  <2>6. admitted = 0 + kept + Settled
    BY <2>1, <2>2, <2>3, FS_EmptySet DEF AccountInv, AcceptedInv
  <2>7. admitted = Total(consumed) + set_aside + lost + kept
    <3>1. Settled \in Nat /\ Settled = Total(consumed) + set_aside + lost
      BY <2>1, <2>5, AcceptedNat DEF Settled
    <3>2. QED
      BY <2>6, <3>1
  <2>8. ASSUME exit = "0" PROVE Cardinality(FrozenChannels) = consumed["fault"]
    <3>1. PICK n \in Nat : n = Cardinality(FrozenChannels)
      BY <2>1, FS_CardinalityType DEF FaultInv
    <3>2. lost = 0 /\ dispatched["fault"] \in Nat /\ dispatched["fault"] = consumed["fault"]
      BY <2>1, <2>4, <2>8 DEF AccountInv, SettledInv, PolledInv, Kinds
    <3>3. QED
      BY <2>1, <3>1, <3>2 DEF FaultInv
  <2>9. QED
    BY <2>1, <2>3, <2>7, <2>8 DEF Drained, Stranded
<1>4. QED
  BY <1>1, <1>2, <1>3, PTL DEF Spec
=============================================================================
