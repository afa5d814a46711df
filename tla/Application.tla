---------------------------- MODULE Application ----------------------------
(***************************************************************************)
(* The running process: main (apps/mdl_ingestd.cpp), the SDK session and   *)
(* its message handler (src/sdk_runtime.cpp), and between them the engine  *)
(* seen from outside (src/engine.cpp): admission routes a message to a     *)
(* decoder lane, the lane decodes it and publishes records into the        *)
(* dispatcher's queues, the drain threads poll those queues.               *)
(*                                                                         *)
(* The other modules look inside: Admission at Start, Admit and Stop,      *)
(* LaneStorage and SpscRing at the queues, SequenceRecovery at what a lane *)
(* does with a tick, GapMailbox at gaps.  Here admission is one step, a    *)
(* queue a bounded sequence, and a tick lane holds ticks that are not next *)
(* back for as long as it likes, emitting a channel's in native order.     *)
(*                                                                         *)
(* The SDK is external.  It calls OnMessage from the creation of the       *)
(* subscriber on, even before Connect returns.  IOManager::Shutdown ends   *)
(* new calls, not the ones that have begun, and may throw.                 *)
(***************************************************************************)
EXTENDS Naturals, Sequences, OpenAddressing

CONSTANTS
  Mode,             \* start_mode: "FROM_OPEN" or "PARTIAL"
  Callers,          \* the SDK's threads
  TickLanes, SnapshotLanes, Owners,   \* tick_decoder_lanes, ..., instrument_workers
  SlotsPerLane, QueueCapacity, MaxChannels,
  MarketShift,      \* 2^32: the market is the high half of a route and a channel key
  HashChannel,      \* the hash of a channel key
  Messages,         \* messages the SDK may deliver
  MaxCallbacks      \* bound: calls of OnMessage

Verdicts == {"ok", "miss", "error"}   \* decoded, not in the catalog, not decoded
Message == [stream : {"tick", "snapshot"}, market : {4, 6}, channel : 0..(MarketShift - 1),
            seq : Nat \ {0}, ordinal : Nat, verdict : Verdicts]

Key(m) == m.market * MarketShift + m.channel
Keys == {Key(m) : m \in Messages}

ASSUME ApplicationAssumption ==
  /\ Mode \in {"FROM_OPEN", "PARTIAL"} /\ IsFiniteSet(Callers)
  /\ TickLanes \in Nat \ {0} /\ SnapshotLanes \in Nat \ {0} /\ Owners \in Nat \ {0}
  /\ SlotsPerLane \in Nat \ {0} /\ QueueCapacity \in Nat \ {0}
  /\ MaxChannels \in Nat \ {0} /\ MarketShift \in Nat \ {0} /\ MaxCallbacks \in Nat
  /\ Messages \subseteq Message

\* A hash is masked to the table, whose size is a power of two and not zero.
ASSUME HashAssumption ==
  /\ TableSize(MaxChannels) \in Nat \ {0}
  /\ HashChannel \in [Keys -> 0..(TableSize(MaxChannels) - 1)]

Lanes == ({"tick"} \X (0..(TickLanes - 1))) \cup ({"snapshot"} \X (0..(SnapshotLanes - 1)))
TickLane == {l \in Lanes : l[1] = "tick"}
OwnerIds == 0..(Owners - 1)
Kinds == {"tick", "snapshot", "late", "fault"}

\* The producers of a kind of record, and the owner that polls it.
Producers(kind) == IF kind = "snapshot" THEN SnapshotLanes ELSE TickLanes
Edges == {e \in Kinds \X (0..(TickLanes + SnapshotLanes)) \X OwnerIds :
            e[2] < Producers(e[1]) /\ (e[1] \in {"late", "fault"} => e[3] = 0)}
Poller(edge) == <<edge[1], edge[3]>>

VARIABLES
  main, outcome, exit,   \* main: place; how the session ended; exit code of the process
  drain_running, stage,  \* the drain threads: flag; place of every owner's loop
  sdk,                   \* the vendor's manager: "none", "open", "closed"
  accepting, active, failed,   \* MdlMessageHandler: accepting_, active_callbacks_, failed_
  caller, callbacks,     \* place of every SDK thread; calls so far
  running, healthy,      \* engine: started and not stopped; no fatal error
  lane, exited,          \* messages in every lane; lanes whose worker has returned
  table, channels,       \* each tick lane: channel table; key and frontier of its states
  held,                  \* each tick lane: ticks that recovery retains
  queue, cursor,         \* dispatcher: queues; round-robin cursors
  dispatched, consumed,  \* counts of the engine and of the drain threads
  received, bypassed,    \* history: sequences each owner got; polls that passed over an edge
  admitted, set_aside, lost  \* history: messages accepted; counted only; lost and fatal

process == <<main, outcome, exit>>
session == <<sdk, accepting, active, failed, caller, callbacks>>
lanes == <<lane, exited, table, channels, held>>
drain == <<drain_running, stage, cursor, consumed, received, bypassed>>
counts == <<admitted, set_aside, lost>>
vars == <<process, session, running, healthy, lanes, queue, dispatched, drain, counts>>

Init ==
  /\ main = "startup" /\ outcome = "none" /\ exit = "none"
  /\ drain_running = FALSE /\ stage = [o \in OwnerIds |-> "exited"]
  /\ sdk = "none" /\ accepting = TRUE /\ active = 0 /\ failed = FALSE
  /\ caller = [k \in Callers |-> "idle"] /\ callbacks = 0
  /\ running = FALSE /\ healthy = TRUE
  /\ lane = [l \in Lanes |-> <<>>] /\ exited = Lanes
  /\ table = [l \in TickLane |-> EmptyTable(MaxChannels)]
  /\ channels = [l \in TickLane |-> <<>>]
  /\ held = [l \in TickLane |-> {}]
  /\ queue = [e \in Edges |-> <<>>]
  /\ cursor = [p \in {Poller(e) : e \in Edges} |-> 0]
  /\ dispatched = [k \in Kinds |-> 0] /\ consumed = [k \in Kinds |-> 0]
  /\ received = [o \in OwnerIds |-> [key \in Keys |-> <<>>]] /\ bypassed = [e \in Edges |-> 0]
  /\ admitted = 0 /\ set_aside = 0 /\ lost = 0

-----------------------------------------------------------------------------
(* MdlMessageHandler::OnMessage on an SDK thread. *)

\* External: the SDK enters OnMessage.
Deliver(k) ==
  /\ sdk = "open" /\ caller[k] = "idle" /\ callbacks < MaxCallbacks
  /\ callbacks' = callbacks + 1
  /\ caller' = [caller EXCEPT ![k] = "count"]
  /\ UNCHANGED <<process, sdk, accepting, active, failed, running, healthy, lanes, queue,
                 dispatched, drain, counts>>

Callback(k, from, to) ==
  /\ caller[k] = from
  /\ caller' = [caller EXCEPT ![k] = to]
  /\ UNCHANGED <<process, sdk, accepting, callbacks, drain, dispatched, queue>>

\* Mutant: the gate is read before the callback is counted.
CountCallbackLate(k) ==
  /\ \/ Callback(k, "count", IF accepting THEN "counting" ELSE "idle") /\ UNCHANGED active
     \/ Callback(k, "counting", "admit") /\ active' = active + 1
  /\ UNCHANGED <<failed, running, healthy, lanes, counts>>

\* ActiveCallbackGuard.
CountCallback(k) ==
  /\ Callback(k, "count", "test")
  /\ active' = active + 1
  /\ UNCHANGED <<failed, running, healthy, lanes, counts>>

\* Mutant: the early return does not undo the count.
TestAcceptingLeaky(k) ==
  /\ Callback(k, "test", IF accepting THEN "admit" ELSE "idle")
  /\ UNCHANGED <<active, failed, running, healthy, lanes, counts>>

TestAccepting(k) ==
  /\ Callback(k, "test", IF accepting THEN "admit" ELSE "leave")
  /\ UNCHANGED <<active, failed, running, healthy, lanes, counts>>

\* Null message, missing or invalid header, missing body, or rejected by Admit.
Reject(k) ==
  /\ Callback(k, "admit", "leave")
  /\ UNCHANGED <<active, failed, running, healthy, lanes, counts>>

\* Rejected by Admit, and fatal: another call is inside, or the body exceeds its slot.
RejectFatal(k) ==
  /\ Callback(k, "admit", "leave")
  /\ (running /\ healthy) \/ \E j \in Callers \ {k} : caller[j] = "admit"
  /\ healthy' = FALSE
  /\ UNCHANGED <<active, failed, running, lanes, counts>>

\* The vendor's message throws.
Throw(k) ==
  /\ Callback(k, "admit", "leave") /\ failed' = TRUE
  /\ UNCHANGED <<active, running, healthy, lanes, counts>>

\* Mutant: ticks are routed by instrument, as snapshots are.
RouteByOrdinal(m) ==
  IF m.stream = "tick" THEN <<"tick", (m.ordinal \div Owners) % TickLanes>>
  ELSE <<"snapshot", m.ordinal % SnapshotLanes>>

\* A tick by market and channel, a snapshot by a hash of its identity.
Route(m) ==
  IF m.stream = "tick"
    THEN <<"tick", Key(m) % TickLanes>>
    ELSE <<"snapshot", m.ordinal % SnapshotLanes>>

\* Admit accepts the message, or finds its lane full, which is fatal.
AdmitMdlMessage(k, m) ==
  /\ Callback(k, "admit", "leave")
  /\ running /\ healthy
  /\ \E l \in {Route(m)} :
       \/ /\ Len(lane[l]) < SlotsPerLane
          /\ lane' = [lane EXCEPT ![l] = Append(@, m)]
          /\ admitted' = admitted + 1 /\ UNCHANGED healthy
       \/ /\ Len(lane[l]) = SlotsPerLane
          /\ healthy' = FALSE /\ UNCHANGED <<lane, admitted>>
  /\ UNCHANGED <<active, failed, running, exited, table, channels, held, set_aside, lost>>

\* ~ActiveCallbackGuard.
Leave(k) ==
  /\ Callback(k, "leave", "idle")
  /\ active' = active - 1
  /\ UNCHANGED <<failed, running, healthy, lanes, counts>>

OnMessage(k) ==
  \/ CountCallback(k) \/ TestAccepting(k)
  \/ Reject(k) \/ RejectFatal(k) \/ Throw(k) \/ (\E m \in Messages : AdmitMdlMessage(k, m))
  \/ Leave(k)

-----------------------------------------------------------------------------
(* The decoder lanes. *)

InstrumentOwner(m) == m.ordinal % Owners

\* The states of a lane that are a channel's.
StatesOf(l, key) == {i \in DOMAIN channels[l] : channels[l][i].key = key}
Frozen(l, key) == \E i \in StatesOf(l, key) : channels[l][i].frozen

\* A ChannelState for a key whose probe ended in a cell: its index, 0 for none, and
\* the lane's table and states.
FindOrCreate(l, key, cell) ==
  LET index == IF cell \in DOMAIN table[l] THEN table[l][cell] ELSE 0
      new == [key |-> key, frontier |-> 0, frozen |-> FALSE]
  IN  IF index # 0 \/ cell \notin DOMAIN table[l] \/ Len(channels[l]) = MaxChannels
        THEN [index |-> index, table |-> table[l], states |-> channels[l]]
        ELSE [index |-> Len(channels[l]) + 1,
              table |-> [table[l] EXCEPT ![cell] = Len(channels[l]) + 1],
              states |-> Append(channels[l], new)]

\* PublishBounded on one edge of the dispatcher: a queue that stays full is fatal.
Publish(edge, m) ==
  IF Len(queue[edge]) < QueueCapacity
    THEN /\ queue' = [queue EXCEPT ![edge] = Append(@, m)]
         /\ dispatched' = [dispatched EXCEPT ![edge[1]] = @ + 1]
         /\ UNCHANGED <<healthy, lost>>
    ELSE /\ healthy' = FALSE /\ lost' = lost + 1
         /\ UNCHANGED <<queue, dispatched>>

PublishOnly(edge, m) == Publish(edge, m) /\ UNCHANGED set_aside
SetAside == set_aside' = set_aside + 1 /\ UNCHANGED <<queue, dispatched, healthy, lost>>

\* To the queue of the instrument's owner; without a catalog entry, to nobody.
EdgeOf(l, m) == <<l[1], l[2], InstrumentOwner(m)>>
Dispatch(l, m) == IF m.verdict = "ok" THEN PublishOnly(EdgeOf(l, m), m) ELSE SetAside
Fits(l, m) == m.verdict = "ok" => Len(queue[EdgeOf(l, m)]) < QueueCapacity

Lose == healthy' = FALSE /\ lost' = lost + 1 /\ UNCHANGED <<queue, dispatched, set_aside>>

Outside == <<process, session, running, drain, admitted, exited>>

\* TryConsume.
Consume(l) ==
  /\ lane' = [lane EXCEPT ![l] = Tail(@)]
  /\ UNCHANGED Outside

\* The state of m's channel becomes what the handler made of it.
Place(l, found, state) ==
  /\ table' = [table EXCEPT ![l] = found.table]
  /\ channels' = [channels EXCEPT ![l] = [found.states EXCEPT ![found.index] = state]]

HeldOf(l, key) == {h \in held[l] : Key(h) = key}

\* Another body at the native position of a retained one.
Conflict(l, m) == \E h \in HeldOf(l, Key(m)) : h.seq = m.seq /\ h # m

\* No state left for a decoded tick's channel, or no memory for its table.
TakeUnplaced(l, m, found) ==
  /\ m.verdict # "error" /\ (found.index = 0 \/ found.states # channels[l])
  /\ Lose
  /\ UNCHANGED <<table, channels, held>>

\* A decode failure: counted in PARTIAL; in FROM_OPEN fatal, without a native position
\* or a state for its channel.
TakeError(l, m) ==
  /\ m.verdict = "error"
  /\ IF Mode = "PARTIAL" THEN SetAside ELSE Lose
  /\ UNCHANGED <<table, channels, held>>

\* FROM_OPEN: a decode failure or a conflict freezes the channel and publishes a
\* fault, once.  What the channel retains stays in its table.
TakeFreeze(l, m, found, state) ==
  /\ Mode = "FROM_OPEN"
  /\ m.verdict = "error" \/ (~state.frozen /\ Conflict(l, m))
  /\ Place(l, found, [state EXCEPT !.frozen = TRUE])
  /\ UNCHANGED held
  /\ IF state.frozen THEN SetAside ELSE PublishOnly(<<"fault", l[2], 0>>, m)

\* The channel is frozen, or the tick is behind the frontier, a duplicate of a
\* retained one or, in PARTIAL, in conflict with one: it is counted, and published
\* for late recovery unless its channel is frozen or it is a duplicate.
TakeLate(l, m, found, state) ==
  /\ m.verdict # "error"
  /\ \/ (state.frozen \/ m \in held[l]) /\ SetAside
     \/ /\ ~state.frozen
        /\ m.seq <= state.frontier \/ (Mode = "PARTIAL" /\ Conflict(l, m))
        /\ PublishOnly(<<"late", l[2], 0>>, m)
  /\ Place(l, found, state)
  /\ UNCHANGED held

\* Recovery retains the tick, for no time at all if it is next.
TakeHold(l, m, found, state) ==
  /\ m.verdict # "error" /\ ~state.frozen
  /\ m.seq > state.frontier /\ \A h \in HeldOf(l, Key(m)) : h.seq # m.seq
  /\ Place(l, found, state)
  /\ held' = [held EXCEPT ![l] = @ \cup {m}]
  /\ UNCHANGED <<queue, dispatched, healthy, lost, set_aside>>

\* A retained tick is next: in PARTIAL, not before the first tick of its channel left.
Due(l, m) ==
  \E i \in StatesOf(l, Key(m)) :
    /\ ~channels[l][i].frozen /\ m.seq = channels[l][i].frontier + 1
    /\ Mode = "FROM_OPEN" \/ channels[l][i].frontier > 0

\* TickWorker: one message of the lane, when the ticks that are next have left.
TakeTick(l, m) ==
  /\ Consume(l)
  /\ \A h \in held[l] : ~Due(l, h)
  /\ \E cell \in {Probe(table[l], HashChannel[Key(m)], StatesOf(l, Key(m)))} :
     \E found \in {FindOrCreate(l, Key(m), cell)} :
       \/ TakeUnplaced(l, m, found) \/ TakeError(l, m)
       \/ /\ found.index # 0
          /\ \E state \in {found.states[found.index]} :
               \/ TakeFreeze(l, m, found, state)
               \/ TakeLate(l, m, found, state) \/ TakeHold(l, m, found, state)

\* The smallest retained tick of a channel that is not frozen leaves.  The frontier
\* passes it unless its queue stays full.
EmitTick(l, m) ==
  /\ \A h \in HeldOf(l, Key(m)) : m.seq <= h.seq
  /\ \E i \in StatesOf(l, Key(m)) :
       /\ ~channels[l][i].frozen
       /\ channels' = [channels EXCEPT ![l][i].frontier =
                         IF Fits(l, m) THEN m.seq ELSE m.seq - 1]
  /\ held' = [held EXCEPT ![l] = @ \ {m}]
  /\ Dispatch(l, m)
  /\ UNCHANGED <<Outside, lane, table>>

\* SnapshotWorker.
TakeSnapshot(l, m) ==
  /\ Consume(l)
  /\ Dispatch(l, m)
  /\ UNCHANGED <<table, channels, held>>

\* The worker returns once the engine is stopped, its lane empty and Flush done,
\* which skips the frozen channels.
LaneExit(l) ==
  /\ ~running /\ lane[l] = <<>>
  /\ l \in TickLane => \A m \in held[l] : Frozen(l, Key(m))
  /\ exited' = exited \cup {l}
  /\ UNCHANGED <<process, session, running, healthy, lane, table, channels, held, queue,
                 dispatched, drain, counts>>

Worker(l) ==
  /\ l \notin exited
  /\ \/ lane[l] # <<>> /\ IF l \in TickLane THEN TakeTick(l, Head(lane[l]))
                                            ELSE TakeSnapshot(l, Head(lane[l]))
     \/ l \in TickLane /\ \E m \in held[l] : EmitTick(l, m)
     \/ LaneExit(l)

-----------------------------------------------------------------------------
(* The drain threads. *)

\* Mutant: every poll starts from producer 0.
FirstPolledFixed(kind, o, ready) == Min(ready)

\* Round robin: the first producer from the cursor on that has a record.
FirstPolled(kind, o, ready) ==
  LET from == cursor[<<kind, o>>]
      later == {p \in ready : p >= from}
  IN  IF later # {} THEN Min(later) ELSE Min(ready)

\* TryPollTick, TryPollSnapshot, TryPollLateRecovery, TryPollFault; the record is counted.
TryPoll(kind, p, o) ==
  LET edge == <<kind, p, o>>
  IN  /\ queue' = [queue EXCEPT ![edge] = Tail(@)]
      /\ cursor' = [cursor EXCEPT ![<<kind, o>>] = (p + 1) % Producers(kind)]
      /\ consumed' = [consumed EXCEPT ![kind] = @ + 1]
      /\ received' = IF kind # "tick" THEN received
                     ELSE LET m == Head(queue[edge])
                          IN  [received EXCEPT ![o][Key(m)] = Append(@, m.seq)]
      /\ bypassed' = [e \in Edges |->
            IF Poller(e) # <<kind, o>> THEN bypassed[e]
            ELSE IF e = edge \/ queue[e] = <<>> THEN 0 ELSE bypassed[e] + 1]

NextStage(o) ==
  [test |-> "tick", tick |-> "snapshot", late |-> "fault", fault |-> "test",
   snapshot |-> IF o = 0 THEN "late" ELSE "test"]

\* The producers whose queue has a record for the stage an owner is in.
Ready(o) == {p \in 0..(Producers(stage[o]) - 1) : queue[<<stage[o], p, o>>] # <<>>}

\* One poll, or on to the next kind when there is nothing; gaps are in GapMailbox.
Poll(o) ==
  /\ stage[o] \in Kinds
  /\ \E ready \in {Ready(o)} :
       \/ /\ ready # {} /\ UNCHANGED stage
          /\ \E p \in {FirstPolled(stage[o], o, ready)} : TryPoll(stage[o], p, o)
       \/ /\ ready = {}
          /\ stage' = [stage EXCEPT ![o] = NextStage(o)[stage[o]]]
          /\ UNCHANGED <<queue, cursor, consumed, received, bypassed>>
  /\ UNCHANGED <<process, session, running, healthy, lanes, dispatched, drain_running, counts>>

TestDrainRunning(o) ==
  /\ stage[o] = "test"
  /\ stage' = [stage EXCEPT ![o] = IF drain_running THEN "tick" ELSE "exited"]
  /\ UNCHANGED <<process, session, running, healthy, lanes, queue, dispatched,
                 drain_running, cursor, consumed, received, bypassed, counts>>

Drain(o) == Poll(o) \/ TestDrainRunning(o)

-----------------------------------------------------------------------------
(* main, and the session's Connect and Shutdown on its thread. *)

Main(from, to) == main = from /\ main' = to
Rest == <<healthy, lanes, queue, dispatched, cursor, consumed, received, bypassed, counts>>
Handler == <<accepting, active, failed, caller, callbacks>>

Exit(code) == exit' = code /\ main' = "exited"

\* Bad options, stream file, catalog or configuration; only to validate; Start fails.
GiveUp ==
  /\ main = "startup" /\ \E code \in {"0", "1", "2"} : Exit(code)
  /\ UNCHANGED <<outcome, session, running, drain_running, stage, Rest>>

\* The engine starts and the drain threads are created.
Startup ==
  /\ Main("startup", "connect")
  /\ running' = TRUE /\ exited' = {}
  /\ drain_running' = TRUE /\ stage' = [o \in OwnerIds |-> "test"]
  /\ UNCHANGED <<outcome, exit, session, healthy, lane, table, channels, held,
                 queue, dispatched, cursor, consumed, received, bypassed, counts>>

\* Connect fails before there is a manager.
ConnectRefused ==
  /\ Main("connect", "connect failed")
  /\ UNCHANGED <<outcome, exit, session, running, drain_running, stage, Rest>>

\* A manager and a subscriber exist: callbacks may come.
CreateSubscriber ==
  /\ Main("connect", "connecting") /\ sdk' = "open"
  /\ UNCHANGED <<outcome, exit, Handler, running, drain_running, stage, Rest>>

ConnectSucceeds ==
  /\ Main("connecting", "loop")
  /\ UNCHANGED <<outcome, exit, session, running, drain_running, stage, Rest>>

\* No subscriber, Connect returned an error text, or something threw: the session
\* is torn down, beginning with StopAccepting.
ConnectFails ==
  /\ Main("connecting", "shut down") /\ outcome' = "failed" /\ accepting' = FALSE
  /\ UNCHANGED <<exit, sdk, active, failed, caller, callbacks, running,
                 drain_running, stage, Rest>>

\* The loop ends: Shutdown, which begins with StopAccepting.
LeaveLoop ==
  /\ Main("loop", "shut down") /\ outcome' = "stopped" /\ accepting' = FALSE
  /\ UNCHANGED <<exit, sdk, active, failed, caller, callbacks, running, drain_running, stage,
                 Rest>>

\* SIGINT or SIGTERM, whose flag only the loop looks at.
HandleSignal == LeaveLoop

StopOnFailure == (~healthy \/ failed) /\ LeaveLoop

\* QuiesceSdkCallbacks: IOManager::Shutdown ...
ShutdownManager ==
  /\ Main("shut down", "await callbacks") /\ sdk' = "closed"
  /\ UNCHANGED <<outcome, exit, Handler, running, drain_running, stage, Rest>>

\* ... which may throw: std::terminate ...
Terminate ==
  /\ main = "shut down" /\ Exit("terminated")
  /\ UNCHANGED <<outcome, session, running, drain_running, stage, Rest>>

\* ... and the wait for the callbacks inside.  Then Stop closes the gate and tells
\* the lanes; when the connection failed, that comes later.
AwaitCallbacks ==
  /\ main = "await callbacks" /\ active = 0
  /\ IF outcome = "failed" THEN main' = "connect failed" /\ UNCHANGED running
                           ELSE main' = "join lanes" /\ running' = FALSE
  /\ UNCHANGED <<outcome, exit, session, drain_running, stage, Rest>>

\* The connect-failure path stops the drain threads first.
StopDrainEarly ==
  /\ Main("connect failed", "join drains early") /\ drain_running' = FALSE
  /\ UNCHANGED <<outcome, exit, session, running, stage, Rest>>

DrainsJoined == \A o \in OwnerIds : stage[o] = "exited"

\* It joins them and calls Stop.
StopEngineLate ==
  /\ Main("join drains early", "join lanes early") /\ DrainsJoined
  /\ running' = FALSE
  /\ UNCHANGED <<outcome, exit, session, drain_running, stage, Rest>>

JoinLanesLate ==
  /\ main = "join lanes early" /\ exited = Lanes /\ Exit("1")
  /\ UNCHANGED <<outcome, session, running, drain_running, stage, Rest>>

\* Mutant: only ticks and snapshots are waited for.
AwaitMarketData ==
  /\ Main("join lanes", "join drains") /\ exited = Lanes
  /\ \A kind \in {"tick", "snapshot"} : consumed[kind] >= dispatched[kind]
  /\ drain_running' = FALSE
  /\ UNCHANGED <<outcome, exit, session, running, stage, Rest>>

\* Stop has joined the lanes and the drain threads have caught up.
AwaitConsumed ==
  /\ Main("join lanes", "join drains") /\ exited = Lanes
  /\ \A kind \in Kinds : consumed[kind] >= dispatched[kind]
  /\ drain_running' = FALSE
  /\ UNCHANGED <<outcome, exit, session, running, stage, Rest>>

JoinDrains ==
  /\ main = "join drains" /\ DrainsJoined
  /\ Exit(IF ~healthy \/ failed THEN "1" ELSE "0")
  /\ UNCHANGED <<outcome, session, running, drain_running, stage, Rest>>

MainStep ==
  \/ GiveUp \/ Startup \/ ConnectRefused \/ CreateSubscriber \/ ConnectSucceeds \/ ConnectFails
  \/ StopOnFailure \/ ShutdownManager \/ Terminate \/ AwaitCallbacks
  \/ StopDrainEarly \/ StopEngineLate \/ JoinLanesLate
  \/ AwaitConsumed \/ JoinDrains

\* The process has ended and takes its threads with it.
Ended == main = "exited" /\ UNCHANGED vars

Alive == main # "exited"

Next ==
  \/ Ended
  \/ Alive /\ MainStep
  \/ Alive /\ HandleSignal
  \/ \E k \in Callers : Alive /\ (Deliver(k) \/ OnMessage(k))
  \/ \E l \in Lanes : Alive /\ Worker(l)
  \/ \E o \in OwnerIds : Alive /\ Drain(o)

\* As long as main, a callback or a lane can go on, one of them does, whatever the
\* drain threads do, and these go on too.  This asks less than fairness to every
\* thread.  The SDK need not deliver, nor a signal come.
Busy == MainStep \/ (\E k \in Callers : OnMessage(k)) \/ (\E l \in Lanes : Worker(l))
Fairness ==
  /\ WF_vars(Alive /\ Busy)
  /\ \A o \in OwnerIds : WF_vars(Alive /\ Drain(o))

Spec == Init /\ [][Next]_vars /\ Fairness

-----------------------------------------------------------------------------
(* Properties. *)

\* Once QuiesceSdkCallbacks has returned, no callback is on its way into the
\* engine, whatever the SDK's threads had begun before its shutdown; Stop, the
\* drain and the destructors that follow rely on it (sdk_runtime.cpp:146-167).
SessionQuiet ==
  main \in {"connect failed", "join drains early", "join lanes early",
            "join lanes", "join drains"}
    => \A k \in Callers : caller[k] # "admit"

\* An owner gets the ticks of a channel in strictly ascending native order, across
\* routing, lanes, channel states, dispatch edges and the rotating poll.
NativeOrder ==
  \A o \in OwnerIds, key \in Keys :
    LET r == received[o][key] IN \A i, j \in DOMAIN r : i < j => r[i] < r[j]

\* A channel has one state in its lane, also when its home cell is another's and
\* the probe goes round the end of the table (FindOrCreate).
OneStatePerChannel ==
  \A l \in TickLane : \A i, j \in DOMAIN channels[l] :
    channels[l][i].key = channels[l][j].key => i = j

Total(f) == f["tick"] + f["snapshot"] + f["late"] + f["fault"]

\* The ticks that recovery retains, and the channels that are frozen.
Retained == {m \in Messages : \E l \in TickLane : m \in held[l]}
FrozenChannels == {c \in TickLane \X Keys : Frozen(c[1], c[2])}

\* After the orderly shutdown nothing is left in a lane or a queue, and in a recovery
\* table only ticks of frozen channels.  Every accepted message has been consumed as
\* a record, or counted by its lane, or is one of these, or its loss shows in the
\* exit code; and an exit code of 0 means that the fault of every frozen channel has
\* been consumed, so that what a table keeps was announced.
OrderlyExit ==
  main = "exited" /\ outcome = "stopped" /\ exit # "terminated"
    => /\ \A e \in Edges : queue[e] = <<>>
       /\ \A l \in Lanes : lane[l] = <<>>
       /\ \A l \in TickLane : \A m \in held[l] : Frozen(l, Key(m))
       /\ admitted = Total(consumed) + set_aside + lost + Cardinality(Retained)
       /\ lost > 0 => exit = "1"
       /\ exit = "0" => Cardinality(FrozenChannels) = consumed["fault"]

\* A queue with a record is passed over at most once for every other producer of
\* its kind: no lane starves behind a busy one (TryPollTick and its like).
BoundedBypass == \A e \in Edges : bypassed[e] < Producers(e[1])

\* Once it has begun, the shutdown ends: callbacks drain, lanes are joined, the
\* consumed counts reach the dispatched ones, the drain threads are joined.
ShutdownCompletes == (main = "shut down") ~> (main = "exited")

\* docs/mdl-ingestd-design.md, section 8: the shutdown order ends with the drain of
\* the dispatch queues, so that no exit leaves a record in them.
DrainedAtExit == exit \in {"0", "1"} => \A e \in Edges : queue[e] = <<>>
=============================================================================
