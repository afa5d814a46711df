----------------------------- MODULE Admission -----------------------------
(***************************************************************************)
(* The lifecycle of the engine (class IngestEngine::Impl, src/engine.cpp): *)
(* Start and Stop on the main thread, Admit on the SDK's callback threads, *)
(* the loop of one decoder lane, and SetFatal, which any of them may call. *)
(*                                                                         *)
(* Memory is that of the x86 build.  A store, relaxed or release, enters   *)
(* the thread's store buffer and reaches memory later, in order; a load    *)
(* sees the thread's own buffer first; a read-modify-write and a mutex     *)
(* operation need the buffer to be empty.                                  *)
(*                                                                         *)
(* The lane is a counter of published and one of consumed messages.        *)
(***************************************************************************)
EXTENDS Naturals, Sequences, FiniteSets, FiniteSetsExt

CONSTANTS
  Callers,       \* threads that call Admit (the SDK promises one at a time)
  Slots,         \* slots_per_lane
  MaxCalls       \* bound: calls of Admit

ASSUME AdmissionAssumption ==
  /\ {"main", "worker"} \cap Callers = {}
  /\ Slots \in Nat \ {0} /\ MaxCalls \in Nat

Threads == Callers \cup {"main", "worker"}
Flags == {"accepting", "running", "healthy", "active"}

VARIABLES
  mem,           \* accepting_, running_, healthy_, callback_active_, ready_'s head
  buffer,        \* store buffer of every thread
  fatal_claimed, \* fatal_claimed_
  fatal_error,   \* threads that have written fatal_error_
  pc, ret,       \* place of every thread, and where SetFatal returns to
  tail,          \* messages the worker has consumed
  result,        \* result of every caller's latest call
  began,         \* history: whether that call began healthy, and before Stop
  calls,         \* calls so far
  accepted,      \* history: messages Admit has accepted
  early          \* history: those whose call began before Stop was called

fatal == <<fatal_claimed, fatal_error>>
history == <<result, began, calls, accepted, early>>
vars == <<mem, buffer, fatal, pc, ret, tail, history>>

Init ==
  /\ mem = [accepting |-> FALSE, running |-> FALSE, healthy |-> TRUE,
            active |-> FALSE, head |-> 0]
  /\ buffer = [t \in Threads |-> <<>>]
  /\ fatal_claimed = FALSE /\ fatal_error = {}
  /\ pc = [t \in Threads |-> CASE t = "main" -> "new"
                               [] t = "worker" -> "off"
                               [] OTHER -> "idle"]
  /\ ret = [t \in Threads |-> "idle"]
  /\ tail = 0
  /\ result = [k \in Callers |-> "none"]
  /\ began = [k \in Callers |-> [healthy |-> TRUE, early |-> TRUE]]
  /\ calls = 0 /\ accepted = 0 /\ early = 0

-----------------------------------------------------------------------------
(* Memory. *)
Load(t, loc) ==
  LET own == {i \in 1..Len(buffer[t]) : buffer[t][i].loc = loc}
  IN  IF own = {} THEN mem[loc] ELSE buffer[t][Max(own)].val

Store(t, loc, val) ==
  /\ buffer' = [buffer EXCEPT ![t] = Append(@, [loc |-> loc, val |-> val])]
  /\ UNCHANGED mem

Fenced(t) == buffer[t] = <<>>

Commit(t) ==
  /\ buffer[t] # <<>>
  /\ mem' = [mem EXCEPT ![Head(buffer[t]).loc] = Head(buffer[t]).val]
  /\ buffer' = [buffer EXCEPT ![t] = Tail(@)]
  /\ UNCHANGED <<fatal, pc, ret, tail, history>>

Goto(t, label) == pc' = [pc EXCEPT ![t] = label]
CallFatal(t, label) == Goto(t, "claim") /\ ret' = [ret EXCEPT ![t] = label]
Memory == <<mem, buffer>>

-----------------------------------------------------------------------------
(* SetFatal. *)

ClaimFatal(t) ==
  /\ pc[t] = "claim" /\ Fenced(t)
  /\ fatal_claimed' = TRUE
  /\ Goto(t, IF fatal_claimed THEN ret[t] ELSE "close")
  /\ UNCHANGED <<Memory, fatal_error, ret, tail, history>>

CloseOnFatal(t) ==
  /\ pc[t] = "close"
  /\ Store(t, "accepting", FALSE)
  /\ Goto(t, "diagnose")
  /\ UNCHANGED <<fatal, ret, tail, history>>

\* Mutant: the health flag is stored before the diagnostic is written.
DiagnoseLate(t) ==
  /\ pc[t] \in {"diagnose", "unhealthy"} /\ Fenced(t)
  /\ IF pc[t] = "diagnose"
       THEN Store(t, "healthy", FALSE) /\ Goto(t, "unhealthy") /\ UNCHANGED fatal_error
       ELSE /\ fatal_error' = fatal_error \cup {t}
            /\ Goto(t, ret[t]) /\ UNCHANGED Memory
  /\ UNCHANGED <<fatal_claimed, ret, tail, history>>

\* fatal_error_ is written under fatal_mutex_.
Diagnose(t) ==
  /\ pc[t] = "diagnose" /\ Fenced(t)
  /\ fatal_error' = fatal_error \cup {t}
  /\ Goto(t, "unhealthy")
  /\ UNCHANGED <<Memory, fatal_claimed, ret, tail, history>>

BecomeUnhealthy(t) ==
  /\ pc[t] = "unhealthy"
  /\ Store(t, "healthy", FALSE)
  /\ Goto(t, ret[t])
  /\ UNCHANGED <<fatal, ret, tail, history>>

-----------------------------------------------------------------------------
(* Admit. *)

Now == [healthy |-> mem.healthy,
        early |-> pc["main"] \notin {"wait", "join", "stopped"}]

\* Mutant: the flag is tested and then stored.
EnterTestThenSet(k) ==
  /\ pc[k] = "idle" /\ calls < MaxCalls
  /\ calls' = calls + 1
  /\ began' = [began EXCEPT ![k] = Now]
  /\ IF Load(k, "active")
       THEN CallFatal(k, "idle") /\ result' = [result EXCEPT ![k] = "rejected"]
            /\ UNCHANGED Memory
       ELSE Goto(k, "accepting") /\ result' = [result EXCEPT ![k] = "none"]
            /\ Store(k, "active", TRUE) /\ UNCHANGED ret
  /\ UNCHANGED <<fatal, tail, accepted, early>>

\* test_and_set of callback_active_; a concurrent callback is fatal.
Enter(k) ==
  /\ pc[k] = "idle" /\ calls < MaxCalls /\ Fenced(k)
  /\ calls' = calls + 1
  /\ began' = [began EXCEPT ![k] = Now]
  /\ IF mem.active
       THEN CallFatal(k, "idle") /\ result' = [result EXCEPT ![k] = "rejected"]
            /\ UNCHANGED mem
       ELSE Goto(k, "accepting") /\ result' = [result EXCEPT ![k] = "none"]
            /\ mem' = [mem EXCEPT !.active = TRUE] /\ UNCHANGED ret
  /\ UNCHANGED <<buffer, fatal, tail, accepted, early>>

\* One of the three flags is loaded: on to the next one, or reject.
LoadFlag(k, flag, next) ==
  /\ pc[k] = flag
  /\ IF Load(k, flag)
       THEN Goto(k, next) /\ UNCHANGED result
       ELSE Goto(k, "clear") /\ result' = [result EXCEPT ![k] = "rejected"]
  /\ UNCHANGED <<Memory, fatal, ret, tail, began, calls, accepted, early>>

CheckAccepting(k) == LoadFlag(k, "accepting", "running")
CheckRunning(k) == LoadFlag(k, "running", "healthy")

\* Mutant: healthy_ is not looked at.
CheckHealthyNot(k) ==
  /\ pc[k] = "healthy" /\ Goto(k, "validate")
  /\ UNCHANGED <<Memory, fatal, ret, tail, history>>

CheckHealthy(k) == LoadFlag(k, "healthy", "validate")

\* The checks of header, body, stream and route: one that fails rejects the
\* message; a body beyond its configured capacity is a lost message and fatal.
Validate(k) ==
  /\ pc[k] = "validate"
  /\ \/ Goto(k, "publish") /\ UNCHANGED <<ret, result>>
     \/ Goto(k, "clear") /\ result' = [result EXCEPT ![k] = "rejected"] /\ UNCHANGED ret
     \/ CallFatal(k, "clear") /\ result' = [result EXCEPT ![k] = "lost"]
  /\ UNCHANGED <<Memory, fatal, tail, began, calls, accepted, early>>

LaneFull(head) == head - tail >= Slots

\* Mutant: a full lane rejects the message and nothing else.
PublishToLaneQuietly(k) ==
  /\ pc[k] = "publish"
  /\ LET head == Load(k, "head")
     IN  IF LaneFull(head)
           THEN /\ Goto(k, "clear") /\ result' = [result EXCEPT ![k] = "lost"]
                /\ UNCHANGED <<Memory, ret, accepted, early>>
           ELSE /\ Store(k, "head", head + 1) /\ accepted' = accepted + 1
                /\ early' = IF began[k].early THEN early + 1 ELSE early
                /\ result' = [result EXCEPT ![k] = "accepted"]
                /\ Goto(k, "clear") /\ UNCHANGED ret
  /\ UNCHANGED <<fatal, tail, began, calls>>

\* TryPublish: a full lane is a lost message and fatal.
PublishToLane(k) ==
  /\ pc[k] = "publish"
  /\ LET head == Load(k, "head")
     IN  IF LaneFull(head)
           THEN /\ CallFatal(k, "clear") /\ result' = [result EXCEPT ![k] = "lost"]
                /\ UNCHANGED <<Memory, accepted, early>>
           ELSE /\ Store(k, "head", head + 1) /\ accepted' = accepted + 1
                /\ early' = IF began[k].early THEN early + 1 ELSE early
                /\ result' = [result EXCEPT ![k] = "accepted"]
                /\ Goto(k, "clear") /\ UNCHANGED ret
  /\ UNCHANGED <<fatal, tail, began, calls>>

\* Mutant: only an accepted call clears the flag.
LeaveWhenAccepted(k) ==
  /\ pc[k] = "clear"
  /\ IF result[k] = "accepted" THEN Store(k, "active", FALSE) ELSE UNCHANGED Memory
  /\ Goto(k, "idle")
  /\ UNCHANGED <<fatal, ret, tail, history>>

\* ~CallbackGuard.
Leave(k) ==
  /\ pc[k] = "clear"
  /\ Store(k, "active", FALSE)
  /\ Goto(k, "idle")
  /\ UNCHANGED <<fatal, ret, tail, history>>

-----------------------------------------------------------------------------
(* The loop of a decoder lane. *)

\* TryConsume, decode, publish (which may be fatal) and Release.
Consume ==
  /\ pc["worker"] = "loop" /\ tail < Load("worker", "head")
  /\ tail' = tail + 1
  /\ \/ UNCHANGED <<pc, ret>>
     \/ CallFatal("worker", "loop")
  /\ UNCHANGED <<Memory, fatal, history>>

LaneIdle ==
  /\ pc["worker"] = "loop" /\ tail = Load("worker", "head")
  /\ Goto("worker", "idle")
  /\ UNCHANGED <<Memory, fatal, ret, tail, history>>

TestRunning ==
  /\ pc["worker"] = "idle"
  /\ Goto("worker", IF Load("worker", "running") THEN "loop" ELSE "last")
  /\ UNCHANGED <<Memory, fatal, ret, tail, history>>

\* The lane is empty and the engine stopped: Flush, which may be fatal, and exit.
ExitWhenEmpty ==
  /\ pc["worker"] = "last"
  /\ IF tail < Load("worker", "head")
       THEN Goto("worker", "loop") /\ UNCHANGED ret
       ELSE \/ Goto("worker", "exited") /\ UNCHANGED ret
            \/ CallFatal("worker", "exited")
  /\ UNCHANGED <<Memory, fatal, tail, history>>

-----------------------------------------------------------------------------
(* Start and Stop. *)
Start ==
  /\ pc["main"] = "new"
  /\ Store("main", "running", TRUE)
  /\ Goto("main", "spawn")
  /\ UNCHANGED <<fatal, ret, tail, history>>

\* The thread is created and perhaps pinned; creating or pinning may fail.
Spawn ==
  /\ pc["main"] = "spawn" /\ Fenced("main")
  /\ \/ pc' = [pc EXCEPT !["worker"] = "loop", !["main"] = "open"] /\ UNCHANGED ret
     \/ CallFatal("main", "stop")
     \/ /\ pc' = [pc EXCEPT !["worker"] = "loop", !["main"] = "claim"]
        /\ ret' = [ret EXCEPT !["main"] = "pinned"]
  /\ UNCHANGED <<Memory, fatal, tail, history>>

CheckPinned ==
  /\ pc["main"] = "pinned"
  /\ Goto("main", IF Load("main", "healthy") THEN "open" ELSE "stop")
  /\ UNCHANGED <<Memory, fatal, ret, tail, history>>

Open ==
  /\ pc["main"] = "open"
  /\ Store("main", "accepting", TRUE)
  /\ Goto("main", "verify")
  /\ UNCHANGED <<fatal, ret, tail, history>>

\* A lane may have failed meanwhile: close again and stop.
Verify ==
  /\ pc["main"] = "verify"
  /\ IF Load("main", "healthy")
       THEN Goto("main", "started") /\ UNCHANGED Memory
       ELSE Goto("main", "stop") /\ Store("main", "accepting", FALSE)
  /\ UNCHANGED <<fatal, ret, tail, history>>

\* Stop is called: the gate is closed.
Stop ==
  /\ pc["main"] \in {"started", "stop"}
  /\ Store("main", "accepting", FALSE)
  /\ Goto("main", "wait")
  /\ UNCHANGED <<fatal, ret, tail, history>>

SpinOnCallback == pc["main"] = "wait" /\ Load("main", "active") /\ UNCHANGED vars

\* Mutant: Stop does not wait for the callback that is inside.
AwaitNobody ==
  /\ pc["main"] = "wait"
  /\ Store("main", "running", FALSE)
  /\ Goto("main", "join")
  /\ UNCHANGED <<fatal, ret, tail, history>>

AwaitCallback ==
  /\ pc["main"] = "wait" /\ ~Load("main", "active")
  /\ Store("main", "running", FALSE)
  /\ Goto("main", "join")
  /\ UNCHANGED <<fatal, ret, tail, history>>

Join ==
  /\ pc["main"] = "join"
  /\ pc["worker"] \in {"off", "exited"} /\ Fenced("worker")
  /\ Goto("main", "stopped")
  /\ UNCHANGED <<Memory, fatal, ret, tail, history>>

SetFatal(t) == ClaimFatal(t) \/ CloseOnFatal(t) \/ Diagnose(t) \/ BecomeUnhealthy(t)

Admit(k) ==
  \/ CheckAccepting(k) \/ CheckRunning(k) \/ CheckHealthy(k)
  \/ Validate(k) \/ PublishToLane(k) \/ Leave(k)

Worker == Consume \/ LaneIdle \/ TestRunning \/ ExitWhenEmpty

Main ==
  \/ Start \/ Spawn \/ CheckPinned \/ Open \/ Verify
  \/ SpinOnCallback \/ AwaitCallback \/ Join

Terminated ==
  /\ pc["main"] = "stopped" /\ calls = MaxCalls
  /\ \A k \in Callers : pc[k] = "idle" /\ Fenced(k)
  /\ UNCHANGED vars

Next ==
  \/ \E t \in Threads : Commit(t) \/ SetFatal(t)
  \/ \E k \in Callers : Enter(k) \/ Admit(k)
  \/ Worker \/ Main \/ Stop \/ Terminated

\* Every thread goes on with the call it is in, stores reach memory, and Start's
\* caller stops the engine on failure; nothing makes the SDK call or the
\* application stop a running engine.
Fairness ==
  /\ \A t \in Threads : WF_vars(Commit(t)) /\ WF_vars(SetFatal(t))
  /\ \A k \in Callers : WF_vars(Admit(k))
  /\ WF_vars(Worker) /\ WF_vars(Main)
  /\ WF_vars(pc["main"] = "stop" /\ Stop)

Spec == Init /\ [][Next]_vars /\ Fairness

-----------------------------------------------------------------------------
InFatal == {"claim", "close", "diagnose", "unhealthy"}
Labels ==
  [main |-> {"new", "spawn", "pinned", "open", "verify", "started", "stop", "wait",
             "join", "stopped"} \cup InFatal,
   worker |-> {"off", "loop", "idle", "last", "exited"} \cup InFatal]
CallerLabels ==
  {"idle", "accepting", "running", "healthy", "validate", "publish", "clear"} \cup InFatal

\* Flags are Booleans, the lane holds at most Slots messages beyond the consumed
\* ones, and every thread is at a place of its own code.
TypeOK ==
  /\ \A f \in Flags : mem[f] \in BOOLEAN
  /\ mem.head \in 0..MaxCalls /\ tail \in 0..mem.head /\ mem.head - tail <= Slots
  /\ \A t \in Threads : \A i \in 1..Len(buffer[t]) :
       buffer[t][i].loc \in DOMAIN mem
  /\ fatal_claimed \in BOOLEAN /\ fatal_error \subseteq Threads
  /\ pc["main"] \in Labels.main /\ pc["worker"] \in Labels.worker
  /\ \A k \in Callers :
       /\ pc[k] \in CallerLabels
       /\ result[k] \in {"none", "accepted", "rejected", "lost"}
  /\ calls \in 0..MaxCalls /\ accepted \in 0..calls /\ early \in 0..accepted

\* Between test_and_set and the guard's destructor.
Inside(k) ==
  \/ pc[k] \in {"accepting", "running", "healthy", "validate", "publish", "clear"}
  \/ pc[k] \in InFatal /\ ret[k] = "clear"

\* Two callbacks are never inside the admission section together, not even while
\* the store that leaves it is still buffered: the lane has one producer.
SingleProducer ==
  \A j, k \in Callers : Inside(j) /\ Inside(k) => j = k

\* "Publish the health transition only after the diagnostic is ready": whoever
\* sees healthy_ false finds exactly one diagnostic, that of the first SetFatal.
DiagnosticReady == ~mem.healthy => Cardinality(fatal_error) = 1

\* A call that began when the engine was visibly unhealthy accepts nothing, even
\* if Start has just opened the gate over a lane that failed.
UnhealthyAcceptsNothing ==
  \A k \in Callers : result[k] = "accepted" => began[k].healthy

\* A message lost at admission (lane full, body too large) makes the engine
\* unhealthy.
LossIsReported == (\E k \in Callers : result[k] = "lost") ~> ~mem.healthy

\* Stop, once called, returns; callbacks are finitely many, as after the SDK was
\* shut down.
StopReturns == (pc["main"] = "wait") ~> (pc["main"] = "stopped")

\* When Stop has returned, every message accepted by a call that began before
\* Stop was called has been consumed by its lane.
EarlierCallsDecoded == pc["main"] = "stopped" => tail >= early

\* Stop: "A producer that entered before the gate closed may still own a lane
\* slot. Let that bounded admission finish before consumers are told that no more
\* records can arrive": when Stop has returned, every accepted message has been
\* consumed by its lane.
AcceptedIsDecoded == pc["main"] = "stopped" => tail = accepted
=============================================================================
