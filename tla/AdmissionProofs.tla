-------------------------- MODULE AdmissionProofs --------------------------
(***************************************************************************)
(* Admission for every set of callback threads, lane size and number of    *)
(* calls, under the store buffers of the x86 build: one producer at a      *)
(* time, one diagnostic before the engine is seen unhealthy, nothing       *)
(* accepted by a call that began after that, and every message accepted by *)
(* a call that began before Stop decoded when Stop returns.                *)
(***************************************************************************)
EXTENDS Admission, FiniteSetTheorems, SequenceTheorems, NaturalsInduction,
        WellFoundedInduction, TLAPS

Locations == Flags \cup {"head"}
Entry == [loc : Locations, val : BOOLEAN \cup Nat]

StoreTypes ==
  /\ buffer \in [Threads -> Seq(Entry)]
  /\ mem = [l \in Locations |-> mem[l]]

CountTypes ==
  /\ tail \in Nat /\ calls \in Nat /\ accepted \in Nat /\ early \in Nat
  /\ mem.head \in Nat
  /\ began = [k \in Callers |-> began[k]] /\ result = [k \in Callers |-> result[k]]
  /\ \A t \in Threads : \A i \in 1..Len(buffer[t]) :
       buffer[t][i].loc = "head" => buffer[t][i].val \in Nat

\* Every thread is at a place of its own code, and SetFatal returns to one.
LabelInv ==
  /\ pc = [t \in Threads |-> pc[t]] /\ ret = [t \in Threads |-> ret[t]]
  /\ pc["main"] \in Labels.main /\ (pc["main"] \in InFatal => ret["main"] \in {"stop", "pinned"})
  /\ pc["worker"] \in Labels.worker
  /\ (pc["worker"] \in InFatal => ret["worker"] \in {"loop", "exited"})
  /\ \A k \in Callers : pc[k] \in CallerLabels /\ ret[k] \in {"idle", "clear"}

\* The thread has a store to the location that has not reached memory.
Stored(t, loc) == \E i \in 1..Len(buffer[t]) : buffer[t][i].loc = loc

\* A caller has the flag from its test_and_set until its clear reaches memory.
Holds(k) == Inside(k) \/ Stored(k, "active")

AccessInv ==
  /\ \A t \in Threads : \A i \in 1..Len(buffer[t]) : buffer[t][i].loc = "active" =>
       t \in Callers /\ pc[t] = "idle" /\ i = Len(buffer[t]) /\ buffer[t][i].val = FALSE
  /\ \A k \in Callers : Holds(k) => mem.active
  /\ \A j, k \in Callers : Holds(j) /\ Holds(k) => j = k

-----------------------------------------------------------------------------
(***************************************************************************)
(* Memory.                                                                 *)
(***************************************************************************)

\* A set of positions has a last one.
LEMMA LastPosition ==
  ASSUME NEW n \in Nat, NEW S \in SUBSET (1..n), S # {}
  PROVE  Max(S) \in S
<1> DEFINE Less == {p \in Nat \X Nat : p[1] < p[2]}
           T == {n - x : x \in S}
<1>1. IsWellFoundedOn(Less, Nat)
  BY NatLessThanWellFounded DEF OpToRel
<1>0. \A x \in S : x \in Nat /\ n - x \in Nat
  OBVIOUS
<1>2. T \in SUBSET Nat /\ T # {}
  BY <1>0
<1>3. PICK m \in T : \A y \in T : ~(<<y, m>> \in Less)
  BY <1>1, <1>2, WFMin
<1>4. PICK x \in S : m = n - x
  BY <1>3
<1>5. ASSUME NEW y \in S, ~(x >= y) PROVE FALSE
  <2>1. n - y \in T
    OBVIOUS
  <2> HIDE DEF T
  <2>2. n - y \in Nat /\ m \in Nat /\ n - y < m
    BY <1>0, <1>4, <1>5
  <2>3. <<n - y, m>> \in Less
    BY <2>2
  <2>4. QED
    BY <1>3, <2>1, <2>3
<1>6. \A y \in S : x >= y
  BY <1>5
<1>7. QED
  BY <1>6 DEF Max

\* A load sees memory, or a store of the thread itself.
LEMMA LoadSees ==
  ASSUME StoreTypes, NEW t \in Threads, NEW loc \in Locations
  PROVE  /\ ~Stored(t, loc) => Load(t, loc) = mem[loc]
         /\ Stored(t, loc) => \E i \in 1..Len(buffer[t]) :
              buffer[t][i].loc = loc /\ Load(t, loc) = buffer[t][i].val
<1> DEFINE own == {i \in 1..Len(buffer[t]) : buffer[t][i].loc = loc}
<1>1. Len(buffer[t]) \in Nat
  BY DEF StoreTypes
<1>2. own # {} => Max(own) \in own
  BY <1>1, LastPosition
<1>3. Load(t, loc) = IF own = {} THEN mem[loc] ELSE buffer[t][Max(own)].val
  BY DEF Load
<1>4. QED
  BY <1>2, <1>3 DEF Stored

\* A store goes to the end of the thread's own buffer.
LEMMA StoreAppends ==
  ASSUME StoreTypes, NEW t \in Threads, NEW loc \in Locations, NEW val \in BOOLEAN \cup Nat,
         Store(t, loc, val)
  PROVE  /\ StoreTypes' /\ mem' = mem
         /\ \A u \in Threads : u # t => buffer'[u] = buffer[u]
         /\ Len(buffer[t]) \in Nat /\ Len(buffer'[t]) = Len(buffer[t]) + 1
         /\ \A i \in 1..Len(buffer[t]) : buffer'[t][i] = buffer[t][i]
         /\ buffer'[t][Len(buffer[t]) + 1] = [loc |-> loc, val |-> val]
<1> DEFINE b == buffer[t]
           e == [loc |-> loc, val |-> val]
<1>1. b \in Seq(Entry) /\ e \in Entry
  BY DEF StoreTypes, Entry
<1>2. buffer' = [buffer EXCEPT ![t] = Append(b, e)] /\ mem' = mem
  BY DEF Store
<1> HIDE DEF b, e
<1>3. /\ Append(b, e) \in Seq(Entry) /\ Len(b) \in Nat /\ Len(Append(b, e)) = Len(b) + 1
      /\ \A i \in 1..Len(b) : Append(b, e)[i] = b[i]
      /\ Append(b, e)[Len(b) + 1] = e
  BY <1>1
<1>4. buffer'[t] = Append(b, e) /\ \A u \in Threads : u # t => buffer'[u] = buffer[u]
  BY <1>2 DEF StoreTypes
<1>5. StoreTypes'
  BY <1>2, <1>3 DEF StoreTypes
<1>6. QED
  BY <1>2, <1>3, <1>4, <1>5 DEF b, e

\* The oldest store of a thread reaches memory.
LEMMA CommitShifts ==
  ASSUME StoreTypes, NEW t \in Threads, Commit(t)
  PROVE  /\ StoreTypes' /\ 1 \in 1..Len(buffer[t])
         /\ \A u \in Threads : u # t => buffer'[u] = buffer[u]
         /\ Len(buffer[t]) \in Nat /\ Len(buffer'[t]) = Len(buffer[t]) - 1
         /\ \A i \in 1..Len(buffer'[t]) :
              i + 1 \in 1..Len(buffer[t]) /\ buffer'[t][i] = buffer[t][i + 1]
         /\ buffer[t][1].loc \in Locations
         /\ mem'[buffer[t][1].loc] = buffer[t][1].val
         /\ \A l \in Locations : l # buffer[t][1].loc => mem'[l] = mem[l]
<1> DEFINE b == buffer[t]
<1>1. b \in Seq(Entry) /\ b # <<>>
  BY DEF StoreTypes, Commit
<1>2. buffer' = [buffer EXCEPT ![t] = Tail(b)] /\ mem' = [mem EXCEPT ![Head(b).loc] = Head(b).val]
  BY DEF Commit
<1>3. Len(b) \in Nat /\ Len(b) # 0 /\ Head(b) = b[1] /\ b[1] \in Entry /\ Tail(b) \in Seq(Entry)
  BY <1>1
<1>4. Len(Tail(b)) = Len(b) - 1 /\ \A i \in 1..(Len(b) - 1) : Tail(b)[i] = b[i + 1]
  BY <1>1
<1>5. b[1].loc \in Locations
  BY <1>3 DEF Entry
<1> HIDE DEF b
<1>6. buffer'[t] = Tail(b) /\ \A u \in Threads : u # t => buffer'[u] = buffer[u]
  BY <1>2 DEF StoreTypes
<1>7. /\ mem'[b[1].loc] = b[1].val
      /\ \A l \in Locations : l # b[1].loc => mem'[l] = mem[l]
      /\ mem' = [l \in Locations |-> mem'[l]]
  BY <1>2, <1>3, <1>5 DEF StoreTypes
<1>8. StoreTypes'
  BY <1>2, <1>3, <1>7 DEF StoreTypes
<1>9. QED
  BY <1>3, <1>4, <1>5, <1>6, <1>7, <1>8 DEF b

-----------------------------------------------------------------------------
(***************************************************************************)
(* Places and stores.                                                      *)
(***************************************************************************)
LEMMA ThreadsDiffer ==
  /\ "main" \in Threads /\ "worker" \in Threads
  /\ \A k \in Callers : k \in Threads /\ k # "main" /\ k # "worker"
BY AdmissionAssumption DEF Threads

LEMMA LabelsAre ==
  /\ Labels.main = {"new", "spawn", "pinned", "open", "verify", "started", "stop", "wait",
                    "join", "stopped", "claim", "close", "diagnose", "unhealthy"}
  /\ Labels.worker = {"off", "loop", "idle", "last", "exited",
                      "claim", "close", "diagnose", "unhealthy"}
BY DEF Labels, InFatal

LEMMA InitLabel == ASSUME Init PROVE LabelInv /\ StoreTypes
<1>1. pc["main"] = "new" /\ pc["worker"] = "off" /\ \A k \in Callers : pc[k] = "idle"
  BY ThreadsDiffer DEF Init
<1>2. pc = [t \in Threads |-> pc[t]] /\ ret = [t \in Threads |-> ret[t]]
  BY DEF Init
<1>3. \A k \in Callers : ret[k] = "idle"
  BY ThreadsDiffer DEF Init
<1>4. StoreTypes
  <2>1. <<>> \in Seq(Entry)
    OBVIOUS
  <2>2. DOMAIN mem = Locations
    BY DEF Init, Locations, Flags
  <2>3. QED
    BY <2>1, <2>2 DEF Init, StoreTypes
<1>5. QED
  BY <1>1, <1>2, <1>3, <1>4, LabelsAre DEF LabelInv, CallerLabels, InFatal

\* SetFatal returns to where it was called.
LEMMA SetFatalLabel ==
  ASSUME LabelInv, StoreTypes, NEW t \in Threads, SetFatal(t)
  PROVE  LabelInv' /\ StoreTypes'
<1>1. /\ ret' = ret /\ pc[t] \in InFatal
      /\ \/ pc' = [pc EXCEPT ![t] = ret[t]]
         \/ \E l \in {"close", "diagnose", "unhealthy"} : pc' = [pc EXCEPT ![t] = l]
  BY DEF SetFatal, ClaimFatal, CloseOnFatal, Diagnose, BecomeUnhealthy, Goto, InFatal
<1>2. LabelInv'
  <2>1. t \in Callers \/ t = "main" \/ t = "worker"
    BY DEF Threads
  <2>2. QED
    BY <1>1, <2>1, ThreadsDiffer, LabelsAre DEF LabelInv, CallerLabels, InFatal
<1>3. StoreTypes'
  <2>1. \/ UNCHANGED Memory
        \/ Store(t, "accepting", FALSE) \/ Store(t, "healthy", FALSE)
    BY DEF SetFatal, ClaimFatal, CloseOnFatal, Diagnose, BecomeUnhealthy
  <2>2. "accepting" \in Locations /\ "healthy" \in Locations
    BY DEF Locations, Flags
  <2>3. QED
    BY <2>1, <2>2, StoreAppends DEF StoreTypes, Memory
<1>4. QED
  BY <1>2, <1>3

LEMMA CallerLabel ==
  ASSUME LabelInv, StoreTypes, CountTypes, NEW k \in Callers, Enter(k) \/ Admit(k)
  PROVE  LabelInv' /\ StoreTypes'
<1>1. k \in Threads /\ k # "main" /\ k # "worker"
  BY ThreadsDiffer
<1>2. /\ \E l \in CallerLabels : pc' = [pc EXCEPT ![k] = l]
      /\ ret' = ret \/ \E l \in {"idle", "clear"} : ret' = [ret EXCEPT ![k] = l]
  BY DEF Enter, Admit, CheckAccepting, CheckRunning, CheckHealthy, LoadFlag, Validate,
         PublishToLane, Leave, CallFatal, Goto, CallerLabels, InFatal
<1>3. LabelInv'
  <2>1. /\ pc' = [t \in Threads |-> pc'[t]] /\ pc'[k] \in CallerLabels
        /\ \A t \in Threads : t # k => pc'[t] = pc[t]
    BY <1>1, <1>2 DEF LabelInv
  <2>2. /\ ret' = [t \in Threads |-> ret'[t]] /\ ret'[k] \in {"idle", "clear"}
        /\ \A t \in Threads : t # k => ret'[t] = ret[t]
    BY <1>1, <1>2 DEF LabelInv
  <2>3. QED
    BY <1>1, <2>1, <2>2, ThreadsDiffer DEF LabelInv
<1>4. StoreTypes'
  <2>1. \/ UNCHANGED Memory
        \/ mem' = [mem EXCEPT !.active = TRUE] /\ UNCHANGED buffer
        \/ Store(k, "active", FALSE) \/ Store(k, "head", Load(k, "head") + 1)
    BY DEF Enter, Admit, CheckAccepting, CheckRunning, CheckHealthy, LoadFlag, Validate,
           PublishToLane, Leave, Memory
  <2>2. "active" \in Locations /\ "head" \in Locations
    BY DEF Locations, Flags
  <2>3. Load(k, "head") \in Nat
    BY <1>1, <2>2, LoadSees DEF CountTypes
  <2>4. CASE mem' = [mem EXCEPT !.active = TRUE] /\ UNCHANGED buffer
    <3>1. mem' = [l \in Locations |-> mem'[l]]
      BY <2>4 DEF StoreTypes
    <3>2. QED
      BY <2>4, <3>1 DEF StoreTypes
  <2>5. CASE UNCHANGED Memory
    BY <2>5 DEF StoreTypes, Memory
  <2>6. CASE Store(k, "active", FALSE)
    BY <1>1, <2>2, <2>6, StoreAppends
  <2>7. CASE Store(k, "head", Load(k, "head") + 1)
    <3>1. Load(k, "head") + 1 \in BOOLEAN \cup Nat
      BY <2>3
    <3>2. QED
      BY <1>1, <2>2, <2>7, <3>1, StoreAppends
  <2>8. QED
    BY <2>1, <2>4, <2>5, <2>6, <2>7
<1>5. QED
  BY <1>3, <1>4

LEMMA WorkerLabel ==
  ASSUME LabelInv, StoreTypes, Worker
  PROVE  LabelInv' /\ StoreTypes'
<1>1. \/ UNCHANGED <<pc, ret>>
      \/ \E l \in {"loop", "idle", "last", "exited"} : pc' = [pc EXCEPT !["worker"] = l] /\ ret' = ret
      \/ \E l \in {"loop", "exited"} : /\ pc' = [pc EXCEPT !["worker"] = "claim"]
                                       /\ ret' = [ret EXCEPT !["worker"] = l]
  BY DEF Worker, Consume, LaneIdle, TestRunning, ExitWhenEmpty, CallFatal, Goto
<1>2. UNCHANGED Memory
  BY DEF Worker, Consume, LaneIdle, TestRunning, ExitWhenEmpty
<1>3. LabelInv'
  BY <1>1, ThreadsDiffer, LabelsAre DEF LabelInv, InFatal
<1>4. QED
  BY <1>2, <1>3 DEF StoreTypes, Memory

LEMMA MainLabel ==
  ASSUME LabelInv, StoreTypes, Main \/ Stop
  PROVE  LabelInv' /\ StoreTypes'
<1>1. \/ UNCHANGED <<pc, ret>>
      \/ /\ ret' = ret
         /\ \E l \in {"spawn", "open", "verify", "started", "stop", "wait", "join", "stopped"} :
              pc' = [pc EXCEPT !["main"] = l]
      \/ ret' = ret /\ pc' = [pc EXCEPT !["worker"] = "loop", !["main"] = "open"]
      \/ /\ ret' = [ret EXCEPT !["main"] = "stop"]
         /\ pc' = [pc EXCEPT !["main"] = "claim"]
      \/ /\ ret' = [ret EXCEPT !["main"] = "pinned"]
         /\ pc' = [pc EXCEPT !["worker"] = "loop", !["main"] = "claim"]
  BY DEF Main, Start, Spawn, CheckPinned, Open, Verify, SpinOnCallback, AwaitCallback, Join,
         Stop, CallFatal, Goto, vars
<1>2. LabelInv'
  BY <1>1, ThreadsDiffer, LabelsAre DEF LabelInv, InFatal
<1>3. \/ UNCHANGED Memory
      \/ \E loc \in {"accepting", "running"}, val \in BOOLEAN : Store("main", loc, val)
  BY DEF Main, Start, Spawn, CheckPinned, Open, Verify, SpinOnCallback, AwaitCallback, Join,
         Stop, vars, Memory
<1>4. StoreTypes'
  <2>1. {"accepting", "running"} \subseteq Locations
    BY DEF Locations, Flags
  <2>2. QED
    BY <1>3, <2>1, ThreadsDiffer, StoreAppends DEF StoreTypes, Memory
<1>5. QED
  BY <1>2, <1>4

-----------------------------------------------------------------------------
(***************************************************************************)
(* The flag callback_active_.                                              *)
(***************************************************************************)

\* A step that neither sets nor clears the flag and lets nobody in.
LEMMA AccessFrame ==
  ASSUME AccessInv, mem'.active = mem.active,
         \A k \in Callers : Inside(k)' => Inside(k),
         \A t \in Threads : \/ ~Stored(t, "active")'
                            \/ buffer'[t] = buffer[t] /\ pc'[t] = pc[t]
  PROVE  AccessInv'
<1>1. \A k \in Callers : Holds(k)' => Holds(k)
  BY ThreadsDiffer DEF Holds, Stored
<1>2. \A t \in Threads : \A i \in 1..Len(buffer'[t]) : buffer'[t][i].loc = "active" =>
        t \in Callers /\ pc'[t] = "idle" /\ i = Len(buffer'[t]) /\ buffer'[t][i].val = FALSE
  BY DEF AccessInv, Stored
<1>3. QED
  BY <1>1, <1>2 DEF AccessInv

\* Only an idle caller has a store to the flag in its buffer, and it is the last.
LEMMA StoredActive ==
  ASSUME AccessInv, NEW t \in Threads, Stored(t, "active")
  PROVE  t \in Callers /\ pc[t] = "idle" /\ ~Inside(t)
BY DEF AccessInv, Stored, Inside, InFatal

\* A thread that is not an idle caller stores to another location, or nothing.
LEMMA OtherStore ==
  ASSUME StoreTypes, AccessInv, NEW t \in Threads, ~(t \in Callers /\ pc[t] = "idle"),
         \/ UNCHANGED Memory
         \/ \E loc \in Locations \ {"active"} : \E val \in BOOLEAN \cup Nat : Store(t, loc, val)
  PROVE  /\ mem'.active = mem.active /\ ~Stored(t, "active")'
         /\ \A u \in Threads : u # t => buffer'[u] = buffer[u]
<1>1. ~Stored(t, "active")
  BY StoredActive
<1>2. CASE UNCHANGED Memory
  BY <1>1, <1>2 DEF Memory, Stored
<1>3. ASSUME NEW loc \in Locations \ {"active"}, NEW val \in BOOLEAN \cup Nat, Store(t, loc, val)
      PROVE  /\ mem'.active = mem.active /\ ~Stored(t, "active")'
             /\ \A u \in Threads : u # t => buffer'[u] = buffer[u]
  <2>1. /\ mem' = mem
        /\ \A u \in Threads : u # t => buffer'[u] = buffer[u]
        /\ Len(buffer[t]) \in Nat /\ Len(buffer'[t]) = Len(buffer[t]) + 1
        /\ \A i \in 1..Len(buffer[t]) : buffer'[t][i] = buffer[t][i]
        /\ buffer'[t][Len(buffer[t]) + 1] = [loc |-> loc, val |-> val]
    BY <1>3, StoreAppends
  <2>2. ASSUME NEW i \in 1..Len(buffer'[t]) PROVE buffer'[t][i].loc # "active"
    <3>1. CASE i = Len(buffer[t]) + 1
      BY <1>3, <2>1, <3>1
    <3>2. CASE i # Len(buffer[t]) + 1
      <4>1. i \in 1..Len(buffer[t])
        BY <2>1, <3>2
      <4>2. QED
        BY <1>1, <2>1, <4>1 DEF Stored
    <3>3. QED
      BY <3>1, <3>2
  <2>3. QED
    BY <2>1, <2>2 DEF Stored
<1>4. QED
  BY <1>2, <1>3

LEMMA InitAccess == ASSUME Init PROVE AccessInv
<1>1. \A t \in Threads : Len(buffer[t]) = 0
  BY DEF Init
<1>2. \A k \in Callers : pc[k] = "idle"
  BY ThreadsDiffer DEF Init
<1>3. QED
  BY <1>1, <1>2, ThreadsDiffer DEF AccessInv, Holds, Stored, Inside, InFatal

\* The store that clears the flag is the holder's last: when it reaches memory nobody
\* holds the flag.
LEMMA CommitAccess ==
  ASSUME StoreTypes, AccessInv, NEW t \in Threads, Commit(t)
  PROVE  AccessInv'
<1> DEFINE l == buffer[t][1].loc
<1>1. /\ 1 \in 1..Len(buffer[t]) /\ Len(buffer[t]) \in Nat /\ Len(buffer'[t]) = Len(buffer[t]) - 1
      /\ \A u \in Threads : u # t => buffer'[u] = buffer[u]
      /\ \A i \in 1..Len(buffer'[t]) :
           i + 1 \in 1..Len(buffer[t]) /\ buffer'[t][i] = buffer[t][i + 1]
      /\ \A m \in Locations : m # l => mem'[m] = mem[m]
  BY CommitShifts
<1>2. UNCHANGED <<pc, ret>>
  BY DEF Commit
<1>3. \A k \in Callers : Inside(k)' <=> Inside(k)
  BY <1>2 DEF Inside
<1>4. \A k \in Threads : Stored(k, "active")' => Stored(k, "active")
  BY <1>1 DEF Stored
<1>5. CASE l = "active"
  <2>1. t \in Callers /\ Len(buffer[t]) = 1 /\ ~Inside(t) /\ Holds(t)
    <3>1. Stored(t, "active")
      BY <1>1, <1>5 DEF Stored
    <3>2. QED
      BY <1>1, <1>5, <3>1, StoredActive DEF AccessInv, Holds
  <2>2. \A k \in Callers : ~Holds(k)'
    <3>1. ~Stored(t, "active")'
      BY <1>1, <2>1 DEF Stored
    <3>2. ASSUME NEW k \in Callers, Holds(k)' PROVE FALSE
      <4>1. Holds(k)
        BY <1>3, <1>4, <3>2, ThreadsDiffer DEF Holds
      <4>2. k = t
        BY <2>1, <4>1 DEF AccessInv
      <4>3. QED
        BY <1>3, <2>1, <3>1, <3>2, <4>2 DEF Holds
    <3>3. QED
      BY <3>2
  <2>3. \A u \in Threads : ~Stored(u, "active")'
    BY <1>4, <2>2, StoredActive DEF Holds
  <2>4. QED
    BY <2>2, <2>3 DEF AccessInv, Stored
<1>6. CASE l # "active"
  <2>1. mem'.active = mem.active
    BY <1>1, <1>6 DEF Locations, Flags
  <2>2. \A k \in Callers : Holds(k)' => Holds(k)
    BY <1>3, <1>4, ThreadsDiffer DEF Holds
  <2>3. ASSUME NEW u \in Threads, NEW i \in 1..Len(buffer'[u]), buffer'[u][i].loc = "active"
        PROVE  u \in Callers /\ pc'[u] = "idle" /\ i = Len(buffer'[u]) /\ buffer'[u][i].val = FALSE
    <3>1. CASE u # t
      BY <1>1, <1>2, <2>3, <3>1 DEF AccessInv
    <3>2. CASE u = t
      <4>1. i + 1 \in 1..Len(buffer[t]) /\ buffer'[t][i] = buffer[t][i + 1]
        BY <1>1, <2>3, <3>2
      <4>2. t \in Callers /\ pc[t] = "idle" /\ i + 1 = Len(buffer[t]) /\ buffer[t][i + 1].val = FALSE
        BY <2>3, <3>2, <4>1 DEF AccessInv
      <4>3. QED
        BY <1>1, <1>2, <2>3, <3>2, <4>1, <4>2
    <3>3. QED
      BY <3>1, <3>2
  <2>4. QED
    BY <2>1, <2>2, <2>3 DEF AccessInv
<1>7. QED
  BY <1>5, <1>6

\* A step of one thread that only moves within its code, or out of Admit, and does not
\* touch the flag.
LEMMA ThreadAccess ==
  ASSUME LabelInv, StoreTypes, AccessInv, NEW t \in Threads, ~(t \in Callers /\ pc[t] = "idle"),
         \/ UNCHANGED Memory
         \/ \E loc \in Locations \ {"active"} : \E val \in BOOLEAN \cup Nat : Store(t, loc, val),
         \A u \in Threads : u = t \/ (u = "worker" /\ t = "main") \/ (pc'[u] = pc[u] /\ ret'[u] = ret[u]),
         t \in Callers => (Inside(t)' => Inside(t))
  PROVE  AccessInv'
<1>1. /\ mem'.active = mem.active /\ ~Stored(t, "active")'
      /\ \A u \in Threads : u # t => buffer'[u] = buffer[u]
  BY OtherStore
<1>2. \A k \in Callers : Inside(k)' => Inside(k)
  <2> SUFFICES ASSUME NEW k \in Callers PROVE Inside(k)' => Inside(k)
    OBVIOUS
  <2>1. CASE k = t
    BY <2>1
  <2>2. CASE k # t
    BY <2>2, ThreadsDiffer DEF Inside
  <2>3. QED
    BY <2>1, <2>2
<1>3. ~Stored("worker", "active")
  BY ThreadsDiffer, StoredActive
<1>4. \A u \in Threads : \/ ~Stored(u, "active")'
                         \/ buffer'[u] = buffer[u] /\ pc'[u] = pc[u]
  BY <1>1, <1>3 DEF Stored
<1>5. QED
  BY <1>1, <1>2, <1>4, AccessFrame

LEMMA SetFatalAccess ==
  ASSUME LabelInv, StoreTypes, AccessInv, NEW t \in Threads, SetFatal(t)
  PROVE  AccessInv'
<1>1. /\ ret' = ret /\ pc[t] \in InFatal
      /\ \/ pc' = [pc EXCEPT ![t] = ret[t]]
         \/ \E l \in {"close", "diagnose", "unhealthy"} : pc' = [pc EXCEPT ![t] = l]
      /\ UNCHANGED Memory \/ Store(t, "accepting", FALSE) \/ Store(t, "healthy", FALSE)
  BY DEF SetFatal, ClaimFatal, CloseOnFatal, Diagnose, BecomeUnhealthy, Goto, InFatal
<1>2. /\ pc'[t] \in {ret[t], "close", "diagnose", "unhealthy"}
      /\ \A u \in Threads : u # t => pc'[u] = pc[u]
  BY <1>1 DEF LabelInv
<1>3. t \in Callers => (Inside(t)' => Inside(t))
  BY <1>1, <1>2 DEF Inside, InFatal, LabelInv
<1>4. \/ UNCHANGED Memory
      \/ \E loc \in Locations \ {"active"} : \E val \in BOOLEAN \cup Nat : Store(t, loc, val)
  BY <1>1 DEF Locations, Flags
<1>5. pc[t] # "idle"
  BY <1>1 DEF InFatal
<1>6. QED
  BY <1>1, <1>2, <1>3, <1>4, <1>5, ThreadAccess

\* test_and_set lets a caller in only when nobody holds the flag.
LEMMA EnterAccess ==
  ASSUME LabelInv, StoreTypes, AccessInv, NEW k \in Callers, Enter(k)
  PROVE  AccessInv'
<1>1. /\ pc[k] = "idle" /\ Len(buffer[k]) = 0 /\ UNCHANGED buffer /\ k \in Threads
  BY ThreadsDiffer DEF Enter, Fenced
<1>3. ~Stored(k, "active")'
  BY <1>1 DEF Stored
<1>4. CASE mem.active
  <2>1. /\ pc' = [pc EXCEPT ![k] = "claim"] /\ ret' = [ret EXCEPT ![k] = "idle"] /\ UNCHANGED mem
    BY <1>4 DEF Enter, CallFatal, Goto
  <2>2. /\ pc'[k] = "claim" /\ ret'[k] = "idle"
        /\ \A j \in Threads : j # k => pc'[j] = pc[j] /\ ret'[j] = ret[j]
    BY <1>1, <2>1 DEF LabelInv
  <2>3. \A j \in Callers : Inside(j)' => Inside(j)
    BY <2>2, ThreadsDiffer DEF Inside, InFatal
  <2>4. QED
    BY <1>1, <1>3, <2>1, <2>2, <2>3, AccessFrame
<1>5. CASE ~mem.active
  <2>1. /\ pc' = [pc EXCEPT ![k] = "accepting"] /\ UNCHANGED ret
        /\ mem' = [mem EXCEPT !.active = TRUE]
    BY <1>5 DEF Enter, Goto
  <2>2. /\ pc'[k] = "accepting" /\ \A j \in Threads : j # k => pc'[j] = pc[j]
    BY <1>1, <2>1 DEF LabelInv
  <2>3. mem'.active
    BY <2>1 DEF StoreTypes, Locations, Flags
  <2>4. \A j \in Callers : ~Holds(j)
    BY <1>5 DEF AccessInv
  <2>5. \A j \in Callers : Holds(j)' => j = k
    <3> SUFFICES ASSUME NEW j \in Callers, Holds(j)', j # k PROVE FALSE
      OBVIOUS
    <3>1. pc'[j] = pc[j] /\ ret'[j] = ret[j] /\ buffer'[j] = buffer[j]
      BY <1>1, <2>1, <2>2, ThreadsDiffer
    <3>2. QED
      BY <2>4, <3>1 DEF Holds, Inside, Stored
  <2>6. \A t \in Threads : ~Stored(t, "active")'
    BY <1>1, <2>4, StoredActive DEF Holds, Stored
  <2>7. QED
    BY <2>3, <2>5, <2>6 DEF AccessInv, Stored
<1>6. QED
  BY <1>4, <1>5

\* ~CallbackGuard: the holder stays the holder until its store reaches memory.
LEMMA LeaveAccess ==
  ASSUME LabelInv, StoreTypes, AccessInv, NEW k \in Callers, Leave(k)
  PROVE  AccessInv'
<1>1. /\ pc[k] = "clear" /\ Store(k, "active", FALSE) /\ pc' = [pc EXCEPT ![k] = "idle"]
      /\ UNCHANGED ret /\ k \in Threads
  BY ThreadsDiffer DEF Leave, Goto
<1>2. pc'[k] = "idle" /\ \A j \in Threads : j # k => pc'[j] = pc[j]
  BY <1>1 DEF LabelInv
<1>3. Holds(k) /\ ~Stored(k, "active")
  BY <1>1, StoredActive DEF Holds, Inside
<1>4. /\ mem' = mem
      /\ \A u \in Threads : u # k => buffer'[u] = buffer[u]
      /\ Len(buffer[k]) \in Nat /\ Len(buffer'[k]) = Len(buffer[k]) + 1
      /\ \A i \in 1..Len(buffer[k]) : buffer'[k][i] = buffer[k][i]
      /\ buffer'[k][Len(buffer[k]) + 1] = [loc |-> "active", val |-> FALSE]
  <2>1. "active" \in Locations
    BY DEF Locations, Flags
  <2>2. QED
    BY <1>1, <2>1, StoreAppends
<1>5. \A j \in Callers : Holds(j)' => Holds(j)
  <2> SUFFICES ASSUME NEW j \in Callers, Holds(j)' PROVE Holds(j)
    OBVIOUS
  <2>1. CASE j = k
    BY <1>3, <2>1
  <2>2. CASE j # k
    <3>1. pc'[j] = pc[j] /\ ret'[j] = ret[j] /\ buffer'[j] = buffer[j]
      BY <1>1, <1>2, <1>4, <2>2, ThreadsDiffer
    <3>2. QED
      BY <3>1 DEF Holds, Inside, Stored
  <2>3. QED
    BY <2>1, <2>2
<1>6. ASSUME NEW u \in Threads, NEW i \in 1..Len(buffer'[u]), buffer'[u][i].loc = "active"
      PROVE  u \in Callers /\ pc'[u] = "idle" /\ i = Len(buffer'[u]) /\ buffer'[u][i].val = FALSE
  <2>1. CASE u # k
    BY <1>2, <1>4, <1>6, <2>1 DEF AccessInv
  <2>2. CASE u = k
    <3>1. i = Len(buffer[k]) + 1
      BY <1>3, <1>4, <1>6, <2>2 DEF Stored
    <3>2. QED
      BY <1>2, <1>4, <2>2, <3>1
  <2>3. QED
    BY <2>1, <2>2
<1>7. QED
  BY <1>4, <1>5, <1>6 DEF AccessInv

LEMMA AdmitAccess ==
  ASSUME LabelInv, StoreTypes, CountTypes, AccessInv, NEW k \in Callers, Admit(k)
  PROVE  AccessInv'
<1>1. CASE Leave(k)
  BY <1>1, LeaveAccess
<1>2. CASE ~Leave(k)
  <2>1. /\ pc[k] \in {"accepting", "running", "healthy", "validate", "publish"}
        /\ \E l \in CallerLabels : pc' = [pc EXCEPT ![k] = l]
        /\ ret' = ret \/ \E l \in {"clear"} : ret' = [ret EXCEPT ![k] = l]
        /\ UNCHANGED Memory \/ Store(k, "head", Load(k, "head") + 1)
    BY <1>2 DEF Admit, CheckAccepting, CheckRunning, CheckHealthy, LoadFlag, Validate,
           PublishToLane, CallFatal, Goto, CallerLabels, InFatal
  <2>2. k \in Threads /\ "head" \in Locations \ {"active"} /\ Inside(k)
    BY <2>1, ThreadsDiffer DEF Locations, Flags, Inside
  <2>3. \A u \in Threads : u = k \/ (pc'[u] = pc[u] /\ ret'[u] = ret[u])
    BY <2>1 DEF LabelInv
  <2>4. Load(k, "head") + 1 \in BOOLEAN \cup Nat
    <3>1. Load(k, "head") \in Nat
      BY <2>2, LoadSees DEF CountTypes
    <3>2. QED
      BY <3>1
  <2>5. \/ UNCHANGED Memory
        \/ \E loc \in Locations \ {"active"} : \E val \in BOOLEAN \cup Nat : Store(k, loc, val)
    BY <2>1, <2>2, <2>4
  <2>6. pc[k] # "idle"
    BY <2>1
  <2>7. QED
    BY <2>2, <2>3, <2>5, <2>6, ThreadAccess
<1>3. QED
  BY <1>1, <1>2

LEMMA EngineAccess ==
  ASSUME LabelInv, StoreTypes, AccessInv, Worker \/ Main \/ Stop
  PROVE  AccessInv'
<1>1. CASE Worker
  <2>1. UNCHANGED Memory
    BY <1>1 DEF Worker, Consume, LaneIdle, TestRunning, ExitWhenEmpty
  <2>2. \A u \in Threads : u = "worker" \/ (pc'[u] = pc[u] /\ ret'[u] = ret[u])
    BY <1>1 DEF Worker, Consume, LaneIdle, TestRunning, ExitWhenEmpty, CallFatal, Goto, LabelInv
  <2>3. QED
    BY <2>1, <2>2, ThreadsDiffer, ThreadAccess
<1>2. CASE Main \/ Stop
  <2>1. \/ UNCHANGED Memory
        \/ \E loc \in {"accepting", "running"}, val \in BOOLEAN : Store("main", loc, val)
    BY <1>2 DEF Main, Start, Spawn, CheckPinned, Open, Verify, SpinOnCallback, AwaitCallback,
           Join, Stop, vars, Memory
  <2>2. \/ UNCHANGED Memory
        \/ \E loc \in Locations \ {"active"} : \E val \in BOOLEAN \cup Nat : Store("main", loc, val)
    BY <2>1 DEF Locations, Flags
  <2>3. \A u \in Threads : u = "main" \/ u = "worker" \/ (pc'[u] = pc[u] /\ ret'[u] = ret[u])
    BY <1>2 DEF Main, Start, Spawn, CheckPinned, Open, Verify, SpinOnCallback, AwaitCallback,
           Join, Stop, CallFatal, Goto, LabelInv, vars
  <2>4. QED
    BY <2>2, <2>3, ThreadsDiffer, ThreadAccess
<1>3. QED
  BY <1>1, <1>2

-----------------------------------------------------------------------------
(***************************************************************************)
(* What reaches the buffers and memory, and from which place of the code.  *)
(***************************************************************************)
Issues(t, e) ==
  \/ pc[t] = "close" /\ e = [loc |-> "accepting", val |-> FALSE]
  \/ pc[t] = "unhealthy" /\ e = [loc |-> "healthy", val |-> FALSE]
  \/ t \in Callers /\ PublishToLane(t) /\ e = [loc |-> "head", val |-> Load(t, "head") + 1]
  \/ t \in Callers /\ Leave(t) /\ e = [loc |-> "active", val |-> FALSE]
  \/ t = "main" /\ Start /\ e = [loc |-> "running", val |-> TRUE]
  \/ t = "main" /\ Open /\ e = [loc |-> "accepting", val |-> TRUE]
  \/ t = "main" /\ (Verify \/ Stop) /\ e = [loc |-> "accepting", val |-> FALSE]
  \/ t = "main" /\ AwaitCallback /\ e = [loc |-> "running", val |-> FALSE]

Kept(t, e) == \E j \in 1..Len(buffer[t]) : e = buffer[t][j]

LEMMA IssuedWhere ==
  ASSUME NEW t, NEW e, Issues(t, e)
  PROVE  /\ e.loc = "healthy" => pc[t] = "unhealthy" /\ e.val = FALSE
         /\ e.loc = "head" => /\ t \in Callers /\ PublishToLane(t)
                              /\ e.val = Load(t, "head") + 1
         /\ e.loc = "running" => /\ t = "main"
                                 /\ (e.val = TRUE /\ Start) \/ (e.val = FALSE /\ AwaitCallback)
         /\ e.loc = "accepting" => e.val = FALSE \/ (t = "main" /\ Open)
<1>1. \/ e.loc = "accepting" /\ e.val = FALSE
      \/ pc[t] = "unhealthy" /\ e.loc = "healthy" /\ e.val = FALSE
      \/ t \in Callers /\ PublishToLane(t) /\ e.loc = "head" /\ e.val = Load(t, "head") + 1
      \/ e.loc = "active"
      \/ t = "main" /\ Start /\ e.loc = "running" /\ e.val = TRUE
      \/ t = "main" /\ Open /\ e.loc = "accepting"
      \/ t = "main" /\ AwaitCallback /\ e.loc = "running" /\ e.val = FALSE
  BY DEF Issues
<1>2. QED
  BY <1>1

\* A buffer holds what it held, or what its thread stores in this step.
StoresFollow ==
  \A t \in Threads : \A i \in 1..Len(buffer'[t]) :
    Kept(t, buffer'[t][i]) \/ Issues(t, buffer'[t][i])

\* Memory changes by a commit, and callback_active_ by test_and_set too.
MemoryFollows ==
  \A l \in Locations :
    \/ mem'[l] = mem[l]
    \/ \E t \in Threads : /\ Commit(t) /\ 1 \in 1..Len(buffer[t])
                          /\ buffer[t][1].loc = l /\ mem'[l] = buffer[t][1].val
    \/ l = "active" /\ \E k \in Callers : Enter(k)

LEMMA QuietMemory == ASSUME UNCHANGED Memory PROVE StoresFollow /\ MemoryFollows
BY DEF StoresFollow, MemoryFollows, Kept, Memory

LEMMA StoreMemory ==
  ASSUME StoreTypes, NEW t \in Threads, NEW loc \in Locations, NEW val \in BOOLEAN \cup Nat,
         Store(t, loc, val), Issues(t, [loc |-> loc, val |-> val])
  PROVE  StoresFollow /\ MemoryFollows
<1>1. /\ mem' = mem
      /\ \A u \in Threads : u # t => buffer'[u] = buffer[u]
      /\ Len(buffer[t]) \in Nat /\ Len(buffer'[t]) = Len(buffer[t]) + 1
      /\ \A i \in 1..Len(buffer[t]) : buffer'[t][i] = buffer[t][i]
      /\ buffer'[t][Len(buffer[t]) + 1] = [loc |-> loc, val |-> val]
  BY StoreAppends
<1>2. ASSUME NEW u \in Threads, NEW i \in 1..Len(buffer'[u])
      PROVE  Kept(u, buffer'[u][i]) \/ Issues(u, buffer'[u][i])
  <2>1. CASE u # t
    BY <1>1, <1>2, <2>1 DEF Kept
  <2>2. CASE u = t /\ i = Len(buffer[t]) + 1
    BY <1>1, <2>2
  <2>3. CASE u = t /\ i # Len(buffer[t]) + 1
    <3>1. i \in 1..Len(buffer[t])
      BY <1>1, <1>2, <2>3
    <3>2. QED
      BY <1>1, <2>3, <3>1 DEF Kept
  <2>4. QED
    BY <2>1, <2>2, <2>3
<1>3. QED
  BY <1>1, <1>2 DEF StoresFollow, MemoryFollows

LEMMA CommitMemory ==
  ASSUME StoreTypes, NEW t \in Threads, Commit(t)
  PROVE  StoresFollow /\ MemoryFollows
<1>1. /\ 1 \in 1..Len(buffer[t])
      /\ \A u \in Threads : u # t => buffer'[u] = buffer[u]
      /\ \A i \in 1..Len(buffer'[t]) :
           i + 1 \in 1..Len(buffer[t]) /\ buffer'[t][i] = buffer[t][i + 1]
      /\ mem'[buffer[t][1].loc] = buffer[t][1].val
      /\ \A l \in Locations : l # buffer[t][1].loc => mem'[l] = mem[l]
  BY CommitShifts
<1>2. StoresFollow
  BY <1>1 DEF StoresFollow, Kept
<1>3. MemoryFollows
  BY <1>1 DEF MemoryFollows
<1>4. QED
  BY <1>2, <1>3

LEMMA StepMemory ==
  ASSUME StoreTypes, CountTypes, [Next]_vars
  PROVE  StoresFollow /\ MemoryFollows
<1>1. {"accepting", "running", "healthy", "active", "head"} \subseteq Locations
  BY DEF Locations, Flags
<1>2. ASSUME NEW t \in Threads, SetFatal(t) PROVE StoresFollow /\ MemoryFollows
  <2>1. CASE UNCHANGED Memory
    BY <2>1, QuietMemory
  <2>2. CASE CloseOnFatal(t)
    <3>1. Store(t, "accepting", FALSE) /\ Issues(t, [loc |-> "accepting", val |-> FALSE])
      BY <2>2 DEF CloseOnFatal, Issues
    <3>2. QED
      BY <1>1, <3>1, StoreMemory
  <2>3. CASE BecomeUnhealthy(t)
    <3>1. Store(t, "healthy", FALSE) /\ Issues(t, [loc |-> "healthy", val |-> FALSE])
      BY <2>3 DEF BecomeUnhealthy, Issues
    <3>2. QED
      BY <1>1, <3>1, StoreMemory
  <2>4. QED
    BY <1>2, <2>1, <2>2, <2>3 DEF SetFatal, ClaimFatal, Diagnose
<1>3. ASSUME NEW k \in Callers, Enter(k) PROVE StoresFollow /\ MemoryFollows
  <2>1. UNCHANGED buffer /\ (UNCHANGED mem \/ mem' = [mem EXCEPT !.active = TRUE])
    BY <1>3 DEF Enter
  <2>2. \A l \in Locations : l # "active" => mem'[l] = mem[l]
    BY <2>1 DEF StoreTypes
  <2>3. QED
    BY <1>3, <2>1, <2>2 DEF StoresFollow, MemoryFollows, Kept
<1>4. ASSUME NEW k \in Callers, Admit(k) PROVE StoresFollow /\ MemoryFollows
  <2>1. k \in Threads
    BY ThreadsDiffer
  <2>2. CASE UNCHANGED Memory
    BY <2>2, QuietMemory
  <2>3. CASE Leave(k)
    <3>1. Store(k, "active", FALSE) /\ Issues(k, [loc |-> "active", val |-> FALSE])
      BY <2>3 DEF Leave, Issues
    <3>2. QED
      BY <1>1, <2>1, <3>1, StoreMemory
  <2>4. CASE PublishToLane(k) /\ Store(k, "head", Load(k, "head") + 1)
    <3>1. Issues(k, [loc |-> "head", val |-> Load(k, "head") + 1])
      BY <2>4 DEF Issues
    <3>2. Load(k, "head") \in Nat
      BY <1>1, <2>1, LoadSees DEF CountTypes
    <3>3. Load(k, "head") + 1 \in BOOLEAN \cup Nat
      BY <3>2
    <3>4. QED
      BY <1>1, <2>1, <2>4, <3>1, <3>3, StoreMemory
  <2>5. QED
    BY <1>4, <2>2, <2>3, <2>4 DEF Admit, CheckAccepting, CheckRunning, CheckHealthy, LoadFlag,
           Validate, PublishToLane
<1>5. CASE Worker \/ Terminated \/ UNCHANGED vars
  <2>1. UNCHANGED Memory
    BY <1>5 DEF Worker, Consume, LaneIdle, TestRunning, ExitWhenEmpty, Terminated, vars, Memory
  <2>2. QED
    BY <2>1, QuietMemory
<1>6. CASE Main \/ Stop
  <2>1. \/ UNCHANGED Memory
        \/ Start /\ Store("main", "running", TRUE)
        \/ Open /\ Store("main", "accepting", TRUE)
        \/ (Verify \/ Stop) /\ Store("main", "accepting", FALSE)
        \/ AwaitCallback /\ Store("main", "running", FALSE)
    BY <1>6 DEF Main, Start, Spawn, CheckPinned, Open, Verify, SpinOnCallback, AwaitCallback,
           Join, Stop, vars, Memory
  <2>2. CASE UNCHANGED Memory
    BY <2>2, QuietMemory
  <2>3. ASSUME NEW loc \in Locations, NEW val \in BOOLEAN, Store("main", loc, val),
               Issues("main", [loc |-> loc, val |-> val])
        PROVE  StoresFollow /\ MemoryFollows
    BY <2>3, ThreadsDiffer, StoreMemory
  <2>4. CASE Start /\ Store("main", "running", TRUE)
    <3>1. Issues("main", [loc |-> "running", val |-> TRUE])
      BY <2>4 DEF Issues
    <3>2. QED
      BY <1>1, <2>3, <2>4, <3>1
  <2>5. CASE Open /\ Store("main", "accepting", TRUE)
    <3>1. Issues("main", [loc |-> "accepting", val |-> TRUE])
      BY <2>5 DEF Issues
    <3>2. QED
      BY <1>1, <2>3, <2>5, <3>1
  <2>6. CASE (Verify \/ Stop) /\ Store("main", "accepting", FALSE)
    <3>1. Issues("main", [loc |-> "accepting", val |-> FALSE])
      BY <2>6 DEF Issues
    <3>2. QED
      BY <1>1, <2>3, <2>6, <3>1
  <2>7. CASE AwaitCallback /\ Store("main", "running", FALSE)
    <3>1. Issues("main", [loc |-> "running", val |-> FALSE])
      BY <2>7 DEF Issues
    <3>2. QED
      BY <1>1, <2>3, <2>7, <3>1
  <2>8. QED
    BY <2>1, <2>2, <2>4, <2>5, <2>6, <2>7
<1>7. QED
  BY <1>2, <1>3, <1>4, <1>5, <1>6, CommitMemory DEF Next

LEMMA InitCount == ASSUME Init PROVE CountTypes
<1>1. \A t \in Threads : Len(buffer[t]) = 0
  BY DEF Init
<1>2. QED
  BY <1>1 DEF Init, CountTypes

LEMMA CountStep ==
  ASSUME StoreTypes, CountTypes, [Next]_vars
  PROVE  CountTypes'
<1>1. StoresFollow /\ MemoryFollows /\ "head" \in Locations
  BY StepMemory DEF Locations, Flags
<1>2. \A t \in Threads : \A i \in 1..Len(buffer'[t]) :
        buffer'[t][i].loc = "head" => buffer'[t][i].val \in Nat
  <2> SUFFICES ASSUME NEW t \in Threads, NEW i \in 1..Len(buffer'[t]), buffer'[t][i].loc = "head"
               PROVE  buffer'[t][i].val \in Nat
    OBVIOUS
  <2>1. CASE Kept(t, buffer'[t][i])
    BY <2>1 DEF Kept, CountTypes
  <2>2. CASE Issues(t, buffer'[t][i])
    <3>1. buffer'[t][i].val = Load(t, "head") + 1
      BY <2>2 DEF Issues
    <3>2. Load(t, "head") \in Nat
      BY <1>1, LoadSees DEF CountTypes
    <3>3. QED
      BY <3>1, <3>2
  <2>3. QED
    BY <1>1, <2>1, <2>2 DEF StoresFollow
<1>3. mem'.head \in Nat
  BY <1>1 DEF MemoryFollows, CountTypes
<1>4. /\ tail' \in {tail, tail + 1} /\ calls' \in {calls, calls + 1}
      /\ accepted' \in {accepted, accepted + 1} /\ early' \in {early, early + 1}
      /\ began' = began \/ \E k \in Callers : began' = [began EXCEPT ![k] = Now]
      /\ result' = result \/ \E k \in Callers : \E v \in {"none", "accepted", "rejected", "lost"} :
           result' = [result EXCEPT ![k] = v]
  <2>1. CASE UNCHANGED <<tail, history>>
    BY <2>1 DEF history
  <2>2. CASE \E k \in Callers : Enter(k)
    BY <2>2 DEF Enter
  <2>3. CASE \E k \in Callers : Admit(k)
    BY <2>3 DEF Admit, CheckAccepting, CheckRunning, CheckHealthy, LoadFlag, Validate,
           PublishToLane, Leave, history
  <2>4. CASE Consume
    BY <2>4 DEF Consume, history
  <2>5. CASE \E t \in Threads : Commit(t) \/ SetFatal(t)
    BY <2>1, <2>5 DEF Commit, SetFatal, ClaimFatal, CloseOnFatal, Diagnose, BecomeUnhealthy
  <2>6. CASE (Worker /\ ~Consume) \/ Main \/ Stop \/ Terminated \/ UNCHANGED vars
    BY <2>1, <2>6 DEF Worker, LaneIdle, TestRunning, ExitWhenEmpty, Main, Start, Spawn,
           CheckPinned, Open, Verify, SpinOnCallback, AwaitCallback, Join, Stop, Terminated, vars
  <2>7. QED
    BY <2>2, <2>3, <2>4, <2>5, <2>6 DEF Next
<1>5. /\ began' = [k \in Callers |-> began'[k]] /\ result' = [k \in Callers |-> result'[k]]
  BY <1>4 DEF CountTypes
<1>6. /\ tail' \in Nat /\ calls' \in Nat /\ accepted' \in Nat /\ early' \in Nat
  BY <1>4 DEF CountTypes
<1>7. QED
  BY <1>2, <1>3, <1>5, <1>6 DEF CountTypes

\* Whoever is not moving stays where it is.
Still(k) == pc'[k] = pc[k] /\ ret'[k] = ret[k] /\ began'[k] = began[k] /\ result'[k] = result[k]

LEMMA OthersStill ==
  ASSUME LabelInv, CountTypes, [Next]_vars, NEW k \in Callers,
         ~Enter(k), ~Admit(k), ~SetFatal(k)
  PROVE  Still(k)
<1>1. k \in Threads /\ k # "main" /\ k # "worker"
  BY ThreadsDiffer
<1>2. ASSUME NEW t \in Threads, SetFatal(t) PROVE Still(k)
  <2>1. t # k
    BY <1>2
  <2>2. QED
    BY <1>1, <1>2, <2>1 DEF SetFatal, ClaimFatal, CloseOnFatal, Diagnose, BecomeUnhealthy, Goto,
           history, LabelInv, Still
<1>3. ASSUME NEW j \in Callers, Enter(j) PROVE Still(k)
  <2>1. j # k
    BY <1>3
  <2>2. QED
    BY <1>1, <1>3, <2>1, ThreadsDiffer DEF Enter, CallFatal, Goto, LabelInv, CountTypes, Still
<1>4. ASSUME NEW j \in Callers, Admit(j) PROVE Still(k)
  <2>1. j # k
    BY <1>4
  <2>2. QED
    BY <1>1, <1>4, <2>1, ThreadsDiffer DEF Admit, CheckAccepting, CheckRunning, CheckHealthy,
           LoadFlag, Validate, PublishToLane, Leave, CallFatal, Goto, history, LabelInv, CountTypes,
           Still
<1>5. CASE Worker \/ Terminated \/ UNCHANGED vars \/ \E t \in Threads : Commit(t)
  BY <1>1, <1>5 DEF Worker, Consume, LaneIdle, TestRunning, ExitWhenEmpty, CallFatal, Goto,
         Terminated, vars, Commit, history, LabelInv, Still
<1>6. CASE Main \/ Stop
  BY <1>1, <1>6 DEF Main, Start, Spawn, CheckPinned, Open, Verify, SpinOnCallback, AwaitCallback,
         Join, Stop, CallFatal, Goto, history, vars, LabelInv, Still
<1>7. QED
  BY <1>2, <1>3, <1>4, <1>5, <1>6 DEF Next

-----------------------------------------------------------------------------
(***************************************************************************)
(* SetFatal: one thread claims, writes the diagnostic, then the flag.      *)
(***************************************************************************)
Claimant == {"close", "diagnose", "unhealthy"}

ClaimInv ==
  /\ ~fatal_claimed => fatal_error = {} /\ \A t \in Threads : pc[t] \notin Claimant
  /\ \A t \in Threads : pc[t] \in {"close", "diagnose"} =>
       fatal_error = {} /\ \A u \in Threads : pc[u] \in Claimant => u = t
  /\ \A t, u \in fatal_error : t = u
  /\ fatal_error \subseteq Threads

\* Until the diagnostic is written nothing says unhealthy.
DiagnosticInv ==
  fatal_error = {} =>
    mem.healthy /\ \A t \in Threads : pc[t] # "unhealthy" /\ ~Stored(t, "healthy")

\* healthy_ is only ever cleared, and a call that saw it cleared at its start goes no
\* further than its check.
HealthInv ==
  /\ \A t \in Threads : \A i \in 1..Len(buffer[t]) :
       buffer[t][i].loc = "healthy" => buffer[t][i].val = FALSE
  /\ \A k \in Callers : ~began[k].healthy =>
       ~mem.healthy /\ pc[k] \notin {"validate", "publish"} /\ result[k] # "accepted"

LEMMA InitFatal == ASSUME Init PROVE ClaimInv /\ DiagnosticInv /\ HealthInv
<1>1. \A t \in Threads : Len(buffer[t]) = 0
  BY DEF Init
<1>2. \A t \in Threads : pc[t] \in {"new", "off", "idle"}
  BY DEF Init
<1>3. QED
  BY <1>1, <1>2 DEF Init, ClaimInv, DiagnosticInv, HealthInv, Claimant, Stored

\* Outside SetFatal nobody becomes a claimant.
LEMMA NoNewClaimant ==
  ASSUME LabelInv, [Next]_vars, \A t \in Threads : ~SetFatal(t)
  PROVE  /\ UNCHANGED fatal
         /\ \A t \in Threads : pc'[t] \in Claimant => pc'[t] = pc[t]
<1>1. CASE \E t \in Threads : Commit(t)
  BY <1>1 DEF Commit
<1>2. CASE \E k \in Callers : Enter(k) \/ Admit(k)
  <2>1. PICK k \in Callers : Enter(k) \/ Admit(k)
    BY <1>2
  <2>2. UNCHANGED fatal
    BY <2>1 DEF Enter, Admit, CheckAccepting, CheckRunning, CheckHealthy, LoadFlag, Validate,
           PublishToLane, Leave
  <2>3. \E l \in CallerLabels \ Claimant : pc' = [pc EXCEPT ![k] = l]
    BY <2>1 DEF Enter, Admit, CheckAccepting, CheckRunning, CheckHealthy, LoadFlag, Validate,
           PublishToLane, Leave, CallFatal, Goto, CallerLabels, InFatal, Claimant
  <2>4. QED
    BY <2>2, <2>3, ThreadsDiffer DEF LabelInv
<1>3. CASE Worker \/ Terminated \/ UNCHANGED vars
  BY <1>3, ThreadsDiffer DEF Worker, Consume, LaneIdle, TestRunning, ExitWhenEmpty, CallFatal,
         Goto, Terminated, vars, fatal, LabelInv, Claimant
<1>4. CASE Main \/ Stop
  BY <1>4, ThreadsDiffer DEF Main, Start, Spawn, CheckPinned, Open, Verify, SpinOnCallback,
         AwaitCallback, Join, Stop, CallFatal, Goto, vars, fatal, LabelInv, Claimant
<1>5. QED
  BY <1>1, <1>2, <1>3, <1>4 DEF Next

\* healthy_ is stored from the last place of SetFatal only.
LEMMA HealthyFollows ==
  ASSUME StoresFollow, \A t \in Threads : pc[t] # "unhealthy" /\ ~Stored(t, "healthy")
  PROVE  \A t \in Threads : ~Stored(t, "healthy")'
<1> SUFFICES ASSUME NEW t \in Threads, NEW i \in 1..Len(buffer'[t]),
                    buffer'[t][i].loc = "healthy"
             PROVE  FALSE
  BY DEF Stored
<1>1. CASE Kept(t, buffer'[t][i])
  BY <1>1 DEF Kept, Stored
<1>2. CASE Issues(t, buffer'[t][i])
  <2>1. pc[t] = "unhealthy"
    BY <1>2, IssuedWhere
  <2>2. QED
    BY <2>1
<1>3. QED
  BY <1>1, <1>2 DEF StoresFollow

LEMMA FatalStep ==
  ASSUME LabelInv, StoreTypes, CountTypes, ClaimInv, DiagnosticInv, [Next]_vars
  PROVE  ClaimInv' /\ DiagnosticInv'
<1>1. StoresFollow /\ MemoryFollows /\ "healthy" \in Locations
  BY StepMemory DEF Locations, Flags
<1>2. CASE \A t \in Threads : ~SetFatal(t)
  <2>1. /\ UNCHANGED <<fatal_claimed, fatal_error>>
        /\ \A t \in Threads : pc'[t] \in Claimant => pc'[t] = pc[t]
    BY <1>2, NoNewClaimant DEF fatal
  <2>2. ClaimInv'
    BY <2>1 DEF ClaimInv, Claimant
  <2>3. ASSUME fatal_error' = {} PROVE \A t \in Threads : pc'[t] # "unhealthy"
    BY <2>1, <2>3 DEF DiagnosticInv, Claimant
  <2>4. ASSUME fatal_error' = {}
        PROVE  mem'.healthy /\ \A t \in Threads : ~Stored(t, "healthy")'
    <3>1. mem.healthy /\ \A t \in Threads : pc[t] # "unhealthy" /\ ~Stored(t, "healthy")
      BY <2>1, <2>4 DEF DiagnosticInv
    <3>2. mem'.healthy = mem.healthy
      BY <1>1, <3>1 DEF MemoryFollows, Stored
    <3>3. \A t \in Threads : ~Stored(t, "healthy")'
      BY <1>1, <3>1, HealthyFollows
    <3>4. QED
      BY <3>1, <3>2, <3>3
  <2>5. QED
    BY <2>2, <2>3, <2>4 DEF DiagnosticInv
<1>3. ASSUME NEW t \in Threads, SetFatal(t) PROVE ClaimInv' /\ DiagnosticInv'
  <2>1. \A u \in Threads : u # t => pc'[u] = pc[u]
    BY <1>3 DEF SetFatal, ClaimFatal, CloseOnFatal, Diagnose, BecomeUnhealthy, Goto, LabelInv
  <2>2. ret[t] \notin Claimant \/ pc[t] \notin InFatal
    BY DEF LabelInv, Threads, Claimant
  <2>3. CASE ClaimFatal(t)
    <3>1. /\ pc[t] = "claim" /\ fatal_claimed' = TRUE /\ UNCHANGED <<mem, buffer, fatal_error>>
          /\ pc'[t] = IF fatal_claimed THEN ret[t] ELSE "close"
      BY <2>3 DEF ClaimFatal, Goto, LabelInv, Memory
    <3>2. CASE fatal_claimed
      <4>1. \A u \in Threads : pc'[u] \in Claimant => pc'[u] = pc[u]
        BY <2>1, <2>2, <3>1, <3>2 DEF InFatal
      <4>2. ClaimInv'
        BY <3>1, <3>2, <4>1 DEF ClaimInv, Claimant
      <4>3. DiagnosticInv'
        BY <3>1, <4>1 DEF DiagnosticInv, Claimant, Stored
      <4>4. QED
        BY <4>2, <4>3
    <3>3. CASE ~fatal_claimed
      <4>1. fatal_error = {} /\ (\A u \in Threads : pc[u] \notin Claimant) /\ pc'[t] = "close"
        BY <3>1, <3>3 DEF ClaimInv
      <4>2. ClaimInv'
        BY <2>1, <3>1, <4>1 DEF ClaimInv, Claimant
      <4>3. DiagnosticInv'
        BY <2>1, <3>1, <4>1 DEF DiagnosticInv, Claimant, Stored
      <4>4. QED
        BY <4>2, <4>3
    <3>4. QED
      BY <3>2, <3>3
  <2>4. CASE CloseOnFatal(t)
    <3>1. pc[t] = "close" /\ pc'[t] = "diagnose" /\ UNCHANGED <<fatal_claimed, fatal_error>>
      BY <2>4 DEF CloseOnFatal, Goto, LabelInv, fatal
    <3>2. fatal_error = {} /\ fatal_claimed /\ \A u \in Threads : pc[u] \in Claimant => u = t
      BY <3>1 DEF ClaimInv, Claimant
    <3>3. ClaimInv'
      BY <2>1, <3>1, <3>2 DEF ClaimInv, Claimant
    <3>4. mem.healthy /\ \A u \in Threads : pc[u] # "unhealthy" /\ ~Stored(u, "healthy")
      BY <3>2 DEF DiagnosticInv
    <3>5. mem'.healthy = mem.healthy
      BY <1>1, <3>4 DEF MemoryFollows, Stored
    <3>6. \A u \in Threads : ~Stored(u, "healthy")'
      BY <1>1, <3>4, HealthyFollows
    <3>7. QED
      BY <2>1, <3>1, <3>3, <3>4, <3>5, <3>6 DEF DiagnosticInv
  <2>5. CASE Diagnose(t)
    <3>1. /\ pc[t] = "diagnose" /\ pc'[t] = "unhealthy" /\ UNCHANGED fatal_claimed
          /\ fatal_error' = fatal_error \cup {t}
      BY <2>5 DEF Diagnose, Goto, LabelInv
    <3>2. fatal_error = {} /\ fatal_claimed /\ \A u \in Threads : pc[u] \in Claimant => u = t
      BY <3>1 DEF ClaimInv, Claimant
    <3>3. QED
      BY <2>1, <3>1, <3>2 DEF ClaimInv, DiagnosticInv, Claimant
  <2>6. CASE BecomeUnhealthy(t)
    <3>1. /\ pc[t] = "unhealthy" /\ pc'[t] = ret[t] /\ UNCHANGED <<fatal_claimed, fatal_error>>
      BY <2>6 DEF BecomeUnhealthy, Goto, LabelInv, fatal
    <3>2. fatal_error # {}
      BY <3>1 DEF DiagnosticInv
    <3>3. \A u \in Threads : pc'[u] \in Claimant => pc'[u] = pc[u]
      BY <2>1, <2>2, <3>1 DEF InFatal
    <3>4. ClaimInv'
      BY <3>1, <3>3 DEF ClaimInv, Claimant
    <3>5. QED
      BY <3>1, <3>2, <3>4 DEF DiagnosticInv
  <2>7. QED
    BY <1>3, <2>3, <2>4, <2>5, <2>6 DEF SetFatal
<1>4. QED
  BY <1>2, <1>3

LEMMA HealthStep ==
  ASSUME LabelInv, StoreTypes, CountTypes, HealthInv, [Next]_vars
  PROVE  HealthInv'
<1>1. StoresFollow /\ MemoryFollows /\ "healthy" \in Locations
  BY StepMemory DEF Locations, Flags
<1>2. \A t \in Threads : \A i \in 1..Len(buffer'[t]) :
        buffer'[t][i].loc = "healthy" => buffer'[t][i].val = FALSE
  <2> SUFFICES ASSUME NEW t \in Threads, NEW i \in 1..Len(buffer'[t]),
                      buffer'[t][i].loc = "healthy"
               PROVE  buffer'[t][i].val = FALSE
    OBVIOUS
  <2>1. CASE Kept(t, buffer'[t][i])
    BY <2>1 DEF Kept, HealthInv
  <2>2. CASE Issues(t, buffer'[t][i])
    BY <2>2, IssuedWhere
  <2>3. QED
    BY <1>1, <2>1, <2>2 DEF StoresFollow
<1>3. ~mem.healthy => ~mem'.healthy
  BY <1>1 DEF MemoryFollows, HealthInv
<1>4. ASSUME NEW k \in Callers, ~began'[k].healthy
      PROVE  ~mem'.healthy /\ pc'[k] \notin {"validate", "publish"} /\ result'[k] # "accepted"
  <2>1. k \in Threads
    BY ThreadsDiffer
  <2>2. CASE Enter(k)
    <3>1. began'[k] = Now
      BY <2>2 DEF Enter, CountTypes
    <3>2. ~mem.healthy
      BY <1>4, <3>1 DEF Now
    <3>3. pc'[k] \in {"claim", "accepting"} /\ result'[k] \in {"rejected", "none"}
      BY <2>1, <2>2 DEF Enter, CallFatal, Goto, LabelInv, CountTypes
    <3>4. QED
      BY <1>3, <3>2, <3>3
  <2>3. CASE Admit(k)
    <3>1. began'[k] = began[k]
      BY <2>3 DEF Admit, CheckAccepting, CheckRunning, CheckHealthy, LoadFlag, Validate,
             PublishToLane, Leave, history
    <3>2. ~mem.healthy /\ pc[k] \notin {"validate", "publish"} /\ result[k] # "accepted"
      BY <1>4, <3>1 DEF HealthInv
    <3>3. ~Load(k, "healthy")
      BY <1>1, <2>1, <3>2, LoadSees DEF HealthInv
    <3>4. CASE CheckHealthy(k)
      <4>1. pc'[k] = "clear" /\ result'[k] = "rejected"
        BY <2>1, <3>3, <3>4 DEF CheckHealthy, LoadFlag, Goto, LabelInv, CountTypes
      <4>2. QED
        BY <1>3, <3>2, <4>1
    <3>5. CASE CheckAccepting(k) \/ CheckRunning(k) \/ Leave(k)
      <4>1. /\ pc'[k] \in {"running", "healthy", "clear", "idle"}
            /\ result'[k] = result[k] \/ result'[k] = "rejected"
        BY <2>1, <3>5 DEF CheckAccepting, CheckRunning, LoadFlag, Leave, Goto, LabelInv, CountTypes,
               history
      <4>2. QED
        BY <1>3, <3>2, <4>1
    <3>6. QED
      BY <2>3, <3>2, <3>4, <3>5 DEF Admit, Validate, PublishToLane
  <2>4. CASE SetFatal(k)
    <3>1. began' = began /\ result' = result /\ pc[k] \in InFatal
      BY <2>4 DEF SetFatal, ClaimFatal, CloseOnFatal, Diagnose, BecomeUnhealthy, history, InFatal
    <3>2. pc'[k] \in {ret[k], "close", "diagnose", "unhealthy"}
      BY <2>1, <2>4 DEF SetFatal, ClaimFatal, CloseOnFatal, Diagnose, BecomeUnhealthy, Goto, LabelInv
    <3>3. QED
      BY <1>3, <1>4, <3>1, <3>2 DEF HealthInv, LabelInv
  <2>5. CASE Still(k)
    BY <1>3, <1>4, <2>5 DEF Still, HealthInv
  <2>6. QED
    BY <2>2, <2>3, <2>4, <2>5, OthersStill
<1>5. QED
  BY <1>2, <1>4 DEF HealthInv

-----------------------------------------------------------------------------
(***************************************************************************)
(* The lane's head.  A head that has not reached memory is followed, in    *)
(* the same buffer, by the store that gives the flag back.                 *)
(***************************************************************************)
HeadInv ==
  /\ \A t \in Threads : \A i \in 1..Len(buffer[t]) : buffer[t][i].loc = "head" =>
       /\ t \in Callers /\ buffer[t][i].val = accepted
       /\ pc[t] = "clear" \/ (pc[t] = "idle" /\ buffer[t][Len(buffer[t])].loc = "active")
  /\ (\A k \in Callers : ~Stored(k, "head")) => mem.head = accepted
  /\ early <= accepted

\* Whoever has a head in its buffer holds the flag.
LEMMA HeadHeld ==
  ASSUME StoreTypes, HeadInv, NEW t \in Threads, Stored(t, "head")
  PROVE  t \in Callers /\ Holds(t) /\ pc[t] \in {"clear", "idle"}
<1>1. PICK i \in 1..Len(buffer[t]) : buffer[t][i].loc = "head"
  BY DEF Stored
<1>2. /\ t \in Callers
      /\ pc[t] = "clear" \/ (pc[t] = "idle" /\ buffer[t][Len(buffer[t])].loc = "active")
  BY <1>1 DEF HeadInv
<1>3. Len(buffer[t]) \in 1..Len(buffer[t])
  BY <1>1 DEF StoreTypes
<1>4. QED
  BY <1>2, <1>3 DEF Holds, Inside, Stored

\* A step that publishes nothing and leaves the buffers with a head alone.
LEMMA HeadFrame ==
  ASSUME HeadInv, accepted' = accepted, early' = early, mem'.head = mem.head,
         \A t \in Threads : \/ ~Stored(t, "head") /\ ~Stored(t, "head")'
                            \/ buffer'[t] = buffer[t] /\ pc'[t] = pc[t]
  PROVE  HeadInv'
<1>1. \A k \in Callers : Stored(k, "head")' <=> Stored(k, "head")
  BY ThreadsDiffer DEF Stored
<1>2. \A t \in Threads : \A i \in 1..Len(buffer'[t]) : buffer'[t][i].loc = "head" =>
       /\ t \in Callers /\ buffer'[t][i].val = accepted'
       /\ pc'[t] = "clear" \/ (pc'[t] = "idle" /\ buffer'[t][Len(buffer'[t])].loc = "active")
  BY DEF HeadInv, Stored
<1>3. QED
  BY <1>1, <1>2 DEF HeadInv

LEMMA InitHead == ASSUME Init PROVE HeadInv
<1>1. \A t \in Threads : Len(buffer[t]) = 0
  BY DEF Init
<1>2. QED
  BY <1>1 DEF Init, HeadInv

LEMMA CommitHead ==
  ASSUME StoreTypes, HeadInv, NEW t \in Threads, Commit(t)
  PROVE  HeadInv'
<1> DEFINE l == buffer[t][1].loc
<1>1. /\ 1 \in 1..Len(buffer[t]) /\ Len(buffer[t]) \in Nat /\ Len(buffer'[t]) = Len(buffer[t]) - 1
      /\ \A u \in Threads : u # t => buffer'[u] = buffer[u]
      /\ \A i \in 1..Len(buffer'[t]) :
           i + 1 \in 1..Len(buffer[t]) /\ buffer'[t][i] = buffer[t][i + 1]
      /\ mem'[l] = buffer[t][1].val
      /\ \A m \in Locations : m # l => mem'[m] = mem[m]
  BY CommitShifts
<1>2. UNCHANGED <<pc, ret, accepted, early>>
  BY DEF Commit, history
<1>3. ASSUME NEW u \in Threads, NEW i \in 1..Len(buffer'[u]), buffer'[u][i].loc = "head"
      PROVE  /\ u \in Callers /\ buffer'[u][i].val = accepted
             /\ pc[u] = "clear" \/ (pc[u] = "idle" /\ buffer'[u][Len(buffer'[u])].loc = "active")
  <2>1. CASE u # t
    BY <1>1, <1>3, <2>1 DEF HeadInv
  <2>2. CASE u = t
    <3>1. i + 1 \in 1..Len(buffer[t]) /\ buffer'[t][i] = buffer[t][i + 1]
      BY <1>1, <1>3, <2>2
    <3>2. buffer'[t][Len(buffer'[t])] = buffer[t][Len(buffer[t])]
      <4>1. Len(buffer'[t]) \in 1..Len(buffer'[t]) /\ Len(buffer'[t]) + 1 = Len(buffer[t])
        BY <1>1, <1>3, <2>2
      <4>2. QED
        BY <1>1, <4>1
    <3>3. QED
      BY <1>3, <2>2, <3>1, <3>2 DEF HeadInv
  <2>3. QED
    BY <2>1, <2>2
<1>4. ASSUME \A k \in Callers : ~Stored(k, "head")' PROVE mem'.head = accepted
  <2>1. CASE l = "head"
    BY <1>1, <2>1 DEF HeadInv
  <2>2. CASE l # "head"
    <3>1. \A k \in Callers : ~Stored(k, "head")
      <4> SUFFICES ASSUME NEW k \in Callers, NEW i \in 1..Len(buffer[k]), buffer[k][i].loc = "head"
                   PROVE  Stored(k, "head")'
        BY <1>4 DEF Stored
      <4>1. k \in Threads
        BY ThreadsDiffer
      <4>2. CASE k # t
        BY <1>1, <4>1, <4>2 DEF Stored
      <4>3. CASE k = t
        <5>1. i # 1 /\ i - 1 \in 1..Len(buffer'[t])
          BY <1>1, <2>2, <4>3
        <5>2. buffer'[t][i - 1] = buffer[t][(i - 1) + 1] /\ (i - 1) + 1 = i
          BY <1>1, <5>1
        <5>3. QED
          BY <4>3, <5>1, <5>2 DEF Stored
      <4>4. QED
        BY <4>2, <4>3
    <3>2. mem'.head = mem.head
      BY <1>1, <2>2 DEF Locations
    <3>3. QED
      BY <3>1, <3>2 DEF HeadInv
  <2>3. QED
    BY <2>1, <2>2
<1>5. QED
  BY <1>2, <1>3, <1>4 DEF HeadInv

LEMMA BufferStill ==
  ASSUME StoreTypes, [Next]_vars, NEW k \in Callers,
         ~Enter(k), ~Admit(k), ~SetFatal(k), ~Commit(k)
  PROVE  buffer'[k] = buffer[k]
<1>1. k \in Threads /\ k # "main" /\ k # "worker"
  BY ThreadsDiffer
<1>2. ASSUME NEW t \in Threads, Commit(t) PROVE buffer'[k] = buffer[k]
  BY <1>1, <1>2, CommitShifts
<1>3. ASSUME NEW t \in Threads, t # k, NEW loc, NEW val, Store(t, loc, val)
      PROVE  buffer'[k] = buffer[k]
  BY <1>1, <1>3 DEF Store, StoreTypes
<1>4. ASSUME NEW t \in Threads, SetFatal(t) PROVE buffer'[k] = buffer[k]
  <2>1. t # k
    BY <1>4
  <2>2. UNCHANGED buffer \/ Store(t, "accepting", FALSE) \/ Store(t, "healthy", FALSE)
    BY <1>4 DEF SetFatal, ClaimFatal, CloseOnFatal, Diagnose, BecomeUnhealthy, Memory
  <2>3. QED
    BY <1>3, <2>1, <2>2
<1>5. ASSUME NEW j \in Callers, Enter(j) \/ Admit(j) PROVE buffer'[k] = buffer[k]
  <2>1. j # k /\ j \in Threads
    BY <1>5, ThreadsDiffer
  <2>2. UNCHANGED buffer \/ Store(j, "active", FALSE) \/ Store(j, "head", Load(j, "head") + 1)
    BY <1>5 DEF Enter, Admit, CheckAccepting, CheckRunning, CheckHealthy, LoadFlag, Validate,
           PublishToLane, Leave, Memory
  <2>3. QED
    BY <1>3, <2>1, <2>2
<1>6. CASE Worker \/ Terminated \/ UNCHANGED vars
  BY <1>6 DEF Worker, Consume, LaneIdle, TestRunning, ExitWhenEmpty, Terminated, vars, Memory
<1>7. CASE Main \/ Stop
  <2>1. \/ UNCHANGED buffer
        \/ Store("main", "running", TRUE) \/ Store("main", "accepting", TRUE)
        \/ Store("main", "accepting", FALSE) \/ Store("main", "running", FALSE)
    BY <1>7 DEF Main, Start, Spawn, CheckPinned, Open, Verify, SpinOnCallback, AwaitCallback,
           Join, Stop, vars, Memory
  <2>2. QED
    BY <1>1, <1>3, <2>1, ThreadsDiffer
<1>8. QED
  BY <1>2, <1>4, <1>5, <1>6, <1>7 DEF Next

\* Only PublishToLane stores a head.
LEMMA NoNewHead ==
  ASSUME StoresFollow, NEW t \in Threads, ~Stored(t, "head"),
         ~(t \in Callers /\ PublishToLane(t))
  PROVE  ~Stored(t, "head")'
<1> SUFFICES ASSUME NEW i \in 1..Len(buffer'[t]), buffer'[t][i].loc = "head"
             PROVE  FALSE
  BY DEF Stored
<1>1. CASE Kept(t, buffer'[t][i])
  BY <1>1 DEF Kept, Stored
<1>2. CASE Issues(t, buffer'[t][i])
  <2>1. t \in Callers /\ PublishToLane(t)
    BY <1>2, IssuedWhere
  <2>2. QED
    BY <2>1
<1>3. QED
  BY <1>1, <1>2 DEF StoresFollow

\* The admission that publishes is the only one with a head, and sees its own count.
LEMMA PublishHead ==
  ASSUME LabelInv, StoreTypes, CountTypes, AccessInv, HeadInv, NEW k \in Callers,
         PublishToLane(k), [Next]_vars
  PROVE  /\ HeadInv' /\ \A j \in Callers : ~Stored(j, "head")
         /\ accepted' = accepted \/ accepted' = accepted + 1
         /\ accepted' = accepted => early' = early
         /\ Load(k, "head") = accepted /\ mem'.head = mem.head
<1>1. k \in Threads /\ "head" \in Locations /\ Inside(k) /\ pc[k] = "publish"
  BY ThreadsDiffer DEF Locations, PublishToLane, Inside
<1>2. \A t \in Threads : ~Stored(t, "head")
  <2> SUFFICES ASSUME NEW t \in Threads, Stored(t, "head") PROVE FALSE
    OBVIOUS
  <2>1. t \in Callers /\ Holds(t) /\ pc[t] \in {"clear", "idle"}
    BY HeadHeld
  <2>2. t = k
    BY <1>1, <2>1 DEF AccessInv, Holds
  <2>3. QED
    BY <1>1, <2>1, <2>2
<1>3. \A j \in Callers : ~Stored(j, "head")
  BY <1>2, ThreadsDiffer
<1>4. Load(k, "head") = accepted
  <2>1. mem.head = accepted
    BY <1>3 DEF HeadInv
  <2>2. QED
    BY <1>1, <1>2, <2>1, LoadSees
<1>5. CASE UNCHANGED <<mem, buffer, accepted, early>>
  <2>1. \A t \in Threads : ~Stored(t, "head")'
    BY <1>2, <1>5 DEF Stored
  <2>2. QED
    BY <1>2, <1>3, <1>4, <1>5, <2>1, HeadFrame
<1>6. CASE /\ Store(k, "head", accepted + 1) /\ accepted' = accepted + 1
           /\ early' \in {early, early + 1} /\ pc' = [pc EXCEPT ![k] = "clear"]
  <2>1. accepted \in Nat /\ early \in Nat /\ accepted + 1 \in BOOLEAN \cup Nat
    BY DEF CountTypes
  <2>2. /\ mem' = mem
        /\ \A u \in Threads : u # k => buffer'[u] = buffer[u]
        /\ Len(buffer[k]) \in Nat /\ Len(buffer'[k]) = Len(buffer[k]) + 1
        /\ \A i \in 1..Len(buffer[k]) : buffer'[k][i] = buffer[k][i]
        /\ buffer'[k][Len(buffer[k]) + 1] = [loc |-> "head", val |-> accepted + 1]
    BY <1>1, <1>6, <2>1, StoreAppends
  <2>3. pc'[k] = "clear"
    BY <1>1, <1>6 DEF LabelInv
  <2>4. ASSUME NEW u \in Threads, NEW i \in 1..Len(buffer'[u]), buffer'[u][i].loc = "head"
        PROVE  u = k /\ i = Len(buffer[k]) + 1
    <3>1. CASE u # k
      BY <1>2, <2>2, <2>4, <3>1 DEF Stored
    <3>2. CASE u = k /\ i # Len(buffer[k]) + 1
      <4>1. i \in 1..Len(buffer[k])
        BY <2>2, <2>4, <3>2
      <4>2. QED
        BY <1>2, <2>2, <2>4, <3>2, <4>1 DEF Stored
    <3>3. QED
      BY <3>1, <3>2
  <2>5. Stored(k, "head")'
    BY <2>2 DEF Stored
  <2>6. early' <= accepted'
    BY <1>6, <2>1 DEF HeadInv
  <2>7. ASSUME NEW u \in Threads, NEW i \in 1..Len(buffer'[u]), buffer'[u][i].loc = "head"
        PROVE  u \in Callers /\ buffer'[u][i].val = accepted' /\ pc'[u] = "clear"
    BY <1>6, <2>2, <2>3, <2>4, <2>7
  <2>8. HeadInv'
    BY <2>5, <2>6, <2>7 DEF HeadInv
  <2>9. accepted' # accepted
    BY <1>6, <2>1
  <2>10. QED
    BY <1>3, <1>4, <1>6, <2>2, <2>8, <2>9
<1>7. QED
  BY <1>4, <1>5, <1>6 DEF PublishToLane, Goto, CallFatal, Memory

LEMMA LeaveHead ==
  ASSUME LabelInv, StoreTypes, HeadInv, NEW k \in Callers, Leave(k)
  PROVE  HeadInv'
<1>1. /\ pc[k] = "clear" /\ Store(k, "active", FALSE) /\ pc' = [pc EXCEPT ![k] = "idle"]
      /\ UNCHANGED <<accepted, early>> /\ k \in Threads /\ "active" \in Locations
  BY ThreadsDiffer DEF Leave, Goto, history, Locations, Flags
<1>2. pc'[k] = "idle" /\ \A j \in Threads : j # k => pc'[j] = pc[j]
  BY <1>1 DEF LabelInv
<1>3. /\ mem' = mem
      /\ \A u \in Threads : u # k => buffer'[u] = buffer[u]
      /\ Len(buffer[k]) \in Nat /\ Len(buffer'[k]) = Len(buffer[k]) + 1
      /\ \A i \in 1..Len(buffer[k]) : buffer'[k][i] = buffer[k][i]
      /\ buffer'[k][Len(buffer[k]) + 1] = [loc |-> "active", val |-> FALSE]
  BY <1>1, StoreAppends
<1>4. buffer'[k][Len(buffer'[k])].loc = "active"
  BY <1>3
<1>5. ASSUME NEW u \in Threads, NEW i \in 1..Len(buffer'[u]), buffer'[u][i].loc = "head"
      PROVE  /\ u \in Callers /\ buffer'[u][i].val = accepted
             /\ pc'[u] = "clear" \/ (pc'[u] = "idle" /\ buffer'[u][Len(buffer'[u])].loc = "active")
  <2>1. CASE u # k
    BY <1>2, <1>3, <1>5, <2>1 DEF HeadInv
  <2>2. CASE u = k
    <3>1. i \in 1..Len(buffer[k])
      BY <1>3, <1>5, <2>2
    <3>2. QED
      BY <1>2, <1>3, <1>4, <1>5, <2>2, <3>1 DEF HeadInv
  <2>3. QED
    BY <2>1, <2>2
<1>6. ASSUME \A j \in Callers : ~Stored(j, "head")' PROVE \A j \in Callers : ~Stored(j, "head")
  <2> SUFFICES ASSUME NEW j \in Callers, NEW i \in 1..Len(buffer[j]), buffer[j][i].loc = "head"
               PROVE  Stored(j, "head")'
    BY <1>6 DEF Stored
  <2>1. CASE j # k
    BY <1>3, <2>1, ThreadsDiffer DEF Stored
  <2>2. CASE j = k
    <3>1. i \in 1..Len(buffer'[k]) /\ buffer'[k][i] = buffer[k][i]
      BY <1>3, <2>2
    <3>2. QED
      BY <2>2, <3>1 DEF Stored
  <2>3. QED
    BY <2>1, <2>2
<1>7. QED
  BY <1>1, <1>3, <1>5, <1>6 DEF HeadInv

LEMMA HeadStep ==
  ASSUME LabelInv, StoreTypes, CountTypes, AccessInv, HeadInv, [Next]_vars
  PROVE  HeadInv'
<1>1. StoresFollow /\ MemoryFollows /\ "head" \in Locations
  BY StepMemory DEF Locations
<1>2. CASE \E t \in Threads : Commit(t)
  BY <1>2, CommitHead
<1>3. CASE \E k \in Callers : PublishToLane(k)
  BY <1>3, PublishHead
<1>4. CASE \E k \in Callers : Leave(k)
  BY <1>4, LeaveHead
<1>5. CASE /\ ~\E t \in Threads : Commit(t)
           /\ ~\E k \in Callers : PublishToLane(k) \/ Leave(k)
  <2>1. mem'.head = mem.head
    BY <1>1, <1>5 DEF MemoryFollows
  <2>2. UNCHANGED <<accepted, early>>
    <3>1. CASE \E k \in Callers : Enter(k)
      BY <3>1 DEF Enter
    <3>2. CASE \E k \in Callers : Admit(k)
      BY <1>5, <3>2 DEF Admit, CheckAccepting, CheckRunning, CheckHealthy, LoadFlag, Validate
    <3>3. CASE \E t \in Threads : SetFatal(t)
      BY <3>3 DEF SetFatal, ClaimFatal, CloseOnFatal, Diagnose, BecomeUnhealthy, history
    <3>4. CASE Worker \/ Main \/ Stop \/ Terminated \/ UNCHANGED vars
      BY <3>4 DEF Worker, Consume, LaneIdle, TestRunning, ExitWhenEmpty, Main, Start, Spawn,
             CheckPinned, Open, Verify, SpinOnCallback, AwaitCallback, Join, Stop, Terminated, vars,
             history
    <3>5. QED
      BY <1>5, <3>1, <3>2, <3>3, <3>4 DEF Next
  <2>3. ASSUME NEW t \in Threads
        PROVE  \/ ~Stored(t, "head") /\ ~Stored(t, "head")'
               \/ buffer'[t] = buffer[t] /\ pc'[t] = pc[t]
    <3>1. CASE ~Stored(t, "head")
      BY <1>1, <1>5, <3>1, NoNewHead
    <3>2. CASE Stored(t, "head")
      <4>1. t \in Callers /\ pc[t] \in {"clear", "idle"}
        BY <3>2, HeadHeld
      <4>2. ~SetFatal(t)
        BY <4>1 DEF SetFatal, ClaimFatal, CloseOnFatal, Diagnose, BecomeUnhealthy
      <4>3. ~Enter(t)
        <5>1. Len(buffer[t]) # 0
          BY <3>2 DEF Stored
        <5>2. QED
          BY <5>1 DEF Enter, Fenced
      <4>4. ~Admit(t)
        BY <1>5, <4>1 DEF Admit, CheckAccepting, CheckRunning, CheckHealthy, LoadFlag, Validate
      <4>5. buffer'[t] = buffer[t] /\ pc'[t] = pc[t]
        BY <1>5, <4>1, <4>2, <4>3, <4>4, BufferStill, OthersStill DEF Still
      <4>6. QED
        BY <4>5
    <3>3. QED
      BY <3>1, <3>2
  <2>4. QED
    BY <2>1, <2>2, <2>3, HeadFrame
<1>6. QED
  BY <1>2, <1>3, <1>4, <1>5

-----------------------------------------------------------------------------
(***************************************************************************)
(* Start and Stop: when the lane may exit, and what it has consumed then.  *)
(***************************************************************************)
Closing == pc["main"] \in {"join", "stopped"}

\* running_ is seen cleared by a lane only after Stop has waited for the callback.
RunInv ==
  /\ \A t \in Threads : Stored(t, "running") => t = "main"
  /\ pc["main"] \in {"new", "spawn"} => pc["worker"] = "off"
  /\ pc["main"] = "new" => ~Stored("main", "running")
  /\ pc["main"] = "spawn" =>
       /\ mem.running \/ Stored("main", "running")
       /\ \A i \in 1..Len(buffer["main"]) :
            buffer["main"][i].loc = "running" => buffer["main"][i].val = TRUE
  /\ pc["worker"] # "off" /\ ~Closing => mem.running /\ ~Stored("main", "running")

\* The gate opens only over a lane that runs.
GateInv ==
  pc["worker"] = "off" =>
    /\ ~mem.accepting /\ early = 0
    /\ \A t \in Threads : \A i \in 1..Len(buffer[t]) :
         buffer[t][i].loc = "accepting" => buffer[t][i].val = FALSE
    /\ \A k \in Callers : pc[k] \notin {"running", "healthy", "validate", "publish"}
    /\ pc["main"] \notin {"open", "verify", "started", "pinned"}
    /\ pc["main"] \in InFatal => ret["main"] = "stop"

Admitting == {"accepting", "running", "healthy", "validate", "publish"}

\* Once Stop has waited, the head of every earlier call is in memory.
EarlyInv ==
  Closing => /\ early <= mem.head
             /\ \A k \in Callers : pc[k] \in Admitting => ~began[k].early

Exiting == pc["worker"] = "exited" \/ (pc["worker"] \in InFatal /\ ret["worker"] = "exited")

DoneInv ==
  /\ pc["worker"] = "last" \/ Exiting => Closing
  /\ Exiting => tail >= early
  /\ pc["main"] = "stopped" => pc["worker"] \in {"off", "exited"}

\* The main thread moves by Start, Stop and SetFatal only; the worker by its loop,
\* Spawn and SetFatal.
LEMMA MainStill ==
  ASSUME LabelInv, [Next]_vars, ~Main, ~Stop, ~SetFatal("main")
  PROVE  pc'["main"] = pc["main"] /\ ret'["main"] = ret["main"]
<1>1. CASE \E t \in Threads : Commit(t) \/ SetFatal(t)
  BY <1>1, ThreadsDiffer DEF Commit, SetFatal, ClaimFatal, CloseOnFatal, Diagnose, BecomeUnhealthy,
         Goto, LabelInv
<1>2. CASE \E k \in Callers : Enter(k)
  BY <1>2, ThreadsDiffer DEF Enter, CallFatal, Goto, LabelInv
<1>3. CASE \E k \in Callers : Admit(k)
  BY <1>3, ThreadsDiffer DEF Admit, CheckAccepting, CheckRunning, CheckHealthy, LoadFlag, Validate,
         PublishToLane, Leave, CallFatal, Goto, LabelInv
<1>4. CASE Worker \/ Terminated \/ UNCHANGED vars
  BY <1>4, ThreadsDiffer DEF Worker, Consume, LaneIdle, TestRunning, ExitWhenEmpty, CallFatal, Goto,
         Terminated, vars, LabelInv
<1>5. QED
  BY <1>1, <1>2, <1>3, <1>4 DEF Next

LEMMA WorkerStill ==
  ASSUME LabelInv, [Next]_vars, ~Worker, ~Spawn, ~SetFatal("worker")
  PROVE  pc'["worker"] = pc["worker"] /\ ret'["worker"] = ret["worker"] /\ tail' = tail
<1>1. CASE \E t \in Threads : Commit(t) \/ SetFatal(t)
  BY <1>1, ThreadsDiffer DEF Commit, SetFatal, ClaimFatal, CloseOnFatal, Diagnose, BecomeUnhealthy,
         Goto, LabelInv
<1>2. CASE \E k \in Callers : Enter(k)
  BY <1>2, ThreadsDiffer DEF Enter, CallFatal, Goto, LabelInv
<1>3. CASE \E k \in Callers : Admit(k)
  BY <1>3, ThreadsDiffer DEF Admit, CheckAccepting, CheckRunning, CheckHealthy, LoadFlag, Validate,
         PublishToLane, Leave, CallFatal, Goto, LabelInv
<1>4. CASE Main \/ Stop \/ Terminated \/ UNCHANGED vars
  BY <1>4, ThreadsDiffer DEF Main, Start, CheckPinned, Open, Verify, SpinOnCallback, AwaitCallback,
         Join, Stop, CallFatal, Goto, Terminated, vars, LabelInv
<1>5. QED
  BY <1>1, <1>2, <1>3, <1>4 DEF Next

\* The places of the main thread and of the worker, one after another.
LEMMA MainMoves ==
  ASSUME LabelInv, [Next]_vars
  PROVE  /\ Closing => Closing'
         /\ pc'["main"] = "new" => pc["main"] = "new"
         /\ pc'["main"] = "spawn" => pc["main"] = "spawn" \/ Start
         /\ pc'["main"] \in {"open", "verify", "started", "pinned"} =>
              \/ pc["main"] \in {"open", "verify", "started", "pinned"}
              \/ pc["main"] \in InFatal /\ ret["main"] = "pinned"
              \/ Spawn /\ pc'["worker"] = "loop"
         /\ pc'["main"] \in InFatal =>
              \/ pc["main"] \in InFatal /\ ret'["main"] = ret["main"]
              \/ Spawn /\ (ret'["main"] = "stop" \/ pc'["worker"] = "loop")
         /\ Closing' => Closing \/ AwaitCallback
         /\ pc'["main"] = "stopped" => pc["main"] = "stopped" \/ Join
<1>1. CASE Main \/ Stop
  BY <1>1, ThreadsDiffer DEF Main, Start, Spawn, CheckPinned, Open, Verify, SpinOnCallback,
         AwaitCallback, Join, Stop, CallFatal, Goto, vars, LabelInv, Closing, InFatal
<1>2. CASE SetFatal("main")
  <2>1. /\ pc["main"] \in InFatal /\ ret' = ret
        /\ pc'["main"] \in {ret["main"], "close", "diagnose", "unhealthy"}
    BY <1>2, ThreadsDiffer DEF SetFatal, ClaimFatal, CloseOnFatal, Diagnose, BecomeUnhealthy, Goto,
           LabelInv, InFatal
  <2>2. QED
    BY <2>1 DEF LabelInv, Closing, InFatal
<1>3. CASE pc'["main"] = pc["main"] /\ ret'["main"] = ret["main"]
  BY <1>3 DEF Closing
<1>4. QED
  BY <1>1, <1>2, <1>3, MainStill

LEMMA WorkerMoves ==
  ASSUME LabelInv, [Next]_vars
  PROVE  /\ pc'["worker"] = "off" <=> pc["worker"] = "off" /\ ~(Spawn /\ pc'["worker"] = "loop")
         /\ pc'["worker"] = "last" => pc["worker"] = "last" \/ TestRunning
         /\ Exiting' => (Exiting /\ tail' = tail) \/ (ExitWhenEmpty /\ pc["worker"] = "last" /\ tail' = tail)
         /\ pc["worker"] = "exited" => pc'["worker"] = "exited" \/ Spawn
<1>1. CASE Worker
  <2>1. pc["worker"] \in {"loop", "idle", "last"} /\ pc'["worker"] # "off"
    BY <1>1, ThreadsDiffer DEF Worker, Consume, LaneIdle, TestRunning, ExitWhenEmpty, CallFatal, Goto,
           LabelInv
  <2>2. pc'["worker"] = "last" => TestRunning
    BY <1>1, <2>1, ThreadsDiffer DEF Worker, Consume, LaneIdle, TestRunning, ExitWhenEmpty, CallFatal,
           Goto, LabelInv
  <2>3. Exiting' => ExitWhenEmpty /\ pc["worker"] = "last" /\ tail' = tail
    BY <1>1, <2>1, ThreadsDiffer DEF Worker, Consume, LaneIdle, TestRunning, ExitWhenEmpty, CallFatal,
           Goto, LabelInv, Exiting, InFatal
  <2>4. QED
    BY <2>1, <2>2, <2>3
<1>2. CASE SetFatal("worker")
  <2>1. /\ pc["worker"] \in InFatal /\ ret' = ret /\ tail' = tail
        /\ pc'["worker"] \in {ret["worker"], "close", "diagnose", "unhealthy"}
    BY <1>2, ThreadsDiffer DEF SetFatal, ClaimFatal, CloseOnFatal, Diagnose, BecomeUnhealthy, Goto,
           LabelInv, InFatal
  <2>2. QED
    BY <2>1 DEF LabelInv, Exiting, InFatal
<1>3. CASE Spawn
  <2>1. /\ tail' = tail
        /\ \/ pc'["worker"] = "loop"
           \/ pc'["worker"] = pc["worker"] /\ ret'["worker"] = ret["worker"]
    BY <1>3, ThreadsDiffer DEF Spawn, CallFatal, Goto, LabelInv
  <2>2. QED
    BY <1>3, <2>1 DEF Exiting, InFatal
<1>4. CASE pc'["worker"] = pc["worker"] /\ ret'["worker"] = ret["worker"] /\ tail' = tail
  <2>1. pc'["worker"] = "loop" => pc["worker"] # "off"
    BY <1>4
  <2>2. QED
    BY <1>4, <2>1 DEF Exiting
<1>5. QED
  BY <1>1, <1>2, <1>3, <1>4, WorkerStill

LEMMA InitLife == ASSUME Init PROVE RunInv /\ GateInv /\ EarlyInv /\ DoneInv
<1>1. \A t \in Threads : Len(buffer[t]) = 0
  BY DEF Init
<1>2. pc["main"] = "new" /\ pc["worker"] = "off" /\ \A k \in Callers : pc[k] = "idle"
  BY ThreadsDiffer DEF Init
<1>3. QED
  BY <1>1, <1>2, ThreadsDiffer
     DEF Init, RunInv, GateInv, EarlyInv, DoneInv, Stored, Closing, Exiting, InFatal

\* Without a commit a buffer keeps its stores where they are.
LEMMA BufferGrows ==
  ASSUME StoreTypes, CountTypes, NEW t \in Threads, ~Commit(t), [Next]_vars,
         NEW i \in 1..Len(buffer[t])
  PROVE  i \in 1..Len(buffer'[t]) /\ buffer'[t][i] = buffer[t][i]
<1>1. CASE buffer'[t] = buffer[t]
  BY <1>1
<1>2. ASSUME NEW u \in Threads, NEW loc \in Locations, NEW val \in BOOLEAN \cup Nat,
             Store(u, loc, val)
      PROVE  i \in 1..Len(buffer'[t]) /\ buffer'[t][i] = buffer[t][i]
  <2>1. /\ \A v \in Threads : v # u => buffer'[v] = buffer[v]
        /\ Len(buffer[u]) \in Nat /\ Len(buffer'[u]) = Len(buffer[u]) + 1
        /\ \A j \in 1..Len(buffer[u]) : buffer'[u][j] = buffer[u][j]
    BY <1>2, StoreAppends
  <2>2. QED
    BY <2>1
<1>3. {"accepting", "running", "healthy", "active", "head"} \subseteq Locations
  BY DEF Locations, Flags
<1>4. ASSUME NEW u \in Threads, Commit(u)
      PROVE  i \in 1..Len(buffer'[t]) /\ buffer'[t][i] = buffer[t][i]
  <2>1. u # t
    BY <1>4
  <2>2. QED
    BY <1>1, <1>4, <2>1, CommitShifts
<1>5. ASSUME NEW u \in Threads, SetFatal(u)
      PROVE  i \in 1..Len(buffer'[t]) /\ buffer'[t][i] = buffer[t][i]
  <2>1. UNCHANGED buffer \/ Store(u, "accepting", FALSE) \/ Store(u, "healthy", FALSE)
    BY <1>5 DEF SetFatal, ClaimFatal, CloseOnFatal, Diagnose, BecomeUnhealthy, Memory
  <2>2. QED
    BY <1>1, <1>2, <1>3, <2>1
<1>6. ASSUME NEW k \in Callers, Enter(k) \/ Admit(k)
      PROVE  i \in 1..Len(buffer'[t]) /\ buffer'[t][i] = buffer[t][i]
  <2>1. UNCHANGED buffer \/ Store(k, "active", FALSE) \/ Store(k, "head", Load(k, "head") + 1)
    BY <1>6 DEF Enter, Admit, CheckAccepting, CheckRunning, CheckHealthy, LoadFlag, Validate,
           PublishToLane, Leave, Memory
  <2>2. k \in Threads /\ Load(k, "head") \in Nat
    BY <1>3, ThreadsDiffer, LoadSees DEF CountTypes
  <2>3. Load(k, "head") + 1 \in BOOLEAN \cup Nat
    BY <2>2
  <2>4. QED
    BY <1>1, <1>2, <1>3, <2>1, <2>2, <2>3
<1>7. CASE Worker \/ Terminated \/ UNCHANGED vars
  BY <1>1, <1>7 DEF Worker, Consume, LaneIdle, TestRunning, ExitWhenEmpty, Terminated, vars, Memory
<1>8. CASE Main \/ Stop
  <2>1. \/ UNCHANGED buffer
        \/ Store("main", "running", TRUE) \/ Store("main", "accepting", TRUE)
        \/ Store("main", "accepting", FALSE) \/ Store("main", "running", FALSE)
    BY <1>8 DEF Main, Start, Spawn, CheckPinned, Open, Verify, SpinOnCallback, AwaitCallback,
           Join, Stop, vars, Memory
  <2>2. QED
    BY <1>1, <1>2, <1>3, <2>1, ThreadsDiffer
<1>9. QED
  BY <1>4, <1>5, <1>6, <1>7, <1>8 DEF Next

LEMMA RunStep ==
  ASSUME LabelInv, StoreTypes, CountTypes, RunInv, [Next]_vars
  PROVE  RunInv'
<1>1. /\ StoresFollow /\ MemoryFollows /\ "running" \in Locations
      /\ "main" \in Threads /\ "worker" \in Threads
  BY StepMemory, ThreadsDiffer DEF Locations, Flags
<1>2. ASSUME NEW t \in Threads, NEW i \in 1..Len(buffer'[t]), buffer'[t][i].loc = "running"
      PROVE  /\ t = "main"
             /\ \/ Kept(t, buffer'[t][i])
                \/ buffer'[t][i].val = TRUE /\ Start
                \/ buffer'[t][i].val = FALSE /\ AwaitCallback
  <2>1. CASE Kept(t, buffer'[t][i])
    BY <1>2, <2>1 DEF Kept, RunInv, Stored
  <2>2. CASE Issues(t, buffer'[t][i])
    BY <1>2, <2>2, IssuedWhere
  <2>3. QED
    BY <1>1, <2>1, <2>2 DEF StoresFollow
<1>3. ASSUME Stored("main", "running")' PROVE Stored("main", "running") \/ Start \/ AwaitCallback
  <2>1. PICK i \in 1..Len(buffer'["main"]) : buffer'["main"][i].loc = "running"
    BY <1>3 DEF Stored
  <2>2. \/ Kept("main", buffer'["main"][i]) \/ Start \/ AwaitCallback
    BY <1>1, <1>2, <2>1
  <2>3. Kept("main", buffer'["main"][i]) => Stored("main", "running")
    BY <2>1 DEF Kept, Stored
  <2>4. QED
    BY <2>2, <2>3
<1>4. \A t \in Threads : Stored(t, "running")' => t = "main"
  BY <1>2 DEF Stored
<1>5. mem'.running # mem.running =>
        /\ Commit("main") /\ 1 \in 1..Len(buffer["main"]) /\ buffer["main"][1].loc = "running"
        /\ mem'.running = buffer["main"][1].val
  BY <1>1 DEF MemoryFollows, RunInv, Stored
<1>6. pc'["main"] \in {"new", "spawn"} => pc'["worker"] = "off"
  <2>1. pc'["main"] \in {"new", "spawn"} => pc["main"] \in {"new", "spawn"}
    BY MainMoves DEF Start
  <2>2. Spawn => pc'["main"] \notin {"new", "spawn"}
    BY ThreadsDiffer DEF Spawn, CallFatal, Goto, LabelInv
  <2>3. QED
    BY <2>1, <2>2, WorkerMoves DEF RunInv
<1>7. pc'["main"] = "new" => ~Stored("main", "running")'
  <2>1. Start => pc'["main"] = "spawn"
    BY ThreadsDiffer DEF Start, Goto, LabelInv
  <2>2. QED
    BY <1>3, <2>1, MainMoves DEF RunInv, AwaitCallback
<1>8. ASSUME pc'["main"] = "spawn"
      PROVE  /\ mem'.running \/ Stored("main", "running")'
             /\ \A i \in 1..Len(buffer'["main"]) :
                  buffer'["main"][i].loc = "running" => buffer'["main"][i].val = TRUE
  <2>1. CASE Start
    <3>1. Store("main", "running", TRUE) /\ pc["main"] = "new" /\ TRUE \in BOOLEAN \cup Nat
      BY <2>1 DEF Start
    <3>2. /\ Len(buffer["main"]) \in Nat /\ Len(buffer'["main"]) = Len(buffer["main"]) + 1
          /\ buffer'["main"][Len(buffer["main"]) + 1] = [loc |-> "running", val |-> TRUE]
      BY <1>1, <3>1, StoreAppends
    <3>3. Stored("main", "running")'
      BY <3>2 DEF Stored
    <3>4. ~Stored("main", "running") /\ ~AwaitCallback
      BY <3>1 DEF RunInv, AwaitCallback
    <3>5. ASSUME NEW i \in 1..Len(buffer'["main"]), buffer'["main"][i].loc = "running"
          PROVE  buffer'["main"][i].val = TRUE
      <4>1. ~Kept("main", buffer'["main"][i])
        BY <3>4, <3>5 DEF Kept, Stored
      <4>2. QED
        BY <1>1, <1>2, <3>4, <3>5, <4>1
    <3>6. QED
      BY <3>3, <3>5
  <2>2. CASE pc["main"] = "spawn"
    <3>1. ~Start /\ ~AwaitCallback
      BY <2>2 DEF Start, AwaitCallback
    <3>2. \A i \in 1..Len(buffer["main"]) :
            buffer["main"][i].loc = "running" => buffer["main"][i].val = TRUE
      BY <2>2 DEF RunInv
    <3>3. \A i \in 1..Len(buffer'["main"]) :
            buffer'["main"][i].loc = "running" => buffer'["main"][i].val = TRUE
      BY <1>1, <1>2, <3>1, <3>2 DEF Kept
    <3>4. CASE mem'.running = TRUE
      BY <3>3, <3>4
    <3>5. CASE mem'.running # TRUE
      <4>1. mem.running # TRUE
        BY <1>5, <3>2, <3>5
      <4>2. PICK i \in 1..Len(buffer["main"]) : buffer["main"][i].loc = "running"
        BY <2>2, <4>1 DEF RunInv, Stored
      <4>3. Stored("main", "running")'
        <5>1. CASE Commit("main")
          <6>1. /\ Len(buffer["main"]) \in Nat /\ Len(buffer'["main"]) = Len(buffer["main"]) - 1
                /\ \A j \in 1..Len(buffer'["main"]) : buffer'["main"][j] = buffer["main"][j + 1]
                /\ mem'[buffer["main"][1].loc] = buffer["main"][1].val
            BY <1>1, <5>1, CommitShifts
          <6>2. i # 1
            BY <3>2, <3>5, <4>2, <6>1
          <6>3. i - 1 \in 1..Len(buffer'["main"]) /\ (i - 1) + 1 = i
            BY <6>1, <6>2
          <6>4. buffer'["main"][i - 1] = buffer["main"][i]
            BY <6>1, <6>3
          <6>5. QED
            BY <4>2, <6>3, <6>4 DEF Stored
        <5>2. CASE ~Commit("main")
          <6>1. /\ Len(buffer["main"]) \in Nat /\ i \in 1..Len(buffer'["main"])
                /\ buffer'["main"][i] = buffer["main"][i]
            BY <1>1, <2>2, <4>2, <5>2, BufferGrows
          <6>2. QED
            BY <4>2, <6>1 DEF Stored
        <5>3. QED
          BY <5>1, <5>2
      <4>4. QED
        BY <3>3, <4>3
    <3>6. QED
      BY <3>4, <3>5
  <2>3. QED
    BY <1>8, <2>1, <2>2, MainMoves
<1>9. ASSUME pc'["worker"] # "off", ~Closing' PROVE mem'.running /\ ~Stored("main", "running")'
  <2>1. ~Closing /\ ~AwaitCallback
    <3>1. AwaitCallback => Closing'
      BY ThreadsDiffer DEF AwaitCallback, Goto, LabelInv, Closing
    <3>2. QED
      BY <1>9, <3>1, MainMoves
  <2>2. mem.running /\ ~Stored("main", "running") /\ ~Start
    <3>1. CASE pc["worker"] # "off"
      BY <2>1, <3>1 DEF RunInv, Start
    <3>2. CASE pc["worker"] = "off"
      <4>1. Spawn
        BY <1>9, <3>2, WorkerMoves
      <4>2. pc["main"] = "spawn" /\ Len(buffer["main"]) = 0
        BY <4>1 DEF Spawn, Fenced
      <4>3. ~Stored("main", "running")
        BY <4>2 DEF Stored
      <4>4. QED
        BY <4>2, <4>3 DEF RunInv, Start
    <3>3. QED
      BY <3>1, <3>2
  <2>3. mem'.running = mem.running
    BY <1>5, <2>2 DEF Stored
  <2>4. QED
    BY <1>3, <2>1, <2>2, <2>3
<1>10. QED
  BY <1>4, <1>6, <1>7, <1>8, <1>9 DEF RunInv

\* A message is counted by the admission that publishes it.
LEMMA EarlyMoves ==
  ASSUME [Next]_vars
  PROVE  \/ early' = early
         \/ \E k \in Callers : PublishToLane(k) /\ pc[k] = "publish" /\ began[k].early
<1>1. CASE \E k \in Callers : Enter(k)
  BY <1>1 DEF Enter
<1>2. CASE \E k \in Callers : Admit(k)
  BY <1>2 DEF Admit, CheckAccepting, CheckRunning, CheckHealthy, LoadFlag, Validate, PublishToLane,
         Leave, history
<1>3. CASE \E t \in Threads : Commit(t) \/ SetFatal(t)
  BY <1>3 DEF Commit, SetFatal, ClaimFatal, CloseOnFatal, Diagnose, BecomeUnhealthy, history
<1>4. CASE Worker \/ Main \/ Stop \/ Terminated \/ UNCHANGED vars
  BY <1>4 DEF Worker, Consume, LaneIdle, TestRunning, ExitWhenEmpty, Main, Start, Spawn,
         CheckPinned, Open, Verify, SpinOnCallback, AwaitCallback, Join, Stop, Terminated, vars,
         history
<1>5. QED
  BY <1>1, <1>2, <1>3, <1>4 DEF Next

\* The places of a caller, one after another.
LEMMA CallerMoves ==
  ASSUME LabelInv, CountTypes, [Next]_vars, NEW k \in Callers
  PROVE  \/ Still(k)
         \/ Enter(k) /\ pc'[k] \in {"claim", "accepting"} /\ began'[k] = Now
         \/ SetFatal(k) /\ pc'[k] \in {"idle", "clear"} \cup Claimant /\ began'[k] = began[k]
         \/ /\ Admit(k) /\ began'[k] = began[k]
            /\ pc[k] \in Admitting \cup {"clear"}
            /\ pc[k] = "accepting" /\ pc'[k] # "clear" => Load(k, "accepting")
            /\ pc[k] = "clear" => pc'[k] = "idle"
<1>1. k \in Threads /\ k # "main" /\ k # "worker"
  BY ThreadsDiffer
<1>2. CASE Enter(k)
  BY <1>1, <1>2 DEF Enter, CallFatal, Goto, LabelInv, CountTypes
<1>3. CASE SetFatal(k)
  <2>1. ret[k] \in {"idle", "clear"}
    BY DEF LabelInv
  <2>2. pc'[k] \in {ret[k]} \cup Claimant /\ began' = began
    BY <1>1, <1>3 DEF SetFatal, ClaimFatal, CloseOnFatal, Diagnose, BecomeUnhealthy, Goto, LabelInv,
           history, Claimant
  <2>3. QED
    BY <1>3, <2>1, <2>2
<1>4. CASE Admit(k)
  <2>1. began' = began
    BY <1>4 DEF Admit, CheckAccepting, CheckRunning, CheckHealthy, LoadFlag, Validate, PublishToLane,
           Leave, history
  <2>2. /\ pc[k] \in Admitting \cup {"clear"}
        /\ pc[k] = "accepting" => CheckAccepting(k)
        /\ pc[k] = "clear" => Leave(k)
    BY <1>4 DEF Admit, CheckAccepting, CheckRunning, CheckHealthy, LoadFlag, Validate, PublishToLane,
           Leave, Admitting
  <2>3. CheckAccepting(k) /\ pc'[k] # "clear" => Load(k, "accepting")
    BY <1>1 DEF CheckAccepting, LoadFlag, Goto, LabelInv
  <2>4. Leave(k) => pc'[k] = "idle"
    BY <1>1 DEF Leave, Goto, LabelInv
  <2>5. QED
    BY <1>4, <2>1, <2>2, <2>3, <2>4
<1>5. QED
  BY <1>2, <1>3, <1>4, OthersStill

LEMMA GateStep ==
  ASSUME LabelInv, StoreTypes, CountTypes, GateInv, [Next]_vars
  PROVE  GateInv'
<1> SUFFICES ASSUME pc'["worker"] = "off"
             PROVE  /\ ~mem'.accepting /\ early' = 0
                    /\ \A t \in Threads : \A i \in 1..Len(buffer'[t]) :
                         buffer'[t][i].loc = "accepting" => buffer'[t][i].val = FALSE
                    /\ \A k \in Callers : pc'[k] \notin {"running", "healthy", "validate", "publish"}
                    /\ pc'["main"] \notin {"open", "verify", "started", "pinned"}
                    /\ pc'["main"] \in InFatal => ret'["main"] = "stop"
  BY DEF GateInv
<1>1. StoresFollow /\ MemoryFollows /\ "accepting" \in Locations
  BY StepMemory DEF Locations, Flags
<1>2. pc["worker"] = "off" /\ ~(Spawn /\ pc'["worker"] = "loop")
  BY WorkerMoves
<1>3. /\ ~mem.accepting /\ early = 0
      /\ \A t \in Threads : \A i \in 1..Len(buffer[t]) :
           buffer[t][i].loc = "accepting" => buffer[t][i].val = FALSE
      /\ \A k \in Callers : pc[k] \notin {"running", "healthy", "validate", "publish"}
      /\ pc["main"] \notin {"open", "verify", "started", "pinned"}
      /\ pc["main"] \in InFatal => ret["main"] = "stop"
  BY <1>2 DEF GateInv
<1>4. ~mem'.accepting
  BY <1>1, <1>3 DEF MemoryFollows
<1>5. ASSUME NEW t \in Threads, NEW i \in 1..Len(buffer'[t]), buffer'[t][i].loc = "accepting"
      PROVE  buffer'[t][i].val = FALSE
  <2>1. CASE Kept(t, buffer'[t][i])
    BY <1>3, <1>5, <2>1 DEF Kept
  <2>2. CASE Issues(t, buffer'[t][i])
    <3>1. ~Open
      BY <1>3 DEF Open
    <3>2. QED
      BY <1>5, <2>2, <3>1, IssuedWhere
  <2>3. QED
    BY <1>1, <2>1, <2>2 DEF StoresFollow
<1>6. ASSUME NEW k \in Callers PROVE pc'[k] \notin {"running", "healthy", "validate", "publish"}
  <2>1. k \in Threads /\ ~Load(k, "accepting")
    <3>1. k \in Threads
      BY ThreadsDiffer
    <3>2. QED
      BY <1>1, <1>3, <3>1, LoadSees
  <2>2. QED
    BY <1>3, <2>1, CallerMoves DEF Still, Claimant, Admitting
<1>7. early' = 0
  BY <1>3, EarlyMoves
<1>8. /\ pc'["main"] \notin {"open", "verify", "started", "pinned"}
      /\ pc'["main"] \in InFatal => ret'["main"] = "stop"
  BY <1>2, <1>3, MainMoves
<1>9. QED
  BY <1>4, <1>5, <1>6, <1>7, <1>8

LEMMA EarlyStep ==
  ASSUME LabelInv, StoreTypes, CountTypes, AccessInv, HeadInv, EarlyInv, [Next]_vars
  PROVE  /\ EarlyInv'
         /\ Closing => early' = early
<1>1. /\ MemoryFollows /\ {"head", "active"} \subseteq Locations
      /\ "main" \in Threads /\ "main" \notin Callers
  BY StepMemory, ThreadsDiffer DEF Locations, Flags
<1>2. CASE AwaitCallback
  <2>1. pc["main"] = "wait" /\ ~Load("main", "active") /\ UNCHANGED <<mem, early>>
    BY <1>2 DEF AwaitCallback, Store, history
  <2>2. ~mem.active
    <3>1. ~Stored("main", "active")
      BY <1>1 DEF AccessInv, Stored
    <3>2. QED
      BY <1>1, <2>1, <3>1, LoadSees DEF Stored
  <2>3. \A k \in Callers : ~Holds(k)
    BY <2>2 DEF AccessInv
  <2>4. \A k \in Callers : ~Stored(k, "head")
    BY <2>3, ThreadsDiffer, HeadHeld
  <2>5. early <= mem.head
    BY <2>4 DEF HeadInv
  <2>6. \A k \in Callers : pc'[k] = pc[k] /\ pc[k] \notin Admitting
    <3>1. \A k \in Callers : pc[k] \notin Admitting
      BY <2>3 DEF Holds, Inside, Admitting
    <3>2. \A k \in Callers : k # "main"
      BY <1>1
    <3>3. QED
      BY <1>2, <3>1, <3>2, ThreadsDiffer DEF AwaitCallback, Goto, LabelInv
  <2>7. QED
    BY <2>1, <2>5, <2>6 DEF EarlyInv, Closing
<1>3. CASE Closing
  <2>1. /\ early <= mem.head
        /\ \A k \in Callers : pc[k] \in Admitting => ~began[k].early
    BY <1>3 DEF EarlyInv
  <2>2. early' = early
    BY <2>1, EarlyMoves DEF Admitting
  <2>3. early <= mem'.head
    <3>1. \A t \in Threads : 1 \in 1..Len(buffer[t]) /\ buffer[t][1].loc = "head" =>
            early <= buffer[t][1].val
      BY DEF HeadInv
    <3>2. QED
      BY <1>1, <2>1, <3>1 DEF MemoryFollows
  <2>4. ASSUME NEW k \in Callers, pc'[k] \in Admitting PROVE ~began'[k].early
    <3>1. ~Now.early
      BY <1>3 DEF Now, Closing
    <3>2. QED
      BY <2>1, <2>4, <3>1, CallerMoves DEF Still, Claimant, Admitting
  <2>5. QED
    BY <2>2, <2>3, <2>4 DEF EarlyInv
<1>4. CASE ~Closing /\ ~AwaitCallback
  <2>1. ~Closing'
    BY <1>4, MainMoves
  <2>2. QED
    BY <1>4, <2>1 DEF EarlyInv
<1>5. QED
  BY <1>2, <1>3, <1>4

LEMMA DoneStep ==
  ASSUME LabelInv, StoreTypes, CountTypes, AccessInv, HeadInv, RunInv, EarlyInv, DoneInv, [Next]_vars
  PROVE  DoneInv'
<1>1. /\ {"head", "running"} \subseteq Locations
      /\ "worker" \in Threads /\ "worker" \notin Callers /\ "worker" # "main"
  BY ThreadsDiffer DEF Locations, Flags
<1>2. Closing => Closing' /\ early' = early /\ early <= mem.head
  BY MainMoves, EarlyStep DEF EarlyInv
<1>3. pc'["worker"] = "last" => Closing
  <2>1. CASE TestRunning /\ pc'["worker"] = "last"
    <3>1. pc["worker"] = "idle" /\ ~Load("worker", "running")
      BY <1>1, <2>1 DEF TestRunning, Goto, LabelInv
    <3>2. ~Stored("worker", "running")
      BY <1>1 DEF RunInv
    <3>3. ~mem.running
      BY <1>1, <3>1, <3>2, LoadSees DEF Stored
    <3>4. QED
      BY <3>1, <3>3 DEF RunInv
  <2>2. QED
    BY <2>1, WorkerMoves DEF DoneInv
<1>4. Exiting' => Closing /\ tail' >= early
  <2>1. CASE Exiting /\ tail' = tail
    BY <2>1 DEF DoneInv
  <2>2. CASE Exiting' /\ ExitWhenEmpty /\ pc["worker"] = "last" /\ tail' = tail
    <3>1. Closing
      BY <2>2 DEF DoneInv
    <3>2. ~Stored("worker", "head")
      BY <1>1, HeadHeld
    <3>3. Load("worker", "head") = mem.head
      BY <1>1, <3>2, LoadSees DEF Stored
    <3>4. ~(tail < Load("worker", "head"))
      BY <1>1, <2>2 DEF ExitWhenEmpty, Goto, LabelInv, Exiting, InFatal
    <3>5. QED
      BY <1>2, <2>2, <3>1, <3>3, <3>4 DEF CountTypes
  <2>3. QED
    BY <2>1, <2>2, WorkerMoves
<1>5. pc'["main"] = "stopped" => pc'["worker"] \in {"off", "exited"}
  <2>1. CASE pc["main"] = "stopped"
    <3>1. ~Spawn
      BY <2>1 DEF Spawn
    <3>2. QED
      BY <2>1, <3>1, WorkerMoves DEF DoneInv
  <2>2. CASE Join
    BY <1>1, <2>2 DEF Join, Goto, LabelInv
  <2>3. QED
    BY <2>1, <2>2, MainMoves
<1>6. QED
  BY <1>2, <1>3, <1>4, <1>5 DEF DoneInv

-----------------------------------------------------------------------------
(***************************************************************************)
(* The lane's bound: a head that is still buffered counts, and a call is   *)
(* counted before its message.                                             *)
(***************************************************************************)
LaneInv ==
  /\ tail <= mem.head /\ mem.head <= accepted /\ accepted <= tail + Slots
  /\ accepted <= calls /\ calls <= MaxCalls
  /\ \A k \in Callers : pc[k] \in Admitting => accepted < calls

FlagTypes ==
  /\ \A f \in Flags : mem[f] \in BOOLEAN
  /\ \A t \in Threads : \A i \in 1..Len(buffer[t]) :
       buffer[t][i].loc \in Flags => buffer[t][i].val \in BOOLEAN
  /\ fatal_claimed \in BOOLEAN
  /\ \A k \in Callers : result[k] \in {"none", "accepted", "rejected", "lost"}

LEMMA InitLane == ASSUME Init PROVE LaneInv /\ FlagTypes
<1>1. \A t \in Threads : Len(buffer[t]) = 0
  BY DEF Init
<1>2. \A k \in Callers : pc[k] = "idle"
  BY ThreadsDiffer DEF Init
<1>3. LaneInv
  BY <1>2, AdmissionAssumption DEF Init, LaneInv, Admitting
<1>4. FlagTypes
  <2>1. \A f \in Flags : mem[f] \in BOOLEAN
    <3>1. /\ mem["accepting"] = FALSE /\ mem["running"] = FALSE
          /\ mem["healthy"] = TRUE /\ mem["active"] = FALSE
      BY DEF Init
    <3>2. QED
      BY <3>1, Zenon DEF Flags
  <2>2. fatal_claimed \in BOOLEAN /\ \A k \in Callers : result[k] = "none"
    BY DEF Init
  <2>3. QED
    BY <1>1, <2>1, <2>2 DEF FlagTypes
<1>5. QED
  BY <1>3, <1>4

\* How the counters move: a call begins, a message is published, one is consumed.
LEMMA CountMoves ==
  ASSUME CountTypes, [Next]_vars
  PROVE  /\ calls' = calls \/ (calls < MaxCalls /\ calls' = calls + 1)
         /\ \A k \in Callers : Enter(k) => calls' = calls + 1 /\ accepted' = accepted
         /\ \/ accepted' = accepted
            \/ /\ accepted' = accepted + 1 /\ calls' = calls
               /\ \E k \in Callers : PublishToLane(k) /\ ~LaneFull(Load(k, "head"))
         /\ \/ tail' = tail
            \/ tail' = tail + 1 /\ tail < Load("worker", "head") /\ accepted' = accepted
<1>0. calls + 1 # calls
  BY DEF CountTypes
<1>1. CASE UNCHANGED <<tail, history>>
  BY <1>0, <1>1 DEF history, Enter
<1>2. CASE \E k \in Callers : Enter(k)
  BY <1>2 DEF Enter
<1>3. CASE \E k \in Callers : Admit(k)
  <2>1. tail' = tail /\ calls' = calls
    BY <1>3 DEF Admit, CheckAccepting, CheckRunning, CheckHealthy, LoadFlag, Validate, PublishToLane,
           Leave, history
  <2>2. \A k \in Callers : ~Enter(k)
    BY <1>0, <2>1 DEF Enter
  <2>3. \/ accepted' = accepted
        \/ /\ accepted' = accepted + 1
           /\ \E k \in Callers : PublishToLane(k) /\ ~LaneFull(Load(k, "head"))
    BY <1>3 DEF Admit, CheckAccepting, CheckRunning, CheckHealthy, LoadFlag, Validate, PublishToLane,
           Leave, history
  <2>4. QED
    BY <2>1, <2>2, <2>3
<1>4. CASE Consume
  BY <1>0, <1>4 DEF Consume, history, Enter
<1>5. CASE \E t \in Threads : Commit(t) \/ SetFatal(t)
  BY <1>1, <1>5 DEF Commit, SetFatal, ClaimFatal, CloseOnFatal, Diagnose, BecomeUnhealthy
<1>6. CASE (Worker /\ ~Consume) \/ Main \/ Stop \/ Terminated \/ UNCHANGED vars
  BY <1>1, <1>6 DEF Worker, LaneIdle, TestRunning, ExitWhenEmpty, Main, Start, Spawn,
         CheckPinned, Open, Verify, SpinOnCallback, AwaitCallback, Join, Stop, Terminated, vars
<1>7. QED
  BY <1>2, <1>3, <1>4, <1>5, <1>6 DEF Next

LEMMA LaneStep ==
  ASSUME LabelInv, StoreTypes, CountTypes, AccessInv, HeadInv, LaneInv, [Next]_vars
  PROVE  LaneInv'
<1>1. /\ MemoryFollows /\ "head" \in Locations
      /\ "worker" \in Threads /\ "worker" \notin Callers
  BY StepMemory, ThreadsDiffer DEF Locations
<1>2. /\ tail \in Nat /\ calls \in Nat /\ accepted \in Nat /\ mem.head \in Nat
      /\ Slots \in Nat /\ MaxCalls \in Nat
  BY AdmissionAssumption DEF CountTypes
<1>3. Load("worker", "head") = mem.head
  <2>1. ~Stored("worker", "head")
    BY <1>1, HeadHeld
  <2>2. QED
    BY <1>1, <2>1, LoadSees
<1>4. mem'.head = mem.head \/ mem'.head = accepted
  BY <1>1 DEF MemoryFollows, HeadInv
<1>5. ASSUME NEW k \in Callers, PublishToLane(k)
      PROVE  /\ Load(k, "head") = accepted /\ mem'.head = mem.head /\ tail' = tail
             /\ pc[k] = "publish" /\ pc'[k] \notin Admitting
             /\ \A j \in Callers : pc[j] \in Admitting => j = k
  <2>1. Load(k, "head") = accepted /\ mem'.head = mem.head
    BY <1>5, PublishHead
  <2>2. pc[k] = "publish" /\ tail' = tail /\ pc'[k] \in {"clear", "claim"}
    BY <1>5, ThreadsDiffer DEF PublishToLane, CallFatal, Goto, LabelInv
  <2>3. \A j \in Callers : pc[j] \in Admitting => Holds(j)
    BY DEF Holds, Inside, Admitting
  <2>4. QED
    BY <2>1, <2>2, <2>3 DEF AccessInv, Admitting
<1>6. /\ calls' = calls \/ (calls < MaxCalls /\ calls' = calls + 1)
      /\ \/ accepted' = accepted
         \/ /\ accepted' = accepted + 1 /\ calls' = calls /\ ~LaneFull(accepted) /\ tail' = tail
            /\ mem'.head = mem.head /\ accepted < calls
      /\ tail' = tail \/ (tail' = tail + 1 /\ tail < mem.head /\ accepted' = accepted)
  <2>1. ASSUME NEW k \in Callers, PublishToLane(k) PROVE accepted < calls
    BY <1>5, <2>1 DEF LaneInv, Admitting
  <2>2. QED
    BY <1>3, <1>5, <2>1, CountMoves
<1>7. /\ tail' <= mem'.head /\ mem'.head <= accepted' /\ accepted' <= tail' + Slots
      /\ accepted' <= calls' /\ calls' <= MaxCalls
  <2>1. /\ tail <= mem.head /\ mem.head <= accepted /\ accepted <= tail + Slots
        /\ accepted <= calls /\ calls <= MaxCalls
    BY DEF LaneInv
  <2>2. QED
    BY <1>2, <1>4, <1>6, <2>1 DEF LaneFull
<1>8. ASSUME NEW k \in Callers, pc'[k] \in Admitting PROVE accepted' < calls'
  <2>1. CASE Enter(k)
    <3>1. calls' = calls + 1 /\ accepted' = accepted /\ accepted <= calls
      BY <2>1, CountMoves DEF LaneInv
    <3>2. QED
      BY <1>2, <3>1
  <2>2. CASE ~Enter(k)
    <3>1. pc[k] \in Admitting
      BY <1>8, <2>2, CallerMoves DEF Still, Claimant, Admitting
    <3>2. accepted < calls
      BY <3>1 DEF LaneInv
    <3>3. ~\E j \in Callers : PublishToLane(j)
      BY <1>5, <1>8, <3>1
    <3>4. accepted' = accepted
      BY <3>3, CountMoves
    <3>5. QED
      BY <1>2, <1>6, <3>2, <3>4
  <2>3. QED
    BY <2>1, <2>2
<1>9. QED
  BY <1>7, <1>8 DEF LaneInv

LEMMA FlagStep ==
  ASSUME LabelInv, StoreTypes, CountTypes, FlagTypes, [Next]_vars
  PROVE  FlagTypes'
<1>1. StoresFollow /\ MemoryFollows /\ Flags \subseteq Locations
  BY StepMemory DEF Locations
<1>2. ASSUME NEW t \in Threads, NEW i \in 1..Len(buffer'[t]), buffer'[t][i].loc \in Flags
      PROVE  buffer'[t][i].val \in BOOLEAN
  <2>1. CASE Kept(t, buffer'[t][i])
    BY <1>2, <2>1 DEF Kept, FlagTypes
  <2>2. CASE Issues(t, buffer'[t][i])
    <3>1. ASSUME NEW e, Issues(t, e) PROVE e.val = TRUE \/ e.val = FALSE \/ e.loc = "head"
      BY <3>1 DEF Issues
    <3>2. "head" \notin Flags
      BY DEF Flags
    <3>3. buffer'[t][i].val = TRUE \/ buffer'[t][i].val = FALSE
      BY <1>2, <2>2, <3>1, <3>2, Zenon
    <3>4. QED
      BY <3>3, Zenon
  <2>3. QED
    BY <1>1, <2>1, <2>2 DEF StoresFollow
<1>3. ASSUME NEW f \in Flags PROVE mem'[f] \in BOOLEAN
  <2>1. CASE \E k \in Callers : Enter(k)
    <3>1. mem' = mem \/ mem' = [mem EXCEPT !.active = TRUE]
      BY <2>1 DEF Enter
    <3>2. f \in Locations
      BY <1>1
    <3>3. QED
      BY <3>1, <3>2 DEF StoreTypes, FlagTypes
  <2>2. CASE ~\E k \in Callers : Enter(k)
    <3>1. \/ mem'[f] = mem[f]
          \/ \E t \in Threads : /\ 1 \in 1..Len(buffer[t])
                                /\ buffer[t][1].loc = f /\ mem'[f] = buffer[t][1].val
      BY <1>1, <2>2 DEF MemoryFollows
    <3>2. QED
      BY <3>1 DEF FlagTypes
  <2>3. QED
    BY <2>1, <2>2
<1>4. fatal_claimed' \in BOOLEAN
  <2>1. CASE \A t \in Threads : ~SetFatal(t)
    BY <2>1, NoNewClaimant DEF fatal, FlagTypes
  <2>2. CASE \E t \in Threads : SetFatal(t)
    BY <2>2 DEF SetFatal, ClaimFatal, CloseOnFatal, Diagnose, BecomeUnhealthy, fatal, FlagTypes
  <2>3. QED
    BY <2>1, <2>2
<1>5. ASSUME NEW k \in Callers PROVE result'[k] \in {"none", "accepted", "rejected", "lost"}
  <2>1. CASE Enter(k)
    BY <2>1 DEF Enter, CountTypes
  <2>2. CASE Admit(k)
    BY <2>2 DEF Admit, CheckAccepting, CheckRunning, CheckHealthy, LoadFlag, Validate, PublishToLane,
           Leave, history, CountTypes, FlagTypes
  <2>3. CASE SetFatal(k)
    BY <2>3 DEF SetFatal, ClaimFatal, CloseOnFatal, Diagnose, BecomeUnhealthy, history, FlagTypes
  <2>4. QED
    BY <2>1, <2>2, <2>3, OthersStill DEF Still, FlagTypes
<1>6. QED
  BY <1>2, <1>3, <1>4, <1>5 DEF FlagTypes

-----------------------------------------------------------------------------
(***************************************************************************)
(* The inductive invariant, and what it says of every behaviour.           *)
(***************************************************************************)
AdmInv ==
  /\ LabelInv /\ StoreTypes /\ CountTypes
  /\ AccessInv /\ HeadInv
  /\ ClaimInv /\ DiagnosticInv /\ HealthInv
  /\ RunInv /\ GateInv /\ EarlyInv /\ DoneInv
  /\ LaneInv /\ FlagTypes

LEMMA InitAdm == ASSUME Init PROVE AdmInv
BY InitLabel, InitCount, InitAccess, InitHead, InitFatal, InitLife, InitLane DEF AdmInv

LEMMA LabelStep ==
  ASSUME LabelInv, StoreTypes, CountTypes, [Next]_vars
  PROVE  LabelInv' /\ StoreTypes'
<1>1. CASE \E t \in Threads : Commit(t)
  <2>1. PICK t \in Threads : Commit(t)
    BY <1>1
  <2>2. StoreTypes'
    BY <2>1, CommitShifts DEF StoreTypes
  <2>3. UNCHANGED <<pc, ret>>
    BY <2>1 DEF Commit
  <2>4. QED
    BY <2>2, <2>3 DEF LabelInv
<1>2. CASE Terminated \/ UNCHANGED vars
  BY <1>2 DEF Terminated, vars, LabelInv, StoreTypes
<1>3. QED
  BY <1>1, <1>2, SetFatalLabel, CallerLabel, WorkerLabel, MainLabel DEF Next

LEMMA AccessStep ==
  ASSUME LabelInv, StoreTypes, CountTypes, AccessInv, [Next]_vars
  PROVE  AccessInv'
<1>1. CASE Terminated \/ UNCHANGED vars
  <2>1. UNCHANGED <<mem, buffer, pc, ret>>
    BY <1>1 DEF Terminated, vars
  <2>2. QED
    BY <2>1 DEF AccessInv, Holds, Stored, Inside
<1>2. QED
  BY <1>1, CommitAccess, SetFatalAccess, EnterAccess, AdmitAccess, EngineAccess DEF Next

LEMMA AdmStep == ASSUME AdmInv, [Next]_vars PROVE AdmInv'
<1>1. /\ LabelInv /\ StoreTypes /\ CountTypes /\ AccessInv /\ HeadInv
      /\ ClaimInv /\ DiagnosticInv /\ HealthInv /\ RunInv /\ GateInv /\ EarlyInv /\ DoneInv
      /\ LaneInv /\ FlagTypes
  BY DEF AdmInv
<1>2. LabelInv' /\ StoreTypes' /\ CountTypes'
  BY <1>1, LabelStep, CountStep
<1>3. AccessInv' /\ HeadInv'
  BY <1>1, AccessStep, HeadStep
<1>4. ClaimInv' /\ DiagnosticInv' /\ HealthInv'
  BY <1>1, FatalStep, HealthStep
<1>5. RunInv' /\ GateInv' /\ EarlyInv' /\ DoneInv'
  BY <1>1, RunStep, GateStep, EarlyStep, DoneStep
<1>6. LaneInv' /\ FlagTypes'
  BY <1>1, LaneStep, FlagStep
<1>7. QED
  BY <1>2, <1>3, <1>4, <1>5, <1>6 DEF AdmInv

LEMMA AlwaysAdm == Spec => []AdmInv
<1>1. Init => AdmInv
  BY InitAdm
<1>2. AdmInv /\ [Next]_vars => AdmInv'
  BY AdmStep
<1>3. QED
  BY <1>1, <1>2, PTL DEF Spec

\* IngestEngine::Impl::Admit: the test_and_set of callback_active_ and the guard's
\* clear let one callback in at a time, though the clear and the lane's head wait
\* in a store buffer: the lane has one producer, whatever threads the SDK uses.
THEOREM SingleProducerHolds == Spec => []SingleProducer
<1>1. AdmInv => SingleProducer
  BY DEF AdmInv, AccessInv, Holds, SingleProducer
<1>2. QED
  BY <1>1, AlwaysAdm, PTL

\* SetFatal: whoever reads healthy_ false finds one diagnostic, whichever threads
\* failed together.
THEOREM DiagnosticReadyHolds == Spec => []DiagnosticReady
<1>1. ASSUME AdmInv PROVE DiagnosticReady
  <2> SUFFICES ASSUME ~mem.healthy PROVE Cardinality(fatal_error) = 1
    BY DEF DiagnosticReady
  <2>1. fatal_error # {} /\ \A t, u \in fatal_error : t = u
    BY <1>1 DEF AdmInv, DiagnosticInv, ClaimInv
  <2>2. \E t : fatal_error = {t}
    BY <2>1
  <2>3. QED
    BY <2>2, FS_Singleton
<1>2. QED
  BY <1>1, AlwaysAdm, PTL

\* Admit and Start: a call that began when healthy_ read false accepts nothing,
\* though Start may have opened the gate after the lane failed.
THEOREM UnhealthyAcceptsNothingHolds == Spec => []UnhealthyAcceptsNothing
<1>1. AdmInv => UnhealthyAcceptsNothing
  BY DEF AdmInv, HealthInv, UnhealthyAcceptsNothing
<1>2. QED
  BY <1>1, AlwaysAdm, PTL

\* Stop: the wait for callback_active_ and the lane's last look at its ring after
\* running_ was cleared leave no message of an earlier call behind.
THEOREM EarlierCallsDecodedHolds == Spec => []EarlierCallsDecoded
<1>1. ASSUME AdmInv PROVE EarlierCallsDecoded
  <2> SUFFICES ASSUME pc["main"] = "stopped" PROVE tail >= early
    BY DEF EarlierCallsDecoded
  <2>1. /\ pc["worker"] \in {"off", "exited"} /\ tail \in Nat
        /\ pc["worker"] = "off" => early = 0
        /\ pc["worker"] = "exited" => tail >= early
    BY <1>1 DEF AdmInv, DoneInv, Exiting, GateInv, CountTypes
  <2>2. QED
    BY <2>1
<1>2. QED
  BY <1>1, AlwaysAdm, PTL

\* Engine lifecycle: every thread is at a place of its own code, and the lane never
\* holds more than slots_per_lane messages, the published head still in a store
\* buffer included, nor more messages than calls were made.
THEOREM TypeCorrect == Spec => []TypeOK
<1>1. ASSUME AdmInv PROVE TypeOK
  <2>1. /\ tail \in Nat /\ calls \in Nat /\ accepted \in Nat /\ early \in Nat /\ mem.head \in Nat
        /\ tail <= mem.head /\ mem.head <= accepted /\ accepted <= tail + Slots
        /\ accepted <= calls /\ calls <= MaxCalls /\ early <= accepted
        /\ Slots \in Nat /\ MaxCalls \in Nat
    BY <1>1, AdmissionAssumption DEF AdmInv, CountTypes, LaneInv, HeadInv
  <2>2. /\ mem.head \in 0..MaxCalls /\ tail \in 0..mem.head /\ mem.head - tail <= Slots
        /\ calls \in 0..MaxCalls /\ accepted \in 0..calls /\ early \in 0..accepted
    BY <2>1
  <2>3. \A t \in Threads : \A i \in 1..Len(buffer[t]) : buffer[t][i].loc \in DOMAIN mem
    <3>1. /\ buffer \in [Threads -> Seq(Entry)] /\ DOMAIN mem = Locations
      BY <1>1 DEF AdmInv, StoreTypes
    <3>2. \A t \in Threads : \A i \in 1..Len(buffer[t]) : buffer[t][i] \in Entry
      BY <3>1
    <3>3. QED
      BY <3>1, <3>2 DEF Entry
  <2>4. /\ \A f \in Flags : mem[f] \in BOOLEAN
        /\ fatal_claimed \in BOOLEAN /\ fatal_error \subseteq Threads
        /\ \A k \in Callers : result[k] \in {"none", "accepted", "rejected", "lost"}
    BY <1>1 DEF AdmInv, FlagTypes, ClaimInv
  <2>5. /\ pc["main"] \in Labels.main /\ pc["worker"] \in Labels.worker
        /\ \A k \in Callers : pc[k] \in CallerLabels
    BY <1>1 DEF AdmInv, LabelInv
  <2>6. QED
    BY <2>2, <2>3, <2>4, <2>5 DEF TypeOK
<1>2. QED
  BY <1>1, AlwaysAdm, PTL
=============================================================================
