------------------------------ MODULE Placement ------------------------------
(***************************************************************************)
(* The workload placement of the orchestration manager                     *)
(* (controller/orchestration/manager.go): workloads are submitted,         *)
(* completed and deleted by HTTP calls; reconcile derives the nodes from    *)
(* telemetry, requeues what lost its node, moves realtime workloads that   *)
(* breach their latency objective, and places what is pending.             *)
(*                                                                         *)
(* reconcile holds m.mu from its first change to its last, so its steps    *)
(* interleave with nothing; they are actions of their own because the      *)
(* running workloads are visited in the order of a Go map and a node is    *)
(* chosen by a score that is left open here.  Resources have one dimension *)
(* instead of six, each compared and counted alike.                        *)
(***************************************************************************)
EXTENDS Integers, FiniteSets, Sequences, Functions

CONSTANTS
  Node, Workload,
  Realtime,       \* the workloads of class realtime; the others are batch
  Rank,           \* class and priority of a workload; smaller is served first
  Parts,          \* partitionCount of a workload
  Req,            \* perPartitionRequest of a workload
  SLO,            \* LatencySLOMs * SLOBreachRatio; 0: none
  Due,            \* "none", or "far" for a workload with a deadline
  NotBefore,      \* the workloads with a start time
  Views,          \* what telemetry may say of a node: [healthy, free, lat]
  CalmView,       \* what it says of every node once the cluster is calm
  MaxQueueSize, SLOBreachConsecutive, MaxPerReconcile, MaxPerWorkload,
  MinGain,        \* RemediationMinImprovement in percent
  MaxSubmits      \* bound: submissions

ASSUME PlacementAssumption ==
  /\ IsFiniteSet(Workload)
  /\ Realtime \subseteq Workload /\ NotBefore \subseteq Workload
  /\ Rank \in [Workload -> Nat] /\ SLO \in [Workload -> Nat]
  /\ Parts \in [Workload -> Nat \ {0}] /\ Req \in [Workload -> Nat \ {0}]
  /\ Due \in [Workload -> {"none", "far"}]
  /\ Views \subseteq [healthy : BOOLEAN, free : Nat, lat : Nat \ {0}] /\ CalmView \in Views
  /\ {MaxQueueSize, SLOBreachConsecutive, MaxPerReconcile, MaxPerWorkload} \subseteq Nat \ {0}
  /\ MinGain \in 0 .. 90 /\ MaxSubmits \in Nat

VARIABLES
  state,     \* State of a workload; "none": not registered
  at,        \* Assignments: the node of each partition
  breaches,  \* runtime.ConsecutiveSLOBreaches, up to SLOBreachConsecutive
  moved,     \* runtime.RemediationsTotal
  cooling,   \* LastRemediationAt is less than RemediationCooldown ago
  due,       \* the deadline: "none", "far", "near" (MinBatchRunWindow), "past"
  early,     \* NotBefore is still to come
  running,   \* the manager is started
  trigger,   \* triggerCh holds a token
  loop,      \* the loop goroutine: "select", or "due" once it has to reconcile
  calls,     \* a ReconcileNow waits for reconcileMu
  phase,     \* of the reconcile that holds m.mu: "idle", "evaluate", "place"
  byLoop,    \* it was called by the loop
  view,      \* m.nodes: health, free capacity and latency by telemetry
  reserved, available,                          \* Reserved and Available of m.nodes
  todo,      \* the workloads the present pass has not come to
  actions,   \* remediationActionsThisCycle
  backlog, pressed,  \* realtimeBacklog > 0; pressure >= PeakPressureThreshold
  submits,   \* number of submissions
  carried,   \* what each node carried at the start of the cycle (history)
  history,   \* remediations of a workload since its submission (history)
  unseen     \* submitted and not yet looked at by a reconcile (history)

wlVars == <<state, at, breaches, moved, cooling, due, early>>
loopVars == <<running, trigger, loop, calls>>
cycleVars == <<phase, byLoop, view, reserved, available, todo, actions, backlog, pressed, carried>>
histVars == <<submits, history, unseen>>
vars == <<wlVars, loopVars, cycleVars, histVars>>

Pending == {w \in Workload : state[w] \in {"queued", "deferred"}}
NoView == [n \in Node |-> [healthy |-> FALSE, free |-> 0, lat |-> 1]]
Zero == [n \in Node |-> 0]

Max0(x) == IF x < 0 THEN 0 ELSE x
Sum(f) == FoldFunction(+, 0, f)

\* Units that a list of assignments of w takes of a node.
Takes(w, s, n) == Req[w] * Cardinality({p \in DOMAIN s : s[p] = n})
Load(placed, n) == Sum([w \in Workload |-> Takes(w, placed[w], n)])

Init ==
  /\ state = [w \in Workload |-> "none"] /\ at = [w \in Workload |-> <<>>]
  /\ breaches = [w \in Workload |-> 0] /\ moved = [w \in Workload |-> 0]
  /\ cooling = [w \in Workload |-> FALSE] /\ due = Due
  /\ early = [w \in Workload |-> w \in NotBefore]
  /\ running = FALSE /\ trigger = FALSE /\ loop = "select" /\ calls = FALSE
  /\ phase = "idle" /\ byLoop = FALSE /\ view = NoView /\ reserved = Zero /\ available = Zero
  /\ todo = {} /\ actions = 0 /\ backlog = FALSE /\ pressed = FALSE /\ carried = Zero
  /\ submits = 0 /\ history = [w \in Workload |-> 0] /\ unseen = {}

-----------------------------------------------------------------------------
(* The calls.  Each takes m.mu, which a reconcile holds until it is done. *)

\* Mutation: Submit does not trigger a reconcile.
SubmitSilently(w) ==
  /\ phase = "idle" /\ state[w] = "none" /\ submits < MaxSubmits
  /\ Cardinality(Pending) < MaxQueueSize
  /\ state' = [state EXCEPT ![w] = "queued"]
  /\ submits' = submits + 1 /\ unseen' = unseen \cup {w}
  /\ UNCHANGED <<at, breaches, moved, cooling, due, early, loopVars, cycleVars, history>>

Submit(w) ==
  /\ phase = "idle" /\ state[w] = "none" /\ submits < MaxSubmits
  /\ Cardinality(Pending) < MaxQueueSize
  /\ state' = [state EXCEPT ![w] = "queued"]
  /\ trigger' = TRUE
  /\ submits' = submits + 1 /\ unseen' = unseen \cup {w}
  /\ UNCHANGED <<at, breaches, moved, cooling, due, early, running, loop, calls, cycleVars, history>>

\* Complete and Delete: the placement and the runtime state go, Reserved stays
\* until the next reconcile.
Remove(w, s) ==
  /\ phase = "idle" /\ state[w] # "none"
  /\ state' = [state EXCEPT ![w] = s]
  /\ at' = [at EXCEPT ![w] = <<>>]
  /\ breaches' = [breaches EXCEPT ![w] = 0] /\ moved' = [moved EXCEPT ![w] = 0]
  /\ cooling' = [cooling EXCEPT ![w] = FALSE]
  /\ due' = [due EXCEPT ![w] = Due[w]] /\ early' = [early EXCEPT ![w] = w \in NotBefore]
  /\ trigger' = TRUE
  /\ unseen' = unseen \ {w} /\ history' = [history EXCEPT ![w] = 0]
  /\ UNCHANGED <<running, loop, calls, cycleVars, submits>>

Complete(w) == state[w] # "completed" /\ Remove(w, "completed")
Delete(w) == Remove(w, "none")

\* Start makes the loop and calls ReconcileNow; an operator may call it as well.
Start ==
  /\ phase = "idle" /\ ~running
  /\ running' = TRUE /\ calls' = TRUE
  /\ UNCHANGED <<wlVars, trigger, loop, cycleVars, histVars>>

\* A loop that was about to reconcile still does.
Stop ==
  /\ phase = "idle" /\ running
  /\ running' = FALSE /\ loop' = "select" /\ calls' = (calls \/ loop = "due")
  /\ UNCHANGED <<wlVars, trigger, cycleVars, histVars>>

ReconcileNow ==
  /\ ~calls /\ calls' = TRUE
  /\ UNCHANGED <<wlVars, running, trigger, loop, cycleVars, histVars>>

-----------------------------------------------------------------------------
(* Time. *)

\* A deadline comes near and passes, a start time is reached, a cooldown ends.
Nearer == [none |-> "none", far |-> "near", near |-> "past", past |-> "past"]
Elapse(w) ==
  /\ phase = "idle" /\ state[w] # "none"
  /\ \/ /\ due[w] \in {"far", "near"} /\ due' = [due EXCEPT ![w] = Nearer[due[w]]]
        /\ UNCHANGED <<early, cooling>>
     \/ early[w] /\ early' = [early EXCEPT ![w] = FALSE] /\ UNCHANGED <<due, cooling>>
     \/ cooling[w] /\ cooling' = [cooling EXCEPT ![w] = FALSE] /\ UNCHANGED <<due, early>>
  /\ UNCHANGED <<state, at, breaches, moved, loopVars, cycleVars, histVars>>

-----------------------------------------------------------------------------
(* The loop. *)

Receive ==
  /\ running /\ loop = "select" /\ trigger
  /\ trigger' = FALSE /\ loop' = "due"
  /\ UNCHANGED <<wlVars, running, calls, cycleVars, histVars>>

Tick ==
  /\ running /\ loop = "select"
  /\ loop' = "due"
  /\ UNCHANGED <<wlVars, running, trigger, calls, cycleVars, histVars>>

-----------------------------------------------------------------------------
(* reconcile. *)

\* runningPlacementUnhealthyLocked.
Lost(v, w) == state[w] = "running" /\ \E p \in DOMAIN at[w] : ~v[at[w][p]].healthy

\* Mutation: a requeue drops the runtime state.
RequeueForgets(v) ==
  LET lost == {w \in Workload : Lost(v, w)}
  IN /\ state' = [w \in Workload |-> IF w \in lost THEN "queued" ELSE state[w]]
     /\ at' = [w \in Workload |-> IF w \in lost THEN <<>> ELSE at[w]]
     /\ breaches' = [w \in Workload |-> IF w \in lost THEN 0 ELSE breaches[w]]
     /\ moved' = [w \in Workload |-> IF w \in lost THEN 0 ELSE moved[w]]
     /\ UNCHANGED <<cooling, due, early>>

\* Mutation: a requeue keeps the assignments.
RequeueKeeps(v) ==
  /\ state' = [w \in Workload |-> IF Lost(v, w) THEN "queued" ELSE state[w]]
  /\ breaches' = [w \in Workload |-> IF Lost(v, w) THEN 0 ELSE breaches[w]]
  /\ UNCHANGED <<at, moved, cooling, due, early>>

\* What lost a node is queued again.
Requeue(v) ==
  LET lost == {w \in Workload : Lost(v, w)}
  IN /\ state' = [w \in Workload |-> IF w \in lost THEN "queued" ELSE state[w]]
     /\ at' = [w \in Workload |-> IF w \in lost THEN <<>> ELSE at[w]]
     /\ breaches' = [w \in Workload |-> IF w \in lost THEN 0 ELSE breaches[w]]
     /\ UNCHANGED <<moved, cooling, due, early>>

\* Reserved is counted anew from the placements that stay.
Count(v) ==
  /\ reserved' = [n \in Node |-> Load(at', n)]
  /\ available' = [n \in Node |-> Max0(v[n].free - reserved'[n])]

\* deriveNodes reads telemetry, whatever it is by now; then m.mu is taken.
Begin(looping) ==
  /\ phase = "idle" /\ phase' = "evaluate" /\ byLoop' = looping
  /\ \E v \in [Node -> Views] :
       view' = v /\ Requeue(v) /\ Count(v)
  /\ carried' = reserved'
  /\ todo' = {w \in Workload : state'[w] = "running"}
  /\ actions' = 0
  /\ pressed' \in BOOLEAN
  /\ UNCHANGED <<backlog, histVars>>

BeginLoop == loop = "due" /\ Begin(TRUE) /\ UNCHANGED loopVars
BeginNow == calls /\ calls' = FALSE /\ Begin(FALSE) /\ UNCHANGED <<running, trigger, loop>>

\* workloadEstimatedLatencyLocked, times the number of partitions.
Latency(w) == Sum([p \in DOMAIN at[w] |-> view[at[w][p]].lat])
Breached(w) == SLO[w] > 0 /\ Latency(w) > SLO[w] * Len(at[w])

\* hasBetterNodeCandidateLocked: a node with room for a partition and a latency
\* that is lower than the present average by MinGain.
BetterNode(w) ==
  \E n \in Node \ Range(at[w]) :
    /\ view[n].healthy /\ Req[w] <= available[n]
    /\ 100 * view[n].lat * Len(at[w]) <= Latency(w) * (100 - MinGain)

\* shouldAutoRemediateLocked, with this breach counted.
Remediable(w) ==
  /\ w \in Realtime /\ breaches[w] + 1 >= SLOBreachConsecutive
  /\ actions < MaxPerReconcile /\ moved[w] < MaxPerWorkload /\ ~cooling[w]
  /\ BetterNode(w)

Next1(b) == IF b < SLOBreachConsecutive THEN b + 1 ELSE b

\* Mutation: Reserved is left as it is.
ReleaseKeeps(w) ==
  /\ available' = [n \in Node |-> available[n] + Takes(w, at[w], n)]
  /\ UNCHANGED reserved

\* releaseAssignmentsLocked.
Release(w) ==
  /\ reserved' = [n \in Node |-> Max0(reserved[n] - Takes(w, at[w], n))]
  /\ available' = [n \in Node |-> available[n] + Takes(w, at[w], n)]

\* The next running workload, in any order.
Remediate(w) ==
  /\ phase = "evaluate" /\ w \in todo /\ Breached(w) /\ Remediable(w)
  /\ Release(w)
  /\ state' = [state EXCEPT ![w] = "queued"] /\ at' = [at EXCEPT ![w] = <<>>]
  /\ breaches' = [breaches EXCEPT ![w] = 0] /\ moved' = [moved EXCEPT ![w] = @ + 1]
  /\ cooling' = [cooling EXCEPT ![w] = TRUE]
  /\ actions' = actions + 1 /\ history' = [history EXCEPT ![w] = @ + 1]
  /\ todo' = todo \ {w}
  /\ UNCHANGED <<due, early, loopVars, phase, byLoop, view, backlog, pressed, carried,
                 submits, unseen>>

LeaveRunning(w) ==
  /\ phase = "evaluate" /\ w \in todo /\ ~(Breached(w) /\ Remediable(w))
  /\ breaches' = [breaches EXCEPT ![w] = IF Breached(w) THEN Next1(@) ELSE 0]
  /\ todo' = todo \ {w}
  /\ UNCHANGED <<state, at, moved, cooling, due, early, loopVars, phase, byLoop, view, reserved,
                 available, actions, backlog, pressed, carried, histVars>>

\* Mutation: realtime workloads that run count as backlog.
CollectRunning ==
  /\ phase = "evaluate" /\ todo = {}
  /\ phase' = "place" /\ todo' = Pending
  /\ backlog' = (\E w \in Realtime : w \in Pending \/ state[w] = "running")
  /\ unseen' = unseen \ Pending
  /\ UNCHANGED <<wlVars, loopVars, byLoop, view, reserved, available, actions, pressed, carried,
                 submits, history>>

\* pendingWorkloadsLocked and realtimeBacklogLocked.
CollectPending ==
  /\ phase = "evaluate" /\ todo = {}
  /\ phase' = "place" /\ todo' = Pending
  /\ backlog' = (Pending \cap Realtime # {})
  /\ unseen' = unseen \ Pending
  /\ UNCHANGED <<wlVars, loopVars, byLoop, view, reserved, available, actions, pressed, carried,
                 submits, history>>

\* The sorted order; deadline, creation time and id, which break ties, are left open.
First(w) == phase = "place" /\ w \in todo /\ \A u \in todo : Rank[w] <= Rank[u]

ShouldDefer(w) ==
  \/ early[w]
  \/ w \notin Realtime /\ due[w] \in {"none", "far"} /\ (backlog \/ pressed)

\* Mutation: every partition is compared with the same availability.
UnsharedAllocations(w) ==
  {s \in [1 .. Parts[w] -> Node] :
     \A p \in 1 .. Parts[w] : view[s[p]].healthy /\ Req[w] <= available[s[p]]}

\* allocateWorkloadLocked takes a healthy node with room for each partition in turn,
\* counting the ones before.
Allocations(w) ==
  {s \in [1 .. Parts[w] -> Node] :
     \A p \in 1 .. Parts[w] : view[s[p]].healthy /\ Takes(w, s, s[p]) <= available[s[p]]}

Defer(w) ==
  /\ First(w) /\ ShouldDefer(w)
  /\ state' = [state EXCEPT ![w] = "deferred"]
  /\ todo' = todo \ {w}
  /\ UNCHANGED <<at, breaches, moved, cooling, due, early, loopVars, phase, byLoop, view, reserved,
                 available, actions, backlog, pressed, carried, histVars>>

Place(w) ==
  /\ First(w) /\ ~ShouldDefer(w)
  /\ \E s \in Allocations(w) :
       /\ at' = [at EXCEPT ![w] = s]
       /\ reserved' = [n \in Node |-> reserved[n] + Takes(w, s, n)]
       /\ available' = [n \in Node |-> Max0(available[n] - Takes(w, s, n))]
  /\ state' = [state EXCEPT ![w] = "running"]
  /\ breaches' = [breaches EXCEPT ![w] = 0]
  /\ todo' = todo \ {w}
  /\ UNCHANGED <<moved, cooling, due, early, loopVars, phase, byLoop, view, actions, backlog,
                 pressed, carried, histVars>>

CannotPlace(w) ==
  /\ First(w) /\ ~ShouldDefer(w) /\ Allocations(w) = {}
  /\ state' = [state EXCEPT ![w] = IF due[w] = "past" THEN "failed" ELSE "queued"]
  /\ todo' = todo \ {w}
  /\ UNCHANGED <<at, breaches, moved, cooling, due, early, loopVars, phase, byLoop, view, reserved,
                 available, actions, backlog, pressed, carried, histVars>>

\* m.mu is released.  The nodes are derived anew by the next cycle.
Finish ==
  /\ phase = "place" /\ todo = {}
  /\ phase' = "idle" /\ loop' = IF byLoop THEN "select" ELSE loop
  /\ view' = NoView /\ available' = Zero /\ carried' = Zero
  /\ actions' = 0 /\ backlog' = FALSE /\ pressed' = FALSE /\ byLoop' = FALSE
  /\ UNCHANGED <<wlVars, running, trigger, calls, reserved, todo, histVars>>

Call(w) == Submit(w) \/ Complete(w) \/ Delete(w)
Pass(w) == Remediate(w) \/ LeaveRunning(w) \/ Defer(w) \/ Place(w) \/ CannotPlace(w)

Next ==
  \/ Start \/ Stop \/ ReconcileNow \/ Receive \/ Tick \/ BeginLoop \/ BeginNow
  \/ CollectPending \/ Finish
  \/ \E w \in Workload : Call(w) \/ Elapse(w) \/ Pass(w)

Spec == Init /\ [][Next]_vars

\* A reconcile that has the lock goes on, one that waits gets it, and the loop takes
\* a token.  The ticker is not assumed to fire.
Fairness ==
  /\ WF_vars(CollectPending \/ Finish \/ \E w \in Workload : Pass(w))
  /\ SF_vars(BeginLoop) /\ SF_vars(BeginNow) /\ WF_vars(Receive)

LiveSpec == Spec /\ Fairness

-----------------------------------------------------------------------------
(* Properties. *)

\* Types; between reconciles exactly the running workloads have assignments, one for
\* each partition.
TypeOK ==
  /\ state \in [Workload -> {"none", "queued", "deferred", "running", "completed", "failed"}]
  /\ \A w \in Workload :
       IF state[w] = "running" THEN at[w] \in [1 .. Parts[w] -> Node] ELSE at[w] = <<>>
  /\ breaches \in [Workload -> 0 .. SLOBreachConsecutive]
  /\ due \in [Workload -> {"none", "far", "near", "past"}]
  /\ reserved \in [Node -> Nat] /\ available \in [Node -> Nat]
  /\ todo \subseteq Workload /\ phase \in {"idle", "evaluate", "place"}
  /\ loop \in {"select", "due"} /\ (byLoop => loop = "due")

\* When a reconcile is done, Reserved of every node is what the running workloads
\* have on it, whatever was requeued, released and placed on the way.
ReservedExact == [][Finish => \A n \in Node : reserved[n] = Load(at, n)]_vars

\* A cycle never loads a node beyond both what telemetry leaves free and what the node
\* carried at the start, although a release adds to an Available that was cut off at 0.
NoOvercommit ==
  phase = "place" =>
    \A n \in Node : Load(at, n) <= view[n].free \/ Load(at, n) <= carried[n]

\* A workload is moved for its latency at most MaxPerWorkload times between its
\* submission and its removal, through losses of nodes and new placements.
MovesBounded == \A w \in Workload : history[w] <= MaxPerWorkload

\* No wakeup is lost: without any tick, a submitted workload is looked at by a
\* reconcile while the manager is started, also when its token meets a full channel or
\* a loop that has just taken the last one.
Examined == \A w \in Workload : w \in unseen ~> (w \notin unseen \/ ~running)

\* Telemetry shows every node with the room and the latency of CalmView.
Calm == phase # "idle" => ~pressed /\ \A n \in Node : view[n] = CalmView

\* Once the cluster stays calm, start times are reached and ticks come, what is pending
\* leaves the queue: peak shifting and earlier losses do not hold it for ever.
Placed ==
  WF_vars(Tick) /\ <>[](Calm /\ running) /\ (\A w \in Workload : <>[]~early[w])
    => \A w \in Workload : []<>(w \notin Pending)
=============================================================================
