---------------------------- MODULE LeaderDuties ----------------------------
(***************************************************************************)
(* What a controller starts when it becomes the leader and stops when it   *)
(* no longer is (controller.go): background components, each a loop over a *)
(* ticker and a context, and the scrape loop.                              *)
(*                                                                         *)
(* Two threads start and stop them.  The election loop runs the callback   *)
(* onHAStateChange; Controller.Stop may run at any time beside it.  A      *)
(* component keeps its context in a field that Start overwrites and that   *)
(* its loop reads anew in each round, and Stop cancels the context without *)
(* waiting for the loop.  Only the incident coordinator's Stop waits, for  *)
(* a channel that its loop closes and that is made once.                   *)
(***************************************************************************)
EXTENDS Integers, Sequences, Functions

CONSTANTS
  Order,        \* the components in the order in which they are started
  Coordinator,  \* the incident coordinator among them
  MaxTerms      \* bound: terms of office in the life of a process

ASSUME DutiesAssumption ==
  /\ Order \in Seq(Range(Order)) /\ Len(Order) > 0
  /\ IsInjective(Order) /\ MaxTerms \in Nat \ {0}

VARIABLES
  leading,      \* state.Active as the election loop published it
  leaderActive, \* c.leaderActive
  term,         \* number of the last leaderCtx
  dead,         \* cancelled leaderCtx's
  stopping,     \* Controller.Stop has cancelled c.ctx
  pc,           \* where the two threads stand
  pos,          \* the component that a thread is about to start or stop
  running,      \* the components' running flags
  ctx,          \* the components' ctx fields, by term
  loop,         \* the components' loops, by the term that started them
  sees,         \* the context that a loop selects on
  shutdown,     \* the coordinator's shutdown channel is closed
  scrapes       \* the terms whose scrapeLoop runs

haVars == <<leading, leaderActive, term, dead, stopping>>
loopVars == <<loop, sees, shutdown, scrapes>>
vars == <<haVars, pc, pos, running, ctx, loopVars>>

Duty == Range(Order)
Term == 1 .. MaxTerms
Thread == {"ha", "stop"}

\* Controller.Stop goes through the components in deactivateLeaderResponsibilities
\* and once more by itself.
LastPos == [th \in Thread |-> IF th = "ha" THEN Len(Order) ELSE 2 * Len(Order)]
DutyAt(p) == Order[((p - 1) % Len(Order)) + 1]

Cancelled(t) == stopping \/ t \in dead

Goto(th, l, p) == pc' = [pc EXCEPT ![th] = l] /\ pos' = [pos EXCEPT ![th] = p]

InitDuties ==
  /\ leading = FALSE /\ leaderActive = FALSE /\ term = 0 /\ dead = {} /\ stopping = FALSE
  /\ pc = [th \in Thread |-> "idle"] /\ pos = [th \in Thread |-> 0]
  /\ running = [d \in Duty |-> FALSE] /\ ctx = [d \in Duty |-> 0]
  /\ loop = [d \in Duty |-> [t \in Term |-> "none"]]
  /\ sees = [d \in Duty |-> [t \in Term |-> 0]]
  /\ shutdown = FALSE /\ scrapes = {}

\* The process ends; a supervisor starts the next one.
Reset ==
  /\ leading' = FALSE /\ leaderActive' = FALSE /\ term' = 0 /\ dead' = {} /\ stopping' = FALSE
  /\ pc' = [th \in Thread |-> "idle"] /\ pos' = [th \in Thread |-> 0]
  /\ running' = [d \in Duty |-> FALSE] /\ ctx' = [d \in Duty |-> 0]
  /\ loop' = [d \in Duty |-> [t \in Term |-> "none"]]
  /\ sees' = [d \in Duty |-> [t \in Term |-> 0]]
  /\ shutdown' = FALSE /\ scrapes' = {}

-----------------------------------------------------------------------------
(* The callback: activateLeaderResponsibilities. *)

\* campaignOnce won; Stop may come before the state is published.
Win ==
  /\ pc["ha"] = "idle" /\ ~leading /\ ~stopping /\ term < MaxTerms
  /\ Goto("ha", "won", 0)
  /\ UNCHANGED <<haVars, running, ctx, loopVars>>

Activate ==
  /\ pc["ha"] = "won"
  /\ leading' = TRUE
  /\ IF leaderActive
       THEN Goto("ha", "idle", 0) /\ UNCHANGED <<leaderActive, term>>
       ELSE Goto("ha", "start", 1) /\ leaderActive' = TRUE /\ term' = term + 1
  /\ UNCHANGED <<dead, stopping, running, ctx, loopVars>>

\* Start of the next component: the running flag, the context, a new loop.  It
\* would refuse a component that is running; Accepted says that none is.
StartDuty ==
  LET d == DutyAt(pos["ha"])
  IN /\ pc["ha"] = "start" /\ ~running[d]
     /\ running' = [running EXCEPT ![d] = TRUE]
     /\ ctx' = [ctx EXCEPT ![d] = term]
     /\ loop' = [loop EXCEPT ![d][term] = "new"]
     /\ IF pos["ha"] = Len(Order) THEN Goto("ha", "scrape", 0)
                                  ELSE Goto("ha", "start", pos["ha"] + 1)
     /\ UNCHANGED <<haVars, sees, shutdown, scrapes>>

\* scrapeAll waits for c.mu while Controller.Stop holds it; then scrapeLoop.
StartScrape ==
  /\ pc["ha"] = "scrape" /\ pc["stop"] \in {"idle", "ended"}
  /\ scrapes' = scrapes \cup {term}
  /\ Goto("ha", "idle", 0)
  /\ UNCHANGED <<haVars, running, ctx, loop, sees, shutdown>>

-----------------------------------------------------------------------------
(* deactivateLeaderResponsibilities and Controller.Stop. *)

\* Mutation: leaderActive stays set.
CancelKeepsActive(th) ==
  IF leaderActive
    THEN Goto(th, "stop", 1) /\ dead' = dead \cup {term} /\ UNCHANGED leaderActive
    ELSE /\ IF th = "stop" THEN Goto(th, "stop", Len(Order) + 1) ELSE Goto(th, "idle", 0)
         /\ UNCHANGED <<leaderActive, dead>>

\* The part under leaderMu, and cancel().
Cancel(th) ==
  IF leaderActive
    THEN Goto(th, "stop", 1) /\ dead' = dead \cup {term} /\ leaderActive' = FALSE
    ELSE /\ IF th = "stop" THEN Goto(th, "stop", Len(Order) + 1) ELSE Goto(th, "idle", 0)
         /\ UNCHANGED <<leaderActive, dead>>

\* failoverState: the callback of a state that is not active.
Depose ==
  /\ pc["ha"] = "idle" /\ leading
  /\ leading' = FALSE
  /\ Cancel("ha")
  /\ UNCHANGED <<term, stopping, running, ctx, loopVars>>

\* The election loop sees that c.ctx is cancelled.
EndElection ==
  /\ pc["ha"] = "idle" /\ stopping
  /\ Goto("ha", "ended", 0)
  /\ UNCHANGED <<haVars, running, ctx, loopVars>>

Stop ==
  /\ pc["stop"] = "idle"
  /\ stopping' = TRUE
  /\ Cancel("stop")
  /\ UNCHANGED <<leading, term, running, ctx, loopVars>>

\* Mutation: one step too many.
AdvancePast(th) ==
  IF pos[th] <= LastPos[th] THEN Goto(th, "stop", pos[th] + 1)
  ELSE Goto(th, IF th = "ha" THEN "idle" ELSE "ended", 0)

Advance(th) ==
  IF pos[th] < LastPos[th] THEN Goto(th, "stop", pos[th] + 1)
  ELSE Goto(th, IF th = "ha" THEN "idle" ELSE "ended", 0)

\* Mutation: Stop leaves the running flag.
StopKeepsFlag(th) ==
  LET d == DutyAt(pos[th])
  IN /\ pc[th] = "stop"
     /\ running' = [running EXCEPT ![d] = running[d] /\ d # Coordinator]
     /\ IF d = Coordinator /\ running[d] THEN Goto(th, "await", pos[th]) ELSE Advance(th)
     /\ UNCHANGED <<haVars, ctx, loopVars>>

\* Stop of the next component.  Its own cancel comes after that of its parent.
StopDuty(th) ==
  LET d == DutyAt(pos[th])
  IN /\ pc[th] = "stop"
     /\ running' = [running EXCEPT ![d] = FALSE]
     /\ IF d = Coordinator /\ running[d] THEN Goto(th, "await", pos[th]) ELSE Advance(th)
     /\ UNCHANGED <<haVars, ctx, loopVars>>

AwaitShutdown(th) ==
  /\ pc[th] = "await" /\ shutdown
  /\ Advance(th)
  /\ UNCHANGED <<haVars, running, ctx, loopVars>>

-----------------------------------------------------------------------------
(* The loops. *)

Select(d, t) ==
  /\ loop' = [loop EXCEPT ![d][t] = "wait"]
  /\ sees' = [sees EXCEPT ![d][t] = ctx[d]]
  /\ UNCHANGED <<haVars, pc, pos, running, ctx, shutdown, scrapes>>

Enter(d, t) == loop[d][t] = "new" /\ Select(d, t)

\* The ticker fires.  A select whose context is cancelled too may still take it.
BeginRound(d, t) ==
  /\ loop[d][t] = "wait"
  /\ loop' = [loop EXCEPT ![d][t] = "work"]
  /\ UNCHANGED <<haVars, pc, pos, running, ctx, sees, shutdown, scrapes>>

EndRound(d, t) == loop[d][t] = "work" /\ Select(d, t)

\* Mutation: the loop returns without closing shutdown.
EndLoopSilently(d, t) ==
  /\ loop[d][t] = "wait" /\ Cancelled(sees[d][t]) /\ (d = Coordinator => ~shutdown)
  /\ loop' = [loop EXCEPT ![d][t] = "none"]
  /\ sees' = [sees EXCEPT ![d][t] = 0]
  /\ UNCHANGED <<haVars, pc, pos, running, ctx, shutdown, scrapes>>

EndLoop(d, t) ==
  /\ loop[d][t] = "wait" /\ Cancelled(sees[d][t]) /\ (d = Coordinator => ~shutdown)
  /\ loop' = [loop EXCEPT ![d][t] = "none"]
  /\ sees' = [sees EXCEPT ![d][t] = 0]
  /\ shutdown' = (shutdown \/ d = Coordinator)
  /\ UNCHANGED <<haVars, pc, pos, running, ctx, scrapes>>

\* Mutation: the scrape loop selects on c.ctx.
EndScrapeAtStop(t) ==
  /\ t \in scrapes /\ stopping
  /\ scrapes' = scrapes \ {t}
  /\ UNCHANGED <<haVars, pc, pos, running, ctx, loop, sees, shutdown>>

EndScrape(t) ==
  /\ t \in scrapes /\ Cancelled(t)
  /\ scrapes' = scrapes \ {t}
  /\ UNCHANGED <<haVars, pc, pos, running, ctx, loop, sees, shutdown>>

-----------------------------------------------------------------------------
(* The end of the process. *)

\* The coordinator's loop closes a closed channel.
Panics(t) ==
  loop[Coordinator][t] = "wait" /\ Cancelled(sees[Coordinator][t]) /\ shutdown

Panic(t) == Panics(t) /\ Reset
Exit == pc["stop"] = "ended" /\ Reset
Crash == term > 0 /\ Reset

ThreadStep ==
  \/ Win \/ Activate \/ StartDuty \/ StartScrape \/ Depose \/ EndElection \/ Stop
  \/ \E th \in Thread : StopDuty(th) \/ AwaitShutdown(th)

LoopStep(d, t) == Enter(d, t) \/ BeginRound(d, t) \/ EndRound(d, t) \/ EndLoop(d, t)

NextDuties ==
  \/ ThreadStep
  \/ \E t \in Term : EndScrape(t) \/ Panic(t) \/ \E d \in Duty : LoopStep(d, t)
  \/ Exit \/ Crash

SpecDuties == InitDuties /\ [][NextDuties]_vars

\* The threads and the loops run.  A round ends, and a select in which both the
\* ticker and Done are ready does not choose the ticker forever (Go's select
\* chooses at random), hence strong fairness for the end of a loop.
FairDuties ==
  /\ WF_vars(Activate) /\ WF_vars(StartDuty) /\ WF_vars(StartScrape) /\ WF_vars(EndElection)
  /\ \A th \in Thread : WF_vars(StopDuty(th)) /\ WF_vars(AwaitShutdown(th))
  /\ \A t \in Term : WF_vars(EndScrape(t)) /\ SF_vars(Panic(t))
  /\ \A d \in Duty, t \in Term :
       WF_vars(Enter(d, t)) /\ WF_vars(EndRound(d, t)) /\ SF_vars(EndLoop(d, t))

LiveDuties == SpecDuties /\ FairDuties

-----------------------------------------------------------------------------
(* Properties. *)

\* Types: a thread goes through the components in their order, a loop selects on
\* a context that was made.
TypeOK ==
  /\ leading \in BOOLEAN /\ leaderActive \in BOOLEAN /\ stopping \in BOOLEAN
  /\ term \in 0 .. MaxTerms /\ dead \subseteq 1 .. term
  /\ pc \in [Thread -> {"idle", "won", "start", "scrape", "stop", "await", "ended"}]
  /\ \A th \in Thread : pos[th] \in 0 .. LastPos[th]
  /\ running \in [Duty -> BOOLEAN] /\ ctx \in [Duty -> 0 .. term]
  /\ loop \in [Duty -> [Term -> {"none", "new", "wait", "work"}]]
  /\ \A d \in Duty, t \in Term : sees[d][t] \in 0 .. term
  /\ shutdown \in BOOLEAN /\ scrapes \subseteq 1 .. term

\* No activation is refused: when the callback starts a component, no earlier term
\* has left its running flag, however Stop interleaves with the callback.
Accepted == pc["ha"] = "start" => ~running[DutyAt(pos["ha"])]

\* A controller that leads, between callbacks and before Stop, has every component
\* running in its own term, with a loop that this term's context keeps alive.
Serving == leading /\ pc["ha"] = "idle" /\ ~stopping
Served ==
  Serving =>
    /\ leaderActive /\ term \notin dead /\ term \in scrapes
    /\ \A d \in Duty :
         /\ running[d] /\ ctx[d] = term
         /\ \E t \in Term : \/ loop[d][t] \in {"new", "work"}
                            \/ loop[d][t] = "wait" /\ sees[d][t] = term

\* What a deposed leader leaves behind ends: unless it leads again, its loops, which
\* Stop cancelled and did not wait for, return from the rounds they were in.
Quiet == scrapes = {} /\ \A d \in Duty, t \in Term : loop[d][t] = "none"
Quiesces == ~leading /\ pc["ha"] = "idle" ~> pc["ha"] = "won" \/ Quiet

\* Controller.Stop returns: the wait for the coordinator's loop, under c.mu, ends
\* whether the callback is starting, stopping or past the components (or the process
\* is gone and a new one runs).
StopReturns == pc["stop"] # "idle" ~> pc["stop"] \in {"ended", "idle"}

\* "Stop terminates polling": after a deposed leader's callback, which has run the
\* coordinator's Stop, no loop of the coordinator is left.
PollingTerminated ==
  pc["ha"] = "idle" /\ ~leading /\ ~stopping
    => \A t \in Term : loop[Coordinator][t] = "none"
=============================================================================
