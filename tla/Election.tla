------------------------------ MODULE Election ------------------------------
(***************************************************************************)
(* Leader election among controllers through a key in etcd                 *)
(* (backend/internal/controller/ha_coordination.go), and what a change of  *)
(* leadership starts and stops (onHAStateChange and the leader             *)
(* responsibilities in controller.go).                                     *)
(*                                                                         *)
(* Time is counted in ticks.  A lease has a number of ticks to live in     *)
(* etcd; the client closes the keep-alive channel when no answer came for  *)
(* that long by its own count, which starts when an answer ARRIVES.  The   *)
(* callback of publishState runs in the loop itself, so the loop does not  *)
(* see the channel while leader responsibilities start.  A tick waits for  *)
(* what is due: answers, timeouts, the end of a callback.                  *)
(***************************************************************************)
EXTENDS Integers

CONSTANTS
  Node,             \* the controllers
  Lease,            \* lease numbers, used again once nobody refers to them
  TTL,              \* LeaseTTL, in ticks
  CampaignTimeout,  \* timeout of a Grant and of a Txn, in ticks
  MaxDelay,         \* longest way of a keep-alive answer, in ticks
  StartTime,        \* longest activateLeaderResponsibilities, in ticks
  MaxFaults         \* bound: failing calls, lost answers, ends of a controller

ASSUME ElectionAssumption ==
  /\ Lease \subseteq Nat \ {0}
  /\ TTL \in Nat \ {0} /\ CampaignTimeout \in Nat /\ MaxDelay \in Nat /\ StartTime \in Nat
  /\ MaxFaults \in Nat

VARIABLES
  key,          \* lease of the election key; NoLease: there is no key
  ttl,          \* ticks that a lease has to live; 0: no such lease
  late,         \* leases of transactions that may still arrive
  pc,           \* where a controller's loop stands
  lease,        \* the lease that it campaigns with or holds
  active,       \* state.Active
  running,      \* leader responsibilities are running
  stopping,     \* Stop was called
  timer,        \* ticks left of the call or callback under way
  deadline,     \* ticks left of the keep-alive channel
  answer,       \* ticks left for a keep-alive answer on its way
  faults

\* History.
VARIABLE
  overstay      \* ticks that a controller has been active without a live lease

etcdVars == <<key, ttl, late>>
clockVars == <<timer, deadline, answer>>
vars == <<etcdVars, pc, lease, active, running, stopping, clockVars, faults, overstay>>

NoLease == 0
NoAnswer == -1

\* What the etcd client allows a first keep-alive to take.
FirstTimeout == CampaignTimeout + 1

-----------------------------------------------------------------------------
Fault == faults < MaxFaults /\ faults' = faults + 1
NoFault == UNCHANGED faults

Goto(n, l) == pc' = [pc EXCEPT ![n] = l]
Free == {l \in Lease : ttl[l] = 0 /\ l \notin late /\ \A n \in Node : lease[n] # l}
NewLease == CHOOSE l \in Free : TRUE

\* etcd revokes lease l, and deletes a key that is attached to it.
Revoked(l) ==
  /\ ttl' = [ttl EXCEPT ![l] = 0]
  /\ key' = IF key = l THEN NoLease ELSE key
  /\ UNCHANGED late

\* A Revoke whose error the code ignores.
TryRevoke(l) ==
  \/ Revoked(l) /\ NoFault
  \/ Fault /\ UNCHANGED etcdVars

\* Mutation: the put is not conditional.
PutAlways(l) ==
  key' = IF ttl[l] > 0 THEN l ELSE key

\* The transaction of campaignOnce at etcd: put the key unless there is one.
PutIfAbsent(l) ==
  key' = IF key = NoLease /\ ttl[l] > 0 THEN l ELSE key

-----------------------------------------------------------------------------
(* campaignOnce. *)

\* Mutation: the duration is given in the wrong unit.
GrantLong(n) ==
  /\ pc[n] = "campaign" /\ ~stopping[n] /\ Free # {}
  /\ LET l == NewLease
     IN /\ lease' = [lease EXCEPT ![n] = l]
        /\ ttl' = [ttl EXCEPT ![l] = 2 * TTL]
  /\ timer' = [timer EXCEPT ![n] = CampaignTimeout]
  /\ Goto(n, "granted")
  /\ NoFault
  /\ UNCHANGED <<key, late, active, running, stopping, deadline, answer, overstay>>

Grant(n) ==
  /\ pc[n] = "campaign" /\ ~stopping[n] /\ Free # {}
  /\ LET l == NewLease
     IN /\ lease' = [lease EXCEPT ![n] = l]
        /\ ttl' = [ttl EXCEPT ![l] = TTL]
  /\ timer' = [timer EXCEPT ![n] = CampaignTimeout]
  /\ Goto(n, "granted")
  /\ NoFault
  /\ UNCHANGED <<key, late, active, running, stopping, deadline, answer, overstay>>

GrantFails(n) ==
  /\ pc[n] = "campaign" /\ ~stopping[n] /\ Fault
  /\ Goto(n, "pause")
  /\ UNCHANGED <<etcdVars, lease, active, running, stopping, clockVars, overstay>>

\* A lease that is gone already makes the put fail.
Txn(n) ==
  /\ pc[n] = "granted" /\ ~stopping[n]
  /\ PutIfAbsent(lease[n])
  /\ Goto(n, IF key' = lease[n] THEN "won" ELSE IF key = NoLease THEN "abandon" ELSE "lost")
  /\ timer' = [timer EXCEPT ![n] = CampaignTimeout]
  /\ NoFault
  /\ UNCHANGED <<ttl, late, lease, active, running, stopping, deadline, answer, overstay>>

\* The call fails: the request is lost, or on its way still, or it was carried
\* out and its answer is lost.
TxnFails(n) ==
  /\ pc[n] \in {"granted", "won", "lost"} /\ ~stopping[n] /\ Fault
  /\ \/ UNCHANGED late
     \/ pc[n] = "granted" /\ late' = late \cup {lease[n]}
  /\ Goto(n, "abandon")
  /\ UNCHANGED <<key, ttl, lease, active, running, stopping, clockVars, overstay>>

LateTxn(l) ==
  /\ l \in late /\ late' = late \ {l}
  /\ PutIfAbsent(l)
  /\ NoFault
  /\ UNCHANGED <<ttl, pc, lease, active, running, stopping, clockVars, overstay>>

\* After an error the lease is revoked, and failoverState published.
Abandon(n) ==
  /\ pc[n] = "abandon" /\ ~stopping[n]
  /\ TryRevoke(lease[n])
  /\ lease' = [lease EXCEPT ![n] = NoLease]
  /\ Goto(n, "pause")
  /\ UNCHANGED <<active, running, stopping, clockVars, overstay>>

\* Another controller leads: follow it, revoke the lease, and watch the key.
Follow(n) ==
  /\ pc[n] = "lost" /\ ~stopping[n]
  /\ TryRevoke(lease[n])
  /\ lease' = [lease EXCEPT ![n] = NoLease]
  /\ Goto(n, "wait")
  /\ UNCHANGED <<active, running, stopping, clockVars, overstay>>

\* Mutation: only a put wakes the follower.
WakesOnPut(n) ==
  /\ pc[n] = "pause" \/ (pc[n] = "wait" /\ key # NoLease)
  /\ ~stopping[n]
  /\ Goto(n, "campaign")
  /\ NoFault
  /\ UNCHANGED <<etcdVars, lease, active, running, stopping, clockVars, overstay>>

\* ObserveInterval is over, or the watch reports a change or an error.
Wake(n) ==
  /\ pc[n] \in {"wait", "pause"} /\ ~stopping[n]
  /\ Goto(n, "campaign")
  /\ NoFault
  /\ UNCHANGED <<etcdVars, lease, active, running, stopping, clockVars, overstay>>

-----------------------------------------------------------------------------
(* holdLeadership, and the callback onHAStateChange. *)

\* The keep-alive is set up and Active published, even when Stop was called since
\* the answer came; the callback begins.
Hold(n) ==
  /\ pc[n] = "won"
  /\ active' = [active EXCEPT ![n] = TRUE]
  /\ deadline' = [deadline EXCEPT ![n] = FirstTimeout]
  /\ timer' = [timer EXCEPT ![n] = StartTime]
  /\ Goto(n, "activate")
  /\ NoFault
  /\ UNCHANGED <<etcdVars, lease, running, stopping, answer, overstay>>

\* activateLeaderResponsibilities returns.  LeaderDuties shows that it does not fail.
Activated(n) ==
  /\ pc[n] = "activate"
  /\ running' = [running EXCEPT ![n] = TRUE]
  /\ Goto(n, "hold")
  /\ NoFault
  /\ UNCHANGED <<etcdVars, lease, active, stopping, clockVars, overstay>>

Holding(n) == pc[n] \in {"activate", "hold"}

\* etcd renews the lease, and its answer is on the way.
Renew(n) ==
  /\ Holding(n) /\ ~stopping[n] /\ answer[n] = NoAnswer /\ deadline[n] > 0
  /\ ttl[lease[n]] > 0
  /\ ttl' = [ttl EXCEPT ![lease[n]] = TTL]
  /\ answer' = [answer EXCEPT ![n] = MaxDelay]
  /\ NoFault
  /\ UNCHANGED <<key, late, pc, lease, active, running, stopping, timer, deadline, overstay>>

Answer(n) ==
  /\ Holding(n) /\ answer[n] # NoAnswer /\ deadline[n] > 0
  /\ answer' = [answer EXCEPT ![n] = NoAnswer]
  /\ deadline' = [deadline EXCEPT ![n] = TTL]
  /\ NoFault
  /\ UNCHANGED <<etcdVars, pc, lease, active, running, stopping, timer, overstay>>

AnswerLost(n) ==
  /\ Holding(n) /\ answer[n] # NoAnswer /\ Fault
  /\ answer' = [answer EXCEPT ![n] = NoAnswer]
  /\ UNCHANGED <<etcdVars, pc, lease, active, running, stopping, timer, deadline, overstay>>

\* Mutation: the role is given up without failoverState.
LoseQuietly(n) ==
  /\ pc[n] = "hold" /\ ~stopping[n]
  /\ deadline[n] = 0 \/ (ttl[lease[n]] = 0 /\ answer[n] = NoAnswer)
  /\ lease' = [lease EXCEPT ![n] = NoLease]
  /\ answer' = [answer EXCEPT ![n] = NoAnswer]
  /\ Goto(n, "pause")
  /\ NoFault
  /\ UNCHANGED <<etcdVars, active, running, stopping, timer, deadline, overstay>>

\* The keep-alive channel closes, because no answer came in time or etcd says that
\* the lease is gone.  failoverState is published; the lease is not revoked.
Lose(n) ==
  /\ pc[n] = "hold" /\ ~stopping[n]
  /\ deadline[n] = 0 \/ (ttl[lease[n]] = 0 /\ answer[n] = NoAnswer)
  /\ active' = [active EXCEPT ![n] = FALSE]
  /\ lease' = [lease EXCEPT ![n] = NoLease]
  /\ answer' = [answer EXCEPT ![n] = NoAnswer]
  /\ Goto(n, "deactivate")
  /\ NoFault
  /\ UNCHANGED <<etcdVars, running, stopping, timer, deadline, overstay>>

\* deactivateLeaderResponsibilities returns.
Deactivated(n) ==
  /\ pc[n] = "deactivate"
  /\ running' = [running EXCEPT ![n] = FALSE]
  /\ Goto(n, "pause")
  /\ NoFault
  /\ UNCHANGED <<etcdVars, lease, active, stopping, clockVars, overstay>>

-----------------------------------------------------------------------------
(* Start, stop, crash, time. *)

Start(n) ==
  /\ pc[n] = "down"
  /\ Goto(n, "campaign")
  /\ NoFault
  /\ UNCHANGED <<etcdVars, lease, active, running, stopping, clockVars, overstay>>

\* Controller.Stop cancels the loop, deactivates, and closes the client.
Stop(n) ==
  /\ pc[n] # "down" /\ ~stopping[n] /\ Fault
  /\ stopping' = [stopping EXCEPT ![n] = TRUE]
  /\ running' = [running EXCEPT ![n] = FALSE]
  /\ UNCHANGED <<etcdVars, pc, lease, active, clockVars, overstay>>

\* The loop returns, after an attempt to revoke the lease.  The published state of a
\* leader stays Active.
LoopEnds(n) ==
  /\ stopping[n] /\ pc[n] \notin {"down", "activate", "deactivate", "ended"}
  /\ IF lease[n] # NoLease THEN TryRevoke(lease[n]) ELSE NoFault /\ UNCHANGED etcdVars
  /\ Goto(n, "ended")
  /\ UNCHANGED <<lease, active, running, stopping, clockVars, overstay>>

\* The process is gone.
Gone(n) ==
  /\ lease' = [lease EXCEPT ![n] = NoLease]
  /\ active' = [active EXCEPT ![n] = FALSE]
  /\ running' = [running EXCEPT ![n] = FALSE]
  /\ stopping' = [stopping EXCEPT ![n] = FALSE]
  /\ answer' = [answer EXCEPT ![n] = NoAnswer]
  /\ Goto(n, "down")
  /\ UNCHANGED <<etcdVars, timer, deadline, overstay>>

Exit(n) == pc[n] = "ended" /\ Gone(n) /\ NoFault
Crash(n) == pc[n] # "down" /\ Gone(n) /\ Fault

Down(k) == IF k > 0 THEN k - 1 ELSE k

\* Nothing that is due waits for the next tick.
Due(n) ==
  \/ pc[n] \in {"granted", "won", "lost", "activate"} /\ timer[n] = 0
  \/ Holding(n) /\ answer[n] = 0
  \/ pc[n] = "hold" /\ deadline[n] = 0
  \/ pc[n] = "abandon"

Tick ==
  /\ \A n \in Node : ~stopping[n] => ~Due(n)
  /\ ttl' = [l \in Lease |-> Down(ttl[l])]
  /\ key' = IF key # NoLease /\ ttl'[key] > 0 THEN key ELSE NoLease
  /\ timer' = [n \in Node |-> Down(timer[n])]
  /\ deadline' = [n \in Node |-> Down(deadline[n])]
  /\ answer' = [n \in Node |-> Down(answer[n])]
  /\ overstay' = [n \in Node |->
       IF active[n] /\ ~stopping[n] /\ (lease[n] # NoLease => ttl[lease[n]] = 0)
         THEN overstay[n] + 1 ELSE 0]
  /\ NoFault
  /\ UNCHANGED <<late, pc, lease, active, running, stopping>>

Init ==
  /\ key = NoLease /\ ttl = [l \in Lease |-> 0] /\ late = {}
  /\ pc = [n \in Node |-> "down"] /\ lease = [n \in Node |-> NoLease]
  /\ active = [n \in Node |-> FALSE] /\ running = [n \in Node |-> FALSE]
  /\ stopping = [n \in Node |-> FALSE]
  /\ timer = [n \in Node |-> 0] /\ deadline = [n \in Node |-> 0]
  /\ answer = [n \in Node |-> NoAnswer]
  /\ faults = 0 /\ overstay = [n \in Node |-> 0]

\* The loop of a controller.
LoopStep(n) ==
  \/ Grant(n) \/ Txn(n) \/ Abandon(n) \/ Follow(n) \/ Wake(n)
  \/ Hold(n) \/ Activated(n) \/ Lose(n) \/ Deactivated(n) \/ LoopEnds(n)

FaultStep(n) ==
  \/ GrantFails(n) \/ TxnFails(n) \/ AnswerLost(n) \/ Stop(n) \/ Crash(n)

Next ==
  \/ \E n \in Node :
       LoopStep(n) \/ FaultStep(n) \/ Renew(n) \/ Answer(n) \/ Start(n) \/ Exit(n)
  \/ \E l \in Lease : LateTxn(l)
  \/ Tick

Spec == Init /\ [][Next]_vars

\* Time passes, a controller that ended is started again, and loops go on.
LiveSpec ==
  /\ Spec /\ WF_vars(Tick)
  /\ \A n \in Node : WF_vars(LoopStep(n)) /\ WF_vars(Answer(n)) /\ WF_vars(Start(n) \/ Exit(n))

-----------------------------------------------------------------------------
(* Properties. *)

\* Types: a lease of etcd never lives longer than the TTL that the code grants.
TypeOK ==
  /\ key \in Lease \cup {NoLease} /\ ttl \in [Lease -> 0 .. TTL] /\ late \subseteq Lease
  /\ pc \in [Node -> {"down", "campaign", "granted", "won", "lost", "abandon", "wait",
                      "pause", "activate", "hold", "deactivate", "ended"}]
  /\ lease \in [Node -> Lease \cup {NoLease}]
  /\ active \in [Node -> BOOLEAN] /\ running \in [Node -> BOOLEAN]
  /\ stopping \in [Node -> BOOLEAN]
  /\ timer \in [Node -> Int] /\ deadline \in [Node -> Int] /\ answer \in [Node -> Int]
  /\ faults \in 0 .. MaxFaults
  /\ overstay \in [Node -> Nat]

\* The key stands for one leader: a controller that holds leadership has the key
\* as long as its lease is alive, so no two hold it with live leases.  Late
\* transactions and revocations that got lost do not change that.
KeyFences ==
  \A n \in Node : Holding(n) /\ ttl[lease[n]] > 0 => key = lease[n]

\* A controller that lost its lease does not act as the leader for long: no longer
\* than an answer travels, than a first keep-alive may take beyond the lease, or
\* than its responsibilities take to start.
OverstayTimes ==
  {MaxDelay, FirstTimeout + 2 * CampaignTimeout - TTL, StartTime + 2 * CampaignTimeout - TTL}
OverstayBounded == \A n \in Node : \E t \in OverstayTimes : overstay[n] <= t

\* Leadership never stays vacant: whatever crashed, and whichever orphaned lease
\* holds the key, a controller runs the responsibilities of a leader again.
LeaderServes == []<>(\E n \in Node : active[n] /\ running[n])
=============================================================================
