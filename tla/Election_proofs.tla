--------------------------- MODULE Election_proofs ---------------------------
(***************************************************************************)
(* KeyFences for any number of controllers and leases and any times: a     *)
(* controller that holds leadership has the election key while its lease   *)
(* lives.  The key alone does not say who wrote it, so the invariant also  *)
(* says whose lease is whose, and begins where the transaction was won.    *)
(*                                                                         *)
(* OverstayBounded: how long a controller may lead without a lease depends *)
(* on what its campaign, its callback and the answers under way have used  *)
(* of the lease, so the invariant relates each timer of a controller to    *)
(* what is left of its lease.                                              *)
(***************************************************************************)
EXTENDS Election, TLAPS

Pc == {"down", "campaign", "granted", "won", "lost", "abandon", "wait",
       "pause", "activate", "hold", "deactivate", "ended"}

Shape ==
  /\ key \in Lease \cup {NoLease} /\ ttl \in [Lease -> Nat]
  /\ pc \in [Node -> Pc] /\ lease \in [Node -> Lease \cup {NoLease}]

\* The places of the loop that use the lease.
WithLease == {"granted", "won", "lost", "abandon", "activate", "hold"}

\* A controller has a lease where its loop uses one.
LeaseHeld == \A n \in Node : pc[n] \in WithLease => lease[n] \in Lease

\* No two controllers have one lease.
LeaseOwned == \A m, n \in Node : m # n /\ lease[n] \in Lease => lease[m] # lease[n]

\* From the won transaction on, the key is the controller's while its lease lives.
KeyHeld ==
  \A n \in Node : pc[n] \in {"won", "activate", "hold"} /\ ttl[lease[n]] > 0 => key = lease[n]

IndInv == Shape /\ LeaseHeld /\ LeaseOwned /\ KeyHeld

\* No lease has the number of NoLease (clientv3.NoLease).
LEMMA LeaseNotZero == NoLease \notin Lease
  BY ElectionAssumption, Zenon DEF NoLease

\* A lease that etcd grants is nobody's (campaignOnce).
LEMMA NewLeaseFree == Free # {} => NewLease \in Free
  BY Zenon DEF NewLease

\* A controller starts without a lease, and there is no key.
LEMMA InitInv == Init => IndInv
  BY LeaseNotZero DEF Init, IndInv, Shape, LeaseHeld, LeaseOwned, KeyHeld, Pc, WithLease

\* What a step of one controller does to the invariant of the others, when it neither
\* touches their leases nor takes a key that is not its own.
LEMMA StepOf ==
  ASSUME IndInv, NEW n \in Node, Shape',
         \A m \in Node \ {n} : pc'[m] = pc[m] /\ lease'[m] = lease[m],
         lease'[n] \in {lease[n], NoLease} \/ \A m \in Node : lease'[n] # lease[m],
         \A l \in Lease : ttl'[l] > 0 /\ ttl[l] = 0 => \A m \in Node \ {n} : lease[m] # l,
         key' # key => key \in {NoLease, lease[n]},
         pc'[n] \in WithLease => lease'[n] \in Lease,
         pc'[n] \in {"won", "activate", "hold"} /\ ttl'[lease'[n]] > 0 => key' = lease'[n]
  PROVE  IndInv'
<1>1. LeaseHeld'
  BY Zenon DEF IndInv, LeaseHeld
<1>2. LeaseOwned'
  BY LeaseNotZero DEF IndInv, LeaseOwned, Shape
<1>3. KeyHeld'
  <2> SUFFICES ASSUME NEW m \in Node, m # n, pc[m] \in {"won", "activate", "hold"},
                      ttl'[lease[m]] > 0
               PROVE  key' = lease[m]
    BY Zenon DEF KeyHeld
  <2>1. lease[m] \in Lease
    BY Zenon DEF IndInv, LeaseHeld, WithLease
  <2>2. ttl[lease[m]] > 0
    BY <2>1 DEF IndInv, Shape
  <2>3. key = lease[m]
    BY <2>2, Zenon DEF IndInv, KeyHeld
  <2>4. lease[n] # lease[m]
    BY <2>1, Zenon DEF IndInv, LeaseOwned
  <2>5. QED
    BY <2>1, <2>3, <2>4, LeaseNotZero, Zenon
<1>4. QED
  BY <1>1, <1>2, <1>3, Zenon DEF IndInv

\* campaignOnce up to the answer of its transaction.
LEMMA CampaignInv ==
  ASSUME IndInv, NEW n \in Node,
         Grant(n) \/ GrantFails(n) \/ Txn(n) \/ TxnFails(n) \/ Start(n) \/ Wake(n)
  PROVE  IndInv'
<1>1. CASE Grant(n)
  <2>1. NewLease \in Lease /\ ttl[NewLease] = 0 /\ \A m \in Node : lease[m] # NewLease
    BY <1>1, NewLeaseFree, Zenon DEF Grant, Free
  <2>2. /\ lease' = [lease EXCEPT ![n] = NewLease] /\ ttl' = [ttl EXCEPT ![NewLease] = TTL]
        /\ pc' = [pc EXCEPT ![n] = "granted"] /\ key' = key
    BY <1>1, Zenon DEF Grant, Goto
  <2>3. Shape'
    BY <2>1, <2>2, ElectionAssumption, Zenon DEF IndInv, Shape, Pc
  <2>4. QED
    BY <2>1, <2>2, <2>3, StepOf DEF IndInv, Shape
<1>2. CASE GrantFails(n)
  <2>1. Shape'
    BY <1>2, Zenon DEF GrantFails, Goto, IndInv, Shape, Pc, etcdVars
  <2>2. QED
    BY <1>2, <2>1, StepOf DEF GrantFails, Goto, IndInv, Shape, etcdVars, WithLease
<1>3. CASE Txn(n)
  <2>1. lease[n] \in Lease
    BY <1>3, Zenon DEF Txn, IndInv, LeaseHeld, WithLease
  <2>2. Shape'
    BY <1>3, <2>1, Zenon DEF Txn, PutIfAbsent, Goto, IndInv, Shape, Pc
  <2>3. pc'[n] \in {"won", "activate", "hold"} => key' = lease'[n]
    BY <1>3, Zenon DEF Txn, Goto, IndInv, Shape
  <2>4. key' # key => key = NoLease
    BY <1>3, Zenon DEF Txn, PutIfAbsent
  <2>5. QED
    BY <1>3, <2>1, <2>2, <2>3, <2>4, StepOf DEF Txn, Goto, IndInv, Shape
<1>4. CASE TxnFails(n)
  <2>1. lease[n] \in Lease
    BY <1>4, Zenon DEF TxnFails, IndInv, LeaseHeld, WithLease
  <2>2. Shape'
    BY <1>4, Zenon DEF TxnFails, Goto, IndInv, Shape, Pc
  <2>3. QED
    BY <1>4, <2>1, <2>2, StepOf DEF TxnFails, Goto, IndInv, Shape
<1>5. CASE Start(n) \/ Wake(n)
  <2>1. Shape'
    BY <1>5, Zenon DEF Start, Wake, Goto, IndInv, Shape, Pc, etcdVars
  <2>2. QED
    BY <1>5, <2>1, StepOf DEF Start, Wake, Goto, IndInv, Shape, etcdVars, WithLease
<1>6. QED
  BY <1>1, <1>2, <1>3, <1>4, <1>5, Zenon

\* The steps that give a lease back.
LEMMA ReleaseInv ==
  ASSUME IndInv, NEW n \in Node, Abandon(n) \/ Follow(n) \/ LoopEnds(n)
  PROVE  IndInv'
<1>1. \/ lease[n] \in Lease /\ TryRevoke(lease[n])
      \/ UNCHANGED <<key, ttl>>
  BY Zenon DEF Abandon, Follow, LoopEnds, IndInv, LeaseHeld, WithLease, Shape, etcdVars
<1>2. /\ pc' \in [Node -> Pc] /\ pc'[n] \in {"pause", "wait", "ended"}
      /\ \A m \in Node \ {n} : pc'[m] = pc[m]
  BY Zenon DEF Abandon, Follow, LoopEnds, Goto, IndInv, Shape, Pc
<1>3. lease' = lease \/ lease' = [lease EXCEPT ![n] = NoLease]
  BY Zenon DEF Abandon, Follow, LoopEnds
<1>4. /\ key' \in {key, NoLease} /\ (key' # key => key = lease[n])
      /\ ttl' \in [Lease -> Nat] /\ \A l \in Lease : ttl'[l] \in {ttl[l], 0}
  BY <1>1 DEF TryRevoke, Revoked, IndInv, Shape, etcdVars
<1>5. Shape'
  BY <1>2, <1>3, <1>4, Zenon DEF IndInv, Shape
<1>6. QED
  BY <1>2, <1>3, <1>4, <1>5, StepOf DEF IndInv, Shape, WithLease

\* holdLeadership and its callback.
LEMMA HoldInv ==
  ASSUME IndInv, NEW n \in Node,
         \/ Hold(n) \/ Activated(n) \/ Renew(n) \/ Answer(n) \/ AnswerLost(n)
         \/ Lose(n) \/ Deactivated(n)
  PROVE  IndInv'
<1>1. CASE Hold(n) \/ Activated(n)
  <2>1. Shape'
    BY <1>1, Zenon DEF Hold, Activated, Goto, IndInv, Shape, Pc, etcdVars
  <2>2. lease[n] \in Lease /\ (ttl[lease[n]] > 0 => key = lease[n])
    BY <1>1, Zenon DEF Hold, Activated, IndInv, LeaseHeld, KeyHeld, WithLease
  <2>3. QED
    BY <1>1, <2>1, <2>2, StepOf DEF Hold, Activated, Goto, IndInv, Shape, etcdVars
<1>2. CASE Renew(n)
  <2>1. lease[n] \in Lease /\ ttl[lease[n]] > 0 /\ key = lease[n]
    BY <1>2, Zenon DEF Renew, Holding, IndInv, LeaseHeld, KeyHeld, WithLease
  <2>2. Shape'
    BY <1>2, <2>1, ElectionAssumption, Zenon DEF Renew, IndInv, Shape
  <2>3. \A l \in Lease : ttl'[l] > 0 => ttl[l] > 0
    BY <1>2, <2>1, Zenon DEF Renew, IndInv, Shape
  <2>4. QED
    BY <1>2, <2>1, <2>2, <2>3, StepOf DEF Renew, IndInv, Shape
<1>3. CASE Answer(n) \/ AnswerLost(n)
  BY <1>3, Zenon DEF Answer, AnswerLost, etcdVars, IndInv, Shape, LeaseHeld, LeaseOwned, KeyHeld
<1>4. CASE Lose(n) \/ Deactivated(n)
  <2>1. Shape'
    BY <1>4, Zenon DEF Lose, Deactivated, Goto, IndInv, Shape, Pc, etcdVars
  <2>2. QED
    BY <1>4, <2>1, StepOf DEF Lose, Deactivated, Goto, IndInv, Shape, etcdVars, WithLease
<1>5. QED
  BY <1>1, <1>2, <1>3, <1>4, Zenon

\* The ends of a controller.
LEMMA EndInv ==
  ASSUME IndInv, NEW n \in Node, Stop(n) \/ Exit(n) \/ Crash(n)
  PROVE  IndInv'
<1>1. CASE Stop(n)
  BY <1>1, Zenon DEF Stop, etcdVars, IndInv, Shape, LeaseHeld, LeaseOwned, KeyHeld
<1>2. CASE Exit(n) \/ Crash(n)
  <2>1. Gone(n)
    BY <1>2, Zenon DEF Exit, Crash
  <2>2. Shape'
    BY <2>1, Zenon DEF Gone, Goto, IndInv, Shape, Pc, etcdVars
  <2>3. QED
    BY <2>1, <2>2, StepOf DEF Gone, Goto, IndInv, Shape, etcdVars, WithLease
<1>3. QED
  BY <1>1, <1>2, Zenon

\* A transaction that arrives late finds the key of a live leader.
LEMMA LateInv ==
  ASSUME IndInv, NEW l \in Lease, LateTxn(l)
  PROVE  IndInv'
<1>1. /\ UNCHANGED <<ttl, pc, lease>> /\ key' \in {key, l} /\ (key # NoLease => key' = key)
  BY Zenon DEF LateTxn, PutIfAbsent
<1>2. Shape' /\ LeaseHeld' /\ LeaseOwned'
  BY <1>1, Zenon DEF IndInv, Shape, LeaseHeld, LeaseOwned
<1>3. KeyHeld'
  BY <1>1, LeaseNotZero, Zenon DEF IndInv, Shape, LeaseHeld, KeyHeld, WithLease
<1>4. QED
  BY <1>2, <1>3, Zenon DEF IndInv

\* Time takes the key with the lease that it hangs on.
LEMMA TickInv ==
  ASSUME IndInv, Tick
  PROVE  IndInv'
<1>1. /\ UNCHANGED <<pc, lease>> /\ ttl' \in [Lease -> Nat]
      /\ \A l \in Lease : ttl'[l] > 0 => ttl[l] > 0
  BY DEF Tick, Down, IndInv, Shape
<1>2. key' = IF key # NoLease /\ ttl'[key] > 0 THEN key ELSE NoLease
  BY Zenon DEF Tick
<1>3. Shape' /\ LeaseHeld' /\ LeaseOwned'
  BY <1>1, <1>2, Zenon DEF IndInv, Shape, LeaseHeld, LeaseOwned
<1>4. KeyHeld'
  BY <1>1, <1>2, LeaseNotZero, Zenon DEF IndInv, Shape, LeaseHeld, KeyHeld, WithLease
<1>5. QED
  BY <1>3, <1>4, Zenon DEF IndInv

\* Every step of the election keeps the invariant.
LEMMA NextInv == IndInv /\ [Next]_vars => IndInv'
<1> SUFFICES ASSUME IndInv, [Next]_vars PROVE IndInv'
  BY Zenon
<1>1. CASE UNCHANGED vars
  BY <1>1, Zenon DEF vars, etcdVars, IndInv, Shape, LeaseHeld, LeaseOwned, KeyHeld
<1>2. ASSUME NEW n \in Node, LoopStep(n) PROVE IndInv'
  BY <1>2, CampaignInv, ReleaseInv, HoldInv, Zenon DEF LoopStep
<1>3. ASSUME NEW n \in Node, FaultStep(n) PROVE IndInv'
  BY <1>3, CampaignInv, HoldInv, EndInv, Zenon DEF FaultStep
<1>4. ASSUME NEW n \in Node, Renew(n) \/ Answer(n) \/ Start(n) \/ Exit(n) PROVE IndInv'
  BY <1>4, CampaignInv, HoldInv, EndInv, Zenon
<1>5. QED
  BY <1>1, <1>2, <1>3, <1>4, LateInv, TickInv, Zenon DEF Next

\* While the lease of a leader lives, the election key is its own
\* (campaignOnce, holdLeadership): the key fences.
THEOREM KeyAlwaysFences == Spec => []KeyFences
<1>1. IndInv => KeyFences
  BY Zenon DEF IndInv, KeyHeld, KeyFences, Holding
<1>2. QED
  BY <1>1, InitInv, NextInv, PTL DEF Spec

\* Of two controllers that hold leadership at most one has a live lease (holdLeadership).
OneLiveLeader ==
  \A m, n \in Node :
    Holding(m) /\ Holding(n) /\ ttl[lease[m]] > 0 /\ ttl[lease[n]] > 0 => m = n

\* No two controllers hold leadership with live leases, through crashes, lost and late
\* calls, and revocations that fail (ha_coordination.go: one leader at a time).
THEOREM AtMostOneLiveLeader == Spec => []OneLiveLeader
<1>1. IndInv => OneLiveLeader
  BY Zenon DEF IndInv, LeaseHeld, LeaseOwned, KeyHeld, OneLiveLeader, Holding, WithLease
<1>2. QED
  BY <1>1, InitInv, NextInv, PTL DEF Spec

-----------------------------------------------------------------------------
(* How long a leader outlives its lease. *)

Typed ==
  /\ TypeOK
  /\ timer \in [Node -> Nat] /\ deadline \in [Node -> Nat]
  /\ answer \in [Node -> Nat \cup {NoAnswer}]

OverstayBound == CHOOSE t \in OverstayTimes : \A u \in OverstayTimes : t >= u

\* The ticks that the lease of n has to live, or those since its end, negative.
Left(n) == IF ttl[lease[n]] > 0 THEN ttl[lease[n]] ELSE -overstay[n]

\* What the timers of n say of its lease: the two calls of a campaign, the callback, the
\* deadline of the channel, and an answer under way each bound what may have passed of it.
Clock(n) ==
  /\ ~Holding(n) => ~active[n] /\ answer[n] = NoAnswer
  /\ pc[n] \in {"granted", "won"} /\ ttl[lease[n]] = 0 => overstay[n] = 0
  /\ pc[n] = "granted" => TTL <= ttl[lease[n]] + CampaignTimeout - timer[n]
  /\ pc[n] = "won" => TTL <= ttl[lease[n]] + 2 * CampaignTimeout - timer[n]
  /\ pc[n] = "activate" => TTL <= Left(n) + 2 * CampaignTimeout + StartTime - timer[n]
  /\ Holding(n) => deadline[n] <= Left(n) + OverstayBound
  /\ Holding(n) /\ answer[n] # NoAnswer => TTL + answer[n] <= Left(n) + MaxDelay

ClockInv == \A n \in Node : (~stopping[n] => Clock(n)) /\ overstay[n] <= OverstayBound

\* What a step of controller n leaves as it is.
Elsewhere(n) ==
  /\ overstay' = overstay
  /\ \A m \in Node \ {n} :
       /\ pc'[m] = pc[m] /\ lease'[m] = lease[m] /\ active'[m] = active[m]
       /\ stopping'[m] = stopping[m] /\ timer'[m] = timer[m] /\ deadline'[m] = deadline[m]
       /\ answer'[m] = answer[m]
       /\ lease[m] \in Lease => ttl'[lease[m]] = ttl[lease[m]]

\* OverstayBound is the greatest of its three numbers.
LEMMA BoundFacts ==
  /\ OverstayBound \in OverstayTimes /\ OverstayBound \in Int /\ OverstayBound >= MaxDelay
  /\ OverstayBound >= FirstTimeout + 2 * CampaignTimeout - TTL
  /\ OverstayBound >= StartTime + 2 * CampaignTimeout - TTL
<1>1. OverstayTimes \subseteq Int
  BY ElectionAssumption DEF OverstayTimes, FirstTimeout
<1>2. \E t \in OverstayTimes : \A u \in OverstayTimes : t >= u
  BY ElectionAssumption DEF OverstayTimes, FirstTimeout
<1>3. OverstayBound \in OverstayTimes /\ \A u \in OverstayTimes : OverstayBound >= u
  BY <1>2, Zenon DEF OverstayBound
<1>4. QED
  BY <1>1, <1>3, Zenon DEF OverstayTimes

\* Types hold when the controllers are down.
LEMMA TypedInit == Init => Typed
  BY ElectionAssumption DEF Init, Typed, TypeOK, NoAnswer, NoLease

\* The step of a campaign keeps the types.
LEMMA CampaignTyped ==
  ASSUME IndInv, Typed, NEW n \in Node,
         Grant(n) \/ GrantFails(n) \/ Txn(n) \/ TxnFails(n) \/ Start(n) \/ Wake(n)
  PROVE  Typed'
<1> USE ElectionAssumption DEF Typed, TypeOK, NoAnswer, Goto, etcdVars, clockVars
<1>1. CASE Grant(n)
  <2>1. NewLease \in Lease
    BY <1>1, NewLeaseFree, Zenon DEF Grant, Free
  <2>2. QED
    BY <1>1, <2>1 DEF Grant, NoFault
<1>2. CASE GrantFails(n)
  BY <1>2 DEF GrantFails, Fault
<1>3. CASE Txn(n)
  <2>1. lease[n] \in Lease
    BY <1>3, Zenon DEF Txn, IndInv, LeaseHeld, WithLease
  <2>2. QED
    BY <1>3, <2>1 DEF Txn, PutIfAbsent, NoFault
<1>4. CASE TxnFails(n)
  <2>1. lease[n] \in Lease
    BY <1>4, Zenon DEF TxnFails, IndInv, LeaseHeld, WithLease
  <2>2. QED
    <3>1. late' \subseteq Lease
      BY <1>4, <2>1, Zenon DEF TxnFails
    <3>2. faults' \in 0 .. MaxFaults
      BY <1>4 DEF TxnFails, Fault
    <3>3. QED
      BY <1>4, <3>1, <3>2, Zenon DEF TxnFails
<1>5. CASE Start(n)
  BY <1>5, Zenon DEF Start, NoFault
<1>6. CASE Wake(n)
  BY <1>6, Zenon DEF Wake, NoFault
<1>7. QED
  BY <1>1, <1>2, <1>3, <1>4, <1>5, <1>6, Zenon

\* So do the steps that give a lease back.
LEMMA ReleaseTyped ==
  ASSUME IndInv, Typed, NEW n \in Node, Abandon(n) \/ Follow(n) \/ LoopEnds(n)
  PROVE  Typed'
<1> USE ElectionAssumption DEF Typed, TypeOK
<1>1. \/ lease[n] \in Lease /\ TryRevoke(lease[n])
      \/ UNCHANGED <<etcdVars, faults>>
  BY Zenon DEF Abandon, Follow, LoopEnds, IndInv, LeaseHeld, WithLease, NoFault
<1>2. /\ key' \in Lease \cup {NoLease} /\ ttl' \in [Lease -> 0 .. TTL] /\ late' \subseteq Lease
      /\ faults' \in 0 .. MaxFaults
  <2>1. faults' \in 0 .. MaxFaults
    BY <1>1 DEF TryRevoke, Fault, NoFault
  <2>2. CASE UNCHANGED etcdVars
    BY <2>1, <2>2, Zenon DEF etcdVars
  <2>3. CASE lease[n] \in Lease /\ Revoked(lease[n])
    BY <2>1, <2>3 DEF Revoked
  <2>4. QED
    BY <1>1, <2>2, <2>3, Zenon DEF TryRevoke
<1>3. /\ lease' \in [Node -> Lease \cup {NoLease}]
      /\ UNCHANGED <<active, running, stopping, clockVars, overstay>>
  BY Zenon DEF Abandon, Follow, LoopEnds
<1>4. pc' \in [Node -> Pc]
  BY Zenon DEF Abandon, Follow, LoopEnds, Goto, Pc
<1>5. QED
  BY <1>2, <1>3, <1>4, Zenon DEF clockVars, Pc

\* So do those of a leader.
LEMMA HoldTyped ==
  ASSUME IndInv, Typed, NEW n \in Node,
         \/ Hold(n) \/ Activated(n) \/ Renew(n) \/ Answer(n) \/ AnswerLost(n)
         \/ Lose(n) \/ Deactivated(n)
  PROVE  Typed'
<1> USE ElectionAssumption DEF Typed, TypeOK, NoAnswer, NoLease, Goto, etcdVars, clockVars
<1>1. CASE Hold(n)
  <2>1. FirstTimeout \in Nat
    BY DEF FirstTimeout
  <2>2. QED
    BY <1>1, <2>1 DEF Hold, NoFault
<1>2. CASE Activated(n)
  BY <1>2, Zenon DEF Activated, NoFault
<1>3. CASE Renew(n)
  <2>1. ttl' \in [Lease -> 0 .. TTL]
    <3>1. TTL \in 0 .. TTL /\ ttl' = [ttl EXCEPT ![lease[n]] = TTL] /\ ttl \in [Lease -> 0 .. TTL]
      BY <1>3 DEF Renew
    <3>2. QED
      BY ONLY <3>1, Zenon
  <2>2. answer' \in [Node -> Nat \cup {NoAnswer}]
    BY <1>3, Zenon DEF Renew
  <2>3. QED
    BY <1>3, <2>1, <2>2 DEF Renew, NoFault
<1>4. CASE Answer(n)
  BY <1>4 DEF Answer, NoFault
<1>5. CASE AnswerLost(n)
  BY <1>5 DEF AnswerLost, Fault
<1>6. CASE Lose(n)
  BY <1>6 DEF Lose, NoFault
<1>7. CASE Deactivated(n)
  BY <1>7, Zenon DEF Deactivated, NoFault
<1>8. QED
  BY <1>1, <1>2, <1>3, <1>4, <1>5, <1>6, <1>7, Zenon

\* So do all others.
LEMMA NextTyped == IndInv /\ Typed /\ [Next]_vars => Typed'
<1> SUFFICES ASSUME IndInv, Typed, [Next]_vars PROVE Typed'
  BY Zenon
<1>1. CASE UNCHANGED vars
  BY <1>1, Zenon DEF vars, etcdVars, clockVars, Typed, TypeOK
<1>2. ASSUME NEW n \in Node, Stop(n) PROVE Typed'
  BY <1>2, ElectionAssumption DEF Stop, Fault, Typed, TypeOK, etcdVars, clockVars
<1>3. ASSUME NEW n \in Node, Exit(n) \/ Crash(n) PROVE Typed'
  <2>1. Gone(n) /\ faults' \in 0 .. MaxFaults
    BY <1>3, ElectionAssumption DEF Exit, Crash, Fault, NoFault, Typed, TypeOK
  <2>2. QED
    BY <2>1 DEF Gone, Goto, Typed, TypeOK, etcdVars, NoLease, NoAnswer
<1>4. ASSUME NEW l \in Lease, LateTxn(l) PROVE Typed'
  BY <1>4, Zenon DEF LateTxn, PutIfAbsent, NoFault, Typed, TypeOK, clockVars
<1>5. CASE Tick
  <2>1. ttl' \in [Lease -> 0 .. TTL]
    BY <1>5, ElectionAssumption DEF Tick, Down, Typed, TypeOK
  <2>2. /\ timer' \in [Node -> Nat] /\ deadline' \in [Node -> Nat]
        /\ answer' \in [Node -> Nat \cup {NoAnswer}] /\ overstay' \in [Node -> Nat]
    BY <1>5 DEF Tick, Down, Typed, TypeOK, NoAnswer
  <2>3. /\ key' \in Lease \cup {NoLease}
        /\ UNCHANGED <<late, pc, lease, active, running, stopping, faults>>
    BY <1>5, Zenon DEF Tick, NoFault, Typed, TypeOK
  <2>4. QED
    BY <2>1, <2>2, <2>3 DEF Typed, TypeOK, NoAnswer
<1>6. ASSUME NEW n \in Node, LoopStep(n) PROVE Typed'
  BY <1>6, CampaignTyped, ReleaseTyped, HoldTyped, Zenon DEF LoopStep
<1>7. ASSUME NEW n \in Node, FaultStep(n) PROVE Typed'
  BY <1>7, <1>2, <1>3, CampaignTyped, HoldTyped, Zenon DEF FaultStep
<1>8. ASSUME NEW n \in Node, Renew(n) \/ Answer(n) \/ Start(n) \/ Exit(n) PROVE Typed'
  BY <1>3, <1>8, CampaignTyped, HoldTyped, Zenon
<1>9. QED
  BY <1>1, <1>4, <1>5, <1>6, <1>7, <1>8, Zenon DEF Next

\* A lease of etcd never lives longer than the TTL that campaignOnce asks for, and every
\* part of the state keeps its type.
THEOREM TypeCorrect == Spec => []TypeOK
<1>1. IndInv /\ Typed => TypeOK
  BY Zenon DEF Typed
<1>2. QED
  BY <1>1, InitInv, NextInv, TypedInit, NextTyped, PTL DEF Spec


\* The numbers of one controller, and the constants.
Numbers(n) ==
  /\ timer[n] \in Nat /\ deadline[n] \in Nat /\ answer[n] \in Nat \cup {NoAnswer}
  /\ overstay[n] \in Nat /\ (lease[n] \in Lease => ttl[lease[n]] \in 0 .. TTL)
  /\ TTL \in Nat \ {0} /\ CampaignTimeout \in Nat /\ MaxDelay \in Nat /\ StartTime \in Nat
  /\ FirstTimeout = CampaignTimeout + 1 /\ NoAnswer = -1

\* They are numbers.
LEMMA NumbersOf ==
  ASSUME Typed, NEW n \in Node
  PROVE  Numbers(n)
<1>1. /\ TTL \in Nat \ {0} /\ CampaignTimeout \in Nat /\ MaxDelay \in Nat /\ StartTime \in Nat
      /\ FirstTimeout = CampaignTimeout + 1 /\ NoAnswer = -1
  BY ElectionAssumption, Zenon DEF NoAnswer, FirstTimeout
<1>2. timer[n] \in Nat /\ deadline[n] \in Nat /\ answer[n] \in Nat \cup {NoAnswer}
  BY Zenon DEF Typed
<1>3. overstay[n] \in Nat /\ (lease[n] \in Lease => ttl[lease[n]] \in 0 .. TTL)
  BY Zenon DEF Typed, TypeOK
<1>4. QED
  BY <1>1, <1>2, <1>3, Zenon DEF Numbers

\* A step of controller n leaves the clocks of the others alone.
LEMMA ClockOf ==
  ASSUME IndInv, ClockInv, NEW n \in Node, Elsewhere(n), ~stopping'[n] => Clock(n)'
  PROVE  ClockInv'
<1>1. ASSUME NEW m \in Node, m # n, ~stopping'[m] PROVE Clock(m)'
  <2>1. /\ pc'[m] = pc[m] /\ lease'[m] = lease[m] /\ active'[m] = active[m]
        /\ timer'[m] = timer[m] /\ deadline'[m] = deadline[m] /\ answer'[m] = answer[m]
        /\ overstay'[m] = overstay[m]
        /\ pc[m] \in WithLease => ttl'[lease'[m]] = ttl[lease[m]]
    BY <1>1, SMTT(40) DEF Elsewhere, IndInv, LeaseHeld
  <2>2. Clock(m)
    BY <1>1, Zenon DEF Elsewhere, ClockInv
  <2>3. QED
    BY <2>1, <2>2, Zenon DEF Clock, Left, Holding, WithLease
<1>2. ASSUME NEW m \in Node PROVE overstay'[m] <= OverstayBound
  BY Zenon DEF Elsewhere, ClockInv
<1>3. QED
  BY <1>1, <1>2, Zenon DEF ClockInv

\* campaignOnce: each of its two calls takes CampaignTimeout at most.
LEMMA CampaignClock ==
  ASSUME IndInv, Typed, ClockInv, NEW n \in Node,
         Grant(n) \/ GrantFails(n) \/ Txn(n) \/ TxnFails(n) \/ Start(n) \/ Wake(n)
  PROVE  ClockInv'
<1>0. Numbers(n)
  BY NumbersOf, Zenon
<1>1. CASE Grant(n)
  <2>1. NewLease \in Lease /\ ttl[NewLease] = 0 /\ \A m \in Node : lease[m] # NewLease
    BY <1>1, NewLeaseFree, Zenon DEF Grant, Free
  <2>2. Elsewhere(n)
    BY <1>1, <2>1, Zenon DEF Grant, Goto, Elsewhere, Typed, TypeOK
  <2>3. /\ pc'[n] = "granted" /\ ttl'[lease'[n]] = TTL /\ timer'[n] = CampaignTimeout
        /\ active' = active /\ answer' = answer /\ ~stopping[n] /\ pc[n] = "campaign"
    BY <1>1, <2>1, Zenon DEF Grant, Goto, Typed, TypeOK
  <2>4. Clock(n)'
    BY <1>0, <2>3 DEF Clock, ClockInv, Holding, Numbers
  <2>5. QED
    BY <2>2, <2>4, ClockOf, Zenon
<1>2. CASE Txn(n)
  <2>1. Elsewhere(n)
    BY <1>2, Zenon DEF Txn, Goto, Elsewhere, Typed, TypeOK
  <2>2. /\ pc'[n] \in {"won", "abandon", "lost"} /\ timer'[n] = CampaignTimeout
        /\ UNCHANGED <<ttl, lease, active, answer, overstay>> /\ ~stopping[n] /\ pc[n] = "granted"
    BY <1>2, Zenon DEF Txn, Goto, Typed, TypeOK
  <2>3. lease[n] \in Lease
    BY <2>2, Zenon DEF IndInv, LeaseHeld, WithLease
  <2>4. /\ ~active[n] /\ answer[n] = NoAnswer /\ (ttl[lease[n]] = 0 => overstay[n] = 0)
        /\ TTL <= ttl[lease[n]] + CampaignTimeout - timer[n]
    BY <2>2, Zenon DEF Clock, ClockInv, Holding
  <2>5. TTL <= ttl[lease[n]] + 2 * CampaignTimeout - CampaignTimeout
    BY <1>0, <2>3, <2>4 DEF Numbers
  <2>6. Clock(n)'
    BY <2>2, <2>4, <2>5, Zenon DEF Clock, Holding
  <2>7. QED
    BY <2>1, <2>6, ClockOf, Zenon
<1>3. CASE GrantFails(n) \/ TxnFails(n) \/ Start(n) \/ Wake(n)
  <2>1. Elsewhere(n)
    BY <1>3, Zenon DEF GrantFails, TxnFails, Start, Wake, Goto, Elsewhere,
             Typed, TypeOK, etcdVars, clockVars
  <2>2. /\ pc'[n] \in {"pause", "abandon", "campaign"} /\ ~Holding(n)
        /\ UNCHANGED <<active, answer, stopping>>
    BY <1>3, Zenon DEF GrantFails, TxnFails, Start, Wake, Goto, Typed, TypeOK, clockVars, Holding
  <2>3. ~stopping'[n] => Clock(n)'
    BY <2>2, Zenon DEF Clock, ClockInv, Holding
  <2>4. QED
    BY <2>1, <2>3, ClockOf, Zenon
<1>4. QED
  BY <1>1, <1>2, <1>3, Zenon

\* A lease is given back by a controller that is not active, or that was stopped.
LEMMA ReleaseClock ==
  ASSUME IndInv, Typed, ClockInv, NEW n \in Node, Abandon(n) \/ Follow(n) \/ LoopEnds(n)
  PROVE  ClockInv'
<1>1. \/ lease[n] \in Lease /\ TryRevoke(lease[n])
      \/ UNCHANGED ttl
  BY Zenon DEF Abandon, Follow, LoopEnds, IndInv, LeaseHeld, WithLease, Typed, TypeOK, etcdVars
<1>2. /\ pc'[n] \in {"pause", "wait", "ended"} /\ \A m \in Node \ {n} : pc'[m] = pc[m]
      /\ ~stopping[n] => ~Holding(n)
  BY Zenon DEF Abandon, Follow, LoopEnds, Goto, Typed, TypeOK, Holding
<1>3. /\ \A m \in Node \ {n} : lease'[m] = lease[m]
      /\ UNCHANGED <<active, stopping, timer, deadline, answer, overstay>>
  BY Zenon DEF Abandon, Follow, LoopEnds, Typed, TypeOK, clockVars
<1>4. \A m \in Node \ {n} : lease[m] \in Lease => ttl'[lease[m]] = ttl[lease[m]]
  BY <1>1, Zenon DEF TryRevoke, Revoked, etcdVars, Typed, TypeOK, IndInv, LeaseOwned
<1>5. Elsewhere(n)
  BY <1>2, <1>3, <1>4, Zenon DEF Elsewhere
<1>6. ~stopping'[n] => Clock(n)'
  BY <1>2, <1>3, Zenon DEF Clock, ClockInv, Holding
<1>7. QED
  BY <1>5, <1>6, ClockOf, Zenon

\* holdLeadership: the channel outlives the lease by OverstayBound at most.
LEMMA HoldClock ==
  ASSUME IndInv, Typed, ClockInv, NEW n \in Node,
         \/ Hold(n) \/ Activated(n) \/ Renew(n) \/ Answer(n) \/ AnswerLost(n)
         \/ Lose(n) \/ Deactivated(n)
  PROVE  ClockInv'
<1>0. Numbers(n)
  BY NumbersOf, Zenon
<1>1. CASE Hold(n)
  <2>1. Elsewhere(n)
    BY <1>1, Zenon DEF Hold, Goto, Elsewhere, Typed, TypeOK, etcdVars
  <2>2. /\ pc'[n] = "activate" /\ timer'[n] = StartTime /\ deadline'[n] = FirstTimeout
        /\ UNCHANGED <<ttl, lease, answer, overstay, stopping>> /\ pc[n] = "won"
    BY <1>1, Zenon DEF Hold, Goto, Typed, TypeOK, etcdVars
  <2>3. lease[n] \in Lease
    BY <2>2, Zenon DEF IndInv, LeaseHeld, WithLease
  <2>4. ASSUME ~stopping[n] PROVE Clock(n)'
    <3>1. /\ answer[n] = NoAnswer /\ (ttl[lease[n]] = 0 => overstay[n] = 0)
          /\ TTL <= ttl[lease[n]] + 2 * CampaignTimeout - timer[n]
      BY <2>2, <2>4, Zenon DEF Clock, ClockInv, Holding
    <3>2. Left(n) = ttl[lease[n]]
      BY <1>0, <2>3, <3>1 DEF Left, Numbers
    <3>3. /\ TTL <= Left(n) + 2 * CampaignTimeout + StartTime - StartTime
          /\ FirstTimeout <= Left(n) + OverstayBound
      BY <1>0, <2>3, <3>1, <3>2, BoundFacts DEF Numbers
    <3>4. Left(n)' = Left(n)
      BY <2>2, Zenon DEF Left
    <3>5. QED
      BY <2>2, <3>1, <3>3, <3>4, Zenon DEF Clock, Holding
  <2>5. QED
    BY <2>1, <2>2, <2>4, ClockOf, Zenon
<1>2. CASE Activated(n)
  <2>1. Elsewhere(n)
    BY <1>2, Zenon DEF Activated, Goto, Elsewhere,
             Typed, TypeOK, etcdVars, clockVars
  <2>2. /\ pc'[n] = "hold" /\ pc[n] = "activate"
        /\ UNCHANGED <<ttl, lease, answer, deadline, overstay, stopping>>
    BY <1>2, Zenon DEF Activated, Goto, Typed, TypeOK, etcdVars, clockVars
  <2>3. ~stopping'[n] => Clock(n)'
    BY <2>2, Zenon DEF Clock, ClockInv, Holding, Left
  <2>4. QED
    BY <2>1, <2>3, ClockOf, Zenon
<1>3. CASE Renew(n)
  <2>1. lease[n] \in Lease /\ ttl[lease[n]] > 0
    BY <1>3, Zenon DEF Renew, Holding, IndInv, LeaseHeld, WithLease
  <2>2. Elsewhere(n)
    BY <1>3, <2>1, Zenon DEF Renew, Elsewhere, Typed, TypeOK, IndInv, LeaseOwned
  <2>3. /\ ttl'[lease'[n]] = TTL /\ answer'[n] = MaxDelay
        /\ UNCHANGED <<pc, lease, timer, deadline, overstay, stopping>>
        /\ Holding(n) /\ ~stopping[n]
    BY <1>3, <2>1, Zenon DEF Renew, Typed, TypeOK
  <2>4. Left(n) = ttl[lease[n]] /\ Left(n) <= TTL /\ Left(n) \in Nat
    BY <1>0, <2>1 DEF Left, Numbers
  <2>5. Left(n)' = TTL
    <3>1. TTL > 0
      BY <1>0 DEF Numbers
    <3>2. QED
      BY <2>3, <3>1, Zenon DEF Left
  <2>6. /\ pc[n] = "activate" => TTL <= TTL + 2 * CampaignTimeout + StartTime - timer[n]
        /\ deadline[n] <= TTL + OverstayBound
        /\ TTL + MaxDelay <= TTL + MaxDelay
    <3>1. /\ pc[n] = "activate" => TTL <= Left(n) + 2 * CampaignTimeout + StartTime - timer[n]
          /\ deadline[n] <= Left(n) + OverstayBound
      BY <2>3, Zenon DEF Clock, ClockInv
    <3>2. QED
      BY <1>0, <2>4, <3>1, BoundFacts DEF Numbers
  <2>7. Clock(n)'
    BY <2>3, <2>5, <2>6, Zenon DEF Clock, Holding
  <2>8. QED
    BY <2>2, <2>7, ClockOf, Zenon
<1>4. CASE Answer(n) \/ AnswerLost(n)
  <2>1. Elsewhere(n)
    BY <1>4, Zenon DEF Answer, AnswerLost, Elsewhere, Typed, TypeOK, etcdVars
  <2>2. /\ answer'[n] = NoAnswer /\ deadline'[n] \in {deadline[n], TTL} /\ Holding(n)
        /\ UNCHANGED <<ttl, pc, lease, timer, overstay, stopping>> /\ answer[n] # NoAnswer
    BY <1>4, Zenon DEF Answer, AnswerLost, Typed, TypeOK, etcdVars
  <2>3. lease[n] \in Lease
    BY <2>2, Zenon DEF Holding, IndInv, LeaseHeld, WithLease
  <2>4. Left(n) \in Int /\ Left(n)' = Left(n)
    BY <1>0, <2>2, <2>3 DEF Left, Numbers
  <2>5. ASSUME ~stopping[n] PROVE deadline'[n] <= Left(n) + OverstayBound
    <3>1. deadline[n] <= Left(n) + OverstayBound /\ TTL + answer[n] <= Left(n) + MaxDelay
      BY <2>2, <2>5, Zenon DEF Clock, ClockInv
    <3>2. TTL <= Left(n) + OverstayBound
      BY <1>0, <2>2, <2>4, <3>1, BoundFacts DEF Numbers
    <3>3. QED
      BY <2>2, <3>1, <3>2, Zenon
  <2>6. ~stopping'[n] => Clock(n)'
    BY <2>2, <2>4, <2>5, Zenon DEF Clock, ClockInv, Holding
  <2>7. QED
    BY <2>1, <2>6, ClockOf, Zenon
<1>5. CASE Lose(n) \/ Deactivated(n)
  <2>1. Elsewhere(n)
    BY <1>5, Zenon DEF Lose, Deactivated, Goto, Elsewhere,
             Typed, TypeOK, etcdVars, clockVars
  <2>2. /\ pc'[n] \in {"deactivate", "pause"} /\ stopping' = stopping
        /\ \/ ~active'[n] /\ answer'[n] = NoAnswer
           \/ UNCHANGED <<active, answer>> /\ ~Holding(n)
    BY <1>5, Zenon DEF Lose, Deactivated, Goto, Typed, TypeOK, Holding, clockVars
  <2>3. ~stopping'[n] => Clock(n)'
    BY <2>2, Zenon DEF Clock, ClockInv, Holding
  <2>4. QED
    BY <2>1, <2>3, ClockOf, Zenon
<1>6. QED
  BY <1>1, <1>2, <1>3, <1>4, <1>5, Zenon

\* The ends of a controller.
LEMMA EndClock ==
  ASSUME IndInv, Typed, ClockInv, NEW n \in Node, Stop(n) \/ Exit(n) \/ Crash(n)
  PROVE  ClockInv'
<1>1. CASE Stop(n)
  <2>1. Elsewhere(n) /\ stopping'[n]
    BY <1>1, Zenon DEF Stop, Elsewhere,
             Typed, TypeOK, etcdVars, clockVars
  <2>2. QED
    BY <2>1, ClockOf, Zenon
<1>2. CASE Exit(n) \/ Crash(n)
  <2>1. Gone(n)
    BY <1>2, Zenon DEF Exit, Crash
  <2>2. Elsewhere(n)
    BY <2>1, Zenon DEF Gone, Goto, Elsewhere, Typed, TypeOK, etcdVars
  <2>3. pc'[n] = "down" /\ ~active'[n] /\ answer'[n] = NoAnswer
    BY <2>1, Zenon DEF Gone, Goto, Typed, TypeOK
  <2>4. Clock(n)'
    BY <2>3, Zenon DEF Clock, Holding
  <2>5. QED
    BY <2>2, <2>4, ClockOf, Zenon
<1>3. QED
  BY <1>1, <1>2, Zenon

\* Time: nothing that is due waits, so no timer of a controller runs past its end, and
\* all of them lose the tick that the lease loses.
LEMMA TickClock ==
  ASSUME IndInv, Typed, ClockInv, Tick
  PROVE  ClockInv'
<1> SUFFICES ASSUME NEW n \in Node
             PROVE  (~stopping[n] => Clock(n)') /\ overstay'[n] <= OverstayBound
  BY Zenon DEF ClockInv, Tick
<1>0. Numbers(n)
  BY NumbersOf, Zenon
<1>1. UNCHANGED <<pc, lease, active, stopping>>
  BY Zenon DEF Tick
<1>2. /\ timer'[n] = Down(timer[n]) /\ deadline'[n] = Down(deadline[n])
      /\ answer'[n] = Down(answer[n])
  BY Zenon DEF Tick
<1>3. lease[n] \in Lease => ttl'[lease[n]] = Down(ttl[lease[n]])
  BY Zenon DEF Tick
<1>4. overstay'[n] = IF active[n] /\ ~stopping[n] /\ (lease[n] # NoLease => ttl[lease[n]] = 0)
                       THEN overstay[n] + 1 ELSE 0
  BY Zenon DEF Tick
<1>5. ~stopping[n] => ~Due(n)
  BY Zenon DEF Tick
<1>6. ASSUME stopping[n] PROVE overstay'[n] <= OverstayBound
  BY <1>0, <1>4, <1>6, BoundFacts DEF Numbers
<1>7. ASSUME ~stopping[n], ~Holding(n) PROVE Clock(n)' /\ overstay'[n] <= OverstayBound
  <2>1. ~active[n] /\ answer[n] = NoAnswer
    BY <1>7, Zenon DEF Clock, ClockInv
  <2>2. overstay'[n] = 0 /\ ~active'[n] /\ answer'[n] = NoAnswer
    <3>1. ~(NoAnswer > 0)
      BY DEF NoAnswer
    <3>2. QED
      BY <1>1, <1>2, <1>4, <2>1, <3>1, Zenon DEF Down
  <2>3. ASSUME pc[n] \in {"granted", "won"}, NEW k \in Nat, TTL <= ttl[lease[n]] + k - timer[n]
        PROVE  TTL <= ttl'[lease[n]] + k - timer'[n]
    <3>1. lease[n] \in Lease
      BY <2>3, Zenon DEF IndInv, LeaseHeld, WithLease
    <3>2. timer[n] # 0
      BY <1>5, <1>7, <2>3, Zenon DEF Due
    <3>3. QED
      BY <1>0, <1>2, <1>3, <2>3, <3>1, <3>2, SMTT(40) DEF Down, Numbers
  <2>4. pc[n] = "granted" => TTL <= ttl'[lease[n]] + CampaignTimeout - timer'[n]
    BY <1>0, <1>7, <2>3, Zenon DEF Clock, ClockInv, Numbers
  <2>5. pc[n] = "won" => TTL <= ttl'[lease[n]] + 2 * CampaignTimeout - timer'[n]
    <3>1. 2 * CampaignTimeout \in Nat
      BY <1>0 DEF Numbers
    <3>2. QED
      BY <1>7, <2>3, <3>1, Zenon DEF Clock, ClockInv
  <2>6. Clock(n)'
    BY <1>1, <1>7, <2>2, <2>4, <2>5, Zenon DEF Clock, Holding
  <2>7. QED
    BY <1>0, <2>2, <2>6, BoundFacts DEF Numbers
<1>8. ASSUME ~stopping[n], Holding(n) PROVE Clock(n)' /\ overstay'[n] <= OverstayBound
  <2>1. lease[n] \in Lease /\ lease[n] # NoLease
    BY <1>8, LeaseNotZero, Zenon DEF Holding, IndInv, LeaseHeld, WithLease
  <2>2. Left(n) \in Int /\ Left(n)' \in Int /\ Left(n)' >= Left(n) - 1 /\ overstay'[n] \in Nat
    <3>1. overstay'[n] \in Nat
      BY <1>0, <1>4 DEF Numbers
    <3>2. CASE ttl[lease[n]] > 0
      <4>1. overstay'[n] = 0 /\ ttl'[lease'[n]] = ttl[lease[n]] - 1
        BY <1>0, <1>1, <1>3, <1>4, <2>1, <3>2 DEF Numbers, Down
      <4>2. Left(n) = ttl[lease[n]] /\ Left(n)' = ttl'[lease'[n]]
        BY <1>0, <2>1, <3>2, <4>1 DEF Left, Numbers
      <4>3. QED
        BY <1>0, <2>1, <3>1, <4>1, <4>2 DEF Numbers
    <3>3. CASE ttl[lease[n]] = 0
      <4>1. overstay'[n] <= overstay[n] + 1 /\ ttl'[lease'[n]] = 0
        BY <1>0, <1>1, <1>3, <1>4, <2>1, <3>3 DEF Numbers, Down
      <4>2. Left(n) = -overstay[n] /\ Left(n)' = -overstay'[n]
        BY <3>3, <4>1 DEF Left
      <4>3. QED
        BY <1>0, <3>1, <4>1, <4>2 DEF Numbers
    <3>4. QED
      BY <1>0, <2>1, <3>1, <3>2, <3>3 DEF Numbers
  <2>3. ASSUME pc[n] = "activate"
        PROVE  TTL <= Left(n)' + 2 * CampaignTimeout + StartTime - timer'[n]
    <3>1. timer[n] # 0
      BY <1>5, <1>8, <2>3, Zenon DEF Due
    <3>2. TTL <= Left(n) + 2 * CampaignTimeout + StartTime - timer[n]
      BY <1>8, <2>3, Zenon DEF Clock, ClockInv
    <3>3. timer'[n] = timer[n] - 1
      BY <1>0, <1>2, <3>1 DEF Down, Numbers
    <3>4. QED
      BY <1>0, <2>2, <3>2, <3>3 DEF Numbers
  <2>4. deadline'[n] <= Left(n)' + OverstayBound
    <3>1. deadline[n] <= Left(n) + OverstayBound
      BY <1>8, Zenon DEF Clock, ClockInv
    <3>2. CASE deadline[n] = 0
      <4>1. pc[n] = "activate"
        BY <1>5, <1>8, <3>2, Zenon DEF Due, Holding
      <4>2. timer'[n] \in Nat
        BY <1>0, <1>2 DEF Down, Numbers
      <4>3. deadline'[n] = 0
        BY <1>2, <3>2 DEF Down
      <4>4. QED
        BY <1>0, <2>2, <2>3, <4>1, <4>2, <4>3, BoundFacts DEF Numbers
    <3>3. CASE deadline[n] # 0
      <4>1. deadline'[n] = deadline[n] - 1
        BY <1>0, <1>2, <3>3 DEF Down, Numbers
      <4>2. QED
        BY <1>0, <2>2, <3>1, <4>1, BoundFacts DEF Numbers
    <3>4. QED
      BY <3>2, <3>3, Zenon
  <2>5. answer'[n] # NoAnswer => TTL + answer'[n] <= Left(n)' + MaxDelay
    <3>1. CASE answer[n] = NoAnswer
      BY <1>2, <3>1 DEF Down, NoAnswer
    <3>2. CASE answer[n] # NoAnswer
      <4>1. answer[n] # 0 /\ answer[n] \in Nat
        BY <1>0, <1>5, <1>8, <3>2, Zenon DEF Due, Numbers
      <4>2. TTL + answer[n] <= Left(n) + MaxDelay
        BY <1>8, <3>2, Zenon DEF Clock, ClockInv
      <4>3. answer'[n] = answer[n] - 1
        BY <1>2, <4>1 DEF Down
      <4>4. QED
        BY <1>0, <2>2, <4>1, <4>2, <4>3 DEF Numbers
    <3>3. QED
      BY <3>1, <3>2, Zenon
  <2>6. overstay'[n] <= OverstayBound
    <3>1. deadline'[n] \in Nat
      BY <1>0, <1>2 DEF Down, Numbers
    <3>2. CASE ttl[lease[n]] > 0
      BY <1>0, <1>4, <2>1, <3>2, BoundFacts DEF Numbers
    <3>3. CASE ttl[lease[n]] = 0
      <4>1. Left(n)' = -overstay'[n]
        BY <1>1, <1>3, <2>1, <3>3 DEF Left, Down
      <4>2. QED
        BY <2>2, <2>4, <3>1, <4>1, BoundFacts
    <3>4. QED
      BY <1>0, <2>1, <3>2, <3>3 DEF Numbers
  <2>7. Clock(n)'
    BY <1>1, <1>8, <2>3, <2>4, <2>5, Zenon DEF Clock, Holding
  <2>8. QED
    BY <2>6, <2>7, Zenon
<1>9. QED
  BY <1>6, <1>7, <1>8, Zenon

\* The clocks agree when the controllers are down.
LEMMA InitClock == Init => ClockInv
<1> SUFFICES ASSUME Init, NEW n \in Node PROVE Clock(n) /\ overstay[n] <= OverstayBound
  BY Zenon DEF ClockInv
<1>1. pc[n] = "down" /\ ~active[n] /\ answer[n] = NoAnswer /\ overstay[n] = 0
  BY Zenon DEF Init
<1>2. Clock(n)
  BY <1>1, Zenon DEF Clock, Holding
<1>3. QED
  BY <1>1, <1>2, BoundFacts, ElectionAssumption

\* Every step of the election keeps the clocks in agreement.
LEMMA NextClock == IndInv /\ Typed /\ ClockInv /\ [Next]_vars => ClockInv'
<1> SUFFICES ASSUME IndInv, Typed, ClockInv, [Next]_vars PROVE ClockInv'
  BY Zenon
<1>1. CASE UNCHANGED vars
  BY <1>1, ZenonT(40) DEF vars, etcdVars, clockVars, ClockInv, Clock, Left, Holding
<1>2. ASSUME NEW l \in Lease, LateTxn(l) PROVE ClockInv'
  BY <1>2, Zenon DEF LateTxn, clockVars, ClockInv, Clock, Left, Holding
<1>3. ASSUME NEW n \in Node, LoopStep(n) PROVE ClockInv'
  BY <1>3, CampaignClock, ReleaseClock, HoldClock, Zenon DEF LoopStep
<1>4. ASSUME NEW n \in Node, FaultStep(n) PROVE ClockInv'
  BY <1>4, CampaignClock, HoldClock, EndClock, Zenon DEF FaultStep
<1>5. ASSUME NEW n \in Node, Renew(n) \/ Answer(n) \/ Start(n) \/ Exit(n) PROVE ClockInv'
  BY <1>5, CampaignClock, HoldClock, EndClock, Zenon
<1>6. QED
  BY <1>1, <1>2, <1>3, <1>4, <1>5, TickClock, Zenon DEF Next

\* A controller whose lease is gone stays the leader for OverstayBound ticks at most
\* (holdLeadership, the keep-alive of the etcd client), for all timeouts and delays.
THEOREM StaleLeaderYields == Spec => []OverstayBounded
<1>1. ClockInv => OverstayBounded
  BY BoundFacts, Zenon DEF ClockInv, OverstayBounded
<1>2. QED
  BY <1>1, InitInv, NextInv, TypedInit, NextTyped, InitClock, NextClock, PTL DEF Spec
=============================================================================
