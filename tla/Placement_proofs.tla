--------------------------- MODULE Placement_proofs --------------------------
(***************************************************************************)
(* The invariants of Placement for any workloads, nodes and telemetry.     *)
(*                                                                         *)
(* MovesBounded: the count that shouldAutoRemediateLocked reads is the     *)
(* number of moves that were made: requeues, new placements and deferrals  *)
(* leave the runtime state, and Complete and Delete end it with the        *)
(* workload.                                                               *)
(*                                                                         *)
(* ReservedExact and NoOvercommit: through a cycle Reserved stays the sum  *)
(* of what is placed, and Reserved and Available together stay what they   *)
(* were when Reserved was counted, the larger of what telemetry leaves     *)
(* free and what the node carried.                                         *)
(***************************************************************************)
EXTENDS Placement, FiniteSetTheorems, TLAPS

MovesCounted ==
  /\ moved \in [Workload -> 0 .. MaxPerWorkload]
  /\ history = moved

\* Nothing is moved before it is submitted.
LEMMA InitMoves == Init => MovesCounted
  BY PlacementAssumption DEF Init, MovesCounted

\* Only Remediate and Remove touch the counts.
LEMMA NextMoves == MovesCounted /\ [Next]_vars => MovesCounted'
<1> SUFFICES ASSUME MovesCounted, [Next]_vars PROVE MovesCounted'
  BY Zenon
<1> DEFINE Same == moved' = moved /\ history' = history
<1>0. Same => MovesCounted'
  BY Zenon DEF MovesCounted
<1>1. CASE UNCHANGED vars
  BY <1>0, <1>1, Zenon DEF vars, wlVars, histVars
<1>2. CASE Start \/ Stop \/ ReconcileNow \/ Receive \/ Tick
  BY <1>0, <1>2, Zenon DEF Start, Stop, ReconcileNow, Receive, Tick, wlVars, histVars
<1>3. CASE BeginLoop \/ BeginNow
  BY <1>0, <1>3, Zenon DEF BeginLoop, BeginNow, Begin, Requeue, histVars
<1>4. CASE CollectPending \/ Finish
  BY <1>0, <1>4, Zenon DEF CollectPending, Finish, wlVars, histVars
<1>5. ASSUME NEW w \in Workload, Call(w) PROVE MovesCounted'
  <2>1. CASE Submit(w)
    BY <1>0, <2>1, Zenon DEF Submit
  <2>2. ASSUME NEW s, Remove(w, s) PROVE MovesCounted'
    BY <2>2, PlacementAssumption DEF Remove, MovesCounted
  <2>3. QED
    BY <1>5, <2>1, <2>2, Zenon DEF Call, Complete, Delete
<1>6. ASSUME NEW w \in Workload, Elapse(w) PROVE MovesCounted'
  BY <1>0, <1>6, Zenon DEF Elapse, histVars
<1>7. ASSUME NEW w \in Workload, Pass(w) PROVE MovesCounted'
  <2>1. CASE Remediate(w)
    <3>1. moved[w] < MaxPerWorkload
      BY <2>1, Zenon DEF Remediate, Remediable
    <3>2. /\ moved' = [moved EXCEPT ![w] = moved[w] + 1]
          /\ history' = [history EXCEPT ![w] = history[w] + 1]
      BY <2>1, Zenon DEF Remediate
    <3>3. QED
      BY <3>1, <3>2, PlacementAssumption DEF MovesCounted
  <2>2. CASE LeaveRunning(w) \/ Defer(w) \/ Place(w) \/ CannotPlace(w)
    BY <1>0, <2>2, Zenon DEF LeaveRunning, Defer, Place, CannotPlace, histVars
  <2>3. QED
    BY <1>7, <2>1, <2>2, Zenon DEF Pass
<1>8. QED
  BY <1>1, <1>2, <1>3, <1>4, <1>5, <1>6, <1>7, Zenon DEF Next

\* A workload is moved for its latency at most MaxPerWorkload times between its submission
\* and its removal (shouldAutoRemediateLocked).
THEOREM MovesAlwaysBounded == Spec => []MovesBounded
<1>1. MovesCounted => MovesBounded
  BY PlacementAssumption DEF MovesCounted, MovesBounded
<1>2. QED
  BY <1>1, InitMoves, NextMoves, PTL DEF Spec

-----------------------------------------------------------------------------
(* Load is a sum over the workloads, kept by adding and subtracting what a *)
(* step changes: a sum over a finite set does not depend on the order its  *)
(* elements are taken in.  Each proof takes a minimal set for which the    *)
(* claim fails.                                                            *)

\* A collection of finite sets has a member without a smaller one.
LEMMA MinimalSet ==
  ASSUME NEW C, C # {}, \A T \in C : IsFiniteSet(T)
  PROVE  \E T \in C : \A U \in C : U \subseteq T => U = T
<1> DEFINE S == UNION C
<1>1. C \subseteq FiniteSubsetsOf(S)
  BY DEF FiniteSubsetsOf
<1>2. IsWellFoundedOn(StrictSubsetOrdering(S), FiniteSubsetsOf(S))
  BY FS_StrictSubsetOrderingWellFounded
<1>3. \E T \in C : \A U \in C : <<U, T>> \notin StrictSubsetOrdering(S)
  BY <1>1, <1>2, WFMin, Zenon
<1>4. PICK T \in C : \A U \in C : <<U, T>> \notin StrictSubsetOrdering(S)
  BY <1>3, Zenon
<1>5. ASSUME NEW U \in C, U \subseteq T, U # T PROVE FALSE
  <2>1. <<U, T>> \in (SUBSET S) \X (SUBSET S)
    OBVIOUS
  <2>2. <<U, T>> \in StrictSubsetOrdering(S)
    BY <2>1, <1>5 DEF StrictSubsetOrdering
  <2>3. QED
    BY <2>2, <1>4, <1>5, Zenon
<1>6. QED
  BY <1>5

-----------------------------------------------------------------------------
(* The recursive function behind SumFunctionOnSet. *)

Some(s) == CHOOSE x \in s : TRUE
Rest(s) == s \ {Some(s)}
Unfold(f, S, g) == [s \in SUBSET S |-> IF s = {} THEN 0 ELSE f[Some(s)] + g[Rest(s)]]
Solves(g, f, S) == g = Unfold(f, S, g)

\* The element that is taken is one of the set.
LEMMA RestSmaller ==
  ASSUME NEW s, s # {}
  PROVE  Some(s) \in s /\ Rest(s) \subseteq s /\ Rest(s) # s /\ s = Rest(s) \cup {Some(s)}
<1>1. Some(s) \in s
  BY DEF Some
<1>2. QED
  BY <1>1 DEF Rest

\* Two solutions agree where both are defined.
LEMMA SolutionsAgree ==
  ASSUME NEW f, NEW S, NEW T, IsFiniteSet(S), NEW g, NEW h, Solves(g, f, S), Solves(h, f, T),
         NEW u, u \subseteq S, u \subseteq T
  PROVE  g[u] = h[u]
<1> DEFINE C == {s \in SUBSET (S \cap T) : g[s] # h[s]}
<1> SUFFICES C = {}
  OBVIOUS
<1>1. SUFFICES ASSUME C # {} PROVE FALSE
  OBVIOUS
<1>2. \A s \in C : IsFiniteSet(s)
  BY FS_Subset
<1>3. PICK s \in C : \A v \in C : v \subseteq s => v = s
  <2> HIDE DEF C
  <2> QED
    BY <1>1, <1>2, MinimalSet
<1>4. /\ g[s] = IF s = {} THEN 0 ELSE f[Some(s)] + g[Rest(s)]
      /\ h[s] = IF s = {} THEN 0 ELSE f[Some(s)] + h[Rest(s)]
  BY Zenon DEF Solves, Unfold
<1>5. s # {} /\ g[Rest(s)] # h[Rest(s)]
  BY <1>4
<1>6. Rest(s) \in C
  BY <1>5, RestSmaller
<1>7. QED
  BY <1>3, <1>5, <1>6, RestSmaller

\* There is a solution on every finite set.
LEMMA SolutionExists ==
  ASSUME NEW f, NEW S, IsFiniteSet(S)
  PROVE  \E g : Solves(g, f, S)
<1> DEFINE C == {T \in SUBSET S : ~ \E g : Solves(g, f, T)}
<1> SUFFICES C = {}
  OBVIOUS
<1>1. SUFFICES ASSUME C # {} PROVE FALSE
  OBVIOUS
<1>2. \A T \in C : IsFiniteSet(T)
  BY FS_Subset
<1>3. PICK T \in C : \A U \in C : U \subseteq T => U = T
  <2> HIDE DEF C
  <2> QED
    BY <1>1, <1>2, MinimalSet
<1> DEFINE Sol(s) == CHOOSE h : Solves(h, f, s)
           g == [s \in SUBSET T |-> IF s = {} THEN 0 ELSE f[Some(s)] + Sol(Rest(s))[Rest(s)]]
<1>4. ASSUME NEW s \in SUBSET T, s # T PROVE Solves(Sol(s), f, s)
  <2>1. \E h : Solves(h, f, s)
    BY <1>3, <1>4
  <2>2. QED
    BY <2>1
<1>5. ASSUME NEW s \in SUBSET T, s # T PROVE g[s] = Sol(s)[s]
  <2>1. Sol(s)[s] = IF s = {} THEN 0 ELSE f[Some(s)] + Sol(s)[Rest(s)]
    <3>1. Sol(s) = Unfold(f, s, Sol(s))
      BY <1>4, <1>5 DEF Solves
    <3> HIDE DEF Sol
    <3>2. QED
      BY <3>1, Zenon DEF Unfold
  <2>2. ASSUME s # {} PROVE Sol(s)[Rest(s)] = Sol(Rest(s))[Rest(s)]
    <3>1. Rest(s) \in SUBSET T /\ Rest(s) # T /\ Rest(s) \subseteq s
      BY <2>2, RestSmaller
    <3>2. Solves(Sol(s), f, s) /\ Solves(Sol(Rest(s)), f, Rest(s))
      BY <3>1, <1>4, <1>5
    <3>3. IsFiniteSet(s)
      BY <1>2, FS_Subset
    <3> HIDE DEF Sol
    <3>4. QED
      BY <3>1, <3>2, <3>3, SolutionsAgree
  <2> HIDE DEF Sol
  <2>3. QED
    BY <2>1, <2>2
<1>6. Solves(g, f, T)
  <2>1. ASSUME NEW s \in SUBSET T, s # {} PROVE Sol(Rest(s))[Rest(s)] = g[Rest(s)]
    <3>1. Rest(s) \in SUBSET T /\ Rest(s) # T
      BY <2>1, RestSmaller
    <3> HIDE DEF Sol, g
    <3>2. QED
      BY <3>1, <1>5
  <2> HIDE DEF Sol
  <2>2. g = [s \in SUBSET T |-> IF s = {} THEN 0 ELSE f[Some(s)] + Sol(Rest(s))[Rest(s)]]
    BY Zenon
  <2> HIDE DEF g
  <2>3. ASSUME NEW s \in SUBSET T
        PROVE (IF s = {} THEN 0 ELSE f[Some(s)] + Sol(Rest(s))[Rest(s)])
                = (IF s = {} THEN 0 ELSE f[Some(s)] + g[Rest(s)])
    BY <2>1
  <2>4. g = [s \in SUBSET T |-> IF s = {} THEN 0 ELSE f[Some(s)] + g[Rest(s)]]
    BY <2>2, <2>3, Zenon
  <2>5. QED
    BY <2>4, Zenon DEF Solves, Unfold
<1>7. QED
  BY <1>6, <1>3

-----------------------------------------------------------------------------
(* SumFunctionOnSet. *)

\* The sum over a set is that of the element taken first and of the others.
LEMMA SumStep ==
  ASSUME NEW f, NEW S, IsFiniteSet(S)
  PROVE  SumFunctionOnSet(f, S)
           = IF S = {} THEN 0 ELSE f[Some(S)] + SumFunctionOnSet(f, Rest(S))
<1> DEFINE Sol(s) == CHOOSE h : Solves(h, f, s)
<1>1. \A s : SumFunctionOnSet(f, s) = Sol(s)[s]
  BY Zenon DEF SumFunctionOnSet, FoldFunctionOnSet, MapThenFoldSet, Solves, Unfold, Some, Rest
<1>2. Solves(Sol(S), f, S)
  BY SolutionExists, Zenon
<1>3. ASSUME S # {} PROVE Solves(Sol(Rest(S)), f, Rest(S)) /\ Rest(S) \subseteq S
  <2>1. Rest(S) \subseteq S /\ IsFiniteSet(Rest(S))
    BY <1>3, RestSmaller, FS_Subset
  <2>2. QED
    BY <2>1, SolutionExists, Zenon
<1> HIDE DEF Sol
<1>4. Sol(S)[S] = IF S = {} THEN 0 ELSE f[Some(S)] + Sol(S)[Rest(S)]
  BY <1>2, Zenon DEF Solves, Unfold
<1>5. ASSUME S # {} PROVE Sol(S)[Rest(S)] = Sol(Rest(S))[Rest(S)]
  <2>1. Rest(S) \subseteq S /\ Rest(S) \subseteq Rest(S) /\ Solves(Sol(Rest(S)), f, Rest(S))
    BY <1>3, <1>5
  <2>2. ASSUME NEW g, NEW h, NEW R, Solves(g, f, S), Solves(h, f, R), R \subseteq S
        PROVE g[R] = h[R]
    <3>1. R \subseteq R
      OBVIOUS
    <3>2. QED
      BY <2>2, <3>1, SolutionsAgree
  <2>3. QED
    BY <2>1, <2>2, <1>2, Zenon
<1>6. QED
  BY <1>1, <1>4, <1>5, Zenon

\* The sum over no element is 0.
LEMMA SumEmpty == ASSUME NEW f PROVE SumFunctionOnSet(f, {}) = 0
  BY SumStep, FS_EmptySet, Zenon

\* A sum of natural numbers is one.
LEMMA SumNat ==
  ASSUME NEW f, NEW S, IsFiniteSet(S), \A x \in S : f[x] \in Nat
  PROVE  SumFunctionOnSet(f, S) \in Nat
<1> DEFINE C == {T \in SUBSET S : SumFunctionOnSet(f, T) \notin Nat}
<1> SUFFICES C = {}
  OBVIOUS
<1>1. SUFFICES ASSUME C # {} PROVE FALSE
  OBVIOUS
<1>2. \A T \in C : IsFiniteSet(T)
  BY FS_Subset
<1>3. PICK T \in C : \A U \in C : U \subseteq T => U = T
  <2> HIDE DEF C
  <2> QED
    BY <1>1, <1>2, MinimalSet
<1>4. SumFunctionOnSet(f, T) = IF T = {} THEN 0 ELSE f[Some(T)] + SumFunctionOnSet(f, Rest(T))
  BY <1>2, SumStep, Zenon
<1>5. T # {}
  BY <1>4
<1>6. Some(T) \in S /\ Rest(T) \subseteq T /\ Rest(T) # T /\ Rest(T) \subseteq S
  BY <1>5, RestSmaller
<1>7. SumFunctionOnSet(f, Rest(T)) \in Nat
  BY <1>6, <1>3
<1>8. QED
  BY <1>4, <1>5, <1>6, <1>7

\* Any element can be taken first.
LEMMA SumRemove ==
  ASSUME NEW f, NEW S, IsFiniteSet(S), \A x \in S : f[x] \in Nat, NEW y \in S
  PROVE  SumFunctionOnSet(f, S) = f[y] + SumFunctionOnSet(f, S \ {y})
<1> DEFINE C == {T \in SUBSET S :
                   \E z \in T : SumFunctionOnSet(f, T) # f[z] + SumFunctionOnSet(f, T \ {z})}
<1> SUFFICES C = {}
  OBVIOUS
<1>1. SUFFICES ASSUME C # {} PROVE FALSE
  OBVIOUS
<1>2. \A T \in C : IsFiniteSet(T)
  BY FS_Subset
<1>3. PICK T \in C : \A U \in C : U \subseteq T => U = T
  <2> HIDE DEF C
  <2> QED
    BY <1>1, <1>2, MinimalSet
<1>4. PICK z \in T : SumFunctionOnSet(f, T) # f[z] + SumFunctionOnSet(f, T \ {z})
  OBVIOUS
<1> DEFINE x == Some(T)
<1>5. x \in T /\ Rest(T) = T \ {x}
  BY RestSmaller DEF Rest
<1>6. SumFunctionOnSet(f, T) = f[x] + SumFunctionOnSet(f, T \ {x})
  <2>1. T # {} /\ IsFiniteSet(T)
    BY <1>2, <1>4
  <2>2. SumFunctionOnSet(f, T) = f[Some(T)] + SumFunctionOnSet(f, Rest(T))
    BY <2>1, SumStep, Zenon
  <2>3. QED
    BY <2>2, <1>5, Zenon
<1> HIDE DEF x
<1>7. x # z
  BY <1>4, <1>6
<1>8. SumFunctionOnSet(f, T \ {x}) = f[z] + SumFunctionOnSet(f, (T \ {x}) \ {z})
  <2>1. T \ {x} \notin C
    BY <1>3, <1>5, Zenon
  <2>2. QED
    BY <2>1, <1>4, <1>7, Zenon
<1>9. SumFunctionOnSet(f, T \ {z}) = f[x] + SumFunctionOnSet(f, (T \ {z}) \ {x})
  <2>1. T \ {z} \notin C
    BY <1>3, <1>4
  <2>2. QED
    BY <2>1, <1>5, <1>7, Zenon
<1>10. (T \ {x}) \ {z} = (T \ {z}) \ {x}
  OBVIOUS
<1>11. f[x] \in Nat /\ f[z] \in Nat /\ SumFunctionOnSet(f, (T \ {z}) \ {x}) \in Nat
  <2>1. IsFiniteSet((T \ {z}) \ {x})
    BY <1>2, FS_Subset
  <2>2. QED
    BY <2>1, <1>5, SumNat
<1> DEFINE r == SumFunctionOnSet(f, (T \ {z}) \ {x})
<1>12. SumFunctionOnSet(f, T) = f[x] + (f[z] + r)
  BY <1>6, <1>8, <1>10, Zenon
<1>13. SumFunctionOnSet(f, T) # f[z] + (f[x] + r)
  BY <1>4, <1>9, Zenon
<1>14. f[x] + (f[z] + r) = f[z] + (f[x] + r)
  <2> HIDE DEF r, C
  <2> QED
    BY <1>11 DEF r
<1>15. QED
  BY <1>12, <1>13, <1>14, Zenon

\* The sum depends on the values at the elements only.
LEMMA SumSame ==
  ASSUME NEW f, NEW g, NEW S, IsFiniteSet(S), \A x \in S : f[x] = g[x]
  PROVE  SumFunctionOnSet(f, S) = SumFunctionOnSet(g, S)
<1> DEFINE C == {T \in SUBSET S : SumFunctionOnSet(f, T) # SumFunctionOnSet(g, T)}
<1> SUFFICES C = {}
  OBVIOUS
<1>1. SUFFICES ASSUME C # {} PROVE FALSE
  OBVIOUS
<1>2. \A T \in C : IsFiniteSet(T)
  BY FS_Subset
<1>3. PICK T \in C : \A U \in C : U \subseteq T => U = T
  <2> HIDE DEF C
  <2> QED
    BY <1>1, <1>2, MinimalSet
<1>4. /\ SumFunctionOnSet(f, T) = IF T = {} THEN 0 ELSE f[Some(T)] + SumFunctionOnSet(f, Rest(T))
      /\ SumFunctionOnSet(g, T) = IF T = {} THEN 0 ELSE g[Some(T)] + SumFunctionOnSet(g, Rest(T))
  BY <1>2, SumStep
<1>5. T # {}
  BY <1>4
<1>6. Some(T) \in S /\ Rest(T) \subseteq T /\ Rest(T) # T /\ Rest(T) \subseteq S
  BY <1>5, RestSmaller
<1>7. SumFunctionOnSet(f, Rest(T)) = SumFunctionOnSet(g, Rest(T))
  BY <1>6, <1>3
<1>8. QED
  BY <1>4, <1>5, <1>6, <1>7

\* Two functions that differ at one element have sums that differ as much.
LEMMA SumChange ==
  ASSUME NEW f, NEW g, NEW S, IsFiniteSet(S), \A x \in S : f[x] \in Nat /\ g[x] \in Nat,
         NEW y \in S, \A x \in S \ {y} : f[x] = g[x]
  PROVE  SumFunctionOnSet(g, S) + f[y] = SumFunctionOnSet(f, S) + g[y]
<1>1. IsFiniteSet(S \ {y})
  BY FS_Subset
<1>2. SumFunctionOnSet(f, S \ {y}) = SumFunctionOnSet(g, S \ {y})
  BY <1>1, SumSame
<1>3. SumFunctionOnSet(f, S \ {y}) \in Nat
  BY <1>1, SumNat
<1>4. /\ SumFunctionOnSet(f, S) = f[y] + SumFunctionOnSet(f, S \ {y})
      /\ SumFunctionOnSet(g, S) = g[y] + SumFunctionOnSet(g, S \ {y})
  BY SumRemove
<1>5. QED
  BY <1>2, <1>3, <1>4

-----------------------------------------------------------------------------
(* What is placed on a node. *)

\* Every workload has no assignments, or one for each of its partitions.
Assigned(w, s) == s = <<>> \/ s \in [1 .. Parts[w] -> Node]
Assignments(p) == \A w \in Workload : Assigned(w, p[w])

\* Assignments take a number of units of a node, and no assignments take none.
LEMMA TakesNat ==
  ASSUME NEW w \in Workload, NEW s, Assigned(w, s), NEW n
  PROVE  Takes(w, s, n) \in Nat /\ (s = <<>> => Takes(w, s, n) = 0)
<1> DEFINE P == {p \in DOMAIN s : s[p] = n}
<1>0. Req[w] \in Nat /\ Parts[w] \in Nat
  BY PlacementAssumption, Zenon
<1>1. CASE s = <<>>
  <2>1. P = {}
    BY <1>1
  <2>2. Cardinality(P) = 0
    BY <2>1, FS_EmptySet, Zenon
  <2> HIDE DEF P
  <2>3. Req[w] * Cardinality(P) = 0
    BY <2>2, <1>0
  <2>4. QED
    BY <2>3 DEF Takes, P
<1>2. CASE s \in [1 .. Parts[w] -> Node] /\ s # <<>>
  <2>1. P \subseteq 1 .. Parts[w]
    BY <1>2, Zenon
  <2>2. IsFiniteSet(1 .. Parts[w])
    <3> DEFINE m == Parts[w]
    <3>1. m \in Nat
      BY <1>0, Zenon
    <3> HIDE DEF m
    <3>2. IsFiniteSet(1 .. m)
      BY <3>1, FS_Interval
    <3>3. QED
      BY <3>2, Zenon DEF m
  <2>3. Cardinality(P) \in Nat
    BY <2>1, <2>2, FS_Subset, FS_CardinalityType, Zenon
  <2> HIDE DEF P
  <2>4. Req[w] * Cardinality(P) \in Nat
    BY <2>3, <1>0
  <2>5. QED
    BY <2>4, <1>2, Zenon DEF Takes, P
<1>3. QED
  BY <1>1, <1>2, Zenon DEF Assigned

\* The load of a node as a sum over the workloads.
Shares(p, n) == [w \in Workload |-> Takes(w, p[w], n)]
LEMMA LoadIsSum ==
  ASSUME NEW p, NEW n
  PROVE  Load(p, n) = SumFunctionOnSet(Shares(p, n), Workload)
<1>1. DOMAIN Shares(p, n) = Workload
  BY Zenon DEF Shares
<1>2. Load(p, n) = FoldFunctionOnSet(+, 0, Shares(p, n), DOMAIN Shares(p, n))
  BY Zenon DEF Load, Sum, FoldFunction, Shares
<1>3. QED
  BY <1>1, <1>2, Zenon DEF SumFunctionOnSet

\* A load is a number, at least what one workload takes.
LEMMA LoadNat ==
  ASSUME NEW p, Assignments(p), NEW n
  PROVE  Load(p, n) \in Nat /\ \A w \in Workload : Takes(w, p[w], n) <= Load(p, n)
<1> DEFINE f == Shares(p, n)
<1>1. \A w \in Workload : f[w] = Takes(w, p[w], n) /\ f[w] \in Nat
  BY TakesNat, Zenon DEF Shares, Assignments
<1>2. IsFiniteSet(Workload)
  BY PlacementAssumption, Zenon
<1> HIDE DEF f
<1>3. SumFunctionOnSet(f, Workload) \in Nat
  BY <1>1, <1>2, SumNat, Zenon
<1>4. ASSUME NEW w \in Workload PROVE f[w] <= SumFunctionOnSet(f, Workload)
  <2>1. SumFunctionOnSet(f, Workload) = f[w] + SumFunctionOnSet(f, Workload \ {w})
    BY <1>1, <1>2, SumRemove
  <2>2. IsFiniteSet(Workload \ {w})
    BY <1>2, FS_Subset, Zenon
  <2>3. SumFunctionOnSet(f, Workload \ {w}) \in Nat
    BY <2>2, <1>1, SumNat, Zenon
  <2>4. QED
    BY <2>1, <2>3, <1>1
<1>5. QED
  BY <1>1, <1>3, <1>4, LoadIsSum, Zenon DEF f

\* When one workload is assigned anew, a load changes by what it takes.
LEMMA LoadChange ==
  ASSUME NEW p, NEW q, Assignments(p), Assignments(q), NEW n, NEW w \in Workload,
         \A u \in Workload \ {w} : q[u] = p[u]
  PROVE  Load(q, n) + Takes(w, p[w], n) = Load(p, n) + Takes(w, q[w], n)
<1> DEFINE f == Shares(p, n)
           g == Shares(q, n)
<1>1. \A u \in Workload : f[u] = Takes(u, p[u], n) /\ f[u] \in Nat
  BY TakesNat, Zenon DEF Shares, Assignments
<1>2. \A u \in Workload : g[u] = Takes(u, q[u], n) /\ g[u] \in Nat
  BY TakesNat, Zenon DEF Shares, Assignments
<1>3. IsFiniteSet(Workload)
  BY PlacementAssumption, Zenon
<1> HIDE DEF f, g
<1>4. \A u \in Workload \ {w} : f[u] = g[u]
  BY <1>1, <1>2, Zenon
<1>5. SumFunctionOnSet(g, Workload) + f[w] = SumFunctionOnSet(f, Workload) + g[w]
  BY <1>1, <1>2, <1>3, <1>4, SumChange
<1>6. Load(p, n) = SumFunctionOnSet(f, Workload) /\ Load(q, n) = SumFunctionOnSet(g, Workload)
  BY LoadIsSum, Zenon DEF f, g
<1>7. QED
  BY <1>1, <1>2, <1>5, <1>6, Zenon

-----------------------------------------------------------------------------
(* The inductive invariant. *)

Shape ==
  /\ at = [w \in Workload |-> at[w]] /\ carried \in [Node -> Nat]
  /\ view \in [Node -> [healthy : BOOLEAN, free : Nat, lat : Nat \ {0}]]
  /\ byLoop => phase # "idle"

\* What a pass has still to come to runs, or is pending.
Listed ==
  /\ phase = "evaluate" => \A w \in todo : state[w] = "running"
  /\ phase = "place" => todo \subseteq Pending

\* The larger of what telemetry leaves free and what the node carried.
Room(n) == carried[n] + Max0(view[n].free - carried[n])

\* In a cycle Reserved is what is placed, and with Available it makes up the room.
Balanced ==
  phase # "idle" =>
    \A n \in Node : reserved[n] = Load(at, n) /\ reserved[n] + available[n] = Room(n)

IInv == TypeOK /\ Shape /\ Listed /\ Balanced

\* Only running workloads have assignments.
LEMMA TypedAssignments == TypeOK => Assignments(at)
  BY Zenon DEF TypeOK, Assignments, Assigned

\* Nothing is registered.
LEMMA InitIInv == Init => IInv
<1> SUFFICES ASSUME Init PROVE IInv
  BY Zenon
<1>1. TypeOK
  BY PlacementAssumption DEF Init, TypeOK, Zero
<1>2. Shape
  BY DEF Init, Shape, Zero, NoView
<1>3. Listed /\ Balanced
  BY Zenon DEF Init, Listed, Balanced
<1>4. QED
  BY <1>1, <1>2, <1>3, Zenon DEF IInv

\* Steps that leave the workloads, the nodes and the cycle: the starting and stopping, and time.
LEMMA LoopSteps ==
  ASSUME IInv,
         \/ UNCHANGED vars \/ Start \/ Stop \/ ReconcileNow \/ Receive \/ Tick
         \/ \E w \in Workload : Elapse(w)
  PROVE  IInv'
<1>1. /\ UNCHANGED <<state, at, breaches, cycleVars>>
      /\ due' \in [Workload -> {"none", "far", "near", "past"}]
      /\ loop' \in {"select", "due"} /\ (byLoop' => loop' = "due")
  <2>1. CASE UNCHANGED vars
    BY <2>1, Zenon DEF vars, wlVars, loopVars, cycleVars, IInv, TypeOK
  <2>2. CASE Start \/ ReconcileNow \/ Receive \/ Tick
    BY <2>2, SMTT(40) DEF Start, ReconcileNow, Receive, Tick, wlVars, cycleVars, IInv, TypeOK
  <2>3. CASE Stop
    BY <2>3, Zenon DEF Stop, wlVars, cycleVars, IInv, TypeOK, Shape
  <2>4. ASSUME NEW w \in Workload, Elapse(w) PROVE /\ UNCHANGED <<state, at, breaches, cycleVars>>
              /\ due' \in [Workload -> {"none", "far", "near", "past"}]
              /\ loop' \in {"select", "due"} /\ (byLoop' => loop' = "due")
    <3>1. UNCHANGED <<state, at, breaches, cycleVars, loop>>
      BY <2>4, Zenon DEF Elapse, loopVars
    <3>2. due' \in [Workload -> {"none", "far", "near", "past"}]
      <4>1. Nearer["far"] = "near" /\ Nearer["near"] = "past"
        BY Zenon DEF Nearer
      <4>2. \/ due' = due
            \/ due[w] \in {"far", "near"} /\ due' = [due EXCEPT ![w] = Nearer[due[w]]]
        BY <2>4, Zenon DEF Elapse
      <4>3. QED
        BY <4>1, <4>2, ZenonT(40) DEF IInv, TypeOK
    <3>3. QED
      BY <3>1, <3>2, Zenon DEF IInv, TypeOK, cycleVars
  <2>5. QED
    BY <2>1, <2>2, <2>3, <2>4, Zenon
<1>2. TypeOK'
  BY <1>1, Zenon DEF IInv, TypeOK, cycleVars
<1>3. Shape'
  BY <1>1, Zenon DEF IInv, Shape, cycleVars
<1>4. Listed' /\ Balanced'
  BY <1>1, Zenon DEF IInv, Listed, Balanced, Pending, Room, cycleVars
<1>5. QED
  BY <1>2, <1>3, <1>4, Zenon DEF IInv

\* A call changes workloads between cycles only.
LEMMA CallSteps == ASSUME IInv, NEW w \in Workload, Call(w) PROVE IInv'
<1>1. /\ phase = "idle" /\ UNCHANGED <<loop, cycleVars>>
      /\ \/ state' = [state EXCEPT ![w] = "queued"] /\ state[w] = "none" /\ UNCHANGED <<at, breaches, due>>
         \/ \E s \in {"completed", "none"} :
              /\ state' = [state EXCEPT ![w] = s] /\ at' = [at EXCEPT ![w] = <<>>]
              /\ breaches' = [breaches EXCEPT ![w] = 0] /\ due' = [due EXCEPT ![w] = Due[w]]
  BY Zenon DEF Call, Submit, Complete, Delete, Remove, loopVars
<1>2. TypeOK'
  <2>1. CASE state' = [state EXCEPT ![w] = "queued"] /\ state[w] = "none" /\ UNCHANGED <<at, breaches, due>>
    BY <1>1, <2>1, Zenon DEF IInv, TypeOK, cycleVars
  <2>2. ASSUME NEW s \in {"completed", "none"},
               state' = [state EXCEPT ![w] = s], at' = [at EXCEPT ![w] = <<>>],
               breaches' = [breaches EXCEPT ![w] = 0], due' = [due EXCEPT ![w] = Due[w]]
        PROVE TypeOK'
    <3>1. \A u \in Workload : IF u = w THEN at'[u] = <<>> ELSE at'[u] = at[u]
      BY <2>2, Zenon DEF IInv, Shape
    <3>2. /\ state' \in [Workload -> {"none", "queued", "deferred", "running", "completed", "failed"}]
          /\ \A u \in Workload : IF u = w THEN state'[u] # "running" ELSE state'[u] = state[u]
      BY <2>2, Zenon DEF IInv, TypeOK
    <3>3. \A u \in Workload :
            IF state'[u] = "running" THEN at'[u] \in [1 .. Parts[u] -> Node] ELSE at'[u] = <<>>
      BY <3>1, <3>2, Zenon DEF IInv, TypeOK
    <3>4. /\ breaches' \in [Workload -> 0 .. SLOBreachConsecutive]
          /\ due' \in [Workload -> {"none", "far", "near", "past"}]
      <4>1. SLOBreachConsecutive \in Nat /\ Due[w] \in {"none", "far"}
        BY PlacementAssumption, Zenon
      <4>2. QED
        BY <2>2, <4>1 DEF IInv, TypeOK
    <3>5. QED
      BY <1>1, <3>2, <3>3, <3>4, Zenon DEF IInv, TypeOK, cycleVars
  <2>3. QED
    BY <1>1, <2>1, <2>2, Zenon
<1>3. Shape'
  BY <1>1, Zenon DEF IInv, Shape, cycleVars
<1>4. Listed' /\ Balanced'
  BY <1>1, Zenon DEF Listed, Balanced, cycleVars
<1>5. QED
  BY <1>2, <1>3, <1>4, Zenon DEF IInv

\* A cycle begins with what stays placed counted anew.
LEMMA BeginSteps ==
  ASSUME IInv, NEW looping, Begin(looping), loop' = loop, looping => loop = "due"
  PROVE  IInv'
<1>1. PICK v \in [Node -> Views] : view' = v /\ Requeue(v) /\ Count(v)
  BY Zenon DEF Begin
<1> DEFINE lost == {w \in Workload : Lost(v, w)}
<1>2. /\ state' = [w \in Workload |-> IF w \in lost THEN "queued" ELSE state[w]]
      /\ at' = [w \in Workload |-> IF w \in lost THEN <<>> ELSE at[w]]
      /\ breaches' = [w \in Workload |-> IF w \in lost THEN 0 ELSE breaches[w]]
      /\ due' = due
  BY <1>1, Zenon DEF Requeue
<1> HIDE DEF lost
<1>3. /\ state' \in [Workload -> {"none", "queued", "deferred", "running", "completed", "failed"}]
      /\ \A w \in Workload :
           IF state'[w] = "running" THEN at'[w] \in [1 .. Parts[w] -> Node] ELSE at'[w] = <<>>
  BY <1>2, Zenon DEF IInv, TypeOK
<1>4. at' = [w \in Workload |-> at'[w]]
  BY <1>2, Zenon
<1>5. Assignments(at')
  BY <1>3, Zenon DEF Assignments, Assigned
<1>6. /\ view' \in [Node -> [healthy : BOOLEAN, free : Nat, lat : Nat \ {0}]]
  <2>1. Views \subseteq [healthy : BOOLEAN, free : Nat, lat : Nat \ {0}]
    BY PlacementAssumption, Zenon
  <2>2. QED
    BY <1>1, <2>1, Zenon
<1>7. \A n \in Node : Load(at', n) \in Nat
  BY <1>5, LoadNat, Zenon
<1>8. /\ reserved' = [n \in Node |-> Load(at', n)] /\ view' = v
      /\ available' = [n \in Node |-> Max0(v[n].free - reserved'[n])]
      /\ carried' = reserved'
  BY <1>1, Zenon DEF Count, Begin
<1>9. \A n \in Node : view'[n].free \in Nat
  BY <1>6, Zenon
<1>10. /\ reserved' \in [Node -> Nat] /\ carried' \in [Node -> Nat]
       /\ \A n \in Node : reserved'[n] = Load(at', n)
  BY <1>7, <1>8, Zenon
<1>11. \A n \in Node : available'[n] = Max0(view'[n].free - carried'[n]) /\ available'[n] \in Nat
  BY <1>8, <1>9, <1>10 DEF Max0
<1>12. available' \in [Node -> Nat]
  BY <1>8, <1>11, Zenon
<1>13. breaches' \in [Workload -> 0 .. SLOBreachConsecutive]
  <2>1. SLOBreachConsecutive \in Nat
    BY PlacementAssumption, Zenon
  <2>2. QED
    BY <1>2, <2>1 DEF IInv, TypeOK
<1>14. /\ phase' = "evaluate" /\ byLoop' = looping
       /\ todo' = {w \in Workload : state'[w] = "running"}
  BY Zenon DEF Begin
<1>15. TypeOK'
  BY <1>2, <1>3, <1>10, <1>12, <1>13, <1>14 DEF IInv, TypeOK
<1>16. Shape' /\ Listed'
  BY <1>4, <1>6, <1>10, <1>14, Zenon DEF Shape, Listed
<1>17. Balanced'
  <2>1. ASSUME NEW n \in Node PROVE reserved'[n] + available'[n] = Room(n)'
    BY <1>8, <1>11, <1>10, Zenon DEF Room
  <2>2. QED
    BY <2>1, <1>10, Zenon DEF Balanced
<1>18. QED
  BY <1>15, <1>16, <1>17, Zenon DEF IInv

\* The two passes begin and end.
LEMMA PassEnds == ASSUME IInv, CollectPending \/ Finish PROVE IInv'
<1>1. CASE CollectPending
  <2>1. /\ UNCHANGED <<state, at, breaches, due, loop, byLoop, view, reserved, available, carried>>
        /\ phase' = "place" /\ todo' = Pending /\ phase = "evaluate"
    BY <1>1, Zenon DEF CollectPending, wlVars, loopVars
  <2>2. TypeOK' /\ Shape'
    BY <2>1, Zenon DEF IInv, TypeOK, Shape, Pending
  <2>3. Listed'
    BY <2>1, Zenon DEF Listed, Pending
  <2>4. Balanced'
    BY <2>1, Zenon DEF IInv, Balanced, Room
  <2>5. QED
    BY <2>2, <2>3, <2>4, Zenon DEF IInv
<1>2. CASE Finish
  <2>1. /\ UNCHANGED <<state, at, breaches, due, reserved, todo>>
        /\ phase' = "idle" /\ byLoop' = FALSE /\ loop' = (IF byLoop THEN "select" ELSE loop)
        /\ view' = NoView /\ available' = Zero /\ carried' = Zero
    BY <1>2, Zenon DEF Finish, wlVars
  <2>2. TypeOK' /\ Shape'
    BY <2>1 DEF IInv, TypeOK, Shape, NoView, Zero
  <2>3. Listed' /\ Balanced'
    BY <2>1, Zenon DEF Listed, Balanced
  <2>4. QED
    BY <2>2, <2>3, Zenon DEF IInv
<1>3. QED
  BY <1>1, <1>2, Zenon

\* A step of a pass that places nothing and takes nothing away.
LEMMA KeepSteps ==
  ASSUME IInv, NEW w \in Workload, LeaveRunning(w) \/ Defer(w) \/ CannotPlace(w)
  PROVE  IInv'
<1>1. /\ UNCHANGED <<at, due, loop, phase, byLoop, view, reserved, available, carried>>
      /\ todo' = todo \ {w} /\ w \in todo
  BY Zenon DEF LeaveRunning, Defer, CannotPlace, First, loopVars
<1>2. /\ \/ state' = state /\ phase = "evaluate"
         \/ phase = "place" /\ \E s \in {"deferred", "failed", "queued"} : state' = [state EXCEPT ![w] = s]
  BY Zenon DEF LeaveRunning, Defer, CannotPlace, First
<1>3. breaches' \in [Workload -> 0 .. SLOBreachConsecutive]
  <2>0. SLOBreachConsecutive \in Nat
    BY PlacementAssumption, Zenon
  <2>1. CASE LeaveRunning(w)
    <3>1. breaches' = [breaches EXCEPT ![w] = IF Breached(w) THEN Next1(breaches[w]) ELSE 0]
      BY <2>1, Zenon DEF LeaveRunning
    <3>2. breaches[w] \in 0 .. SLOBreachConsecutive
      BY Zenon DEF IInv, TypeOK
    <3>3. Next1(breaches[w]) \in 0 .. SLOBreachConsecutive
      BY <3>2, <2>0 DEF Next1
    <3>4. QED
      BY <3>1, <3>3, <2>0 DEF IInv, TypeOK
  <2>2. CASE Defer(w) \/ CannotPlace(w)
    BY <2>2, Zenon DEF Defer, CannotPlace, IInv, TypeOK
  <2>3. QED
    BY <2>1, <2>2, Zenon
<1>4. phase = "place" => state[w] \in {"queued", "deferred"}
  BY <1>1, Zenon DEF IInv, Listed, Pending
<1>5. /\ state' \in [Workload -> {"none", "queued", "deferred", "running", "completed", "failed"}]
      /\ \A u \in Workload : (state'[u] = "running") <=> (state[u] = "running")
      /\ \A u \in Workload \ {w} : state'[u] = state[u]
      /\ phase = "evaluate" => state' = state
  BY <1>2, <1>4 DEF IInv, TypeOK
<1>6. TypeOK' /\ Shape'
  BY <1>1, <1>3, <1>5, Zenon DEF IInv, TypeOK, Shape
<1>7. Listed'
  BY <1>1, <1>5, Zenon DEF IInv, Listed, Pending
<1>8. Balanced'
  BY <1>1, Zenon DEF IInv, Balanced, Room
<1>9. QED
  BY <1>6, <1>7, <1>8, Zenon DEF IInv

\* A workload gets or loses its assignments and the counts of the nodes follow.
Reassigned(w, s) ==
  /\ phase # "idle" /\ UNCHANGED <<view, carried>>
  /\ at' = [at EXCEPT ![w] = s]
  /\ reserved' = [n \in Node |-> reserved'[n]] /\ available' = [n \in Node |-> available'[n]]
  /\ \A n \in Node :
       /\ reserved'[n] + Takes(w, at[w], n) = reserved[n] + Takes(w, s, n)
       /\ available'[n] + Takes(w, s, n) = available[n] + Takes(w, at[w], n)
       /\ reserved'[n] \in Nat /\ available'[n] \in Nat

\* The sum of Reserved and Available then stays, whatever each was.
LEMMA Rebalanced ==
  ASSUME IInv, NEW w \in Workload, NEW s, Assigned(w, s), Reassigned(w, s)
  PROVE  Balanced' /\ reserved' \in [Node -> Nat] /\ available' \in [Node -> Nat]
<1>1. at'[w] = s /\ \A u \in Workload \ {w} : at'[u] = at[u]
  BY Zenon DEF IInv, Shape, Reassigned
<1>2. Assignments(at) /\ Assignments(at')
  BY <1>1, TypedAssignments, Zenon DEF IInv, Assignments
<1>3. ASSUME NEW n \in Node
      PROVE reserved'[n] = Load(at', n) /\ reserved'[n] + available'[n] = Room(n)'
  <2>1. Load(at', n) + Takes(w, at[w], n) = Load(at, n) + Takes(w, s, n)
    <3>1. ASSUME NEW p, NEW q, Assignments(p), Assignments(q), q[w] = s,
                 \A u \in Workload \ {w} : q[u] = p[u]
          PROVE Load(q, n) + Takes(w, p[w], n) = Load(p, n) + Takes(w, s, n)
      BY <3>1, LoadChange
    <3>2. QED
      BY <1>1, <1>2, <3>1, Zenon
  <2>2. /\ Takes(w, at[w], n) \in Nat /\ Takes(w, s, n) \in Nat
        /\ Load(at', n) \in Nat /\ Load(at, n) \in Nat
    BY <1>2, TakesNat, LoadNat, Zenon DEF Assignments
  <2>3. reserved[n] = Load(at, n) /\ reserved[n] + available[n] = Room(n) /\ available[n] \in Nat
    BY Zenon DEF IInv, Balanced, TypeOK, Reassigned
  <2>4. Room(n)' = Room(n)
    BY Zenon DEF Room, Reassigned
  <2>5. QED
    BY <2>1, <2>2, <2>3, <2>4 DEF Reassigned
<1>4. QED
  BY <1>3, Zenon DEF Balanced, Reassigned

\* A release takes from Reserved what was counted there, and gives it to Available.
LEMMA RemediateStep == ASSUME IInv, NEW w \in Workload, Remediate(w) PROVE IInv'
<1>1. /\ phase = "evaluate" /\ w \in todo /\ Release(w)
      /\ state' = [state EXCEPT ![w] = "queued"] /\ at' = [at EXCEPT ![w] = <<>>]
      /\ breaches' = [breaches EXCEPT ![w] = 0] /\ todo' = todo \ {w}
      /\ UNCHANGED <<due, loop, phase, byLoop, view, carried>>
  BY Zenon DEF Remediate, loopVars
<1>2. at'[w] = <<>> /\ \A u \in Workload \ {w} : at'[u] = at[u]
  BY <1>1, Zenon DEF IInv, Shape
<1>3. /\ reserved' = [n \in Node |-> Max0(reserved[n] - Takes(w, at[w], n))]
      /\ available' = [n \in Node |-> available[n] + Takes(w, at[w], n)]
  BY <1>1, Zenon DEF Release
<1>4. ASSUME NEW n \in Node
      PROVE /\ reserved'[n] + Takes(w, at[w], n) = reserved[n] + Takes(w, <<>>, n)
            /\ available'[n] + Takes(w, <<>>, n) = available[n] + Takes(w, at[w], n)
            /\ reserved'[n] \in Nat /\ available'[n] \in Nat
  <2>1. Takes(w, <<>>, n) = 0
    BY TakesNat, Zenon DEF Assigned
  <2>2. /\ Takes(w, at[w], n) \in Nat /\ Load(at, n) \in Nat
        /\ Takes(w, at[w], n) <= Load(at, n)
    BY TypedAssignments, TakesNat, LoadNat, Zenon DEF IInv, Assignments
  <2>3. reserved[n] = Load(at, n) /\ available[n] \in Nat
    BY <1>1, Zenon DEF IInv, Balanced, TypeOK
  <2>4. QED
    BY <1>3, <2>1, <2>2, <2>3, SMTT(40) DEF Max0
<1>5. Balanced' /\ reserved' \in [Node -> Nat] /\ available' \in [Node -> Nat]
  <2>1. Assigned(w, <<>>)
    BY Zenon DEF Assigned
  <2>2. reserved' = [n \in Node |-> reserved'[n]] /\ available' = [n \in Node |-> available'[n]]
    BY <1>3, Zenon
  <2>3. Reassigned(w, <<>>)
    BY <1>1, <1>4, <2>2, Zenon DEF Reassigned
  <2>4. QED
    BY <2>1, <2>3, Rebalanced, Zenon
<1>6. /\ state' \in [Workload -> {"none", "queued", "deferred", "running", "completed", "failed"}]
      /\ state'[w] = "queued" /\ \A u \in Workload \ {w} : state'[u] = state[u]
  BY <1>1, Zenon DEF IInv, TypeOK
<1>7. \A u \in Workload :
        IF state'[u] = "running" THEN at'[u] \in [1 .. Parts[u] -> Node] ELSE at'[u] = <<>>
  BY <1>2, <1>6, Zenon DEF IInv, TypeOK
<1>8. breaches' \in [Workload -> 0 .. SLOBreachConsecutive]
  <2>1. SLOBreachConsecutive \in Nat
    BY PlacementAssumption, Zenon
  <2>2. QED
    BY <1>1, <2>1 DEF IInv, TypeOK
<1>9. TypeOK'
  BY <1>1, <1>5, <1>6, <1>7, <1>8, Zenon DEF IInv, TypeOK
<1>10. Shape' /\ Listed'
  BY <1>1, <1>6, Zenon DEF IInv, TypeOK, Shape, Listed
<1>11. QED
  BY <1>5, <1>9, <1>10, Zenon DEF IInv

\* A placement takes no more of a node than is available.
LEMMA PlaceStep == ASSUME IInv, NEW w \in Workload, Place(w) PROVE IInv'
<1>1. PICK s \in Allocations(w) :
        /\ at' = [at EXCEPT ![w] = s]
        /\ reserved' = [n \in Node |-> reserved[n] + Takes(w, s, n)]
        /\ available' = [n \in Node |-> Max0(available[n] - Takes(w, s, n))]
  BY Zenon DEF Place
<1>2. /\ phase = "place" /\ w \in todo
      /\ state' = [state EXCEPT ![w] = "running"]
      /\ breaches' = [breaches EXCEPT ![w] = 0] /\ todo' = todo \ {w}
      /\ UNCHANGED <<due, loop, phase, byLoop, view, carried>>
  BY Zenon DEF Place, First, loopVars
<1>3. /\ s \in [1 .. Parts[w] -> Node]
      /\ \A p \in 1 .. Parts[w] : Takes(w, s, s[p]) <= available[s[p]]
  BY Zenon DEF Allocations
<1>4. Assigned(w, s)
  BY <1>3, Zenon DEF Assigned
<1>5. at[w] = <<>>
  BY <1>2, Zenon DEF IInv, Listed, Pending, TypeOK
<1>6. at'[w] = s /\ \A u \in Workload \ {w} : at'[u] = at[u]
  BY <1>1, Zenon DEF IInv, Shape
<1>7. ASSUME NEW n \in Node PROVE Takes(w, s, n) <= available[n]
  <2>1. CASE \E p \in 1 .. Parts[w] : s[p] = n
    BY <2>1, <1>3, Zenon
  <2>2. CASE ~ \E p \in 1 .. Parts[w] : s[p] = n
    <3>1. {p \in DOMAIN s : s[p] = n} = {}
      BY <2>2, <1>3, Zenon
    <3>2. Cardinality({p \in DOMAIN s : s[p] = n}) = 0
      BY <3>1, FS_EmptySet, Zenon
    <3>3. Takes(w, s, n) = Req[w] * 0
      BY <3>2, Zenon DEF Takes
    <3>4. Req[w] \in Nat /\ available[n] \in Nat
      BY PlacementAssumption, Zenon DEF IInv, TypeOK
    <3>5. QED
      BY <3>3, <3>4
  <2>3. QED
    BY <2>1, <2>2, Zenon
<1>8. ASSUME NEW n \in Node
      PROVE /\ reserved'[n] + Takes(w, at[w], n) = reserved[n] + Takes(w, s, n)
            /\ available'[n] + Takes(w, s, n) = available[n] + Takes(w, at[w], n)
            /\ reserved'[n] \in Nat /\ available'[n] \in Nat
  <2>1. Takes(w, at[w], n) = 0
    BY <1>5, TakesNat, Zenon DEF Assigned
  <2>2. Takes(w, s, n) \in Nat
    BY <1>4, TakesNat, Zenon
  <2>3. reserved[n] \in Nat /\ available[n] \in Nat
    BY Zenon DEF IInv, TypeOK
  <2>4. QED
    BY <1>1, <1>7, <2>1, <2>2, <2>3, SMTT(40) DEF Max0
<1>9. Balanced' /\ reserved' \in [Node -> Nat] /\ available' \in [Node -> Nat]
  <2>1. reserved' = [n \in Node |-> reserved'[n]] /\ available' = [n \in Node |-> available'[n]]
    BY <1>1, Zenon
  <2>2. Reassigned(w, s)
    BY <1>1, <1>2, <1>8, <2>1, Zenon DEF Reassigned
  <2>3. QED
    BY <1>4, <2>2, Rebalanced, Zenon
<1>10. /\ state' \in [Workload -> {"none", "queued", "deferred", "running", "completed", "failed"}]
       /\ state'[w] = "running" /\ \A u \in Workload \ {w} : state'[u] = state[u]
  BY <1>2, Zenon DEF IInv, TypeOK
<1>11. \A u \in Workload :
         IF state'[u] = "running" THEN at'[u] \in [1 .. Parts[u] -> Node] ELSE at'[u] = <<>>
  BY <1>3, <1>6, <1>10, Zenon DEF IInv, TypeOK
<1>12. breaches' \in [Workload -> 0 .. SLOBreachConsecutive]
  <2>1. SLOBreachConsecutive \in Nat
    BY PlacementAssumption, Zenon
  <2>2. QED
    BY <1>2, <2>1 DEF IInv, TypeOK
<1>13. TypeOK'
  BY <1>2, <1>9, <1>10, <1>11, <1>12, Zenon DEF IInv, TypeOK
<1>14. Shape'
  BY <1>1, <1>2, Zenon DEF IInv, TypeOK, Shape
<1>15. Listed'
  BY <1>2, <1>10, Zenon DEF IInv, Listed, Pending
<1>16. QED
  BY <1>9, <1>13, <1>14, <1>15, Zenon DEF IInv

\* Every step keeps the invariant.
LEMMA NextIInv == IInv /\ [Next]_vars => IInv'
<1> SUFFICES ASSUME IInv, [Next]_vars PROVE IInv'
  BY Zenon
<1>1. CASE \/ UNCHANGED vars \/ Start \/ Stop \/ ReconcileNow \/ Receive \/ Tick
           \/ \E w \in Workload : Elapse(w)
  BY <1>1, LoopSteps, Zenon
<1>2. CASE BeginLoop
  BY <1>2, BeginSteps, Zenon DEF BeginLoop, loopVars
<1>3. CASE BeginNow
  BY <1>3, BeginSteps, Zenon DEF BeginNow
<1>4. CASE CollectPending \/ Finish
  BY <1>4, PassEnds, Zenon
<1>5. ASSUME NEW w \in Workload, Call(w) PROVE IInv'
  BY <1>5, CallSteps, Zenon
<1>6. ASSUME NEW w \in Workload, Pass(w) PROVE IInv'
  BY <1>6, KeepSteps, RemediateStep, PlaceStep, Zenon DEF Pass
<1>7. QED
  BY <1>1, <1>2, <1>3, <1>4, <1>5, <1>6 DEF Next

\* The invariant holds in every behaviour.
LEMMA Invariance == Spec => []IInv
  BY InitIInv, NextIInv, PTL DEF Spec

\* The workloads and nodes keep their types; exactly the running workloads have assignments,
\* one for each partition (allocateWorkloadLocked, Complete, Delete).
THEOREM TypeCorrect == Spec => []TypeOK
  BY Invariance, PTL DEF IInv

\* When a reconcile is done, Reserved of every node is the sum of what the running workloads
\* take of it (releaseAssignmentsLocked, allocateWorkloadLocked).
THEOREM ReservationsAreExact == Spec => ReservedExact
<1>1. IInv /\ [Next]_vars => [Finish => \A n \in Node : reserved[n] = Load(at, n)]_vars
  BY Zenon DEF IInv, Balanced, Finish
<1>2. QED
  BY <1>1, Invariance, PTL DEF Spec, ReservedExact

\* A cycle never loads a node beyond both what telemetry leaves free and what it carried at the
\* start (allocateWorkloadLocked, releaseAssignmentsLocked).
THEOREM NeverOvercommitted == Spec => []NoOvercommit
<1>1. IInv => NoOvercommit
  <2> SUFFICES ASSUME IInv, phase = "place", NEW n \in Node
               PROVE Load(at, n) <= view[n].free \/ Load(at, n) <= carried[n]
    BY Zenon DEF NoOvercommit
  <2>1. Load(at, n) + available[n] = Room(n) /\ reserved[n] = Load(at, n)
    BY Zenon DEF IInv, Balanced
  <2>2. available[n] \in Nat /\ reserved[n] \in Nat /\ view[n].free \in Nat /\ carried[n] \in Nat
    BY Zenon DEF IInv, TypeOK, Shape
  <2>3. QED
    BY <2>1, <2>2 DEF Room, Max0
<1>2. QED
  BY <1>1, Invariance, PTL
=============================================================================
