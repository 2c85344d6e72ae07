------------------------- MODULE LeaderDuties_proofs -------------------------
(***************************************************************************)
(* Accepted and Served for any components and any number of terms: however *)
(* Controller.Stop interleaves with the callback of the election loop, no  *)
(* start is refused, and a controller that leads has every component       *)
(* running in its own term.                                                *)
(*                                                                         *)
(* Stop only ever clears flags, so what the callback found off stays off;  *)
(* that everything is on again holds as long as Stop has not begun.        *)
(***************************************************************************)
EXTENDS LeaderDuties, TLAPS

Place == 1 .. Len(Order)
HaPc == {"idle", "won", "start", "scrape", "stop", "await", "ended"}
StopPc == {"idle", "stop", "await", "ended"}
LoopPc == {"none", "new", "wait", "work"}

Shape ==
  /\ leading \in BOOLEAN /\ leaderActive \in BOOLEAN /\ stopping \in BOOLEAN
  /\ term \in 0 .. MaxTerms /\ dead \subseteq 1 .. term
  /\ pc \in [Thread -> HaPc] /\ pc["stop"] \in StopPc
  /\ pos \in [Thread -> 0 .. 2 * Len(Order)] /\ pos["ha"] \in 0 .. Len(Order)
  /\ running \in [Duty -> BOOLEAN] /\ ctx \in [Duty -> 0 .. term]
  /\ loop \in [Duty -> [Term -> LoopPc]] /\ sees \in [Duty -> [Term -> 0 .. term]]
  /\ shutdown \in BOOLEAN /\ scrapes \subseteq 1 .. term

\* Where the threads stand.
Stands ==
  /\ pc["ha"] \in {"start", "stop", "await"} => pos["ha"] \in Place
  /\ pc["stop"] \in {"stop", "await"} => pos["stop"] > 0
  /\ pc["stop"] = "idle" <=> ~stopping
  /\ pc["ha"] = "won" => term < MaxTerms
  /\ pc["ha"] \in {"start", "scrape"} \/ leaderActive => term > 0
  /\ pc["ha"] \in {"won", "stop", "await"} => ~leading /\ ~leaderActive
  /\ pc["ha"] = "idle" /\ ~leading /\ ~stopping => ~leaderActive

\* The components that no start may find running.
Off(p) ==
  \/ pc["ha"] = "won"
  \/ pc["ha"] = "idle" /\ ~leading /\ ~stopping
  \/ pc["ha"] = "start" /\ p >= pos["ha"]
  \/ pc["ha"] = "stop" /\ p < pos["ha"]
  \/ pc["ha"] = "await" /\ p <= pos["ha"]

\* The components that this term has started, while Stop has not begun.
InOffice == ~stopping /\ (pc["ha"] \in {"start", "scrape"} \/ (pc["ha"] = "idle" /\ leading))
On(p) == InOffice /\ (pc["ha"] = "start" => p < pos["ha"])

Lives(d) ==
  /\ running[d] /\ ctx[d] = term
  /\ \E t \in Term : \/ loop[d][t] \in {"new", "work"}
                     \/ loop[d][t] = "wait" /\ sees[d][t] = term

AllOff == \A p \in Place : Off(p) => ~running[Order[p]]
AllOn == \A p \in Place : On(p) => Lives(Order[p])
Office ==
  /\ InOffice => leading /\ leaderActive /\ term \notin dead
  /\ InOffice /\ pc["ha"] = "idle" => term \in scrapes

IndInv == Shape /\ Stands /\ AllOff /\ AllOn /\ Office

-----------------------------------------------------------------------------
\* Controller.Stop goes twice through the components, the callback once, and no
\* component comes twice in the order.
LEMMA Duties ==
  /\ Len(Order) \in Nat \ {0} /\ 0 .. Len(Order) + 1 \subseteq 0 .. 2 * Len(Order)
  /\ \A p \in Place : DutyAt(p) = Order[p] /\ Order[p] \in Duty
  /\ \A p \in 1 .. 2 * Len(Order) : DutyAt(p) \in Duty
  /\ \A p, q \in Place : Order[p] = Order[q] => p = q
  /\ \A d \in Duty : \E p \in Place : d = Order[p]
<1>1. Len(Order) \in Nat \ {0} /\ DOMAIN Order = Place
  BY DutiesAssumption DEF Place
<1>2. Duty = {Order[p] : p \in Place}
  BY <1>1, Zenon DEF Duty, Range
<1>3. \A p \in Place : DutyAt(p) = Order[p]
  BY <1>1 DEF DutyAt, Place
<1>4. \A p \in 1 .. 2 * Len(Order) : DutyAt(p) \in Duty
  BY <1>1, <1>2 DEF DutyAt, Place
<1>5. \A p, q \in Place : Order[p] = Order[q] => p = q
  BY <1>1, DutiesAssumption, Zenon DEF IsInjective
<1>6. QED
  BY <1>1, <1>2, <1>3, <1>4, <1>5

\* The threads by name.
LEMMA Threads == "ha" \in Thread /\ "stop" \in Thread /\ \A th \in Thread : th \in {"ha", "stop"}
  BY Zenon DEF Thread

\* A new process has started nothing.
LEMMA InitInv == ASSUME InitDuties PROVE IndInv
<1>1. /\ pc["ha"] = "idle" /\ pc["stop"] = "idle" /\ pos["ha"] = 0 /\ pos["stop"] = 0
      /\ ~leading /\ ~leaderActive /\ ~stopping /\ \A d \in Duty : ~running[d]
  BY Zenon DEF InitDuties, Thread
<1>2. Shape
  <2>1. 0 \in 0 .. Len(Order) /\ 0 \in 0 .. 2 * Len(Order) /\ 0 \in 0 .. MaxTerms
    BY Duties, DutiesAssumption
  <2>2. /\ term = 0 /\ dead = {} /\ scrapes = {} /\ shutdown = FALSE
        /\ pc \in [Thread -> HaPc] /\ pos \in [Thread -> 0 .. 2 * Len(Order)]
        /\ running \in [Duty -> BOOLEAN]
    BY <2>1, Zenon DEF InitDuties, HaPc
  <2>3. /\ ctx \in [Duty -> 0 .. 0] /\ loop \in [Duty -> [Term -> LoopPc]]
        /\ sees \in [Duty -> [Term -> 0 .. 0]]
    BY DEF InitDuties, LoopPc
  <2>4. QED
    BY <1>1, <2>1, <2>2, <2>3, Zenon DEF InitDuties, Shape, StopPc
<1>3. Stands
  BY <1>1, Zenon DEF Stands
<1>4. AllOff /\ AllOn /\ Office
  BY <1>1, Duties, Zenon DEF AllOff, AllOn, Office, On, InOffice
<1>5. QED
  BY <1>2, <1>3, <1>4, Zenon DEF IndInv

\* So has the next one, after a panic, an exit or a crash.
LEMMA ResetInv == ASSUME Reset PROVE IndInv'
<1>1. /\ pc'["ha"] = "idle" /\ pc'["stop"] = "idle" /\ pos'["ha"] = 0 /\ pos'["stop"] = 0
      /\ ~leading' /\ ~leaderActive' /\ ~stopping' /\ \A d \in Duty : ~running'[d]
  BY Zenon DEF Reset, Thread
<1>2. Shape'
  <2>1. 0 \in 0 .. Len(Order) /\ 0 \in 0 .. 2 * Len(Order) /\ 0 \in 0 .. MaxTerms
    BY Duties, DutiesAssumption
  <2>2. /\ term' = 0 /\ dead' = {} /\ scrapes' = {} /\ shutdown' = FALSE
        /\ pc' \in [Thread -> HaPc] /\ pos' \in [Thread -> 0 .. 2 * Len(Order)]
        /\ running' \in [Duty -> BOOLEAN]
    BY <2>1, Zenon DEF Reset, HaPc
  <2>3. /\ ctx' \in [Duty -> 0 .. 0] /\ loop' \in [Duty -> [Term -> LoopPc]]
        /\ sees' \in [Duty -> [Term -> 0 .. 0]]
    BY DEF Reset, LoopPc
  <2>4. QED
    BY <1>1, <2>1, <2>2, <2>3, Zenon DEF Reset, Shape, StopPc
<1>3. Stands'
  BY <1>1, Zenon DEF Stands
<1>4. AllOff' /\ AllOn' /\ Office'
  BY <1>1, Duties, Zenon DEF AllOff, AllOn, Office, On, InOffice
<1>5. QED
  BY <1>2, <1>3, <1>4, Zenon DEF IndInv

\* The callback of a won election: the components are off, and the term is new.
LEMMA ActivateInv == ASSUME IndInv, Win \/ Activate PROVE IndInv'
<1>1. CASE Win
  <2>1. /\ pc["ha"] = "idle" /\ ~leading /\ ~stopping /\ term < MaxTerms
        /\ pc' = [pc EXCEPT !["ha"] = "won"] /\ pos' = [pos EXCEPT !["ha"] = 0]
        /\ UNCHANGED <<leading, leaderActive, term, dead, stopping, running, ctx,
                       loop, sees, shutdown, scrapes>>
    BY <1>1, Zenon DEF Win, Goto, haVars, loopVars
  <2>2. /\ pc'["ha"] = "won" /\ pc'["stop"] = pc["stop"]
        /\ pos'["ha"] = 0 /\ pos'["stop"] = pos["stop"]
    BY <2>1, Threads, Zenon DEF IndInv, Shape
  <2>3. Shape'
    BY <2>1, <2>2, Duties DEF IndInv, Shape, HaPc
  <2>4. Stands'
    BY <2>1, <2>2, Zenon DEF IndInv, Stands
  <2>5. AllOff'
    BY <2>1, Zenon DEF IndInv, AllOff, Off
  <2>6. AllOn' /\ Office'
    BY <2>2, Zenon DEF AllOn, On, InOffice, Office
  <2>7. QED
    BY <2>3, <2>4, <2>5, <2>6, Zenon DEF IndInv
<1>2. CASE Activate
  <2>1. pc["ha"] = "won" /\ ~leaderActive /\ term < MaxTerms
    BY <1>2, Zenon DEF Activate, IndInv, Stands
  <2>2. /\ pc' = [pc EXCEPT !["ha"] = "start"] /\ pos' = [pos EXCEPT !["ha"] = 1]
        /\ leading' = TRUE /\ leaderActive' = TRUE /\ term' = term + 1
        /\ UNCHANGED <<dead, stopping, running, ctx, loop, sees, shutdown, scrapes>>
    BY <1>2, <2>1, Zenon DEF Activate, Goto, loopVars
  <2>3. /\ pc'["ha"] = "start" /\ pc'["stop"] = pc["stop"]
        /\ pos'["ha"] = 1 /\ pos'["stop"] = pos["stop"]
    BY <2>2, Threads, Zenon DEF IndInv, Shape
  <2>4. /\ term' \in 0 .. MaxTerms /\ term' > 0 /\ dead \subseteq 1 .. term'
        /\ 0 .. term \subseteq 0 .. term' /\ 1 .. term \subseteq 1 .. term' /\ term' \notin dead
    BY <2>1, <2>2, DutiesAssumption DEF IndInv, Shape
  <2>5. Shape'
    <3>1. /\ pc' \in [Thread -> HaPc] /\ pc'["stop"] \in StopPc
          /\ pos' \in [Thread -> 0 .. 2 * Len(Order)] /\ pos'["ha"] \in 0 .. Len(Order)
      <4>1. 1 \in 0 .. Len(Order) /\ 1 \in 0 .. 2 * Len(Order)
        BY Duties
      <4>2. QED
        BY <2>2, <2>3, <4>1, Zenon DEF IndInv, Shape, HaPc
    <3>2. ctx' \in [Duty -> 0 .. term'] /\ sees' \in [Duty -> [Term -> 0 .. term']]
      BY <2>2, <2>4 DEF IndInv, Shape
    <3>3. QED
      BY <2>2, <2>4, <3>1, <3>2, Zenon DEF IndInv, Shape
  <2>6. Stands'
    BY <2>2, <2>3, <2>4, Duties DEF IndInv, Stands, Place
  <2>7. AllOff'
    BY <2>1, <2>2, Zenon DEF IndInv, AllOff, Off
  <2>8. AllOn'
    BY <2>3 DEF AllOn, On, Place
  <2>9. Office'
    BY <2>2, <2>3, <2>4, Zenon DEF Office
  <2>10. QED
    BY <2>5, <2>6, <2>7, <2>8, <2>9, Zenon DEF IndInv
<1>3. QED
  BY <1>1, <1>2, Zenon

\* The callback starts the components, one after the other, and the scrape loop.
LEMMA StartInv == ASSUME IndInv, StartDuty \/ StartScrape PROVE IndInv'
<1>1. CASE StartDuty
  <2> DEFINE p0 == pos["ha"]
  <2> DEFINE d0 == Order[p0]
  <2>1. pc["ha"] = "start" /\ p0 \in Place /\ DutyAt(p0) = d0 /\ d0 \in Duty /\ term \in Term
    BY <1>1, Duties DEF StartDuty, IndInv, Stands, Shape, Term
  <2>2. /\ running' = [running EXCEPT ![d0] = TRUE] /\ ctx' = [ctx EXCEPT ![d0] = term]
        /\ loop' = [loop EXCEPT ![d0][term] = "new"]
        /\ UNCHANGED <<leading, leaderActive, term, dead, stopping, sees, shutdown, scrapes>>
    BY <1>1, <2>1, Zenon DEF StartDuty, haVars
  <2>3. /\ pc' \in [Thread -> HaPc] /\ pos' \in [Thread -> 0 .. 2 * Len(Order)]
        /\ pc'["stop"] = pc["stop"] /\ pos'["stop"] = pos["stop"]
        /\ \/ p0 = Len(Order) /\ pc'["ha"] = "scrape" /\ pos'["ha"] = 0
           \/ p0 < Len(Order) /\ pc'["ha"] = "start" /\ pos'["ha"] = p0 + 1
    <3>1. p0 \in 1 .. Len(Order) /\ 0 \in 0 .. 2 * Len(Order)
          /\ (p0 # Len(Order) => p0 + 1 \in 0 .. 2 * Len(Order) /\ p0 < Len(Order))
      BY <2>1, Duties DEF Place
    <3>2. \/ /\ p0 = Len(Order) /\ pc' = [pc EXCEPT !["ha"] = "scrape"]
             /\ pos' = [pos EXCEPT !["ha"] = 0]
          \/ /\ p0 # Len(Order) /\ pc' = [pc EXCEPT !["ha"] = "start"]
             /\ pos' = [pos EXCEPT !["ha"] = p0 + 1]
      BY <1>1, Zenon DEF StartDuty, Goto
    <3>3. pc \in [Thread -> HaPc] /\ pos \in [Thread -> 0 .. 2 * Len(Order)]
          /\ "scrape" \in HaPc /\ "start" \in HaPc
      BY Zenon DEF IndInv, Shape, HaPc
    <3>4. CASE p0 = Len(Order)
      BY <3>1, <3>2, <3>3, <3>4, Threads, ZenonT(40)
    <3>5. CASE p0 # Len(Order)
      BY <3>1, <3>2, <3>3, <3>5, Threads, ZenonT(60)
    <3>6. QED
      BY <3>4, <3>5, Zenon
  <2>4. pos'["ha"] \in 0 .. Len(Order)
    BY <2>1, <2>3, Duties DEF Place
  <2>5. running' \in [Duty -> BOOLEAN] /\ ctx' \in [Duty -> 0 .. term]
        /\ loop' \in [Duty -> [Term -> LoopPc]]
    BY <2>1, <2>2, DutiesAssumption, SMTT(30) DEF IndInv, Shape, LoopPc, Term
  <2>6. Shape'
    BY <2>2, <2>3, <2>4, <2>5, SMTT(30) DEF IndInv, Shape
  <2>7. Stands'
    BY <2>1, <2>2, <2>3, Duties DEF IndInv, Stands, Place
  <2>8. AllOff'
    <3> SUFFICES ASSUME NEW p \in Place, Off(p)' PROVE ~running'[Order[p]]
      BY Zenon DEF AllOff
    <3>1. p >= p0 + 1
      BY <2>1, <2>3, Zenon DEF Off, Place
    <3>2. p # p0 /\ Off(p)
      BY <2>1, <3>1, Duties DEF Off, Place
    <3>3. Order[p] # d0 /\ ~running[Order[p]]
      BY <2>1, <3>2, Duties, Zenon DEF IndInv, AllOff
    <3>4. QED
      BY <2>2, <3>3, Duties, Zenon DEF IndInv, Shape
  <2>9. AllOn'
    <3> SUFFICES ASSUME NEW p \in Place, On(p)' PROVE Lives(Order[p])'
      BY Zenon DEF AllOn
    <3>1. CASE p = p0
      BY <2>1, <2>2, <3>1, Zenon DEF Lives, IndInv, Shape
    <3>2. CASE p # p0
      <4>1. p < p0 /\ InOffice
        BY <2>1, <2>2, <2>3, <3>2, Duties DEF On, InOffice, Place
      <4>2. Lives(Order[p]) /\ Order[p] # d0 /\ Order[p] \in Duty
        BY <2>1, <3>2, <4>1, Duties, Zenon DEF IndInv, AllOn, On
      <4>3. running'[Order[p]] = running[Order[p]] /\ ctx'[Order[p]] = ctx[Order[p]]
            /\ loop'[Order[p]] = loop[Order[p]]
        BY <2>1, <2>2, <4>2, Zenon DEF IndInv, Shape
      <4>4. QED
        BY <2>2, <4>2, <4>3 DEF Lives
    <3>3. QED
      BY <3>1, <3>2, Zenon
  <2>10. Office'
    BY <2>1, <2>2, <2>3, Zenon DEF IndInv, Office, InOffice
  <2>11. QED
    BY <2>6, <2>7, <2>8, <2>9, <2>10, Zenon DEF IndInv
<1>2. CASE StartScrape
  <2>1. /\ pc["ha"] = "scrape" /\ scrapes' = scrapes \cup {term}
        /\ pc' = [pc EXCEPT !["ha"] = "idle"] /\ pos' = [pos EXCEPT !["ha"] = 0]
        /\ UNCHANGED <<leading, leaderActive, term, dead, stopping, running, ctx,
                       loop, sees, shutdown>>
    BY <1>2, Zenon DEF StartScrape, Goto, haVars
  <2>2. /\ pc'["ha"] = "idle" /\ pc'["stop"] = pc["stop"]
        /\ pos'["ha"] = 0 /\ pos'["stop"] = pos["stop"] /\ term \in 1 .. term
    BY <2>1, Threads, DutiesAssumption DEF IndInv, Shape, Stands
  <2>3. Shape'
    BY <2>1, <2>2, Duties DEF IndInv, Shape, HaPc
  <2>4. ~stopping => InOffice /\ leading
    BY <2>1, Zenon DEF IndInv, InOffice, Office
  <2>5. Stands'
    BY <2>1, <2>2, <2>4, Zenon DEF IndInv, Stands
  <2>6. AllOff'
    BY <2>1, <2>2, <2>4, Zenon DEF AllOff, Off
  <2>7. AllOn'
    BY <2>1, <2>2, <2>4, Zenon DEF IndInv, AllOn, On, InOffice, Lives
  <2>8. Office'
    BY <2>1, <2>2, <2>4, Zenon DEF IndInv, Office, InOffice
  <2>9. QED
    BY <2>3, <2>5, <2>6, <2>7, <2>8, Zenon DEF IndInv
<1>3. QED
  BY <1>1, <1>2, Zenon


\* A step that starts no component and leaves the callback where it is keeps what the
\* callback has found and made.
LEMMA Beside ==
  ASSUME IndInv, UNCHANGED <<leading, term, ctx, loop, sees, scrapes>>,
         pc'["ha"] = pc["ha"], pos'["ha"] = pos["ha"], stopping',
         \A d \in Duty : running'[d] => running[d]
  PROVE  AllOff' /\ AllOn' /\ Office'
<1>1. AllOff'
  <2> SUFFICES ASSUME NEW p \in Place, Off(p)' PROVE ~running'[Order[p]]
    BY Zenon DEF AllOff
  <2>1. Off(p)
    BY Zenon DEF Off
  <2>2. QED
    BY <2>1, Duties, Zenon DEF IndInv, AllOff
<1>2. ~InOffice'
  BY Zenon DEF InOffice
<1>3. QED
  BY <1>1, <1>2, Zenon DEF AllOn, On, Office

\* A thread goes to the next component, or is through.
LEMMA AdvanceFacts ==
  ASSUME IndInv, NEW th \in Thread, pc[th] \in {"stop", "await"}, Advance(th)
  PROVE  /\ pc' \in [Thread -> HaPc] /\ pos' \in [Thread -> 0 .. 2 * Len(Order)]
         /\ \A o \in Thread \ {th} : pc'[o] = pc[o] /\ pos'[o] = pos[o]
         /\ th = "ha" =>
              \/ pos["ha"] < Len(Order) /\ pc'["ha"] = "stop" /\ pos'["ha"] = pos["ha"] + 1
              \/ pos["ha"] = Len(Order) /\ pc'["ha"] = "idle" /\ pos'["ha"] = 0
         /\ th = "stop" =>
              \/ pc'["stop"] = "stop" /\ pos'["stop"] > 0
              \/ pc'["stop"] = "ended" /\ pos'["stop"] = 0
<1>1. LastPos["ha"] = Len(Order) /\ LastPos["stop"] = 2 * Len(Order)
  BY Threads, Zenon DEF LastPos
<1>2. /\ Len(Order) \in Nat /\ 2 * Len(Order) \in Nat /\ Len(Order) <= 2 * Len(Order)
      /\ pos[th] \in 0 .. 2 * Len(Order) /\ pos[th] \in Nat
      /\ (th = "ha" => pos[th] \in 1 .. Len(Order)) /\ LastPos[th] \in 0 .. 2 * Len(Order)
  <2>1. Len(Order) \in Nat /\ 2 * Len(Order) \in Nat /\ Len(Order) <= 2 * Len(Order)
    BY Duties
  <2>2. pos[th] \in 0 .. 2 * Len(Order) /\ (th = "ha" => pos[th] \in 1 .. Len(Order))
    BY Threads, Zenon DEF IndInv, Shape, Stands, Place
  <2>3. LastPos[th] \in 0 .. 2 * Len(Order)
    BY <1>1, <2>1, Threads
  <2>4. QED
    BY <2>1, <2>2, <2>3
<1>3. CASE pos[th] < LastPos[th]
  <2>1. pc' = [pc EXCEPT ![th] = "stop"] /\ pos' = [pos EXCEPT ![th] = pos[th] + 1]
    BY <1>3, Zenon DEF Advance, Goto
  <2>2. pos[th] + 1 \in 0 .. 2 * Len(Order) /\ pos[th] + 1 > 0
    BY <1>2, <1>3
  <2>3. QED
    BY <1>1, <1>3, <2>1, <2>2, Threads, Zenon DEF IndInv, Shape, HaPc
<1>4. CASE ~(pos[th] < LastPos[th])
  <2>1. /\ pc' = [pc EXCEPT ![th] = IF th = "ha" THEN "idle" ELSE "ended"]
        /\ pos' = [pos EXCEPT ![th] = 0]
    BY <1>4, Zenon DEF Advance, Goto
  <2>2. th = "ha" => pos[th] = Len(Order)
    BY <1>1, <1>2, <1>4
  <2>3. 0 \in 0 .. 2 * Len(Order)
    BY <1>2
  <2>4. QED
    BY <2>1, <2>2, <2>3, Threads, Zenon DEF IndInv, Shape, HaPc
<1>5. QED
  BY <1>3, <1>4, Zenon


\* The callback of a leader that is deposed, and the begin of Controller.Stop.
LEMMA CancelInv == ASSUME IndInv, Depose \/ Stop PROVE IndInv'
<1>0. 0 \in 0 .. Len(Order) /\ 1 \in 0 .. Len(Order) /\ 0 \in 0 .. 2 * Len(Order)
      /\ 1 \in 0 .. 2 * Len(Order) /\ Len(Order) + 1 \in 0 .. 2 * Len(Order)
      /\ Len(Order) + 1 > 0 /\ 1 \in Place
  BY Duties DEF Place
<1>1. leaderActive => term \in 1 .. term
  BY DutiesAssumption DEF IndInv, Shape, Stands
<1>2. CASE Depose
  <2>1. /\ pc["ha"] = "idle" /\ leading /\ leading' = FALSE
        /\ UNCHANGED <<term, stopping, running, ctx, loop, sees, shutdown, scrapes>>
    BY <1>2, Zenon DEF Depose, loopVars
  <2>2. /\ pc' \in [Thread -> HaPc] /\ pos' \in [Thread -> 0 .. 2 * Len(Order)]
        /\ pc'["stop"] = pc["stop"] /\ pos'["stop"] = pos["stop"]
        /\ \/ /\ leaderActive /\ pc'["ha"] = "stop" /\ pos'["ha"] = 1
              /\ dead' = dead \cup {term}
           \/ ~leaderActive /\ pc'["ha"] = "idle" /\ pos'["ha"] = 0 /\ dead' = dead
        /\ leaderActive' = FALSE
    <3>1. pc \in [Thread -> HaPc] /\ pos \in [Thread -> 0 .. 2 * Len(Order)]
          /\ "stop" \in HaPc /\ "idle" \in HaPc
      BY Zenon DEF IndInv, Shape, HaPc
    <3>2. CASE leaderActive
      BY <1>0, <1>2, <3>1, <3>2, Threads, Zenon DEF Depose, Cancel, Goto
    <3>3. CASE ~leaderActive
      <4>1. pc' = [pc EXCEPT !["ha"] = "idle"] /\ pos' = [pos EXCEPT !["ha"] = 0]
            /\ leaderActive' = leaderActive /\ dead' = dead
        BY <1>2, <3>3, Zenon DEF Depose, Cancel, Goto
      <4>2. leaderActive' = FALSE
        BY <3>3, <4>1, Zenon DEF IndInv, Shape
      <4>3. QED
        BY <1>0, <3>1, <3>3, <4>1, <4>2, Threads, Zenon
    <3>4. QED
      BY <3>2, <3>3, Zenon
  <2>3. Shape'
    BY <1>0, <1>1, <2>1, <2>2, Zenon DEF IndInv, Shape
  <2>4. ~stopping => leaderActive
    BY <2>1, Zenon DEF IndInv, Office, InOffice
  <2>5. Stands'
    BY <1>0, <2>1, <2>2, Zenon DEF IndInv, Stands
  <2>6. AllOff'
    BY <2>1, <2>2, <2>4 DEF AllOff, Off, Place
  <2>7. AllOn' /\ Office'
    BY <2>1, <2>2, Zenon DEF AllOn, Office, On, InOffice
  <2>8. QED
    BY <2>3, <2>5, <2>6, <2>7, Zenon DEF IndInv
<1>3. CASE Stop
  <2>1. /\ pc["stop"] = "idle" /\ stopping' = TRUE
        /\ UNCHANGED <<leading, term, running, ctx, loop, sees, shutdown, scrapes>>
    BY <1>3, Zenon DEF Stop, loopVars
  <2>2. /\ pc' \in [Thread -> HaPc] /\ pos' \in [Thread -> 0 .. 2 * Len(Order)]
        /\ pc'["ha"] = pc["ha"] /\ pos'["ha"] = pos["ha"]
        /\ pc'["stop"] = "stop" /\ pos'["stop"] > 0
        /\ dead' \in {dead, dead \cup {term}} /\ (dead' # dead => leaderActive)
        /\ leaderActive' = FALSE
    <3>1. pc \in [Thread -> HaPc] /\ pos \in [Thread -> 0 .. 2 * Len(Order)] /\ "stop" \in HaPc
      BY Zenon DEF IndInv, Shape, HaPc
    <3>2. PICK q \in {1, Len(Order) + 1} :
            /\ pc' = [pc EXCEPT !["stop"] = "stop"] /\ pos' = [pos EXCEPT !["stop"] = q]
      BY <1>3, Zenon DEF Stop, Cancel, Goto
    <3>3. /\ dead' \in {dead, dead \cup {term}} /\ (dead' # dead => leaderActive)
          /\ leaderActive' = FALSE
      BY <1>3, Zenon DEF Stop, Cancel, IndInv, Shape
    <3>4. q \in 0 .. 2 * Len(Order) /\ q > 0
      BY <1>0
    <3>5. QED
      BY <3>1, <3>2, <3>3, <3>4, Threads, Zenon
  <2>3. Shape'
    BY <1>1, <2>1, <2>2, Zenon DEF IndInv, Shape, StopPc
  <2>4. Stands'
    BY <2>1, <2>2, Zenon DEF IndInv, Stands
  <2>5. QED
    BY <2>1, <2>2, <2>3, <2>4, Beside, Zenon DEF IndInv
<1>4. QED
  BY <1>2, <1>3, Zenon

\* A thread stops the next component, or has waited for the coordinator's loop.
LEMMA StopDutyInv ==
  ASSUME IndInv, NEW th \in Thread, StopDuty(th) \/ AwaitShutdown(th)
  PROVE  IndInv'
<1> DEFINE d0 == DutyAt(pos[th])
<1>1. /\ pc[th] \in {"stop", "await"}
      /\ UNCHANGED <<leading, leaderActive, term, dead, stopping, ctx, loop, sees, shutdown,
                     scrapes>>
  BY Zenon DEF StopDuty, AwaitShutdown, haVars, loopVars
<1>2. \/ pc[th] = "stop" /\ running' = [running EXCEPT ![d0] = FALSE]
      \/ pc[th] = "await" /\ running' = running
  BY Zenon DEF StopDuty, AwaitShutdown
<1>3. \/ Advance(th)
      \/ /\ pc[th] = "stop"
         /\ pc' = [pc EXCEPT ![th] = "await"] /\ pos' = [pos EXCEPT ![th] = pos[th]]
  BY Zenon DEF StopDuty, AwaitShutdown, Goto
<1>4. pos[th] \in 1 .. 2 * Len(Order) /\ d0 \in Duty
  <2>1. pos[th] \in 0 .. 2 * Len(Order) /\ pos[th] > 0
    BY <1>1, Threads, Duties DEF IndInv, Shape, Stands, Place
  <2>2. pos[th] \in 1 .. 2 * Len(Order)
    BY <2>1, Duties
  <2>3. QED
    BY <2>2, Duties, Zenon
<1>5. /\ running' \in [Duty -> BOOLEAN] /\ (pc[th] = "stop" => ~running'[d0])
      /\ \A d \in Duty : running'[d] => running[d]
  BY <1>2, <1>4, Zenon DEF IndInv, Shape
<1>6. /\ pc' \in [Thread -> HaPc] /\ pos' \in [Thread -> 0 .. 2 * Len(Order)]
      /\ \A o \in Thread \ {th} : pc'[o] = pc[o] /\ pos'[o] = pos[o]
      /\ th = "ha" =>
           \/ pos["ha"] < Len(Order) /\ pc'["ha"] = "stop" /\ pos'["ha"] = pos["ha"] + 1
           \/ pos["ha"] = Len(Order) /\ pc'["ha"] = "idle" /\ pos'["ha"] = 0
           \/ pc[th] = "stop" /\ pc'["ha"] = "await" /\ pos'["ha"] = pos["ha"]
      /\ th = "stop" =>
           \/ pc'["stop"] \in {"stop", "await"} /\ pos'["stop"] > 0
           \/ pc'["stop"] = "ended" /\ pos'["stop"] = 0
  <2>1. CASE Advance(th)
    BY <1>1, <2>1, AdvanceFacts, Zenon
  <2>2. CASE /\ pc[th] = "stop"
             /\ pc' = [pc EXCEPT ![th] = "await"] /\ pos' = [pos EXCEPT ![th] = pos[th]]
    <3>1. pos[th] > 0
      BY <1>4, Duties
    <3>2. QED
      BY <2>2, <3>1, Threads DEF IndInv, Shape, HaPc
  <2>3. QED
    BY <1>3, <2>1, <2>2, Zenon
<1>7. CASE th = "ha"
  <2>1. pos["ha"] \in Place /\ d0 = Order[pos["ha"]] /\ ~leading /\ ~leaderActive
    BY <1>1, <1>7, Duties, Zenon DEF IndInv, Stands
  <2>2. pc'["stop"] = pc["stop"] /\ pos'["stop"] = pos["stop"]
    BY <1>6, <1>7, Threads, Zenon
  <2>3. pos'["ha"] \in 0 .. Len(Order) /\ (pc'["ha"] # "idle" => pos'["ha"] \in Place)
    BY <1>6, <1>7, <2>1, Duties DEF Place
  <2>4. Shape'
    BY <1>1, <1>5, <1>6, <2>2, <2>3, Zenon DEF IndInv, Shape
  <2>5. Stands'
    BY <1>1, <1>6, <1>7, <2>1, <2>2, <2>3, Zenon DEF IndInv, Stands
  <2>6. AllOff'
    <3> SUFFICES ASSUME NEW p \in Place, Off(p)' PROVE ~running'[Order[p]]
      BY Zenon DEF AllOff
    <3>1. p <= pos["ha"]
      BY <1>6, <1>7, <2>1, Duties DEF Off, Place
    <3>2. CASE p = pos["ha"] /\ pc["ha"] = "stop"
      BY <1>5, <1>7, <2>1, <3>2, Zenon
    <3>3. CASE ~(p = pos["ha"] /\ pc["ha"] = "stop")
      <4>1. Off(p)
        BY <1>1, <1>7, <2>1, <3>1, <3>3 DEF Off, Place
      <4>2. QED
        BY <1>5, <4>1, Duties, Zenon DEF IndInv, AllOff
    <3>4. QED
      BY <3>2, <3>3, Zenon
  <2>7. AllOn' /\ Office'
    BY <1>1, <1>6, <1>7, <2>1, Zenon DEF AllOn, Office, On, InOffice
  <2>8. QED
    BY <2>4, <2>5, <2>6, <2>7, Zenon DEF IndInv
<1>8. CASE th = "stop"
  <2>1. pc'["ha"] = pc["ha"] /\ pos'["ha"] = pos["ha"] /\ stopping'
    BY <1>1, <1>6, <1>8, Threads, Zenon DEF IndInv, Stands
  <2>2. Shape'
    BY <1>1, <1>5, <1>6, <1>8, <2>1, Zenon DEF IndInv, Shape, StopPc
  <2>3. Stands'
    BY <1>1, <1>6, <1>8, <2>1, Zenon DEF IndInv, Stands
  <2>4. \A d \in Duty : running'[d] => running[d]
    BY <1>5, Zenon
  <2>5. QED
    BY <1>1, <2>1, <2>2, <2>3, <2>4, Beside, Zenon DEF IndInv
<1>9. QED
  BY <1>7, <1>8, Threads, Zenon

\* The election loop ends.
LEMMA EndElectionInv == ASSUME IndInv, EndElection PROVE IndInv'
<1>1. /\ pc["ha"] = "idle" /\ stopping
      /\ pc' = [pc EXCEPT !["ha"] = "ended"] /\ pos' = [pos EXCEPT !["ha"] = 0]
      /\ UNCHANGED <<leading, leaderActive, term, dead, stopping, running, ctx,
                     loop, sees, shutdown, scrapes>>
  BY Zenon DEF EndElection, Goto, haVars, loopVars
<1>2. /\ pc'["ha"] = "ended" /\ pc'["stop"] = pc["stop"]
      /\ pos'["ha"] = 0 /\ pos'["stop"] = pos["stop"]
  BY <1>1, Threads, Zenon DEF IndInv, Shape
<1>3. Shape'
  BY <1>1, <1>2, Duties DEF IndInv, Shape, HaPc
<1>4. Stands'
  BY <1>1, <1>2, Zenon DEF IndInv, Stands
<1>5. AllOff' /\ AllOn' /\ Office'
  BY <1>1, <1>2, Zenon DEF AllOff, Off, AllOn, On, InOffice, Office
<1>6. QED
  BY <1>3, <1>4, <1>5, Zenon DEF IndInv

\* A loop of a component, or the scrape loop, does something: it cannot end while its
\* component serves the current term.
LEMMA LoopInv ==
  ASSUME IndInv, NEW t \in Term, EndScrape(t) \/ \E d \in Duty : LoopStep(d, t)
  PROVE  IndInv'
<1>1. UNCHANGED <<leading, leaderActive, term, dead, stopping, pc, pos, running, ctx>>
  BY SMTT(30) DEF EndScrape, LoopStep, Enter, EndRound, Select, BeginRound, EndLoop, haVars
<1>2. Stands' /\ AllOff'
  BY <1>1, Zenon DEF IndInv, Stands, AllOff, Off
<1>3. ASSUME EndScrape(t) PROVE IndInv'
  <2>1. scrapes' = scrapes \ {t} /\ Cancelled(t) /\ UNCHANGED <<loop, sees, shutdown>>
    BY <1>3, Zenon DEF EndScrape
  <2>2. Shape'
    BY <1>1, <2>1, Zenon DEF IndInv, Shape
  <2>3. AllOn'
    BY <1>1, <2>1, Zenon DEF IndInv, AllOn, On, InOffice, Lives
  <2>4. Office'
    BY <1>1, <2>1, Zenon DEF IndInv, Office, InOffice, Cancelled
  <2>5. QED
    BY <1>2, <2>2, <2>3, <2>4, Zenon DEF IndInv
<1>4. ASSUME NEW d \in Duty, LoopStep(d, t) PROVE IndInv'
  <2>1. scrapes' = scrapes /\ shutdown' \in BOOLEAN
    BY <1>4, Zenon DEF LoopStep, Enter, EndRound, Select, BeginRound, EndLoop, IndInv, Shape
  <2>2. \/ loop' = [loop EXCEPT ![d][t] = "wait"] /\ sees' = [sees EXCEPT ![d][t] = ctx[d]]
        \/ loop' = [loop EXCEPT ![d][t] = "work"] /\ sees' = sees
        \/ /\ loop' = [loop EXCEPT ![d][t] = "none"] /\ sees' = [sees EXCEPT ![d][t] = 0]
           /\ loop[d][t] = "wait" /\ Cancelled(sees[d][t])
    BY <1>4, Zenon DEF LoopStep, Enter, EndRound, Select, BeginRound, EndLoop
  <2>3. ctx[d] \in 0 .. term /\ 0 \in 0 .. term
    BY DutiesAssumption DEF IndInv, Shape
  <2>4. loop' \in [Duty -> [Term -> LoopPc]] /\ sees' \in [Duty -> [Term -> 0 .. term]]
    <3>1. /\ loop \in [Duty -> [Term -> LoopPc]] /\ sees \in [Duty -> [Term -> 0 .. term]]
          /\ {"wait", "work", "none"} \subseteq LoopPc
      BY Zenon DEF IndInv, Shape, LoopPc
    <3>2. /\ [loop EXCEPT ![d][t] = "wait"] \in [Duty -> [Term -> LoopPc]]
          /\ [loop EXCEPT ![d][t] = "work"] \in [Duty -> [Term -> LoopPc]]
          /\ [loop EXCEPT ![d][t] = "none"] \in [Duty -> [Term -> LoopPc]]
      BY <3>1, Zenon
    <3>3. /\ [sees EXCEPT ![d][t] = ctx[d]] \in [Duty -> [Term -> 0 .. term]]
          /\ [sees EXCEPT ![d][t] = 0] \in [Duty -> [Term -> 0 .. term]]
      BY <2>3, <3>1, Zenon
    <3>4. QED
      BY <2>2, <3>1, <3>2, <3>3, Zenon
  <2>5. Shape'
    BY <1>1, <2>1, <2>4, Zenon DEF IndInv, Shape
  <2>6. AllOn'
    <3> SUFFICES ASSUME NEW p \in Place, On(p)' PROVE Lives(Order[p])'
      BY Zenon DEF AllOn
    <3>1. On(p) /\ ~stopping /\ term \notin dead
      BY <1>1, Zenon DEF On, InOffice, IndInv, Office
    <3>2. Lives(Order[p]) /\ Order[p] \in Duty
      BY <3>1, Duties, SMTT(30) DEF IndInv, AllOn
    <3>3. PICK u \in Term : \/ loop[Order[p]][u] \in {"new", "work"}
                            \/ loop[Order[p]][u] = "wait" /\ sees[Order[p]][u] = term
      BY <3>2, Zenon DEF Lives
    <3>4. CASE Order[p] # d \/ u # t
      <4>1. loop'[Order[p]][u] = loop[Order[p]][u] /\ sees'[Order[p]][u] = sees[Order[p]][u]
        <5>1. /\ loop \in [Duty -> [Term -> LoopPc]]
              /\ sees \in [Duty -> [Term -> 0 .. term]]
          BY Zenon DEF IndInv, Shape
        <5>2. /\ [loop EXCEPT ![d][t] = "wait"][Order[p]][u] = loop[Order[p]][u]
              /\ [loop EXCEPT ![d][t] = "work"][Order[p]][u] = loop[Order[p]][u]
              /\ [loop EXCEPT ![d][t] = "none"][Order[p]][u] = loop[Order[p]][u]
          BY <3>2, <3>4, <5>1, Zenon
        <5>3. /\ [sees EXCEPT ![d][t] = ctx[d]][Order[p]][u] = sees[Order[p]][u]
              /\ [sees EXCEPT ![d][t] = 0][Order[p]][u] = sees[Order[p]][u]
          BY <3>2, <3>4, <5>1, SMTT(30)
        <5>4. QED
          BY <2>2, <5>2, <5>3, Zenon
      <4>2. QED
        BY <1>1, <3>2, <3>3, <4>1, Zenon DEF Lives
    <3>5. CASE Order[p] = d /\ u = t
      <4>1. ctx[d] = term /\ (loop[d][t] = "wait" => ~Cancelled(sees[d][t]))
        BY <3>1, <3>2, <3>3, <3>5, Zenon DEF Lives, Cancelled
      <4>2. \/ loop'[d][t] = "wait" /\ sees'[d][t] = term
            \/ loop'[d][t] = "work"
        BY <2>2, <4>1 DEF IndInv, Shape
      <4>3. QED
        BY <1>1, <3>2, <3>5, <4>2, SMTT(30) DEF Lives
    <3>6. QED
      BY <3>4, <3>5, Zenon
  <2>7. Office'
    BY <1>1, <2>1, Zenon DEF IndInv, Office, InOffice
  <2>8. QED
    BY <1>2, <2>5, <2>6, <2>7, Zenon DEF IndInv
<1>5. QED
  BY <1>3, <1>4, Zenon

-----------------------------------------------------------------------------
(* The theorems. *)

\* Every step keeps the invariant.
LEMMA Invariance == SpecDuties => []IndInv
<1>1. ASSUME IndInv, [NextDuties]_vars PROVE IndInv'
  <2>1. ASSUME UNCHANGED vars PROVE IndInv'
    BY <1>1, <2>1
    DEF vars, haVars, loopVars, IndInv, Shape, Stands, AllOff, Off, AllOn, On, InOffice,
        Lives, Office
  <2>2. ASSUME ThreadStep PROVE IndInv'
    BY <1>1, <2>2, ActivateInv, StartInv, CancelInv, EndElectionInv, StopDutyInv, Zenon DEF ThreadStep
  <2>3. ASSUME NEW t \in Term, Panic(t) PROVE IndInv'
    BY <2>3, ResetInv, Zenon DEF Panic
  <2>4. ASSUME Exit \/ Crash PROVE IndInv'
    BY <2>4, ResetInv, Zenon DEF Exit, Crash
  <2>5. QED
    BY <1>1, <2>1, <2>2, <2>3, <2>4, LoopInv, SMTT(30) DEF NextDuties
<1>2. QED
  BY <1>1, InitInv, PTL DEF SpecDuties

\* The types: a thread goes through the components in their order, and a loop selects
\* on a context that was made.
THEOREM TypeCorrect == SpecDuties => []TypeOK
<1>1. ASSUME IndInv PROVE TypeOK
  <2>1. \A th \in Thread : pos[th] \in 0 .. LastPos[th]
    BY <1>1, Threads, Zenon DEF IndInv, Shape, LastPos
  <2>2. \A d \in Duty, t \in Term : sees[d][t] \in 0 .. term
    BY <1>1, Zenon DEF IndInv, Shape
  <2>3. QED
    BY <1>1, <2>1, <2>2, Zenon DEF IndInv, Shape, TypeOK, HaPc, LoopPc
<1>2. QED
  BY <1>1, Invariance, PTL

\* No start of a component is refused, however Controller.Stop interleaves with the
\* callback: no earlier term has left its running flag.
THEOREM NoneRefused == SpecDuties => []Accepted
<1>1. ASSUME IndInv PROVE Accepted
  <2> SUFFICES ASSUME pc["ha"] = "start" PROVE ~running[DutyAt(pos["ha"])]
    BY Zenon DEF Accepted
  <2>1. pos["ha"] \in Place /\ DutyAt(pos["ha"]) = Order[pos["ha"]]
    BY <1>1, Duties, Zenon DEF IndInv, Stands
  <2>2. Off(pos["ha"])
    BY <2>1, Duties DEF Off, Place
  <2>3. QED
    BY <1>1, <2>1, <2>2, Zenon DEF IndInv, AllOff
<1>2. QED
  BY <1>1, Invariance, PTL

\* A controller that leads, between callbacks and before Stop, has every component
\* running in its own term, with a loop that only this term's context can end.
THEOREM LeaderServes == SpecDuties => []Served
<1>1. ASSUME IndInv PROVE Served
  <2> SUFFICES ASSUME Serving
               PROVE  /\ leaderActive /\ term \notin dead /\ term \in scrapes
                      /\ \A d \in Duty : Lives(d)
    BY Zenon DEF Served, Lives
  <2>1. InOffice /\ pc["ha"] = "idle"
    BY Zenon DEF Serving, InOffice
  <2>2. leaderActive /\ term \notin dead /\ term \in scrapes
    BY <1>1, <2>1, Zenon DEF IndInv, Office
  <2>3. \A d \in Duty : Lives(d)
    BY <1>1, <2>1, Duties DEF IndInv, AllOn, On
  <2>4. QED
    BY <2>2, <2>3, Zenon
<1>2. QED
  BY <1>1, Invariance, PTL

=============================================================================
