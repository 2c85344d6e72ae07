---------------------------- MODULE Ingest_proofs ----------------------------
(***************************************************************************)
(* The theorems about Ingest.  They hold for every number of controllers,  *)
(* streams, batches and identities, and for every lease, retention and     *)
(* clock skew.                                                             *)
(***************************************************************************)
EXTENDS Ingest, TLAPS

-----------------------------------------------------------------------------
(* The inductive invariant, and the facts by which a step keeps it. *)

Applying == {"guard", "claim", "hot", "process", "failed", "finish",
             "checkpoint"}
Holding == {"hot", "process", "failed", "finish", "checkpoint"}

\* A stored receipt has a payload, and an owner only while it is leased.
ReceiptShape ==
  \A i \in Identity :
    /\ Present(i) => inbox[i].batch \in Batch
    /\ inbox[i].state # "applying" => inbox[i].owner = None

\* What the control point of w says about the other variables of w.
Control(w) ==
  /\ pc[w] \in {"commit", "ack"} => w \in Stream
  /\ pc[w] \in {"list", "next"} => w \in Controller
  /\ pc[w] = "lock" \/ pc[w] \in Applying => target[w] \in Identity
  /\ pc[w] \in Holding => held[w].batch # None
  /\ pc[w] \notin Holding =>
       held[w] = Nothing /\ renewal[w] = "off" /\ ~overtaken[w]
  /\ phase[Host(w)] \in {"down", "restore"} => pc[w] = "idle"
  /\ w \in Stream /\ phase[Host(w)] = "replay" => pc[w] = "idle"

\* A stream past Recv has a batch, received in the past.
Received(w) ==
  w \in Stream /\ pc[w] # "idle" =>
    sent[w].batch \in Batch /\ sent[w].at <= Now(Host(w))

\* A worker has a token exactly while it runs applyReceipt under the mutex.
Mutex(w) ==
  IF pc[w] \in Applying
    THEN applyMu[Host(w)] = w /\ owner[w] \in {w} \X Nonce
    ELSE owner[w] = None

\* The inbox knows the token of w only for the receipt that w holds and that
\* nobody else claimed since.
Claimed(w) ==
  \A i \in Identity : owner[w] # None /\ inbox[i].owner = owner[w] =>
    /\ target[w] = i /\ pc[w] \in Holding
    /\ ~overtaken[w] /\ held[w].batch = inbox[i].batch
    /\ pc[w] \in {"finish", "checkpoint"} => fullRun[i]

WInv(w) == Control(w) /\ Received(w) /\ Mutex(w) /\ Claimed(w)

IInv ==
  TypeOK /\ ReceiptShape /\ AppliedWasProcessed /\ \A w \in Worker : WInv(w)

-----------------------------------------------------------------------------
(* Facts about the data. *)

\* Every worker runs in a controller.
LEMMA HostType == \A w \in Worker : Host(w) \in Controller
  BY WorkerAssumption, Zenon DEF Worker, Host

\* The empty receipt, attempt and hot view are of their types.
LEMMA Constants ==
  /\ NoReceipt \in Receipt /\ Nothing \in Stamped /\ EmptyHot \in HotView
  /\ Nothing.batch = None /\ NoReceipt.state = "absent" /\ NoReceipt.owner = None
  BY TimeAssumption
     DEF NoReceipt, Receipt, Nothing, Stamped, EmptyHot, HotView, Stamps, AgeCap

\* Clocks read within the stamps of the model.
LEMMA NowType == ASSUME TypeStore, NEW c \in Controller PROVE Now(c) \in Stamps
  BY TimeAssumption DEF TypeStore, Now, Stamps

\* What MaterializeReceipt writes is a hot view.
LEMMA MaterializeType ==
  ASSUME NEW h \in HotView, NEW r, r.batch \in Batch, r.at \in Stamps
  PROVE  Materialize(h, r) \in HotView
  BY Zenon DEF Materialize, HotView

\* A worker is not None, and neither is a token.
LEMMA NotNone ==
  ASSUME NEW w \in Worker PROVE w # None /\ \A t \in {w} \X Nonce : t # None
  BY NoneAssumption, Zenon DEF Worker

\* What Commit stores.
LEMMA NewReceipt ==
  ASSUME NEW b \in Batch, NEW t \in Stamps
  PROVE  LET q == [NoReceipt EXCEPT !.state = "committed", !.batch = b, !.at = t]
         IN q \in Receipt /\ q.state = "committed" /\ q.owner = None /\ q.batch = b
<1>1. PICK r \in Receipt : r = NoReceipt /\ r.owner = None
  BY Constants, Zenon
<1> DEFINE q == [r EXCEPT !.state = "committed", !.batch = b, !.at = t]
<1>2. q \in Receipt /\ q.state = "committed" /\ q.owner = r.owner /\ q.batch = b
  BY Zenon DEF Receipt
<1>3. q = [NoReceipt EXCEPT !.state = "committed", !.batch = b, !.at = t]
  BY <1>1, Zenon
<1> HIDE DEF q
<1> QED  BY <1>1, <1>2, <1>3, Zenon

\* One receipt is replaced and the others stay.
LEMMA Overwrite ==
  ASSUME TypeStore, NEW i \in Identity, NEW r \in Receipt,
         inbox' = [inbox EXCEPT ![i] = r]
  PROVE  /\ inbox' \in [Identity -> Receipt] /\ inbox'[i] = r
         /\ \A j \in Identity \ {i} : inbox'[j] = inbox[j]
  BY Zenon DEF TypeStore

-----------------------------------------------------------------------------
(* What does not change keeps its part of the invariant. *)

\* The inbox and the clock.
LEMMA StoreFrame ==
  ASSUME TypeStore, UNCHANGED <<clock, faults, inbox>> PROVE TypeStore'
  BY Zenon DEF TypeStore

\* The controllers.
LEMMA ControllerFrame ==
  ASSUME TypeController, UNCHANGED ctlVars PROVE TypeController'
  BY Zenon DEF TypeController, ctlVars

\* The history.
LEMMA HistoryFrame ==
  ASSUME TypeHistory, UNCHANGED ghostVars PROVE TypeHistory'
  BY Zenon DEF TypeHistory, ghostVars

Same(v) ==
  /\ pc'[v] = pc[v] /\ sent'[v] = sent[v] /\ target'[v] = target[v]
  /\ owner'[v] = owner[v] /\ held'[v] = held[v] /\ renewal'[v] = renewal[v]
  /\ overtaken'[v] = overtaken[v]

Others(w) == \A v \in Worker \ {w} : Same(v)

\* The receipts that carry the token of v carried it before.
TokenKept(v) ==
  \A i \in Identity : owner[v] # None /\ inbox'[i].owner = owner[v] =>
    /\ inbox[i].owner = owner[v] /\ inbox'[i].batch = inbox[i].batch
    /\ fullRun[i] => fullRun'[i]

\* A worker that does not move stays where its variables say, also when its
\* controller begins to serve.
LEMMA SameControl ==
  ASSUME NEW v \in Worker, Control(v), Same(v),
         \/ phase'[Host(v)] = phase[Host(v)]
         \/ phase'[Host(v)] = "serving"
         \/ pc[v] = "idle"
  PROVE  Control(v)'
  BY Zenon DEF Control, Same, Host

\* The batch of a stream stays received.
LEMMA SameReceived ==
  ASSUME NEW v \in Worker, Received(v), pc[v] # "idle" \/ pc'[v] = "idle",
         sent'[v] = sent[v], UNCHANGED clock
  PROVE  Received(v)'
  BY Zenon DEF Received, Now, Host

\* A worker that does not move keeps the mutex.
LEMMA SameMutex ==
  ASSUME NEW v \in Worker, Mutex(v), Same(v),
         applyMu'[Host(v)] = applyMu[Host(v)] \/ pc[v] \notin Applying
  PROVE  Mutex(v)'
  BY Zenon DEF Mutex, Same, Host

\* A worker that does not move keeps its claim.
LEMMA SameClaimed ==
  ASSUME NEW v \in Worker, Claimed(v), Same(v), TokenKept(v)
  PROVE  Claimed(v)'
  BY DEF Claimed, Same, TokenKept

\* A worker that a step does not touch keeps its part of the invariant.
LEMMA Untouched ==
  ASSUME NEW v \in Worker, WInv(v), Same(v), TokenKept(v), UNCHANGED clock,
         \/ phase'[Host(v)] = phase[Host(v)]
         \/ phase'[Host(v)] = "serving"
         \/ pc[v] = "idle",
         applyMu'[Host(v)] = applyMu[Host(v)] \/ pc[v] \notin Applying
  PROVE  WInv(v)'
<1>1. Control(v) /\ Received(v) /\ Mutex(v) /\ Claimed(v)
  BY Zenon DEF WInv
<1>2. pc'[v] = pc[v] /\ sent'[v] = sent[v]
  BY Zenon DEF Same
<1>3. Control(v)'
  BY <1>1, SameControl, Zenon
<1>4. Received(v)'
  BY <1>1, <1>2, SameReceived, Zenon
<1>5. Mutex(v)' /\ Claimed(v)'
  BY <1>1, SameMutex, SameClaimed, Zenon
<1> QED  BY <1>3, <1>4, <1>5, Zenon DEF WInv

\* The other workers keep their part when a step leaves their controller alone
\* and the inbox does not take on their token.
LEMMA OthersKeep ==
  ASSUME IInv, NEW w \in Worker, Others(w), UNCHANGED <<clock, phase, applyMu>>,
         NEW v \in Worker \ {w}, TokenKept(v)
  PROVE  WInv(v)'
<1>1. Same(v) /\ WInv(v)
  BY Zenon DEF IInv, Others
<1> QED  BY <1>1, Untouched

\* A step of w on the inbox that leaves the controllers alone.
LEMMA InboxStep ==
  ASSUME IInv, NEW w \in Worker, TypeOK', Others(w), WInv(w)', ReceiptShape',
         AppliedWasProcessed', UNCHANGED <<clock, phase, applyMu>>,
         \A v \in Worker \ {w} : TokenKept(v)
  PROVE  IInv'
<1>1. \A v \in Worker \ {w} : WInv(v)'
  BY OthersKeep, Zenon
<1> QED  BY <1>1 DEF IInv

-----------------------------------------------------------------------------
(* Steps of one worker that touch neither the inbox nor any other worker. *)

Local(w) ==
  /\ UNCHANGED <<clock, inbox, phase, applyMu, owner, held, overtaken, fullRun>>
  /\ \A v \in Worker \ {w} : /\ pc'[v] = pc[v] /\ sent'[v] = sent[v]
                             /\ target'[v] = target[v] /\ renewal'[v] = renewal[v]

\* Such a step neither enters nor leaves the mutex or the claim.
Moves(w) ==
  /\ pc'[w] \in Applying <=> pc[w] \in Applying
  /\ pc'[w] \in Holding <=> pc[w] \in Holding
  /\ pc'[w] \in {"finish", "checkpoint"} => pc[w] \in {"finish", "checkpoint"}
  /\ pc[w] \in Applying => target'[w] = target[w]
  /\ pc[w] \notin Holding => renewal'[w] = renewal[w]
  /\ pc[w] # "idle" \/ pc'[w] = "idle" \/ phase[Host(w)] = "serving"
  /\ pc'[w] \in {"commit", "ack"} => w \in Stream
  /\ pc'[w] \in {"list", "next"} => w \in Controller
  /\ pc'[w] = "lock" => target'[w] \in Identity
  /\ Received(w)'

\* Such a step keeps the invariant.
LEMMA LocalStep ==
  ASSUME IInv, NEW w \in Worker, TypeOK', Local(w), Moves(w)
  PROVE  IInv'
<1>1. Control(w) /\ Mutex(w) /\ Claimed(w)
  BY Zenon DEF IInv, WInv
<1>2. /\ held'[w] = held[w] /\ owner'[w] = owner[w] /\ overtaken'[w] = overtaken[w]
      /\ phase'[Host(w)] = phase[Host(w)] /\ applyMu'[Host(w)] = applyMu[Host(w)]
  BY Zenon DEF Local
<1>3. Control(w)'
  BY <1>1, <1>2 DEF Control, Moves, Applying, Host
<1>4. Mutex(w)'
  BY <1>1, <1>2, Zenon DEF Mutex, Moves, Host
<1>5. Claimed(w)'
  BY <1>1, <1>2, Zenon DEF Claimed, Mutex, Moves, Local
<1>6. ASSUME NEW v \in Worker, v # w PROVE WInv(v)'
  <2>1. Others(w) /\ TokenKept(v)
    BY Zenon DEF Local, Others, Same, TokenKept
  <2> QED  BY <1>6, <2>1, OthersKeep DEF Local
<1>7. ReceiptShape' /\ AppliedWasProcessed'
  BY Zenon DEF IInv, Local, ReceiptShape, AppliedWasProcessed, Present, Applied
<1>8. WInv(w)'
  BY <1>3, <1>4, <1>5, Zenon DEF WInv, Moves
<1> QED  BY <1>6, <1>7, <1>8 DEF IInv

\* A step that changes only variables of the workers.
LEMMA WorkerOnly ==
  ASSUME IInv, TypeWorker',
         UNCHANGED <<clock, faults, inboxVars, ctlVars, ghostVars>>
  PROVE  TypeOK'
  BY StoreFrame, ControllerFrame, HistoryFrame, Zenon DEF IInv, TypeOK, inboxVars

\* The delay of a prune is within the range of gcAge.
LEMMA LagType ==
  ASSUME IInv, NEW w \in Worker, pc[w] = "prune",
         gcAge[Host(w)] >= GCInterval + Lag(w)
  PROVE  Lag(w) \in 0 .. GCCap
<1>1. CASE w \in Stream
  <2>1. sent[w].at \in Nat /\ Now(Host(w)) \in Nat /\ gcAge[Host(w)] \in 0 .. GCCap
    BY HostType, NowType, TimeAssumption
       DEF IInv, TypeOK, TypeWorker, TypeController, Stamped, Stamps
  <2>2. sent[w].at <= Now(Host(w))
    BY <1>1, Zenon DEF IInv, WInv, Received
  <2> QED  BY <1>1, <2>1, <2>2, TimeAssumption DEF Lag, GCCap
<1>2. CASE w \notin Stream
  BY <1>2, TimeAssumption DEF Lag, GCCap
<1> QED  BY <1>1, <1>2

-----------------------------------------------------------------------------
(* The steps that end an attempt of applyReceipt, with or without an error. *)

\* The inbox forgets the tokens of receipts it changes.
Released ==
  \A j \in Identity : inbox'[j] = inbox[j] \/ inbox'[j].owner = None

\* A step that takes tokens away gives none to anybody.
LEMMA ReleasedKept ==
  ASSUME NEW v \in Worker, Released, UNCHANGED fullRun PROVE TokenKept(v)
  BY Zenon DEF Released, TokenKept

\* A worker that forgot its attempt.
LEMMA Forgot ==
  ASSUME NEW w \in Worker, owner'[w] = None, held'[w] = Nothing,
         renewal'[w] = "off", ~overtaken'[w],
         \/ pc'[w] = "idle"
         \/ /\ \/ pc'[w] = "prune"
               \/ pc'[w] \in {"list", "next"} /\ w \in Controller
            /\ \/ phase'[Host(w)] = "serving"
               \/ phase'[Host(w)] = "replay" /\ w \notin Stream,
         Received(w)'
  PROVE  WInv(w)'
<1>1. Control(w)'
  BY Zenon DEF Control, Applying, Holding, Host
<1>2. Mutex(w)' /\ Claimed(w)'
  BY Zenon DEF Mutex, Claimed, Applying
<1> QED  BY <1>1, <1>2, Zenon DEF WInv

\* The call returns an error.  A controller that exits was replaying before it
\* served, so it has no other busy worker.
LEMMA FailStep ==
  ASSUME IInv, NEW w \in Worker, Fail(w), Released, TypeStore', ReceiptShape',
         AppliedWasProcessed', UNCHANGED <<clock, fullRun, appliedAge, acked>>
  PROVE  IInv'
<1> DEFINE c == Host(w)
           exits == w \in Controller /\ phase[c] = "replay"
<1>1. /\ applyMu' = [applyMu EXCEPT ![c] = IF @ = w THEN None ELSE @]
      /\ owner' = [owner EXCEPT ![w] = None]
      /\ held' = [held EXCEPT ![w] = Nothing]
      /\ overtaken' = [overtaken EXCEPT ![w] = FALSE]
      /\ renewal' = [renewal EXCEPT ![w] = "off"]
      /\ target' = [target EXCEPT ![w] = None]
      /\ sent' = [sent EXCEPT ![w] = Nothing]
      /\ queue' = [queue EXCEPT ![w] = {}]
      /\ pc' = [pc EXCEPT ![w] = "idle"]
      /\ phase' = [phase EXCEPT ![c] = IF exits THEN "down" ELSE @]
      /\ hot' = [hot EXCEPT ![c] = IF exits THEN EmptyHot ELSE @]
      /\ leader' = [leader EXCEPT ![c] = @ /\ ~exits]
      /\ base' = [base EXCEPT ![c] = IF exits THEN {} ELSE @]
      /\ UNCHANGED <<cursor, gcAge>>
  BY Zenon DEF Fail, Goto
<1>2. c \in Controller
  BY HostType, Zenon
<1>3. TypeOK'
  <2>1. TypeWorker'
    BY <1>1, Constants, Zenon DEF IInv, TypeOK, TypeWorker, Labels
  <2>2. TypeController'
    BY <1>1, <1>2, Constants, Zenon DEF IInv, TypeOK, TypeController
  <2>3. TypeHistory'
    BY <1>1, <1>2, Zenon DEF IInv, TypeOK, TypeHistory
  <2> QED  BY <2>1, <2>2, <2>3, Zenon DEF TypeOK
<1>4. WInv(w)'
  <2>1. /\ owner'[w] = None /\ held'[w] = Nothing /\ renewal'[w] = "off"
        /\ ~overtaken'[w] /\ pc'[w] = "idle"
    BY <1>1, Zenon DEF IInv, TypeOK, TypeWorker, TypeHistory
  <2>2. Received(w)'
    BY <2>1, Zenon DEF Received
  <2> QED  BY <2>1, <2>2, Forgot
<1>5. ASSUME NEW v \in Worker, v # w PROVE WInv(v)'
  <2>1. WInv(v) /\ Same(v)
    BY <1>1, <1>5, Zenon DEF IInv, TypeOK, TypeWorker, TypeHistory, Same
  <2>2. TokenKept(v)
    BY ReleasedKept, Zenon
  <2>3. phase'[Host(v)] = phase[Host(v)] \/ pc[v] = "idle"
    <3>1. CASE Host(v) = c /\ exits
      <4>1. c = w /\ v \in Stream
        BY <1>5, <3>1, WorkerAssumption, Zenon DEF Host, Worker
      <4> QED  BY <2>1, <3>1, <4>1, Zenon DEF WInv, Control
    <3>2. CASE ~(Host(v) = c /\ exits)
      BY <1>1, <1>2, <3>2, HostType, Zenon DEF IInv, TypeOK, TypeController
    <3> QED  BY <3>1, <3>2, Zenon
  <2>4. applyMu'[Host(v)] = applyMu[Host(v)] \/ pc[v] \notin Applying
    <3>1. pc[v] \in Applying => applyMu[Host(v)] # w
      BY <1>5, <2>1, Zenon DEF WInv, Mutex
    <3> QED  BY <1>1, <1>2, <3>1, HostType DEF IInv, TypeOK, TypeController
  <2> QED  BY <2>1, <2>2, <2>3, <2>4, Untouched
<1> QED  BY <1>3, <1>4, <1>5 DEF IInv

\* Where a worker goes after applyReceipt: prune, or the replay loop.
LEMMA DoneLabel ==
  ASSUME NEW w \in Worker, NEW q
  PROVE  LET l == IF w \in Stream THEN "prune" ELSE IF q = {} THEN "list" ELSE "next"
         IN l = "prune" \/ (l \in {"list", "next"} /\ w \in Controller)
  BY Zenon DEF Worker

\* applyReceipt returns nil.
LEMMA DoneStep ==
  ASSUME IInv, NEW w \in Worker, Done(w), pc[w] \in Applying, Released,
         TypeStore', ReceiptShape', AppliedWasProcessed',
         appliedAge' \in [Batch -> 0 .. Never],
         base' \in [Controller -> SUBSET Batch], UNCHANGED <<clock, fullRun, acked>>
  PROVE  IInv'
<1> DEFINE c == Host(w)
           l == IF w \in Stream THEN "prune"
                ELSE IF queue[w] = {} THEN "list" ELSE "next"
<1>1. /\ applyMu' = [applyMu EXCEPT ![c] = None]
      /\ owner' = [owner EXCEPT ![w] = None]
      /\ held' = [held EXCEPT ![w] = Nothing]
      /\ overtaken' = [overtaken EXCEPT ![w] = FALSE]
      /\ renewal' = [renewal EXCEPT ![w] = "off"]
      /\ target' = [target EXCEPT ![w] = None]
      /\ pc' = [pc EXCEPT ![w] = l]
      /\ UNCHANGED <<leader, phase, cursor, hot, gcAge, sent, queue>>
  BY Zenon DEF Done, Goto
<1>2. c \in Controller /\ applyMu[c] = w
  BY HostType, Zenon DEF IInv, WInv, Mutex
<1>3. TypeOK'
  <2>1. TypeWorker'
    BY <1>1, Constants, Zenon DEF IInv, TypeOK, TypeWorker, Labels
  <2>2. TypeController'
    BY <1>1, <1>2, Zenon DEF IInv, TypeOK, TypeController
  <2>3. TypeHistory'
    BY <1>1, Zenon DEF IInv, TypeOK, TypeHistory
  <2> QED  BY <2>1, <2>2, <2>3, Zenon DEF TypeOK
<1>4. WInv(w)'
  <2>1. /\ owner'[w] = None /\ held'[w] = Nothing /\ renewal'[w] = "off"
        /\ ~overtaken'[w] /\ pc'[w] = l
    BY <1>1, Zenon DEF IInv, TypeOK, TypeWorker, TypeHistory
  <2>2. pc[w] # "idle"
    BY Zenon DEF Applying
  <2>3. Received(w)'
    BY <1>1, <2>2, SameReceived, Zenon DEF IInv, WInv
  <2>4. /\ phase'[c] = phase[c]
        /\ phase[c] = "serving" \/ (phase[c] = "replay" /\ w \notin Stream)
    <3>1. phase'[c] = phase[c] /\ phase[c] \in {"down", "restore", "replay", "serving"}
      BY <1>1, <1>2, Zenon DEF IInv, TypeOK, TypeController
    <3>2. Control(w)
      BY Zenon DEF IInv, WInv
    <3> QED  BY <2>2, <3>1, <3>2 DEF Control
  <2>5. l = "prune" \/ (l \in {"list", "next"} /\ w \in Controller)
    BY DoneLabel, Zenon
  <2> QED  BY <2>1, <2>3, <2>4, <2>5, Forgot
<1>5. ASSUME NEW v \in Worker, v # w PROVE WInv(v)'
  <2>1. WInv(v) /\ Same(v)
    BY <1>1, <1>5, Zenon DEF IInv, TypeOK, TypeWorker, TypeHistory, Same
  <2>2. TokenKept(v)
    BY ReleasedKept, Zenon
  <2>3. applyMu'[Host(v)] = applyMu[Host(v)] \/ pc[v] \notin Applying
    <3>1. pc[v] \in Applying => Host(v) # c
      BY <1>2, <1>5, <2>1, Zenon DEF WInv, Mutex
    <3> QED  BY <1>1, <3>1, HostType DEF IInv, TypeOK, TypeController
  <2> QED  BY <1>1, <2>1, <2>2, <2>3, Untouched
<1> QED  BY <1>3, <1>4, <1>5 DEF IInv

\* The call returns an error and the inbox stays as it is.
LEMMA QuietFail ==
  ASSUME IInv, NEW w \in Worker, Fail(w), TypeStore',
         UNCHANGED <<clock, inbox, fullRun, appliedAge, acked>>
  PROVE  IInv'
<1>1. Released /\ ReceiptShape' /\ AppliedWasProcessed'
  BY Zenon DEF IInv, Released, ReceiptShape, AppliedWasProcessed, Present, Applied
<1> QED  BY <1>1, FailStep

\* The write guard ends the attempt.
LEMMA GuardRejectStep ==
  ASSUME IInv, NEW w \in Worker, GuardReject(w)
  PROVE  IInv'
<1>1. Fail(w) /\ UNCHANGED <<clock, faults, inboxVars, fullRun, appliedAge, acked>>
  BY Zenon DEF GuardReject
<1> QED  BY <1>1, QuietFail, StoreFrame DEF IInv, TypeOK, inboxVars

\* The receipt was pruned meanwhile.
LEMMA ClaimMissingStep ==
  ASSUME IInv, NEW w \in Worker, ClaimMissing(w)
  PROVE  IInv'
<1>1. Fail(w) /\ UNCHANGED <<clock, faults, inboxVars, fullRun, appliedAge, acked>>
  BY Zenon DEF ClaimMissing
<1> QED  BY <1>1, QuietFail, StoreFrame DEF IInv, TypeOK, inboxVars

\* The renewal's error ends the attempt.
LEMMA RenewalFailedStep ==
  ASSUME IInv, NEW w \in Worker, RenewalFailed(w)
  PROVE  IInv'
<1>1. Fail(w) /\ UNCHANGED <<clock, faults, inboxVars, fullRun, appliedAge, acked>>
  BY Zenon DEF RenewalFailed
<1> QED  BY <1>1, QuietFail, StoreFrame DEF IInv, TypeOK, inboxVars

\* The lease is lost.
LEMMA CheckpointLostStep ==
  ASSUME IInv, NEW w \in Worker, CheckpointLost(w)
  PROVE  IInv'
<1>1. Fail(w) /\ UNCHANGED <<clock, faults, inboxVars, fullRun, appliedAge, acked>>
  BY Zenon DEF CheckpointLost
<1> QED  BY <1>1, QuietFail, StoreFrame DEF IInv, TypeOK, inboxVars

\* An inbox call, a wait or an acknowledgement fails.
LEMMA AbortStep ==
  ASSUME IInv, NEW w \in Worker, Abort(w)
  PROVE  IInv'
<1>1. /\ Fail(w) /\ faults < MaxFaults /\ faults' = faults + 1
      /\ UNCHANGED <<clock, inboxVars, fullRun, appliedAge, acked>>
  BY Zenon DEF Abort, Fault
<1>2. TypeStore'
  BY <1>1, TimeAssumption DEF IInv, TypeOK, TypeStore, inboxVars
<1> QED  BY <1>1, <1>2, QuietFail DEF inboxVars

\* The receipt goes back to committed if the attempt still owns it.
LEMMA MarkFailedStep ==
  ASSUME IInv, NEW w \in Worker, MarkFailed(w)
  PROVE  IInv'
<1> DEFINE i == target[w]
           r == [inbox[i] EXCEPT !.state = "committed", !.owner = None, !.lease = 0]
<1>1. /\ pc[w] = "failed" /\ Fail(w)
      /\ inbox' = IF OwnsLease(w) THEN [inbox EXCEPT ![i] = r] ELSE inbox
      /\ UNCHANGED <<clock, faults, used, fullRun, appliedAge, acked>>
  BY Zenon DEF MarkFailed
<1>2. CASE ~OwnsLease(w)
  BY <1>1, <1>2, QuietFail, StoreFrame, Zenon DEF IInv, TypeOK
<1>3. CASE OwnsLease(w)
  <2>1. i \in Identity /\ inbox[i].state = "applying"
    BY <1>1, <1>3, Zenon DEF IInv, WInv, Control, Applying, OwnsLease
  <2>2. inbox[i] \in Receipt /\ inbox[i].batch \in Batch /\ 0 \in 0 .. Lease + MaxSkew
    BY <2>1, TimeAssumption DEF IInv, TypeOK, TypeStore, ReceiptShape, Present
  <2>3. r \in Receipt /\ r.state = "committed" /\ r.owner = None /\ r.batch \in Batch
    BY <2>2, Zenon DEF Receipt
  <2> HIDE DEF r, i
  <2>4. /\ inbox' \in [Identity -> Receipt] /\ inbox'[i] = r
        /\ \A j \in Identity \ {i} : inbox'[j] = inbox[j]
    BY <1>1, <1>3, <2>1, <2>3, Overwrite, Zenon DEF IInv, TypeOK
  <2>5. TypeStore' /\ Released
    BY <1>1, <2>3, <2>4, Zenon DEF IInv, TypeOK, TypeStore, Released
  <2>6. ReceiptShape' /\ AppliedWasProcessed'
    BY <1>1, <2>3, <2>4, Zenon
       DEF IInv, ReceiptShape, AppliedWasProcessed, Present, Applied
  <2> QED  BY <1>1, <2>5, <2>6, FailStep
<1> QED  BY <1>2, <1>3

\* The receipt is applied already.
LEMMA ClaimAppliedStep ==
  ASSUME IInv, NEW w \in Worker, ClaimApplied(w)
  PROVE  IInv'
<1>1. /\ pc[w] = "claim" /\ Done(w)
      /\ UNCHANGED <<clock, faults, inbox, fullRun, appliedAge, acked, base>>
  BY Zenon DEF ClaimApplied, inboxVars
<1>2. Released /\ ReceiptShape' /\ AppliedWasProcessed'
  BY <1>1, Zenon DEF IInv, Released, ReceiptShape, AppliedWasProcessed, Present, Applied
<1>3. /\ TypeStore' /\ pc[w] \in Applying
      /\ appliedAge' \in [Batch -> 0 .. Never] /\ base' \in [Controller -> SUBSET Batch]
  BY <1>1, Zenon DEF IInv, TypeOK, TypeStore, TypeHistory, Applying
<1> QED  BY <1>1, <1>2, <1>3, DoneStep

\* The attempt that owns the receipt ran the processors on it.
LEMMA MarkAppliedStep ==
  ASSUME IInv, NEW w \in Worker, MarkApplied(w)
  PROVE  IInv'
<1> DEFINE i == target[w]
           a == MaxSkew - Skew[Host(w)]
           r == [inbox[i] EXCEPT !.state = "applied", !.owner = None, !.lease = 0,
                                 !.age = a]
<1>1. /\ pc[w] = "checkpoint" /\ OwnsLease(w) /\ Done(w)
      /\ inbox' = [inbox EXCEPT ![i] = r]
      /\ appliedAge' = [appliedAge EXCEPT ![inbox[i].batch] = 0]
      /\ base' = [base EXCEPT ![Host(w)] = @ \cup {inbox[i].batch}]
      /\ UNCHANGED <<clock, faults, used, fullRun, acked>>
  BY Zenon DEF MarkApplied
<1>2. i \in Identity /\ inbox[i].state = "applying" /\ pc[w] \in Applying
  BY <1>1, Zenon DEF IInv, WInv, Control, Applying, OwnsLease
<1>3. fullRun[i]
  <2>1. owner[w] # None /\ inbox[i].owner = owner[w]
    BY <1>1, <1>2, NotNone, Zenon DEF IInv, WInv, Mutex, OwnsLease
  <2> QED  BY <1>1, <1>2, <2>1 DEF IInv, WInv, Claimed
<1>4. /\ inbox[i] \in Receipt /\ inbox[i].batch \in Batch
      /\ 0 \in 0 .. Lease + MaxSkew /\ a \in 0 .. AgeCap
  BY <1>2, HostType, TimeAssumption
     DEF IInv, TypeOK, TypeStore, ReceiptShape, Present, AgeCap
<1> HIDE DEF a
<1>5. r \in Receipt /\ r.state = "applied" /\ r.owner = None /\ r.batch \in Batch
  BY <1>4, Zenon DEF Receipt
<1> HIDE DEF r, i
<1>6. /\ inbox' \in [Identity -> Receipt] /\ inbox'[i] = r
      /\ \A j \in Identity \ {i} : inbox'[j] = inbox[j]
  BY <1>1, <1>2, <1>5, Overwrite, Zenon DEF IInv, TypeOK
<1>7. TypeStore' /\ Released
  BY <1>1, <1>5, <1>6, Zenon DEF IInv, TypeOK, TypeStore, Released
<1>8. ReceiptShape' /\ AppliedWasProcessed'
  BY <1>1, <1>3, <1>5, <1>6, Zenon
     DEF IInv, ReceiptShape, AppliedWasProcessed, Present, Applied
<1>9. /\ appliedAge' \in [Batch -> 0 .. Never]
      /\ base' \in [Controller -> SUBSET Batch]
  BY <1>1, <1>4, HostType, TimeAssumption DEF IInv, TypeOK, TypeHistory, Never
<1> QED  BY <1>1, <1>2, <1>7, <1>8, <1>9, DoneStep

-----------------------------------------------------------------------------
(* The steps of a worker that touch neither the inbox nor any other worker. *)

\* Inbox.Commit refuses: the stream ends.
LEMMA CommitRefusedStep ==
  ASSUME IInv, NEW w \in Worker, CommitRefused(w)
  PROVE  IInv'
<1>1. /\ pc[w] = "commit" /\ pc' = [pc EXCEPT ![w] = "idle"]
      /\ sent' = [sent EXCEPT ![w] = Nothing]
      /\ UNCHANGED <<clock, faults, inboxVars, ctlVars, target, owner, held, renewal,
                    queue, ghostVars>>
  BY Zenon DEF CommitRefused, Goto
<1>3. pc'[w] = "idle" /\ target'[w] = target[w] /\ renewal'[w] = renewal[w]
  BY <1>1, Zenon DEF IInv, TypeOK, TypeWorker
<1>4. TypeOK'
  <2>1. TypeWorker'
    BY <1>1, Constants, Zenon DEF IInv, TypeOK, TypeWorker, Labels
  <2> QED  BY <1>1, <2>1, WorkerOnly, Zenon
<1>5. Local(w)
  BY <1>1, Zenon DEF IInv, TypeOK, TypeWorker, Local, inboxVars, ctlVars, ghostVars
<1>6. Moves(w)
  <2>1. Received(w)'
    BY <1>3, Zenon DEF Received
  <2> QED  BY <1>1, <1>3, <2>1, Zenon DEF Moves, Applying, Holding
<1> QED  BY <1>4, <1>5, <1>6, LocalStep, Zenon

\* A duplicate goes on to applyReceipt.
LEMMA CommitDuplicateStep ==
  ASSUME IInv, NEW w \in Worker, CommitDuplicate(w)
  PROVE  IInv'
<1>1. /\ pc[w] = "commit" /\ pc' = [pc EXCEPT ![w] = "lock"]
      /\ target' = [target EXCEPT ![w] = IdentityOf[sent[w].batch]]
      /\ UNCHANGED <<clock, faults, inboxVars, ctlVars, sent, owner, held, renewal,
                    queue, ghostVars>>
  BY Zenon DEF CommitDuplicate, Goto
<1>2. IdentityOf[sent[w].batch] \in Identity
  BY <1>1, BatchAssumption, Zenon DEF IInv, WInv, Control, Received
<1>3. /\ pc'[w] = "lock" /\ target'[w] = IdentityOf[sent[w].batch]
      /\ renewal'[w] = renewal[w] /\ sent'[w] = sent[w]
  BY <1>1, Zenon DEF IInv, TypeOK, TypeWorker
<1>4. TypeOK'
  <2>1. TypeWorker'
    BY <1>1, <1>2, Zenon DEF IInv, TypeOK, TypeWorker, Labels
  <2> QED  BY <1>1, <2>1, WorkerOnly, Zenon
<1>5. Local(w)
  BY <1>1, Zenon DEF IInv, TypeOK, TypeWorker, Local, inboxVars, ctlVars, ghostVars
<1>6. Moves(w)
  <2>1. Received(w)'
    BY <1>1, <1>3, SameReceived, Zenon DEF IInv, WInv
  <2> QED  BY <1>1, <1>3, <1>2, <2>1, Zenon DEF Moves, Applying, Holding
<1> QED  BY <1>4, <1>5, <1>6, LocalStep, Zenon

\* The write guard lets the attempt go on.
LEMMA GuardPassStep ==
  ASSUME IInv, NEW w \in Worker, GuardPass(w)
  PROVE  IInv'
<1>1. /\ pc[w] = "guard" /\ pc' = [pc EXCEPT ![w] = "claim"]
      /\ UNCHANGED <<clock, faults, inboxVars, ctlVars, sent, target, owner, held,
                    renewal, queue, ghostVars>>
  BY Zenon DEF GuardPass, Goto
<1>3. /\ pc'[w] = "claim" /\ target'[w] = target[w] /\ sent'[w] = sent[w]
      /\ renewal'[w] = renewal[w]
  BY <1>1, Zenon DEF IInv, TypeOK, TypeWorker
<1>4. TypeOK'
  <2>1. TypeWorker'
    BY <1>1, Zenon DEF IInv, TypeOK, TypeWorker, Labels
  <2> QED  BY <1>1, <2>1, WorkerOnly, Zenon
<1>5. Local(w)
  BY <1>1, Zenon DEF IInv, TypeOK, TypeWorker, Local, inboxVars, ctlVars, ghostVars
<1>6. Moves(w)
  <2>1. Received(w)'
    BY <1>1, <1>3, SameReceived, Zenon DEF IInv, WInv
  <2> QED  BY <1>1, <1>3, <2>1, Zenon DEF Moves, Applying, Holding
<1> QED  BY <1>4, <1>5, <1>6, LocalStep, Zenon

\* Another attempt holds the lease.
LEMMA ClaimWaitStep ==
  ASSUME IInv, NEW w \in Worker, ClaimWait(w)
  PROVE  IInv'
<1>1. /\ pc[w] = "claim" /\ pc' = [pc EXCEPT ![w] = "guard"]
      /\ UNCHANGED <<clock, faults, inboxVars, ctlVars, sent, target, owner, held,
                    renewal, queue, ghostVars>>
  BY Zenon DEF ClaimWait, Goto
<1>3. /\ pc'[w] = "guard" /\ target'[w] = target[w] /\ sent'[w] = sent[w]
      /\ renewal'[w] = renewal[w]
  BY <1>1, Zenon DEF IInv, TypeOK, TypeWorker
<1>4. TypeOK'
  <2>1. TypeWorker'
    BY <1>1, Zenon DEF IInv, TypeOK, TypeWorker, Labels
  <2> QED  BY <1>1, <2>1, WorkerOnly, Zenon
<1>5. Local(w)
  BY <1>1, Zenon DEF IInv, TypeOK, TypeWorker, Local, inboxVars, ctlVars, ghostVars
<1>6. Moves(w)
  <2>1. Received(w)'
    BY <1>1, <1>3, SameReceived, Zenon DEF IInv, WInv
  <2> QED  BY <1>1, <1>3, <2>1, Zenon DEF Moves, Applying, Holding
<1> QED  BY <1>4, <1>5, <1>6, LocalStep, Zenon

\* The hot store takes the claimed copy.
LEMMA HotStateStep ==
  ASSUME IInv, NEW w \in Worker, HotState(w)
  PROVE  IInv'
<1>1. /\ pc[w] = "hot" /\ pc' = [pc EXCEPT ![w] = "process"]
      /\ hot' = [hot EXCEPT ![Host(w)] = Materialize(@, held[w])]
      /\ UNCHANGED <<clock, faults, inboxVars, leader, phase, cursor, gcAge, applyMu,
                    sent, target, owner, held, renewal, queue, ghostVars>>
  BY Zenon DEF HotState, Goto
<1>2. held[w].batch \in Batch /\ held[w].at \in Stamps
  BY <1>1, Zenon DEF IInv, TypeOK, TypeWorker, WInv, Control, Holding, Stamped
<1>3. /\ pc'[w] = "process" /\ target'[w] = target[w] /\ sent'[w] = sent[w]
      /\ renewal'[w] = renewal[w]
  BY <1>1, Zenon DEF IInv, TypeOK, TypeWorker
<1>4. TypeOK'
  <2>1. TypeWorker'
    BY <1>1, Zenon DEF IInv, TypeOK, TypeWorker, Labels
  <2>2. TypeController'
    BY <1>1, <1>2, HostType, MaterializeType, Zenon DEF IInv, TypeOK, TypeController
  <2> QED  BY <1>1, <2>1, <2>2, StoreFrame, HistoryFrame, Zenon DEF IInv, TypeOK, inboxVars
<1>5. Local(w)
  BY <1>1, Zenon DEF IInv, TypeOK, TypeWorker, Local, inboxVars, ctlVars, ghostVars
<1>6. Moves(w)
  <2>1. Received(w)'
    BY <1>1, <1>3, SameReceived, Zenon DEF IInv, WInv
  <2> QED  BY <1>1, <1>3, <2>1, Zenon DEF Moves, Applying, Holding
<1> QED  BY <1>4, <1>5, <1>6, LocalStep, Zenon

\* The renewal ends without error.
LEMMA FinishLeaseStep ==
  ASSUME IInv, NEW w \in Worker, FinishLease(w)
  PROVE  IInv'
<1>1. /\ pc[w] = "finish" /\ pc' = [pc EXCEPT ![w] = "checkpoint"]
      /\ renewal' = [renewal EXCEPT ![w] = "off"]
      /\ UNCHANGED <<clock, faults, inboxVars, ctlVars, sent, target, owner, held, queue,
                    ghostVars>>
  BY Zenon DEF FinishLease, Goto
<1>3. pc'[w] = "checkpoint" /\ target'[w] = target[w] /\ sent'[w] = sent[w]
  BY <1>1, Zenon DEF IInv, TypeOK, TypeWorker
<1>4. TypeOK'
  <2>1. TypeWorker'
    BY <1>1, Zenon DEF IInv, TypeOK, TypeWorker, Labels
  <2> QED  BY <1>1, <2>1, WorkerOnly, Zenon
<1>5. Local(w)
  BY <1>1, Zenon DEF IInv, TypeOK, TypeWorker, Local, inboxVars, ctlVars, ghostVars
<1>6. Moves(w)
  <2>1. Received(w)'
    BY <1>1, <1>3, SameReceived, Zenon DEF IInv, WInv
  <2> QED  BY <1>1, <1>3, <2>1, Zenon DEF Moves, Applying, Holding
<1> QED  BY <1>4, <1>5, <1>6, LocalStep, Zenon

\* It is too early to prune.
LEMMA PruneSkipStep ==
  ASSUME IInv, NEW w \in Worker, PruneSkip(w)
  PROVE  IInv'
<1>1. /\ pc[w] = "prune"
      /\ pc' = [pc EXCEPT ![w] = IF w \in Stream THEN "ack" ELSE "idle"]
      /\ UNCHANGED <<clock, faults, inboxVars, ctlVars, sent, target, owner, held,
                    renewal, queue, ghostVars>>
  BY Zenon DEF PruneSkip, AfterPrune, Goto
<1>3. /\ pc'[w] = IF w \in Stream THEN "ack" ELSE "idle"
      /\ target'[w] = target[w] /\ sent'[w] = sent[w] /\ renewal'[w] = renewal[w]
  BY <1>1, Zenon DEF IInv, TypeOK, TypeWorker
<1>4. TypeOK'
  <2>1. TypeWorker'
    BY <1>1, Zenon DEF IInv, TypeOK, TypeWorker, Labels
  <2> QED  BY <1>1, <2>1, WorkerOnly, Zenon
<1>5. Local(w)
  BY <1>1, Zenon DEF IInv, TypeOK, TypeWorker, Local, inboxVars, ctlVars, ghostVars
<1>6. Moves(w)
  <2>1. Received(w)'
    BY <1>1, <1>3, SameReceived, Zenon DEF IInv, WInv
  <2> QED  BY <1>1, <1>3, <2>1 DEF Moves, Applying, Holding
<1> QED  BY <1>4, <1>5, <1>6, LocalStep, Zenon

\* The batch is acknowledged.
LEMMA AckStep ==
  ASSUME IInv, NEW w \in Worker, Ack(w)
  PROVE  IInv'
<1>1. /\ pc[w] = "ack" /\ pc' = [pc EXCEPT ![w] = "idle"]
      /\ sent' = [sent EXCEPT ![w] = Nothing]
      /\ acked' = acked \cup {sent[w].batch}
      /\ UNCHANGED <<clock, faults, inboxVars, ctlVars, target, owner, held, renewal,
                    queue, overtaken, fullRun, appliedAge, base>>
  BY Zenon DEF Ack, Goto
<1>2. sent[w].batch \in Batch
  BY <1>1, Zenon DEF IInv, WInv, Control, Received
<1>3. pc'[w] = "idle" /\ target'[w] = target[w] /\ renewal'[w] = renewal[w]
  BY <1>1, Zenon DEF IInv, TypeOK, TypeWorker
<1>4. TypeOK'
  <2>1. TypeWorker'
    BY <1>1, Constants, Zenon DEF IInv, TypeOK, TypeWorker, Labels
  <2>2. TypeHistory'
    BY <1>1, <1>2, Zenon DEF IInv, TypeOK, TypeHistory
  <2> QED  BY <1>1, <2>1, <2>2, StoreFrame, ControllerFrame, Zenon DEF IInv, TypeOK, inboxVars
<1>5. Local(w)
  BY <1>1, Zenon DEF IInv, TypeOK, TypeWorker, Local, inboxVars, ctlVars, ghostVars
<1>6. Moves(w)
  <2>1. Received(w)'
    BY <1>3, Zenon DEF Received
  <2> QED  BY <1>1, <1>3, <2>1, Zenon DEF Moves, Applying, Holding
<1> QED  BY <1>4, <1>5, <1>6, LocalStep, Zenon

\* A stream receives a batch.
LEMMA RecvStep ==
  ASSUME IInv, NEW w \in Worker, NEW b \in Batch, Recv(w, b)
  PROVE  IInv'
<1>1. /\ pc[w] = "idle" /\ pc' = [pc EXCEPT ![w] = "commit"]
      /\ w \in Stream /\ phase[Host(w)] = "serving"
      /\ sent' = [sent EXCEPT ![w] = [batch |-> b, at |-> Now(Host(w))]]
      /\ UNCHANGED <<clock, faults, inboxVars, ctlVars, target, owner, held, renewal,
                    queue, ghostVars>>
  BY Zenon DEF Recv, Goto
<1>2. /\ Now(Host(w)) \in Stamps /\ Now(Host(w)) <= Now(Host(w))
      /\ Now(Host(w))' = Now(Host(w))
  BY <1>1, HostType, NowType, TimeAssumption DEF IInv, TypeOK, Stamps, Now, Host
<1>3. /\ pc'[w] = "commit" /\ target'[w] = target[w] /\ renewal'[w] = renewal[w]
      /\ sent'[w] = [batch |-> b, at |-> Now(Host(w))]
  BY <1>1, Zenon DEF IInv, TypeOK, TypeWorker
<1>4. TypeOK'
  <2>1. TypeWorker'
    BY <1>1, <1>2, Zenon DEF IInv, TypeOK, TypeWorker, Labels, Stamped
  <2> QED  BY <1>1, <2>1, WorkerOnly, Zenon
<1>5. Local(w)
  BY <1>1, Zenon DEF IInv, TypeOK, TypeWorker, Local, inboxVars, ctlVars, ghostVars
<1>6. Moves(w)
  <2>1. Received(w)'
    BY <1>2, <1>3 DEF Received, Host
  <2> QED  BY <1>1, <1>3, <2>1, Zenon DEF Moves, Applying, Holding
<1> QED  BY <1>4, <1>5, <1>6, LocalStep, Zenon

\* The renewal fails.
LEMMA RenewErrorStep ==
  ASSUME IInv, NEW w \in Worker, RenewError(w)
  PROVE  IInv'
<1>1. /\ renewal[w] = "on" /\ faults < MaxFaults /\ faults' = faults + 1
      /\ renewal' = [renewal EXCEPT ![w] = "error"]
      /\ UNCHANGED <<clock, inboxVars, ctlVars, pc, sent, target, owner, held, queue,
                    ghostVars>>
  BY Zenon DEF RenewError, Fault
<1>3. pc'[w] = pc[w] /\ target'[w] = target[w] /\ sent'[w] = sent[w]
  BY <1>1, Zenon DEF IInv, TypeOK, TypeWorker
<1>4. TypeOK'
  <2>1. TypeWorker'
    BY <1>1, Zenon DEF IInv, TypeOK, TypeWorker, Labels
  <2>2. TypeStore'
    BY <1>1, TimeAssumption DEF IInv, TypeOK, TypeStore, inboxVars
  <2> QED  BY <1>1, <2>1, <2>2, ControllerFrame, HistoryFrame, Zenon DEF IInv, TypeOK
<1>5. Local(w)
  BY <1>1, Zenon DEF IInv, TypeOK, TypeWorker, Local, inboxVars, ctlVars, ghostVars
<1>6. Moves(w)
  <2>1. Received(w)'
    BY <1>1, <1>3, SameReceived, Zenon DEF IInv, WInv
  <2>2. pc[w] \in Holding
    BY <1>1, Zenon DEF IInv, WInv, Control
  <2> QED  BY <1>3, <2>1, <2>2, Zenon DEF Moves, Holding
<1> QED  BY <1>4, <1>5, <1>6, LocalStep, Zenon

\* The recovery loop starts a pass.
LEMMA RecoveryTickStep ==
  ASSUME IInv, NEW w \in Worker, w \in Controller, RecoveryTick(w)
  PROVE  IInv'
<1>1. /\ pc[w] = "idle" /\ pc' = [pc EXCEPT ![w] = "list"] /\ phase[w] = "serving"
      /\ UNCHANGED <<clock, faults, inboxVars, ctlVars, sent, target, owner, held,
                    renewal, queue, ghostVars>>
  BY Zenon DEF RecoveryTick, Goto
<1>2. w \notin Stream /\ Host(w) = w
  BY WorkerAssumption, Zenon DEF Host
<1>3. /\ pc'[w] = "list" /\ target'[w] = target[w] /\ sent'[w] = sent[w]
      /\ renewal'[w] = renewal[w]
  BY <1>1, Zenon DEF IInv, TypeOK, TypeWorker
<1>4. TypeOK'
  <2>1. TypeWorker'
    BY <1>1, Zenon DEF IInv, TypeOK, TypeWorker, Labels
  <2> QED  BY <1>1, <2>1, WorkerOnly, Zenon
<1>5. Local(w)
  BY <1>1, Zenon DEF IInv, TypeOK, TypeWorker, Local, inboxVars, ctlVars, ghostVars
<1>6. Moves(w)
  <2>1. Received(w)'
    BY <1>2, Zenon DEF Received
  <2> QED  BY <1>1, <1>3, <1>2, <2>1, Zenon DEF Moves, Applying, Holding
<1> QED  BY <1>4, <1>5, <1>6, LocalStep, Zenon

\* ReplayPending has a page.
LEMMA ListPendingStep ==
  ASSUME IInv, NEW w \in Worker, w \in Controller, ListPending(w)
  PROVE  IInv'
<1>1. /\ pc[w] = "list" /\ pc' = [pc EXCEPT ![w] = "next"]
      /\ queue' = [queue EXCEPT ![w] = Pending(w)]
      /\ UNCHANGED <<clock, faults, inboxVars, ctlVars, sent, target, owner, held,
                    renewal, ghostVars>>
  BY Zenon DEF ListPending, Goto
<1>3. /\ pc'[w] = "next" /\ target'[w] = target[w] /\ sent'[w] = sent[w]
      /\ renewal'[w] = renewal[w]
  BY <1>1, Zenon DEF IInv, TypeOK, TypeWorker
<1>4. TypeOK'
  <2>1. TypeWorker'
    BY <1>1, Zenon DEF IInv, TypeOK, TypeWorker, Labels, Pending
  <2> QED  BY <1>1, <2>1, WorkerOnly, Zenon
<1>5. Local(w)
  BY <1>1, Zenon DEF IInv, TypeOK, TypeWorker, Local, inboxVars, ctlVars, ghostVars
<1>6. Moves(w)
  <2>1. Received(w)'
    BY <1>1, <1>3, SameReceived, Zenon DEF IInv, WInv
  <2> QED  BY <1>1, <1>3, <2>1, Zenon DEF Moves, Applying, Holding
<1> QED  BY <1>4, <1>5, <1>6, LocalStep, Zenon

\* ReplayPending takes a receipt of its page.
LEMMA NextPendingStep ==
  ASSUME IInv, NEW w \in Worker, NextPending(w)
  PROVE  IInv'
<1>1. /\ pc[w] = "next" /\ pc' = [pc EXCEPT ![w] = "lock"]
      /\ UNCHANGED <<clock, faults, inboxVars, ctlVars, sent, owner, held, renewal,
                    ghostVars>>
  BY Zenon DEF NextPending, Goto
<1>2. PICK i \in queue[w] : /\ target' = [target EXCEPT ![w] = i]
                             /\ queue' = [queue EXCEPT ![w] = @ \ {i}]
  BY Zenon DEF NextPending
<1>i. i \in Identity
  BY Zenon DEF IInv, TypeOK, TypeWorker
<1>3. /\ pc'[w] = "lock" /\ target'[w] = i /\ sent'[w] = sent[w]
      /\ renewal'[w] = renewal[w]
  BY <1>1, <1>2, Zenon DEF IInv, TypeOK, TypeWorker
<1>4. TypeOK'
  <2>1. TypeWorker'
    BY <1>1, <1>2, <1>i, Zenon DEF IInv, TypeOK, TypeWorker, Labels
  <2> QED  BY <1>1, <2>1, WorkerOnly, Zenon
<1>5. Local(w)
  BY <1>1, <1>2, Zenon DEF IInv, TypeOK, TypeWorker, Local, inboxVars, ctlVars, ghostVars
<1>6. Moves(w)
  <2>1. Received(w)'
    BY <1>1, <1>3, SameReceived, Zenon DEF IInv, WInv
  <2> QED  BY <1>1, <1>3, <1>i, <2>1, Zenon DEF Moves, Applying, Holding
<1> QED  BY <1>4, <1>5, <1>6, LocalStep, Zenon

\* Inbox.Prune fails.
LEMMA PruneErrorStep ==
  ASSUME IInv, NEW w \in Worker, PruneError(w)
  PROVE  IInv'
<1>1. /\ pc[w] = "prune"
      /\ pc' = [pc EXCEPT ![w] = IF w \in Stream THEN "ack" ELSE "idle"]
      /\ faults < MaxFaults /\ faults' = faults + 1
      /\ gcAge' = [gcAge EXCEPT ![Host(w)] = Lag(w)]
      /\ UNCHANGED <<clock, inboxVars, leader, phase, cursor, hot, applyMu, sent, target,
                    owner, held, renewal, queue, ghostVars>>
  BY Zenon DEF PruneError, AfterPrune, Goto, Fault
<1>2. Lag(w) \in 0 .. GCCap
  BY <1>1, LagType, Zenon DEF PruneError
<1>3. /\ pc'[w] = IF w \in Stream THEN "ack" ELSE "idle"
      /\ target'[w] = target[w] /\ sent'[w] = sent[w] /\ renewal'[w] = renewal[w]
  BY <1>1, Zenon DEF IInv, TypeOK, TypeWorker
<1>4. TypeOK'
  <2>1. TypeWorker'
    BY <1>1, Zenon DEF IInv, TypeOK, TypeWorker, Labels
  <2>2. TypeStore'
    BY <1>1, TimeAssumption DEF IInv, TypeOK, TypeStore, inboxVars
  <2>3. TypeController'
    BY <1>1, <1>2, HostType, Zenon DEF IInv, TypeOK, TypeController
  <2> QED  BY <1>1, <2>1, <2>2, <2>3, HistoryFrame, Zenon DEF IInv, TypeOK
<1>5. Local(w)
  BY <1>1, Zenon DEF IInv, TypeOK, TypeWorker, Local, inboxVars, ctlVars, ghostVars
<1>6. Moves(w)
  <2>1. Received(w)'
    BY <1>1, <1>3, SameReceived, Zenon DEF IInv, WInv
  <2> QED  BY <1>1, <1>3, <2>1 DEF Moves, Applying, Holding
<1> QED  BY <1>4, <1>5, <1>6, LocalStep, Zenon

-----------------------------------------------------------------------------
(* The steps of a worker that change the inbox, the mutex or the claim. *)

\* A new receipt.
LEMMA CommitCreatedStep ==
  ASSUME IInv, NEW w \in Worker, CommitCreated(w)
  PROVE  IInv'
<1> DEFINE b == sent[w].batch
           i == IdentityOf[b]
           r == [NoReceipt EXCEPT !.state = "committed", !.batch = b,
                                  !.at = sent[w].at]
<1>1. /\ pc[w] = "commit" /\ pc' = [pc EXCEPT ![w] = "lock"]
      /\ inbox' = [inbox EXCEPT ![i] = r]
      /\ target' = [target EXCEPT ![w] = i]
      /\ fullRun' = [fullRun EXCEPT ![i] = FALSE]
      /\ UNCHANGED <<clock, faults, ctlVars, sent, owner, held, renewal, queue,
                     overtaken, appliedAge, acked, base>>
  BY Zenon DEF CommitCreated, Goto
<1>2. w \in Stream /\ b \in Batch /\ i \in Identity /\ sent[w].at \in Stamps
  BY <1>1, BatchAssumption, Zenon
     DEF IInv, TypeOK, TypeWorker, Stamped, WInv, Control, Received
<1>3. r \in Receipt /\ r.state = "committed" /\ r.owner = None /\ r.batch = b
  BY <1>2, NewReceipt, Zenon
<1> HIDE DEF r, b, i
<1>4. /\ inbox' \in [Identity -> Receipt] /\ inbox'[i] = r
      /\ \A j \in Identity \ {i} : inbox'[j] = inbox[j]
  BY <1>1, <1>2, <1>3, Overwrite, Zenon DEF IInv, TypeOK
<1>5. /\ fullRun' \in [Identity -> BOOLEAN]
      /\ \A j \in Identity \ {i} : fullRun'[j] = fullRun[j]
  BY <1>1, <1>2, Zenon DEF IInv, TypeOK, TypeHistory
<1>6. TypeOK'
  <2>1. TypeWorker'
    BY <1>1, <1>2, Zenon DEF IInv, TypeOK, TypeWorker, Labels
  <2>2. TypeStore' /\ TypeHistory'
    BY <1>1, <1>4, <1>5, Zenon DEF IInv, TypeOK, TypeStore, TypeHistory
  <2> QED  BY <1>1, <2>1, <2>2, ControllerFrame, Zenon DEF IInv, TypeOK
<1>7. Others(w)
  BY <1>1, Zenon DEF IInv, TypeOK, TypeWorker, Others, Same
<1>8. ASSUME NEW v \in Worker PROVE TokenKept(v)
  BY <1>3, <1>4, <1>5, Zenon DEF TokenKept
<1>9. WInv(w)'
  <2>1. /\ pc'[w] = "lock" /\ target'[w] = i /\ sent'[w] = sent[w]
        /\ owner'[w] = owner[w] /\ held'[w] = held[w] /\ renewal'[w] = renewal[w]
        /\ overtaken'[w] = overtaken[w] /\ phase'[Host(w)] = phase[Host(w)]
    BY <1>1, Zenon DEF IInv, TypeOK, TypeWorker, ctlVars
  <2>2. Control(w) /\ Received(w) /\ owner[w] = None
    BY <1>1, Zenon DEF IInv, WInv, Mutex, Applying
  <2>3. Control(w)'
    BY <1>1, <1>2, <2>1, <2>2, Zenon DEF Control, Applying, Holding, Host
  <2>4. Received(w)'
    BY <1>1, <2>1, <2>2, SameReceived, Zenon
  <2> QED  BY <2>1, <2>2, <2>3, <2>4 DEF WInv, Mutex, Claimed, Applying
<1>10. ReceiptShape' /\ AppliedWasProcessed'
  BY <1>2, <1>3, <1>4, <1>5
     DEF IInv, ReceiptShape, AppliedWasProcessed, Present, Applied
<1> QED  BY <1>1, <1>6, <1>7, <1>8, <1>9, <1>10, InboxStep DEF ctlVars

\* applyMu is free, so nobody else at this controller is inside.
LEMMA LockStep ==
  ASSUME IInv, NEW w \in Worker, Lock(w)
  PROVE  IInv'
<1> DEFINE c == Host(w)
<1>1. /\ pc[w] = "lock" /\ pc' = [pc EXCEPT ![w] = "guard"] /\ applyMu[c] = None
      /\ applyMu' = [applyMu EXCEPT ![c] = w]
      /\ UNCHANGED <<clock, faults, inboxVars, leader, phase, cursor, hot, gcAge,
                     sent, target, held, renewal, queue, ghostVars>>
  BY Zenon DEF Lock, Goto
<1>2. PICK n \in Nonce : /\ owner' = [owner EXCEPT ![w] = <<w, n>>]
                         /\ \A i \in Identity : inbox[i].owner # <<w, n>>
  BY Zenon DEF Lock, FreshNonces
<1>3. c \in Controller
  BY HostType, Zenon
<1>4. TypeOK'
  <2>1. TypeWorker'
    BY <1>1, <1>2, Zenon DEF IInv, TypeOK, TypeWorker, Labels, Token
  <2>2. TypeController'
    BY <1>1, <1>3, Zenon DEF IInv, TypeOK, TypeController
  <2> QED
    BY <1>1, <2>1, <2>2, StoreFrame, HistoryFrame, Zenon DEF IInv, TypeOK, inboxVars
<1>5. ASSUME NEW v \in Worker, v # w PROVE WInv(v)'
  <2>1. WInv(v) /\ Same(v)
    BY <1>1, <1>2, <1>5 DEF IInv, TypeOK, TypeWorker, Same, ghostVars
  <2>2. TokenKept(v)
    BY <1>1, Zenon DEF TokenKept, inboxVars, ghostVars
  <2>3. applyMu'[Host(v)] = applyMu[Host(v)] \/ pc[v] \notin Applying
    BY <1>1, <1>3, <2>1, HostType, NotNone
       DEF IInv, TypeOK, TypeController, WInv, Mutex
  <2> QED  BY <1>1, <2>1, <2>2, <2>3, Untouched
<1>6. WInv(w)'
  <2>1. /\ pc'[w] = "guard" /\ target'[w] = target[w] /\ sent'[w] = sent[w]
        /\ owner'[w] = <<w, n>> /\ held'[w] = held[w] /\ renewal'[w] = renewal[w]
        /\ overtaken'[w] = overtaken[w] /\ phase'[c] = phase[c]
        /\ applyMu'[c] = w
    BY <1>1, <1>2, <1>3, Zenon
       DEF IInv, TypeOK, TypeWorker, TypeController, ghostVars
  <2>2. Control(w) /\ Received(w)
    BY Zenon DEF IInv, WInv
  <2>3. Control(w)'
    BY <1>1, <2>1, <2>2, Zenon DEF Control, Applying, Holding, Host
  <2>4. Received(w)'
    BY <1>1, <2>1, <2>2, SameReceived, Zenon
  <2>5. Mutex(w)'
    BY <2>1, SMTT(40) DEF Mutex, Applying, Host
  <2>6. Claimed(w)'
    BY <1>1, <1>2, <2>1, Zenon DEF Claimed, inboxVars
  <2> QED  BY <2>3, <2>4, <2>5, <2>6, Zenon DEF WInv
<1>7. ReceiptShape' /\ AppliedWasProcessed'
  BY <1>1, Zenon DEF IInv, ReceiptShape, AppliedWasProcessed, Present, Applied,
              inboxVars, ghostVars
<1> QED  BY <1>4, <1>5, <1>6, <1>7 DEF IInv

\* The processors ran; they took the batch of the receipt unless they panicked.
LEMMA ProcessStep ==
  ASSUME IInv, NEW w \in Worker, Process(w)
  PROVE  IInv'
<1> DEFINE i == target[w]
           panics == held[w].batch \in Poison
<1>1. /\ pc[w] = "process"
      /\ pc' = [pc EXCEPT ![w] = IF panics THEN "failed" ELSE "finish"]
      /\ fullRun' = [fullRun EXCEPT
           ![i] = @ \/ (~panics /\ inbox[i].batch = held[w].batch)]
      /\ UNCHANGED <<clock, faults, inboxVars, ctlVars, sent, target, owner,
                     held, renewal, queue, overtaken, appliedAge, acked, base>>
  BY Zenon DEF Process, Goto
<1>2. i \in Identity
  BY <1>1, Zenon DEF IInv, WInv, Control, Applying
<1>3. /\ fullRun' \in [Identity -> BOOLEAN]
      /\ \A j \in Identity : fullRun[j] => fullRun'[j]
      /\ ~panics /\ inbox[i].batch = held[w].batch => fullRun'[i]
  BY <1>1, <1>2, Zenon DEF IInv, TypeOK, TypeHistory
<1>4. TypeOK'
  <2>1. TypeWorker'
    BY <1>1, Zenon DEF IInv, TypeOK, TypeWorker, Labels
  <2>2. TypeHistory'
    BY <1>1, <1>3, Zenon DEF IInv, TypeOK, TypeHistory
  <2> QED
    BY <1>1, <2>1, <2>2, StoreFrame, ControllerFrame, Zenon
       DEF IInv, TypeOK, inboxVars
<1>5. Others(w) /\ \A v \in Worker : TokenKept(v)
  BY <1>1, <1>3, Zenon DEF IInv, TypeOK, TypeWorker, Others, Same, TokenKept, inboxVars
<1>6. WInv(w)'
  <2>1. /\ pc'[w] = IF panics THEN "failed" ELSE "finish"
        /\ target'[w] = i /\ sent'[w] = sent[w] /\ owner'[w] = owner[w]
        /\ held'[w] = held[w] /\ renewal'[w] = renewal[w]
        /\ overtaken'[w] = overtaken[w] /\ phase'[Host(w)] = phase[Host(w)]
        /\ applyMu'[Host(w)] = applyMu[Host(w)] /\ inbox' = inbox
    BY <1>1, Zenon DEF IInv, TypeOK, TypeWorker, ctlVars, inboxVars
  <2>2. Control(w) /\ Received(w) /\ Mutex(w) /\ Claimed(w)
    BY Zenon DEF IInv, WInv
  <2>3. Control(w)'
    BY <1>1, <1>2, <2>1, <2>2, SMTT(40) DEF Control, Applying, Holding, Host
  <2>4. Received(w)'
    BY <1>1, <2>1, <2>2, SameReceived, Zenon
  <2>5. Mutex(w)'
    BY <1>1, <2>1, <2>2, Zenon DEF Mutex, Applying, Host
  <2>6. Claimed(w)'
    BY <1>1, <1>3, <2>1, <2>2, SMTT(40) DEF Claimed, Holding
  <2> QED  BY <2>3, <2>4, <2>5, <2>6, Zenon DEF WInv
<1>7. ReceiptShape' /\ AppliedWasProcessed'
  BY <1>1, <1>3, Zenon DEF IInv, ReceiptShape, AppliedWasProcessed, Present, Applied,
                    inboxVars
<1> QED  BY <1>1, <1>4, <1>5, <1>6, <1>7, InboxStep DEF ctlVars

\* Whoever holds the receipt already is overtaken, and loses its token there.
LEMMA ClaimTakenStep ==
  ASSUME IInv, NEW w \in Worker, ClaimTaken(w)
  PROVE  IInv'
<1> DEFINE i == target[w]
           l == Lease + Skew[Host(w)]
           r == [inbox[i] EXCEPT !.state = "applying", !.owner = owner[w],
                                 !.lease = l]
<1>1. /\ pc[w] = "claim" /\ pc' = [pc EXCEPT ![w] = "hot"]
      /\ inbox[i].state \in {"committed", "applying"}
      /\ inbox' = [inbox EXCEPT ![i] = r]
      /\ held' = [held EXCEPT ![w] = [batch |-> inbox[i].batch, at |-> inbox[i].at]]
      /\ renewal' = [renewal EXCEPT ![w] = "on"]
      /\ overtaken' = [v \in Worker |->
           overtaken[v] \/ (v # w /\ target[v] = i /\ held[v] # Nothing)]
      /\ UNCHANGED <<clock, faults, ctlVars, sent, target, owner, queue,
                     fullRun, appliedAge, acked, base>>
  BY Zenon DEF ClaimTaken, Goto
<1>2. i \in Identity /\ owner[w] \in {w} \X Nonce /\ applyMu[Host(w)] = w
  BY <1>1, Zenon DEF IInv, WInv, Control, Mutex, Applying
<1>3. inbox[i] \in Receipt /\ inbox[i].batch \in Batch
  BY <1>1, <1>2, Zenon DEF IInv, TypeOK, TypeStore, ReceiptShape, Present
<1>4. l \in 0 .. Lease + MaxSkew /\ owner[w] \in Token \cup {None}
  BY <1>2, HostType, TimeAssumption DEF Token
<1> HIDE DEF l
<1>5. /\ r \in Receipt /\ r.state = "applying"
      /\ r.owner = owner[w] /\ r.batch = inbox[i].batch
  BY <1>3, <1>4, Zenon DEF Receipt
<1> HIDE DEF r, i
<1>6. /\ inbox' \in [Identity -> Receipt] /\ inbox'[i] = r
      /\ \A j \in Identity \ {i} : inbox'[j] = inbox[j]
  BY <1>1, <1>2, <1>5, Overwrite, Zenon DEF IInv, TypeOK
<1>7. TypeOK'
  <2>1. inbox[i].at \in Stamps
    BY <1>3, Zenon DEF Receipt
  <2>2. TypeWorker'
    BY <1>1, <1>3, <2>1, Zenon DEF IInv, TypeOK, TypeWorker, Labels, Stamped
  <2>3. TypeStore' /\ TypeHistory'
    BY <1>1, <1>6, Zenon DEF IInv, TypeOK, TypeStore, TypeHistory
  <2> QED  BY <1>1, <2>2, <2>3, ControllerFrame, Zenon DEF IInv, TypeOK
<1>8. ASSUME NEW v \in Worker, v # w PROVE WInv(v)'
  <2>1. Control(v) /\ Received(v) /\ Mutex(v) /\ Claimed(v)
    BY Zenon DEF IInv, WInv
  <2>2. /\ pc'[v] = pc[v] /\ target'[v] = target[v] /\ sent'[v] = sent[v]
        /\ owner'[v] = owner[v] /\ held'[v] = held[v] /\ renewal'[v] = renewal[v]
        /\ phase'[Host(v)] = phase[Host(v)] /\ applyMu'[Host(v)] = applyMu[Host(v)]
        /\ fullRun' = fullRun
        /\ target[v] # i \/ held[v] = Nothing => overtaken'[v] = overtaken[v]
    BY <1>1, <1>8, Zenon DEF IInv, TypeOK, TypeWorker, TypeHistory, ctlVars
  <2>3. Control(v)'
    BY <2>1, <2>2, Zenon DEF Control, Host
  <2>4. Received(v)'
    BY <1>1, <2>1, <2>2, SameReceived, Zenon
  <2>5. Mutex(v)'
    BY <2>1, <2>2, Zenon DEF Mutex, Host
  <2>6. owner[v] # owner[w]
    BY <1>2, <1>8, <2>1, NotNone, Zenon DEF Mutex
  <2>7. Claimed(v)'
    BY <1>5, <1>6, <2>1, <2>2, <2>6 DEF Claimed
  <2> QED  BY <2>3, <2>4, <2>5, <2>7, Zenon DEF WInv
<1>9. WInv(w)'
  <2>1. /\ pc'[w] = "hot" /\ target'[w] = i /\ sent'[w] = sent[w]
        /\ owner'[w] = owner[w] /\ held'[w].batch = inbox[i].batch
        /\ phase'[Host(w)] = phase[Host(w)] /\ applyMu'[Host(w)] = applyMu[Host(w)]
        /\ overtaken'[w] = overtaken[w]
    BY <1>1, Zenon DEF IInv, TypeOK, TypeWorker, TypeHistory, ctlVars, i
  <2>2. Control(w) /\ Received(w) /\ Claimed(w)
    BY Zenon DEF IInv, WInv
  <2>3. inbox[i].batch # None /\ owner[w] # None
    BY <1>2, <1>3, NotNone, NoneAssumption, Zenon
  <2>4. Control(w)'
    <3>1. /\ phase'[Host(w)] \notin {"down", "restore"}
          /\ w \notin Stream \/ phase'[Host(w)] # "replay"
      BY <1>1, <2>1, <2>2 DEF Control
    <3> QED  BY <1>2, <2>1, <2>3, <3>1 DEF Control, Applying, Holding, Host
  <2>5. Received(w)'
    BY <1>1, <2>1, <2>2, SameReceived, Zenon
  <2>6. Mutex(w)'
    BY <1>2, <2>1, Zenon DEF Mutex, Applying, Host
  <2>7. Claimed(w)'
    BY <1>1, <1>5, <1>6, <2>1, <2>2, Zenon DEF Claimed, Control, Holding
  <2> QED  BY <2>4, <2>5, <2>6, <2>7, Zenon DEF WInv
<1>10. ReceiptShape' /\ AppliedWasProcessed'
  BY <1>1, <1>3, <1>5, <1>6, Zenon
     DEF IInv, ReceiptShape, AppliedWasProcessed, Present, Applied
<1> QED  BY <1>7, <1>8, <1>9, <1>10 DEF IInv

\* Inbox.Renew: a longer lease, or the end of the renewal.
LEMMA RenewStep ==
  ASSUME IInv, NEW w \in Worker, Renew(w)
  PROVE  IInv'
<1> DEFINE i == target[w]
           l == Lease + Skew[Host(w)]
<1>1. /\ renewal[w] = "on"
      /\ UNCHANGED <<clock, faults, ctlVars, pc, sent, target, owner, held,
                     queue, ghostVars>>
  BY Zenon DEF Renew
<1>2. pc[w] \in Holding /\ i \in Identity
  BY <1>1, Zenon DEF IInv, WInv, Control, Applying, Holding
<1>3. CASE inbox' = [inbox EXCEPT ![i].lease = l] /\ UNCHANGED renewal
  <2>1. inbox[i] \in Receipt /\ l \in 0 .. Lease + MaxSkew
    BY <1>2, HostType, TimeAssumption DEF IInv, TypeOK, TypeStore
  <2> HIDE DEF l
  <2>2. /\ inbox' \in [Identity -> Receipt]
        /\ \A j \in Identity : /\ inbox'[j].state = inbox[j].state
                               /\ inbox'[j].owner = inbox[j].owner
                               /\ inbox'[j].batch = inbox[j].batch
    BY <1>2, <1>3, <2>1, Zenon DEF IInv, TypeOK, TypeStore, Receipt
  <2>3. TypeOK'
    <3>1. TypeStore'
      BY <1>1, <2>2, Zenon DEF IInv, TypeOK, TypeStore
    <3>2. TypeWorker'
      BY <1>1, <1>3, Zenon DEF IInv, TypeOK, TypeWorker
    <3> QED
      BY <1>1, <3>1, <3>2, ControllerFrame, HistoryFrame, Zenon DEF IInv, TypeOK
  <2>4. ASSUME NEW v \in Worker PROVE WInv(v)'
    <3>1. WInv(v) /\ Same(v) /\ TokenKept(v)
      BY <1>1, <1>3, <2>2, Zenon DEF IInv, Same, TokenKept, ghostVars
    <3> QED  BY <1>1, <3>1, Untouched DEF ctlVars
  <2>5. ReceiptShape' /\ AppliedWasProcessed'
    BY <1>1, <2>2
       DEF IInv, ReceiptShape, AppliedWasProcessed, Present, Applied, ghostVars
  <2> QED  BY <2>3, <2>4, <2>5 DEF IInv
<1>4. CASE renewal' = [renewal EXCEPT ![w] = "error"] /\ UNCHANGED <<inbox, used>>
  <2>1. TypeWorker'
    BY <1>1, <1>4, Zenon DEF IInv, TypeOK, TypeWorker
  <2>2. TypeOK'
    BY <1>1, <1>4, <2>1, WorkerOnly, Zenon DEF inboxVars
  <2>3. Local(w)
    BY <1>1, <1>4, Zenon DEF IInv, TypeOK, TypeWorker, Local, ctlVars, ghostVars
  <2>4. Received(w)'
    BY <1>1, <1>2, SameReceived, Zenon DEF IInv, WInv, Holding
  <2>5. Moves(w)
    BY <1>1, <1>2, <2>4, Zenon DEF Moves, Holding
  <2> QED  BY <2>2, <2>3, <2>5, LocalStep, Zenon
<1> QED  BY <1>3, <1>4 DEF Renew

-----------------------------------------------------------------------------
(* Retention, and the steps of the controllers, their environment and time. *)

\* Retention deletes expired receipts; a deleted receipt carries no token.
LEMMA PruneStep ==
  ASSUME IInv, NEW w \in Worker, Prune(w)
  PROVE  IInv'
<1>1. /\ pc[w] = "prune"
      /\ pc' = [pc EXCEPT ![w] = IF w \in Stream THEN "ack" ELSE "idle"]
      /\ gcAge' = [gcAge EXCEPT ![Host(w)] = Lag(w)]
      /\ UNCHANGED <<clock, faults, leader, phase, cursor, hot, applyMu, sent,
                     target, owner, held, renewal, queue, overtaken, fullRun,
                     appliedAge, acked>>
  BY Zenon DEF Prune, AfterPrune, Goto
<1>2. PICK S \in SUBSET Identity :
        /\ inbox' = [i \in Identity |-> IF i \in S THEN NoReceipt ELSE inbox[i]]
        /\ base' = [d \in Controller |-> base[d] \ {inbox[i].batch : i \in S}]
  BY Zenon DEF Prune, Delete
<1>3. Lag(w) \in 0 .. GCCap
  BY <1>1, LagType, Zenon DEF Prune
<1>4. TypeOK'
  <2>1. TypeWorker'
    BY <1>1, Zenon DEF IInv, TypeOK, TypeWorker, Labels
  <2>2. TypeController'
    BY <1>1, <1>3, HostType, Zenon DEF IInv, TypeOK, TypeController
  <2>3. TypeStore'
    BY <1>1, <1>2, Constants, Zenon DEF IInv, TypeOK, TypeStore
  <2>4. TypeHistory'
    BY <1>1, <1>2, Zenon DEF IInv, TypeOK, TypeHistory
  <2> QED  BY <2>1, <2>2, <2>3, <2>4, Zenon DEF TypeOK
<1>5. Released
  BY <1>2, Constants, Zenon DEF Released
<1>6. Others(w)
  BY <1>1, Zenon DEF IInv, TypeOK, TypeWorker, Others, Same
<1>7. \A v \in Worker : TokenKept(v)
  BY <1>1, <1>5, ReleasedKept, Zenon
<1>8. WInv(w)'
  <2>1. /\ pc'[w] \in {"ack", "idle"} /\ (pc'[w] = "ack" => w \in Stream)
        /\ sent'[w] = sent[w] /\ owner'[w] = owner[w] /\ held'[w] = held[w]
        /\ renewal'[w] = renewal[w] /\ overtaken'[w] = overtaken[w]
        /\ phase'[Host(w)] = phase[Host(w)]
    BY <1>1, Zenon DEF IInv, TypeOK, TypeWorker
  <2>2. Control(w) /\ Received(w) /\ owner[w] = None
    BY <1>1, Zenon DEF IInv, WInv, Mutex, Applying
  <2>3. Control(w)'
    BY <1>1, <2>1, <2>2, Zenon DEF Control, Applying, Holding, Host
  <2>4. Received(w)'
    BY <1>1, <2>1, <2>2, SameReceived, Zenon
  <2> QED  BY <2>1, <2>2, <2>3, <2>4 DEF WInv, Mutex, Claimed, Applying
<1>9. ReceiptShape' /\ AppliedWasProcessed'
  BY <1>1, <1>2, Constants, Zenon
     DEF IInv, ReceiptShape, AppliedWasProcessed, Present, Applied
<1> QED  BY <1>1, <1>4, <1>6, <1>7, <1>8, <1>9, InboxStep

\* A step that changes nothing the invariant speaks of but types.
LEMMA ViewStep ==
  ASSUME IInv, TypeOK',
         UNCHANGED <<clock, inbox, phase, applyMu, workVars, overtaken, fullRun>>
  PROVE  IInv'
<1>1. ASSUME NEW v \in Worker PROVE WInv(v)'
  <2>1. WInv(v) /\ Same(v) /\ TokenKept(v)
    BY Zenon DEF IInv, Same, TokenKept, workVars
  <2> QED  BY <2>1, Untouched
<1>2. ReceiptShape' /\ AppliedWasProcessed'
  BY Zenon DEF IInv, ReceiptShape, AppliedWasProcessed, Present, Applied
<1> QED  BY <1>1, <1>2 DEF IInv

\* A step of start-up: controller c goes to another phase, with its recovery
\* loop outside applyReceipt.
LEMMA PhaseStep ==
  ASSUME IInv, NEW c \in Controller, TypeOK', NEW p, NEW l,
         phase' = [phase EXCEPT ![c] = p], pc' = [pc EXCEPT ![c] = l],
         {pc[c], l} \subseteq {"idle", "list", "prune"},
         p \in {"down", "restore"} => l = "idle",
         p = "serving" \/ \A v \in Worker : Host(v) = c => pc[v] = "idle",
         UNCHANGED <<clock, inbox, applyMu, sent, target, owner, held, renewal,
                     overtaken, fullRun>>
  PROVE  IInv'
<1>1. c \in Worker /\ c \notin Stream /\ Host(c) = c
  BY WorkerAssumption, Zenon DEF Worker, Host
<1>2. ASSUME NEW v \in Worker, v # c PROVE WInv(v)'
  <2>1. WInv(v) /\ Same(v) /\ TokenKept(v)
    BY <1>2, Zenon DEF IInv, TypeOK, TypeWorker, Same, TokenKept
  <2>2. \/ phase'[Host(v)] = phase[Host(v)]
        \/ phase'[Host(v)] = "serving"
        \/ pc[v] = "idle"
    BY HostType, Zenon DEF IInv, TypeOK, TypeController
  <2> QED  BY <2>1, <2>2, Untouched
<1>3. WInv(c)'
  <2>1. /\ pc'[c] = l /\ phase'[Host(c)] = p /\ owner'[c] = owner[c]
        /\ held'[c] = held[c] /\ renewal'[c] = renewal[c]
        /\ overtaken'[c] = overtaken[c]
    BY <1>1, SMTT(40) DEF IInv, TypeOK, TypeWorker, TypeController
  <2>2. Control(c) /\ owner[c] = None
    BY <1>1, Zenon DEF IInv, WInv, Mutex, Applying
  <2>3. l \in {"idle", "list", "prune"} /\ pc[c] \in {"idle", "list", "prune"}
    BY Zenon
  <2>4. Control(c)'
    BY <1>1, <2>1, <2>2, <2>3, Zenon DEF Control, Applying, Holding, Host
  <2>5. Mutex(c)' /\ Claimed(c)' /\ Received(c)'
    BY <1>1, <2>1, <2>2, <2>3, Zenon DEF Mutex, Claimed, Received, Applying
  <2> QED  BY <2>4, <2>5, Zenon DEF WInv
<1>4. ReceiptShape' /\ AppliedWasProcessed'
  BY Zenon DEF IInv, ReceiptShape, AppliedWasProcessed, Present, Applied
<1> QED  BY <1>2, <1>3, <1>4 DEF IInv

\* The workers of a controller that is not past its start-up are idle.
LEMMA DownIdle ==
  ASSUME IInv, NEW c \in Controller, phase[c] \in {"down", "restore"},
         NEW v \in Worker, Host(v) = c
  PROVE  pc[v] = "idle"
  BY Zenon DEF IInv, WInv, Control

\* startIngest begins.
LEMMA StartStep ==
  ASSUME IInv, NEW c \in Controller, Start(c)
  PROVE  IInv'
<1>1. /\ phase[c] = "down" /\ phase' = [phase EXCEPT ![c] = "restore"]
      /\ cursor' = [cursor EXCEPT ![c] = <<0, 0>>]
      /\ gcAge' = [gcAge EXCEPT ![c] = GCCap]
      /\ UNCHANGED <<clock, faults, inboxVars, leader, hot, applyMu, workVars,
                     overtaken, fullRun, appliedAge, acked>>
  BY Zenon DEF Start
<1>2. base' \in [Controller -> SUBSET Batch]
  <2>1. base' = [base EXCEPT
           ![c] = {inbox[i].batch : i \in {j \in Identity : Applied(j)}}]
    BY Zenon DEF Start
  <2>2. {inbox[i].batch : i \in {j \in Identity : Applied(j)}} \subseteq Batch
    BY Zenon DEF IInv, ReceiptShape, Present, Applied
  <2> QED  BY <2>1, <2>2 DEF IInv, TypeOK, TypeHistory
<1>3. TypeOK'
  <2>1. TypeController'
    BY <1>1, TimeAssumption DEF IInv, TypeOK, TypeController, Stamps, GCCap
  <2>2. TypeHistory'
    BY <1>1, <1>2, Zenon DEF IInv, TypeOK, TypeHistory
  <2>3. TypeWorker'
    BY <1>1, Zenon DEF IInv, TypeOK, TypeWorker, workVars
  <2> QED  BY <1>1, <2>1, <2>2, <2>3, StoreFrame DEF IInv, TypeOK, inboxVars
<1>4. pc[c] = "idle" /\ \A v \in Worker : Host(v) = c => pc[v] = "idle"
  BY <1>1, DownIdle, WorkerAssumption, Zenon DEF Worker, Host
<1>5. pc' = [pc EXCEPT ![c] = "idle"]
  BY <1>1, <1>4, Zenon DEF IInv, TypeOK, TypeWorker, workVars
<1> QED  BY <1>1, <1>3, <1>4, <1>5, PhaseStep, Zenon DEF workVars, inboxVars

\* RestoreHotState takes one receipt.
LEMMA RestoreStepStep ==
  ASSUME IInv, NEW c \in Controller, RestoreStep(c)
  PROVE  IInv'
<1>1. PICK i \in Identity :
        /\ Order(i) \in Retained(c)
        /\ cursor' = [cursor EXCEPT ![c] = Order(i)]
        /\ hot' = IF Applied(i)
             THEN [hot EXCEPT ![c] = Materialize(@, inbox[i])] ELSE hot
  BY Zenon DEF RestoreStep
<1>2. UNCHANGED <<clock, faults, inboxVars, leader, phase, gcAge, applyMu,
                  workVars, ghostVars>>
  BY Zenon DEF RestoreStep
<1>3. inbox[i].at \in Stamps /\ (Applied(i) => inbox[i].batch \in Batch)
  BY Zenon DEF IInv, TypeOK, TypeStore, Receipt, ReceiptShape, Present, Applied
<1>4. hot' \in [Controller -> HotView]
  BY <1>1, <1>3, MaterializeType, Zenon DEF IInv, TypeOK, TypeController
<1>5. cursor' \in [Controller -> Stamps \X (Identity \cup {0})]
  BY <1>1, <1>3, Zenon DEF IInv, TypeOK, TypeController, Order
<1>6. TypeController' /\ TypeWorker'
  BY <1>2, <1>4, <1>5, Zenon DEF IInv, TypeOK, TypeController, TypeWorker, workVars
<1>7. TypeOK'
  BY <1>2, <1>6, StoreFrame, HistoryFrame, Zenon DEF IInv, TypeOK, inboxVars
<1> QED  BY <1>2, <1>7, ViewStep DEF inboxVars, ghostVars

\* RestoreHotState returns.
LEMMA RestoreDoneStep ==
  ASSUME IInv, NEW c \in Controller, RestoreDone(c)
  PROVE  IInv'
<1> DEFINE p == IF leader[c] THEN "replay" ELSE "serving"
           l == IF leader[c] THEN "list" ELSE "idle"
<1>1. /\ phase[c] = "restore" /\ phase' = [phase EXCEPT ![c] = p]
      /\ pc' = [pc EXCEPT ![c] = l]
      /\ UNCHANGED <<clock, faults, inboxVars, leader, cursor, hot, gcAge,
                     applyMu, sent, target, owner, held, renewal, queue, ghostVars>>
  BY Zenon DEF RestoreDone
<1>2. pc[c] = "idle" /\ \A v \in Worker : Host(v) = c => pc[v] = "idle"
  BY <1>1, DownIdle, WorkerAssumption, Zenon DEF Worker, Host
<1>3. l \in {"list", "idle"} /\ p \in {"replay", "serving"}
  BY Zenon
<1> HIDE DEF p, l
<1>4. TypeWorker' /\ TypeController'
  BY <1>1, <1>3, Zenon DEF IInv, TypeOK, TypeWorker, TypeController, Labels
<1>5. TypeOK'
  BY <1>1, <1>4, StoreFrame, HistoryFrame, Zenon DEF IInv, TypeOK, inboxVars
<1> QED  BY <1>1, <1>2, <1>3, <1>5, PhaseStep, Zenon DEF inboxVars, ghostVars

\* ReplayPending returns nil.
LEMMA ReplayDoneStep ==
  ASSUME IInv, NEW c \in Controller, ReplayDone(c)
  PROVE  IInv'
<1> DEFINE l == IF phase[c] = "replay" THEN "idle" ELSE "prune"
<1>1. /\ pc[c] = "list" /\ phase' = [phase EXCEPT ![c] = "serving"]
      /\ pc' = [pc EXCEPT ![c] = l]
      /\ UNCHANGED <<clock, faults, inboxVars, leader, cursor, hot, gcAge,
                     applyMu, sent, target, owner, held, renewal, queue, ghostVars>>
  BY Zenon DEF ReplayDone, Goto
<1>2. l \in {"idle", "prune"}
  BY Zenon
<1> HIDE DEF l
<1>3. TypeWorker' /\ TypeController'
  BY <1>1, <1>2, Zenon DEF IInv, TypeOK, TypeWorker, TypeController, Labels
<1>4. TypeOK'
  BY <1>1, <1>3, StoreFrame, HistoryFrame, Zenon DEF IInv, TypeOK, inboxVars
<1> QED  BY <1>1, <1>2, <1>4, PhaseStep, Zenon DEF inboxVars, ghostVars

\* The write guard opens or closes.
LEMMA LeaderStep ==
  ASSUME IInv, NEW c \in Controller, Elect(c) \/ Depose(c)
  PROVE  IInv'
<1>1. /\ leader' = [leader EXCEPT ![c] = TRUE] \/ leader' = [leader EXCEPT ![c] = FALSE]
      /\ faults' = faults \/ (faults < MaxFaults /\ faults' = faults + 1)
      /\ UNCHANGED <<clock, inboxVars, phase, cursor, hot, gcAge, applyMu,
                     workVars, ghostVars>>
  BY Zenon DEF Elect, Depose, Fault
<1>2. TypeStore'
  BY <1>1, TimeAssumption DEF IInv, TypeOK, TypeStore, inboxVars
<1>3. leader' \in [Controller -> BOOLEAN]
  BY <1>1, Zenon DEF IInv, TypeOK, TypeController
<1>4. TypeController'
  BY <1>1, <1>3, Zenon DEF IInv, TypeOK, TypeController
<1>5. TypeWorker'
  BY <1>1, Zenon DEF IInv, TypeOK, TypeWorker, workVars
<1>6. TypeOK'
  BY <1>1, <1>2, <1>4, <1>5, HistoryFrame, Zenon DEF IInv, TypeOK
<1> QED  BY <1>1, <1>6, ViewStep, Zenon DEF inboxVars, ghostVars

\* The process of c ends: its workers forget everything, the others see nothing.
LEMMA CrashStep ==
  ASSUME IInv, NEW c \in Controller, Crash(c)
  PROVE  IInv'
<1> DEFINE gone == {w \in Worker : Host(w) = c}
<1>1. /\ faults < MaxFaults /\ faults' = faults + 1
      /\ phase' = [phase EXCEPT ![c] = "down"]
      /\ leader' = [leader EXCEPT ![c] = FALSE]
      /\ hot' = [hot EXCEPT ![c] = EmptyHot]
      /\ applyMu' = [applyMu EXCEPT ![c] = None]
      /\ base' = [base EXCEPT ![c] = {}]
      /\ UNCHANGED <<clock, inboxVars, cursor, gcAge, fullRun, appliedAge, acked>>
  BY Zenon DEF Crash, Fault
<1>2. /\ pc' = [w \in Worker |-> IF w \in gone THEN "idle" ELSE pc[w]]
      /\ sent' = [w \in Worker |-> IF w \in gone THEN Nothing ELSE sent[w]]
      /\ target' = [w \in Worker |-> IF w \in gone THEN None ELSE target[w]]
      /\ owner' = [w \in Worker |-> IF w \in gone THEN None ELSE owner[w]]
      /\ held' = [w \in Worker |-> IF w \in gone THEN Nothing ELSE held[w]]
      /\ renewal' = [w \in Worker |-> IF w \in gone THEN "off" ELSE renewal[w]]
      /\ queue' = [w \in Worker |-> IF w \in gone THEN {} ELSE queue[w]]
      /\ overtaken' = [w \in Worker |-> overtaken[w] /\ w \notin gone]
  BY Zenon DEF Crash
<1> HIDE DEF gone
<1>3. TypeOK'
  <2>1. TypeStore'
    BY <1>1, TimeAssumption DEF IInv, TypeOK, TypeStore, inboxVars
  <2>2. TypeController'
    BY <1>1, Constants, Zenon DEF IInv, TypeOK, TypeController
  <2>3. TypeWorker'
    BY <1>2, Constants, Zenon DEF IInv, TypeOK, TypeWorker, Labels
  <2>4. TypeHistory'
    BY <1>1, <1>2, Zenon DEF IInv, TypeOK, TypeHistory
  <2> QED  BY <2>1, <2>2, <2>3, <2>4, Zenon DEF TypeOK
<1>4. ASSUME NEW v \in Worker, v \in gone PROVE WInv(v)'
  <2>1. /\ owner'[v] = None /\ held'[v] = Nothing /\ renewal'[v] = "off"
        /\ ~overtaken'[v] /\ pc'[v] = "idle"
    BY <1>2, <1>4, Zenon
  <2>2. Received(v)'
    BY <2>1, Zenon DEF Received
  <2> QED  BY <2>1, <2>2, Forgot
<1>5. ASSUME NEW v \in Worker, v \notin gone PROVE WInv(v)'
  <2>1. WInv(v) /\ Same(v)
    BY <1>2, <1>5, Zenon DEF IInv, TypeOK, TypeHistory, Same
  <2>2. TokenKept(v)
    BY <1>1, Zenon DEF TokenKept, inboxVars
  <2>3. Host(v) \in Controller /\ Host(v) # c
    BY <1>5, HostType, Zenon DEF gone
  <2>4. phase'[Host(v)] = phase[Host(v)] /\ applyMu'[Host(v)] = applyMu[Host(v)]
    <3>1. /\ phase \in [Controller -> {"down", "restore", "replay", "serving"}]
          /\ applyMu \in [Controller -> Worker \cup {None}]
      BY Zenon DEF IInv, TypeOK, TypeController
    <3> QED  BY <1>1, <2>3, <3>1
  <2> QED  BY <1>1, <2>1, <2>2, <2>4, Untouched
<1>6. ReceiptShape' /\ AppliedWasProcessed'
  BY <1>1, Zenon DEF IInv, ReceiptShape, AppliedWasProcessed, Present, Applied, inboxVars
<1> QED  BY <1>3, <1>4, <1>5, <1>6 DEF IInv

\* Time passes: leases and ages move, states, owners and payloads do not.
LEMMA TickStep ==
  ASSUME IInv, Tick
  PROVE  IInv'
<1>1. /\ UNCHANGED <<faults, leader, phase, cursor, hot, applyMu, workVars,
                     overtaken, fullRun, acked, base>>
      /\ clock' = Lesser(clock + 1, MaxClock)
      /\ gcAge' = [c \in Controller |-> Lesser(gcAge[c] + 1, GCCap)]
  BY Zenon DEF Tick
<1>2. /\ inbox' \in [Identity -> Receipt]
      /\ \A j \in Identity : /\ inbox'[j].state = inbox[j].state
                             /\ inbox'[j].owner = inbox[j].owner
                             /\ inbox'[j].batch = inbox[j].batch
  <2> DEFINE q(j) == [inbox[j] EXCEPT
               !.lease = IF @ = 0 THEN 0 ELSE @ - 1,
               !.age = IF Applied(j) THEN Lesser(@ + 1, AgeCap) ELSE @]
  <2>1. inbox' = [j \in Identity |-> q(j)]
    BY Zenon DEF Tick
  <2>2. ASSUME NEW j \in Identity
        PROVE  /\ q(j) \in Receipt /\ q(j).state = inbox[j].state
               /\ q(j).owner = inbox[j].owner /\ q(j).batch = inbox[j].batch
    <3>1. inbox[j] \in Receipt
      BY Zenon DEF IInv, TypeOK, TypeStore
    <3>2. /\ inbox[j].lease \in 0 .. Lease + MaxSkew /\ inbox[j].age \in 0 .. AgeCap
          /\ Lease + MaxSkew \in Nat /\ AgeCap \in Nat
      BY <3>1, TimeAssumption DEF Receipt, AgeCap
    <3>3. (IF inbox[j].lease = 0 THEN 0 ELSE inbox[j].lease - 1) \in 0 .. Lease + MaxSkew
      BY <3>2
    <3>4. (IF Applied(j) THEN Lesser(inbox[j].age + 1, AgeCap) ELSE inbox[j].age)
            \in 0 .. AgeCap
      BY <3>2 DEF Lesser
    <3> QED  BY <3>1, <3>3, <3>4, Zenon DEF Receipt
  <2> HIDE DEF q
  <2> QED  BY <2>1, <2>2, Zenon
<1>3. clock \in Int /\ clock' \in 0 .. MaxClock /\ clock <= clock'
  BY <1>1, TimeAssumption DEF IInv, TypeOK, TypeStore, Lesser
<1>4. TypeOK'
  <2>1. TypeStore'
    BY <1>1, <1>2, <1>3, Zenon DEF IInv, TypeOK, TypeStore
  <2>2. ASSUME NEW c \in Controller PROVE Lesser(gcAge[c] + 1, GCCap) \in 0 .. GCCap
    BY TimeAssumption DEF IInv, TypeOK, TypeController, Lesser, GCCap
  <2>3. TypeController'
    BY <1>1, <2>2, Zenon DEF IInv, TypeOK, TypeController
  <2>4. ASSUME NEW b \in Batch
        PROVE  (IF appliedAge[b] = Never THEN Never
                ELSE Lesser(appliedAge[b] + 1, Retention + 1)) \in 0 .. Never
    BY TimeAssumption DEF IInv, TypeOK, TypeHistory, Lesser, Never
  <2>5. appliedAge' \in [Batch -> 0 .. Never]
    BY <2>4, Zenon DEF Tick
  <2>6. TypeHistory' /\ TypeWorker'
    BY <1>1, <2>5, Zenon DEF IInv, TypeOK, TypeHistory, TypeWorker, workVars
  <2> QED  BY <2>1, <2>3, <2>6, Zenon DEF TypeOK
<1>5. ASSUME NEW v \in Worker PROVE WInv(v)'
  <2>1. Control(v) /\ Received(v) /\ Mutex(v) /\ Claimed(v)
    BY Zenon DEF IInv, WInv
  <2>2. Same(v) /\ TokenKept(v)
    <3>1. Same(v)
      BY <1>1, Zenon DEF Same, workVars
    <3>2. TokenKept(v)
      BY <1>1, <1>2, Zenon DEF TokenKept, workVars
    <3> QED  BY <3>1, <3>2
  <2>3. Control(v)' /\ Mutex(v)' /\ Claimed(v)'
    <3>1. phase'[Host(v)] = phase[Host(v)] /\ applyMu'[Host(v)] = applyMu[Host(v)]
      BY <1>1, Zenon
    <3> QED  BY <2>1, <2>2, <3>1, SameControl, SameMutex, SameClaimed, Zenon
  <2>4. Received(v)'
    <3>1. ASSUME v \in Stream, pc[v] # "idle" PROVE sent[v].at <= Now(Host(v))'
      <4>1. sent[v].at <= Now(Host(v)) /\ sent[v].at \in Int
        BY <2>1, <3>1, TimeAssumption
           DEF Received, IInv, TypeOK, TypeWorker, Stamped, Stamps
      <4>2. Skew[Host(v)] \in Int
        BY HostType, TimeAssumption
      <4> QED  BY <1>3, <4>1, <4>2 DEF Now, Host
    <3> QED  BY <1>1, <2>1, <3>1 DEF Received, workVars
  <2> QED  BY <2>3, <2>4, Zenon DEF WInv
<1>6. ReceiptShape' /\ AppliedWasProcessed'
  BY <1>1, <1>2, Zenon DEF IInv, ReceiptShape, AppliedWasProcessed, Present, Applied
<1> QED  BY <1>4, <1>5, <1>6 DEF IInv

-----------------------------------------------------------------------------
(* The invariant. *)

\* Nothing is stored and nobody works.
LEMMA InitIInv == Init => IInv
<1> SUFFICES ASSUME Init PROVE IInv
  BY Zenon
<1>1. TypeStore
  BY Constants, TimeAssumption, SMTT(40) DEF Init, TypeStore
<1>2. TypeController
  BY Constants, TimeAssumption, SMTT(40) DEF Init, TypeController, GCCap, Stamps
<1>3. TypeWorker
  BY Constants, Zenon DEF Init, TypeWorker, Labels
<1>4. TypeHistory
  BY TimeAssumption DEF Init, TypeHistory, Never
<1>5. ReceiptShape /\ AppliedWasProcessed
  BY Constants, Zenon DEF Init, ReceiptShape, AppliedWasProcessed, Present, Applied
<1>6. ASSUME NEW w \in Worker PROVE WInv(w)
  <2>1. /\ pc[w] = "idle" /\ owner[w] = None /\ held[w] = Nothing
        /\ renewal[w] = "off" /\ ~overtaken[w]
    BY Zenon DEF Init
  <2>2. Control(w)
    BY <2>1, Zenon DEF Control, Applying, Holding
  <2> QED  BY <2>1, <2>2 DEF WInv, Received, Mutex, Claimed, Applying
<1> QED  BY <1>1, <1>2, <1>3, <1>4, <1>5, <1>6, Zenon DEF IInv, TypeOK

\* Every step keeps the invariant: one case for each action.
LEMMA NextIInv == IInv /\ [Next]_vars => IInv'
<1> SUFFICES ASSUME IInv, [Next]_vars PROVE IInv'
  BY Zenon
<1>1. ASSUME NEW w \in Worker, WorkerStep(w) PROVE IInv'
  <2>1. CASE Commit(w)
    BY <2>1, CommitRefusedStep, CommitDuplicateStep, CommitCreatedStep, Zenon
       DEF Commit
  <2>2. CASE Claim(w)
    BY <2>2, ClaimTakenStep, ClaimWaitStep, ClaimAppliedStep, ClaimMissingStep, Zenon
       DEF Claim
  <2>3. CASE \/ Lock(w) \/ GuardPass(w) \/ GuardReject(w) \/ HotState(w)
             \/ Process(w) \/ MarkFailed(w)
    BY <2>3, LockStep, GuardPassStep, GuardRejectStep, HotStateStep, ProcessStep,
       MarkFailedStep, Zenon
  <2>4. CASE \/ FinishLease(w) \/ RenewalFailed(w) \/ MarkApplied(w)
             \/ CheckpointLost(w) \/ PruneSkip(w) \/ Prune(w) \/ Ack(w)
    BY <2>4, FinishLeaseStep, RenewalFailedStep, MarkAppliedStep,
       CheckpointLostStep, PruneSkipStep, PruneStep, AckStep, Zenon
  <2> QED  BY <1>1, <2>1, <2>2, <2>3, <2>4, Zenon DEF WorkerStep
<1>2. ASSUME NEW c \in Controller, ControllerStep(c) PROVE IInv'
  <2>1. c \in Worker
    BY Zenon DEF Worker
  <2> QED
    BY <1>2, <2>1, RestoreStepStep, RestoreDoneStep, RecoveryTickStep,
       ListPendingStep, ReplayDoneStep, NextPendingStep, Zenon DEF ControllerStep
<1>3. ASSUME NEW w \in Stream, NEW b \in Batch, Recv(w, b) PROVE IInv'
  BY <1>3, RecvStep, Zenon DEF Worker
<1>4. ASSUME NEW w \in Worker, Abort(w) \/ RenewError(w) \/ PruneError(w) \/ Renew(w)
      PROVE  IInv'
  BY <1>4, AbortStep, RenewErrorStep, PruneErrorStep, RenewStep, Zenon
<1>5. ASSUME NEW c \in Controller, Start(c) \/ Elect(c) \/ Depose(c) \/ Crash(c)
      PROVE  IInv'
  BY <1>5, StartStep, LeaderStep, CrashStep, Zenon
<1>6. CASE UNCHANGED vars
  <2>1. UNCHANGED <<clock, faults, inboxVars, ctlVars, workVars, ghostVars>>
    BY <1>6, Zenon DEF vars
  <2>2. TypeWorker'
    BY <2>1, Zenon DEF IInv, TypeOK, TypeWorker, workVars
  <2>3. TypeOK'
    BY <2>1, <2>2, WorkerOnly, Zenon
  <2> QED  BY <2>1, <2>3, ViewStep DEF inboxVars, ctlVars, ghostVars
<1> QED
  BY <1>1, <1>2, <1>3, <1>4, <1>5, <1>6, TickStep, Zenon DEF Next, Step

\* The invariant holds in every behaviour.
LEMMA Invariance == Spec => []IInv
  BY InitIInv, NextIInv, PTL DEF Spec

-----------------------------------------------------------------------------
(* Types, order of application, mutual exclusion. *)

\* Every variable keeps its shape in every behaviour of any number of
\* controllers, streams and batches.
THEOREM TypeCorrect == Spec => []TypeOK
<1>1. IInv => TypeOK
  BY Zenon DEF IInv
<1> QED  BY <1>1, Invariance, PTL

\* A receipt is marked applied only after the hot store and every processor took
\* the batch it stores.
THEOREM AppliedAfterProcessing == Spec => []AppliedWasProcessed
<1>1. IInv => AppliedWasProcessed
  BY Zenon DEF IInv
<1> QED  BY <1>1, Invariance, PTL

\* applyMu serializes the attempts of one controller.
THEOREM ApplyIsExclusive == Spec => []ApplyExclusive
<1>1. IInv => ApplyExclusive
  BY DEF IInv, WInv, Mutex, ApplyExclusive, Applying
<1> QED  BY <1>1, Invariance, PTL

-----------------------------------------------------------------------------
(* Fencing. *)

\* The steps that leave the inbox alone.
LEMMA InboxKept ==
  ASSUME Next,
         \A w \in Worker : ~CommitCreated(w) /\ ~ClaimTaken(w) /\ ~MarkFailed(w)
                             /\ ~Renew(w) /\ ~MarkApplied(w) /\ ~Prune(w),
         ~Tick
  PROVE  inbox' = inbox
<1>1. ASSUME NEW w \in Worker, WorkerStep(w) PROVE inbox' = inbox
  BY <1>1, Zenon DEF WorkerStep, Commit, CommitRefused, CommitDuplicate, Lock,
     GuardPass, GuardReject, Claim, ClaimWait, ClaimApplied, ClaimMissing, HotState,
     Process, FinishLease, RenewalFailed, CheckpointLost, PruneSkip, Ack, inboxVars
<1>2. ASSUME NEW c \in Controller,
             \/ ControllerStep(c) \/ Start(c) \/ Elect(c) \/ Depose(c) \/ Crash(c)
      PROVE  inbox' = inbox
  BY <1>2, Zenon DEF ControllerStep, RestoreStep, RestoreDone, RecoveryTick,
     ListPending, ReplayDone, NextPending, Start, Elect, Depose, Crash, inboxVars
<1>3. ASSUME NEW w \in Worker, Abort(w) \/ RenewError(w) \/ PruneError(w)
      PROVE  inbox' = inbox
  BY <1>3, Zenon DEF Abort, RenewError, PruneError, inboxVars
<1>4. ASSUME NEW w \in Stream, NEW b \in Batch, Recv(w, b) PROVE inbox' = inbox
  BY <1>4, Zenon DEF Recv, inboxVars
<1> QED  BY <1>1, <1>2, <1>3, <1>4, Zenon DEF Next, Step

\* The only step that marks a receipt applied is a checkpoint of its owner.
LEMMA OnlyCheckpointApplies ==
  ASSUME IInv, Next, NEW i \in Identity, ~Applied(i), inbox'[i].state = "applied"
  PROVE  \E w \in Worker : MarkApplied(w) /\ target[w] = i
<1>1. inbox[i].state # "applied" /\ inbox \in [Identity -> Receipt]
  BY Zenon DEF Applied, IInv, TypeOK, TypeStore
<1>2. ASSUME NEW w \in Worker, CommitCreated(w) PROVE FALSE
  <2> DEFINE r == [NoReceipt EXCEPT !.state = "committed",
                     !.batch = sent[w].batch, !.at = sent[w].at]
  <2>1. r.state = "committed" /\ inbox' = [inbox EXCEPT ![IdentityOf[sent[w].batch]] = r]
    BY <1>2, Zenon DEF CommitCreated, NoReceipt
  <2> HIDE DEF r
  <2> QED  BY <1>1, <2>1
<1>3. ASSUME NEW w \in Worker, ClaimTaken(w) PROVE FALSE
  BY <1>1, <1>3 DEF ClaimTaken, Receipt
<1>4. ASSUME NEW w \in Worker, MarkFailed(w) PROVE FALSE
  BY <1>1, <1>4 DEF MarkFailed, Receipt
<1>5. ASSUME NEW w \in Worker, Renew(w) PROVE FALSE
  BY <1>1, <1>5 DEF Renew, Receipt
<1>6. ASSUME NEW w \in Worker, Prune(w) PROVE FALSE
  <2>1. PICK S \in SUBSET Identity :
          inbox' = [j \in Identity |-> IF j \in S THEN NoReceipt ELSE inbox[j]]
    BY <1>6, Zenon DEF Prune, Delete
  <2>2. NoReceipt.state = "absent"
    BY Zenon DEF NoReceipt
  <2> QED  BY <1>1, <2>1, <2>2
<1>7. ASSUME Tick PROVE FALSE
  BY <1>1, <1>7, Zenon DEF Tick, Receipt
<1>8. ASSUME NEW w \in Worker, MarkApplied(w) PROVE target[w] = i
  BY <1>1, <1>8, Zenon DEF MarkApplied
<1>9. inbox' # inbox
  BY <1>1, Zenon
<1> QED
  BY <1>2, <1>3, <1>4, <1>5, <1>6, <1>7, <1>8, <1>9, InboxKept, Zenon

\* No attempt checkpoints a receipt that another attempt claimed after it.
THEOREM Fencing == Spec => FencedCheckpoint
<1>1. ASSUME IInv, Next, NEW i \in Identity, ~Applied(i), inbox'[i].state = "applied"
      PROVE  \E w \in Worker :
               /\ target[w] = i /\ pc[w] = "checkpoint" /\ pc'[w] # "checkpoint"
               /\ ~overtaken[w]
  <2>1. PICK w \in Worker : MarkApplied(w) /\ target[w] = i
    BY <1>1, OnlyCheckpointApplies, Zenon
  <2>2. pc[w] = "checkpoint" /\ OwnsLease(w) /\ Done(w)
    BY <2>1, Zenon DEF MarkApplied
  <2>3. owner[w] # None /\ inbox[i].owner = owner[w]
    BY <1>1, <2>1, <2>2, NotNone, Zenon DEF IInv, WInv, Mutex, Applying, OwnsLease
  <2>4. ~overtaken[w]
    BY <1>1, <2>3, Zenon DEF IInv, WInv, Claimed
  <2>5. pc'[w] # "checkpoint"
    BY <1>1, <2>2, Zenon DEF IInv, TypeOK, TypeWorker, Done, Goto
  <2> QED  BY <2>1, <2>2, <2>4, <2>5
<1>2. IInv /\ [Next]_vars =>
        [\A i \in Identity : ~Applied(i) /\ inbox'[i].state = "applied" =>
           \E w \in Worker :
             /\ target[w] = i /\ pc[w] = "checkpoint" /\ pc'[w] # "checkpoint"
             /\ ~overtaken[w]]_vars
  BY <1>1, Zenon
<1> QED  BY <1>2, Invariance, PTL DEF Spec, FencedCheckpoint

-----------------------------------------------------------------------------
(* Retention. *)

\* A step that keeps payload, stamp, age and standing of every receipt.
Steady ==
  /\ UNCHANGED appliedAge
  /\ \A j \in Identity :
       /\ inbox'[j].batch = inbox[j].batch /\ inbox'[j].at = inbox[j].at
       /\ inbox'[j].age = inbox[j].age
       /\ inbox'[j].state = "applied" <=> inbox[j].state = "applied"
       /\ inbox'[j].state = "absent" <=> inbox[j].state = "absent"

\* Only checkpoints and time change the age of a batch.
LEMMA AgeKept ==
  ASSUME Next, \A w \in Worker : ~MarkApplied(w), ~Tick
  PROVE  appliedAge' = appliedAge
<1>1. ASSUME NEW w \in Worker, WorkerStep(w) PROVE appliedAge' = appliedAge
  BY <1>1, Zenon DEF WorkerStep, Commit, CommitRefused, CommitDuplicate,
     CommitCreated, Lock, GuardPass, GuardReject, Claim, ClaimTaken, ClaimWait,
     ClaimApplied, ClaimMissing, HotState, Process, MarkFailed, FinishLease,
     RenewalFailed, CheckpointLost, PruneSkip, Prune, Ack, ghostVars
<1>2. ASSUME NEW c \in Controller,
             \/ ControllerStep(c) \/ Start(c) \/ Elect(c) \/ Depose(c) \/ Crash(c)
      PROVE  appliedAge' = appliedAge
  BY <1>2, Zenon DEF ControllerStep, RestoreStep, RestoreDone, RecoveryTick,
     ListPending, ReplayDone, NextPending, Start, Elect, Depose, Crash, ghostVars
<1>3. ASSUME NEW w \in Worker, Renew(w) \/ Abort(w) \/ RenewError(w) \/ PruneError(w)
      PROVE  appliedAge' = appliedAge
  BY <1>3, Zenon DEF Renew, Abort, RenewError, PruneError, ghostVars
<1>4. ASSUME NEW w \in Stream, NEW b \in Batch, Recv(w, b)
      PROVE  appliedAge' = appliedAge
  BY <1>4, Zenon DEF Recv, ghostVars
<1> QED  BY <1>1, <1>2, <1>3, <1>4, Zenon DEF Next, Step

\* Every other step that writes the inbox changes a lease or who holds it.
LEMMA InboxCases ==
  ASSUME IInv, [Next]_vars
  PROVE  \/ Steady \/ Tick
         \/ \E w \in Worker : CommitCreated(w) \/ MarkApplied(w) \/ Prune(w)
<1>1. inbox \in [Identity -> Receipt]
  BY Zenon DEF IInv, TypeOK, TypeStore
<1>2. CASE UNCHANGED <<inbox, appliedAge>>
  BY <1>2, Zenon DEF Steady
<1>3. ASSUME NEW w \in Worker, ClaimTaken(w) PROVE Steady
  <2> DEFINE i == target[w]
             r == [inbox[i] EXCEPT !.state = "applying", !.owner = owner[w],
                                   !.lease = Lease + Skew[Host(w)]]
  <2>1. /\ pc[w] = "claim" /\ inbox' = [inbox EXCEPT ![i] = r]
        /\ inbox[i].state \in {"committed", "applying"} /\ UNCHANGED appliedAge
    BY <1>3, Zenon DEF ClaimTaken
  <2>2. i \in Identity
    BY <2>1, Zenon DEF IInv, WInv, Control, Applying
  <2>3. /\ r.state = "applying" /\ r.batch = inbox[i].batch /\ r.at = inbox[i].at
        /\ r.age = inbox[i].age
    BY <1>1, <2>2, Zenon DEF Receipt
  <2> HIDE DEF r, i
  <2> QED  BY <1>1, <2>1, <2>2, <2>3, Zenon DEF Steady
<1>4. ASSUME NEW w \in Worker, MarkFailed(w) PROVE Steady
  <2> DEFINE i == target[w]
             r == [inbox[i] EXCEPT !.state = "committed", !.owner = None, !.lease = 0]
  <2>1. /\ pc[w] = "failed" /\ UNCHANGED appliedAge
        /\ \/ inbox' = [inbox EXCEPT ![i] = r] /\ inbox[i].state = "applying"
           \/ inbox' = inbox
    BY <1>4, Zenon DEF MarkFailed, OwnsLease
  <2>2. i \in Identity
    BY <2>1, Zenon DEF IInv, WInv, Control, Applying
  <2>3. /\ r.state = "committed" /\ r.batch = inbox[i].batch /\ r.at = inbox[i].at
        /\ r.age = inbox[i].age
    BY <1>1, <2>2, Zenon DEF Receipt
  <2> HIDE DEF r, i
  <2> QED  BY <1>1, <2>1, <2>2, <2>3, Zenon DEF Steady
<1>5. ASSUME NEW w \in Worker, Renew(w) PROVE Steady
  <2> DEFINE i == target[w]
             r == [inbox[i] EXCEPT !.lease = Lease + Skew[Host(w)]]
  <2>1. /\ renewal[w] = "on" /\ UNCHANGED appliedAge
        /\ inbox' = [inbox EXCEPT ![i] = r] \/ inbox' = inbox
    BY <1>5, Zenon DEF Renew, ghostVars
  <2>2. i \in Identity
    BY <2>1, Zenon DEF IInv, WInv, Control, Applying, Holding
  <2>3. /\ r.state = inbox[i].state /\ r.batch = inbox[i].batch
        /\ r.at = inbox[i].at /\ r.age = inbox[i].age
    BY <1>1, <2>2, Zenon DEF Receipt
  <2> HIDE DEF r, i
  <2> QED  BY <1>1, <2>1, <2>2, <2>3, Zenon DEF Steady
<1>6. CASE UNCHANGED vars
  BY <1>2, <1>6, Zenon DEF vars, inboxVars, ghostVars
<1> QED
  BY <1>2, <1>3, <1>4, <1>5, <1>6, InboxKept, AgeKept, Zenon

\* What a new receipt changes.
LEMMA CreatedEffect ==
  ASSUME IInv, NEW w \in Worker, CommitCreated(w)
  PROVE  LET b == sent[w].batch
             i == IdentityOf[b]
         IN /\ w \in Stream /\ b \in Batch /\ i \in Identity
            /\ inbox[i].state = "absent" /\ UNCHANGED <<appliedAge, base, hot>>
            /\ inbox'[i].state = "committed" /\ inbox'[i].batch = b
            /\ \A j \in Identity \ {i} : inbox'[j] = inbox[j]
<1> DEFINE b == sent[w].batch
           i == IdentityOf[b]
           r == [NoReceipt EXCEPT !.state = "committed", !.batch = b,
                                  !.at = sent[w].at]
<1>1. /\ pc[w] = "commit" /\ inbox' = [inbox EXCEPT ![i] = r]
      /\ inbox[i].state = "absent" /\ UNCHANGED <<appliedAge, base, hot>>
  BY Zenon DEF CommitCreated, Present, ctlVars
<1>2. w \in Stream /\ b \in Batch /\ i \in Identity /\ sent[w].at \in Stamps
  BY <1>1, BatchAssumption, Zenon
     DEF IInv, TypeOK, TypeWorker, Stamped, WInv, Control, Received
<1>3. r \in Receipt /\ r.state = "committed" /\ r.batch = b
  BY <1>2, NewReceipt, Zenon
<1> HIDE DEF r, b, i
<1>4. inbox'[i] = r /\ \A j \in Identity \ {i} : inbox'[j] = inbox[j]
  BY <1>1, <1>2, <1>3, Overwrite, Zenon DEF IInv, TypeOK
<1> QED  BY <1>1, <1>2, <1>3, <1>4, Zenon DEF b, i

\* What a checkpoint changes.
LEMMA AppliedEffect ==
  ASSUME IInv, NEW w \in Worker, MarkApplied(w)
  PROVE  LET i == target[w]
             b == inbox[i].batch
         IN /\ i \in Identity /\ b \in Batch /\ inbox[i].state = "applying"
            /\ pc[w] = "checkpoint" /\ held[w].batch = b
            /\ inbox'[i].state = "applied" /\ inbox'[i].batch = b
            /\ inbox'[i].at = inbox[i].at
            /\ inbox'[i].age = MaxSkew - Skew[Host(w)]
            /\ \A j \in Identity \ {i} : inbox'[j] = inbox[j]
            /\ appliedAge'[b] = 0
            /\ \A d \in Batch \ {b} : appliedAge'[d] = appliedAge[d]
            /\ base' = [base EXCEPT ![Host(w)] = @ \cup {b}] /\ hot' = hot
<1> DEFINE i == target[w]
           b == inbox[i].batch
           r == [inbox[i] EXCEPT !.state = "applied", !.owner = None, !.lease = 0,
                                 !.age = MaxSkew - Skew[Host(w)]]
<1>1. /\ pc[w] = "checkpoint" /\ inbox[i].state = "applying"
      /\ inbox[i].owner = owner[w] /\ inbox' = [inbox EXCEPT ![i] = r]
      /\ appliedAge' = [appliedAge EXCEPT ![b] = 0]
      /\ base' = [base EXCEPT ![Host(w)] = @ \cup {b}] /\ hot' = hot
  BY Zenon DEF MarkApplied, OwnsLease, Done
<1>2. i \in Identity /\ owner[w] # None
  BY <1>1, NotNone, Zenon DEF IInv, WInv, Control, Mutex, Applying
<1>3. b \in Batch /\ held[w].batch = b
  BY <1>1, <1>2, Zenon DEF IInv, ReceiptShape, Present, WInv, Claimed
<1>4. /\ inbox \in [Identity -> Receipt] /\ inbox[i] \in Receipt
      /\ appliedAge \in [Batch -> 0 .. Never]
  BY <1>2, Zenon DEF IInv, TypeOK, TypeStore, TypeHistory
<1>5. /\ r.state = "applied" /\ r.batch = b /\ r.at = inbox[i].at
      /\ r.age = MaxSkew - Skew[Host(w)]
  BY <1>4, Zenon DEF Receipt
<1> HIDE DEF r, i
<1>6. inbox'[i] = r /\ \A j \in Identity \ {i} : inbox'[j] = inbox[j]
  BY <1>1, <1>2, <1>4, Zenon
<1>7. appliedAge'[b] = 0 /\ \A d \in Batch \ {b} : appliedAge'[d] = appliedAge[d]
  BY <1>1, <1>3, <1>4, Zenon
<1> QED  BY <1>1, <1>2, <1>3, <1>5, <1>6, <1>7, Zenon DEF i

\* What retention deletes is applied and older than the retention period by the
\* clock that runs furthest ahead.
LEMMA PruneEffect ==
  ASSUME IInv, NEW w \in Worker, Prune(w)
  PROVE  /\ UNCHANGED <<appliedAge, hot, phase, cursor>>
         /\ \E S \in SUBSET Identity :
              /\ inbox' = [i \in Identity |-> IF i \in S THEN NoReceipt ELSE inbox[i]]
              /\ base' = [d \in Controller |-> base[d] \ {inbox[i].batch : i \in S}]
              /\ \A i \in S : Applied(i) /\ inbox[i].age > Retention
<1>1. /\ pc[w] = "prune" /\ gcAge[Host(w)] >= GCInterval + Lag(w)
      /\ UNCHANGED <<appliedAge, hot, phase, cursor>>
  BY Zenon DEF Prune
<1>2. Lag(w) \in Int /\ Lag(w) >= 0
  BY <1>1, LagType, TimeAssumption DEF GCCap
<1>3. PICK S \in SUBSET {i \in Identity : Expired(w, i)} :
        /\ inbox' = [i \in Identity |-> IF i \in S THEN NoReceipt ELSE inbox[i]]
        /\ base' = [d \in Controller |-> base[d] \ {inbox[i].batch : i \in S}]
  BY Zenon DEF Prune, Delete
<1>4. ASSUME NEW i \in S PROVE Applied(i) /\ inbox[i].age > Retention
  <2>1. i \in Identity /\ Expired(w, i)
    BY <1>3, Zenon
  <2>2. inbox[i].age \in Int
    BY <2>1, TimeAssumption DEF IInv, TypeOK, TypeStore, Receipt, AgeCap
  <2>3. Skew[Host(w)] \in 0 .. MaxSkew
    BY HostType, TimeAssumption, Zenon
  <2> QED  BY <1>2, <2>1, <2>2, <2>3, TimeAssumption DEF Expired
<1>5. S \in SUBSET Identity
  BY <1>3, Zenon
<1> QED  BY <1>1, <1>3, <1>4, <1>5, Zenon

\* Time ages an applied receipt and the batch it stores together.
LEMMA TickEffect ==
  ASSUME IInv, Tick
  PROVE  /\ \A j \in Identity :
              /\ inbox'[j].batch = inbox[j].batch /\ inbox'[j].at = inbox[j].at
              /\ inbox'[j].state = inbox[j].state
              /\ inbox'[j].age <= inbox[j].age + 1
         /\ \A b \in Batch :
              appliedAge'[b] = IF appliedAge[b] = Never THEN Never
                               ELSE Lesser(appliedAge[b] + 1, Retention + 1)
         /\ UNCHANGED <<phase, cursor, hot, base>>
<1> DEFINE q(j) == [inbox[j] EXCEPT
             !.lease = IF @ = 0 THEN 0 ELSE @ - 1,
             !.age = IF Applied(j) THEN Lesser(@ + 1, AgeCap) ELSE @]
<1>1. /\ inbox' = [j \in Identity |-> q(j)]
      /\ appliedAge' = [b \in Batch |-> IF appliedAge[b] = Never THEN Never
                          ELSE Lesser(appliedAge[b] + 1, Retention + 1)]
      /\ UNCHANGED <<phase, cursor, hot, base>>
  BY Zenon DEF Tick
<1>2. ASSUME NEW j \in Identity
      PROVE  /\ q(j).batch = inbox[j].batch /\ q(j).at = inbox[j].at
             /\ q(j).state = inbox[j].state /\ q(j).age <= inbox[j].age + 1
  <2>1. inbox[j] \in Receipt
    BY Zenon DEF IInv, TypeOK, TypeStore
  <2>2. /\ q(j).batch = inbox[j].batch /\ q(j).at = inbox[j].at
        /\ q(j).state = inbox[j].state
        /\ q(j).age = IF Applied(j) THEN Lesser(inbox[j].age + 1, AgeCap)
                      ELSE inbox[j].age
    BY <2>1, Zenon DEF Receipt
  <2>3. inbox[j].age \in Int /\ AgeCap \in Int
    BY <2>1, TimeAssumption DEF Receipt, AgeCap
  <2> HIDE DEF q
  <2> QED  BY <2>2, <2>3 DEF Lesser
<1> HIDE DEF q
<1> QED  BY <1>1, <1>2, Zenon

\* A receipt is stored under the identity of its payload.
Homed == \A i \in Identity : Present(i) => IdentityOf[inbox[i].batch] = i

\* An applied receipt is older than its checkpoint by at most the clock skew,
\* as long as the age of the checkpoint is still counted.
Aged ==
  \A i \in Identity : Applied(i) =>
    /\ appliedAge[inbox[i].batch] # Never
    /\ \/ inbox[i].age <= appliedAge[inbox[i].batch] + MaxSkew
       \/ appliedAge[inbox[i].batch] = Retention + 1

\* The receipt of b is there and applied.
Owns(b) == Applied(IdentityOf[b]) /\ inbox[IdentityOf[b]].batch = b
Owned ==
  \A b \in Batch :
    appliedAge[b] # Never /\ appliedAge[b] + MaxSkew <= Retention => Owns(b)

DInv == Homed /\ Aged /\ Owned

\* A receipt that retention deletes is past the window of its batch.
LEMMA DeletedIsOld ==
  ASSUME IInv, Aged, NEW i \in Identity, Applied(i), inbox[i].age > Retention
  PROVE  appliedAge[inbox[i].batch] + MaxSkew > Retention
<1>1. inbox[i].batch \in Batch /\ inbox[i].age \in Int
  BY TimeAssumption
     DEF IInv, TypeOK, TypeStore, Receipt, AgeCap, ReceiptShape, Present, Applied
<1>2. appliedAge[inbox[i].batch] \in Int
  BY <1>1, TimeAssumption DEF IInv, TypeOK, TypeHistory, Never
<1> QED  BY <1>1, <1>2, TimeAssumption DEF Aged

\* The facts of a step of one kind that keep DInv.
LEMMA SteadyData == ASSUME DInv, Steady PROVE DInv'
<1>1. Homed'
  <2>1. ASSUME NEW i \in Identity, inbox'[i].state # "absent"
        PROVE  IdentityOf[inbox'[i].batch] = i
    BY <2>1 DEF DInv, Homed, Steady, Present
  <2> QED  BY <2>1, Zenon DEF Homed, Present
<1>2. Aged'
  BY Zenon DEF DInv, Aged, Steady, Applied
<1>3. Owned'
  <2>1. ASSUME NEW b \in Batch, Owns(b) PROVE Owns(b)'
    BY <2>1, BatchAssumption, Zenon DEF Owns, Applied, Steady
  <2> QED  BY <2>1, Zenon DEF DInv, Owned, Steady
<1> QED  BY <1>1, <1>2, <1>3, Zenon DEF DInv

\* A new receipt belongs to its identity, and takes the place of none that is still
\* within the window of its batch.
LEMMA CreatedData ==
  ASSUME IInv, DInv, NEW w \in Worker, CommitCreated(w) PROVE DInv'
<1> DEFINE b == sent[w].batch
           i == IdentityOf[b]
<1>1. /\ b \in Batch /\ i \in Identity /\ inbox[i].state = "absent"
      /\ UNCHANGED appliedAge
      /\ inbox'[i].state = "committed" /\ inbox'[i].batch = b
      /\ \A j \in Identity \ {i} : inbox'[j] = inbox[j]
  BY CreatedEffect, Zenon
<1>2. IdentityOf[b] = i
  BY Zenon
<1> HIDE DEF b, i
<1>3. Homed'
  BY <1>1, <1>2, Zenon DEF DInv, Homed, Present
<1>4. Aged'
  BY <1>1, Zenon DEF DInv, Aged, Applied
<1>5. Owned'
  <2>1. ASSUME NEW d \in Batch, Owns(d) PROVE Owns(d)'
    BY <1>1, <2>1, BatchAssumption, Zenon DEF Owns, Applied
  <2> QED  BY <1>1, <2>1, Zenon DEF DInv, Owned
<1> QED  BY <1>3, <1>4, <1>5, Zenon DEF DInv

\* A receipt and its batch begin to age in the same step.
LEMMA AppliedData ==
  ASSUME IInv, DInv, NEW w \in Worker, MarkApplied(w) PROVE DInv'
<1> DEFINE i == target[w]
           b == inbox[i].batch
<1>1. /\ i \in Identity /\ b \in Batch /\ inbox[i].state = "applying"
      /\ inbox'[i].state = "applied" /\ inbox'[i].batch = b
      /\ inbox'[i].age = MaxSkew - Skew[Host(w)]
      /\ \A j \in Identity \ {i} : inbox'[j] = inbox[j]
      /\ appliedAge'[b] = 0
      /\ \A d \in Batch \ {b} : appliedAge'[d] = appliedAge[d]
  BY AppliedEffect, Zenon
<1>2. inbox[i].batch = b /\ IdentityOf[b] = i
  BY <1>1, Zenon DEF DInv, Homed, Present
<1> HIDE DEF b, i
<1>3. Homed'
  <2>1. ASSUME NEW j \in Identity, j # i, inbox'[j].state # "absent"
        PROVE  IdentityOf[inbox'[j].batch] = j
    <3>1. inbox'[j] = inbox[j]
      BY <1>1, <2>1, Zenon
    <3> QED  BY <2>1, <3>1, Zenon DEF DInv, Homed, Present
  <2> QED  BY <1>1, <1>2, <2>1, SMTT(40) DEF Homed, Present
<1>4. MaxSkew - Skew[Host(w)] <= 0 + MaxSkew /\ 0 # Never
  BY HostType, TimeAssumption DEF Never
<1>5. Aged'
  <2>1. ASSUME NEW j \in Identity, j # i, inbox[j].state = "applied"
        PROVE  inbox[j].batch \in Batch /\ inbox[j].batch # b
    <3>1. inbox[j].state # "absent"
      BY <2>1, Zenon
    <3> QED  BY <1>1, <1>2, <2>1, <3>1, Zenon DEF IInv, ReceiptShape, DInv, Homed, Present
  <2>2. /\ appliedAge'[inbox'[i].batch] # Never
        /\ inbox'[i].age <= appliedAge'[inbox'[i].batch] + MaxSkew
    BY <1>1, <1>4, Zenon
  <2>3. ASSUME NEW j \in Identity, j # i, inbox'[j].state = "applied"
        PROVE  /\ appliedAge'[inbox'[j].batch] # Never
               /\ \/ inbox'[j].age <= appliedAge'[inbox'[j].batch] + MaxSkew
                  \/ appliedAge'[inbox'[j].batch] = Retention + 1
    <3>1. inbox'[j] = inbox[j] /\ appliedAge'[inbox[j].batch] = appliedAge[inbox[j].batch]
      BY <1>1, <2>1, <2>3, Zenon
    <3> QED  BY <2>3, <3>1, Zenon DEF DInv, Aged, Applied
  <2> QED  BY <2>2, <2>3, Zenon DEF Aged, Applied
<1>6. Owned'
  <2>1. ASSUME NEW d \in Batch, d # b, Owns(d) PROVE Owns(d)'
    BY <1>1, <2>1, BatchAssumption, Zenon DEF Owns, Applied
  <2>2. ASSUME NEW d \in Batch, d = b PROVE Owns(d)'
    BY <1>1, <1>2, <2>2, Zenon DEF Owns, Applied
  <2> QED  BY <1>1, <2>1, <2>2, Zenon DEF DInv, Owned
<1> QED  BY <1>3, <1>5, <1>6, Zenon DEF DInv

\* A deleted receipt is older than retention on every clock.
LEMMA PruneData ==
  ASSUME IInv, DInv, NEW w \in Worker, Prune(w) PROVE DInv'
<1>1. PICK S \in SUBSET Identity :
        /\ inbox' = [i \in Identity |-> IF i \in S THEN NoReceipt ELSE inbox[i]]
        /\ \A i \in S : Applied(i) /\ inbox[i].age > Retention
  BY PruneEffect, Zenon
<1>2. UNCHANGED appliedAge
  BY PruneEffect, Zenon
<1>3. \A i \in S : appliedAge[inbox[i].batch] + MaxSkew > Retention
  BY <1>1, DeletedIsOld, Zenon DEF DInv
<1>4. \A i \in Identity : IF i \in S THEN inbox'[i].state = "absent"
                          ELSE inbox'[i] = inbox[i]
  BY <1>1, Constants, Zenon
<1>5. Homed'
  BY <1>4, Zenon DEF DInv, Homed, Present
<1>6. Aged'
  BY <1>2, <1>4, Zenon DEF DInv, Aged, Applied
<1>7. Owned'
  <2>1. ASSUME NEW b \in Batch, appliedAge[b] # Never,
               appliedAge[b] + MaxSkew <= Retention
        PROVE  Owns(b)'
    <3>1. Owns(b) /\ IdentityOf[b] \in Identity
      BY <2>1, BatchAssumption, Zenon DEF DInv, Owned
    <3>2. IdentityOf[b] \notin S
      <4>1. appliedAge[b] \in Int
        BY TimeAssumption DEF IInv, TypeOK, TypeHistory, Never
      <4> QED  BY <1>3, <2>1, <3>1, <4>1, TimeAssumption DEF Owns
    <3> QED  BY <1>4, <3>1, <3>2, Zenon DEF Owns, Applied
  <2> QED  BY <1>2, <2>1, Zenon DEF Owned
<1> QED  BY <1>5, <1>6, <1>7, Zenon DEF DInv

\* A receipt and its batch age together.
LEMMA TickData == ASSUME IInv, DInv, Tick PROVE DInv'
<1>1. /\ \A j \in Identity :
           /\ inbox'[j].batch = inbox[j].batch /\ inbox'[j].state = inbox[j].state
           /\ inbox'[j].age <= inbox[j].age + 1
      /\ \A b \in Batch :
           appliedAge'[b] = IF appliedAge[b] = Never THEN Never
                            ELSE Lesser(appliedAge[b] + 1, Retention + 1)
  BY TickEffect, Zenon
<1>2. ASSUME NEW b \in Batch
      PROVE  /\ appliedAge[b] \in 0 .. Never
             /\ appliedAge'[b] = Never <=> appliedAge[b] = Never
             /\ appliedAge[b] <= appliedAge'[b]
             /\ appliedAge'[b] = appliedAge[b] + 1 \/ appliedAge'[b] >= Retention + 1
  <2>1. appliedAge[b] \in 0 .. Never
    BY Zenon DEF IInv, TypeOK, TypeHistory
  <2>2. appliedAge'[b] = IF appliedAge[b] = Never THEN Never
                         ELSE Lesser(appliedAge[b] + 1, Retention + 1)
    BY <1>1, Zenon
  <2> QED  BY <2>1, <2>2, TimeAssumption DEF Never, Lesser
<1>3. Homed'
  BY <1>1, Zenon DEF DInv, Homed, Present
<1>4. Aged'
  <2> SUFFICES ASSUME NEW i \in Identity, Applied(i)'
               PROVE  /\ appliedAge[inbox[i].batch]' # Never
                      /\ \/ inbox[i].age' <= appliedAge[inbox[i].batch]' + MaxSkew
                         \/ appliedAge[inbox[i].batch]' = Retention + 1
    BY Zenon DEF Aged
  <2> DEFINE b == inbox[i].batch
  <2>1. Applied(i) /\ inbox'[i].batch = b
    BY <1>1, Zenon DEF Applied
  <2>2. b \in Batch /\ inbox[i].age \in Int /\ inbox'[i].age \in Int
    <3>1. inbox[i].age \in 0 .. AgeCap /\ b \in Batch
      BY <2>1, Zenon DEF IInv, TypeOK, TypeStore, Receipt, ReceiptShape, Present, Applied
    <3>2. IInv'
      BY TickStep, Zenon
    <3>3. inbox'[i].age \in 0 .. AgeCap
      BY <3>2, Zenon DEF IInv, TypeOK, TypeStore, Receipt
    <3> QED  BY <3>1, <3>3, TimeAssumption DEF AgeCap
  <2>3. /\ appliedAge[b] # Never
        /\ inbox[i].age <= appliedAge[b] + MaxSkew \/ appliedAge[b] = Retention + 1
    BY <2>1, Zenon DEF DInv, Aged
  <2>4. inbox'[i].age <= inbox[i].age + 1
    BY <1>1, Zenon
  <2>5. appliedAge'[b] \in 0 .. Never
    BY <2>2, TickStep, Zenon DEF IInv, TypeOK, TypeHistory
  <2> HIDE DEF b
  <2>6. /\ appliedAge'[b] # Never
        /\ \/ inbox'[i].age <= appliedAge'[b] + MaxSkew
           \/ appliedAge'[b] = Retention + 1
    BY <1>2, <2>2, <2>3, <2>4, <2>5, TimeAssumption DEF Never
  <2> QED  BY <2>1, <2>6, Zenon
<1>5. Owned'
  <2>1. ASSUME NEW b \in Batch, appliedAge'[b] # Never,
               appliedAge'[b] + MaxSkew <= Retention
        PROVE  Owns(b)'
    <3>1. appliedAge'[b] \in 0 .. Never
      BY TickStep, Zenon DEF IInv, TypeOK, TypeHistory
    <3>2. appliedAge[b] # Never /\ appliedAge[b] + MaxSkew <= Retention
      BY <1>2, <2>1, <3>1, TimeAssumption DEF Never
    <3>3. Owns(b) /\ IdentityOf[b] \in Identity
      BY <3>2, BatchAssumption, Zenon DEF DInv, Owned
    <3> QED  BY <1>1, <3>3, Zenon DEF Owns, Applied
  <2> QED  BY <2>1, Zenon DEF Owned
<1> QED  BY <1>3, <1>4, <1>5, Zenon DEF DInv

\* Every step keeps the ages in line.
LEMMA NextData == ASSUME IInv, DInv, [Next]_vars PROVE DInv'
  BY InboxCases, SteadyData, CreatedData, AppliedData, PruneData, TickData, Zenon

\* What may happen to a stored receipt, in one step.
LEMMA Lifecycle ==
  ASSUME IInv, DInv, [Next]_vars, NEW i \in Identity, Present(i)
  PROVE  \/ /\ inbox'[i].batch = inbox[i].batch /\ inbox'[i].at = inbox[i].at
            /\ Applied(i) => inbox'[i].state = "applied"
            /\ inbox'[i].state # "absent"
         \/ /\ Applied(i) /\ inbox'[i].state = "absent"
            /\ appliedAge[inbox[i].batch] + MaxSkew > Retention
<1>1. CASE Steady
  BY <1>1, Zenon DEF Steady, Present, Applied
<1>2. CASE Tick
  BY <1>2, TickEffect, Zenon DEF Present, Applied
<1>3. ASSUME NEW w \in Worker, CommitCreated(w) PROVE inbox'[i] = inbox[i]
  BY <1>3, CreatedEffect, Zenon DEF Present
<1>4. ASSUME NEW w \in Worker, MarkApplied(w)
      PROVE  /\ inbox'[i].batch = inbox[i].batch /\ inbox'[i].at = inbox[i].at
             /\ inbox'[i].state = "applied" \/ inbox'[i] = inbox[i]
  BY <1>4, AppliedEffect, Zenon
<1>5. ASSUME NEW w \in Worker, Prune(w)
      PROVE  \/ inbox'[i] = inbox[i]
             \/ /\ Applied(i) /\ inbox'[i].state = "absent"
                /\ appliedAge[inbox[i].batch] + MaxSkew > Retention
  <2>1. PICK S \in SUBSET Identity :
          /\ inbox' = [j \in Identity |-> IF j \in S THEN NoReceipt ELSE inbox[j]]
          /\ \A j \in S : Applied(j) /\ inbox[j].age > Retention
    BY <1>5, PruneEffect, Zenon
  <2> QED  BY <2>1, DeletedIsOld, Constants DEF DInv
<1> QED  BY <1>1, <1>2, <1>3, <1>4, <1>5, InboxCases DEF Present, Applied

\* b was checkpointed, or its receipt is in the inbox.
Safe(b) ==
  \/ appliedAge[b] # Never
  \/ Present(IdentityOf[b]) /\ inbox[IdentityOf[b]].batch = b

\* A checkpoint is never forgotten, and a receipt leaves the inbox only after it.
LEMMA SafeKept ==
  ASSUME IInv, DInv, [Next]_vars, NEW b \in Batch
  PROVE  /\ appliedAge[b] # Never => appliedAge'[b] # Never
         /\ Safe(b) => Safe(b)'
<1>1. appliedAge[b] # Never => appliedAge'[b] # Never
  <2>1. CASE Tick
    <3>1. appliedAge[b] \in 0 .. Never
      BY Zenon DEF IInv, TypeOK, TypeHistory
    <3>2. appliedAge'[b] = IF appliedAge[b] = Never THEN Never
                           ELSE Lesser(appliedAge[b] + 1, Retention + 1)
      BY <2>1, TickEffect, Zenon
    <3> QED  BY <3>1, <3>2, TimeAssumption DEF Never, Lesser
  <2>2. ASSUME NEW w \in Worker, MarkApplied(w)
        PROVE  appliedAge[b] # Never => appliedAge'[b] # Never
    <3>1. 0 # Never
      BY TimeAssumption DEF Never
    <3> QED  BY <2>2, <3>1, AppliedEffect, Zenon
  <2>3. CASE UNCHANGED vars
    BY <2>3, Zenon DEF vars, ghostVars
  <2> QED  BY <2>1, <2>2, <2>3, AgeKept, Zenon
<1>2. Safe(b) => Safe(b)'
  <2>1. IdentityOf[b] \in Identity
    BY BatchAssumption, Zenon
  <2>2. ASSUME Present(IdentityOf[b]), inbox[IdentityOf[b]].batch = b
        PROVE  \/ appliedAge[b] # Never
               \/ inbox'[IdentityOf[b]].state # "absent" /\ inbox'[IdentityOf[b]].batch = b
    BY <2>1, <2>2, Lifecycle, Zenon DEF DInv, Aged
  <2> QED  BY <1>1, <2>2, Zenon DEF Safe, Present
<1> QED  BY <1>1, <1>2, Zenon

\* Both invariants hold in every behaviour.
LEMMA DataInvariance == Spec => [](IInv /\ DInv)
<1>1. Init => DInv
  <2> SUFFICES ASSUME Init PROVE DInv
    BY Zenon
  <2>1. \A i \in Identity : inbox[i].state = "absent"
    BY Constants, Zenon DEF Init
  <2> QED  BY <2>1, Zenon DEF DInv, Homed, Aged, Owned, Present, Applied, Init
<1>2. IInv /\ DInv /\ [Next]_vars => DInv'
  BY NextData, Zenon
<1> QED  BY <1>1, <1>2, Invariance, PTL DEF Spec

\* Payload and acceptance stamp of a stored receipt never change, an applied
\* receipt stays applied, and only retention removes it, past the window.
THEOREM ReceiptsAreKept == Spec => ReceiptLifecycle
<1>1. IInv /\ DInv /\ [Next]_vars =>
        [\A i \in Identity : Present(i) =>
           \/ /\ inbox'[i].batch = inbox[i].batch /\ inbox'[i].at = inbox[i].at
              /\ Applied(i) => inbox'[i].state = "applied"
              /\ inbox'[i].state # "absent"
           \/ /\ Applied(i) /\ inbox'[i].state = "absent"
              /\ appliedAge[inbox[i].batch] + MaxSkew > Retention]_vars
  BY Lifecycle, Zenon
<1> QED  BY <1>1, DataInvariance, PTL DEF Spec, ReceiptLifecycle

-----------------------------------------------------------------------------
(* Acknowledgement. *)

Tracked == {"lock", "guard", "claim", "hot", "process", "failed", "finish",
            "checkpoint"}

\* A stream past Commit works on the receipt of its batch, and past applyReceipt
\* its batch was checkpointed.
Stored(w) ==
  /\ pc[w] \in Tracked => target[w] = IdentityOf[sent[w].batch] /\ Safe(sent[w].batch)
  /\ pc[w] \in {"prune", "ack"} => appliedAge[sent[w].batch] # Never

AInv ==
  /\ \A w \in Stream : Stored(w)
  /\ \A b \in acked : appliedAge[b] # Never

\* How a step moves stream v.
Flow(v) ==
  \/ pc'[v] = pc[v] /\ sent'[v] = sent[v] /\ target'[v] = target[v]
  \/ {pc[v], pc'[v]} \subseteq Tracked /\ sent'[v] = sent[v] /\ target'[v] = target[v]
  \/ pc[v] = "prune" /\ pc'[v] = "ack" /\ sent'[v] = sent[v]
  \/ pc'[v] \in {"idle", "commit"}
  \/ CommitDuplicate(v) \/ CommitCreated(v) \/ ClaimApplied(v) \/ MarkApplied(v)

\* How a stream moves in one step.
LEMMA FlowNext ==
  ASSUME IInv, Next, NEW v \in Stream PROVE Flow(v)
<1>1. /\ pc \in [Worker -> Labels] /\ sent \in [Worker -> Stamped]
      /\ target \in [Worker -> Identity \cup {None}]
      /\ v \in Worker /\ v \notin Controller
  BY WorkerAssumption, Zenon DEF IInv, TypeOK, TypeWorker, Worker
<1>2. ASSUME NEW w \in Worker, Fail(w) PROVE Flow(v)
  BY <1>1, <1>2, Zenon DEF Fail, Goto, Flow
<1>3. ASSUME NEW w \in Worker, Commit(w) PROVE Flow(v)
  BY <1>1, <1>3, Zenon DEF Commit, CommitRefused, CommitDuplicate, CommitCreated, Goto, Flow
<1>4. ASSUME NEW w \in Worker, NEW l, NEW m, l \in Tracked, m \in Tracked,
             pc[w] = l, Goto(w, m), UNCHANGED <<sent, target>>
      PROVE Flow(v)
  BY <1>1, <1>4, Zenon DEF Goto, Flow
<1>5. ASSUME NEW w \in Worker,
             \/ Lock(w) \/ GuardPass(w) \/ ClaimTaken(w) \/ ClaimWait(w)
             \/ HotState(w) \/ Process(w) \/ FinishLease(w)
      PROVE  Flow(v)
  <2>1. \E l, m \in Tracked : pc[w] = l /\ Goto(w, m) /\ UNCHANGED <<sent, target>>
    BY <1>5, Zenon DEF Lock, GuardPass, ClaimTaken, ClaimWait, HotState, Process,
       FinishLease, Tracked
  <2> QED  BY <1>4, <2>1, Zenon
<1>6. ASSUME NEW w \in Worker, Claim(w) PROVE Flow(v)
  <2>1. CASE ClaimApplied(w)
    BY <1>1, <2>1, Zenon DEF ClaimApplied, Done, Goto, Flow
  <2> QED  BY <1>2, <1>5, <1>6, <2>1, Zenon DEF Claim, ClaimMissing
<1>7. ASSUME NEW w \in Worker, MarkApplied(w) PROVE Flow(v)
  BY <1>1, <1>7, Zenon DEF MarkApplied, Done, Goto, Flow
<1>8. ASSUME NEW w \in Worker, PruneSkip(w) \/ Prune(w) \/ PruneError(w) \/ Ack(w)
      PROVE  Flow(v)
  BY <1>1, <1>8, Zenon DEF PruneSkip, Prune, PruneError, AfterPrune, Ack, Goto, Flow
<1>9. ASSUME NEW w \in Worker, WorkerStep(w) PROVE Flow(v)
  BY <1>2, <1>3, <1>5, <1>6, <1>7, <1>8, <1>9, Zenon
     DEF WorkerStep, GuardReject, MarkFailed, RenewalFailed, CheckpointLost
<1>10. ASSUME NEW w \in Worker, Renew(w) \/ Abort(w) \/ RenewError(w) PROVE Flow(v)
  BY <1>2, <1>10, Zenon DEF Renew, Abort, RenewError, Flow
<1>11. ASSUME NEW w \in Stream, NEW b \in Batch, Recv(w, b) PROVE Flow(v)
  BY <1>1, <1>11, Zenon DEF Recv, Goto, Flow
<1>12. ASSUME NEW c \in Controller, ControllerStep(c) PROVE Flow(v)
  BY <1>1, <1>12, Zenon DEF ControllerStep, RestoreStep, RestoreDone, RecoveryTick,
     ListPending, ReplayDone, NextPending, Goto, Flow, workVars
<1>13. ASSUME NEW c \in Controller, Start(c) \/ Elect(c) \/ Depose(c) PROVE Flow(v)
  BY <1>13, Zenon DEF Start, Elect, Depose, Flow, workVars
<1>14. ASSUME NEW c \in Controller, Crash(c) PROVE Flow(v)
  BY <1>1, <1>14, Zenon DEF Crash, Flow
<1>15. ASSUME Tick PROVE Flow(v)
  BY <1>15, Zenon DEF Tick, Flow, workVars
<1> QED
  BY <1>8, <1>9, <1>10, <1>11, <1>12, <1>13, <1>14, <1>15, Zenon DEF Next, Step

\* A stream keeps its promise.
LEMMA StoredNext ==
  ASSUME IInv, DInv, Next, NEW v \in Stream, Stored(v)
  PROVE  Stored(v)'
<1> DEFINE b == sent[v].batch
<1>1. v \in Worker /\ (pc[v] # "idle" => b \in Batch) /\ IInv'
  BY NextIInv, Zenon DEF IInv, WInv, Received, Worker
<1>2. ASSUME NEW d \in Batch
      PROVE  /\ appliedAge[d] # Never => appliedAge'[d] # Never
             /\ Safe(d) => Safe(d)'
  BY SafeKept, Zenon
<1>3. CASE \/ pc'[v] = pc[v] /\ sent'[v] = sent[v] /\ target'[v] = target[v]
           \/ /\ {pc[v], pc'[v]} \subseteq Tracked
              /\ sent'[v] = sent[v] /\ target'[v] = target[v]
           \/ pc[v] = "prune" /\ pc'[v] = "ack" /\ sent'[v] = sent[v]
  <2>1. CASE pc[v] = "idle"
    BY <1>3, <2>1, Zenon DEF Stored, Tracked
  <2>2. CASE pc[v] # "idle"
    <3>1. PICK d \in Batch : d = b
      BY <1>1, <2>2, Zenon
    <3>2. sent'[v].batch = d /\ sent[v].batch = d
      BY <1>3, <3>1, Zenon
    <3>3. Safe(d) => Safe(d)'
      BY <1>2, Zenon
    <3>4. pc'[v] \in Tracked => target'[v] = IdentityOf[d] /\ Safe(d)'
      BY <1>3, <3>2, <3>3, Zenon DEF Stored, Tracked
    <3>5. pc'[v] \in {"prune", "ack"} => appliedAge'[d] # Never
      BY <1>2, <1>3, <3>2, Zenon DEF Stored, Tracked
    <3> QED  BY <3>2, <3>4, <3>5 DEF Stored, Safe, Present
  <2> QED  BY <2>1, <2>2, Zenon
<1>4. CASE pc'[v] \in {"idle", "commit"}
  BY <1>4, Zenon DEF Stored, Tracked
<1>5. ASSUME NEW d \in Batch, sent[v].batch = d, sent'[v].batch = d,
             target'[v] = IdentityOf[d], inbox'[IdentityOf[d]].state # "absent",
             inbox'[IdentityOf[d]].batch = d, pc'[v] = "lock"
      PROVE  Stored(v)'
  BY <1>5, Zenon DEF Stored, Safe, Present, Tracked
<1>6. ASSUME NEW d \in Batch, sent[v].batch = d, sent'[v].batch = d,
             appliedAge'[d] # Never, pc'[v] = "prune"
      PROVE  Stored(v)'
  BY <1>6, Zenon DEF Stored, Tracked
<1>7. CASE CommitDuplicate(v)
  <2>1. PICK d \in Batch : d = b
    BY <1>1, <1>7, Zenon DEF CommitDuplicate
  <2>2. /\ inbox'[IdentityOf[d]].state # "absent" /\ inbox'[IdentityOf[d]].batch = d
        /\ sent'[v].batch = d
    BY <1>7, <2>1, Zenon DEF CommitDuplicate, Present, inboxVars
  <2>3. pc'[v] = "lock" /\ target'[v] = IdentityOf[d]
    BY <1>1, <1>7, <2>1, Zenon DEF CommitDuplicate, Goto, IInv, TypeOK, TypeWorker
  <2> QED  BY <1>5, <2>1, <2>2, <2>3, Zenon
<1>8. CASE CommitCreated(v)
  <2>1. PICK d \in Batch : d = b
    BY <1>1, <1>8, CreatedEffect, Zenon
  <2>2. inbox'[IdentityOf[d]].state = "committed" /\ inbox'[IdentityOf[d]].batch = d
    BY <1>1, <1>8, <2>1, CreatedEffect, Zenon
  <2>3. pc'[v] = "lock" /\ target'[v] = IdentityOf[d] /\ sent'[v].batch = d
    BY <1>1, <1>8, <2>1, Zenon DEF CommitCreated, Goto, IInv, TypeOK, TypeWorker
  <2> QED  BY <1>5, <2>1, <2>2, <2>3
<1>9. CASE ClaimApplied(v) \/ MarkApplied(v)
  <2>1. pc[v] \in {"claim", "checkpoint"} /\ Done(v)
    BY <1>9, Zenon DEF ClaimApplied, MarkApplied
  <2>2. PICK d \in Batch : d = b
    BY <1>1, <2>1, Zenon
  <2>3. pc'[v] = "prune" /\ sent'[v].batch = d
    BY <1>1, <2>1, <2>2, Zenon DEF Done, Goto, IInv, TypeOK, TypeWorker
  <2>4. target[v] = IdentityOf[d] /\ Safe(d) /\ IdentityOf[d] \in Identity
    BY <2>1, <2>2, BatchAssumption, Zenon DEF Stored, Tracked
  <2>5. appliedAge'[d] # Never
    <3>1. CASE appliedAge[d] # Never
      BY <1>2, <3>1, Zenon
    <3>2. CASE inbox[IdentityOf[d]].batch = d /\ ClaimApplied(v)
      BY <1>2, <2>4, <3>2, Zenon DEF ClaimApplied, DInv, Aged
    <3>3. CASE inbox[IdentityOf[d]].batch = d /\ MarkApplied(v)
      <4>1. 0 # Never
        BY TimeAssumption DEF Never
      <4>2. appliedAge'[inbox[target[v]].batch] = 0
        BY <1>1, <3>3, AppliedEffect, Zenon
      <4> QED  BY <2>4, <3>3, <4>1, <4>2, Zenon
    <3> QED  BY <1>9, <2>4, <3>1, <3>2, <3>3, Zenon DEF Safe
  <2> QED  BY <1>6, <2>2, <2>3, <2>5, Zenon
<1> QED  BY <1>3, <1>4, <1>7, <1>8, <1>9, FlowNext, Zenon DEF Flow

\* Only an acknowledgement extends acked.
LEMMA AckedKept ==
  ASSUME Next, \A w \in Worker : ~Ack(w)
  PROVE  acked' = acked
<1>1. ASSUME NEW w \in Worker, WorkerStep(w) PROVE acked' = acked
  BY <1>1, Zenon DEF WorkerStep, Commit, CommitRefused, CommitDuplicate,
     CommitCreated, Lock, GuardPass, GuardReject, Claim, ClaimTaken, ClaimWait,
     ClaimApplied, ClaimMissing, HotState, Process, MarkFailed, FinishLease,
     RenewalFailed, MarkApplied, CheckpointLost, PruneSkip, Prune, ghostVars
<1>2. ASSUME NEW c \in Controller,
             \/ ControllerStep(c) \/ Start(c) \/ Elect(c) \/ Depose(c) \/ Crash(c)
      PROVE  acked' = acked
  BY <1>2, Zenon DEF ControllerStep, RestoreStep, RestoreDone, RecoveryTick,
     ListPending, ReplayDone, NextPending, Start, Elect, Depose, Crash, ghostVars
<1>3. ASSUME NEW w \in Worker, Renew(w) \/ Abort(w) \/ RenewError(w) \/ PruneError(w)
      PROVE  acked' = acked
  BY <1>3, Zenon DEF Renew, Abort, RenewError, PruneError, ghostVars
<1>4. ASSUME NEW w \in Stream, NEW b \in Batch, Recv(w, b) PROVE acked' = acked
  BY <1>4, Zenon DEF Recv, ghostVars
<1>5. ASSUME Tick PROVE acked' = acked
  BY <1>5, Zenon DEF Tick
<1> QED  BY <1>1, <1>2, <1>3, <1>4, <1>5, Zenon DEF Next, Step

\* Every step keeps what an acknowledgement promises.
LEMMA NextAInv == ASSUME IInv, DInv, AInv, [Next]_vars PROVE AInv'
<1>1. CASE UNCHANGED vars
  BY <1>1, Zenon DEF vars, AInv, Stored, Safe, Present, workVars, inboxVars, ghostVars
<1>2. CASE Next
  <2>1. ASSUME NEW w \in Stream PROVE Stored(w)'
    BY <1>2, StoredNext, Zenon DEF AInv
  <2>2. ASSUME NEW b \in acked PROVE appliedAge'[b] # Never
    BY SafeKept, Zenon DEF AInv, IInv, TypeOK, TypeHistory
  <2>3. ASSUME NEW w \in Worker, Ack(w), NEW b \in acked' PROVE appliedAge'[b] # Never
    <3>1. pc[w] = "ack" /\ acked' = acked \cup {sent[w].batch}
      BY <2>3, Zenon DEF Ack
    <3>2. w \in Stream /\ sent[w].batch \in Batch
      BY <3>1, Zenon DEF IInv, WInv, Control, Received
    <3>3. appliedAge[sent[w].batch] # Never
      BY <3>1, <3>2, Zenon DEF AInv, Stored
    <3>4. appliedAge'[sent[w].batch] # Never
      BY <3>2, <3>3, SafeKept, Zenon
    <3> QED  BY <2>2, <3>1, <3>4, Zenon
  <2> QED  BY <1>2, <2>1, <2>2, <2>3, AckedKept, Zenon DEF AInv
<1> QED  BY <1>1, <1>2, Zenon

\* An acknowledged batch was checkpointed, and its receipt is in the inbox,
\* applied, until the retention window is over less the clock skew.
THEOREM AcknowledgedIsOwned == Spec => []AckedOwned
<1>1. Init => AInv
  <2> SUFFICES ASSUME Init PROVE AInv
    BY Zenon
  <2>1. ASSUME NEW w \in Stream PROVE pc[w] = "idle"
    BY Zenon DEF Init, Worker
  <2> QED  BY <2>1, Zenon DEF AInv, Stored, Tracked, Init
<1>2. IInv /\ DInv /\ AInv /\ [Next]_vars => AInv'
  BY NextAInv, Zenon
<1>3. IInv /\ DInv /\ AInv => AckedOwned
  BY Zenon DEF AckedOwned, AInv, DInv, Owned, Owns, IInv, TypeOK, TypeHistory
<1> QED  BY <1>1, <1>2, <1>3, DataInvariance, PTL DEF Spec

-----------------------------------------------------------------------------
(* The dashboard view. *)

\* The steps that leave the hot stores alone.
LEMMA HotKept ==
  ASSUME Next,
         \A w \in Worker : ~HotState(w) /\ ~Fail(w),
         \A c \in Controller : ~RestoreStep(c) /\ ~Crash(c)
  PROVE  hot' = hot
<1>1. ASSUME NEW w \in Worker, WorkerStep(w) PROVE hot' = hot
  BY <1>1, Zenon DEF WorkerStep, Commit, CommitRefused, CommitDuplicate,
     CommitCreated, Lock, GuardPass, GuardReject, Claim, ClaimTaken, ClaimWait,
     ClaimApplied, ClaimMissing, Process, MarkFailed, FinishLease, RenewalFailed,
     MarkApplied, Done, CheckpointLost, PruneSkip, Prune, Ack, ctlVars
<1>2. ASSUME NEW c \in Controller,
             ControllerStep(c) \/ Start(c) \/ Elect(c) \/ Depose(c)
      PROVE  hot' = hot
  BY <1>2, Zenon DEF ControllerStep, RestoreDone, RecoveryTick, ListPending,
     ReplayDone, NextPending, Start, Elect, Depose, ctlVars
<1>3. ASSUME NEW w \in Worker, Renew(w) \/ Abort(w) \/ RenewError(w) \/ PruneError(w)
      PROVE  hot' = hot
  BY <1>3, Zenon DEF Renew, Abort, RenewError, PruneError, ctlVars
<1>4. ASSUME NEW w \in Stream, NEW b \in Batch, Recv(w, b) PROVE hot' = hot
  BY <1>4, Zenon DEF Recv, ctlVars
<1>5. ASSUME Tick PROVE hot' = hot
  BY <1>5, Zenon DEF Tick
<1> QED  BY <1>1, <1>2, <1>3, <1>4, <1>5, Zenon DEF Next, Step

\* While a controller runs, batches only join its hot store.
LEMMA HotGrows ==
  ASSUME IInv, Next, NEW c \in Controller, phase'[c] # "down"
  PROVE  hot'[c].last >= hot[c].last /\ hot[c].batches \subseteq hot'[c].batches
<1>1. ASSUME NEW h \in HotView, NEW r, r.at \in Stamps
      PROVE  /\ Materialize(h, r).last >= h.last
             /\ h.batches \subseteq Materialize(h, r).batches
  <2>1. h.last \in Int /\ r.at \in Int
    BY <1>1, TimeAssumption DEF HotView, Stamps
  <2>2. CASE h.last > r.at
    <3>1. /\ Materialize(h, r).last = h.last
          /\ Materialize(h, r).batches = h.batches \cup {r.batch}
      BY <2>2, Zenon DEF Materialize, HotView
    <3> QED  BY <2>1, <3>1
  <2>3. CASE ~(h.last > r.at)
    <3>1. /\ Materialize(h, r).last = r.at
          /\ Materialize(h, r).batches = h.batches \cup {r.batch}
      BY <2>3, Zenon DEF Materialize
    <3> QED  BY <2>1, <2>3, <3>1
  <2> QED  BY <2>2, <2>3, Zenon
<1>2. /\ hot \in [Controller -> HotView] /\ hot[c] \in HotView
      /\ phase \in [Controller -> {"down", "restore", "replay", "serving"}]
      /\ hot[c].last >= hot[c].last
  BY TimeAssumption DEF IInv, TypeOK, TypeController, HotView, Stamps
<1>3. CASE hot'[c] = hot[c]
  BY <1>2, <1>3, Zenon
<1>4. ASSUME NEW w \in Worker, Fail(w) PROVE hot'[c] = hot[c]
  BY <1>2, <1>4, HostType, Zenon DEF Fail
<1>5. ASSUME NEW d \in Controller, Crash(d) PROVE hot'[c] = hot[c]
  BY <1>2, <1>5, Zenon DEF Crash
<1>6. ASSUME NEW d \in Controller, NEW r, r.at \in Stamps,
             hot' = [hot EXCEPT ![d] = Materialize(hot[d], r)], hot'[c] # hot[c]
      PROVE  hot'[c] = Materialize(hot[c], r)
  BY <1>2, <1>6, Zenon
<1>7. ASSUME NEW w \in Worker, HotState(w), hot'[c] # hot[c]
      PROVE  \E r : r.at \in Stamps /\ hot'[c] = Materialize(hot[c], r)
  <2>1. held[w].at \in Stamps
    BY Zenon DEF IInv, TypeOK, TypeWorker, Stamped
  <2>2. hot' = [hot EXCEPT ![Host(w)] = Materialize(hot[Host(w)], held[w])]
    BY <1>7, Zenon DEF HotState
  <2> QED  BY <1>6, <1>7, <2>1, <2>2, HostType, Zenon
<1>8. ASSUME NEW d \in Controller, RestoreStep(d), hot'[c] # hot[c]
      PROVE  \E r : r.at \in Stamps /\ hot'[c] = Materialize(hot[c], r)
  <2>1. PICK i \in Identity :
          hot' = hot \/ hot' = [hot EXCEPT ![d] = Materialize(hot[d], inbox[i])]
    BY <1>8, Zenon DEF RestoreStep
  <2>2. inbox[i].at \in Stamps
    BY Zenon DEF IInv, TypeOK, TypeStore, Receipt
  <2> QED  BY <1>6, <1>8, <2>1, <2>2, Zenon
<1> QED  BY <1>1, <1>2, <1>3, <1>4, <1>5, <1>7, <1>8, HotKept, Zenon

\* The hot store of a controller that stays up never shows an older batch.
THEOREM HotViewIsMonotonic == Spec => HotMonotonic
<1>1. IInv /\ [Next]_vars =>
        [\A c \in Controller : phase'[c] # "down" => hot'[c].last >= hot[c].last]_vars
  BY HotGrows, Zenon
<1> QED  BY <1>1, Invariance, PTL DEF Spec, HotMonotonic

Materialized == {"process", "failed", "finish", "checkpoint"}

\* What the hot store of c has to hold at each phase.
Complete(c) ==
  /\ phase[c] = "down" => base[c] = {}
  /\ phase[c] = "restore" => \A b \in base[c] :
       b \in hot[c].batches \/ Before(cursor[c], Order(IdentityOf[b]))
  /\ phase[c] \in {"replay", "serving"} => base[c] \subseteq hot[c].batches

\* A batch that counts for c has its receipt in the inbox, and an attempt past
\* materializeHotState has its batch in the hot store.
HInv ==
  /\ \A c \in Controller : Complete(c) /\ \A b \in base[c] : Owns(b)
  /\ \A w \in Worker :
       pc[w] \in Materialized => held[w].batch \in hot[Host(w)].batches

\* Only materializeHotState brings a worker into Materialized.
LEMMA HeldKept ==
  ASSUME IInv, Next, NEW v \in Worker, pc'[v] \in Materialized
  PROVE  HotState(v) \/ (pc[v] \in Materialized /\ held'[v] = held[v])
<1> DEFINE Goal == HotState(v) \/ (pc[v] \in Materialized /\ held'[v] = held[v])
<1>1. pc \in [Worker -> Labels] /\ held \in [Worker -> Stamped]
  BY Zenon DEF IInv, TypeOK, TypeWorker
<1>2. ASSUME NEW w \in Worker, Fail(w) PROVE Goal
  BY <1>1, <1>2, Zenon DEF Fail, Goto, Materialized
<1>3. ASSUME NEW w \in Worker, Done(w) PROVE Goal
  BY <1>1, <1>3, Zenon DEF Done, Goto, Materialized
<1>4. ASSUME NEW w \in Worker, NEW l, Goto(w, l), l \notin Materialized,
             UNCHANGED held \/ \E r : held' = [held EXCEPT ![w] = r]
      PROVE  Goal
  BY <1>1, <1>4, Zenon DEF Goto
<1>5. ASSUME NEW w \in Worker,
             \/ CommitRefused(w) \/ CommitDuplicate(w) \/ CommitCreated(w) \/ Lock(w)
             \/ GuardPass(w) \/ ClaimTaken(w) \/ ClaimWait(w) \/ PruneSkip(w)
             \/ Prune(w) \/ PruneError(w) \/ Ack(w)
      PROVE  Goal
  <2>1. \E l : /\ Goto(w, l) /\ l \notin Materialized
               /\ UNCHANGED held \/ \E r : held' = [held EXCEPT ![w] = r]
    BY <1>5, Zenon DEF CommitRefused, CommitDuplicate, CommitCreated, Lock, GuardPass,
       ClaimTaken, ClaimWait, PruneSkip, Prune, PruneError, AfterPrune, Ack, Materialized
  <2> QED  BY <1>4, <2>1, Zenon
<1>6. ASSUME NEW w \in Worker, HotState(w) \/ Process(w) \/ FinishLease(w) PROVE Goal
  BY <1>1, <1>6, Zenon DEF HotState, Process, FinishLease, Goto, Materialized
<1>7. ASSUME NEW w \in Worker, WorkerStep(w) PROVE Goal
  <2> HIDE DEF Goal
  <2> QED
    BY <1>2, <1>3, <1>5, <1>6, <1>7, Zenon DEF WorkerStep, Commit, Claim, GuardReject,
       ClaimApplied, ClaimMissing, MarkFailed, RenewalFailed, MarkApplied, CheckpointLost
<1>8. ASSUME NEW w \in Worker, Renew(w) \/ Abort(w) \/ RenewError(w) PROVE Goal
  <2> HIDE DEF Goal
  <2>1. ASSUME UNCHANGED <<pc, held>> PROVE Goal
    BY <2>1, Zenon DEF Goal
  <2> QED  BY <1>2, <1>8, <2>1, Zenon DEF Renew, Abort, RenewError
<1>9. ASSUME NEW c \in Controller, NEW l, pc' = [pc EXCEPT ![c] = l],
             l \notin Materialized, UNCHANGED held
      PROVE  Goal
  BY <1>1, <1>9, Zenon
<1>10. ASSUME NEW w \in Stream, NEW b \in Batch, Recv(w, b) PROVE Goal
  BY <1>1, <1>10, Zenon DEF Recv, Goto, Materialized, Worker
<1>11. ASSUME NEW c \in Controller,
              \/ RestoreDone(c) \/ RecoveryTick(c) \/ ListPending(c)
              \/ ReplayDone(c) \/ NextPending(c)
       PROVE  Goal
  <2>1. \E l : pc' = [pc EXCEPT ![c] = l] /\ l \notin Materialized /\ UNCHANGED held
    BY <1>11, Zenon DEF RestoreDone, RecoveryTick, ListPending, ReplayDone,
       NextPending, Goto, Materialized
  <2> QED  BY <1>9, <2>1, Zenon
<1>12. ASSUME NEW c \in Controller,
              RestoreStep(c) \/ Start(c) \/ Elect(c) \/ Depose(c) \/ Crash(c)
       PROVE  Goal
  <2>1. CASE Crash(c)
    BY <2>1, Zenon DEF Crash, Materialized
  <2>2. CASE UNCHANGED <<pc, held>>
    BY <2>2, Zenon
  <2> QED  BY <1>12, <2>1, <2>2, Zenon DEF RestoreStep, Start, Elect, Depose, workVars
<1>13. ASSUME Tick PROVE Goal
  BY <1>13, Zenon DEF Tick, workVars
<1> HIDE DEF Goal
<1>14. Goal
  BY <1>5, <1>7, <1>8, <1>10, <1>11, <1>12, <1>13, Zenon DEF Next, Step, ControllerStep
<1> QED  BY <1>14, Zenon DEF Goal

\* How a step changes what c has to hold.
Quiet(c) ==
  /\ phase'[c] = phase[c] \/ (phase[c] = "replay" /\ phase'[c] = "serving")
  /\ cursor'[c] = cursor[c] /\ base'[c] \subseteq base[c]
Ends(c) == phase'[c] = "down" /\ base'[c] = {}

\* What a step may do to the phase, the restore cursor and the base of c.
LEMMA CompleteCases ==
  ASSUME IInv, Next, NEW c \in Controller
  PROVE  \/ Quiet(c) \/ Ends(c) \/ Start(c) \/ RestoreStep(c) \/ RestoreDone(c)
         \/ \E w \in Worker : MarkApplied(w) /\ Host(w) = c
<1>1. /\ phase \in [Controller -> {"down", "restore", "replay", "serving"}]
      /\ cursor \in [Controller -> Stamps \X (Identity \cup {0})]
      /\ base \in [Controller -> SUBSET Batch]
  BY Zenon DEF IInv, TypeOK, TypeController, TypeHistory
<1>2. CASE UNCHANGED <<phase, cursor, base>>
  BY <1>2, Zenon DEF Quiet
<1>3. ASSUME NEW w \in Worker, Fail(w) PROVE Quiet(c) \/ Ends(c)
  BY <1>1, <1>3, HostType, Zenon DEF Fail, Quiet, Ends
<1>4. ASSUME NEW w \in Worker, MarkApplied(w), Host(w) # c PROVE Quiet(c)
  BY <1>1, <1>4, HostType, Zenon DEF MarkApplied, Done, Quiet
<1>5. ASSUME NEW w \in Worker, Prune(w) PROVE Quiet(c)
  BY <1>1, <1>5, Zenon DEF Prune, Quiet
<1>6. ASSUME NEW w \in Worker, WorkerStep(w)
      PROVE  \/ UNCHANGED <<phase, cursor, base>> \/ Fail(w) \/ MarkApplied(w) \/ Prune(w)
  BY <1>6, Zenon DEF WorkerStep, Commit, CommitRefused, CommitDuplicate,
     CommitCreated, Lock, GuardPass, GuardReject, Claim, ClaimTaken, ClaimWait,
     ClaimApplied, ClaimMissing, HotState, Process, MarkFailed, FinishLease,
     RenewalFailed, CheckpointLost, PruneSkip, Ack, Done, ctlVars, ghostVars
<1>7. ASSUME NEW w \in Worker, Renew(w) \/ Abort(w) \/ RenewError(w) \/ PruneError(w)
      PROVE  UNCHANGED <<phase, cursor, base>> \/ Fail(w)
  BY <1>7, Zenon DEF Renew, Abort, RenewError, PruneError, ctlVars, ghostVars
<1>8. ASSUME NEW w \in Stream, NEW b \in Batch, Recv(w, b)
      PROVE  UNCHANGED <<phase, cursor, base>>
  BY <1>8, Zenon DEF Recv, ctlVars, ghostVars
<1>9. ASSUME NEW d \in Controller,
             RecoveryTick(d) \/ ListPending(d) \/ NextPending(d) \/ Elect(d) \/ Depose(d)
      PROVE  UNCHANGED <<phase, cursor, base>>
  BY <1>9, Zenon DEF RecoveryTick, ListPending, NextPending, Elect, Depose, ctlVars,
     ghostVars
<1>10. ASSUME NEW d \in Controller, d # c,
              Start(d) \/ RestoreStep(d) \/ RestoreDone(d)
       PROVE  Quiet(c)
  BY <1>1, <1>10, Zenon DEF Start, RestoreStep, RestoreDone, Quiet, ghostVars
<1>11. ASSUME NEW d \in Controller, ReplayDone(d) PROVE Quiet(c)
  <2>1. phase[d] \in {"replay", "serving"}
    <3>1. d \in Worker /\ Host(d) = d
      BY WorkerAssumption, Zenon DEF Worker, Host
    <3> QED  BY <1>1, <1>11, <3>1 DEF ReplayDone, IInv, WInv, Control
  <2> QED  BY <1>1, <1>11, <2>1, Zenon DEF ReplayDone, Quiet, ghostVars
<1>12. ASSUME NEW d \in Controller, Crash(d) PROVE Quiet(c) \/ Ends(c)
  BY <1>1, <1>12, Zenon DEF Crash, Quiet, Ends
<1>13. ASSUME Tick PROVE UNCHANGED <<phase, cursor, base>>
  BY <1>13, Zenon DEF Tick
<1> QED
  BY <1>2, <1>3, <1>4, <1>5, <1>6, <1>7, <1>8, <1>9, <1>10, <1>11, <1>12, <1>13, Zenon
     DEF Next, Step, ControllerStep

\* Nothing but retention takes the receipt of an applied batch away.
LEMMA OwnsKept ==
  ASSUME IInv, DInv, Next, NEW b \in Batch, Owns(b),
         NEW c \in Controller, b \in base'[c]
  PROVE  Owns(b)' /\ inbox'[IdentityOf[b]].at = inbox[IdentityOf[b]].at
<1> DEFINE i == IdentityOf[b]
<1>1. i \in Identity /\ Present(i) /\ Applied(i) /\ inbox[i].batch = b
  BY BatchAssumption, Zenon DEF Owns, Present, Applied
<1>2. inbox'[i].state # "absent"
  <2>1. CASE Steady
    BY <1>1, <2>1, Zenon DEF Steady, Present
  <2>2. CASE Tick
    BY <1>1, <2>2, TickEffect, Zenon DEF Present
  <2>3. ASSUME NEW w \in Worker, CommitCreated(w) PROVE inbox'[i].state # "absent"
    BY <1>1, <2>3, CreatedEffect, Zenon DEF Present
  <2>4. ASSUME NEW w \in Worker, MarkApplied(w) PROVE inbox'[i].state # "absent"
    BY <1>1, <2>4, AppliedEffect DEF Present
  <2>5. ASSUME NEW w \in Worker, Prune(w) PROVE inbox'[i].state # "absent"
    <3>1. PICK S \in SUBSET Identity :
            /\ inbox' = [j \in Identity |-> IF j \in S THEN NoReceipt ELSE inbox[j]]
            /\ base' = [d \in Controller |-> base[d] \ {inbox[j].batch : j \in S}]
      BY <2>5, PruneEffect, Zenon
    <3>2. i \notin S
      BY <1>1, <3>1, Zenon
    <3> QED  BY <1>1, <3>1, <3>2, Zenon DEF Present
  <2> QED  BY <2>1, <2>2, <2>3, <2>4, <2>5, InboxCases, Zenon
<1> QED  BY <1>1, <1>2, Lifecycle, Zenon DEF Owns, Applied

\* A batch that c answers for stays retained.
LEMMA BaseNext ==
  ASSUME IInv, DInv, HInv, Next, NEW c \in Controller, NEW b \in base'[c]
  PROVE  Owns(b)'
<1>1. /\ base \in [Controller -> SUBSET Batch]
      /\ \A d \in base[c] : d \in Batch /\ Owns(d)
  BY Zenon DEF IInv, TypeOK, TypeHistory, HInv
<1>2. CASE b \in base[c]
  BY <1>1, <1>2, OwnsKept, Zenon
<1>3. CASE Start(c)
  <2>1. PICK i \in Identity : Applied(i) /\ b = inbox[i].batch
    BY <1>1, <1>3, Zenon DEF Start
  <2>2. IdentityOf[b] = i /\ inbox' = inbox
    BY <1>3, <2>1, Zenon DEF Start, inboxVars, DInv, Homed, Present, Applied
  <2> QED  BY <2>1, <2>2, Zenon DEF Owns, Applied
<1>4. ASSUME NEW w \in Worker, MarkApplied(w), Host(w) = c, b \notin base[c]
      PROVE  Owns(b)'
  <2>1. PICK i \in Identity : i = target[w]
    BY <1>4, AppliedEffect, Zenon
  <2>2. /\ inbox[i].state = "applying" /\ inbox'[i].state = "applied"
        /\ inbox'[i].batch = inbox[i].batch
        /\ base' = [base EXCEPT ![c] = @ \cup {inbox[i].batch}]
    BY <1>4, <2>1, AppliedEffect, Zenon
  <2>3. b = inbox[i].batch
    BY <1>1, <1>4, <2>2, Zenon
  <2>4. IdentityOf[b] = i
    BY <2>2, <2>3, Zenon DEF DInv, Homed, Present
  <2> QED  BY <2>2, <2>3, <2>4, Zenon DEF Owns, Applied
<1>5. CASE RestoreStep(c) \/ RestoreDone(c)
  BY <1>2, <1>5, Zenon DEF RestoreStep, RestoreDone, ghostVars
<1> QED  BY <1>2, <1>3, <1>4, <1>5, CompleteCases, Zenon DEF Quiet, Ends

\* Every acceptance stamp comes after the cursor that RestoreHotState starts from.
LEMMA FromTheStart ==
  ASSUME IInv, NEW i \in Identity PROVE Before(<<0, 0>>, Order(i))
<1>1. i \in Nat /\ i # 0
  BY IdentityAssumption, Zenon
<1>2. inbox[i].at \in Nat
  BY TimeAssumption DEF IInv, TypeOK, TypeStore, Receipt, Stamps
<1> QED  BY <1>1, <1>2 DEF Before, Order

\* Every step keeps the hot store of c complete up to the restore cursor.
LEMMA CompleteNext ==
  ASSUME IInv, DInv, HInv, Next, NEW c \in Controller
  PROVE  Complete(c)'
<1>1. /\ Complete(c) /\ base[c] \subseteq Batch
      /\ phase \in [Controller -> {"down", "restore", "replay", "serving"}]
      /\ \A b \in base[c] : Owns(b)
  BY Zenon DEF HInv, IInv, TypeOK, TypeHistory, TypeController
<1>2. \A b \in base'[c] : Owns(b)' /\ b \in Batch
  <2>1. IInv'
    BY NextIInv, Zenon
  <2>2. base'[c] \subseteq Batch
    BY <2>1, Zenon DEF IInv, TypeOK, TypeHistory
  <2> QED  BY <2>2, BaseNext, Zenon
<1>3. CASE Quiet(c)
  <2>1. /\ phase'[c] = phase[c] \/ (phase[c] = "replay" /\ phase'[c] = "serving")
        /\ cursor'[c] = cursor[c] /\ base'[c] \subseteq base[c]
    BY <1>3, Zenon DEF Quiet
  <2>2. phase'[c] # "down" => hot[c].batches \subseteq hot'[c].batches
    BY HotGrows, Zenon
  <2>3. phase'[c] = "down" => base'[c] = {}
    BY <1>1, <2>1, Zenon DEF Complete
  <2>4. ASSUME phase'[c] = "restore", NEW b \in base'[c]
        PROVE  b \in hot'[c].batches \/ Before(cursor'[c], Order(IdentityOf[b])')
    <3>1. b \in Batch /\ Owns(b) /\ b \in base[c] /\ phase[c] = "restore"
      BY <1>1, <2>1, <2>4
    <3>2. Order(IdentityOf[b])' = Order(IdentityOf[b])
      BY <3>1, OwnsKept, Zenon DEF Order
    <3>3. b \in hot[c].batches \/ Before(cursor[c], Order(IdentityOf[b]))
      BY <1>1, <3>1, Zenon DEF Complete
    <3> QED  BY <2>1, <2>2, <2>4, <3>2, <3>3
  <2>5. phase'[c] \in {"replay", "serving"} => base'[c] \subseteq hot'[c].batches
    BY <1>1, <2>1, <2>2, Zenon DEF Complete
  <2> QED  BY <2>3, <2>4, <2>5, Zenon DEF Complete
<1>4. CASE Ends(c)
  BY <1>4, Zenon DEF Ends, Complete
<1>5. CASE Start(c)
  <2>1. phase'[c] = "restore" /\ cursor'[c] = <<0, 0>> /\ inbox' = inbox
    BY <1>1, <1>5, Zenon DEF Start, inboxVars, IInv, TypeOK, TypeController
  <2>2. ASSUME NEW b \in base'[c] PROVE Before(cursor'[c], Order(IdentityOf[b])')
    <3>1. IdentityOf[b] \in Identity
      BY <1>2, <2>2, BatchAssumption, Zenon
    <3>2. Order(IdentityOf[b])' = Order(IdentityOf[b])
      BY <2>1, Zenon DEF Order
    <3> QED  BY <2>1, <3>1, <3>2, FromTheStart, Zenon
  <2> QED  BY <2>1, <2>2 DEF Complete
<1>6. CASE RestoreStep(c)
  <2>1. /\ phase[c] = "restore"
        /\ UNCHANGED <<phase, inbox, base>>
    BY <1>6, Zenon DEF RestoreStep, inboxVars, ghostVars
  <2>2. PICK i \in Identity :
          /\ \A p \in Retained(c) \ {Order(i)} : Before(Order(i), p)
          /\ cursor' = [cursor EXCEPT ![c] = Order(i)]
          /\ hot' = IF Applied(i)
               THEN [hot EXCEPT ![c] = Materialize(@, inbox[i])] ELSE hot
    BY <1>6, Zenon DEF RestoreStep
  <2>3. cursor'[c] = Order(i) /\ hot[c].batches \subseteq hot'[c].batches
    BY <2>1, <2>2, HotGrows DEF IInv, TypeOK, TypeController
  <2>4. ASSUME NEW b \in base'[c]
        PROVE  b \in hot'[c].batches \/ Before(cursor'[c], Order(IdentityOf[b])')
    <3> DEFINE j == IdentityOf[b]
    <3>1. b \in base[c] /\ j \in Identity /\ Applied(j) /\ inbox[j].batch = b
      BY <1>1, <2>1, <2>4, BatchAssumption, Zenon DEF Owns
    <3>2. Order(j)' = Order(j)
      BY <2>1, Zenon DEF Order
    <3>3. CASE b \in hot[c].batches
      BY <2>3, <3>3, Zenon
    <3>4. CASE Order(j) = Order(i)
      <4>1. j = i
        BY <3>4, Zenon DEF Order
      <4>2. hot' = [hot EXCEPT ![c] = Materialize(hot[c], inbox[i])]
        BY <2>2, <3>1, <4>1, Zenon
      <4>3. hot'[c] = Materialize(hot[c], inbox[i]) /\ hot[c] \in HotView
        BY <4>2, Zenon DEF IInv, TypeOK, TypeController
      <4>4. inbox[i].batch \in Materialize(hot[c], inbox[i]).batches
        BY <4>3, Zenon DEF Materialize, HotView
      <4> QED  BY <3>1, <4>1, <4>3, <4>4
    <3>5. CASE Order(j) # Order(i) /\ b \notin hot[c].batches
      <4>1. Before(cursor[c], Order(j))
        BY <1>1, <2>1, <3>1, <3>5, Zenon DEF Complete
      <4>2. Order(j) \in Retained(c)
        BY <3>1, <4>1, Zenon DEF Retained, Present, Applied
      <4>3. Before(Order(i), Order(j))
        BY <2>2, <3>5, <4>2, Zenon
      <4> QED  BY <2>3, <3>2, <4>3
    <3> QED  BY <3>3, <3>4, <3>5, Zenon
  <2> QED  BY <2>1, <2>4 DEF Complete
<1>7. CASE RestoreDone(c)
  <2>1. /\ phase[c] = "restore" /\ phase'[c] \in {"replay", "serving"}
        /\ Retained(c) = {} /\ UNCHANGED <<hot, base>>
    BY <1>1, <1>7, Zenon DEF RestoreDone, ghostVars
  <2>2. ASSUME NEW b \in base[c] PROVE b \in hot[c].batches
    <3>1. IdentityOf[b] \in Identity /\ Applied(IdentityOf[b])
      BY <1>1, <2>2, BatchAssumption, Zenon DEF Owns
    <3>2. ~Before(cursor[c], Order(IdentityOf[b]))
      BY <2>1, <3>1, Zenon DEF Retained, Present, Applied
    <3> QED  BY <1>1, <2>1, <2>2, <3>2, Zenon DEF Complete
  <2> QED  BY <2>1, <2>2 DEF Complete
<1>8. ASSUME NEW w \in Worker, MarkApplied(w), Host(w) = c PROVE Complete(c)'
  <2>1. PICK b : b = inbox[target[w]].batch
    BY Zenon
  <2>2. /\ pc[w] = "checkpoint" /\ held[w].batch = b /\ hot' = hot
        /\ base' = [base EXCEPT ![c] = @ \cup {b}]
    BY <1>8, <2>1, AppliedEffect, Zenon
  <2>3. phase' = phase
    BY <1>8, Zenon DEF MarkApplied, Done
  <2>4. phase[c] \in {"replay", "serving"}
    BY <1>1, <1>8, <2>2 DEF IInv, WInv, Control
  <2>5. b \in hot[c].batches
    BY <1>8, <2>2, Zenon DEF HInv, Materialized
  <2>6. base'[c] = base[c] \cup {b}
    BY <2>2, Zenon DEF IInv, TypeOK, TypeHistory
  <2> QED  BY <1>1, <2>2, <2>3, <2>4, <2>5, <2>6 DEF Complete
<1> QED  BY <1>3, <1>4, <1>5, <1>6, <1>7, <1>8, CompleteCases, Zenon

\* Every step keeps the hot stores complete.
LEMMA NextHInv == ASSUME IInv, DInv, HInv, [Next]_vars PROVE HInv'
<1>1. CASE UNCHANGED vars
  BY <1>1, Zenon DEF vars, HInv, Complete, Owns, Applied, Order, Host, workVars,
     inboxVars, ghostVars, ctlVars
<1>2. CASE Next
  <2>1. ASSUME NEW w \in Worker, pc'[w] \in Materialized
        PROVE  held'[w].batch \in hot'[Host(w)].batches
    <3>1. CASE HotState(w)
      <4>1. /\ hot' = [hot EXCEPT ![Host(w)] = Materialize(hot[Host(w)], held[w])]
            /\ held' = held
        BY <3>1, Zenon DEF HotState
      <4>2. /\ hot'[Host(w)] = Materialize(hot[Host(w)], held[w])
            /\ hot[Host(w)] \in HotView
        BY <4>1, HostType, Zenon DEF IInv, TypeOK, TypeController
      <4>3. held[w].batch \in Materialize(hot[Host(w)], held[w]).batches
        BY <4>2, Zenon DEF Materialize, HotView
      <4> QED  BY <4>1, <4>2, <4>3
    <3>2. CASE pc[w] \in Materialized /\ held'[w] = held[w]
      <4>1. held[w].batch \in hot[Host(w)].batches
        BY <3>2, Zenon DEF HInv
      <4>2. phase'[Host(w)] # "down"
        <5>1. Control(w)'
          BY <1>2, NextIInv, Zenon DEF IInv, WInv
        <5> QED  BY <2>1, <5>1 DEF Control, Materialized, Host
      <4> QED  BY <1>2, <3>2, <4>1, <4>2, HotGrows, HostType
    <3> QED  BY <1>2, <2>1, <3>1, <3>2, HeldKept, Zenon
  <2>2. ASSUME NEW c \in Controller PROVE Complete(c)' /\ \A b \in base'[c] : Owns(b)'
    BY <1>2, CompleteNext, BaseNext, Zenon
  <2> QED  BY <2>1, <2>2, Zenon DEF HInv, Host
<1> QED  BY <1>1, <1>2, Zenon

\* A controller past start-up has in its hot store every retained batch that was
\* applied before it started or by one of its own workers.
THEOREM HotStoreIsComplete == Spec => []HotComplete
<1>1. Init => HInv
  <2> SUFFICES ASSUME Init PROVE HInv
    BY Zenon
  <2>1. ASSUME NEW c \in Controller PROVE phase[c] = "down" /\ base[c] = {}
    BY Zenon DEF Init
  <2>2. ASSUME NEW w \in Worker PROVE pc[w] \notin Materialized
    BY Zenon DEF Init, Materialized
  <2> QED  BY <2>1, <2>2 DEF HInv, Complete
<1>2. IInv /\ DInv /\ HInv /\ [Next]_vars => HInv'
  BY NextHInv, Zenon
<1>3. HInv => HotComplete
  BY Zenon DEF HInv, Complete, HotComplete
<1> QED  BY <1>1, <1>2, <1>3, DataInvariance, PTL DEF Spec

-----------------------------------------------------------------------------
(* Capacity. *)

INSTANCE FiniteSetTheorems

\* The receipts that are there, and the fields of a receipt.
There == {i \in Identity : Present(i)}
Fields == {"state", "batch", "at", "owner", "lease", "age"}

\* Every identity has a receipt with these fields, and one that is there has a payload.
Slots ==
  /\ inbox = [i \in Identity |-> inbox[i]]
  /\ \A i \in Identity : inbox[i] = [f \in Fields |-> inbox[i][f]]
  /\ \A i \in Identity : Present(i) => inbox[i].batch \in Batch

\* The counters are what they count, and within the limits.
Counted ==
  /\ IsFiniteSet(There) /\ IsFiniteSet(Payloads(There))
  /\ used = [records |-> Cardinality(There), bytes |-> Bytes(There)]
  /\ used.records <= MaxRecords /\ used.bytes <= MaxBytes


\* A step that neither stores nor deletes a receipt.
Kept ==
  /\ used' = used
  /\ \A i \in Identity :
       /\ inbox'[i].state = "absent" <=> inbox[i].state = "absent"
       /\ inbox'[i].batch = inbox[i].batch

\* Such a step leaves what is counted.
LEMMA KeptCounted == ASSUME Counted, Kept PROVE Counted'
<1>1. There' = There
  BY Zenon DEF Kept, There, Present
<1>2. \A i \in There : SizeOf[inbox'[i].batch] = SizeOf[inbox[i].batch]
  BY Zenon DEF Kept, There
<1>3. Payloads(There)' = Payloads(There)
  <2>1. \A x : x \in Payloads(There) <=>
                \E i \in There : \E n \in 1 .. SizeOf[inbox[i].batch] : x = <<i, n>>
    BY SMT DEF Payloads
  <2>2. \A x : x \in Payloads(There)' <=>
                \E i \in There' : \E n \in 1 .. SizeOf[inbox'[i].batch] : x = <<i, n>>
    BY SMT DEF Payloads
  <2>3. \A x : x \in Payloads(There)' <=> x \in Payloads(There)
    BY <1>1, <1>2, <2>1, <2>2, Zenon
  <2>4. QED
    BY <2>3, Zenon
<1>4. QED
  BY <1>1, <1>3, Zenon DEF Counted, Kept, Bytes

\* A new receipt is counted once, with its length.
LEMMA CreatedCounted ==
  ASSUME Slots, Counted, NEW i \in Identity, NEW b \in Batch, ~Present(i),
         inbox'[i].state # "absent", inbox'[i].batch = b,
         \A j \in Identity \ {i} : inbox'[j] = inbox[j],
         used.records < MaxRecords, used.bytes + SizeOf[b] <= MaxBytes,
         used' = [records |-> used.records + 1, bytes |-> used.bytes + SizeOf[b]]
  PROVE  Counted'
<1> DEFINE old == Payloads(There)
           new == {<<i, n>> : n \in 1 .. SizeOf[b]}
<1>1. There' = There \cup {i} /\ i \notin There
  BY Zenon DEF There, Present
<1>2. IsFiniteSet(There) /\ IsFiniteSet(There') /\ IsFiniteSet(old)
  BY <1>1, FS_AddElement, Zenon DEF Counted
<1>3. Cardinality(There') = Cardinality(There) + 1 /\ Cardinality(There) \in Nat
  BY <1>1, <1>2, FS_AddElement, FS_CardinalityType, Zenon
<1>4. SizeOf[b] \in Nat
  BY BatchAssumption, Zenon
<1>5. IsFiniteSet(new) /\ Cardinality(new) = SizeOf[b]
  <2> DEFINE range == 1 .. SizeOf[b]
  <2>1. IsFiniteSet(range) /\ Cardinality(range) = SizeOf[b]
    <3> DEFINE m == SizeOf[b]
    <3>1. m \in Nat
      BY <1>4, Zenon
    <3> HIDE DEF m
    <3>2. IsFiniteSet(1 .. m) /\ Cardinality(1 .. m) = m
      BY <3>1, FS_Interval
    <3>3. QED
      BY <3>2, Zenon DEF m
  <2>2. IsFiniteSet({i}) /\ Cardinality({i}) = 1
    BY FS_Singleton, Zenon
  <2>3. new = {i} \X range
    OBVIOUS
  <2> HIDE DEF range, new
  <2>4. ASSUME NEW A, NEW B, IsFiniteSet(A), IsFiniteSet(B)
        PROVE  IsFiniteSet(A \X B) /\ Cardinality(A \X B) = Cardinality(A) * Cardinality(B)
    BY <2>4, FS_Product
  <2>5. IsFiniteSet({i} \X range) /\ Cardinality({i} \X range) = 1 * SizeOf[b]
    <3>1. IsFiniteSet({i} \X range) /\ Cardinality({i} \X range) = Cardinality({i}) * Cardinality(range)
      BY <2>1, <2>2, <2>4, Zenon
    <3>2. QED
      BY <2>1, <2>2, <3>1, Zenon
  <2>6. 1 * SizeOf[b] = SizeOf[b]
    <3> DEFINE m == SizeOf[b]
    <3>1. m \in Nat
      BY <1>4, Zenon
    <3> HIDE DEF m
    <3>2. 1 * m = m
      BY <3>1
    <3>3. QED
      BY <3>2, Zenon DEF m
  <2>7. QED
    BY <2>3, <2>5, <2>6, Zenon
<1>6. Payloads(There)' = old \cup new
  <2>1. \A j \in There : inbox'[j].batch = inbox[j].batch
    BY <1>1, Zenon DEF There
  <2>2. \A x : x \in old <=>
                \E j \in There : \E n \in 1 .. SizeOf[inbox[j].batch] : x = <<j, n>>
    BY SMT DEF Payloads
  <2>3. \A x : x \in Payloads(There)' <=>
                \E j \in There' : \E n \in 1 .. SizeOf[inbox'[j].batch] : x = <<j, n>>
    BY SMT DEF Payloads
  <2>4. \A x : x \in new <=> \E n \in 1 .. SizeOf[b] : x = <<i, n>>
    BY Zenon
  <2> HIDE DEF old, new
  <2>5. \A x : x \in Payloads(There)' <=> x \in old \/ x \in new
    <3>1. ASSUME NEW x PROVE x \in Payloads(There)' =>
             \/ \E j \in There : \E n \in 1 .. SizeOf[inbox'[j].batch] : x = <<j, n>>
             \/ \E n \in 1 .. SizeOf[b] : x = <<i, n>>
      BY <1>1, <2>3, Zenon
    <3>2. ASSUME NEW x, NEW j \in There
          PROVE  (\E n \in 1 .. SizeOf[inbox'[j].batch] : x = <<j, n>>)
                   <=> \E n \in 1 .. SizeOf[inbox[j].batch] : x = <<j, n>>
      BY <2>1, Zenon
    <3>3. ASSUME NEW x PROVE x \in Payloads(There)' => x \in old \/ x \in new
      <4>1. CASE \E j \in There : \E n \in 1 .. SizeOf[inbox'[j].batch] : x = <<j, n>>
        <5>1. PICK j \in There : \E n \in 1 .. SizeOf[inbox'[j].batch] : x = <<j, n>>
          BY <4>1, Zenon
        <5>2. \E n \in 1 .. SizeOf[inbox[j].batch] : x = <<j, n>>
          BY <3>2, <5>1, Zenon
        <5>3. QED
          BY <2>2, <5>2, Zenon
      <4>2. CASE \E n \in 1 .. SizeOf[b] : x = <<i, n>>
        BY <2>4, <4>2, Zenon
      <4>3. QED
        BY <3>1, <4>1, <4>2, Zenon
    <3>4. ASSUME NEW x PROVE x \in old => x \in Payloads(There)'
      <4>1. SUFFICES ASSUME x \in old PROVE x \in Payloads(There)'
        BY Zenon
      <4>2. PICK j \in There : \E n \in 1 .. SizeOf[inbox[j].batch] : x = <<j, n>>
        BY <2>2, <4>1, Zenon
      <4>3. j \in There' /\ \E n \in 1 .. SizeOf[inbox'[j].batch] : x = <<j, n>>
        BY <1>1, <3>2, <4>2, Zenon
      <4>4. QED
        BY <2>3, <4>3, Zenon
    <3>5. ASSUME NEW x PROVE x \in new => x \in Payloads(There)'
      <4>1. i \in There' /\ 1 .. SizeOf[inbox'[i].batch] = 1 .. SizeOf[b]
        BY <1>1, Zenon
      <4>2. QED
        BY <2>3, <2>4, <4>1, Zenon
    <3>6. QED
      BY <3>3, <3>4, <3>5, Zenon
  <2>6. QED
    BY <2>5, Zenon
<1>7. old \cap new = {}
  <2>1. \A x \in old : x[1] # i
    BY <1>1 DEF Payloads
  <2>2. \A x \in new : x[1] = i
    OBVIOUS
  <2>3. QED
    BY <2>1, <2>2, Zenon
<1> HIDE DEF old, new
<1>8. /\ IsFiniteSet(old \cup new)
      /\ Cardinality(old \cup new) = Cardinality(old) + SizeOf[b] /\ Cardinality(old) \in Nat
  <2>1. /\ IsFiniteSet(old \cup new)
        /\ Cardinality(old \cup new) = Cardinality(old) + Cardinality(new) - Cardinality({})
    <3>1. ASSUME NEW A, NEW B, IsFiniteSet(A), IsFiniteSet(B), A \cap B = {}
          PROVE  /\ IsFiniteSet(A \cup B)
                 /\ Cardinality(A \cup B) = Cardinality(A) + Cardinality(B) - Cardinality({})
      <4>1. /\ IsFiniteSet(A \cup B)
            /\ Cardinality(A \cup B) = Cardinality(A) + Cardinality(B) - Cardinality(A \cap B)
        BY <3>1, FS_Union, Zenon
      <4>2. QED
        BY <3>1, <4>1, Zenon
    <3>2. QED
      BY <1>2, <1>5, <1>7, <3>1, Zenon
  <2>2. Cardinality({}) = 0 /\ Cardinality(old) \in Nat
    BY <1>2, FS_EmptySet, FS_CardinalityType, Zenon
  <2>3. QED
    <3> DEFINE m == SizeOf[b]
               c == Cardinality(old)
               d == Cardinality(new)
               z == Cardinality({})
               w == Cardinality(old \cup new)
    <3>1. m \in Nat /\ c \in Nat /\ d = m /\ z = 0 /\ w = c + d - z
      BY <1>4, <1>5, <2>1, <2>2, Zenon
    <3> HIDE DEF m, c, d, z, w
    <3>2. w = c + m
      BY <3>1
    <3>3. QED
      BY <2>1, <2>2, <3>2, Zenon DEF w, c, m
<1>9. /\ IsFiniteSet(Payloads(There)')
      /\ Bytes(There)' = Bytes(There) + SizeOf[b] /\ Bytes(There) \in Nat
  BY <1>6, <1>8, Zenon DEF Bytes, old
<1>10. used.records = Cardinality(There) /\ used.bytes = Bytes(There)
  BY Zenon DEF Counted
<1>11. used' = [records |-> Cardinality(There'), bytes |-> Bytes(There)']
  BY <1>3, <1>9, <1>10, Zenon
<1>12. used'.records <= MaxRecords /\ used'.bytes <= MaxBytes
  <2> DEFINE c == used.records
  <2>1. /\ c \in Nat /\ c < MaxRecords /\ MaxRecords \in Nat
        /\ used'.records = c + 1 /\ used'.bytes = used.bytes + SizeOf[b]
    BY <1>3, <1>10, LimitAssumption, Zenon
  <2> HIDE DEF c
  <2>2. c + 1 <= MaxRecords
    BY <2>1
  <2>3. QED
    BY <2>1, <2>2, Zenon
<1>13. QED
  BY <1>2, <1>9, <1>11, <1>12, Zenon DEF Counted

\* Deleted receipts are taken off the counters with their lengths.
LEMMA DeletedCounted ==
  ASSUME Slots, Counted, NEW S \in SUBSET There, Delete(S)
  PROVE  Counted'
<1>0. inbox' = [i \in Identity |-> IF i \in S THEN NoReceipt ELSE inbox[i]]
  BY Zenon DEF Delete
<1>1. There' = There \ S
  BY <1>0, Zenon DEF There, Present, NoReceipt
<1>2. IsFiniteSet(There) /\ IsFiniteSet(S) /\ IsFiniteSet(There \ S)
  BY FS_Subset, Zenon DEF Counted
<1>3. /\ Cardinality(There \ S) = Cardinality(There) - Cardinality(S)
      /\ Cardinality(There) \in Nat /\ Cardinality(S) \in Nat /\ Cardinality(There \ S) \in Nat
  <2>1. There \cap S = S
    BY Zenon
  <2>2. QED
    BY <1>2, <2>1, FS_Difference, FS_CardinalityType
<1>4. Payloads(There)' = Payloads(There) \ Payloads(S)
  <2>1. \A j \in There \ S : inbox'[j] = inbox[j]
    BY <1>0, Zenon DEF There
  <2>2. \A x : x \in Payloads(There)' <=>
                \E j \in There \ S : \E n \in 1 .. SizeOf[inbox'[j].batch] : x = <<j, n>>
    BY <1>1, SMT DEF Payloads
  <2>3. \A x : x \in Payloads(There) <=>
                \E j \in There : \E n \in 1 .. SizeOf[inbox[j].batch] : x = <<j, n>>
    BY SMT DEF Payloads
  <2>4. \A x : x \in Payloads(S) <=>
                \E j \in S : \E n \in 1 .. SizeOf[inbox[j].batch] : x = <<j, n>>
    BY SMT DEF Payloads
  <2>5. \A j, k, m, n : <<j, n>> = <<k, m>> => j = k
    BY SMT
  <2>6. \A x : x \in Payloads(There)' <=> x \in Payloads(There) /\ x \notin Payloads(S)
    <3>1. ASSUME NEW x, x \in Payloads(There)' PROVE x \in Payloads(There) /\ x \notin Payloads(S)
      <4>1. PICK j \in There \ S : \E n \in 1 .. SizeOf[inbox'[j].batch] : x = <<j, n>>
        BY <2>2, <3>1, Zenon
      <4>2. \E n \in 1 .. SizeOf[inbox[j].batch] : x = <<j, n>>
        BY <2>1, <4>1, Zenon
      <4>3. x \in Payloads(There)
        BY <2>3, <4>2, Zenon
      <4>4. x \notin Payloads(S)
        BY <2>4, <2>5, <4>2, Zenon
      <4>5. QED
        BY <4>3, <4>4, Zenon
    <3>2. ASSUME NEW x, x \in Payloads(There), x \notin Payloads(S) PROVE x \in Payloads(There)'
      <4>1. PICK j \in There : \E n \in 1 .. SizeOf[inbox[j].batch] : x = <<j, n>>
        BY <2>3, <3>2, Zenon
      <4>2. j \in There \ S
        BY <2>4, <3>2, <4>1, Zenon
      <4>3. \E n \in 1 .. SizeOf[inbox'[j].batch] : x = <<j, n>>
        BY <2>1, <4>1, <4>2, Zenon
      <4>4. QED
        BY <2>2, <4>2, <4>3, Zenon
    <3>3. QED
      BY <3>1, <3>2, Zenon
  <2>7. QED
    BY <2>6, Zenon
<1>5. Payloads(S) \subseteq Payloads(There)
  <2>1. \A x : x \in Payloads(S) =>
                \E j \in S : \E n \in 1 .. SizeOf[inbox[j].batch] : x = <<j, n>>
    BY SMT DEF Payloads
  <2>2. \A x : (\E j \in There : \E n \in 1 .. SizeOf[inbox[j].batch] : x = <<j, n>>)
                => x \in Payloads(There)
    BY SMT DEF Payloads
  <2>3. QED
    BY <2>1, <2>2, Zenon
<1>6. IsFiniteSet(Payloads(There)') /\ Bytes(There)' = Bytes(There) - Bytes(S)
  <2>1. Payloads(There) \cap Payloads(S) = Payloads(S) /\ IsFiniteSet(Payloads(There))
    BY <1>5, Zenon DEF Counted
  <2>2. QED
    BY <1>4, <2>1, FS_Difference, Zenon DEF Bytes
<1>7. Bytes(There)' \in Nat /\ Bytes(There) \in Nat /\ Bytes(S) \in Nat
  <2>1. IsFiniteSet(Payloads(S)) /\ IsFiniteSet(Payloads(There))
    BY <1>5, FS_Subset, Zenon DEF Counted
  <2>2. QED
    BY <1>6, <2>1, FS_CardinalityType, Zenon DEF Bytes
<1>8. /\ used.records = Cardinality(There) /\ used.bytes = Bytes(There)
      /\ used.records <= MaxRecords /\ used.bytes <= MaxBytes
  BY Zenon DEF Counted
<1>9. used' = [records |-> used.records - Cardinality(S), bytes |-> used.bytes - Bytes(S)]
  BY Zenon DEF Delete
<1>10. used' = [records |-> Cardinality(There'), bytes |-> Bytes(There)']
  BY <1>1, <1>3, <1>6, <1>8, <1>9, Zenon
<1>11. used'.records <= MaxRecords /\ used'.bytes <= MaxBytes
  <2> DEFINE c == used.records
             d == Cardinality(S)
             x == used.bytes
             y == Bytes(S)
  <2>1. /\ c \in Nat /\ d \in Nat /\ x \in Nat /\ y \in Nat /\ c <= MaxRecords /\ x <= MaxBytes
        /\ MaxRecords \in Nat /\ MaxBytes \in Nat /\ used'.records = c - d /\ used'.bytes = x - y
    BY <1>3, <1>7, <1>8, <1>9, LimitAssumption, Zenon
  <2> HIDE DEF c, d, x, y
  <2>2. c - d <= MaxRecords /\ x - y <= MaxBytes
    BY <2>1
  <2>3. QED
    BY <2>1, <2>2, Zenon
<1>12. QED
  BY <1>1, <1>2, <1>6, <1>10, <1>11, Zenon DEF Counted

-----------------------------------------------------------------------------
(* The steps. *)

\* The invariant gives the shape of the receipts.
LEMMA InvariantSlots == IInv => Slots
<1> SUFFICES ASSUME IInv PROVE Slots
  BY Zenon
<1>1. inbox \in [Identity -> Receipt] /\ ReceiptShape
  BY Zenon DEF IInv, TypeOK, TypeStore
<1>2. \A i \in Identity : inbox[i] = [f \in Fields |-> inbox[i][f]]
  <2> SUFFICES ASSUME NEW i \in Identity PROVE inbox[i] = [f \in Fields |-> inbox[i][f]]
    BY Zenon
  <2>1. inbox[i] \in Receipt
    BY <1>1, Zenon
  <2> QED
    BY <2>1 DEF Receipt, Fields
<1> QED
  BY <1>1, <1>2, Zenon DEF Slots, ReceiptShape

\* One receipt is replaced by one with the same payload, which is there if it was.
LEMMA ReplacedKept ==
  ASSUME Slots, NEW i, NEW q, inbox' = [inbox EXCEPT ![i] = q], used' = used,
         i \in Identity => /\ q.batch = inbox[i].batch
                           /\ q.state = "absent" <=> inbox[i].state = "absent"
  PROVE  Kept
<1>1. ASSUME NEW j \in Identity
      PROVE /\ inbox'[j].state = "absent" <=> inbox[j].state = "absent"
            /\ inbox'[j].batch = inbox[j].batch
  <2>1. CASE i = j
    BY <2>1, Zenon DEF Slots
  <2>2. CASE i # j
    BY <2>2, Zenon DEF Slots
  <2>3. QED
    BY <2>1, <2>2, Zenon
<1>2. QED
  BY <1>1, Zenon DEF Kept

\* The steps that leave the inbox alone.
LEMMA Aside ==
  ASSUME Next, ~Tick,
         \A w \in Worker : ~CommitCreated(w) /\ ~ClaimTaken(w) /\ ~MarkFailed(w)
                             /\ ~Renew(w) /\ ~MarkApplied(w) /\ ~Prune(w)
  PROVE  inbox' = inbox /\ used' = used
<1>1. ASSUME NEW w \in Worker, WorkerStep(w) PROVE UNCHANGED inboxVars
  BY <1>1, Zenon DEF WorkerStep, Commit, CommitRefused, CommitDuplicate, Lock,
     GuardPass, GuardReject, Claim, ClaimWait, ClaimApplied, ClaimMissing, HotState,
     Process, FinishLease, RenewalFailed, CheckpointLost, PruneSkip, Ack
<1>2. ASSUME NEW c \in Controller,
             \/ ControllerStep(c) \/ Start(c) \/ Elect(c) \/ Depose(c) \/ Crash(c)
      PROVE  UNCHANGED inboxVars
  BY <1>2, Zenon DEF ControllerStep, RestoreStep, RestoreDone, RecoveryTick,
     ListPending, ReplayDone, NextPending, Start, Elect, Depose, Crash
<1>3. ASSUME NEW w \in Worker, Abort(w) \/ RenewError(w) \/ PruneError(w)
      PROVE  UNCHANGED inboxVars
  BY <1>3, Zenon DEF Abort, RenewError, PruneError
<1>4. ASSUME NEW w \in Stream, NEW b \in Batch, Recv(w, b) PROVE UNCHANGED inboxVars
  BY <1>4, Zenon DEF Recv
<1>5. UNCHANGED inboxVars
  BY <1>1, <1>2, <1>3, <1>4, Zenon DEF Next, Step
<1> QED
  BY <1>5, Zenon DEF inboxVars

\* Every step keeps the counters.
LEMMA NextCounted == ASSUME IInv, Counted, [Next]_vars PROVE Counted'
<1>0. Slots
  BY InvariantSlots, Zenon
<1>1. ASSUME NEW w \in Worker, CommitCreated(w) PROVE Counted'
  <2> DEFINE b == sent[w].batch
             i == IdentityOf[b]
             r == [NoReceipt EXCEPT !.state = "committed", !.batch = b, !.at = sent[w].at]
  <2>1. /\ pc[w] = "commit" /\ ~Present(i) /\ inbox' = [inbox EXCEPT ![i] = r]
        /\ used.records < MaxRecords /\ used.bytes + SizeOf[b] <= MaxBytes
        /\ used' = [records |-> used.records + 1, bytes |-> used.bytes + SizeOf[b]]
    BY <1>1, Zenon DEF CommitCreated
  <2>2. b \in Batch
    <3>1. WInv(w)
      BY Zenon DEF IInv
    <3>2. QED
      BY <2>1, <3>1 DEF WInv, Control, Received
  <2>3. i \in Identity
    BY <2>2, BatchAssumption, Zenon
  <2>4. r.state = "committed" /\ r.batch = b
    BY Zenon DEF NoReceipt
  <2> HIDE DEF r, b, i
  <2>5. inbox'[i] = r /\ \A j \in Identity \ {i} : inbox'[j] = inbox[j]
    BY <1>0, <2>1, <2>3, Zenon DEF Slots
  <2>6. inbox'[i].state # "absent" /\ inbox'[i].batch = b
    BY <2>4, <2>5, Zenon
  <2>7. QED
    BY <1>0, <2>1, <2>2, <2>3, <2>5, <2>6, CreatedCounted, Zenon
<1>2. ASSUME NEW w \in Worker, Prune(w) PROVE Counted'
  <2>1. PICK S : S \in SUBSET {i \in Identity : Expired(w, i)} /\ Delete(S)
    BY <1>2, Zenon DEF Prune
  <2>2. S \in SUBSET There
    BY <2>1, Zenon DEF Expired, Applied, Present, There
  <2>3. QED
    BY <1>0, <2>1, <2>2, DeletedCounted, Zenon
<1>3. ASSUME Kept PROVE Counted'
  BY <1>3, KeptCounted, Zenon
<1>4. ASSUME NEW w \in Worker, ClaimTaken(w) PROVE Kept
  <2> DEFINE i == target[w]
             q == [inbox[i] EXCEPT !.state = "applying", !.owner = owner[w], !.lease = Lease + Skew[Host(w)]]
  <2>1. /\ inbox' = [inbox EXCEPT ![i] = q] /\ used' = used
        /\ inbox[i].state # "absent"
    BY <1>4, Zenon DEF ClaimTaken
  <2>2. i \in Identity => q.state = "applying" /\ q.batch = inbox[i].batch
    BY <1>0 DEF Fields, Slots
  <2> HIDE DEF q, i
  <2>3. QED
    BY <1>0, <2>1, <2>2, ReplacedKept, Zenon
<1>5. ASSUME NEW w \in Worker, MarkFailed(w) PROVE Kept
  <2> DEFINE i == target[w]
             q == [inbox[i] EXCEPT !.state = "committed", !.owner = None, !.lease = 0]
  <2>1. /\ used' = used
        /\ inbox' = inbox \/ (inbox' = [inbox EXCEPT ![i] = q] /\ inbox[i].state # "absent")
    BY <1>5, Zenon DEF MarkFailed, OwnsLease
  <2>2. i \in Identity => q.state = "committed" /\ q.batch = inbox[i].batch
    BY <1>0 DEF Fields, Slots
  <2> HIDE DEF q, i
  <2>3. CASE inbox' = inbox
    BY <2>1, <2>3, Zenon DEF Kept
  <2>4. QED
    BY <1>0, <2>1, <2>2, <2>3, ReplacedKept, Zenon
<1>6. ASSUME NEW w \in Worker, MarkApplied(w) PROVE Kept
  <2> DEFINE i == target[w]
             q == [inbox[i] EXCEPT !.state = "applied", !.owner = None, !.lease = 0,
                                   !.age = MaxSkew - Skew[Host(w)]]
  <2>1. /\ inbox' = [inbox EXCEPT ![i] = q] /\ used' = used
        /\ inbox[i].state # "absent"
    BY <1>6, Zenon DEF MarkApplied, OwnsLease
  <2>2. i \in Identity => q.state = "applied" /\ q.batch = inbox[i].batch
    BY <1>0 DEF Fields, Slots
  <2> HIDE DEF q, i
  <2>3. QED
    BY <1>0, <2>1, <2>2, ReplacedKept, Zenon
<1>7. ASSUME NEW w \in Worker, Renew(w) PROVE Kept
  <2> DEFINE i == target[w]
             q == [inbox[i] EXCEPT !.lease = Lease + Skew[Host(w)]]
  <2>1. used' = used /\ (inbox' = inbox \/ inbox' = [inbox EXCEPT ![i] = q])
    BY <1>7, Zenon DEF Renew
  <2>2. i \in Identity => q.state = inbox[i].state /\ q.batch = inbox[i].batch
    BY <1>0 DEF Fields, Slots
  <2> HIDE DEF q, i
  <2>3. CASE inbox' = inbox
    BY <2>1, <2>3, Zenon DEF Kept
  <2>4. QED
    BY <1>0, <2>1, <2>2, <2>3, ReplacedKept, Zenon
<1>8. CASE Tick
  <2> DEFINE Older(i) == [inbox[i] EXCEPT !.lease = IF @ = 0 THEN 0 ELSE @ - 1,
                            !.age = IF Applied(i) THEN Lesser(@ + 1, AgeCap) ELSE @]
  <2>1. inbox' = [i \in Identity |-> Older(i)] /\ used' = used
    BY <1>8, Zenon DEF Tick
  <2>2. ASSUME NEW i \in Identity
        PROVE Older(i).state = inbox[i].state /\ Older(i).batch = inbox[i].batch
    BY <1>0 DEF Fields, Slots
  <2> HIDE DEF Older
  <2>3. \A i \in Identity : inbox'[i] = Older(i)
    BY <2>1, Zenon
  <2>4. Kept
    BY <2>1, <2>2, <2>3, Zenon DEF Kept
  <2>5. QED
    BY <2>4, <1>3, Zenon
<1>9. CASE inbox' = inbox /\ used' = used
  BY <1>3, <1>9, Zenon DEF Kept
<1>10. CASE UNCHANGED vars
  BY <1>9, <1>10, Zenon DEF vars, inboxVars
<1>11. QED
  BY <1>1, <1>2, <1>3, <1>4, <1>5, <1>6, <1>7, <1>8, <1>9, <1>10, Aside, Zenon

\* The inbox is empty.
LEMMA InitCounted == Init => Counted
<1> SUFFICES ASSUME Init PROVE Counted
  BY Zenon
<1>1. There = {}
  BY Zenon DEF Init, There, Present, NoReceipt
<1>2. Cardinality(There) = 0 /\ IsFiniteSet(There)
  BY <1>1, FS_EmptySet, Zenon
<1>3. Payloads(There) = {} /\ Bytes(There) = 0
  BY <1>1, FS_EmptySet, Zenon DEF Bytes, Payloads
<1>4. QED
  BY <1>2, <1>3, FS_EmptySet, LimitAssumption DEF Init, Counted

\* The durable counters agree with the receipts, and neither limit is passed, whatever the
\* controllers commit and prune beside each other (Inbox.Commit, Inbox.Prune).
THEOREM CountersAreExact == Spec => []CapacityExact
<1>1. IInv /\ Counted /\ [Next]_vars => Counted'
  BY NextCounted, Zenon
<1>2. Counted => CapacityExact
  BY DEF Counted, CapacityExact, There
<1>3. QED
  BY <1>1, <1>2, InitCounted, Invariance, PTL DEF Spec
===============================================================================
