------------------------------- MODULE Ingest -------------------------------
(***************************************************************************)
(* The controller's durable ingest path: gRPC Push handlers and the        *)
(* recovery loop of several controllers that share one receipt inbox       *)
(* (backend/internal/controller/ingest/server.go, inbox*.go and            *)
(* backend/internal/controller/ingest_integration.go).                     *)
(*                                                                         *)
(* A worker is a Push stream or the recovery loop of a controller; a       *)
(* recovery loop is named by its controller.  Every inbox operation is one *)
(* database transaction, hence one step.                                   *)
(*                                                                         *)
(* Time.  The inbox stores absolute times read from the clock of the       *)
(* controller that writes them, and compares them with the clock of the    *)
(* controller that reads them.  Clock c shows clock + Skew[c].  Deadlines  *)
(* are kept as the time left (lease) or elapsed (age) since they were set, *)
(* which Tick moves, so that the state space is finite; only acceptance    *)
(* stamps use the clock itself, which stops at MaxClock.                   *)
(***************************************************************************)
EXTENDS Integers, FiniteSets

CONSTANTS
  Controller,   \* controller processes
  Stream,       \* Push streams
  HostOf,       \* HostOf[s]: the controller that serves stream s
  Identity,     \* dedupe identities, ordered as their strings are
  Batch,        \* batches that pass validateBatch and authorizeCollector
  IdentityOf,   \* IdentityOf[b]: batchDedupeIdentity of b
  SizeOf,       \* SizeOf[b]: length of b's serialized payload
  Poison,       \* batches on which a processor panics
  Nonce,        \* what tells the claim tokens of a worker apart
  Skew,         \* Skew[c]: how far the clock of c runs ahead
  MaxSkew,      \* bound on Skew
  Lease,        \* InboxConfig.Lease
  Retention,    \* InboxConfig.Retention
  GCInterval,   \* InboxConfig.GCInterval
  MaxRecords,   \* InboxConfig.MaxRecords
  MaxBytes,     \* InboxConfig.MaxBytes
  PruneLimit,   \* receipts one Prune pass may delete (1024 in the code)
  MaxClock,     \* bound: last distinct acceptance stamp
  MaxFaults,    \* bound: crashes, cancelled calls and lost leaderships
  None

ASSUME IdentityAssumption == Identity \subseteq Nat \ {0} /\ Nonce \subseteq Nat
ASSUME BatchAssumption ==
  /\ IdentityOf \in [Batch -> Identity]
  /\ SizeOf \in [Batch -> Nat]
  /\ Poison \subseteq Batch
ASSUME WorkerAssumption ==
  /\ HostOf \in [Stream -> Controller]
  /\ Stream \cap Controller = {}
ASSUME TimeAssumption ==
  /\ MaxSkew \in Nat /\ Skew \in [Controller -> 0 .. MaxSkew]
  /\ Lease \in Nat /\ Retention \in Nat /\ GCInterval \in Nat
  /\ MaxClock \in Nat /\ MaxFaults \in Nat
ASSUME LimitAssumption == MaxRecords \in Nat /\ MaxBytes \in Nat
ASSUME NoneAssumption ==
  /\ None \notin Controller \cup Stream \cup Batch \cup Identity
  /\ None \notin (Controller \cup Stream) \X Nonce

VARIABLES
  clock,        \* time for acceptance stamps
  inbox,        \* the durable receipts
  used,         \* the durable record and byte counters of the inbox
  leader,       \* leader[c]: the write guard of c lets writes through
  phase,        \* phase[c]: startIngest's progress
  cursor,       \* cursor[c]: RestoreHotState's page cursor
  hot,          \* hot[c]: hot store of c (memory only)
  gcAge,        \* gcAge[c]: time since lastInboxGC, saturated
  applyMu,      \* applyMu[c]: worker that holds applyMu of c
  pc,           \* where each worker stands
  sent,         \* sent[s]: batch being pushed on stream s
  target,       \* target[w]: identity that applyReceipt works on
  owner,        \* owner[w]: claim token of the attempt
  held,         \* held[w]: copy of the receipt that Claim returned
  renewal,      \* renewal[w]: the lease renewal goroutine
  queue,        \* queue[c]: receipts left of ReplayPending's page
  faults        \* faults so far

\* History of the run, read by the properties only.
VARIABLES
  overtaken,    \* overtaken[w]: another attempt claimed w's receipt since w did
  fullRun,      \* fullRun[i]: hot store and processors all took receipt i
  appliedAge,   \* appliedAge[b]: time since b was last checkpointed
  acked,        \* batches acknowledged to a collector
  base          \* base[c]: batches applied when c started, or by c since, and
                \* not pruned since

workVars == <<pc, sent, target, owner, held, renewal, queue>>
ghostVars == <<overtaken, fullRun, appliedAge, acked, base>>
inboxVars == <<inbox, used>>
ctlVars == <<leader, phase, cursor, hot, gcAge, applyMu>>
vars == <<clock, faults, inboxVars, ctlVars, workVars, ghostVars>>

Worker == Stream \cup Controller
Token == Worker \X Nonce
Host(w) == IF w \in Stream THEN HostOf[w] ELSE w
Now(c) == clock + Skew[c]
Stamps == 0 .. MaxClock + MaxSkew
AgeCap == Retention + MaxSkew + MaxClock + 1
GCCap == GCInterval + MaxClock
Never == Retention + 2    \* appliedAge of a batch never checkpointed

NoReceipt == [state |-> "absent", batch |-> None, at |-> 0,
              owner |-> None, lease |-> 0, age |-> 0]
Receipt == [state : {"absent", "committed", "applying", "applied"},
            batch : Batch \cup {None}, at : Stamps,
            owner : Token \cup {None},
            lease : 0 .. Lease + MaxSkew, age : 0 .. AgeCap]

Present(i) == inbox[i].state # "absent"
Applied(i) == inbox[i].state = "applied"

\* receiptOrder: by acceptance stamp, then by identity.
Order(i) == <<inbox[i].at, i>>
Before(p, q) == p[1] < q[1] \/ (p[1] = q[1] /\ p[2] < q[2])

\* time.Now() of c is past the stored lease deadline.
LeaseOver(c, i) == inbox[i].lease <= Skew[c]

\* newInboxOwner draws 128 random bits, which never repeat.  Here a token is its
\* worker and a nonce, and a nonce is used again once the inbox has forgotten it.
FreshNonces(w) == {n \in Nonce : \A i \in Identity : inbox[i].owner # <<w, n>>}

Nothing == [batch |-> None, at |-> 0]
Stamped == [batch : Batch \cup {None}, at : Stamps]
HotView == [last : Stamps, view : Batch \cup {None}, batches : SUBSET Batch]
EmptyHot == [last |-> 0, view |-> None, batches |-> {}]

\* Mutation: every receipt replaces the view, however old.
MaterializeAlways(h, r) ==
  [last |-> r.at, view |-> r.batch, batches |-> h.batches \cup {r.batch}]

\* materializeHotState: an older receipt only adds history.
Materialize(h, r) ==
  IF h.last > r.at
    THEN [h EXCEPT !.batches = @ \cup {r.batch}]
    ELSE [last |-> r.at, view |-> r.batch, batches |-> h.batches \cup {r.batch}]

-----------------------------------------------------------------------------
(* Push up to the durable receipt. *)

Goto(w, l) == pc' = [pc EXCEPT ![w] = l]

\* Push: Recv, the checks, guardWrite.  receivedAt is read here.
Recv(w, b) ==
  /\ w \in Stream /\ pc[w] = "idle"
  /\ phase[Host(w)] = "serving" /\ leader[Host(w)]
  /\ Goto(w, "commit")
  /\ sent' = [sent EXCEPT ![w] = [batch |-> b, at |-> Now(Host(w))]]
  /\ UNCHANGED <<clock, faults, inboxVars, ctlVars, target, owner, held,
                 renewal, queue, ghostVars>>

\* Inbox.Commit refuses the receipt: identity conflict or no capacity.
CommitRefused(w) ==
  LET b == sent[w].batch
      i == IdentityOf[b]
  IN /\ pc[w] = "commit"
     /\ \/ Present(i) /\ inbox[i].batch # b
        \/ /\ ~Present(i)
           /\ \/ used.records >= MaxRecords
              \/ used.bytes + SizeOf[b] > MaxBytes
     /\ Goto(w, "idle")
     /\ sent' = [sent EXCEPT ![w] = Nothing]
     /\ UNCHANGED <<clock, faults, inboxVars, ctlVars, target, owner, held,
                    renewal, queue, ghostVars>>

\* Mutation: the payloads are not compared.
CommitAnyDuplicate(w) ==
  LET i == IdentityOf[sent[w].batch]
  IN /\ pc[w] = "commit" /\ Present(i)
     /\ Goto(w, "lock")
     /\ target' = [target EXCEPT ![w] = i]
     /\ UNCHANGED <<clock, faults, inboxVars, ctlVars, sent, owner, held,
                    renewal, queue, ghostVars>>

\* Inbox.Commit finds the same batch: a duplicate, applied or not.
CommitDuplicate(w) ==
  LET i == IdentityOf[sent[w].batch]
  IN /\ pc[w] = "commit"
     /\ Present(i) /\ inbox[i].batch = sent[w].batch
     /\ Goto(w, "lock")
     /\ target' = [target EXCEPT ![w] = i]
     /\ UNCHANGED <<clock, faults, inboxVars, ctlVars, sent, owner, held,
                    renewal, queue, ghostVars>>

\* Inbox.Commit stores a new receipt and counts it.
CommitCreated(w) ==
  LET b == sent[w].batch
      i == IdentityOf[b]
  IN /\ pc[w] = "commit"
     /\ ~Present(i)
     /\ used.records < MaxRecords /\ used.bytes + SizeOf[b] <= MaxBytes
     /\ inbox' = [inbox EXCEPT ![i] = [NoReceipt EXCEPT
                    !.state = "committed", !.batch = b, !.at = sent[w].at]]
     /\ used' = [records |-> used.records + 1, bytes |-> used.bytes + SizeOf[b]]
     /\ Goto(w, "lock")
     /\ target' = [target EXCEPT ![w] = i]
     /\ fullRun' = [fullRun EXCEPT ![i] = FALSE]
     /\ UNCHANGED <<clock, faults, ctlVars, sent, owner, held, renewal, queue,
                    overtaken, appliedAge, acked, base>>

-----------------------------------------------------------------------------
(* applyReceipt, run by streams and by ReplayPending. *)

\* applyMu.Lock and newInboxOwner.
Lock(w) ==
  /\ pc[w] = "lock" /\ applyMu[Host(w)] = None
  /\ \E n \in FreshNonces(w) :
       /\ \A m \in FreshNonces(w) : n <= m
       /\ owner' = [owner EXCEPT ![w] = <<w, n>>]
  /\ applyMu' = [applyMu EXCEPT ![Host(w)] = w]
  /\ Goto(w, "guard")
  /\ UNCHANGED <<clock, faults, inboxVars, leader, phase, cursor, hot, gcAge,
                 sent, target, held, renewal, queue, ghostVars>>

\* applyReceipt returns nil: the deferred unlock and the end of the renewal.
\* A stream goes on to retention, ReplayPending to its next receipt.
Done(w) ==
  /\ applyMu' = [applyMu EXCEPT ![Host(w)] = None]
  /\ owner' = [owner EXCEPT ![w] = None]
  /\ held' = [held EXCEPT ![w] = Nothing]
  /\ overtaken' = [overtaken EXCEPT ![w] = FALSE]
  /\ renewal' = [renewal EXCEPT ![w] = "off"]
  /\ target' = [target EXCEPT ![w] = None]
  /\ Goto(w, IF w \in Stream THEN "prune"
             ELSE IF queue[w] = {} THEN "list" ELSE "next")
  /\ UNCHANGED <<leader, phase, cursor, hot, gcAge, sent, queue>>

\* The call in progress returns an error.  A Push handler ends its stream;
\* ReplayPending gives up the pass, and startIngest then fails, so that the
\* controller exits when the pass was the one before serving.
Fail(w) ==
  LET c == Host(w)
      exits == w \in Controller /\ phase[c] = "replay"
  IN /\ applyMu' = [applyMu EXCEPT ![c] = IF @ = w THEN None ELSE @]
     /\ owner' = [owner EXCEPT ![w] = None]
     /\ held' = [held EXCEPT ![w] = Nothing]
     /\ overtaken' = [overtaken EXCEPT ![w] = FALSE]
     /\ renewal' = [renewal EXCEPT ![w] = "off"]
     /\ target' = [target EXCEPT ![w] = None]
     /\ sent' = [sent EXCEPT ![w] = Nothing]
     /\ queue' = [queue EXCEPT ![w] = {}]
     /\ Goto(w, "idle")
     /\ phase' = [phase EXCEPT ![c] = IF exits THEN "down" ELSE @]
     /\ hot' = [hot EXCEPT ![c] = IF exits THEN EmptyHot ELSE @]
     /\ leader' = [leader EXCEPT ![c] = @ /\ ~exits]
     /\ base' = [base EXCEPT ![c] = IF exits THEN {} ELSE @]
     /\ UNCHANGED <<cursor, gcAge>>

\* guardWrite lets the attempt claim, or ends it.
GuardPass(w) ==
  /\ pc[w] = "guard" /\ leader[Host(w)]
  /\ Goto(w, "claim")
  /\ UNCHANGED <<clock, faults, inboxVars, ctlVars, sent, target, owner, held,
                 renewal, queue, ghostVars>>

GuardReject(w) ==
  /\ pc[w] = "guard" /\ ~leader[Host(w)]
  /\ Fail(w)
  /\ UNCHANGED <<clock, faults, inboxVars, fullRun, appliedAge,
                 acked>>

\* Inbox.Claim takes the receipt; the renewal goroutine starts.
ClaimTaken(w) ==
  LET i == target[w]
      c == Host(w)
  IN /\ pc[w] = "claim"
     /\ \/ inbox[i].state = "committed"
        \/ inbox[i].state = "applying" /\ LeaseOver(c, i)
     /\ inbox' = [inbox EXCEPT ![i] = [@ EXCEPT !.state = "applying",
                    !.owner = owner[w], !.lease = Lease + Skew[c]]]
     /\ held' = [held EXCEPT ![w] = [batch |-> inbox[i].batch, at |-> inbox[i].at]]
     /\ renewal' = [renewal EXCEPT ![w] = "on"]
     /\ Goto(w, "hot")
     /\ overtaken' = [v \in Worker |->
          overtaken[v] \/ (v # w /\ target[v] = i /\ held[v] # Nothing)]
     /\ UNCHANGED <<clock, faults, used, ctlVars, sent, target, owner, queue,
                    fullRun, appliedAge, acked, base>>

\* Mutation: a receipt that another attempt is applying counts as applied.
ClaimTrusts(w) ==
  /\ pc[w] = "claim"
  /\ inbox[target[w]].state = "applying" /\ ~LeaseOver(Host(w), target[w])
  /\ Done(w)
  /\ UNCHANGED <<clock, faults, inboxVars, fullRun, appliedAge, acked, base>>

\* Inbox.Claim finds another attempt's lease: wait, then guard again, with
\* applyMu still held.
ClaimWait(w) ==
  LET i == target[w]
  IN /\ pc[w] = "claim"
     /\ inbox[i].state = "applying" /\ ~LeaseOver(Host(w), i)
     /\ Goto(w, "guard")
     /\ UNCHANGED <<clock, faults, inboxVars, ctlVars, sent, target, owner,
                    held, renewal, queue, ghostVars>>

\* Inbox.Claim finds the receipt applied.
ClaimApplied(w) ==
  /\ pc[w] = "claim" /\ Applied(target[w])
  /\ Done(w)
  /\ UNCHANGED <<clock, faults, inboxVars, fullRun, appliedAge, acked, base>>

\* Inbox.Claim finds no receipt: it was pruned meanwhile.
ClaimMissing(w) ==
  /\ pc[w] = "claim" /\ ~Present(target[w])
  /\ Fail(w)
  /\ UNCHANGED <<clock, faults, inboxVars, fullRun, appliedAge,
                 acked>>

\* Mutation: the processors are left out when the hot store has the batch.
HotStateOnly(w) ==
  LET c == Host(w)
  IN /\ pc[w] = "hot"
     /\ hot' = [hot EXCEPT ![c] = Materialize(@, held[w])]
     /\ Goto(w, "finish")
     /\ UNCHANGED <<clock, faults, inboxVars, leader, phase, cursor, gcAge,
                    applyMu, sent, target, owner, held, renewal, queue,
                    ghostVars>>

\* materializeHotState on the claimed copy.
HotState(w) ==
  LET c == Host(w)
  IN /\ pc[w] = "hot"
     /\ hot' = [hot EXCEPT ![c] = Materialize(@, held[w])]
     /\ Goto(w, "process")
     /\ UNCHANGED <<clock, faults, inboxVars, leader, phase, cursor, gcAge,
                    applyMu, sent, target, owner, held, renewal, queue,
                    ghostVars>>

\* The processors; a recovered panic is an error.
Process(w) ==
  LET i == target[w]
      panics == held[w].batch \in Poison
  IN /\ pc[w] = "process"
     /\ Goto(w, IF panics THEN "failed" ELSE "finish")
     /\ fullRun' = [fullRun EXCEPT
          ![i] = @ \/ (~panics /\ inbox[i].batch = held[w].batch)]
     /\ UNCHANGED <<clock, faults, inboxVars, ctlVars, sent, target, owner,
                    held, renewal, queue, overtaken, appliedAge, acked,
                    base>>

OwnsLease(w) ==
  /\ inbox[target[w]].state = "applying"
  /\ inbox[target[w]].owner = owner[w]

\* Inbox.MarkFailed, whose own error is ignored, and the return.
MarkFailed(w) ==
  /\ pc[w] = "failed"
  /\ inbox' = IF OwnsLease(w)
       THEN [inbox EXCEPT ![target[w]] = [@ EXCEPT !.state = "committed",
               !.owner = None, !.lease = 0]]
       ELSE inbox
  /\ Fail(w)
  /\ UNCHANGED <<clock, faults, used, fullRun, appliedAge, acked>>

\* Mutation: the lease is extended from its old end.
RenewFromEnd(w) ==
  /\ renewal[w] = "on" /\ OwnsLease(w)
  /\ inbox' = [inbox EXCEPT ![target[w]].lease = @ + Lease]
  /\ UNCHANGED <<clock, faults, used, ctlVars, workVars, ghostVars>>

\* One tick of the renewal goroutine: Inbox.Renew extends the lease, or finds
\* it lost and ends the renewal with that error.
Renew(w) ==
  LET i == target[w]
      c == Host(w)
  IN /\ renewal[w] = "on"
     /\ \/ /\ OwnsLease(w) /\ inbox[i].lease < Lease + Skew[c]
           /\ inbox' = [inbox EXCEPT ![i].lease = Lease + Skew[c]]
           /\ UNCHANGED renewal
        \/ /\ ~OwnsLease(w)
           /\ renewal' = [renewal EXCEPT ![w] = "error"]
           /\ UNCHANGED inbox
     /\ UNCHANGED <<clock, faults, used, ctlVars, pc, sent, target, owner,
                    held, queue, ghostVars>>

\* finishLease: the renewal's error ends the attempt, without MarkFailed.
FinishLease(w) ==
  /\ pc[w] = "finish" /\ renewal[w] = "on"
  /\ renewal' = [renewal EXCEPT ![w] = "off"]
  /\ Goto(w, "checkpoint")
  /\ UNCHANGED <<clock, faults, inboxVars, ctlVars, sent, target, owner, held,
                 queue, ghostVars>>

RenewalFailed(w) ==
  /\ pc[w] = "finish" /\ renewal[w] = "error"
  /\ Fail(w)
  /\ UNCHANGED <<clock, faults, inboxVars, fullRun, appliedAge,
                 acked>>

\* Mutation: any attempt checkpoints a receipt that is not applied yet.
MarkAppliedUnfenced(w) ==
  LET i == target[w]
  IN /\ pc[w] = "checkpoint" /\ Present(i) /\ ~Applied(i)
     /\ inbox' = [inbox EXCEPT ![i] = [@ EXCEPT !.state = "applied",
                    !.owner = None, !.lease = 0,
                    !.age = MaxSkew - Skew[Host(w)]]]
     /\ appliedAge' = [appliedAge EXCEPT ![inbox[i].batch] = 0]
     /\ base' = [base EXCEPT ![Host(w)] = @ \cup {inbox[i].batch}]
     /\ Done(w)
     /\ UNCHANGED <<clock, faults, used, fullRun, acked>>

\* Inbox.MarkApplied by the attempt that still owns the lease.
MarkApplied(w) ==
  LET i == target[w]
  IN /\ pc[w] = "checkpoint" /\ OwnsLease(w)
     /\ inbox' = [inbox EXCEPT ![i] = [@ EXCEPT !.state = "applied",
                    !.owner = None, !.lease = 0,
                    !.age = MaxSkew - Skew[Host(w)]]]
     /\ appliedAge' = [appliedAge EXCEPT ![inbox[i].batch] = 0]
     /\ base' = [base EXCEPT ![Host(w)] = @ \cup {inbox[i].batch}]
     /\ Done(w)
     /\ UNCHANGED <<clock, faults, used, fullRun, acked>>

\* Inbox.MarkApplied answers ErrLeaseLost.
CheckpointLost(w) ==
  /\ pc[w] = "checkpoint" /\ ~OwnsLease(w)
  /\ Fail(w)
  /\ UNCHANGED <<clock, faults, inboxVars, fullRun, appliedAge,
                 acked>>

-----------------------------------------------------------------------------
(* Retention and acknowledgement. *)

\* Push prunes with the time at which it received the batch, the recovery loop
\* with the current time.
Lag(w) == IF w \in Stream THEN Now(Host(w)) - sent[w].at ELSE 0

\* Mutation: the zero AppliedAt of a pending receipt is before every cutoff.
ExpiredAnyState(w, i) ==
  /\ Present(i)
  /\ Applied(i) => inbox[i].age + Skew[Host(w)] > Retention + MaxSkew + Lag(w)

\* AppliedAt is before the cutoff of worker w.
Expired(w, i) ==
  Applied(i) /\ inbox[i].age + Skew[Host(w)] > Retention + MaxSkew + Lag(w)

AfterPrune(w) == Goto(w, IF w \in Stream THEN "ack" ELSE "idle")

\* maybePruneInbox, too early.
PruneSkip(w) ==
  /\ pc[w] = "prune" /\ gcAge[Host(w)] < GCInterval + Lag(w)
  /\ AfterPrune(w)
  /\ UNCHANGED <<clock, faults, inboxVars, ctlVars, sent, target, owner, held,
                 renewal, queue, ghostVars>>

\* The payload bytes of the receipts of S, one pair for each, and their number.
Payloads(S) == UNION {{<<i, n>> : n \in 1 .. SizeOf[inbox[i].batch]} : i \in S}
Bytes(S) == Cardinality(Payloads(S))

\* Mutation: the byte counter is left alone.
DeleteRecords(S) ==
  /\ inbox' = [i \in Identity |-> IF i \in S THEN NoReceipt ELSE inbox[i]]
  /\ used' = [used EXCEPT !.records = @ - Cardinality(S)]

Delete(S) ==
  /\ inbox' = [i \in Identity |-> IF i \in S THEN NoReceipt ELSE inbox[i]]
  /\ used' = [records |-> used.records - Cardinality(S),
              bytes |-> used.bytes - Bytes(S)]

\* maybePruneInbox and Inbox.Prune: up to PruneLimit expired receipts.
Prune(w) ==
  LET c == Host(w)
      expired == {i \in Identity : Expired(w, i)}
  IN /\ pc[w] = "prune" /\ gcAge[c] >= GCInterval + Lag(w)
     /\ gcAge' = [gcAge EXCEPT ![c] = Lag(w)]
     /\ \E S \in SUBSET expired :
          /\ \/ S = expired /\ Cardinality(S) <= PruneLimit
             \/ S # expired /\ Cardinality(S) = PruneLimit
          /\ Delete(S)
          /\ base' = [d \in Controller |-> base[d] \ {inbox[i].batch : i \in S}]
     /\ AfterPrune(w)
     /\ UNCHANGED <<clock, faults, leader, phase, cursor, hot, applyMu, sent,
                    target, owner, held, renewal, queue, overtaken, fullRun,
                    appliedAge, acked>>

\* stream.Send(ack); the collector receives it.
Ack(w) ==
  /\ pc[w] = "ack"
  /\ acked' = acked \cup {sent[w].batch}
  /\ sent' = [sent EXCEPT ![w] = Nothing]
  /\ Goto(w, "idle")
  /\ UNCHANGED <<clock, faults, inboxVars, ctlVars, target, owner, held,
                 renewal, queue, overtaken, fullRun, appliedAge, base>>

-----------------------------------------------------------------------------
(* Start-up and the recovery loop of a controller. *)

Start(c) ==
  /\ phase[c] = "down"
  /\ phase' = [phase EXCEPT ![c] = "restore"]
  /\ cursor' = [cursor EXCEPT ![c] = <<0, 0>>]
  /\ gcAge' = [gcAge EXCEPT ![c] = GCCap]
  /\ base' = [base EXCEPT
       ![c] = {inbox[i].batch : i \in {j \in Identity : Applied(j)}}]
  /\ UNCHANGED <<clock, faults, inboxVars, leader, hot, applyMu, workVars,
                 overtaken, fullRun, appliedAge, acked>>

\* Mutation: the cursor has no tie-breaker.
RetainedByStamp(c) == {Order(i) : i \in {j \in Identity :
                                    Present(j) /\ cursor[c][1] < inbox[j].at}}

\* Receipts after RestoreHotState's cursor.
Retained(c) == {Order(i) : i \in {j \in Identity :
                             Present(j) /\ Before(cursor[c], Order(j))}}

\* One receipt of RestoreHotState: a page of one.
RestoreStep(c) ==
  /\ phase[c] = "restore"
  /\ \E i \in Identity :
       /\ Order(i) \in Retained(c)
       /\ \A p \in Retained(c) \ {Order(i)} : Before(Order(i), p)
       /\ cursor' = [cursor EXCEPT ![c] = Order(i)]
       /\ hot' = IF Applied(i)
            THEN [hot EXCEPT ![c] = Materialize(@, inbox[i])] ELSE hot
  /\ UNCHANGED <<clock, faults, inboxVars, leader, phase, gcAge, applyMu,
                 workVars, ghostVars>>

\* RestoreHotState returns; a follower serves, a leader replays first.
RestoreDone(c) ==
  /\ phase[c] = "restore" /\ Retained(c) = {}
  /\ phase' = [phase EXCEPT ![c] = IF leader[c] THEN "replay" ELSE "serving"]
  /\ pc' = [pc EXCEPT ![c] = IF leader[c] THEN "list" ELSE "idle"]
  /\ UNCHANGED <<clock, faults, inboxVars, leader, cursor, hot, gcAge, applyMu,
                 sent, target, owner, held, renewal, queue, ghostVars>>

\* A tick of the recovery loop.
RecoveryTick(c) ==
  /\ phase[c] = "serving" /\ pc[c] = "idle" /\ leader[c]
  /\ Goto(c, "list")
  /\ UNCHANGED <<clock, faults, inboxVars, ctlVars, sent, target, owner, held,
                 renewal, queue, ghostVars>>


Pending(c) ==
  {i \in Identity : \/ inbox[i].state = "committed"
                    \/ inbox[i].state = "applying" /\ LeaseOver(c, i)}

\* Inbox.Pending in ReplayPending.
ListPending(c) ==
  /\ pc[c] = "list" /\ Pending(c) # {}
  /\ queue' = [queue EXCEPT ![c] = Pending(c)]
  /\ Goto(c, "next")
  /\ UNCHANGED <<clock, faults, inboxVars, ctlVars, sent, target, owner, held,
                 renewal, ghostVars>>


\* ReplayPending returns nil: startIngest serves, the loop prunes.
ReplayDone(c) ==
  /\ pc[c] = "list" /\ Pending(c) = {}
  /\ phase' = [phase EXCEPT ![c] = "serving"]
  /\ Goto(c, IF phase[c] = "replay" THEN "idle" ELSE "prune")
  /\ UNCHANGED <<clock, faults, inboxVars, leader, cursor, hot, gcAge, applyMu,
                 sent, target, owner, held, renewal, queue, ghostVars>>

\* The next receipt of the page; the inbox backends order it differently.
NextPending(c) ==
  /\ pc[c] = "next"
  /\ \E i \in queue[c] :
       /\ target' = [target EXCEPT ![c] = i]
       /\ queue' = [queue EXCEPT ![c] = @ \ {i}]
  /\ Goto(c, "lock")
  /\ UNCHANGED <<clock, faults, inboxVars, ctlVars, sent, owner, held, renewal,
                 ghostVars>>

-----------------------------------------------------------------------------
(* The environment: time, leadership, crashes, cancelled calls. *)

Fault == faults < MaxFaults /\ faults' = faults + 1

\* The write guard follows the HA coordinator's state, which may change at any
\* time; several controllers may believe that they lead.
Elect(c) ==
  /\ ~leader[c] /\ phase[c] # "down"
  /\ leader' = [leader EXCEPT ![c] = TRUE]
  /\ UNCHANGED <<clock, faults, inboxVars, phase, cursor, hot, gcAge, applyMu,
                 workVars, ghostVars>>

Depose(c) ==
  /\ leader[c] /\ Fault
  /\ leader' = [leader EXCEPT ![c] = FALSE]
  /\ UNCHANGED <<clock, inboxVars, phase, cursor, hot, gcAge, applyMu,
                 workVars, ghostVars>>

\* The process of c ends: its streams, locks and memory are gone.
Crash(c) ==
  LET gone == {w \in Worker : Host(w) = c}
  IN /\ phase[c] # "down" /\ Fault
     /\ phase' = [phase EXCEPT ![c] = "down"]
     /\ leader' = [leader EXCEPT ![c] = FALSE]
     /\ hot' = [hot EXCEPT ![c] = EmptyHot]
     /\ applyMu' = [applyMu EXCEPT ![c] = None]
     /\ base' = [base EXCEPT ![c] = {}]
     /\ pc' = [w \in Worker |-> IF w \in gone THEN "idle" ELSE pc[w]]
     /\ sent' = [w \in Worker |-> IF w \in gone THEN Nothing ELSE sent[w]]
     /\ target' = [w \in Worker |-> IF w \in gone THEN None ELSE target[w]]
     /\ owner' = [w \in Worker |-> IF w \in gone THEN None ELSE owner[w]]
     /\ held' = [w \in Worker |-> IF w \in gone THEN Nothing ELSE held[w]]
     /\ renewal' = [w \in Worker |-> IF w \in gone THEN "off" ELSE renewal[w]]
     /\ queue' = [w \in Worker |-> IF w \in gone THEN {} ELSE queue[w]]
     /\ overtaken' = [w \in Worker |-> overtaken[w] /\ w \notin gone]
     /\ UNCHANGED <<clock, inboxVars, cursor, gcAge, fullRun, appliedAge,
                    acked>>

\* A cancelled context, a database error or a broken stream: the inbox call,
\* the wait for a lease, or the acknowledgement fails with no effect.
Abort(w) ==
  /\ pc[w] \in {"commit", "claim", "failed", "checkpoint", "list", "ack"}
  /\ Fault /\ Fail(w)
  /\ UNCHANGED <<clock, inboxVars, fullRun, appliedAge, acked>>

\* Inbox.Renew fails although the lease is still owned.
RenewError(w) ==
  /\ renewal[w] = "on" /\ Fault
  /\ renewal' = [renewal EXCEPT ![w] = "error"]
  /\ UNCHANGED <<clock, inboxVars, ctlVars, pc, sent, target, owner, held,
                 queue, ghostVars>>

\* Inbox.Prune fails: it is logged, and tried again after an interval.
PruneError(w) ==
  /\ pc[w] = "prune" /\ gcAge[Host(w)] >= GCInterval + Lag(w) /\ Fault
  /\ gcAge' = [gcAge EXCEPT ![Host(w)] = Lag(w)]
  /\ AfterPrune(w)
  /\ UNCHANGED <<clock, inboxVars, leader, phase, cursor, hot, applyMu, sent,
                 target, owner, held, renewal, queue, ghostVars>>

Lesser(m, n) == IF m < n THEN m ELSE n

Tick ==
  /\ clock' = Lesser(clock + 1, MaxClock)
  /\ inbox' = [i \in Identity |-> [inbox[i] EXCEPT
        !.lease = IF @ = 0 THEN 0 ELSE @ - 1,
        !.age = IF Applied(i) THEN Lesser(@ + 1, AgeCap) ELSE @]]
  /\ gcAge' = [c \in Controller |-> Lesser(gcAge[c] + 1, GCCap)]
  /\ appliedAge' = [b \in Batch |-> IF appliedAge[b] = Never THEN Never
                                   ELSE Lesser(appliedAge[b] + 1, Retention + 1)]
  /\ UNCHANGED <<faults, used, leader, phase, cursor, hot, applyMu, workVars,
                 overtaken, fullRun, acked, base>>

-----------------------------------------------------------------------------
Init ==
  /\ clock = 0 /\ faults = 0
  /\ inbox = [i \in Identity |-> NoReceipt]
  /\ used = [records |-> 0, bytes |-> 0]
  /\ leader = [c \in Controller |-> FALSE]
  /\ phase = [c \in Controller |-> "down"]
  /\ cursor = [c \in Controller |-> <<0, 0>>]
  /\ hot = [c \in Controller |-> EmptyHot]
  /\ gcAge = [c \in Controller |-> GCCap]
  /\ applyMu = [c \in Controller |-> None]
  /\ pc = [w \in Worker |-> "idle"]
  /\ sent = [w \in Worker |-> Nothing]
  /\ target = [w \in Worker |-> None]
  /\ owner = [w \in Worker |-> None]
  /\ held = [w \in Worker |-> Nothing]
  /\ renewal = [w \in Worker |-> "off"]
  /\ queue = [w \in Worker |-> {}]
  /\ overtaken = [w \in Worker |-> FALSE]
  /\ fullRun = [i \in Identity |-> FALSE]
  /\ appliedAge = [b \in Batch |-> Never]
  /\ acked = {}
  /\ base = [c \in Controller |-> {}]

Commit(w) == CommitRefused(w) \/ CommitDuplicate(w) \/ CommitCreated(w)
Claim(w) == ClaimTaken(w) \/ ClaimWait(w) \/ ClaimApplied(w) \/ ClaimMissing(w)

\* What a worker does next by itself.
WorkerStep(w) ==
  \/ Commit(w) \/ Lock(w) \/ GuardPass(w) \/ GuardReject(w) \/ Claim(w)
  \/ HotState(w) \/ Process(w) \/ MarkFailed(w) \/ FinishLease(w)
  \/ RenewalFailed(w) \/ MarkApplied(w) \/ CheckpointLost(w)
  \/ PruneSkip(w) \/ Prune(w) \/ Ack(w)

ControllerStep(c) ==
  \/ RestoreStep(c) \/ RestoreDone(c) \/ RecoveryTick(c) \/ ListPending(c)
  \/ ReplayDone(c) \/ NextPending(c)

Step ==
  \/ \E w \in Worker : WorkerStep(w) \/ Renew(w)
  \/ \E w \in Stream, b \in Batch : Recv(w, b)
  \/ \E c \in Controller : ControllerStep(c) \/ Start(c)
  \/ \E c \in Controller : Elect(c) \/ Depose(c) \/ Crash(c)
  \/ \E w \in Worker : Abort(w) \/ RenewError(w) \/ PruneError(w)

Next == Step \/ Tick

Spec == Init /\ [][Next]_vars

\* The renewal goroutine renews every third of a lease: the lease of an attempt
\* whose renewal works does not run out before the attempt's next step.
Timely ==
  \A w \in Worker :
    held[w] # Nothing /\ OwnsLease(w) /\ renewal[w] # "error"
      => inbox[target[w]].lease > MaxSkew + 1

\* Goroutines and restarts make progress, Go's mutex starves no waiter, a
\* running controller is elected again after a lost leadership.
Fairness ==
  /\ \A w \in Worker :
       WF_vars(WorkerStep(w)) /\ SF_vars(Lock(w)) /\ WF_vars(Renew(w))
  /\ \A c \in Controller :
       WF_vars(ControllerStep(c)) /\ WF_vars(Start(c)) /\ WF_vars(Elect(c))
  /\ WF_vars(Timely /\ Tick)

LiveSpec == Init /\ [][Step \/ (Timely /\ Tick)]_vars /\ Fairness

-----------------------------------------------------------------------------
(* Properties. *)

Labels == {"idle", "commit", "lock", "guard", "claim", "hot", "process",
           "failed", "finish", "checkpoint", "prune", "ack", "list", "next"}

TypeStore ==
  /\ clock \in 0 .. MaxClock /\ faults \in 0 .. MaxFaults
  /\ inbox \in [Identity -> Receipt]
TypeController ==
  /\ leader \in [Controller -> BOOLEAN]
  /\ phase \in [Controller -> {"down", "restore", "replay", "serving"}]
  /\ cursor \in [Controller -> Stamps \X (Identity \cup {0})]
  /\ hot \in [Controller -> HotView]
  /\ gcAge \in [Controller -> 0 .. GCCap]
  /\ applyMu \in [Controller -> Worker \cup {None}]
TypeWorker ==
  /\ pc \in [Worker -> Labels]
  /\ sent \in [Worker -> Stamped]
  /\ target \in [Worker -> Identity \cup {None}]
  /\ owner \in [Worker -> Token \cup {None}]
  /\ held \in [Worker -> Stamped]
  /\ renewal \in [Worker -> {"off", "on", "error"}]
  /\ queue \in [Worker -> SUBSET Identity]
TypeHistory ==
  /\ overtaken \in [Worker -> BOOLEAN]
  /\ fullRun \in [Identity -> BOOLEAN]
  /\ appliedAge \in [Batch -> 0 .. Never]
  /\ acked \subseteq Batch
  /\ base \in [Controller -> SUBSET Batch]

\* The shape of every variable but the counters, which CapacityExact describes.
TypeOK == TypeStore /\ TypeController /\ TypeWorker /\ TypeHistory

\* The fencing token works: a receipt is checkpointed by an attempt that claimed
\* it and was not overtaken since, never by one whose lease another attempt took.
FencedCheckpoint ==
  [][\A i \in Identity :
       ~Applied(i) /\ inbox'[i].state = "applied" =>
         \E w \in Worker :
           /\ target[w] = i /\ pc[w] = "checkpoint" /\ pc'[w] # "checkpoint"
           /\ ~overtaken[w]]_vars

\* A receipt is marked applied only after the hot store and every processor
\* took the very batch it stores, whatever crashed, expired or was pruned and
\* accepted again in between.
AppliedWasProcessed == \A i \in Identity : Applied(i) => fullRun[i]

\* An acknowledged batch was checkpointed, and until the retention window is
\* over (less the clock skew) its receipt is there, applied, with its payload:
\* the collector may forget it, and a resend is recognised.
AckedOwned ==
  \A b \in acked :
    /\ appliedAge[b] # Never
    /\ appliedAge[b] + MaxSkew <= Retention =>
         Applied(IdentityOf[b]) /\ inbox[IdentityOf[b]].batch = b

\* The durable counters agree with the receipts, and neither limit is passed.
CapacityExact ==
  LET there == {i \in Identity : Present(i)}
  IN /\ used.records = Cardinality(there) /\ used.records <= MaxRecords
     /\ used.bytes = Bytes(there) /\ used.bytes <= MaxBytes

\* A controller past start-up has in its hot store every retained batch that was
\* applied before it started, or that one of its own workers applied.
HotComplete ==
  \A c \in Controller :
    phase[c] \in {"replay", "serving"} => base[c] \subseteq hot[c].batches

\* Only one attempt at a time runs processors in a controller.
ApplyExclusive ==
  \A v, w \in Worker :
    /\ {pc[v], pc[w]} \subseteq {"guard", "claim", "hot", "process", "failed",
                                "finish", "checkpoint"}
    /\ Host(v) = Host(w)
    => v = w

\* What may happen to a stored receipt: payload and acceptance stamp never
\* change, an applied receipt is never claimed or failed again, and only an
\* applied receipt older than the retention window (less the skew) is deleted.
ReceiptLifecycle ==
  [][\A i \in Identity : Present(i) =>
       \/ /\ inbox'[i].batch = inbox[i].batch /\ inbox'[i].at = inbox[i].at
          /\ Applied(i) => inbox'[i].state = "applied"
          /\ inbox'[i].state # "absent"
       \/ /\ Applied(i) /\ inbox'[i].state = "absent"
          /\ appliedAge[inbox[i].batch] + MaxSkew > Retention
    ]_vars

\* The dashboard view of a running controller never goes back to an older
\* batch, in whatever order leases make the receipts be applied.
HotMonotonic ==
  [][\A c \in Controller :
       phase'[c] # "down" => hot'[c].last >= hot[c].last]_vars


=============================================================================
