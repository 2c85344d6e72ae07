------------------------------- MODULE NodeView -------------------------------
(***************************************************************************)
(* What a collector leaves out of its batches and what the controller puts *)
(* back: collectBatch drops low-churn metrics and process lists that did   *)
(* not change (collector/metric_suppression.go, aux_sampling.go,           *)
(* process_payload_suppression.go), and the hot store carries the missing  *)
(* ones forward in the node's view (controller/ingest/server.go, store.go).*)
(*                                                                         *)
(* Two low-churn metrics stand for all of them: collector_probe_source,    *)
(* whose value is always 1 and whose label is the source, and              *)
(* collector_probe_core_active, which has no label.  Time is counted in    *)
(* collections.                                                            *)
(***************************************************************************)
EXTENDS Integers, Sequences

CONSTANTS
  Lists,         \* process lists; "none" is the empty one
  Fingerprint,   \* processPayloadFingerprint of a list
  MetricRefresh, \* LowChurnMetricsRefreshInterval
  ListRefresh,   \* ProcessPayloadRefreshInterval
  Sampling,      \* interval of the process fallback
  MaxSpool,      \* bound: batches collected and not delivered
  Retained,      \* bound: applied receipts kept for RestoreHotState
  MaxFaults,     \* bound: losses, restarts and the like
  MaxChanges     \* bound: changes of the node

ASSUME NodeViewAssumption ==
  /\ "none" \in Lists /\ DOMAIN Fingerprint = Lists
  /\ {MetricRefresh, ListRefresh, Sampling, MaxSpool} \subseteq Nat \ {0}
  /\ {Retained, MaxFaults, MaxChanges} \subseteq Nat

Source == {"probe_core", "go"}
Flag == {"yes", "no"}
Active(s) == IF s = "probe_core" THEN "yes" ELSE "no"
Absent == [value |-> "none", age |-> 0]

VARIABLES
  src, list,   \* the node: where its metrics come from, and its processes
  labels,      \* lowChurnState.cache of collector_probe_source, by label: age
  gauge,       \* lowChurnState.cache of collector_probe_core_active
  print,       \* processState: list of the last fingerprint and its age
  fallback,    \* age of auxState.processFallback
  spool,       \* batches collected and not delivered
  view,        \* NodeSnapshot of the collector
  receipts,    \* retained applied receipts
  faults, changes,
  last,        \* the node as the batch applied last saw it (history)
  streak,      \* batches applied since the last fault (history)
  steady       \* those at the end of the streak with one source (history)

node == <<src, list>>
caches == <<labels, gauge, print, fallback>>
history == <<last, streak, steady>>
vars == <<node, caches, spool, view, receipts, faults, changes, history>>

Batch == [source : Source \cup {"none"}, active : Flag \cup {"none"}, partial : BOOLEAN,
          procs : Lists, refreshed : BOOLEAN, suppressed : BOOLEAN, of : Source \X Lists]
NoView == [source |-> "none", active |-> "none", procs |-> "none"]

Older(age, limit) == IF age < limit THEN age + 1 ELSE limit
Younger(a, b) == IF a < b THEN a ELSE b

-------------------------------------------------------------------------------
(* The collector: collectBatch.  A cached age counts the collections since *)
(* the entry was sent, up to the refresh interval.                          *)

NoCaches ==
  /\ labels' = [s \in Source |-> MetricRefresh]
  /\ gauge' = Absent
  /\ print' = Absent
  /\ fallback' = Sampling

\* Mutation: a metric is sent only when its value changed.
GaugeChanged(s) == gauge.value # Active(s)

\* suppressUnchangedLowChurnMetrics: an entry is left out when the cache has
\* its value and sent it less than a refresh interval ago.  The cache has one
\* entry for each label; its value never differs.
LabelDue(s) == Older(labels[s], MetricRefresh) >= MetricRefresh
GaugeDue(s) == \/ gauge.value # Active(s)
               \/ Older(gauge.age, MetricRefresh) >= MetricRefresh

\* collectProcessFallbackWithCadence: probe_core lists the processes in each
\* batch; the compatibility source lists them anew once per interval, sends
\* nothing in between, and nothing under pressure.
SampleDue(pressed) == src = "go" /\ ~pressed /\ Older(fallback, Sampling) >= Sampling
Sampled(pressed) == IF src = "probe_core" \/ SampleDue(pressed) THEN list ELSE "none"

\* Mutation: a list is sent only when its fingerprint changed.
SamePrint(l) == /\ l # "none" /\ print.value # "none"
                /\ Fingerprint[print.value] = Fingerprint[l]

\* suppressUnchangedProcessPayload: an empty list passes and leaves no trace.
Unchanged(l) == /\ l # "none" /\ print.value # "none"
                /\ Fingerprint[print.value] = Fingerprint[l]
                /\ Older(print.age, ListRefresh) < ListRefresh

CollectBatch(pressed) ==
  LET p == Sampled(pressed) IN
  [source |-> IF LabelDue(src) THEN src ELSE "none",
   active |-> IF GaugeDue(src) THEN Active(src) ELSE "none",
   partial |-> ~LabelDue(src) \/ ~GaugeDue(src),
   procs |-> IF Unchanged(p) THEN "none" ELSE p,
   refreshed |-> SampleDue(pressed),
   suppressed |-> Unchanged(p),
   of |-> <<src, list>>]

\* What collectBatch remembers of what it sends.
Remember(pressed) ==
  LET p == Sampled(pressed) IN
  /\ labels' = [s \in Source |-> IF s = src /\ LabelDue(s) THEN 0
                                 ELSE Older(labels[s], MetricRefresh)]
  /\ gauge' = IF GaugeDue(src) THEN [value |-> Active(src), age |-> 0]
              ELSE [gauge EXCEPT !.age = Older(@, MetricRefresh)]
  /\ print' = IF p # "none" /\ ~Unchanged(p) THEN [value |-> p, age |-> 0]
              ELSE IF print = Absent THEN Absent
              ELSE [print EXCEPT !.age = Older(@, ListRefresh)]
  /\ fallback' = IF SampleDue(pressed) THEN 0 ELSE Older(fallback, Sampling)

\* Mutation: a batch without anything to send is skipped, and no time is counted.
CollectChanged(pressed) ==
  /\ Len(spool) < MaxSpool
  /\ pressed => faults < MaxFaults
  /\ LET b == CollectBatch(pressed) IN
     IF {b.source, b.active, b.procs} = {"none"} THEN UNCHANGED <<spool, caches>>
     ELSE spool' = Append(spool, b) /\ Remember(pressed)
  /\ faults' = IF pressed THEN faults + 1 ELSE faults
  /\ UNCHANGED <<node, view, receipts, changes, history>>

Collect(pressed) ==
  /\ Len(spool) < MaxSpool
  /\ pressed => faults < MaxFaults
  /\ spool' = Append(spool, CollectBatch(pressed))
  /\ Remember(pressed)
  /\ faults' = IF pressed THEN faults + 1 ELSE faults
  /\ UNCHANGED <<node, view, receipts, changes, history>>

\* The process ends and starts again: the spool is on disk, the caches are not.
CollectorRestart ==
  /\ faults < MaxFaults /\ faults' = faults + 1
  /\ NoCaches
  /\ UNCHANGED <<node, spool, view, receipts, changes, history>>

\* The node changes: its source (sourcePipeline.Collect) or its processes.
Change ==
  /\ changes < MaxChanges /\ changes' = changes + 1
  /\ \/ \E s \in Source \ {src} : src' = s /\ UNCHANGED list
     \/ \E l \in Lists \ {list} : list' = l /\ UNCHANGED src
  /\ UNCHANGED <<caches, spool, view, receipts, faults, history>>

-------------------------------------------------------------------------------
(* The controller: materializeHotState with StoreMetrics, StoreProcesses.   *)

\* Mutation: nothing is carried forward.
CarryNothing(old, new, partial) == new

\* A low-churn entry that a batch does not have is carried forward when the
\* batch says that it is partial, and forgotten otherwise.
Carry(old, new, partial) == IF new # "none" THEN new ELSE IF partial THEN old ELSE "none"

\* The list is replaced by one that is not empty, or by any after a sample.
Store(v, b) ==
  [source |-> Carry(v.source, b.source, b.partial),
   active |-> Carry(v.active, b.active, b.partial),
   procs |-> IF b.procs # "none" \/ b.refreshed THEN b.procs ELSE v.procs]

\* Mutation: retention removes nothing.
KeepAll(s) == s

\* PruneReceipts, by the number of them.
Keep(s) == SubSeq(s, Len(s) - Younger(Len(s), Retained) + 1, Len(s))

\* The batch at place i is applied.  Batches before it were accepted and come
\* late: StoreHistoricalBatch adds them to the history of metrics only.
Apply(i) ==
  /\ i \in DOMAIN spool
  /\ i > 1 => faults < MaxFaults
  /\ faults' = IF i > 1 THEN faults + 1 ELSE faults
  /\ view' = Store(view, spool[i])
  /\ receipts' = Keep(receipts \o SubSeq(spool, 1, i))
  /\ spool' = SubSeq(spool, i + 1, Len(spool))
  /\ last' = spool[i].of
  /\ streak' = IF i > 1 THEN 1 ELSE Older(streak, MetricRefresh)
  /\ steady' = IF i > 1 \/ spool[i].of[1] # last[1] THEN 1 ELSE Older(steady, MetricRefresh)
  /\ UNCHANGED <<node, caches, changes>>

\* The oldest batch is lost: evicted from a full spool or dropped as rejected.
Lose ==
  /\ spool # <<>> /\ faults < MaxFaults
  /\ spool' = Tail(spool) /\ faults' = faults + 1
  /\ streak' = 0 /\ steady' = 0
  /\ UNCHANGED <<node, caches, view, receipts, changes, last>>

\* The view that a sequence of receipts makes.
Replay(s) ==
  LET after[k \in 0 .. Len(s)] == IF k = 0 THEN NoView ELSE Store(after[k - 1], s[k])
  IN after[Len(s)]

\* A controller starts, on this host or another: RestoreHotState applies the
\* receipts that retention left, the oldest first.
ControllerRestart ==
  /\ faults < MaxFaults /\ faults' = faults + 1
  /\ \E k \in 0 .. Len(receipts) :
       /\ receipts' = SubSeq(receipts, Len(receipts) - k + 1, Len(receipts))
       /\ view' = Replay(receipts')
  /\ streak' = 0 /\ steady' = 0
  /\ UNCHANGED <<node, caches, spool, changes, last>>

\* pruneNodesLocked: the collector was silent for NodeRetention, or is the one
\* seen least recently of more than MaxNodes.
PruneNode ==
  /\ faults < MaxFaults /\ faults' = faults + 1
  /\ view' = NoView
  /\ streak' = 0 /\ steady' = 0
  /\ UNCHANGED <<node, caches, spool, receipts, changes, last>>

-------------------------------------------------------------------------------
Init ==
  /\ src \in Source /\ list \in Lists
  /\ labels = [s \in Source |-> MetricRefresh]
  /\ gauge = Absent /\ print = Absent /\ fallback = Sampling
  /\ spool = <<>> /\ view = NoView /\ receipts = <<>>
  /\ faults = 0 /\ changes = 0
  /\ last = <<src, list>> /\ streak = 0 /\ steady = 0

Next ==
  \/ \E pressed \in BOOLEAN : Collect(pressed)
  \/ CollectorRestart
  \/ Change
  \/ \E i \in 1 .. MaxSpool : Apply(i)
  \/ Lose
  \/ ControllerRestart
  \/ PruneNode

Spec == Init /\ [][Next]_vars

\* The collection ticker and the drain of the spool go on.
LiveSpec == Spec /\ WF_vars(Collect(FALSE)) /\ WF_vars(Apply(1))

-------------------------------------------------------------------------------
\* Every variable has its type.
TypeOK ==
  /\ src \in Source /\ list \in Lists
  /\ labels \in [Source -> 0 .. MetricRefresh]
  /\ gauge \in [value : Flag \cup {"none"}, age : 0 .. MetricRefresh]
  /\ print \in [value : Lists, age : 0 .. ListRefresh]
  /\ fallback \in 0 .. Sampling
  /\ spool \in Seq(Batch) /\ Len(spool) <= MaxSpool
  /\ view \in [source : Source \cup {"none"}, active : Flag \cup {"none"}, procs : Lists]
  /\ receipts \in Seq(Batch) /\ Len(receipts) <= Retained
  /\ faults \in 0 .. MaxFaults /\ changes \in 0 .. MaxChanges
  /\ last \in Source \X Lists
  /\ streak \in 0 .. MetricRefresh /\ steady \in 0 .. MetricRefresh

\* What is left out of a batch is never missed for longer than the refresh
\* interval: after as many batches in a row, whatever was lost, reordered or
\* forgotten before them, the view has the value of a metric that the batch
\* applied last was collected with (suppressUnchangedLowChurnMetrics,
\* StoreMetrics); and the label too, when the source did not change in them.
CaughtUp ==
  /\ streak >= MetricRefresh => view.active = Active(last[1])
  /\ steady >= MetricRefresh => view.source = last[1]

\* Before any fault the view of a metric without a label is exact: it is the
\* value that the batch applied last was collected with, sent or not.
CarriedExactly ==
  (faults = 0 /\ streak > 0) => view.active = Active(last[1])

\* Once the node and the delivery are calm the view agrees with the node for
\* good (the refresh of suppressUnchangedLowChurnMetrics repairs what was lost).
Converges == <>[](view.source = src /\ view.active = Active(src))

\* And it shows the node's processes again and again, up to the fingerprint
\* (the refresh of suppressUnchangedProcessPayload).  An empty list clears the
\* view only when the compatibility source sampled it (auxPayloadRefreshed).
ListShown ==
  []<>(\/ Fingerprint[view.procs] = Fingerprint[list]
       \/ src = "probe_core" /\ list = "none")
===============================================================================
