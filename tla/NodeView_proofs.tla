--------------------------- MODULE NodeView_proofs ---------------------------
(***************************************************************************)
(* CaughtUp and CarriedExactly for any refresh intervals, lists, faults    *)
(* and length of the spool.  What the view lacks depends on what is in     *)
(* flight and on what the collector believes to have sent, so the          *)
(* invariant is about runs of batches that leave a metric out: within the  *)
(* spool, from the view into the spool, and up to the collector's cache.   *)
(*                                                                         *)
(* TypeOK: a replay is a recursion over the retained receipts, and that it *)
(* gives a view is shown by a least counterexample.                        *)
(***************************************************************************)
EXTENDS NodeView, SequenceTheorems, WellFoundedInduction, TLAPS

Shape ==
  /\ src \in Source /\ list \in Lists
  /\ labels \in [Source -> 0 .. MetricRefresh]
  /\ gauge \in [value : Flag \cup {"none"}, age : 0 .. MetricRefresh - 1]
  /\ print \in [value : Lists, age : Nat] /\ fallback \in Nat
  /\ spool \in Seq(Batch) /\ last \in Source \X Lists /\ faults \in Nat
  /\ streak \in 0 .. MetricRefresh /\ steady \in 0 .. MetricRefresh

\* A batch says what it was collected with, or that it is partial.
Honest(b) ==
  /\ b.active = Active(b.of[1]) \/ (b.active = "none" /\ b.partial)
  /\ b.source = b.of[1] \/ (b.source = "none" /\ b.partial)

\* The gauge is left out of batches i to j.
Silent(i, j) == \A k \in i .. j : spool[k].active = "none"

\* The label is left out of batches i to j, all of source s.
Mute(s, i, j) == \A k \in i .. j : spool[k].source = "none" /\ spool[k].of[1] = s

\* What leaves the gauge out has the value of the batch before, and the cache that
\* of the last batch.
Linked ==
  /\ \A i \in 2 .. Len(spool) :
       spool[i].active = "none" => Active(spool[i].of[1]) = Active(spool[i - 1].of[1])
  /\ (streak > 0 /\ Len(spool) > 0) =>
       (spool[1].active = "none" => Active(spool[1].of[1]) = Active(last[1]))
  /\ (gauge.value # "none" /\ Len(spool) > 0) => gauge.value = Active(spool[Len(spool)].of[1])
  /\ (gauge.value # "none" /\ Len(spool) = 0 /\ streak > 0) => gauge.value = Active(last[1])

\* Runs in the spool are shorter than the refresh interval; one that reaches the end is
\* no longer than the age of the cache.
GaugeRuns ==
  \A i, j \in 1 .. Len(spool) :
    i <= j /\ Silent(i, j) =>
      /\ j - i + 1 < MetricRefresh
      /\ (j = Len(spool) /\ gauge.value # "none") => j - i + 1 <= gauge.age
LabelRuns ==
  \A s \in Source : \A i, j \in 1 .. Len(spool) :
    i <= j /\ Mute(s, i, j) =>
      /\ j - i + 1 < MetricRefresh
      /\ j = Len(spool) => j - i + 1 <= labels[s]

\* A view that is wrong has had a run since the last fault, which goes on in the spool.
GaugeView ==
  (streak > 0 /\ view.active # Active(last[1])) =>
    \A j \in 0 .. Len(spool) : Silent(1, j) =>
      /\ streak + j < MetricRefresh
      /\ (j = Len(spool) /\ gauge.value # "none") => streak + j <= gauge.age
LabelView ==
  (steady > 0 /\ view.source # last[1]) =>
    \A j \in 0 .. Len(spool) : Mute(last[1], 1, j) =>
      /\ steady + j < MetricRefresh
      /\ j = Len(spool) => steady + j <= labels[last[1]]

\* Before any fault the first batch has every metric.
FirstComplete ==
  (faults = 0 /\ streak = 0) =>
    IF Len(spool) = 0 THEN gauge.value = "none" ELSE spool[1].active # "none"

BatchesHonest == \A i \in 1 .. Len(spool) : Honest(spool[i])

IndInv ==
  /\ Shape /\ BatchesHonest /\ Linked /\ GaugeRuns /\ LabelRuns
  /\ GaugeView /\ LabelView /\ FirstComplete /\ CarriedExactly

\* The refresh interval is a positive number of collections.
LEMMA RefreshPositive == MetricRefresh \in Nat /\ MetricRefresh > 0
  BY NodeViewAssumption

\* Active is one of two flags, and never "none".
LEMMA ActiveIsFlag == \A s : Active(s) \in Flag /\ Active(s) # "none"
  BY Zenon DEF Active, Flag

-----------------------------------------------------------------------------
(* What the actions do. *)

\* A batch is of its type, and honest (collectBatch).
LEMMA BatchCollected ==
  ASSUME Shape, NEW pressed \in BOOLEAN
  PROVE  /\ CollectBatch(pressed) \in Batch /\ Honest(CollectBatch(pressed))
         /\ CollectBatch(pressed).of[1] = src
         /\ CollectBatch(pressed).active = IF GaugeDue(src) THEN Active(src) ELSE "none"
         /\ CollectBatch(pressed).source = IF LabelDue(src) THEN src ELSE "none"
<1> DEFINE b == CollectBatch(pressed)
<1>1. Sampled(pressed) \in Lists
  BY NodeViewAssumption, Zenon DEF Sampled, Shape
<1>2. /\ LabelDue(src) \in BOOLEAN /\ GaugeDue(src) \in BOOLEAN /\ SampleDue(pressed) \in BOOLEAN
      /\ Unchanged(Sampled(pressed)) \in BOOLEAN
  <2>1. LabelDue(src) \in BOOLEAN
    BY NodeViewAssumption DEF LabelDue, Older, Shape
  <2>2. GaugeDue(src) \in BOOLEAN
    BY NodeViewAssumption, Zenon DEF GaugeDue, Older, Shape
  <2>3. SampleDue(pressed) \in BOOLEAN
    BY NodeViewAssumption, Zenon DEF SampleDue, Older, Shape
  <2>4. Unchanged(Sampled(pressed)) \in BOOLEAN
    BY NodeViewAssumption, Zenon DEF Unchanged, Older, Shape
  <2>5. QED
    BY <2>1, <2>2, <2>3, <2>4, Zenon
<1>3. /\ b.of = <<src, list>>
      /\ b.active = IF GaugeDue(src) THEN Active(src) ELSE "none"
      /\ b.source = IF LabelDue(src) THEN src ELSE "none"
      /\ b.partial = (~LabelDue(src) \/ ~GaugeDue(src))
  BY Zenon DEF CollectBatch
<1>4. b \in Batch
  BY <1>1, <1>2, ActiveIsFlag, NodeViewAssumption, Zenon DEF CollectBatch, Batch, Shape
<1>5. b.of[1] = src
  BY <1>3
<1>6. Honest(b)
  <2> HIDE DEF b
  <2>1. b.active = Active(b.of[1]) \/ (b.active = "none" /\ b.partial)
    BY <1>2, <1>3, <1>5, Zenon
  <2>2. b.source = b.of[1] \/ (b.source = "none" /\ b.partial)
    BY <1>2, <1>3, <1>5, Zenon
  <2>3. QED
    BY <2>1, <2>2, Zenon DEF Honest
<1>7. QED
  BY <1>3, <1>4, <1>5, <1>6, Zenon

\* A collection adds one batch; what it leaves out is in the cache, one older.
LEMMA CollectEffect ==
  ASSUME Shape, NEW pressed \in BOOLEAN, Collect(pressed)
  PROVE  LET b == CollectBatch(pressed) IN
         /\ spool' \in Seq(Batch) /\ Len(spool') = Len(spool) + 1
         /\ \A k \in 1 .. Len(spool) : spool'[k] = spool[k]
         /\ spool'[Len(spool) + 1] = b
         /\ b.active = "none" => /\ gauge.value = Active(src) /\ gauge'.value = gauge.value
                                 /\ gauge'.age = gauge.age + 1 /\ gauge'.age < MetricRefresh
         /\ b.active # "none" => gauge'.value = Active(src) /\ gauge'.age = 0
         /\ b.source = "none" => /\ labels'[src] = labels[src] + 1
                                 /\ labels'[src] < MetricRefresh
         /\ UNCHANGED <<src, list, view, last, streak, steady>>
         /\ faults' \in Nat /\ (faults' = 0 => faults = 0)
         /\ Shape'
<1> DEFINE b == CollectBatch(pressed)
<1>1. /\ b \in Batch /\ b.of[1] = src
      /\ b.active = IF GaugeDue(src) THEN Active(src) ELSE "none"
      /\ b.source = IF LabelDue(src) THEN src ELSE "none"
  BY BatchCollected, Zenon
<1>2. spool' = Append(spool, b)
  BY Zenon DEF Collect
<1>3. /\ spool' \in Seq(Batch) /\ Len(spool') = Len(spool) + 1
      /\ \A k \in 1 .. Len(spool) : spool'[k] = spool[k]
      /\ spool'[Len(spool) + 1] = b
  BY <1>1, <1>2, AppendProperties DEF Shape
<1>4. UNCHANGED <<src, list, view, last, streak, steady>>
  BY Zenon DEF Collect, node, history
<1>5. faults' \in Nat /\ (faults' = 0 => faults = 0)
  BY DEF Collect, Shape
<1>6. b.active = "none" => ~GaugeDue(src)
  BY <1>1, ActiveIsFlag, Zenon
<1>7. b.source = "none" => ~LabelDue(src)
  BY <1>1, Zenon DEF Shape, Source
<1>8. gauge' = IF GaugeDue(src) THEN [value |-> Active(src), age |-> 0]
               ELSE [gauge EXCEPT !.age = Older(gauge.age, MetricRefresh)]
  BY Zenon DEF Collect, Remember
<1>9. /\ b.active = "none" => /\ gauge.value = Active(src) /\ gauge'.value = gauge.value
                              /\ gauge'.age = gauge.age + 1 /\ gauge'.age < MetricRefresh
      /\ b.active # "none" => gauge'.value = Active(src) /\ gauge'.age = 0
      /\ gauge' \in [value : Flag \cup {"none"}, age : 0 .. MetricRefresh - 1]
  <2>1. CASE GaugeDue(src)
    BY <1>1, <1>6, <1>8, <2>1, ActiveIsFlag, RefreshPositive, SMTT(30) DEF Shape
  <2>2. CASE ~GaugeDue(src)
    <3>1. gauge.value = Active(src) /\ ~(Older(gauge.age, MetricRefresh) >= MetricRefresh)
      BY <2>2, Zenon DEF GaugeDue
    <3>2. Older(gauge.age, MetricRefresh) = gauge.age + 1
      BY <3>1, RefreshPositive DEF Older, Shape
    <3>3. gauge' = [gauge EXCEPT !.age = gauge.age + 1]
      BY <1>8, <2>2, <3>2, Zenon
    <3>4. b.active = "none"
      BY <1>1, <2>2, Zenon
    <3>5. gauge.age \in 0 .. MetricRefresh - 1 /\ gauge.age + 1 < MetricRefresh
      BY <3>1, <3>2, RefreshPositive DEF Shape
    <3>6. gauge \in [value : Flag \cup {"none"}, age : 0 .. MetricRefresh - 1]
      BY Zenon DEF Shape
    <3>7. gauge' = [value |-> gauge.value, age |-> gauge.age + 1]
      BY <3>3, <3>6, Zenon
    <3>8. gauge.age + 1 \in 0 .. MetricRefresh - 1
      BY <3>5, RefreshPositive
    <3>9. QED
      BY <3>1, <3>4, <3>5, <3>6, <3>7, <3>8, Zenon
  <2>3. QED
    BY <2>1, <2>2, Zenon
<1>10. labels' = [s \in Source |-> IF s = src /\ LabelDue(s) THEN 0
                                   ELSE Older(labels[s], MetricRefresh)]
  BY Zenon DEF Collect, Remember
<1>11. labels' \in [Source -> 0 .. MetricRefresh]
  BY <1>10, RefreshPositive DEF Shape, Older
<1>12. b.source = "none" => labels'[src] = labels[src] + 1 /\ labels'[src] < MetricRefresh
  BY <1>7, <1>10, RefreshPositive DEF LabelDue, Older, Shape
<1>13. print' \in [value : Lists, age : Nat] /\ fallback' \in Nat
  <2>1. Sampled(pressed) \in Lists
    BY NodeViewAssumption, Zenon DEF Sampled, Shape
  <2>2. Older(print.age, ListRefresh) \in Nat /\ Older(fallback, Sampling) \in Nat
    <3>1. print.age \in Nat /\ fallback \in Nat
      BY DEF Shape
    <3>2. ListRefresh \in Nat /\ Sampling \in Nat
      BY NodeViewAssumption, Zenon
    <3>3. ASSUME NEW a \in Nat, NEW l \in Nat PROVE Older(a, l) \in Nat
      BY DEF Older
    <3>4. QED
      BY <3>1, <3>2, <3>3, Zenon
  <2>3. \/ print' = [value |-> Sampled(pressed), age |-> 0]
        \/ print' = print
        \/ print' = [print EXCEPT !.age = Older(print.age, ListRefresh)]
    BY Zenon DEF Collect, Remember
  <2>4. fallback' \in {0, Older(fallback, Sampling)}
    BY Zenon DEF Collect, Remember
  <2>5. QED
    BY <2>1, <2>2, <2>3, <2>4, SMTT(30) DEF Shape
<1>14. Shape'
  BY <1>3, <1>4, <1>5, <1>9, <1>11, <1>13, Zenon DEF Shape
<1>15. QED
  BY <1>3, <1>4, <1>5, <1>9, <1>12, <1>14, Zenon

\* The spool without its first i batches.
LEMMA Shift ==
  ASSUME NEW s \in Seq(Batch), NEW i \in 1 .. Len(s), NEW t, t = SubSeq(s, i + 1, Len(s))
  PROVE  /\ t \in Seq(Batch) /\ Len(t) = Len(s) - i
         /\ \A k \in 1 .. Len(t) : t[k] = s[i + k]
<1>1. Len(s) \in Nat /\ \A k \in 1 .. Len(s) : s[k] \in Batch
  OBVIOUS
<1>2. \A k \in i + 1 .. Len(s) : s[k] \in Batch
  BY <1>1
<1>3. /\ t \in Seq(Batch) /\ Len(t) = IF i + 1 <= Len(s) THEN Len(s) - (i + 1) + 1 ELSE 0
      /\ \A k \in 1 .. Len(s) - (i + 1) + 1 : t[k] = s[i + 1 + k - 1]
  BY <1>1, <1>2, SubSeqProperties
<1>4. QED
  BY <1>1, <1>3

-----------------------------------------------------------------------------
(* The invariant is kept. *)

\* By a collection: a run that reaches the end of the spool grows with the age of the
\* cache, and ends when that reaches the refresh interval.
LEMMA CollectInv ==
  ASSUME IndInv, NEW pressed \in BOOLEAN, Collect(pressed)
  PROVE  IndInv'
<1> DEFINE b == CollectBatch(pressed)
           n == Len(spool)
<1>0. Shape /\ n \in Nat
  BY DEF IndInv, Shape
<1>1. /\ Len(spool') = n + 1 /\ spool'[n + 1] = b
      /\ \A k \in 1 .. n : spool'[k] = spool[k]
  BY <1>0, CollectEffect, Zenon
<1>2. /\ b.active = "none" => /\ gauge.value = Active(src) /\ gauge'.value = gauge.value
                              /\ gauge'.age = gauge.age + 1 /\ gauge'.age < MetricRefresh
      /\ b.active # "none" => gauge'.value = Active(src) /\ gauge'.age = 0
  BY <1>0, CollectEffect, Zenon
<1>3. b.source = "none" => labels'[src] = labels[src] + 1 /\ labels'[src] < MetricRefresh
  BY <1>0, CollectEffect, Zenon
<1>4. /\ UNCHANGED <<src, list, view, last, streak, steady>> /\ Shape'
      /\ faults' \in Nat /\ (faults' = 0 => faults = 0)
  BY <1>0, CollectEffect, Zenon
<1>5. Honest(b) /\ b.of[1] = src
  BY <1>0, BatchCollected, Zenon
<1>6. gauge.age \in Nat /\ gauge'.age \in Nat /\ labels[src] \in Nat /\ labels'[src] \in Nat
      /\ streak \in Nat /\ steady \in Nat /\ MetricRefresh \in Nat
  BY <1>0, <1>4, RefreshPositive DEF Shape
<1> HIDE DEF b, n
<1>7. BatchesHonest'
  <2> SUFFICES ASSUME NEW i \in 1 .. n + 1 PROVE Honest(spool'[i])
    BY <1>1, Zenon DEF BatchesHonest, Honest
  <2>1. CASE i = n + 1
    BY <1>1, <1>5, <2>1, Zenon
  <2>2. CASE i # n + 1
    BY <1>0, <1>1, <2>2 DEF IndInv, BatchesHonest, n
  <2>3. QED
    BY <2>1, <2>2, Zenon
<1>8. Linked'
  <2>1. ASSUME NEW i \in 2 .. n + 1, spool'[i].active = "none"
        PROVE  Active(spool'[i].of[1]) = Active(spool'[i - 1].of[1])
    <3>1. CASE i = n + 1
      <4>1. b.active = "none" /\ n \in 1 .. n
        BY <1>0, <1>1, <2>1, <3>1
      <4>2. gauge.value = Active(src) /\ gauge.value # "none"
        BY <1>2, <4>1, ActiveIsFlag, Zenon
      <4>3. gauge.value = Active(spool[n].of[1])
        BY <4>1, <4>2 DEF IndInv, Linked, n
      <4>4. spool'[i - 1] = spool[n] /\ spool'[i] = b
        BY <1>0, <1>1, <3>1, <4>1
      <4>5. QED
        BY <1>5, <4>2, <4>3, <4>4, Zenon
    <3>2. CASE i # n + 1
      <4>1. i \in 2 .. n /\ spool'[i] = spool[i] /\ spool'[i - 1] = spool[i - 1]
        BY <1>0, <1>1, <3>2
      <4>2. QED
        BY <2>1, <4>1, Zenon DEF IndInv, Linked, n
    <3>3. QED
      BY <3>1, <3>2, Zenon
  <2>2. ASSUME streak > 0, spool'[1].active = "none"
        PROVE  Active(spool'[1].of[1]) = Active(last[1])
    <3>1. CASE n = 0
      BY <1>1, <1>2, <1>5, <2>2, <3>1, ActiveIsFlag DEF IndInv, Linked, n
    <3>2. CASE n # 0
      BY <1>0, <1>1, <2>2, <3>2 DEF IndInv, Linked, n
    <3>3. QED
      BY <3>1, <3>2, Zenon
  <2>3. gauge'.value = Active(spool'[n + 1].of[1])
    BY <1>1, <1>2, <1>5, Zenon
  <2>4. QED
    BY <1>0, <1>1, <1>4, <2>1, <2>2, <2>3 DEF Linked
<1>9. GaugeRuns'
  <2> SUFFICES ASSUME NEW i \in 1 .. n + 1, NEW j \in 1 .. n + 1, i <= j,
                      \A k \in i .. j : spool'[k].active = "none"
               PROVE  /\ j - i + 1 < MetricRefresh
                      /\ j = n + 1 => j - i + 1 <= gauge'.age
    BY <1>1, Zenon DEF GaugeRuns, Silent
  <2>1. CASE j # n + 1
    <3>1. j \in 1 .. n /\ i \in 1 .. n /\ \A k \in i .. j : spool[k].active = "none"
      BY <1>0, <1>1, <2>1
    <3>2. QED
      BY <2>1, <3>1, Zenon DEF IndInv, GaugeRuns, Silent, n
  <2>2. CASE j = n + 1
    <3>1. b.active = "none"
      BY <1>1, <2>2
    <3>2. CASE i = n + 1
      BY <1>0, <1>2, <1>6, <2>2, <3>1, <3>2
    <3>3. CASE i # n + 1
      <4>1. i \in 1 .. n /\ n \in 1 .. n /\ \A k \in i .. n : spool[k].active = "none"
        BY <1>0, <1>1, <2>2, <3>3
      <4>2. n - i + 1 <= gauge.age
        BY <1>0, <1>2, <3>1, <4>1, ActiveIsFlag DEF IndInv, GaugeRuns, Silent, n
      <4>3. QED
        BY <1>0, <1>2, <1>6, <2>2, <3>1, <4>2
    <3>4. QED
      BY <3>2, <3>3, Zenon
  <2>3. QED
    BY <2>1, <2>2, Zenon
<1>10. LabelRuns'
  <2> SUFFICES ASSUME NEW s \in Source, NEW i \in 1 .. n + 1, NEW j \in 1 .. n + 1, i <= j,
                      \A k \in i .. j : spool'[k].source = "none" /\ spool'[k].of[1] = s
               PROVE  /\ j - i + 1 < MetricRefresh
                      /\ j = n + 1 => j - i + 1 <= labels'[s]
    BY <1>1, Zenon DEF LabelRuns, Mute
  <2>1. CASE j # n + 1
    <3>1. /\ j \in 1 .. n /\ i \in 1 .. n
          /\ \A k \in i .. j : spool[k].source = "none" /\ spool[k].of[1] = s
      BY <1>0, <1>1, <2>1
    <3>2. QED
      BY <2>1, <3>1, Zenon DEF IndInv, LabelRuns, Mute, n
  <2>2. CASE j = n + 1
    <3>1. b.source = "none" /\ s = src
      BY <1>1, <1>5, <2>2
    <3>2. CASE i = n + 1
      BY <1>0, <1>3, <1>6, <2>2, <3>1, <3>2
    <3>3. CASE i # n + 1
      <4>1. /\ i \in 1 .. n /\ n \in 1 .. n
            /\ \A k \in i .. n : spool[k].source = "none" /\ spool[k].of[1] = s
        BY <1>0, <1>1, <2>2, <3>3
      <4>2. n - i + 1 <= labels[src]
        BY <1>0, <3>1, <4>1 DEF IndInv, LabelRuns, Mute, n
      <4>3. QED
        BY <1>0, <1>3, <1>6, <2>2, <3>1, <4>2
    <3>4. QED
      BY <3>2, <3>3, Zenon
  <2>3. QED
    BY <2>1, <2>2, Zenon
<1>11. GaugeView'
  <2> SUFFICES ASSUME streak > 0, view.active # Active(last[1]), NEW j \in 0 .. n + 1,
                      \A k \in 1 .. j : spool'[k].active = "none"
               PROVE  /\ streak + j < MetricRefresh
                      /\ j = n + 1 => streak + j <= gauge'.age
    BY <1>1, <1>4, Zenon DEF GaugeView, Silent
  <2>1. CASE j # n + 1
    <3>1. j \in 0 .. n /\ \A k \in 1 .. j : spool[k].active = "none"
      BY <1>0, <1>1, <2>1
    <3>2. QED
      BY <2>1, <3>1, Zenon DEF IndInv, GaugeView, Silent, n
  <2>2. CASE j = n + 1
    <3>1. b.active = "none" /\ n \in 0 .. n /\ \A k \in 1 .. n : spool[k].active = "none"
      BY <1>0, <1>1, <2>2
    <3>2. streak + n <= gauge.age
      BY <1>2, <3>1, ActiveIsFlag, Zenon DEF IndInv, GaugeView, Silent, n
    <3>3. QED
      BY <1>0, <1>2, <1>6, <2>2, <3>1, <3>2
  <2>3. QED
    BY <2>1, <2>2, Zenon
<1>12. LabelView'
  <2> SUFFICES ASSUME steady > 0, view.source # last[1], NEW j \in 0 .. n + 1,
                      \A k \in 1 .. j : spool'[k].source = "none" /\ spool'[k].of[1] = last[1]
               PROVE  /\ steady + j < MetricRefresh
                      /\ j = n + 1 => steady + j <= labels'[last[1]]
    BY <1>1, <1>4, Zenon DEF LabelView, Mute
  <2>1. CASE j # n + 1
    <3>1. j \in 0 .. n /\ \A k \in 1 .. j : spool[k].source = "none" /\ spool[k].of[1] = last[1]
      BY <1>0, <1>1, <2>1
    <3>2. QED
      BY <2>1, <3>1, Zenon DEF IndInv, LabelView, Mute, n
  <2>2. CASE j = n + 1
    <3>1. /\ b.source = "none" /\ src = last[1] /\ n \in 0 .. n
          /\ \A k \in 1 .. n : spool[k].source = "none" /\ spool[k].of[1] = last[1]
      BY <1>0, <1>1, <1>5, <2>2
    <3>2. steady + n <= labels[src]
      BY <3>1, Zenon DEF IndInv, LabelView, Mute, n
    <3>3. QED
      BY <1>0, <1>3, <1>6, <2>2, <3>1, <3>2
  <2>3. QED
    BY <2>1, <2>2, Zenon
<1>13. FirstComplete' /\ CarriedExactly'
  <2>1. CarriedExactly'
    BY <1>4, Zenon DEF IndInv, CarriedExactly
  <2>2. CASE n = 0
    <3>1. ASSUME faults' = 0, streak = 0 PROVE spool'[1].active # "none"
      BY <1>1, <1>2, <1>4, <2>2, <3>1, ActiveIsFlag DEF IndInv, FirstComplete, n
    <3>2. QED
      BY <1>1, <1>4, <2>1, <2>2, <3>1 DEF FirstComplete
  <2>3. CASE n # 0
    BY <1>0, <1>1, <1>4, <2>1, <2>3 DEF IndInv, FirstComplete, n
  <2>4. QED
    BY <2>2, <2>3, Zenon
<1>14. QED
  BY <1>4, <1>7, <1>8, <1>9, <1>10, <1>11, <1>12, <1>13, Zenon DEF IndInv

\* What Store does with an honest batch: a metric is replaced, or carried.
LEMMA Stored ==
  ASSUME NEW v, NEW b \in Batch, Honest(b)
  PROVE  /\ Store(v, b).active = IF b.active = "none" THEN v.active ELSE Active(b.of[1])
         /\ Store(v, b).source = IF b.source = "none" THEN v.source ELSE b.of[1]
<1>1. /\ Store(v, b).active = Carry(v.active, b.active, b.partial)
      /\ Store(v, b).source = Carry(v.source, b.source, b.partial)
  BY Zenon DEF Store
<1>2. Carry(v.active, b.active, b.partial) = IF b.active = "none" THEN v.active ELSE Active(b.of[1])
  BY ActiveIsFlag, Zenon DEF Carry, Honest
<1>3. b.of[1] # "none"
  BY Zenon DEF Batch, Source
<1>4. Carry(v.source, b.source, b.partial) = IF b.source = "none" THEN v.source ELSE b.of[1]
  BY <1>3 DEF Carry, Honest
<1>5. QED
  BY <1>1, <1>2, <1>4, Zenon

\* What is said of the spool alone stays true of what is left of it.
LEMMA ShiftInv ==
  ASSUME IndInv, NEW i \in 1 .. Len(spool),
         spool' = SubSeq(spool, i + 1, Len(spool)), UNCHANGED <<node, caches>>,
         last' \in Source \X Lists, faults' \in Nat,
         streak' \in 0 .. MetricRefresh, steady' \in 0 .. MetricRefresh
  PROVE  /\ Shape' /\ BatchesHonest' /\ GaugeRuns' /\ LabelRuns'
         /\ Len(spool') = Len(spool) - i
         /\ \A k \in 1 .. Len(spool') : spool'[k] = spool[i + k]
<1> DEFINE n == Len(spool)
<1>0. n \in Nat /\ spool \in Seq(Batch)
  BY DEF IndInv, Shape
<1>1. /\ spool' \in Seq(Batch) /\ Len(spool') = n - i
      /\ \A k \in 1 .. n - i : spool'[k] = spool[i + k]
  BY <1>0, Shift, SMTT(30)
<1>2. UNCHANGED <<src, list, labels, gauge, print, fallback>>
  BY Zenon DEF node, caches
<1>3. Shape'
  BY <1>1, <1>2, Zenon DEF IndInv, Shape
<1> HIDE DEF n
<1>4. BatchesHonest'
  <2> SUFFICES ASSUME NEW k \in 1 .. n - i PROVE Honest(spool'[k])
    BY <1>1, Zenon DEF BatchesHonest, Honest
  <2>1. i + k \in 1 .. n
    BY <1>0 DEF n
  <2>2. spool'[k] = spool[i + k]
    BY <1>1, Zenon
  <2>3. Honest(spool[i + k])
    BY <2>1, Zenon DEF IndInv, BatchesHonest, n
  <2>4. QED
    BY <2>2, <2>3, Zenon
<1>5. GaugeRuns'
  <2> SUFFICES ASSUME NEW k \in 1 .. n - i, NEW j \in 1 .. n - i, k <= j,
                      \A l \in k .. j : spool'[l].active = "none"
               PROVE  /\ j - k + 1 < MetricRefresh
                      /\ (j = n - i /\ gauge.value # "none") => j - k + 1 <= gauge.age
    BY <1>1, <1>2, Zenon DEF GaugeRuns, Silent
  <2>1. i + k \in 1 .. n /\ i + j \in 1 .. n /\ i + k <= i + j /\ (j = n - i => i + j = n)
    BY <1>0, SMTT(30) DEF n
  <2>2. ASSUME NEW l \in i + k .. i + j PROVE spool[l].active = "none"
    <3>1. l - i \in k .. j /\ l - i \in 1 .. n - i /\ i + (l - i) = l
      BY <1>0, SMTT(30) DEF n
    <3>2. spool'[l - i] = spool[l]
      BY <1>1, <3>1, Zenon
    <3>3. QED
      BY <3>1, <3>2, Zenon
  <2>3. /\ (i + j) - (i + k) + 1 < MetricRefresh
        /\ (i + j = n /\ gauge.value # "none") => (i + j) - (i + k) + 1 <= gauge.age
    BY <2>1, <2>2, Zenon DEF IndInv, GaugeRuns, Silent, n
  <2>4. (i + j) - (i + k) + 1 = j - k + 1
    BY <1>0
  <2>5. QED
    BY <2>1, <2>3, <2>4, Zenon
<1>6. LabelRuns'
  <2> SUFFICES ASSUME NEW s \in Source, NEW k \in 1 .. n - i, NEW j \in 1 .. n - i, k <= j,
                      \A l \in k .. j : spool'[l].source = "none" /\ spool'[l].of[1] = s
               PROVE  /\ j - k + 1 < MetricRefresh
                      /\ j = n - i => j - k + 1 <= labels[s]
    BY <1>1, <1>2, Zenon DEF LabelRuns, Mute
  <2>1. i + k \in 1 .. n /\ i + j \in 1 .. n /\ i + k <= i + j /\ (j = n - i => i + j = n)
    BY <1>0 DEF n
  <2>2. ASSUME NEW l \in i + k .. i + j PROVE spool[l].source = "none" /\ spool[l].of[1] = s
    <3>1. l - i \in k .. j /\ l - i \in 1 .. n - i /\ i + (l - i) = l
      BY <1>0 DEF n
    <3>2. spool'[l - i] = spool[l]
      BY <1>1, <3>1, Zenon
    <3>3. QED
      BY <3>1, <3>2, Zenon
  <2>3. /\ (i + j) - (i + k) + 1 < MetricRefresh
        /\ i + j = n => (i + j) - (i + k) + 1 <= labels[s]
    BY <2>1, <2>2, Zenon DEF IndInv, LabelRuns, Mute, n
  <2>4. (i + j) - (i + k) + 1 = j - k + 1
    BY <1>0
  <2>5. QED
    BY <2>1, <2>3, <2>4, Zenon
<1>7. QED
  BY <1>1, <1>3, <1>4, <1>5, <1>6, Zenon DEF n

\* By an application: what the view lacks after it is what it lacked before, or starts
\* a run in the spool.
LEMMA ApplyInv ==
  ASSUME IndInv, NEW i \in 1 .. MaxSpool, Apply(i)
  PROVE  IndInv'
<1> DEFINE n == Len(spool)
           b == spool[i]
<1>0. /\ n \in Nat /\ spool \in Seq(Batch) /\ i \in 1 .. n /\ b \in Batch
      /\ streak \in Nat /\ steady \in Nat /\ MetricRefresh \in Nat /\ MetricRefresh > 0
      /\ streak <= MetricRefresh /\ steady <= MetricRefresh
  BY RefreshPositive, SMTT(30) DEF IndInv, Shape, Apply
<1>1. /\ spool' = SubSeq(spool, i + 1, n) /\ view' = Store(view, b) /\ last' = b.of
      /\ UNCHANGED <<node, caches>>
  BY Zenon DEF Apply
<1>2. /\ streak' = IF i > 1 THEN 1 ELSE Older(streak, MetricRefresh)
      /\ steady' = IF i > 1 \/ b.of[1] # last[1] THEN 1 ELSE Older(steady, MetricRefresh)
      /\ faults' \in Nat /\ (i > 1 => faults' # 0) /\ (faults' = 0 => faults = 0)
  BY DEF Apply, IndInv, Shape
<1>3. streak' \in 1 .. MetricRefresh /\ steady' \in 1 .. MetricRefresh
  BY <1>0, <1>2 DEF Older
<1>4. last' \in Source \X Lists
  BY <1>0, <1>1, Zenon DEF Batch
<1>5. /\ Shape' /\ BatchesHonest' /\ GaugeRuns' /\ LabelRuns'
      /\ Len(spool') = n - i
      /\ \A k \in 1 .. n - i : spool'[k] = spool[i + k]
  BY <1>0, <1>1, <1>2, <1>3, <1>4, ShiftInv, SMTT(30)
<1>6. Honest(b)
  BY <1>0, Zenon DEF IndInv, BatchesHonest
<1>7. /\ view'.active = IF b.active = "none" THEN view.active ELSE Active(last'[1])
      /\ view'.source = IF b.source = "none" THEN view.source ELSE last'[1]
  BY <1>0, <1>1, <1>6, Stored, Zenon
<1>8. UNCHANGED <<gauge, labels>>
  BY <1>1, Zenon DEF caches
<1>9. gauge.age \in Nat /\ \A s \in Source : labels[s] \in Nat
  BY DEF IndInv, Shape
<1> HIDE DEF n, b
<1>10. Linked'
  <2>1. ASSUME NEW k \in 2 .. n - i, spool'[k].active = "none"
        PROVE  Active(spool'[k].of[1]) = Active(spool'[k - 1].of[1])
    <3>1. i + k \in 2 .. n /\ k \in 1 .. n - i /\ k - 1 \in 1 .. n - i /\ i + (k - 1) = (i + k) - 1
      BY <1>0
    <3>2. spool'[k] = spool[i + k] /\ spool'[k - 1] = spool[(i + k) - 1]
      BY <1>5, <3>1, Zenon
    <3>3. QED
      BY <2>1, <3>1, <3>2, Zenon DEF IndInv, Linked, n
  <2>2. ASSUME n - i > 0, spool'[1].active = "none"
        PROVE  Active(spool'[1].of[1]) = Active(last'[1])
    <3>1. i + 1 \in 2 .. n /\ (i + 1) - 1 = i /\ 1 \in 1 .. n - i
      BY <1>0, <2>2
    <3>2. spool'[1] = spool[i + 1]
      BY <1>5, <3>1, Zenon
    <3>3. Active(spool[i + 1].of[1]) = Active(spool[i].of[1])
      BY <2>2, <3>1, <3>2, Zenon DEF IndInv, Linked, n
    <3>4. QED
      BY <1>1, <3>2, <3>3, Zenon DEF b
  <2>3. ASSUME n - i > 0, gauge.value # "none"
        PROVE  gauge.value = Active(spool'[n - i].of[1])
    <3>1. n - i \in 1 .. n - i /\ i + (n - i) = n /\ n > 0
      BY <1>0, <2>3
    <3>2. spool'[n - i] = spool[n]
      BY <1>5, <3>1, Zenon
    <3>3. QED
      BY <2>3, <3>1, <3>2, Zenon DEF IndInv, Linked, n
  <2>4. ASSUME n - i = 0, gauge.value # "none"
        PROVE  gauge.value = Active(last'[1])
    <3>1. i = n /\ n > 0
      BY <1>0, <2>4
    <3>2. QED
      BY <1>1, <2>4, <3>1, Zenon DEF IndInv, Linked, n, b
  <2>5. QED
    BY <1>5, <1>8, <2>1, <2>2, <2>3, <2>4 DEF Linked
<1>11. GaugeView'
  <2> SUFFICES ASSUME view'.active # Active(last'[1]), NEW j \in 0 .. n - i,
                      \A k \in 1 .. j : spool'[k].active = "none"
               PROVE  /\ streak' + j < MetricRefresh
                      /\ (j = n - i /\ gauge.value # "none") => streak' + j <= gauge.age
    BY <1>5, <1>8, Zenon DEF GaugeView, Silent
  <2>1. b.active = "none" /\ view'.active = view.active
    BY <1>7, Zenon
  <2>2. ASSUME NEW k \in i .. i + j PROVE spool[k].active = "none"
    <3>1. CASE k = i
      BY <2>1, <3>1, Zenon DEF b
    <3>2. CASE k # i
      <4>1. k - i \in 1 .. j /\ k - i \in 1 .. n - i /\ i + (k - i) = k
        BY <1>0, <3>2
      <4>2. QED
        BY <1>5, <4>1, Zenon
    <3>3. QED
      BY <3>1, <3>2, Zenon
  <2>3. i + j \in 1 .. n /\ i <= i + j /\ (j = n - i => i + j = n) /\ (i + j) - i + 1 = 1 + j
    BY <1>0
  <2>4. /\ 1 + j < MetricRefresh
        /\ (j = n - i /\ gauge.value # "none") => 1 + j <= gauge.age
    BY <1>0, <2>2, <2>3, Zenon DEF IndInv, GaugeRuns, Silent, n
  <2>5. CASE i > 1 \/ streak = 0
    <3>1. streak' = 1
      BY <1>0, <1>2, <2>5 DEF Older
    <3>2. QED
      BY <2>4, <3>1, Zenon
  <2>6. CASE i = 1 /\ streak > 0
    <3>1. Active(b.of[1]) = Active(last[1])
      BY <1>0, <2>1, <2>6 DEF IndInv, Linked, n, b
    <3>2. view.active # Active(last[1])
      BY <1>1, <2>1, <3>1, Zenon
    <3>3. 1 + j \in 0 .. n /\ \A k \in 1 .. 1 + j : spool[k].active = "none"
      BY <1>0, <2>2, <2>6
    <3>4. /\ streak + (1 + j) < MetricRefresh
          /\ (1 + j = n /\ gauge.value # "none") => streak + (1 + j) <= gauge.age
      BY <2>6, <3>2, <3>3, Zenon DEF IndInv, GaugeView, Silent, n
    <3>5. streak' = streak + 1
      BY <1>0, <1>2, <2>6, <3>4 DEF Older
    <3>6. QED
      BY <1>0, <1>9, <2>6, <3>4, <3>5
  <2>7. QED
    BY <1>0, <2>5, <2>6
<1>12. LabelView'
  <2> DEFINE s == last'[1]
  <2> SUFFICES ASSUME view'.source # s, NEW j \in 0 .. n - i,
                      \A k \in 1 .. j : spool'[k].source = "none" /\ spool'[k].of[1] = s
               PROVE  /\ steady' + j < MetricRefresh
                      /\ j = n - i => steady' + j <= labels[s]
    BY <1>5, <1>8, Zenon DEF LabelView, Mute
  <2>1. b.source = "none" /\ view'.source = view.source /\ b.of[1] = s
    BY <1>1, <1>7, Zenon
  <2>2. s \in Source /\ labels[s] \in Nat
    BY <1>4, <1>9, Zenon
  <2> HIDE DEF s
  <2>3. ASSUME NEW k \in i .. i + j PROVE spool[k].source = "none" /\ spool[k].of[1] = s
    <3>1. CASE k = i
      BY <2>1, <3>1, Zenon DEF b
    <3>2. CASE k # i
      <4>1. k - i \in 1 .. j /\ k - i \in 1 .. n - i /\ i + (k - i) = k
        BY <1>0, <3>2
      <4>2. spool'[k - i] = spool[i + (k - i)]
        BY <1>5, <4>1, Zenon
      <4>3. spool'[k - i] = spool[k]
        BY <4>1, <4>2, Zenon
      <4>4. QED
        BY <4>1, <4>3, Zenon
    <3>3. QED
      BY <3>1, <3>2, Zenon
  <2>4. i + j \in 1 .. n /\ i <= i + j /\ (j = n - i => i + j = n) /\ (i + j) - i + 1 = 1 + j
    BY <1>0
  <2>5. /\ 1 + j < MetricRefresh
        /\ j = n - i => 1 + j <= labels[s]
    BY <1>0, <2>2, <2>3, <2>4, Zenon DEF IndInv, LabelRuns, Mute, n
  <2>6. CASE i > 1 \/ s # last[1] \/ steady = 0
    <3>1. steady' = 1
      BY <1>0, <1>2, <2>1, <2>6 DEF Older
    <3>2. QED
      BY <2>5, <3>1, Zenon
  <2>7. CASE i = 1 /\ s = last[1] /\ steady > 0
    <3>1. view.source # last[1]
      BY <2>1, <2>7, Zenon
    <3>2. 1 + j \in 0 .. n /\ \A k \in 1 .. 1 + j : spool[k].source = "none" /\ spool[k].of[1] = last[1]
      BY <1>0, <2>3, <2>7
    <3>3. /\ steady + (1 + j) < MetricRefresh
          /\ 1 + j = n => steady + (1 + j) <= labels[s]
      BY <2>7, <3>1, <3>2, Zenon DEF IndInv, LabelView, Mute, n
    <3>4. steady' = steady + 1
      BY <1>0, <1>2, <2>1, <2>7, <3>3 DEF Older
    <3>5. QED
      BY <1>0, <2>2, <2>7, <3>3, <3>4
  <2>8. QED
    BY <1>0, <2>6, <2>7
<1>13. FirstComplete'
  BY <1>3 DEF FirstComplete
<1>14. CarriedExactly'
  <2> SUFFICES ASSUME faults' = 0 PROVE view'.active = Active(last'[1])
    BY Zenon DEF CarriedExactly
  <2>1. i = 1 /\ faults = 0
    BY <1>0, <1>2
  <2>2. CASE b.active # "none"
    BY <1>7, <2>2, Zenon
  <2>3. CASE b.active = "none"
    <3>1. streak > 0
      BY <1>0, <2>1, <2>3 DEF IndInv, FirstComplete, n, b
    <3>2. Active(b.of[1]) = Active(last[1]) /\ view.active = Active(last[1])
      BY <1>0, <2>1, <2>3, <3>1 DEF IndInv, Linked, CarriedExactly, n, b
    <3>3. QED
      BY <1>1, <1>7, <2>3, <3>2, Zenon
  <2>4. QED
    BY <2>2, <2>3, Zenon
<1>15. QED
  BY <1>5, <1>10, <1>11, <1>12, <1>13, <1>14, Zenon DEF IndInv

\* A step that leaves the spool and the cache alone leaves what is said of them.
LEMMA SpoolKept ==
  ASSUME IndInv, UNCHANGED <<spool, gauge, labels>>
  PROVE  BatchesHonest' /\ GaugeRuns' /\ LabelRuns'
<1>1. BatchesHonest'
  BY Zenon DEF IndInv, BatchesHonest, Honest
<1>2. GaugeRuns'
  BY Zenon DEF IndInv, GaugeRuns, Silent
<1>3. LabelRuns'
  BY DEF IndInv, LabelRuns, Mute
<1>4. QED
  BY <1>1, <1>2, <1>3, Zenon

\* And one that leaves the history and the view too leaves all the rest.
LEMMA ViewKept ==
  ASSUME IndInv, UNCHANGED <<spool, gauge, labels, view, last, streak, steady, faults>>
  PROVE  Linked' /\ GaugeView' /\ LabelView' /\ FirstComplete' /\ CarriedExactly'
<1>1. Linked'
  BY Zenon DEF IndInv, Linked
<1>2. GaugeView'
  BY Zenon DEF IndInv, GaugeView, Silent
<1>3. LabelView'
  BY Zenon DEF IndInv, LabelView, Mute
<1>4. FirstComplete' /\ CarriedExactly'
  BY Zenon DEF IndInv, FirstComplete, CarriedExactly
<1>5. QED
  BY <1>1, <1>2, <1>3, <1>4, Zenon

\* A step that ends the streak after a fault leaves nothing to show about the view.
LEMMA StreakEnded ==
  ASSUME streak' = 0, steady' = 0, faults' # 0
  PROVE  GaugeView' /\ LabelView' /\ FirstComplete' /\ CarriedExactly'
<1>1. ~(streak' > 0) /\ ~(steady' > 0)
  OBVIOUS
<1>2. GaugeView'
  BY <1>1, Zenon DEF GaugeView
<1>3. LabelView'
  BY <1>1, Zenon DEF LabelView
<1>4. FirstComplete'
  BY Zenon DEF FirstComplete
<1>5. CarriedExactly'
  BY Zenon DEF CarriedExactly
<1>6. QED
  BY <1>2, <1>3, <1>4, <1>5, Zenon

\* One that leaves the spool and the cache of the gauge leaves the link between them.
LEMMA LinkKept ==
  ASSUME Linked, spool' = spool, gauge' = gauge, last' = last, streak' = 0
  PROVE  Linked'
BY DEF Linked

\* By a loss, a restart of either process, a pruned node and a change of the node: the
\* streak ends, the cache is empty, or nothing that was sent is concerned.
LEMMA OtherInv ==
  ASSUME IndInv,
         CollectorRestart \/ Change \/ Lose \/ ControllerRestart \/ PruneNode
  PROVE  IndInv'
<1>0. /\ Shape /\ Len(spool) \in Nat /\ spool \in Seq(Batch) /\ MetricRefresh \in Nat
      /\ MetricRefresh > 0 /\ 0 \in 0 .. MetricRefresh
  BY RefreshPositive DEF IndInv, Shape
<1>1. CASE CollectorRestart
  <2>1. /\ labels' = [s \in Source |-> MetricRefresh] /\ gauge' = Absent /\ print' = Absent
        /\ fallback' = Sampling /\ faults' = faults + 1
        /\ UNCHANGED <<src, list, spool, view, last, streak, steady>>
    BY <1>1, Zenon DEF CollectorRestart, NoCaches, node, history
  <2>2. Shape'
    BY <1>0, <2>1, NodeViewAssumption DEF Shape, Absent
  <2>3. gauge'.value = "none" /\ \A s \in Source : labels'[s] = MetricRefresh
    BY <2>1, Zenon DEF Absent
  <2>4. BatchesHonest' /\ Linked' /\ GaugeRuns' /\ GaugeView'
    <3>1. BatchesHonest'
      BY <2>1, Zenon DEF IndInv, BatchesHonest, Honest
    <3>2. Linked'
      BY <2>1, <2>3, Zenon DEF IndInv, Linked
    <3>3. GaugeRuns'
      BY <2>1, <2>3, Zenon DEF IndInv, GaugeRuns, Silent
    <3>4. GaugeView'
      BY <2>1, <2>3, Zenon DEF IndInv, GaugeView, Silent
    <3>5. QED
      BY <3>1, <3>2, <3>3, <3>4, Zenon
  <2>5. LabelRuns'
    <3> SUFFICES ASSUME NEW s \in Source, NEW i \in 1 .. Len(spool), NEW j \in 1 .. Len(spool),
                        i <= j, Mute(s, i, j)
                 PROVE  j - i + 1 < MetricRefresh /\ j - i + 1 <= labels'[s]
      BY <2>1, SMTT(30) DEF LabelRuns, Mute
    <3>1. j - i + 1 < MetricRefresh
      BY Zenon DEF IndInv, LabelRuns
    <3>2. QED
      BY <1>0, <2>3, <3>1
  <2>6. LabelView'
    <3>1. last[1] \in Source /\ steady \in Nat
      BY <1>0 DEF Shape
    <3>2. QED
      BY <1>0, <2>1, <2>3, <3>1 DEF IndInv, LabelView, Mute
  <2>7. faults' # 0
    BY <1>0, <2>1 DEF Shape
  <2>8. FirstComplete' /\ CarriedExactly'
    BY <2>7, Zenon DEF FirstComplete, CarriedExactly
  <2>9. QED
    BY <2>2, <2>4, <2>5, <2>6, <2>8, Zenon DEF IndInv
<1>2. CASE Change
  <2>1. UNCHANGED <<labels, gauge, print, fallback, spool, view, faults, last, streak, steady>>
    BY <1>2, Zenon DEF Change, caches, history
  <2>2. Shape'
    BY <1>0, <1>2, <2>1, Zenon DEF Change, Shape
  <2>3. QED
    BY <2>1, <2>2, SpoolKept, ViewKept, Zenon DEF IndInv
<1>3. CASE Lose
  <2>1. /\ spool # <<>> /\ spool' = Tail(spool) /\ faults' = faults + 1
        /\ streak' = 0 /\ steady' = 0 /\ last' = last /\ UNCHANGED <<node, caches>>
    BY <1>3, Zenon DEF Lose
  <2>2. 1 \in 1 .. Len(spool) /\ spool' = SubSeq(spool, 1 + 1, Len(spool))
    BY <1>0, <2>1, TailIsSubSeq
  <2>3. faults' \in Nat /\ faults' # 0 /\ last' \in Source \X Lists
    BY <1>0, <2>1 DEF Shape
  <2>4. /\ Shape' /\ BatchesHonest' /\ GaugeRuns' /\ LabelRuns'
        /\ Len(spool') = Len(spool) - 1
        /\ \A k \in 1 .. Len(spool') : spool'[k] = spool[1 + k]
    BY <1>0, <2>1, <2>2, <2>3, ShiftInv, Zenon
  <2>5. gauge' = gauge
    BY <2>1, Zenon DEF caches
  <2>6. Linked'
    <3>1. ASSUME NEW k \in 2 .. Len(spool'), spool'[k].active = "none"
          PROVE  Active(spool'[k].of[1]) = Active(spool'[k - 1].of[1])
      <4>1. 1 + k \in 2 .. Len(spool) /\ k \in 1 .. Len(spool') /\ k - 1 \in 1 .. Len(spool')
            /\ 1 + (k - 1) = (1 + k) - 1
        BY <1>0, <2>4
      <4>2. spool'[k] = spool[1 + k] /\ spool'[k - 1] = spool[(1 + k) - 1]
        BY <2>4, <4>1, Zenon
      <4>3. QED
        BY <3>1, <4>1, <4>2, Zenon DEF IndInv, Linked
    <3>2. ASSUME Len(spool') > 0, gauge.value # "none"
          PROVE  gauge.value = Active(spool'[Len(spool')].of[1])
      <4>1. Len(spool') \in 1 .. Len(spool') /\ 1 + Len(spool') = Len(spool) /\ Len(spool) > 0
        BY <1>0, <2>4, <3>2
      <4>2. spool'[Len(spool')] = spool[Len(spool)]
        BY <2>4, <4>1, Zenon
      <4>3. QED
        BY <3>2, <4>1, <4>2, Zenon DEF IndInv, Linked
    <3>3. QED
      BY <2>1, <2>5, <3>1, <3>2 DEF Linked
  <2>7. GaugeView' /\ LabelView' /\ FirstComplete' /\ CarriedExactly'
    BY <2>1, <2>3, StreakEnded, Zenon
  <2>8. QED
    BY <2>4, <2>6, <2>7, Zenon DEF IndInv
<1>4. CASE ControllerRestart \/ PruneNode
  <2>1. /\ UNCHANGED <<src, list, labels, gauge, print, fallback, spool, last>>
        /\ streak' = 0 /\ steady' = 0 /\ faults' = faults + 1
    BY <1>4, Zenon DEF ControllerRestart, PruneNode, node, caches
  <2>2. Shape' /\ faults' # 0
    BY <1>0, <2>1 DEF Shape
  <2>3. BatchesHonest' /\ Linked' /\ GaugeRuns' /\ LabelRuns'
    <3>1. Linked /\ spool' = spool /\ gauge' = gauge /\ last' = last /\ streak' = 0
      BY <2>1, Zenon DEF IndInv
    <3>2. Linked'
      BY <3>1, LinkKept, Zenon
    <3>3. QED
      BY <2>1, <3>2, SpoolKept, Zenon
  <2>4. GaugeView' /\ LabelView' /\ FirstComplete' /\ CarriedExactly'
    <3>1. streak' = 0 /\ steady' = 0 /\ faults' # 0
      BY <2>1, <2>2, Zenon
    <3>2. QED
      BY <3>1, StreakEnded, Zenon
  <2>5. QED
    BY <2>2, <2>3, <2>4, Zenon DEF IndInv
<1>5. QED
  BY <1>1, <1>2, <1>3, <1>4, Zenon

\* The collector starts with empty caches and nothing was sent.
LEMMA InitInv == Init => IndInv
<1> SUFFICES ASSUME Init PROVE IndInv
  BY Zenon
<1>1. /\ src \in Source /\ list \in Lists /\ labels = [s \in Source |-> MetricRefresh]
      /\ gauge = Absent /\ print = Absent /\ fallback = Sampling /\ spool = <<>>
      /\ faults = 0 /\ last = <<src, list>> /\ streak = 0 /\ steady = 0
  BY Zenon DEF Init
<1>2. Shape
  BY <1>1, RefreshPositive, NodeViewAssumption DEF Shape, Absent
<1>3. Len(spool) = 0 /\ gauge.value = "none"
  BY <1>1, Zenon DEF Absent
<1>4. BatchesHonest /\ Linked /\ GaugeRuns /\ LabelRuns
  BY <1>1, <1>3 DEF BatchesHonest, Linked, GaugeRuns, LabelRuns
<1>5. GaugeView /\ LabelView /\ FirstComplete /\ CarriedExactly
  BY <1>1, <1>3 DEF GaugeView, LabelView, FirstComplete, CarriedExactly
<1>6. QED
  BY <1>2, <1>4, <1>5, Zenon DEF IndInv

\* Every step keeps the invariant.
LEMMA NextInv == IndInv /\ [Next]_vars => IndInv'
<1> SUFFICES ASSUME IndInv, [Next]_vars PROVE IndInv'
  BY Zenon
<1>1. CASE UNCHANGED vars
  <2>1. UNCHANGED <<src, list, labels, gauge, print, fallback, spool, view, faults, last, streak, steady>>
    BY <1>1, Zenon DEF vars, node, caches, history
  <2>2. Shape'
    BY <2>1, Zenon DEF IndInv, Shape
  <2>3. QED
    BY <2>1, <2>2, SpoolKept, ViewKept, Zenon DEF IndInv
<1>2. QED
  BY <1>1, CollectInv, ApplyInv, OtherInv, Zenon DEF Next

\* After as many batches in a row as the refresh interval has, the view has what the batch
\* applied last was collected with (suppressUnchangedLowChurnMetrics, StoreMetrics).
THEOREM AlwaysCaughtUp == Spec => []CaughtUp
<1>1. IndInv => CaughtUp
  <2> SUFFICES ASSUME IndInv PROVE CaughtUp
    BY Zenon
  <2>1. /\ Len(spool) \in Nat /\ streak \in Nat /\ steady \in Nat
        /\ MetricRefresh \in Nat /\ MetricRefresh > 0
    BY RefreshPositive DEF IndInv, Shape
  <2>2. Silent(1, 0) /\ Mute(last[1], 1, 0) /\ 0 \in 0 .. Len(spool)
    BY <2>1 DEF Silent, Mute
  <2>3. streak >= MetricRefresh => view.active = Active(last[1])
    BY <2>1, <2>2 DEF IndInv, GaugeView
  <2>4. steady >= MetricRefresh => view.source = last[1]
    BY <2>1, <2>2 DEF IndInv, LabelView
  <2>5. QED
    BY <2>3, <2>4, Zenon DEF CaughtUp
<1>2. QED
  BY <1>1, InitInv, NextInv, PTL DEF Spec

\* Until something is lost, what is left out of the batches is invisible in the view.
THEOREM AlwaysCarriedExactly == Spec => []CarriedExactly
<1>1. IndInv => CarriedExactly
  BY Zenon DEF IndInv
<1>2. QED
  BY <1>1, InitInv, NextInv, PTL DEF Spec

-----------------------------------------------------------------------------
(* Types.  What RestoreHotState makes of the receipts is a view: the first *)
(* receipt after which it was none would follow one after which it was.    *)

View == [source : Source \cup {"none"}, active : Flag \cup {"none"}, procs : Lists]

\* A set of numbers has a smallest one.
LEMMA Smallest ==
  ASSUME NEW S \in SUBSET Nat, S # {} PROVE \E n \in S : \A m \in S : n <= m
<1>1. \E n \in S : \A m \in S : <<m, n>> \notin OpToRel(<, Nat)
  BY NatLessThanWellFounded, WFMin, Zenon
<1>2. PICK n \in S : \A m \in S : <<m, n>> \notin OpToRel(<, Nat)
  BY <1>1, Zenon
<1>3. \A m \in S : ~(m < n)
  BY <1>2, Zenon DEF OpToRel
<1>4. QED
  BY <1>3

\* g[k] is the view after k receipts of s.
Replays(s, n, g) ==
  g = [k \in 0 .. n |-> IF k = 0 THEN NoView ELSE Store(g[k - 1], s[k])]

\* The receipts can be replayed one after another.
LEMMA ReplayExists == ASSUME NEW s, NEW n \in Nat PROVE \E g : Replays(s, n, g)
<1> DEFINE C == {k \in Nat : ~\E g : Replays(s, k, g)}
<1>1. SUFFICES ASSUME C # {} PROVE FALSE
  BY Zenon
<1>2. PICK k \in C : \A m \in C : k <= m
  <2>1. C \in SUBSET Nat
    BY Zenon
  <2> HIDE DEF C
  <2>2. QED
    BY <1>1, <2>1, Smallest, Zenon
<1>3. k # 0
  <2> DEFINE h == [j \in 0 .. 0 |-> NoView]
  <2>1. Replays(s, 0, h)
    BY DEF Replays
  <2>2. QED
    BY <2>1, Zenon
<1>4. k - 1 \in Nat /\ k - 1 \notin C
  BY <1>2, <1>3
<1>5. PICK g : Replays(s, k - 1, g)
  BY <1>4, Zenon
<1> DEFINE h == [j \in 0 .. k |-> IF j = k THEN Store(g[k - 1], s[k]) ELSE g[j]]
           f == [j \in 0 .. k |-> IF j = 0 THEN NoView ELSE Store(h[j - 1], s[j])]
<1>6. ASSUME NEW j \in 0 .. k PROVE h[j] = f[j]
  <2>1. CASE j = 0
    <3>1. 0 \in 0 .. k - 1 /\ j # k
      BY <1>3, <1>4, <2>1
    <3>2. g[0] = NoView
      BY <1>5, <3>1, Zenon DEF Replays
    <3>3. QED
      BY <2>1, <3>1, <3>2, Zenon
  <2>2. CASE j # 0 /\ j # k
    <3>1. j \in 0 .. k - 1 /\ j - 1 \in 0 .. k /\ j - 1 # k
      BY <1>4, <2>2
    <3>2. g[j] = Store(g[j - 1], s[j])
      BY <1>5, <2>2, <3>1, Zenon DEF Replays
    <3>3. h[j - 1] = g[j - 1] /\ h[j] = g[j]
      BY <2>2, <3>1, Zenon
    <3>4. QED
      BY <2>2, <3>2, <3>3, Zenon
  <2>3. CASE j = k
    <3>1. j # 0 /\ k - 1 \in 0 .. k /\ k - 1 # k
      BY <1>4, <2>3
    <3>2. h[k - 1] = g[k - 1]
      BY <3>1, Zenon
    <3>3. QED
      BY <2>3, <3>1, <3>2, Zenon
  <2>4. QED
    BY <2>1, <2>2, <2>3, Zenon
<1>7. h = f
  BY <1>6, Zenon
<1>8. Replays(s, k, h)
  BY <1>7, Zenon DEF Replays
<1>9. QED
  BY <1>2, <1>8, Zenon

\* A batch turns a view into a view.
LEMMA StoreType == ASSUME NEW v \in View, NEW b \in Batch PROVE Store(v, b) \in View
  BY Zenon DEF View, Batch, Store, Carry

\* Receipts make a view.
LEMMA ReplayType == ASSUME NEW s \in Seq(Batch) PROVE Replay(s) \in View
<1> DEFINE g == CHOOSE h : Replays(s, Len(s), h)
<1>1. Replay(s) = g[Len(s)]
  BY Zenon DEF Replay, Replays
<1>2. Len(s) \in Nat /\ \A k \in 1 .. Len(s) : s[k] \in Batch
  OBVIOUS
<1>3. Replays(s, Len(s), g)
  BY <1>2, ReplayExists, Zenon
<1> HIDE DEF g
<1>4. \A k \in 0 .. Len(s) : g[k] = IF k = 0 THEN NoView ELSE Store(g[k - 1], s[k])
  BY <1>3, Zenon DEF Replays
<1> DEFINE C == {k \in 0 .. Len(s) : g[k] \notin View}
<1>5. SUFFICES ASSUME C # {} PROVE FALSE
  BY <1>1, <1>2
<1>6. PICK k \in C : \A m \in C : k <= m
  <2>1. C \in SUBSET Nat
    BY <1>2
  <2> HIDE DEF C
  <2>2. QED
    BY <1>5, <2>1, Smallest, Zenon
<1>7. k # 0
  BY <1>2, <1>4, NodeViewAssumption DEF NoView, View
<1>8. k \in 1 .. Len(s) /\ k - 1 \in 0 .. Len(s) /\ k - 1 \notin C
  BY <1>2, <1>6, <1>7
<1>9. g[k - 1] \in View /\ s[k] \in Batch
  BY <1>2, <1>8, Zenon
<1>10. g[k] \in View
  BY <1>4, <1>7, <1>8, <1>9, StoreType, Zenon
<1>11. QED
  BY <1>6, <1>10, Zenon

\* What Shape leaves open.
Bounds ==
  /\ print.age <= ListRefresh /\ fallback <= Sampling
  /\ Len(spool) <= MaxSpool /\ view \in View
  /\ receipts \in Seq(Batch) /\ Len(receipts) <= Retained
  /\ faults <= MaxFaults /\ changes \in 0 .. MaxChanges

\* Retention keeps the newest receipts.
LEMMA KeepType ==
  ASSUME NEW s \in Seq(Batch), NEW n \in Nat, n <= Len(s)
  PROVE  LET t == SubSeq(s, Len(s) - n + 1, Len(s))
         IN t \in Seq(Batch) /\ Len(t) = n
<1>1. Len(s) \in Nat /\ \A k \in Len(s) - n + 1 .. Len(s) : s[k] \in Batch
  OBVIOUS
<1>2. QED
  BY <1>1, SubSeqProperties

\* A collection caps the ages and appends one batch.
LEMMA CollectBounds ==
  ASSUME Shape, Bounds, NEW pressed \in BOOLEAN, Collect(pressed), Shape'
  PROVE  Bounds'
<1>0. /\ ListRefresh \in Nat /\ Sampling \in Nat /\ MaxSpool \in Nat /\ MaxFaults \in Nat
  BY NodeViewAssumption, Zenon
<1>1. /\ Len(spool) < MaxSpool /\ spool' = Append(spool, CollectBatch(pressed))
      /\ UNCHANGED <<view, receipts, changes>>
      /\ (pressed => faults < MaxFaults) /\ faults' = IF pressed THEN faults + 1 ELSE faults
  BY Zenon DEF Collect
<1>2. Len(spool') <= MaxSpool
  <2>1. Len(spool') = Len(spool) + 1 /\ Len(spool) \in Nat
    BY <1>1 DEF Shape
  <2>2. QED
    BY <1>0, <1>1, <2>1
<1>3. faults' <= MaxFaults
  BY <1>0, <1>1 DEF Shape, Bounds
<1>4. fallback' <= Sampling
  <2>1. fallback' \in {0, Older(fallback, Sampling)}
    BY Zenon DEF Collect, Remember
  <2>2. QED
    BY <1>0, <2>1, SMTT(30) DEF Older, Shape
<1>5. print'.age <= ListRefresh
  <2>1. \/ print' = [value |-> Sampled(pressed), age |-> 0]
        \/ print' = print
        \/ print' = [print EXCEPT !.age = Older(print.age, ListRefresh)]
    BY Zenon DEF Collect, Remember
  <2>2. print \in [value : Lists, age : Nat] /\ print.age <= ListRefresh
    BY Zenon DEF Shape, Bounds
  <2>3. Older(print.age, ListRefresh) <= ListRefresh
    BY <1>0, <2>2 DEF Older
  <2>4. CASE print' = [print EXCEPT !.age = Older(print.age, ListRefresh)]
    BY <2>2, <2>3, <2>4, Zenon
  <2>5. CASE print' = [value |-> Sampled(pressed), age |-> 0]
    BY <1>0, <2>5
  <2>6. QED
    BY <2>1, <2>2, <2>4, <2>5, Zenon
<1>6. QED
  BY <1>1, <1>2, <1>3, <1>4, <1>5, Zenon DEF Bounds

\* A delivery shortens the spool and leaves as many receipts as retention allows.
LEMMA ApplyBounds ==
  ASSUME Shape, Bounds, NEW i \in 1 .. MaxSpool, Apply(i)
  PROVE  Bounds'
<1>0. /\ MaxSpool \in Nat /\ MaxFaults \in Nat /\ Retained \in Nat
      /\ spool \in Seq(Batch) /\ receipts \in Seq(Batch) /\ i \in 1 .. Len(spool)
  <2>1. spool \in Seq(Batch) /\ receipts \in Seq(Batch) /\ i \in DOMAIN spool
    BY Zenon DEF Apply, Shape, Bounds
  <2>2. QED
    BY <2>1, NodeViewAssumption
<1>1. /\ spool' = SubSeq(spool, i + 1, Len(spool)) /\ view' = Store(view, spool[i])
      /\ receipts' = Keep(receipts \o SubSeq(spool, 1, i))
      /\ UNCHANGED <<print, fallback, changes>>
      /\ (i > 1 => faults < MaxFaults) /\ faults' = IF i > 1 THEN faults + 1 ELSE faults
  BY Zenon DEF Apply, caches
<1>2. Len(spool') <= MaxSpool
  <2>1. Len(spool') = Len(spool) - i /\ Len(spool) \in Nat
    BY <1>0, <1>1, Shift
  <2>2. QED
    BY <1>0, <2>1 DEF Bounds
<1>3. view' \in View
  <2>1. spool[i] \in Batch
    BY <1>0
  <2>2. QED
    BY <1>1, <2>1, StoreType, Zenon DEF Bounds
<1>4. receipts' \in Seq(Batch) /\ Len(receipts') <= Retained
  <2>1. SubSeq(spool, 1, i) \in Seq(Batch)
    <3>1. \A k \in 1 .. i : spool[k] \in Batch
      BY <1>0
    <3>2. QED
      BY <1>0, <3>1, SubSeqProperties
  <2>2. PICK s \in Seq(Batch) : s = receipts \o SubSeq(spool, 1, i)
    BY <1>0, <2>1, ConcatProperties, Zenon
  <2>3. PICK n : n = Younger(Len(s), Retained)
    BY Zenon
  <2>4. n \in Nat /\ n <= Len(s) /\ n <= Retained
    BY <1>0, <2>3 DEF Younger
  <2>5. receipts' = SubSeq(s, Len(s) - n + 1, Len(s))
    BY <1>1, <2>2, <2>3, Zenon DEF Keep
  <2>6. QED
    BY <2>4, <2>5, KeepType, Zenon
<1>5. faults' <= MaxFaults
  BY <1>0, <1>1 DEF Shape, Bounds
<1>6. QED
  BY <1>1, <1>2, <1>3, <1>4, <1>5, Zenon DEF Bounds

\* The faults and the changes of the node.
LEMMA OtherBounds ==
  ASSUME Shape, Bounds,
         CollectorRestart \/ Change \/ Lose \/ ControllerRestart \/ PruneNode
  PROVE  Bounds'
<1>0. /\ MaxFaults \in Nat /\ Retained \in Nat /\ MaxChanges \in Nat /\ MaxSpool \in Nat
      /\ ListRefresh \in Nat /\ Sampling \in Nat
      /\ spool \in Seq(Batch) /\ receipts \in Seq(Batch) /\ faults \in Nat
  BY NodeViewAssumption, Zenon DEF Shape, Bounds
<1>1. CASE CollectorRestart
  BY <1>0, <1>1 DEF CollectorRestart, NoCaches, Absent, Bounds
<1>2. CASE Change
  BY <1>0, <1>2 DEF Change, caches, Bounds
<1>3. CASE Lose
  <2>1. Len(spool') = Len(spool) - 1 /\ Len(spool) \in Nat
    BY <1>0, <1>3, HeadTailProperties DEF Lose
  <2>2. Len(spool') <= MaxSpool
    BY <1>0, <2>1 DEF Bounds
  <2>3. QED
    BY <1>0, <1>3, <2>2 DEF Lose, caches, Bounds
<1>4. CASE ControllerRestart
  <2>1. PICK k \in 0 .. Len(receipts) :
          /\ receipts' = SubSeq(receipts, Len(receipts) - k + 1, Len(receipts))
          /\ view' = Replay(receipts')
    BY <1>4, Zenon DEF ControllerRestart
  <2>2. receipts' \in Seq(Batch) /\ Len(receipts') = k
    BY <1>0, <2>1, KeepType
  <2>3. view' \in View
    BY <2>1, <2>2, ReplayType, Zenon
  <2>4. Len(receipts') <= Retained
    BY <1>0, <2>2 DEF Bounds
  <2>5. QED
    BY <1>0, <1>4, <2>2, <2>3, <2>4 DEF ControllerRestart, caches, Bounds
<1>5. CASE PruneNode
  <2>1. NoView \in View
    BY NodeViewAssumption, Zenon DEF NoView, View
  <2>2. QED
    BY <1>0, <1>5, <2>1 DEF PruneNode, caches, Bounds
<1>6. QED
  BY <1>1, <1>2, <1>3, <1>4, <1>5, Zenon

\* Every variable has its type: ages are capped, the spool and the receipts are bounded, and
\* what a restart replays is a view (RestoreHotState).
THEOREM TypeCorrect == Spec => []TypeOK
<1>1. Init => Bounds
  BY NodeViewAssumption DEF Init, Bounds, Absent, NoView, View
<1>2. IndInv /\ Bounds /\ [Next]_vars => Bounds'
  <2> SUFFICES ASSUME IndInv, Bounds, [Next]_vars PROVE Bounds'
    BY Zenon
  <2>1. Shape /\ Shape'
    BY NextInv, Zenon DEF IndInv
  <2>2. CASE UNCHANGED vars
    BY <2>2, Zenon DEF vars, caches, Bounds
  <2>3. QED
    BY <2>1, <2>2, CollectBounds, ApplyBounds, OtherBounds, Zenon DEF Next
<1>3. IndInv /\ Bounds => TypeOK
  <2> SUFFICES ASSUME Shape, Bounds PROVE TypeOK
    BY Zenon DEF IndInv
  <2>1. /\ MetricRefresh \in Nat /\ ListRefresh \in Nat /\ Sampling \in Nat /\ MaxFaults \in Nat
    BY NodeViewAssumption, Zenon
  <2>2. gauge \in [value : Flag \cup {"none"}, age : 0 .. MetricRefresh]
    BY <2>1 DEF Shape
  <2>3. print \in [value : Lists, age : 0 .. ListRefresh]
    BY <2>1 DEF Shape, Bounds
  <2>4. fallback \in 0 .. Sampling /\ faults \in 0 .. MaxFaults
    BY <2>1 DEF Shape, Bounds
  <2>5. QED
    BY <2>2, <2>3, <2>4, Zenon DEF Shape, Bounds, View, TypeOK
<1>4. QED
  BY <1>1, <1>2, <1>3, InitInv, NextInv, PTL DEF Spec
=============================================================================
