--------------------------- MODULE BaselineHistory ---------------------------
(***************************************************************************)
(* What the baseline engine reads of the tables of TelemetryHistory        *)
(* (packages/clickhouse/src/history.ts) and makes of it                    *)
(* (packages/baselines/src/engine.ts): the workloads that reported, the    *)
(* stretches in which one was disrupted, and the summary of a metric over  *)
(* the rest.                                                               *)
(*                                                                         *)
(* The reasons that mark a disruption are the warnings. A summary is what  *)
(* it was computed from: sampleCount and the values. Units, seasons, the   *)
(* ratio and error-rate shapes and maxSamples are left out.                *)
(***************************************************************************)
EXTENDS TelemetryHistory

CONSTANTS
  BaselineWindow,   \* length of the window a baseline is computed over
  Discovery,        \* length of the window a workload must have reported in
  Padding,          \* disruptionPaddingMs
  MaxSlots,         \* the LIMIT of slots a baseline reads (200)
  MinimumSamples, MaxRanges,  \* minimumSamples, the limit of mergeRanges
  IncidentWindows   \* windows of serious incidents the caller may supply

ASSUME BaselineAssumption ==
  /\ {BaselineWindow, Discovery, Padding, MaxSlots, MinimumSamples, MaxRanges} \subseteq Nat \ {0}
  /\ IsFiniteSet(IncidentWindows)
  /\ \A w \in IncidentWindows :
       w = [start |-> w.start, end |-> w.end] /\ {w.start, w.end} \subseteq Int

WindowEnding(end, length) == [start |-> end - length, end |-> end]
During(row, window) == Column(row).time >= window.start /\ Column(row).time < window.end

\* Workloads that reported one of the metrics recently.
BaselineTargets(end) ==
  {[cluster |-> Column(row).cluster, workload |-> Column(row).workload] :
     row \in {r \in Rows : /\ Column(r).table = "metrics"
                           /\ During(r, WindowEnding(end, Discovery))
                           /\ Column(r).workload # ""}}

OfTarget(row, target) ==
  Column(row).cluster = target.cluster /\ Column(row).workload = target.workload

\* GROUP BY slots of `Padding`, ORDER BY the start of their range, LIMIT: the
\* ranges begin in the order of the slots.
FirstSlots(times) ==
  LET slots == {t \div Padding : t \in times}
  IN  {n \in slots : Cardinality({m \in slots : m < n}) < MaxSlots}

\* One padded range for each of the first slots in which there was a warning.
DisruptionWindows(target, window) ==
  LET times == {Column(r).time : r \in
                  {x \in Rows : /\ Column(x).table = "events"
                                /\ Column(x).label = "Warning"
                                /\ During(x, window) /\ OfTarget(x, target)}}
      Slot(n) == {t \in times : t \div Padding = n}
  IN  {[start |-> Min(Slot(n)) - Padding, end |-> Max(Slot(n)) + Padding] :
         n \in FirstSlots(times)}

\* Mutant of Extend: the last range to begin decides where they end.
ExtendToLast(merged, range) ==
  LET last == merged[Len(merged)]
  IN  IF merged # <<>> /\ range.start <= last.end
      THEN [merged EXCEPT ![Len(merged)].end = range.end]
      ELSE Append(merged, range)

Extend(merged, range) ==
  LET last == merged[Len(merged)]
  IN  IF merged # <<>> /\ range.start <= last.end
      THEN [merged EXCEPT ![Len(merged)].end = Max2(@, range.end)]
      ELSE Append(merged, range)

\* The code orders by the start alone; ranges that begin together merge to the same
\* one either way.
BeginsEarlier(a, b) == a.start < b.start \/ (a.start = b.start /\ a.end < b.end)

\* Overlapping ranges become one; the earliest are kept.
MergeRanges(ranges) ==
  LET ordered == Sorted({r \in ranges : r.end > r.start}, BeginsEarlier)
      merged == FoldLeft(Extend, <<>>, ordered)
  IN  {merged[i] : i \in 1..Min2(MaxRanges, Len(merged))}

\* What a baseline leaves out: incidents, which the caller supplies, and disruptions.
Exclusions(target, window, incidents) ==
  MergeRanges(incidents \union DisruptionWindows(target, window))

\* The rows of a gauge that a summary reads. No LIMIT 1 BY event_id here.
Summarized(target, metric, window, excluded) ==
  {row \in Rows : /\ Column(row).table = "metrics"
                  /\ Column(row).label = metric
                  /\ During(row, window) /\ OfTarget(row, target)
                  /\ \A range \in excluded : ~During(row, range)}

\* refresh() and computeOne(): the baseline of one target and metric.
Baseline(target, metric, incidents) ==
  LET window == WindowEnding(now, BaselineWindow)
      excluded == Exclusions(target, window, incidents)
      rows == Summarized(target, metric, window, excluded)
  IN  [status |-> IF Cardinality(rows) >= MinimumSamples THEN "READY"
                  ELSE "BASELINE_NOT_READY",
       sampleCount |-> Cardinality(rows), rows |-> rows,
       excludedRanges |-> Cardinality(excluded)]

-----------------------------------------------------------------------------
(* Properties *)

\* "Before summarizing, the engine subtracts periods where the workload was
\* demonstrably unhealthy" (engine.ts:70-72): no sample of an incident, or within
\* the padding of a warning of its window, is part of a baseline, as long as the
\* ranges are no more than mergeRanges keeps, and for warnings that fewer slots
\* with a warning precede than the query reads.
BaselineAvoidsDisruption ==
  reading.phase = "idle" =>
    \A target \in BaselineTargets(now) :
      \A incidents \in SUBSET IncidentWindows :
        LET window == WindowEnding(now, BaselineWindow)
            baseline == Baseline(target, "memory", incidents)
            warnings == {e \in Ids : /\ copies[e] > 0
                                     /\ Records[e].table = "events"
                                     /\ Records[e].label = "Warning"
                                     /\ Records[e].cluster = target.cluster
                                     /\ Records[e].workload = target.workload
                                     /\ During(<<e, 1>>, window)}
            slots == {Records[e].time \div Padding : e \in warnings}
            Preceding(w) == {n \in slots : n < Records[w].time \div Padding}
        IN  baseline.excludedRanges < MaxRanges =>
              \A row \in baseline.rows :
                /\ \A range \in incidents : ~During(row, range)
                /\ \A w \in warnings :
                     Cardinality(Preceding(w)) < MaxSlots =>
                       \/ Column(row).time < Records[w].time - Padding
                       \/ Column(row).time >= Records[w].time + Padding

=============================================================================
