------------------------------ MODULE Detection -----------------------------
(***************************************************************************)
(* The detectors of apps/processor that judge an event by its past: the    *)
(* statistical detector, which compares a window of samples with the       *)
(* baseline of the workload, and the log classifier, which counts the logs *)
(* of a pattern.  With them the baselines they read: the refresh cycle of  *)
(* apps/storage that writes the rows, and the cache of the provider.       *)
(*                                                                         *)
(* The two share no state: all events of a behaviour go to one of them.    *)
(* Events come one at a time and are delivered again until they are        *)
(* completed.  `mem' is the detector's memory, of which `snapshot' is the  *)
(* copy in Redis; `pattern' and `logged' are the aggregate of the one log  *)
(* pattern and the keys of the logs counted, also in Redis, which a        *)
(* rollback does not touch.  `told' is what the incidents were told last   *)
(* of each signal.  Times of events are theirs, `now' is the wall clock.   *)
(***************************************************************************)
EXTENDS Integers, Sequences, FiniteSets, FiniteSetsExt

CONSTANTS
  Pods,
  Levels,             \* values a sample may have
  Trigger, Resolve,   \* scores that are abnormal, and that are normal again
  Window,             \* time a sample stays in its window, and a log in its aggregate
  MinSamples,         \* samples before anything is compared
  MinConsecutive,     \* abnormal evaluations before an anomaly opens
  ResolveConsecutive, \* normal evaluations before it resolves
  Cooldown,           \* time a signal stays quiet after that
  Ttl, FailureTtl,    \* time a baseline is cached, and that a failed look-up is
  StaleAfter,         \* age at which a baseline is removed
  Repeated,           \* logs of a pattern that make an anomaly of it
  MaxEvents, MaxTime, MaxLag, MaxFaults, MaxCycles,
  None

(* A sample or a log, and what a detector keeps. *)
Samples == [n : Nat, pod : Pods, level : Levels, time : Nat]
SignalStates == [abnormal : Nat, normal : Nat, anomaly : Nat \union {None}, until : Nat]
Memories == [windows : [Pods -> SUBSET Samples], signals : [Pods -> SignalStates],
             seen : SUBSET Samples]
Aggregates == [count : Nat, first : Nat, last : Nat, pods : SUBSET Pods]

ASSUME DetectionAssumption ==
  /\ Levels \subseteq Nat /\ 0 \in Levels
  /\ Trigger \in Nat /\ Resolve \in Nat /\ Resolve <= Trigger /\ Window \in Nat
  /\ MinSamples \in Nat /\ MinSamples >= 2
  /\ MinConsecutive \in Nat \ {0} /\ ResolveConsecutive \in Nat \ {0} /\ Cooldown \in Nat
  /\ Ttl \in Nat /\ FailureTtl \in Nat /\ FailureTtl <= Ttl /\ StaleAfter \in Nat
  /\ Repeated \in Nat /\ MaxLag \in Nat
  /\ "pattern" \notin Pods
  /\ None \notin Nat \union Pods \union Samples \union Memories \union Aggregates

VARIABLES now, source, due, count, mem, snapshot, pattern, logged, attempt, told, stored, cache,
          refresh, faults, readyAt, verdicts, split

detector == <<mem, snapshot>>
logs == <<pattern, logged>>
baselines == <<stored, cache, refresh>>
history == <<readyAt, verdicts, split>>
vars == <<now, source, due, count, detector, logs, attempt, told, baselines, faults, history>>

Quiet == [abnormal |-> 0, normal |-> 0, anomaly |-> None, until |-> 0]
Fresh == [windows |-> [p \in Pods |-> {}], signals |-> [p \in Pods |-> Quiet], seen |-> {}]
Waiting == [phase |-> "idle", out |-> <<>>]
Nothing == [status |-> "NONE", id |-> None, at |-> 0]
Signals == Pods \union {"pattern"}

Init ==
  /\ now = 0 /\ source \in {"log", "usage"} /\ due = None /\ count = 0
  /\ mem = None /\ snapshot = Fresh
  /\ pattern = None /\ logged = {}
  /\ attempt = Waiting
  /\ told = [s \in Signals |-> Nothing]
  /\ stored = [ready |-> TRUE, at |-> 0]
  /\ cache = [expires |-> 0, ready |-> FALSE]
  /\ refresh = [phase |-> "idle", cycles |-> 0]
  /\ faults = 0
  /\ readyAt = -1 /\ verdicts = {} /\ split = FALSE

Ready(row) == row # None /\ row.ready
LastReady == IF Ready(stored) THEN now ELSE readyAt

-----------------------------------------------------------------------------
(* Baselines.                                                               *)

LookupsForever ==
  IF cache.expires > 0 THEN {cache}
  ELSE {[expires |-> now + Ttl, ready |-> Ready(stored)]}

(* CachedBaselineProvider.forWorkload: what is cached and not expired, or     *)
(* what is read; when the read fails, nothing is READY for a short while.     *)
Lookups ==
  IF cache.expires > now THEN {cache}
  ELSE {[expires |-> now + Ttl, ready |-> Ready(stored)]}

FailedLookup == [expires |-> now + FailureTtl, ready |-> FALSE]

(* BaselineRefreshService.refresh: one cycle at a time; the rows computed     *)
(* from history are saved, then those not refreshed for long are removed.  A  *)
(* cycle that fails before it saves changes nothing.                          *)
RefreshSaves ==
  /\ refresh.phase = "idle" /\ refresh.cycles < MaxCycles
  /\ \E ready \in BOOLEAN : stored' = [ready |-> ready, at |-> now]
  /\ refresh' = [phase |-> "saved", cycles |-> refresh.cycles + 1]
  /\ UNCHANGED cache

(* The workload that no longer reports is not among the targets. *)
RefreshSkips ==
  /\ refresh.phase = "idle" /\ refresh.cycles < MaxCycles
  /\ refresh' = [phase |-> "saved", cycles |-> refresh.cycles + 1]
  /\ UNCHANGED <<stored, cache>>

(* A cycle that fails after the rows are saved removes none. *)
RefreshFails ==
  /\ refresh.phase = "saved"
  /\ refresh' = [refresh EXCEPT !.phase = "idle"]
  /\ UNCHANGED <<stored, cache>>

DeleteStale ==
  /\ refresh.phase = "saved"
  /\ stored' = IF stored # None THEN IF stored.at < now - StaleAfter THEN None ELSE stored
               ELSE None
  /\ refresh' = [refresh EXCEPT !.phase = "idle"]
  /\ UNCHANGED cache

(* Of the processor, only JudgeSampleAnew and Receive read the clock or a baseline: both *)
(* move while no attempt is half done, where all their orders with them occur, *)
(* and until the last event is completed.                                      *)
Between == attempt.phase = "idle" /\ (due = None => count < MaxEvents)

(* Logs are judged without a baseline. *)
Refresh ==
  /\ Between /\ source = "usage"
  /\ RefreshSaves \/ RefreshSkips \/ DeleteStale \/ RefreshFails
  /\ readyAt' = LastReady
  /\ UNCHANGED <<now, source, due, count, detector, logs, attempt, told, faults, verdicts, split>>

Tick ==
  /\ Between /\ now < MaxTime
  /\ now' = now + 1
  /\ readyAt' = LastReady
  /\ UNCHANGED <<source, due, count, detector, logs, attempt, told, baselines, faults, verdicts, split>>

-----------------------------------------------------------------------------
(* The statistical detector.                                                *)

(* InMemoryStatisticalDetector.record: the window ends at the sample itself.  *)
Recorded(window, e) ==
  {x \in window \union {e} : x.time >= e.time - Window}

Sum(window) == MapThenSumSet(LAMBDA x : x.level, window)

(* The mean of the window in deviations of a baseline of mean 0 and spread 1. *)
Abnormal(window) == Sum(window) >= Trigger * Cardinality(window)
Recovered(window) == Sum(window) < Resolve * Cardinality(window)

Counted(signal, window) ==
  IF Abnormal(window) THEN [signal EXCEPT !.abnormal = @ + 1, !.normal = 0]
  ELSE IF Recovered(window) THEN [signal EXCEPT !.normal = @ + 1, !.abnormal = 0]
  ELSE signal

Resolved(e) == [Quiet EXCEPT !.until = e.time + Cooldown]

(* advance(): the signal that follows, and what is emitted. *)
Advance(signal, window, e) ==
  LET s == Counted(signal, window)
      is(status, id) == <<[signal |-> e.pod, status |-> status, id |-> id, at |-> e.time]>>
  IN CASE s.anomaly # None /\ Abnormal(window) -> <<s, is("ACTIVE", s.anomaly)>>
       [] s.anomaly # None /\ Recovered(window) /\ s.normal >= ResolveConsecutive ->
            <<Resolved(e), is("RESOLVED", s.anomaly)>>
       [] s.anomaly = None /\ Abnormal(window) /\ s.abnormal >= MinConsecutive
            /\ e.time >= s.until ->
            <<[s EXCEPT !.anomaly = e.n], is("OPEN", e.n)>>
       [] OTHER -> <<s, <<>>>>

(* prune(): ids are forgotten from the oldest to the first that is recent. *)
Pruned(seen, e) ==
  {x \in seen : \E y \in seen : y.n <= x.n /\ y.time >= e.time - Window}

(* detect(): the memory that follows, and what is emitted. *)
Detect(memory, e, ready) ==
  LET window == Recorded(memory.windows[e.pod], e)
      compared == ready /\ Cardinality(window) >= MinSamples
      advanced == IF compared THEN Advance(memory.signals[e.pod], window, e)
                  ELSE <<memory.signals[e.pod], <<>>>>
  IN [memory |-> [windows |-> [memory.windows EXCEPT ![e.pod] = window],
                  signals |-> [memory.signals EXCEPT ![e.pod] = advanced[1]],
                  seen |-> Pruned(memory.seen \union {e}, e)],
      out |-> advanced[2]]

-----------------------------------------------------------------------------
(* The log classifier.                                                      *)

AddsAlways(e) == 1

Adds(e) == IF e.n \in logged THEN 0 ELSE 1

(* RedisLogClassificationRepository.save: one script.  A log outside the      *)
(* window of the aggregate begins another; a log seen before adds nothing.    *)
Aggregated(e) ==
  LET continues == IF pattern = None THEN FALSE
                   ELSE e.time \in pattern.last - Window .. pattern.last + Window
      base == IF continues THEN pattern
              ELSE [count |-> 0, first |-> e.time, last |-> e.time, pods |-> {}]
  IN [count |-> base.count + Adds(e),
      first |-> Min({base.first, e.time}), last |-> Max({base.last, e.time}),
      pods |-> base.pods \union {e.pod}]

(* The score of an actionable classification: repeated, or of several pods. *)
Scored(aggregate) == aggregate.count >= Repeated \/ Cardinality(aggregate.pods) > 1

(* toAnomaly(): the id comes from the first log of the aggregate. *)
Classified(aggregate, e) ==
  IF ~Scored(aggregate) THEN <<>>
  ELSE <<[signal |-> "pattern", id |-> aggregate.first, at |-> e.time,
          status |-> IF aggregate.count = 1 THEN "OPEN" ELSE "ACTIVE"]>>

-----------------------------------------------------------------------------
(* TelemetryConsumer.process, as far as the detectors take part in it.      *)

Receive ==
  /\ due = None /\ count < MaxEvents
  /\ count' = count + 1
  /\ \E pod \in Pods, level \in Levels, lag \in 0..MaxLag :
       /\ lag <= now /\ (source = "log" => level = 0)
       /\ due' = [n |-> count + 1, pod |-> pod, level |-> level,
                  time |-> now - lag]
  /\ UNCHANGED <<now, source, detector, logs, attempt, told, baselines, faults, history>>

Memory == IF mem = None THEN snapshot ELSE mem

(* RedisStatisticalDetector.detect(): reads its copy, and a baseline unless    *)
(* the sample was seen.                                                        *)
JudgeSample ==
  /\ due # None /\ source = "usage" /\ attempt.phase = "idle"
  /\ mem' = Memory
  /\ due \in Memory.seen
  /\ attempt' = [phase |-> "judged", out |-> <<>>]
  /\ UNCHANGED <<now, source, due, count, snapshot, logs, told, baselines, faults, history>>

JudgeSampleAnew ==
  /\ due # None /\ source = "usage" /\ attempt.phase = "idle"
  /\ due \notin Memory.seen
  /\ \E looked \in Lookups \union (IF faults < MaxFaults /\ cache.expires <= now
                                 THEN {FailedLookup} ELSE {}) :
       LET result == Detect(Memory, due, looked.ready)
       IN /\ cache' = looked
          /\ faults' = IF looked \in Lookups THEN faults ELSE faults + 1
          /\ mem' = result.memory
          /\ attempt' = [phase |-> "judged", out |-> result.out]
          /\ verdicts' = verdicts \union {looked.ready}
          /\ split' = (split \/ \E v \in verdicts : v # looked.ready)
  /\ UNCHANGED <<now, source, due, count, snapshot, logs, told, stored, refresh, readyAt>>

(* StagedLogClassifier.classify().                                             *)
Classify ==
  /\ due # None /\ source = "log" /\ attempt.phase = "idle"
  /\ pattern' = Aggregated(due)
  /\ logged' = logged \union {due.n}
  /\ attempt' = [phase |-> "judged", out |-> Classified(Aggregated(due), due)]
  /\ UNCHANGED <<now, source, due, count, detector, told, baselines, faults, history>>

(* Redis does not answer: the event is processed without its detector.         *)
EnricherFails ==
  /\ due # None /\ attempt.phase = "idle"
  /\ source = "log" \/ mem = None
  /\ faults < MaxFaults
  /\ faults' = faults + 1
  /\ attempt' = [phase |-> "judged", out |-> <<>>]
  /\ split' = (split \/ (source = "usage" /\ verdicts # {} /\ due \notin snapshot.seen))
  /\ UNCHANGED <<now, source, due, count, detector, logs, told, baselines, readyAt, verdicts>>

(* What is emitted is correlated with the incidents. *)
Correlate ==
  /\ attempt.phase = "judged" /\ attempt.out # <<>>
  /\ LET a == Head(attempt.out)
     IN told' = [told EXCEPT ![a.signal] = [status |-> a.status, id |-> a.id, at |-> a.at]]
  /\ attempt' = [attempt EXCEPT !.out = Tail(@)]
  /\ UNCHANGED <<now, source, due, count, detector, logs, baselines, faults, history>>

Commit ==
  /\ attempt.phase = "judged" /\ attempt.out = <<>>
  /\ snapshot' = Memory
  /\ attempt' = [attempt EXCEPT !.phase = "committed"]
  /\ UNCHANGED <<now, source, due, count, mem, logs, told, baselines, faults, history>>

Complete ==
  /\ attempt.phase = "committed"
  /\ due' = None
  /\ attempt' = Waiting
  /\ verdicts' = {}
  /\ UNCHANGED <<now, source, count, detector, logs, told, baselines, faults, readyAt, split>>

RollbackKeepsMemory ==
  /\ attempt.phase # "idle" /\ faults < MaxFaults
  /\ faults' = faults + 1
  /\ attempt' = Waiting
  /\ UNCHANGED <<now, source, due, count, detector, logs, told, baselines, history>>

(* A step fails: the detector reads its copy back, the event comes again. *)
Rollback ==
  /\ attempt.phase # "idle" /\ faults < MaxFaults
  /\ faults' = faults + 1
  /\ mem' = snapshot
  /\ attempt' = Waiting
  /\ UNCHANGED <<now, source, due, count, snapshot, logs, told, baselines, history>>

Crash ==
  /\ faults < MaxFaults
  /\ faults' = faults + 1
  /\ mem' = None
  /\ attempt' = Waiting
  /\ cache' = [expires |-> 0, ready |-> FALSE]
  /\ UNCHANGED <<now, source, due, count, snapshot, logs, told, stored, refresh, history>>

Next ==
  \/ Tick \/ Refresh
  \/ Receive \/ JudgeSample \/ JudgeSampleAnew \/ Classify \/ EnricherFails \/ Correlate \/ Commit \/ Complete \/ Rollback \/ Crash

Spec == Init /\ [][Next]_vars

-----------------------------------------------------------------------------
(* No anomaly opens on a baseline that has been gone, or was no longer READY, *)
(* for the time a look-up may be cached.                                      *)
JudgedByRecentBaseline ==
  [][\A p \in Pods :
       (/\ JudgeSampleAnew
        /\ Memory.signals[p].anomaly = None /\ mem'.signals[p].anomaly # None) =>
         LastReady >= 0 /\ now - LastReady < Max({Ttl, 1})]_vars

(* When every event is completed, the incidents hold a signal's anomaly open  *)
(* if and only if the detector does: it will be resolved.  The exception is an *)
(* event judged by a baseline, cut off before that was committed, and then    *)
(* judged by another baseline or let pass without the detector.               *)
ToldIsKnown ==
  due = None /\ ~split =>
    \A p \in Pods :
      IF told[p].status \in {"OPEN", "ACTIVE"} THEN Memory.signals[p].anomaly = told[p].id
      ELSE Memory.signals[p].anomaly = None

(* A log counts once in the aggregate of its pattern, however often it is     *)
(* delivered, and an aggregate is of one log at least.                        *)
EachLogCountsOnce ==
  pattern # None => 1 <= pattern.count /\ pattern.count <= Cardinality(logged)

=============================================================================
