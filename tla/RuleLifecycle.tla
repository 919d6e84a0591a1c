--------------------------- MODULE RuleLifecycle ---------------------------
(***************************************************************************)
(* The rule engine of RuleEngine fed in any order and any number of times: *)
(* what a queue that redelivers, and collectors that reorder, can make of  *)
(* one stream of telemetry between two commits.                            *)
(***************************************************************************)
EXTENDS RuleEngine, FiniteSets

VARIABLES
  memory,   \* the engine's memory
  status    \* [AnomalyIds -> the last status emitted, or "none"]

vars == <<memory, status>>

Init ==
  /\ memory = EmptyMemory
  /\ status = [a \in AnomalyIds |-> "none"]

\* The processor correlates what evaluate() emits, in the order of emission.
Feed(e) ==
  LET result == Evaluate(memory, e)
      told == {result.emitted[i] : i \in DOMAIN result.emitted}
  IN  /\ memory' = result.memory
      /\ status' = [a \in AnomalyIds |->
           IF \E o \in told : o.id = a
           THEN (CHOOSE o \in told : o.id = a).status
           ELSE status[a]]

Next == \E e \in Entries : Telemetry[e].relevant /\ Feed(e)

Spec == Init /\ [][Next]_vars

-----------------------------------------------------------------------------
(* Properties *)

Showing(S, r, signal) == {e \in S : Telemetry[e].signal[r] = signal}

\* "Utilization rules require two high samples" and "readiness rules use
\* configured event-time durations" (README.md:290-292): when an anomaly opens,
\* enough distinct samples showed the condition, for long enough, and none of
\* the samples in between showed health. Redelivered samples do not count twice.
HeldThroughout ==
  [][\A a \in AnomalyIds : status[a] # "OPEN" /\ status'[a] = "OPEN" =>
       \E start \in Times :
         LET high == {e \in Showing(memory'.seen, a[1], "high") :
                        Telemetry[e].time \in start..a[2]}
         IN  /\ Cardinality(high) >= ObservationsNeeded[a[1]]
             /\ \E e \in high : Telemetry[e].time + DurationNeeded[a[1]] <= a[2]
             /\ \A e \in Showing(memory'.seen, a[1], "normal") :
                  Telemetry[e].time \notin (start + 1)..(a[2] - 1)]_vars
=============================================================================
