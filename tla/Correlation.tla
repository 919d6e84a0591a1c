---------------------------- MODULE Correlation ----------------------------
(***************************************************************************)
(* The pure part of apps/processor/src/correlation: which signals belong   *)
(* to one incident, and what the incident is called, how severe and how    *)
(* certain it is.                                                          *)
(*                                                                         *)
(* A signal is a record of an anomaly: its id, classification, source,     *)
(* severity, confidence (in percent), whether its evidence tells of a      *)
(* restart, and the resource it is about.  `workload' of a resource is the *)
(* Deployment its ownership resolves to, or None; `pod' stands for the uid *)
(* of the pod.                                                             *)
(***************************************************************************)
EXTENDS Integers, Sequences, FiniteSets, FiniteSetsExt

CONSTANT None

Memory == {"HIGH_MEMORY_UTILIZATION", "OOM_KILLED", "MEMORY_USAGE_ANOMALY",
           "MEMORY_GROWTH_ANOMALY"}
Availability == {"CRASH_LOOP", "POD_NOT_READY", "DEPLOYMENT_DEGRADED", "RESTART_RATE_ANOMALY"}
ApplicationHealth == {"ERROR_RATE_ANOMALY", "LATENCY_ANOMALY"}
Saturation == {"HIGH_CPU_UTILIZATION", "CPU_USAGE_ANOMALY", "NETWORK_RX_ANOMALY",
               "NETWORK_TX_ANOMALY"}
DependencyLogs == {"DATABASE_CONNECTIVITY", "DEPENDENCY_TIMEOUT", "NETWORK_FAILURE",
                   "STORAGE_FAILURE"}
AccessLogs == {"AUTHENTICATION_FAILURE", "AUTHORIZATION_FAILURE", "RATE_LIMITING"}

Families ==
  {Memory, Availability, ApplicationHealth, Saturation, DependencyLogs, AccessLogs}
OperationalImpact == Availability \union ApplicationHealth

Rank == [INFO |-> 0, WARNING |-> 1, HIGH |-> 2, CRITICAL |-> 3]
Worse(s, t) == IF Rank[s] < Rank[t] THEN t ELSE s

Classes(signals) == {s.classification : s \in signals}
FromLog(signal) == signal.source = "LOG_CLASSIFIER"
HasAnchor(signals) == \E s \in signals : FromLog(s)
HasImpact(signals) == Classes(signals) \intersect OperationalImpact # {}

-----------------------------------------------------------------------------
(* What belongs together.                                                   *)

(* Either of the two classifications is in one set, the other in the other. *)
Between(c, classes, left, right) ==
  \/ c \in left /\ classes \intersect right # {}
  \/ c \in right /\ classes \intersect left # {}

Related(signals, signal) ==
  LET c == signal.classification
      classes == Classes(signals)
  IN \/ c \in classes
     \/ HasAnchor(signals) /\ c \in OperationalImpact
     \/ FromLog(signal) /\ HasImpact(signals)
     \/ \E f \in Families : c \in f /\ classes \intersect f # {}
     \/ Between(c, classes, ApplicationHealth, Saturation)
     \/ Between(c, classes, {"POD_NOT_READY"}, Memory)
     \/ Between(c, classes, DependencyLogs, ApplicationHealth \union {"POD_NOT_READY"})
     \/ Between(c, classes, {"CONFIGURATION_ERROR"}, {"CRASH_LOOP", "POD_NOT_READY"})
     \/ Between(c, classes, {"RESOURCE_EXHAUSTION"}, Memory)
     \/ Between(c, classes, {"NODE_NOT_READY"}, {"POD_NOT_READY"})

First(a, b) == IF a # None THEN a ELSE b

(* primaryResourceFor: the node, the Deployment, or else the pod itself. *)
CorrelationResource(r) ==
  [cluster |-> r.cluster,
   namespace |-> IF r.scope = "node" THEN None ELSE r.namespace,
   scope |-> IF r.scope = "node" THEN "node" ELSE IF r.workload # None THEN "deployment" ELSE "pod",
   identity |-> IF r.scope = "node" THEN r.node
                ELSE IF r.workload # None THEN First(r.workloadUid, r.workload) ELSE r.pod,
   node |-> IF r.scope # "node" /\ r.workload # None THEN None ELSE r.node]

CorrelationKey(primary) ==
  <<primary.cluster, primary.namespace, primary.scope, primary.identity>>

(* classify(): the first line one of whose classifications is among those of  *)
(* the signals.                                                               *)
Verdicts ==
  <<<<{"NODE_NOT_READY"}, "NODE_FAILURE">>,
    <<{"OOM_KILLED", "HIGH_MEMORY_UTILIZATION", "exhausted"}, "MEMORY_EXHAUSTION">>,
    <<DependencyLogs, "APPLICATION_DEPENDENCY_FAILURE">>,
    <<{"CONFIGURATION_ERROR", "STARTUP_FAILURE", "IMAGE_PULL_FAILURE", "FAILED_MOUNT"},
      "WORKLOAD_CONFIGURATION_FAILURE">>,
    <<{"APPLICATION_EXCEPTION"} \union AccessLogs, "APPLICATION_DEGRADATION">>,
    <<{"DEPLOYMENT_DEGRADED"}, "DEPLOYMENT_DEGRADATION">>,
    <<{"CRASH_LOOP", "POD_NOT_READY"}, "WORKLOAD_CRASHING">>,
    <<{"FAILED_SCHEDULING"}, "SCHEDULING_FAILURE">>,
    <<ApplicationHealth, "APPLICATION_DEGRADATION">>>>

(* Exhausted resources are memory when the use of memory is abnormal too. *)
Indications(signals) ==
  Classes(signals) \union
    (IF /\ "RESOURCE_EXHAUSTION" \in Classes(signals)
        /\ Classes(signals) \intersect {"MEMORY_USAGE_ANOMALY", "MEMORY_GROWTH_ANOMALY"} # {}
     THEN {"exhausted"} ELSE {})

Classification(signals) ==
  LET told == {k \in DOMAIN Verdicts : Verdicts[k][1] \intersect Indications(signals) # {}}
  IN IF told = {} THEN "RESOURCE_SATURATION" ELSE Verdicts[Min(told)][2]

-----------------------------------------------------------------------------
(* How severe and how certain it is.                                        *)

PodsOf(signals) == {s.resource.pod : s \in signals} \ {None}
NotReadyPods(signals) == PodsOf({s \in signals : s.classification = "POD_NOT_READY"})

Worst(signals) ==
  CHOOSE v \in {s.severity : s \in signals} : \A s \in signals : Rank[s.severity] <= Rank[v]

(* deriveSeverity(): the worst of the signals, or more when several of them *)
(* are one failure the users see.                                           *)
Severity(signals) ==
  LET kind == Classification(signals)
      symptoms == {s \in signals : s.classification \in
                     DependencyLogs \union ApplicationHealth \union {"POD_NOT_READY"}}
  IN IF kind \in {"NODE_FAILURE", "DEPLOYMENT_DEGRADATION"} /\ Cardinality(NotReadyPods(signals)) > 1
     THEN "CRITICAL"
     ELSE IF \/ kind = "APPLICATION_DEGRADATION" /\ ApplicationHealth \subseteq Classes(signals)
             \/ kind = "APPLICATION_DEPENDENCY_FAILURE" /\ Cardinality(symptoms) >= 3
     THEN Worse(Worst(signals), "HIGH")
     ELSE Worst(signals)

MemoryConfidenceHighFirst(signals) ==
  LET has(c) == c \in Classes(signals)
  IN CASE has("HIGH_MEMORY_UTILIZATION") -> 45
       [] ~has("HIGH_MEMORY_UTILIZATION") -> 80

MemoryConfidence(signals) ==
  LET has(c) == c \in Classes(signals)
      high == has("HIGH_MEMORY_UTILIZATION")
      oom == has("OOM_KILLED")
      statistical == has("MEMORY_GROWTH_ANOMALY") \/ has("MEMORY_USAGE_ANOMALY")
      restarted == \E s \in signals : s.restarted
  IN CASE high /\ oom -> IF restarted THEN 98 ELSE IF statistical THEN 95 ELSE 90
       [] oom /\ ~high -> IF statistical THEN 85 ELSE 80
       [] ~oom -> IF high /\ statistical THEN 60 ELSE 45

(* The most certain of the signals, of which a part counts. *)
Weighed(signals, part) ==
  Max({50} \union {(s.confidence * part) \div 100 : s \in signals})

DependencyConfidence(signals) ==
  LET corroboration == Classes(signals) \intersect (ApplicationHealth \union {"POD_NOT_READY"})
  IN Min({95, Weighed({s \in signals : s.classification \in DependencyLogs}, 70)
              + 12 * Cardinality(corroboration)})

Several(pods, many, few) == IF Cardinality(pods) > 1 THEN many ELSE few

(* confidence(), in percent. *)
Confidence(signals) ==
  LET kind == Classification(signals)
      has(c) == c \in Classes(signals)
      saturated == Classes(signals) \intersect Saturation # {}
  IN CASE kind = "MEMORY_EXHAUSTION" -> MemoryConfidence(signals)
       [] kind = "APPLICATION_DEGRADATION" ->
            (IF ApplicationHealth \subseteq Classes(signals) THEN 85 ELSE 60)
              + (IF ~saturated THEN 0 ELSE IF ApplicationHealth \subseteq Classes(signals) THEN 5 ELSE 10)
       [] kind = "APPLICATION_DEPENDENCY_FAILURE" -> DependencyConfidence(signals)
       [] kind = "WORKLOAD_CRASHING" ->
            IF has("CRASH_LOOP") THEN IF has("POD_NOT_READY") THEN 92 ELSE 75
            ELSE Several(NotReadyPods(signals), 75, 55)
       [] kind = "DEPLOYMENT_DEGRADATION" -> Several(NotReadyPods(signals), 95, 80)
       [] kind = "NODE_FAILURE" -> Several(NotReadyPods(signals), 97, 85)
       [] kind = "WORKLOAD_CONFIGURATION_FAILURE" -> Several(PodsOf(signals), 95, 80)
       [] kind = "SCHEDULING_FAILURE" -> 80
       [] OTHER -> Weighed(signals, 75)

=============================================================================
