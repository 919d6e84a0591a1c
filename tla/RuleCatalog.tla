---------------------------- MODULE RuleCatalog -----------------------------
(***************************************************************************)
(* The rules of apps/processor/src/rules/rules.ts as pure operators: what  *)
(* each rule answers to an event, given the state of the resource.  An     *)
(* answer names a resource and says that the rule matches, with a          *)
(* severity, or that what it had matched is over.                          *)
(*                                                                         *)
(* There is one container, in one pod of one Deployment on one node; a     *)
(* resource is its scope and whether it is named by its uid.  A reading of *)
(* utilization is 0 below the warning, 1 below the critical threshold;     *)
(* readiness is 1 or 0, restarts are counted since the reading before, and *)
(* -1 is a reading that does not tell.  Confidence is left out.            *)
(***************************************************************************)
EXTENDS Integers

CONSTANTS RestartThreshold, NotReadyDuration, DegradationDuration, Missing

(* Metrics that the rules look at, with the scope of the state they update. *)
ScopeOf ==
  [memory |-> "container", cpu |-> "container", restart |-> "container",
   status |-> "container", containerReady |-> "container", podReady |-> "pod",
   desired |-> "deployment", available |-> "deployment", nodeReady |-> "node"]
Metrics == DOMAIN ScopeOf

(* What a rule that observes a condition watches, and where it reads it. *)
Watches ==
  [HIGH_MEMORY_UTILIZATION |-> [names |-> {"memory"}, scope |-> "container"],
   HIGH_CPU_UTILIZATION    |-> [names |-> {"cpu"}, scope |-> "container"],
   POD_NOT_READY           |-> [names |-> {"podReady"}, scope |-> "pod"],
   DEPLOYMENT_DEGRADED     |-> [names |-> {"desired", "available"}, scope |-> "deployment"],
   NODE_NOT_READY          |-> [names |-> {"nodeReady"}, scope |-> "node"]]

(* Reasons of Kubernetes events that are an anomaly by themselves. *)
Reasons ==
  [FAILED_SCHEDULING  |-> {"FailedScheduling"},
   IMAGE_PULL_FAILURE |-> {"ErrImagePull", "ImagePullBackOff", "FailedPullImage", "InvalidImageName"},
   FAILED_MOUNT       |-> {"FailedMount", "FailedAttachVolume"}]
BackOffs == {"BackOff", "CrashLoopBackOff"}

Observing == DOMAIN Watches
ByReason == DOMAIN Reasons
Classes == Observing \union ByReason \union {"OOM_KILLED", "CRASH_LOOP"}

-----------------------------------------------------------------------------
(* Resources.                                                               *)

Resource(scope, uid) ==
  [scope |-> scope, id |-> IF scope \in {"container", "pod"} /\ uid THEN "uid" ELSE "name"]

ResourceFromState(state) == Resource(state.scope, state.uid)

ResourceFromEvent(event) ==
  Resource(CASE event.object = "Node" -> "node"
             [] event.object = "Deployment" -> "deployment"
             [] OTHER -> "pod",
           event.object = "Pod" /\ event.uid)

IsReason(event, reasons) == event.kind = "kubernetes" /\ event.reason \in reasons
IsMetric(event, names) == event.kind = "metric" /\ event.name \in names

(* state.scope === ..., FALSE when there is no state. *)
InScope(state, scope) == state # Missing /\ state.scope = scope
Running(state) == InScope(state, "container") /\ state.read.status.container = "running"
SinceRestart(state) == state.read.restart

-----------------------------------------------------------------------------
(* Answers.                                                                 *)

Answer(resource, clears, matches, severity) ==
  {a \in {[resource |-> resource, match |-> Missing], [resource |-> resource, match |-> severity]} :
     IF a.match = Missing THEN clears ELSE matches /\ ~clears}

(* The event is one the rule watches, and the state says what it needs. *)
Applies(class, event, state) ==
  /\ IsMetric(event, Watches[class].names)
  /\ InScope(state, Watches[class].scope)
  /\ \A name \in Watches[class].names : state.read[name] \notin {Missing, -1}

Condition(class, read) ==
  CASE class = "HIGH_MEMORY_UTILIZATION" -> read.memory > 0
    [] class = "HIGH_CPU_UTILIZATION" -> read.cpu > 0
    [] class = "POD_NOT_READY" -> read.podReady = 0
    [] class = "DEPLOYMENT_DEGRADED" -> read.available < read.desired
    [] class = "NODE_NOT_READY" -> read.nodeReady = 0

(* How often, or for how long, the condition must have been observed. *)
LongEnough(class, observed) ==
  CASE class \in {"HIGH_MEMORY_UTILIZATION", "HIGH_CPU_UTILIZATION"} -> observed.count >= 2
    [] class \in {"POD_NOT_READY", "NODE_NOT_READY"} -> observed.duration >= NotReadyDuration
    [] class = "DEPLOYMENT_DEGRADED" -> observed.duration >= DegradationDuration

Severity(class, read) ==
  CASE class = "HIGH_MEMORY_UTILIZATION" -> IF read.memory = 2 THEN "CRITICAL" ELSE "WARNING"
    [] class = "HIGH_CPU_UTILIZATION" -> IF read.cpu = 2 THEN "CRITICAL" ELSE "WARNING"
    [] class = "DEPLOYMENT_DEGRADED" -> IF read.available = 0 THEN "CRITICAL" ELSE "HIGH"
    [] class \in {"OOM_KILLED", "NODE_NOT_READY"} -> "CRITICAL"
    [] OTHER -> "HIGH"

(* UtilizationRule and DurationRule. *)
Observed(class, event, state, observed) ==
  IF ~Applies(class, event, state) THEN {}
  ELSE Answer(ResourceFromState(state), ~Condition(class, state.read),
              LongEnough(class, observed), Severity(class, state.read))

(* Mutant of OomInState: the last termination counts for ever. *)
OomInStateForever(state) ==
  /\ InScope(state, "container")
  /\ "OOMKilled" \in {state.read.status.termination, state.read.status.last}

(* The container was killed: the event says so, or the state, unless it runs *)
(* again and has not been restarted between its last two readings.           *)
OomInState(state) ==
  /\ InScope(state, "container")
  /\ "OOMKilled" \in {state.read.status.termination, state.read.status.last}
  /\ ~(Running(state) /\ SinceRestart(state) = 0)

OomResource(event, state) ==
  IF state # Missing THEN ResourceFromState(state)
  ELSE Resource(IF event.container THEN "container" ELSE "pod", ResourceFromEvent(event).id = "uid")

OomKilled(event, state) ==
  LET killed == IsReason(event, {"OOMKilled"}) \/ OomInState(state)
  IN  IF ~killed /\ ~Running(state) THEN {}
      ELSE Answer(OomResource(event, state), ~killed, killed, "CRITICAL")

(* Restarts and a back-off, by an event of late or by the waiting container. *)
CrashLoop(event, state, increases, backoff) ==
  IF ~(InScope(state, "container") /\ IsMetric(event, {"restart", "status"})) THEN {}
  ELSE Answer(ResourceFromState(state),
              Running(state) /\ SinceRestart(state) = 0,
              /\ increases >= RestartThreshold
              /\ backoff \/ state.read.status.reason = "CrashLoopBackOff",
              "HIGH")

(* A reason is an anomaly of the object of the event; a pod that is ready, or *)
(* whose container is and runs, ends those of the pod.                        *)
KubernetesReason(class, event, state) ==
  IF IsReason(event, Reasons[class])
  THEN Answer(ResourceFromEvent(event), FALSE, TRUE, "HIGH")
  ELSE IF \/ InScope(state, "pod") /\ state.read.podReady = 1
          \/ Running(state) /\ state.read.containerReady = 1
       THEN Answer(Resource("pod", state.uid), TRUE, FALSE, "HIGH")
       ELSE {}

Answers(class, event, state, memory) ==
  CASE class \in Observing -> Observed(class, event, state, memory.observed[class])
    [] class \in ByReason -> KubernetesReason(class, event, state)
    [] class = "OOM_KILLED" -> OomKilled(event, state)
    [] class = "CRASH_LOOP" -> CrashLoop(event, state, memory.increases, memory.backoff)
=============================================================================
