--------------------------- MODULE FailureEpisodes ---------------------------
(***************************************************************************)
(* What the rules make of a failure and of its end: apps/processor/src/    *)
(* rules with the readings of resource-state/in-memory-resource-state.ts.     *)
(*                                                                         *)
(* `world' is what is wrong with the container, its pod, its Deployment    *)
(* and its node.  Metrics report it one by one, so that the state of the   *)
(* resource is a mixture of older and newer readings, each of which may    *)
(* expire; Kubernetes events come at any time, and name or do not name the *)
(* container and the uid of the pod.  Samples come in order: RuleLifecycle *)
(* has those that do not.  `heard' are the metrics reported since all      *)
(* readings tell of health.                                                *)
(***************************************************************************)
EXTENDS RuleCatalog

CONSTANTS
  Collected,    \* sets of metrics that may be collected
  Notices,      \* Kubernetes events that may come
  MaxDisturbances, MaxNow

(* What is known of a resource: its readings, of which a status has four parts. *)
Phases == {"running", "waiting", "terminated"}
Statuses == [container : Phases \union {Missing}, reason : {"OOMKilled", "CrashLoopBackOff", Missing},
             termination : {"OOMKilled", Missing}, last : {"OOMKilled", Missing}]
States == [scope : {"container", "pod", "deployment", "node"}, uid : BOOLEAN,
           read : [Metrics -> Int \union Statuses \union {Missing}]]
Severities == {"WARNING", "HIGH", "CRITICAL"}

ASSUME EpisodesAssumption ==
  /\ Collected \subseteq SUBSET Metrics
  /\ \A e \in Notices : e.kind = "kubernetes"
  /\ RestartThreshold \in Nat \ {0}
  /\ Missing \notin Int \union Phases \union Severities \union Statuses \union States

VARIABLES world, restarts, oomed, labelled, watched, clock, read, remembered, active, heard, spent

episodeVars ==
  <<world, restarts, oomed, labelled, watched, clock, read, remembered, active, heard, spent>>

Status(container, reason, termination, last) ==
  [container |-> container, reason |-> reason, termination |-> termination, last |-> last]
NoStatus == Status(Missing, Missing, Missing, Missing)
Absent == [m \in Metrics |-> IF m = "status" THEN NoStatus ELSE Missing]
Up(last) == Status("running", Missing, Missing, last)
Fine == [memory |-> 0, cpu |-> 0, restart |-> 0, status |-> Up(Missing), containerReady |-> 1,
         podReady |-> 1, desired |-> 2, available |-> 2, nodeReady |-> 1]

Calm == [count |-> 0, since |-> 0]

EpisodeInit ==
  /\ world = {} /\ restarts = 0 /\ oomed = FALSE
  /\ labelled \in BOOLEAN
  /\ watched \in Collected
  /\ clock = 0
  /\ read = [m \in Metrics |-> IF m \in watched THEN Fine[m] ELSE Absent[m]]
  /\ remembered = [conditions |-> [c \in Observing |-> Calm], increases |-> 0, backoff |-> FALSE]
  /\ active = {}
  /\ heard = {}
  /\ spent = 0

-----------------------------------------------------------------------------
(* The resource and its readings.                                           *)

(* What can go wrong, and the metric that shows it. *)
ShownBy ==
  [memory |-> "memory", cpu |-> "cpu", oom |-> "status", backoff |-> "status",
   unready |-> "podReady", degraded |-> "available", node |-> "nodeReady"]

Fail(trouble) ==
  /\ ShownBy[trouble] \in watched
  /\ spent < MaxDisturbances
  /\ world' = world \union {trouble}
  /\ restarts' = IF trouble \in {"oom", "backoff"} THEN 1 ELSE restarts
  /\ oomed' = (oomed \/ trouble = "oom")
  /\ spent' = spent + 1
  /\ heard' = {}
  /\ UNCHANGED <<labelled, watched, clock, read, remembered, active>>

Heal ==
  /\ world # {}
  /\ world' = {}
  /\ UNCHANGED <<restarts, oomed, labelled, watched, clock, read, remembered, active, heard, spent>>

TimePasses ==
  /\ clock < MaxNow
  /\ clock' = clock + 1
  /\ UNCHANGED <<world, restarts, oomed, labelled, watched, read, remembered, active, heard, spent>>

LastTermination == IF oomed THEN "OOMKilled" ELSE Missing

(* What a metric may report now (fieldFor, restartChange). *)
Readings(m) ==
  CASE m \in {"memory", "cpu"} -> IF m \in world THEN {1, 2} ELSE {0}
    [] m = "restart" -> IF read.restart = Missing THEN {-1} ELSE {restarts}
    [] m = "status" ->
         {IF "oom" \in world THEN Status("terminated", "OOMKilled", "OOMKilled", Missing)
          ELSE IF "backoff" \in world
               THEN Status("waiting", "CrashLoopBackOff", Missing, LastTermination)
               ELSE Up(LastTermination)}
    [] m \in {"containerReady", "podReady"} ->
         IF world \intersect {"oom", "backoff", "unready"} = {} THEN {1}
         ELSE IF m = "podReady" THEN {0, -1} ELSE {0}
    [] m = "desired" -> {2}
    [] m = "available" -> IF "degraded" \in world THEN {0, 1} ELSE {2}
    [] m = "nodeReady" -> IF "node" \in world THEN {0} ELSE {1}

(* Of a scope without a reading there is no state. *)
State(scope, uid, r) ==
  IF \E m \in Metrics : ScopeOf[m] = scope /\ r[m] # Absent[m]
  THEN [scope |-> scope, uid |-> uid, read |-> r]
  ELSE Missing

(* findForTelemetry: by the identity the event gives, the container first.  A *)
(* state is kept under the uid when the metrics are labelled with it, and a   *)
(* Deployment is looked for by its name.                                      *)
Candidates(event) ==
  IF event.object = "Node" THEN <<"node">>
  ELSE IF event.object = "Deployment" THEN IF labelled THEN <<>> ELSE <<"deployment">>
  ELSE IF event.uid # labelled THEN <<>>
  ELSE IF event.container THEN <<"container", "pod">> ELSE <<"pod">>

FindForTelemetry(event) ==
  LET found == {i \in DOMAIN Candidates(event) : State(Candidates(event)[i], labelled, read) # Missing}
  IN  IF found = {} THEN Missing
      ELSE State(Candidates(event)[CHOOSE i \in found : \A j \in found : i <= j], labelled, read)

-----------------------------------------------------------------------------
(* InMemoryRuleEngine.evaluate.                                             *)

Observe(class, event, state) ==
  LET prior == remembered.conditions[class]
  IN  IF ~Applies(class, event, state) THEN prior
      ELSE IF ~Condition(class, state.read) THEN Calm
      ELSE [count |-> IF prior.count < 2 THEN prior.count + 1 ELSE 2,
            since |-> IF prior.count > 0 THEN prior.since ELSE clock]

Remembered(event, state) ==
  [conditions |-> [c \in Observing |-> Observe(c, event, state)],
   increases |-> IF IsMetric(event, {"restart"}) /\ state.read.restart > 0
                 THEN IF remembered.increases < RestartThreshold THEN remembered.increases + 1
                      ELSE RestartThreshold
                 ELSE remembered.increases,
   backoff |-> remembered.backoff \/ IsReason(event, BackOffs)]

(* What the rules are given of what is remembered. *)
Seen(m) ==
  [observed |-> [c \in Observing |-> [count |-> m.conditions[c].count,
                                      duration |-> clock - m.conditions[c].since]],
   increases |-> m.increases, backoff |-> m.backoff]

Evaluate(event, state) ==
  LET m == Remembered(event, state)
      seen == Seen(m)
      answers == UNION {{<<c, a.resource, a.match>> : a \in Answers(c, event, state, seen)} :
                          c \in Classes}
  IN  /\ remembered' = m
      /\ active' = (active \ {<<a[1], a[2]>> : a \in {b \in answers : b[3] = Missing}})
                     \union {<<a[1], a[2]>> : a \in {b \in answers : b[3] # Missing}}

Healthy(r) ==
  \A m \in watched : IF m = "status" THEN r[m].container = "running" ELSE r[m] = Fine[m]

(* The sample reaches the state, then the rules with it. *)
Report(m) ==
  /\ m \in watched
  /\ \E value \in Readings(m) :
       /\ read' = [read EXCEPT ![m] = value]
       /\ Evaluate([kind |-> "metric", name |-> m], State(ScopeOf[m], labelled, read'))
  /\ restarts' = IF m = "restart" THEN 0 ELSE restarts
  /\ heard' = IF Healthy(read') THEN heard \union {m} ELSE {}
  /\ UNCHANGED <<world, oomed, labelled, watched, clock, spent>>

Expire(m) ==
  /\ spent < MaxDisturbances /\ read[m] # Absent[m]
  /\ read' = [read EXCEPT ![m] = Absent[m]]
  /\ heard' = {}
  /\ spent' = spent + 1
  /\ UNCHANGED <<world, restarts, oomed, labelled, watched, clock, remembered, active>>

Notice(event) ==
  /\ spent < MaxDisturbances
  /\ Evaluate(event, FindForTelemetry(event))
  /\ heard' = {}
  /\ spent' = spent + 1
  /\ UNCHANGED <<world, restarts, oomed, labelled, watched, clock, read>>

(* Restarts and back-offs are forgotten after five minutes. *)
Forget ==
  /\ remembered' = [remembered EXCEPT !.increases = 0, !.backoff = FALSE]
  /\ UNCHANGED <<world, restarts, oomed, labelled, watched, clock, read, active, heard, spent>>

EpisodeNext ==
  \/ \E t \in DOMAIN ShownBy : Fail(t)
  \/ Heal
  \/ TimePasses
  \/ \E m \in Metrics : Report(m) \/ Expire(m)
  \/ \E e \in Notices : Notice(e)
  \/ Forget

EpisodeSpec == EpisodeInit /\ [][EpisodeNext]_episodeVars

-----------------------------------------------------------------------------
(* The keys that a metric of this container can clear: those of the scope a  *)
(* rule clears, under the name the metrics give.  An event that names the     *)
(* resource otherwise opens an anomaly that no health ends.                   *)
Clearable(key) ==
  /\ key[2].scope \in {"container", "pod"} => key[2] = Resource(key[2].scope, labelled)
  /\ key[1] = "OOM_KILLED" => key[2].scope = "container" /\ {"restart", "status"} \subseteq watched
  /\ key[1] \in ByReason => key[2].scope = "pod" /\ "podReady" \in watched

(* An anomaly ends "when healthy telemetry clears the condition"              *)
(* (README.md:295): once every reading tells of health and every metric has   *)
(* been reported again, none is open that a metric can clear, in whatever     *)
(* order readings went bad, recovered, expired and events came between.       *)
HealthClears ==
  heard = watched => \A key \in active : ~Clearable(key)
=============================================================================
