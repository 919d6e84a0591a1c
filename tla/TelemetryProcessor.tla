------------------------- MODULE TelemetryProcessor -------------------------
(***************************************************************************)
(* The processor: apps/processor/src/telemetry.consumer.ts on the durable  *)
(* subscription of QueueSubscription, with the rule engine of RuleEngine,  *)
(* its Redis snapshot (rules/redis-rule-engine.ts), the processing ledger  *)
(* (infrastructure/redis.ts) and the correlation engine on PostgreSQL.     *)
(*                                                                         *)
(* `process` is a sequence of awaited steps; each is an action, and each   *)
(* may fail, which leads to the catch block, or be cut off by a crash. An  *)
(* anomaly belongs to one resource and one family of signals, so that any  *)
(* active incident takes it. Statistical detection and log classification  *)
(* swallow their own errors and are left out.                              *)
(***************************************************************************)
EXTENDS RuleEngine, FiniteSets

CONSTANTS
  MaxDeliver, HandlersMayOverrun,   \* as in QueueSubscription
  Malformed,             \* entries the schema or the id check rejects
  Probes,                \* events of the namespace faultline-onboarding
  StabilizationPeriod,   \* stabilizationPeriodMs, in seconds
  RollbackMayFail,       \* may Redis fail while the rules are rolled back?
  StateMayExpire         \* may a retried metric find its resource state gone?

MaxStream == Len(Telemetry)
MaxIncidents == Cardinality(AnomalyIds)

ASSUME ProcessorAssumption ==
  /\ MaxDeliver \in Nat \ {0}
  /\ Malformed \subseteq Entries
  /\ Probes \subseteq Entries
  /\ StabilizationPeriod \in Nat
  /\ {HandlersMayOverrun, RollbackMayFail, StateMayExpire} \subseteq BOOLEAN

VARIABLES
  published, attempts, broker, task, client, handled, dlq,  \* the subscription
  memory, hydrated, pending,   \* RedisRuleEngine and its InMemoryRuleEngine
  announced,   \* publishedIncidents: last aggregate seen, per incident
  advancedTo,  \* incidentAdvanceWatermark, 0 when undefined
  work,        \* where the call of `process` for a delivery stands
  snapshot,    \* Redis: faultline:rules:state:v1
  ledger,      \* Redis: faultline:processed:<id>
  incidents,   \* PostgreSQL: Seq(Incident), in the order of creation
  updated,     \* incidents.updated: the last aggregate sent, per incident
  lifecycle    \* incidents.lifecycle: {<<incident, type>>}

Queue == INSTANCE QueueSubscription WITH MaxAckPending <- 1, Poison <- Malformed
Deliveries == Queue!Deliveries

queueVars == <<published, attempts, broker, task, client, handled, dlq>>
ruleVars == <<memory, hydrated, pending>>
incidentVars == <<announced, advancedTo, incidents, updated, lifecycle>>
vars == <<queueVars, ruleVars, incidentVars, work, snapshot, ledger>>

-----------------------------------------------------------------------------
(* Incidents, as correlation/incident-correlation-engine.ts builds them *)

\* stabilizing: stabilizationStartedAt, 0 when undefined.
Incident ==
  [status      : {"OPEN", "ACTIVE", "RESOLVED"},
   lastSeen    : Times,
   stabilizing : Times \union {0},
   anomalies   : [AnomalyIds -> {"none", "OPEN", "ACTIVE", "RESOLVED"}]]

NoIncident == [status |-> "none"]

Unresolved(incident) ==
  {a \in AnomalyIds : incident.anomalies[a] \in {"OPEN", "ACTIVE"}}

Created(anomaly, time) ==
  [status      |-> "OPEN",
   lastSeen    |-> time,
   stabilizing |-> 0,
   anomalies   |-> [a \in AnomalyIds |->
                      IF a = anomaly.id THEN anomaly.status ELSE "none"]]

Rebuilt(incident, anomaly, time) ==
  LET next == [incident EXCEPT
                 !.status = "ACTIVE",
                 !.lastSeen = IF time > @ THEN time ELSE @,
                 !.anomalies[anomaly.id] = anomaly.status]
  IN  [next EXCEPT !.stabilizing =
         IF Unresolved(next) # {} THEN 0 ELSE IF @ # 0 THEN @ ELSE time]

ActiveIncidents == {i \in DOMAIN incidents : incidents[i].status # "RESOLVED"}
HoldersOf(id) == {i \in DOMAIN incidents : incidents[i].anomalies[id] # "none"}

Change(i, type, aggregate) ==
  [incident |-> i, type |-> type, aggregate |-> aggregate]

\* correlateInScope: the incident that holds the anomaly is rebuilt, else an
\* active one, else a new one is created; the resolution of an anomaly that no
\* incident holds changes nothing. The possible changes of an anomaly:
Correlations(anomaly, time) ==
  LET targets == IF HoldersOf(anomaly.id) # {} THEN HoldersOf(anomaly.id)
                 ELSE IF anomaly.status = "RESOLVED" THEN {}
                 ELSE ActiveIncidents
  IN  IF targets = {} /\ anomaly.status # "RESOLVED"
      THEN {Change(Len(incidents) + 1, "CREATED", Created(anomaly, time))}
      ELSE {Change(i, "UPDATED", Rebuilt(incidents[i], anomaly, time)) :
              i \in targets}

\* Mutant of Stabilized: an undefined start is taken for the epoch.
StabilizedSinceEpoch(time) ==
  {i \in ActiveIncidents :
     time >= incidents[i].stabilizing + StabilizationPeriod}

\* advance(): the active incidents whose stabilization period is over.
Stabilized(time) ==
  {i \in ActiveIncidents :
     /\ incidents[i].stabilizing # 0
     /\ time >= incidents[i].stabilizing + StabilizationPeriod}

Resolved(incident) == [incident EXCEPT !.status = "RESOLVED"]

LifecycleTypes ==
  {"INCIDENT_CREATED", "INCIDENT_RESOLVED", "INCIDENT_STATUS_CHANGED"}

\* publishIncident: the event type follows from what this process saw last.
LifecycleType(previous, aggregate) ==
  IF previous = NoIncident THEN "INCIDENT_CREATED"
  ELSE IF aggregate.status = previous.status THEN "none"
  ELSE IF aggregate.status = "RESOLVED" THEN "INCIDENT_RESOLVED"
  ELSE "INCIDENT_STATUS_CHANGED"

\* The message id of an incidents.updated message. It stands for the last
\* aggregate sent under it, in a stream that drops a repeated id.
UpdateId(change) ==
  <<change.incident, change.type, change.aggregate.lastSeen>>

-----------------------------------------------------------------------------
\* todo: the anomalies still to be correlated, by rule. changes, type: what the
\* last change leaves to publish. due: the listed incidents advance() has still
\* to resolve; found: the one it has read, as it will write it.
NothingFound == [incident |-> 0]

Waiting ==
  [at |-> "idle", todo |-> <<>>, changes |-> <<>>, type |-> "none",
   due |-> {}, found |-> NothingFound]

Init ==
  /\ Queue!Init
  /\ memory = EmptyMemory
  /\ hydrated = FALSE
  /\ pending = FALSE
  /\ announced = [i \in 1..MaxIncidents |-> NoIncident]
  /\ advancedTo = 0
  /\ work = [d \in Deliveries |-> Waiting]
  /\ snapshot = EmptyMemory
  /\ ledger = [e \in Entries |-> "absent"]
  /\ incidents = <<>>
  /\ updated = [sent |-> {}, last |-> [i \in 1..MaxIncidents |-> NoIncident]]
  /\ lifecycle = {}

At(d, step) == work[d].at = step
TimeOf(d) == Telemetry[d[1]].time

\* Nothing of the last change is left to publish.
Published(d) == work[d].changes = <<>> /\ work[d].type = "none"

\* A change waits for publishIncident: what advance() did, once it has returned.
ToPublish(d) ==
  /\ work[d].at \in {"correlate", "commit"}
  /\ work[d].changes # <<>>
  /\ work[d].type = "none"

GoTo(d, step) == work' = [work EXCEPT ![d].at = step]

-----------------------------------------------------------------------------
(* The call of `process` for delivery d, awaited step by awaited step *)

Receive(e) ==
  /\ Queue!Deliver(e)
  /\ GoTo(<<e, attempts[e] + 1>>, IF e \in Malformed THEN "failed" ELSE "begin")
  /\ UNCHANGED <<ruleVars, incidentVars, snapshot, ledger>>

\* Mutant of Claimable: a redelivery does not take over an earlier claim.
ClaimableOnce(d) == ledger[d[1]] = "absent"

\* ledger.begin: SET NX, or take over the claim of an earlier delivery.
Claimable(d) ==
  \/ ledger[d[1]] = "absent"
  \/ ledger[d[1]] = "processing" /\ d[2] > 1

Begin(d) ==
  /\ At(d, "begin")
  /\ IF Claimable(d)
     THEN /\ ledger' = [ledger EXCEPT ![d[1]] = "processing"]
          /\ GoTo(d, IF d[1] \in Probes THEN "complete" ELSE "evaluate")
     ELSE /\ GoTo(d, "done")
          /\ UNCHANGED ledger
  /\ UNCHANGED <<queueVars, ruleVars, incidentVars, snapshot>>

\* Outside the try block: nothing is rolled back. The claim may have been made.
BeginFails(d) ==
  /\ At(d, "begin")
  /\ \/ UNCHANGED ledger
     \/ ledger[d[1]] = "absent" /\ ledger' = [ledger EXCEPT ![d[1]] = "processing"]
  /\ GoTo(d, "failed")
  /\ UNCHANGED <<queueVars, ruleVars, incidentVars, snapshot>>

\* state.update, then rules.evaluate, which first hydrates the memory. A metric
\* without resource state is not rule-relevant.
EvaluateRules(d) ==
  LET current == IF hydrated THEN memory ELSE snapshot
      result == Evaluate(current, d[1])
  IN  /\ At(d, "evaluate")
      /\ hydrated' = TRUE
      /\ \E found \in IF StateMayExpire THEN BOOLEAN ELSE {TRUE} :
           IF found /\ Telemetry[d[1]].relevant
           THEN /\ memory' = result.memory
                /\ pending' = TRUE
                /\ work' = [work EXCEPT ![d].at = "correlate",
                                        ![d].todo = result.emitted]
           ELSE /\ memory' = current
                /\ GoTo(d, "correlate")
                /\ UNCHANGED pending
      /\ UNCHANGED <<queueVars, incidentVars, snapshot, ledger>>

\* The anomaly of the next rule is published and correlated in one transaction.
Correlate(d) ==
  LET todo == work[d].todo
  IN  /\ At(d, "correlate")
      /\ Published(d)
      /\ \E r \in DOMAIN todo :
           LET possible == Correlations(todo[r], TimeOf(d))
               rest == [s \in DOMAIN todo \ {r} |-> todo[s]]
           IN  /\ \A s \in DOMAIN todo : r <= s
               /\ \/ /\ possible = {}
                     /\ work' = [work EXCEPT ![d].todo = rest]
                     /\ UNCHANGED incidents
                  \/ \E change \in possible :
                       /\ incidents' =
                            [i \in DOMAIN incidents \union {change.incident} |->
                               IF i = change.incident THEN change.aggregate
                                                      ELSE incidents[i]]
                       /\ work' = [work EXCEPT ![d].todo = rest,
                                               ![d].changes = <<change>>]
      /\ UNCHANGED <<queueVars, ruleVars, announced, advancedTo, updated,
                     lifecycle, snapshot, ledger>>

\* The stream keeps the first of the messages that carry one id.
Updated(change) ==
  IF UpdateId(change) \in updated.sent
  THEN updated
  ELSE [sent |-> updated.sent \union {UpdateId(change)},
        last |-> [updated.last EXCEPT ![change.incident] = change.aggregate]]

\* publishIncident up to the second await: incidents.updated is sent, and the
\* aggregate is remembered before its lifecycle event is.
PublishUpdated(d) ==
  LET change == Head(work[d].changes)
      type == LifecycleType(announced[change.incident], change.aggregate)
  IN  /\ ToPublish(d)
      /\ updated' = Updated(change)
      /\ announced' = [announced EXCEPT ![change.incident] = change.aggregate]
      /\ work' = [work EXCEPT ![d].type = type,
                              ![d].changes = IF type = "none" THEN Tail(@) ELSE @]
      /\ UNCHANGED <<queueVars, ruleVars, advancedTo, incidents, lifecycle,
                     snapshot, ledger>>

PublishLifecycle(d) ==
  /\ work[d].type # "none"
  /\ lifecycle' = lifecycle \union
       {<<Head(work[d].changes).incident, work[d].type>>}
  /\ work' = [work EXCEPT ![d].type = "none", ![d].changes = Tail(@)]
  /\ UNCHANGED <<queueVars, ruleVars, announced, advancedTo, incidents, updated,
                 snapshot, ledger>>

\* shouldAdvanceIncidents moves its watermark before anything is advanced.
ShouldAdvance(d) ==
  /\ At(d, "correlate")
  /\ Published(d)
  /\ DOMAIN work[d].todo = {}
  /\ IF advancedTo = 0 \/ TimeOf(d) >= advancedTo + 1
     THEN advancedTo' = TimeOf(d) /\ GoTo(d, "advance")
     ELSE UNCHANGED advancedTo /\ GoTo(d, "commit")
  /\ UNCHANGED <<queueVars, ruleVars, announced, incidents, updated, lifecycle,
                 snapshot, ledger>>

\* advance() lists the active incidents and keeps those that are stable by then.
\* None of its statements is under the lock of correlateInScope.
ListDue(d) ==
  /\ At(d, "advance")
  /\ work' = [work EXCEPT ![d].at = "resolve", ![d].due = Stabilized(TimeOf(d))]
  /\ UNCHANGED incidents

\* resolveIncident reads the row of the next one as it is now (in the order of
\* their last signal, which is any order here) ...
ReadDue(d) ==
  /\ At(d, "resolve")
  /\ \E i \in work[d].due :
       work' = [work EXCEPT ![d].at = "store", ![d].due = @ \ {i},
                  ![d].found = Change(i, "RESOLVED", Resolved(incidents[i]))]
  /\ UNCHANGED incidents

\* ... and updateIncident writes the whole of it back, over what others wrote.
WriteBack(change) ==
  incidents' = [incidents EXCEPT ![change.incident] = change.aggregate]

StoreResolved(d) ==
  /\ At(d, "store")
  /\ WriteBack(work[d].found)
  /\ work' = [work EXCEPT ![d].at = "resolve", ![d].found = NothingFound,
                          ![d].changes = Append(@, work[d].found)]

AdvanceEnds(d) ==
  /\ At(d, "resolve")
  /\ work[d].due = {}
  /\ GoTo(d, "commit")
  /\ UNCHANGED incidents

Advance(d) ==
  /\ ListDue(d) \/ ReadDue(d) \/ StoreResolved(d) \/ AdvanceEnds(d)
  /\ UNCHANGED <<queueVars, ruleVars, announced, advancedTo, updated,
                 lifecycle, snapshot, ledger>>

\* Mutant of Commit: `pending` is reset before it is looked at.
CommitForgetting(d) ==
  /\ At(d, "commit")
  /\ Published(d)
  /\ pending' = FALSE
  /\ GoTo(d, "complete")
  /\ UNCHANGED <<queueVars, memory, hydrated, incidentVars, snapshot, ledger>>

\* rules.commit; statistical.commit follows it and keeps nothing of its own here.
Commit(d) ==
  /\ At(d, "commit")
  /\ Published(d)
  /\ snapshot' = IF pending THEN memory ELSE snapshot
  /\ pending' = FALSE
  /\ GoTo(d, "complete")
  /\ UNCHANGED <<queueVars, memory, hydrated, incidentVars, ledger>>

Complete(d) ==
  /\ At(d, "complete")
  /\ ledger' = [ledger EXCEPT ![d[1]] = "complete"]
  /\ GoTo(d, "done")
  /\ UNCHANGED <<queueVars, ruleVars, incidentVars, snapshot>>

-----------------------------------------------------------------------------
(* The catch block *)

\* A step inside the try block throws. It may have taken effect nevertheless:
\* a later Fail covers that where the next step changes nothing first; the
\* others are the disjuncts below.
TrySteps ==
  {"evaluate", "correlate", "advance", "resolve", "store", "commit", "complete"}

Fail(d) ==
  /\ work[d].at \in TrySteps
  /\ work' = [work EXCEPT ![d] = [Waiting EXCEPT !.at = "rollback"]]
  /\ \/ UNCHANGED <<incidents, updated, ledger>>
     \/ /\ At(d, "store")
        /\ WriteBack(work[d].found)
        /\ UNCHANGED <<updated, ledger>>
     \/ /\ ToPublish(d)
        /\ updated' = Updated(Head(work[d].changes))
        /\ UNCHANGED <<incidents, ledger>>
     \/ /\ At(d, "complete")
        /\ ledger' = [ledger EXCEPT ![d[1]] = "complete"]
        /\ UNCHANGED <<incidents, updated>>
  /\ UNCHANGED <<queueVars, ruleVars, announced, advancedTo, lifecycle, snapshot>>

Rollback(d) ==
  /\ At(d, "rollback")
  /\ memory' = snapshot
  /\ hydrated' = TRUE
  /\ pending' = FALSE
  /\ GoTo(d, "release")
  /\ UNCHANGED <<queueVars, incidentVars, snapshot, ledger>>

\* The snapshot cannot be read: the memory stays as it is, and the catch block
\* throws before it releases the claim.
RollbackFails(d) ==
  /\ RollbackMayFail
  /\ At(d, "rollback")
  /\ pending' = FALSE
  /\ GoTo(d, "failed")
  /\ UNCHANGED <<queueVars, memory, hydrated, incidentVars, snapshot, ledger>>

Release(d) ==
  /\ At(d, "release")
  /\ \/ ledger' = [ledger EXCEPT ![d[1]] = "absent"]
     \/ UNCHANGED ledger
  /\ GoTo(d, "failed")
  /\ UNCHANGED <<queueVars, ruleVars, incidentVars, snapshot>>

-----------------------------------------------------------------------------
(* The subscription around `process` *)

ProcessResolves(d) ==
  /\ At(d, "done")
  /\ Queue!HandlerResolves(d)
  /\ GoTo(d, "idle")
  /\ UNCHANGED <<ruleVars, incidentVars, snapshot, ledger>>

ProcessRejects(d) ==
  /\ At(d, "failed")
  /\ Queue!Nak(d) \/ Queue!GiveUp(d)
  /\ GoTo(d, "idle")
  /\ UNCHANGED <<ruleVars, incidentVars, snapshot, ledger>>

processorVars == <<ruleVars, incidentVars, work, snapshot, ledger>>

Publish == Queue!Publish /\ UNCHANGED processorVars
AckWaitExpires(e) == Queue!AckWaitExpires(e) /\ UNCHANGED processorVars
Ack(d) == Queue!Ack(d) /\ UNCHANGED processorVars
DeadLetter(d) == Queue!DeadLetter(d) /\ UNCHANGED processorVars
BeginDestroy == Queue!Close /\ UNCHANGED processorVars
Restart == Queue!Restart /\ UNCHANGED processorVars

\* A new process starts with an empty engine and no published incidents.
LoseProcess ==
  /\ memory' = EmptyMemory
  /\ hydrated' = FALSE
  /\ pending' = FALSE
  /\ announced' = [i \in 1..MaxIncidents |-> NoIncident]
  /\ advancedTo' = 0
  /\ work' = [d \in Deliveries |-> Waiting]
  /\ UNCHANGED <<incidents, updated, lifecycle, snapshot, ledger>>

Crash == Queue!Crash /\ LoseProcess
DeadLetterFails(d) == Queue!DeadLetterFails(d) /\ LoseProcess
EndDestroy == Queue!Closed /\ LoseProcess

ProcessStep(d) ==
  \/ Begin(d) \/ BeginFails(d) \/ EvaluateRules(d) \/ Correlate(d)
  \/ PublishUpdated(d) \/ PublishLifecycle(d) \/ ShouldAdvance(d)
  \/ Advance(d) \/ Commit(d) \/ Complete(d)
  \/ Fail(d) \/ Rollback(d) \/ RollbackFails(d) \/ Release(d)
  \/ ProcessResolves(d) \/ ProcessRejects(d)

Next ==
  \/ Publish
  \/ \E e \in Entries : Receive(e) \/ AckWaitExpires(e)
  \/ \E d \in Deliveries :
       ProcessStep(d) \/ Ack(d) \/ DeadLetter(d) \/ DeadLetterFails(d)
  \/ Crash \/ BeginDestroy \/ EndDestroy \/ Restart

Spec == Init /\ [][Next]_vars
-----------------------------------------------------------------------------
(* Properties *)

Steps == TrySteps \union {"idle", "begin", "done", "rollback", "release", "failed"}
Statuses == {"OPEN", "ACTIVE", "RESOLVED"}
IncidentIds == 1..MaxIncidents
Aggregates == Incident \union {NoIncident}

TypeOK ==
  /\ Queue!TypeOK
  /\ memory \in Memory /\ snapshot \in Memory
  /\ hydrated \in BOOLEAN /\ pending \in BOOLEAN
  /\ announced \in [IncidentIds -> Aggregates]
  /\ advancedTo \in Times \union {0}
  /\ \A d \in Deliveries :
       /\ work[d].at \in Steps
       /\ DOMAIN work[d].todo \subseteq Rules
       /\ \A r \in DOMAIN work[d].todo :
            work[d].todo[r] \in [id : AnomalyIds, status : Statuses]
       /\ \A n \in DOMAIN work[d].changes :
            /\ work[d].changes[n].incident \in IncidentIds
            /\ work[d].changes[n].aggregate \in Incident
       /\ work[d].type \in LifecycleTypes \union {"none"}
       /\ work[d].due \subseteq DOMAIN incidents
       /\ At(d, "store") => /\ work[d].found.incident \in DOMAIN incidents
                            /\ work[d].found.aggregate \in Incident
  /\ ledger \in [Entries -> {"absent", "processing", "complete"}]
  /\ incidents \in Seq(Incident) /\ Len(incidents) <= MaxIncidents
  /\ updated.last \in [IncidentIds -> Aggregates]
  /\ lifecycle \subseteq IncidentIds \X LifecycleTypes

NothingGivenUp == dlq = {} /\ \A e \in Entries : broker[e] # "dropped"

Quiet ==
  /\ NothingGivenUp
  /\ Queue!InFlight = {}
  /\ \A e \in Entries : broker[e] \in {"new", "acked"}

\* "Together these make redelivery safe" (docs/INFRASTRUCTURE.md:52): once every
\* entry that was delivered is acknowledged as processed, the two stores agree.
\* An anomaly is unresolved in PostgreSQL, with the same status, exactly when
\* the rule engine would go on to confirm or resolve it. One that only
\* PostgreSQL knows keeps its incident open for ever.
TrackedWhenQuiet ==
  Quiet =>
    \A a \in AnomalyIds :
      LET tracked == snapshot.active[a[1]]
          statuses == {incidents[i].anomalies[a] : i \in DOMAIN incidents}
      IN  statuses \intersect {"OPEN", "ACTIVE"} =
            IF tracked.id # a THEN {}
            ELSE IF tracked.confirmations = 1 THEN {"OPEN"} ELSE {"ACTIVE"}

\* An incident is never declared resolved with an unresolved anomaly in it, nor
\* left without a stabilization period once all of them are resolved.
ResolvedMeansHealthy ==
  \A i \in DOMAIN incidents :
    IF incidents[i].status = "RESOLVED"
    THEN Unresolved(incidents[i]) = {}
    ELSE incidents[i].stabilizing # 0 <=> Unresolved(incidents[i]) = {}

CreatedIsAnnounced ==
  \A i \in DOMAIN incidents : <<i, "INCIDENT_CREATED">> \in lifecycle

ResolvedIsAnnounced ==
  \A i \in DOMAIN incidents :
    incidents[i].status = "RESOLVED" => <<i, "INCIDENT_RESOLVED">> \in lifecycle

UpdateIsPublished ==
  \A i \in DOMAIN incidents :
    incidents[i].status # "RESOLVED" => updated.last[i] = incidents[i]

\* docs/INFRASTRUCTURE.md:55-56 says an entry is acknowledged only after its
\* outgoing operational events are complete: with every entry acknowledged,
\* each incident was announced on incidents.lifecycle when it was created and
\* when it was resolved, and incidents.updated carries what PostgreSQL holds.
OutgoingEventsComplete ==
  Quiet => CreatedIsAnnounced /\ ResolvedIsAnnounced /\ UpdateIsPublished

\* Entries the ledger calls complete, with no catch block about to release them.
Completed ==
  {e \in Entries :
     /\ ledger[e] = "complete"
     /\ \A d \in Deliveries :
          d[1] = e => work[d].at \notin {"rollback", "release"}}

\* The processor implements the abstract promise, with completion as the effect:
\* an entry is acknowledged only when complete, and is not redone afterwards.
Abstract ==
  INSTANCE AtLeastOnce WITH
    effect <- Completed,
    deadLettered <- dlq,
    released <- {e \in Entries : broker[e] = "acked"}

ImplementsAtLeastOnce == Abstract!Spec
=============================================================================
