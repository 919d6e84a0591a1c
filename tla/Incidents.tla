----------------------------- MODULE Incidents -----------------------------
(***************************************************************************)
(* Incidents: the correlation engine of apps/processor, the repository of  *)
(* packages/database in which it keeps them, and the API, by which an      *)
(* operator gives an incident the time its service is expected back.       *)
(*                                                                         *)
(* The processor handles one event at a time; an event carries at most one *)
(* signal.  A handler that fails is run again for the same event.  Every   *)
(* statement or transaction of the database is a step, and between two of  *)
(* them the API may read or write.  Events have times of their own, one    *)
(* later than the other, so that a time names an event.                    *)
(*                                                                         *)
(* What the detectors promise of an anomaly is the input: it opens, it may *)
(* go on, and unless it is of a log it resolves, once.  What is published  *)
(* of an incident is in TelemetryProcessor.                                *)
(***************************************************************************)
EXTENDS Correlation, SequencesExt

CONSTANTS
  Anomalies,
  Stories,      \* of which signals the anomalies may be: [Anomalies -> signal]
  CorrelationWindow, StabilizationPeriod,
  MaxGap,       \* time an event without a signal lets pass
  MaxEvents, MaxIncidents,
  MaxDisturbances   \* failures and estimates, together

(* The resources there are, what is known of an anomaly, and a signal of one. *)
Resources == {s[a].resource : s \in Stories, a \in Anomalies}
Severities == DOMAIN Rank
Known == [classification : STRING, source : STRING, severity : Severities,
          confidence : 0..100, restarted : BOOLEAN, resource : Resources]
Signals == [id : Anomalies, status : {"OPEN", "ACTIVE", "RESOLVED"}, at : Nat,
            classification : STRING, source : STRING, severity : Severities,
            confidence : 0..100, restarted : BOOLEAN, resource : Resources]

ASSUME IncidentsAssumption ==
  /\ CorrelationWindow \in Nat /\ StabilizationPeriod \in Nat \ {0} /\ MaxGap \in Nat \ {0}
  /\ MaxEvents \in Nat /\ MaxIncidents \in Nat /\ MaxDisturbances \in Nat
  /\ Stories # {} /\ Stories \subseteq [Anomalies -> Known]
  /\ None \notin {"OPEN", "ACTIVE", "RESOLVED"} \union Signals
  /\ None \notin [at : Nat, signal : Signals \union {None}, allow : BOOLEAN]

VARIABLES
  story, told,        \* the signals, and the last status of each: [status, at]
  now, count,         \* of the last event
  event, work,        \* the event handled, and where its handler stands
  watermark,          \* incidentAdvanceWatermark, 0 when undefined
  incidents,          \* table incidents: Seq(aggregate)
  held,               \* table incident_anomalies: the incident of each, or 0
  api, estimates,     \* the request of the API, and how many there were
  faults, stale,
  refused             \* a key of the database refused an incident

environment == <<story, told, now, count>>
database == <<incidents, held>>
operator == <<api, estimates>>
history == <<faults, stale, refused>>
vars == <<environment, event, work, watermark, database, operator, history>>

Idle == [phase |-> "idle"]

\* The signal of an anomaly that has a status at a time.
Signalled(a, s) ==
  [id |-> a, status |-> s.status, at |-> s.at, classification |-> story[a].classification,
   source |-> story[a].source, severity |-> story[a].severity,
   confidence |-> story[a].confidence, restarted |-> story[a].restarted,
   resource |-> story[a].resource]

Init ==
  /\ story \in Stories
  /\ told = [a \in Anomalies |-> [status |-> None, at |-> 0]]
  /\ now = 0 /\ count = 0
  /\ event = None /\ work = Idle /\ watermark = 0
  /\ incidents = <<>> /\ held = [a \in Anomalies |-> 0]
  /\ api = Idle /\ estimates = 0
  /\ faults = 0 /\ stale = FALSE /\ refused = FALSE

-----------------------------------------------------------------------------
(* The aggregate.                                                           *)

(* resourceKey() of the engine, and what the table of the affected resources *)
(* has for its key.                                                          *)
ResourceKey(r) ==
  <<r.cluster, r.scope, r.namespace,
    CASE r.scope = "node" -> r.node
      [] r.scope = "deployment" -> First(r.workloadUid, r.workload)
      [] OTHER -> r.pod,
    r.container>>

StoredKey(r) ==
  <<r.cluster, r.scope, r.namespace,
    First(r.workloadUid, First(r.pod, First(r.node, r.workload))), r.container>>

(* timelineEntry(): an entry of a log has no time, those of others have. *)
Entry(s) == <<s.id, s.status, IF FromLog(s) THEN 0 ELSE s.at>>

Evidence(s) == [id |-> s.id, at |-> s.at, log |-> FromLog(s)]

Added(resources, r) ==
  IF \E k \in DOMAIN resources : ResourceKey(resources[k]) = ResourceKey(r) THEN resources
  ELSE Append(resources, r)

(* createIncident() of the signal. *)
Created(s) ==
  LET primary == CorrelationResource(s.resource)
  IN [status |-> "OPEN", key |-> CorrelationKey(primary), primary |-> primary,
      namespace |-> s.resource.namespace, resources |-> <<s.resource>>, signals |-> {s},
      evidence |-> {Evidence(s)}, timeline |-> {Entry(s)},
      first |-> s.at, last |-> s.at, stabilizing |-> 0, resolvedAt |-> 0, estimate |-> 0]

Unresolved(signals) == {s \in signals : s.status # "RESOLVED"}

StabilizingKept(i, signals, s) == IF i.stabilizing # 0 THEN i.stabilizing
                                  ELSE IF Unresolved(signals) = {} THEN s.at ELSE 0

(* Its signals are all resolved since. *)
Stabilizing(i, signals, s) ==
  IF Unresolved(signals) # {} THEN 0
  ELSE IF i.stabilizing # 0 THEN i.stabilizing ELSE s.at

(* rebuild(): the incident with the signal, whatever its status was. *)
Rebuilt(i, s) ==
  LET signals == {t \in i.signals : t.id # s.id} \union {s}
      others == {e \in i.evidence : ~(FromLog(s) /\ e.log /\ e.id = s.id)}
      node == {t \in signals : t.classification = "NODE_NOT_READY"}
  IN [i EXCEPT
        !.status = "ACTIVE", !.resolvedAt = 0,
        !.signals = signals,
        !.resources = Added(@, s.resource),
        !.evidence = others \union {Evidence(s)},
        !.timeline = @ \union {Entry(s)},
        !.primary = IF node = {} THEN @
                    ELSE CorrelationResource((CHOOSE t \in node : TRUE).resource),
        !.first = Min({@, s.at}), !.last = Max({@, s.at}),
        !.stabilizing = Stabilizing(i, signals, s)]

-----------------------------------------------------------------------------
(* Which incident a signal belongs to.                                      *)

Active == {i \in DOMAIN incidents : incidents[i].status # "RESOLVED"}

MatchesResource(i, s) ==
  \/ i.key = CorrelationKey(CorrelationResource(s.resource))
  \/ /\ i.primary.cluster = s.resource.cluster /\ i.namespace = s.resource.namespace
     /\ \/ HasAnchor(i.signals) /\ (FromLog(s) \/ s.classification \in OperationalImpact)
        \/ FromLog(s) /\ HasImpact(i.signals)
  \/ /\ s.resource.node # None
     /\ IF Classification(i.signals) = "NODE_FAILURE" /\ i.primary.node = s.resource.node
        THEN s.classification = "POD_NOT_READY"
        ELSE /\ s.classification = "NODE_NOT_READY"
             /\ \E t \in i.signals : /\ t.classification = "POD_NOT_READY"
                                     /\ t.resource.node = s.resource.node

Candidates(s) ==
  {i \in Active : /\ s.at - incidents[i].last \in -CorrelationWindow..CorrelationWindow
                  /\ MatchesResource(incidents[i], s)
                  /\ Related(incidents[i].signals, s)}

(* listActiveIncidents(): the newest first. *)
ByLastSeen(is) ==
  {q \in SetToSeqs(is) :
     \A j, k \in DOMAIN q : j < k => incidents[q[j]].last >= incidents[q[k]].last}

-----------------------------------------------------------------------------
(* PostgresIncidentRepository.                                              *)

(* The keys of the projections: a resource and an evidence occur once in an *)
(* incident, an entry of the timeline once in all of them.                  *)
Accepts(i, aggregate) ==
  /\ \A j, k \in DOMAIN aggregate.resources :
       StoredKey(aggregate.resources[j]) = StoredKey(aggregate.resources[k]) => j = k
  /\ \A j \in DOMAIN incidents \ {i} : incidents[j].timeline \intersect aggregate.timeline = {}

(* replaceChildren(): an anomaly stays with the incident that has it. *)
Holding(i, aggregate) ==
  LET freed == [a \in Anomalies |-> IF held[a] = i THEN 0 ELSE held[a]]
  IN [a \in Anomalies |->
        IF freed[a] = 0 /\ (\E s \in aggregate.signals : s.id = a) THEN i ELSE freed[a]]

(* createIncident, updateIncident: all in one transaction.  What is written *)
(* was made of `base', what the row held when it was read.                  *)
Commit(i, base, aggregate) ==
  /\ incidents' = IF i > Len(incidents) THEN Append(incidents, aggregate)
                  ELSE [incidents EXCEPT ![i] = aggregate]
  /\ held' = Holding(i, aggregate)
  /\ stale' = (stale \/ (i <= Len(incidents) /\ base # incidents[i]))

-----------------------------------------------------------------------------
(* TelemetryConsumer.process with IncidentCorrelationEngine.                *)

Statuses(a) ==
  IF told[a].status = "RESOLVED" THEN {}
  ELSE IF FromLog(story[a]) THEN {"ACTIVE"} \union (IF told[a].status = None THEN {"OPEN"} ELSE {})
  ELSE IF told[a].status = None THEN {"OPEN"} ELSE {"ACTIVE", "RESOLVED"}

Received(time, signal, allow) ==
  /\ event = None /\ count < MaxEvents
  /\ event' = [at |-> time, signal |-> signal, allow |-> allow]
  /\ now' = time
  /\ count' = count + 1
  /\ UNCHANGED <<story, work, watermark, database, operator, history>>

(* An event with a signal; of a log, the classifier says if it is enough for *)
(* an incident.                                                              *)
Arrive ==
  \E a \in Anomalies, allow \in BOOLEAN : \E status \in Statuses(a) :
    LET s == [status |-> status, at |-> now + 1]
    IN /\ ~FromLog(story[a]) => allow
       /\ Received(now + 1, Signalled(a, s), allow)
       /\ told' = [told EXCEPT ![a] = s]

(* An event without one, after some time. *)
ArriveQuiet ==
  \E gap \in 1..MaxGap : Received(now + gap, None, FALSE) /\ UNCHANGED told

Writing(i, base, aggregate) ==
  [phase |-> "write", incident |-> i, base |-> base, aggregate |-> aggregate]

HolderRecent(a) ==
  IF held[a] = 0 THEN 0
  ELSE IF incidents[held[a]].last + CorrelationWindow < now THEN 0 ELSE held[a]

(* findByAnomalyId() *)
Holder(a) == held[a]

(* correlateInScope(): the incident that has the anomaly. *)
Lookup ==
  /\ event # None /\ work = Idle
  /\ LET s == event.signal
         i == IF s = None THEN 0 ELSE Holder(s.id)
     IN work' = IF s = None THEN [phase |-> "advance"]
                ELSE IF i # 0 THEN Writing(i, incidents[i], Rebuilt(incidents[i], s))
                ELSE IF s.status = "RESOLVED" THEN [phase |-> "advance"]
                ELSE [phase |-> "match"]
  /\ UNCHANGED <<environment, event, watermark, database, operator, history>>

(* Or the newest that it belongs to, or another, if it may make one; how many *)
(* there are is bounded by MaxIncidents.                                      *)
Match ==
  /\ work.phase = "match"
  /\ LET s == event.signal
     IN \E newest \in ByLastSeen(Candidates(s)) :
        \/ /\ newest # <<>>
           /\ work' = Writing(newest[1], incidents[newest[1]], Rebuilt(incidents[newest[1]], s))
        \/ /\ newest = <<>> /\ event.allow /\ Len(incidents) < MaxIncidents
           /\ work' = Writing(Len(incidents) + 1, None, Created(s))
        \/ /\ newest = <<>> /\ ~event.allow
           /\ work' = [phase |-> "advance"]
  /\ UNCHANGED <<environment, event, watermark, database, operator, history>>

Write ==
  /\ work.phase = "write" /\ Accepts(work.incident, work.aggregate)
  /\ Commit(work.incident, work.base, work.aggregate)
  /\ work' = [phase |-> "advance"]
  /\ UNCHANGED <<environment, event, watermark, operator, faults, refused>>

(* A key of the database is violated, at every attempt: a dead letter. *)
WriteRefused ==
  /\ work.phase = "write" /\ ~Accepts(work.incident, work.aggregate)
  /\ refused' = TRUE
  /\ event' = None /\ work' = Idle
  /\ UNCHANGED <<environment, watermark, database, operator, faults, stale>>

(* advance(): the incidents that have been stable for the period. *)
Advance ==
  /\ work.phase = "advance"
  /\ LET due == {i \in Active : /\ incidents[i].stabilizing # 0
                                /\ event.at >= incidents[i].stabilizing + StabilizationPeriod}
         runs == watermark = 0 \/ event.at > watermark
     IN /\ watermark' = IF runs THEN event.at ELSE watermark
        /\ \E todo \in ByLastSeen(IF runs THEN due ELSE {}) :
             work' = [phase |-> "resolve", todo |-> todo]
  /\ UNCHANGED <<environment, event, database, operator, history>>

(* resolveIncident(): reads the incident, and writes it. *)
ResolveRead ==
  /\ work.phase = "resolve" /\ work.todo # <<>>
  /\ work' = [phase |-> "resolving", todo |-> work.todo, base |-> incidents[Head(work.todo)]]
  /\ UNCHANGED <<environment, event, watermark, database, operator, history>>

ResolveWrite ==
  /\ work.phase = "resolving"
  /\ LET i == Head(work.todo)
     IN Commit(i, work.base, [work.base EXCEPT !.status = "RESOLVED", !.resolvedAt = event.at])
  /\ work' = [phase |-> "resolve", todo |-> Tail(work.todo)]
  /\ UNCHANGED <<environment, event, watermark, operator, faults, refused>>

Complete ==
  /\ work.phase = "resolve" /\ work.todo = <<>>
  /\ event' = None /\ work' = Idle
  /\ UNCHANGED <<environment, watermark, database, operator, history>>

Faulty == event # None /\ faults + estimates < MaxDisturbances /\ faults' = faults + 1

(* The database does not answer, and the handler throws: the event is handled *)
(* again, although a transaction may have been committed.                     *)
Fail ==
  /\ Faulty
  /\ work' = Idle
  /\ UNCHANGED <<environment, event, watermark, database, operator, stale, refused>>

WriteUnanswered ==
  /\ Faulty
  /\ work.phase = "write" /\ Accepts(work.incident, work.aggregate)
  /\ Commit(work.incident, work.base, work.aggregate)
  /\ work' = Idle
  /\ UNCHANGED <<environment, event, watermark, operator, refused>>

Crash ==
  /\ Faulty
  /\ work' = Idle /\ watermark' = 0
  /\ UNCHANGED <<environment, event, database, operator, stale, refused>>

-----------------------------------------------------------------------------
(* IncidentsController.updateEta: reads the incident, refuses one that is   *)
(* resolved, and writes all of it back.  It reads what a write leaves, which *)
(* it may do as well later, before the next write.                          *)

EstimateRead ==
  /\ api = Idle /\ faults + estimates < MaxDisturbances
  /\ event = None \/ work.phase = "resolving"
  /\ \E i \in Active : api' = [phase |-> "read", incident |-> i, base |-> incidents[i]]
  /\ estimates' = estimates + 1
  /\ UNCHANGED <<environment, event, work, watermark, database, history>>

EstimateWrite ==
  /\ api.phase = "read"
  /\ Accepts(api.incident, api.base)
  /\ Commit(api.incident, api.base, [api.base EXCEPT !.estimate = estimates])
  /\ api' = Idle
  /\ UNCHANGED <<environment, event, work, watermark, estimates, faults, refused>>

Next ==
  \/ Arrive \/ ArriveQuiet \/ Lookup \/ Match \/ Write \/ WriteRefused
  \/ Advance \/ ResolveRead \/ ResolveWrite \/ Complete
  \/ Fail \/ WriteUnanswered \/ Crash
  \/ EstimateRead \/ EstimateWrite

Spec == Init /\ [][Next]_vars

-----------------------------------------------------------------------------
(* An estimate that overlaps another write of the incident is based on what *)
(* the incident no longer is, or the other is; `stale' says so.  And an       *)
(* incident that the keys of the database refuse is lost, as its event is.   *)
Rested == event = None /\ ~stale /\ ~refused

(* Between two events every anomaly is in one incident at most, which is the *)
(* one the database finds it by, and there has the status it had last.  An   *)
(* anomaly not of a log that is not resolved is in one.                      *)
NothingForgotten ==
  Rested => \A a \in Anomalies :
    /\ \A i \in DOMAIN incidents :
         (\E s \in incidents[i].signals : s.id = a) <=> held[a] = i
    /\ held[a] # 0 =>
         /\ \E s \in incidents[held[a]].signals :
              s.id = a /\ s.status = told[a].status /\ s.at = told[a].at
         /\ \E e \in incidents[held[a]].evidence : e.id = a /\ e.at = told[a].at
    /\ told[a].status \in {"OPEN", "ACTIVE"} /\ ~FromLog(story[a]) => held[a] # 0

(* An incident is resolved when all its anomalies are, and have been for the *)
(* period of stabilization.                                                  *)
ResolvedIsQuiet ==
  ~stale => \A i \in DOMAIN incidents :
    incidents[i].status = "RESOLVED" =>
      \A s \in incidents[i].signals :
        s.status = "RESOLVED" /\ s.at + StabilizationPeriod <= incidents[i].resolvedAt

(* A signal that joins an incident of the same kind makes it neither less *)
(* severe nor less certain.                                               *)
JoiningNeverLowers ==
  [][\A i \in DOMAIN incidents :
       LET before == incidents[i].signals
           after == incidents'[i].signals
       IN before \subseteq after /\ Classification(before) = Classification(after) =>
            /\ Rank[Severity(before)] <= Rank[Severity(after)]
            /\ Confidence(before) <= Confidence(after)]_vars

(* "A resolved incident cannot receive a restoration estimate", says the API  *)
(* to an operator: no incident is given one that is resolved when it is.      *)
ResolvedGetsNoEstimate ==
  [][\A i \in DOMAIN incidents :
       incidents[i].status = "RESOLVED" => incidents'[i].estimate = incidents[i].estimate]_vars

=============================================================================
