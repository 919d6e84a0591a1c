# TLA+ models and proofs of the faultline backend

faultline takes Kubernetes telemetry in, keeps a history of it, detects
anomalies, correlates them into incidents and calls the engineers on duty. The
services exchange events over NATS JetStream and keep their state in Redis,
PostgreSQL and ClickHouse. What is hard in it is hard everywhere in it: every
step of every handler may fail, be cut off by a restart, run again, or run
beside another.

The directory holds TLA+ modules of the services that carry that difficulty,
TLC configurations that check them on small instances, and theorems that TLAPS
checks for every value of the constants. `PROJECT.json` lists the components,
the runs, the source lines behind each definition, the hazards and the findings.
Paths below are relative to the repository.

1. [Inventory](#1-inventory)
2. [Modules, and how they correspond to the code](#2-modules-and-how-they-correspond-to-the-code)
3. [What is checked](#3-what-is-checked)
4. [What is proved](#4-what-is-proved)
5. [Where the code and its documents disagree](#5-where-the-code-and-its-documents-disagree)
6. [What is left out](#6-what-is-left-out)
7. [What is next](#7-what-is-next)

## 1. Inventory

| Component | Sources | State it keeps | Operations | Modelled in |
|---|---|---|---|---|
| Queue | `packages/queue` | stream and durable consumer, pending deliveries of the client | publish, deliver, ack, delayed nak, dead letter, close, reconnect | `QueueSubscription`, `AtLeastOnce` |
| Storage writer | `apps/storage`, `packages/telemetry/src/batch.ts` | open batch and chain of writes per table | receive, add, dispatch by size or age, flush, shut down | `TelemetryStorage` |
| Ingestion | `apps/ingestion` | none | accept, translate, publish one by one | `Readings` (metrics) |
| Resource state | `apps/processor/src/resource-state` | last readings of a resource in Redis, with lifetimes | update, load, find | `Readings` |
| Rule engine | `apps/processor/src/rules` | seen ids, watermarks, conditions, active anomalies; a Redis snapshot | evaluate, commit, rollback | `RuleEngine`, `RuleLifecycle`, `RuleCatalog`, `FailureEpisodes` |
| Statistical detector, log classifier | `apps/processor/src/statistical`, `.../log-classification` | windows of samples, open deviations; aggregates of patterns | evaluate, commit, rollback, classify | `Detection` |
| Baselines | `apps/storage/src/baseline-refresh.service.ts`, `packages/baselines` | running flag, cache; rows in PostgreSQL | refresh, look up | `Detection`, `BaselineHistory` |
| Processor | `apps/processor/src/telemetry.consumer.ts` | ledger in Redis, published incidents, advance watermark | process one telemetry event | `TelemetryProcessor` |
| Correlation, incidents | `apps/processor/src/correlation`, `packages/incidents`, `packages/database/src/index.ts` | incidents in PostgreSQL | correlate, rebuild, advance, estimate, resolve | `Correlation`, `Incidents` |
| Slack | `apps/notification/src/slack-*` | tickets, socket, claims | create and update a ticket, replies, acknowledgements | `SlackTickets`, `SlackSocket` |
| On-call | `apps/api/src/on-call.controller.ts`, `packages/notifications` | shifts, overrides, schedule | add, change, override, resolve | `OnCall` |
| Notification | `apps/notification`, `packages/database/src/notifications.ts` | notification state, attempts, communications, idempotency keys | dispatch, callbacks, fallback to the administrator, answers by voice, recovery poll | `Notification` |
| Identity, audit log | `apps/api/src/auth`, `packages/auth` | users, sessions, challenges, reset tokens, audit chain | sign in, second factor, reset, administer, append | `Identity` |
| Billing | `apps/api/src/billing`, `packages/billing` | subscriptions, processed events, accounts | webhooks, provisioning, entitlements | `Billing`, `Plans` |
| Clusters and onboarding | `apps/api/src/cluster*`, `scripts/cluster.cjs`, `packages/database/src/projects.ts` | registry, assignments, the running job, what is installed on a machine | register, onboard, uninstall, assign | `Onboarding` |
| Read model, ClickHouse | `packages/clickhouse`, `packages/telemetry` | tables of telemetry | insert, merge, expire, page, aggregate, evidence | `TelemetryHistory`, `BaselineHistory` |
| Reporting, e-mail layout, platform | `packages/reporting`, `packages/platform` | none that outlives a call | layout, configuration | not modelled |

How they interact: ingestion publishes to `telemetry.raw`; the storage writer and
the processor are two durable consumers of it. The processor takes an event
through resource state, rules, statistical detector and log classifier, writes
incidents to PostgreSQL and publishes `incidents.updated` and
`incidents.lifecycle`; the notification service consumes the latter. The API reads
and changes the same tables, and itself publishes lifecycle events. Storage writes
ClickHouse, from which the API answers queries and the refresh loop computes the
baselines that the statistical detector reads.

What correctness means, component by component:

* **Queue, storage writer.** An acknowledged entry has its effect or is a dead
  letter; a bad one does not stop the others; a handler that waits for a batch
  which others fill is told in the end; order where a consumer asks for it.
* **Detection.** Late, repeated and reordered samples open no anomaly that a
  condition did not hold for, health ends what they opened, and what the incidents
  were told is what the detectors remember.
* **Processor.** A dozen awaited steps on four stores without a common transaction,
  and a catch block that compensates: whatever failed, the stores agree again once
  the entry has been acknowledged.
* **Incidents.** No incident is resolved while something in it is wrong, none is
  forgotten, none becomes milder by being joined, whoever else writes the row.
* **Notification, Slack.** Calls to the outside that cannot be undone: someone is
  called, nobody twice, an acknowledgement stops the calls, one ticket per incident.
* **Identity, billing, onboarding.** What may be used once is used once, a payment
  leads to one account, nobody reaches into another organization, and no request is
  answered as done without its record.
* **Read model.** A page continues where the last one ended, whatever was inserted,
  merged or expired in between.

The full list of hazards, each at its line and with the properties that watch it,
is in `PROJECT.json`.

## 2. Modules, and how they correspond to the code

The comment at the head of each module says what its variables stand for. Here is
how the modules hang together and the choices that are not obvious.

**Streams.** `AtLeastOnce` is the abstract promise of a consumer: an entry is
released to the broker only when its effect has happened or it is preserved as a
dead letter, and neither is undone. `QueueSubscription` is one durable subscription.
`attempts` and `broker` are JetStream's record of an entry (external, modelled from
the options `subscribe` sets: explicit acknowledgement, `ack_wait`, `max_deliver`,
`max_ack_pending`); `task` is the set of promises in `pending` of the client. A
delivery is a pair of the entry and its delivery count. `Nak`, `GiveUp`,
`DeadLetter` and `DeadLetterFails` are the catch block of the iterator; `Close` and
`Closed` are the two halves of `close()`. A failing dead-letter publish ends the
process, because nothing handles the rejection of `delivery.finally`. Three modules
are composed with it: `TelemetryStorage`, `TelemetryProcessor` and `Readings`.

`TelemetryStorage` puts the storage consumer and its batchers on it. `current` is
the open slot of a batcher and `chain` its queue of writes, the head being written;
`written` and `failed` are deliveries whose batch promise has settled and whose
handler has not yet seen it. A failed insert may have stored any of its rows.

`Readings` follows a metric from an exporter that sends a batch again until it is
answered, through ingestion, which publishes the records of a batch one at a time,
to the reading of a resource that the processor loads from Redis, changes and
writes back. With a count of restarts it keeps since when it differs from the one
before, and whatever message comes, newer or not, hands the difference that stands to
the rules; these pass over messages they have seen or that are late, keep what they
count in memory (`engine`), save it to Redis (`saved`) when the handler succeeds, and
take it back when it fails.

**Detection.** `RuleEngine` has no state: `Evaluate(memory, event)` is `evaluate()`
as a function on the engine's memory, with a rule reduced to what it asks of the
engine, a number of samples and a duration, and one resource, so that a rule stands
for its dedupe key. `RuleLifecycle` feeds it the events of a stream in any order and
any number of times. `RuleCatalog` has the ten rules themselves, what each answers
to an event given the state of the resource; `FailureEpisodes` runs them against
failures that begin, are reported by metrics and Kubernetes events, and end.
`Detection` is the statistical detector with its window, hysteresis and cooldown,
its snapshot in Redis, the refresh cycle and the cache of the baselines it reads,
and the log classifier. `Detectors` is these three side by side: no state is shared.

**Processor.** `TelemetryProcessor` is `process`, awaited step by awaited step:
`work[d].at` is where the call for delivery `d` stands, and each step, the steps of
the catch block included, is an action that may be cut off by `Crash`. `memory`,
`hydrated` and `pending` are the two rule engines, `snapshot` and `ledger` are Redis,
`incidents` is PostgreSQL, `announced` and `advancedTo` are the fields of the
consumer that a restart loses, `updated` and `lifecycle` are what was published.
`Fail` is an exception at any step of the try block; where a request may have taken
effect although it failed, that is a disjunct of it. `Advance` is the list, each
read and each write of `advance()`, none of them under the lock of the correlation.
Only one resource is modelled,
so that any active incident may take a new anomaly; what joins what is in
`Correlation`, whose operators are the pure part of the correlation engine, and
`Incidents`, where anomalies of a story (rules, logs and statistics about pods,
containers, a Deployment and a node) join, leave and end incidents, handlers fail
between two statements, and an operator gives an estimate of restoration.

**After the incident.** `SlackTickets` is the ticket of one incident, posted and
updated by two tasks; `SlackSocket` the connection on which acknowledgements come
in; `OnCall` the roster with its shifts and overrides. `IncidentHandling` puts
`Incidents` and these three side by side. `Notification` is the alerting for one
incident. Every task of `apps/notification` that touches the shared rows is a
`thread`: a handler of `incidents.lifecycle` (`Workers`), the sending of one alert
to one recipient on one channel (`Targets`), an HTTP request or a Slack event
(`Requests`) and the recovery poll. `seen` is the copy of the state row that a task
has read and will write back, which is where the races of this service are:
`fallbackToAdmin`, the Slack and API acknowledgements and `resolve` all write the
whole row. `Report` is `processProviderEvent`, for a webhook and for the poll. The
acknowledgement by voice is one transaction, the other two are separate statements.
Three runs of statements are one step: the claim of a `direct:` key and the PENDING
attempt (nobody finds the attempt before it has a request id), the reads with which
a webhook's answer begins and its claim, and the first read of a lifecycle handler
with its delivery.

**The API.** In `Identity` every HTTP request about one account is a task that
advances one awaited call at a time, the locked append to the audit chain included.
In `Billing` the handlers of webhooks, sign-ups and the operator's command are such
tasks. `Plans` is the catalog of tiers. `Onboarding` is the registry with its
project assignments, the job service with its one running child, what
`scripts/cluster.cjs` does on the machine, and the ConfigMap that carries a
machine's identity. The transaction that stores a cluster is two steps, `Adopt` and
`Persist`, between which other requests run: up to the commit they see the row as it
was, and may assign users to it, but not delete it. `TelemetryHistory` is the ClickHouse store, in which a table
keeps several copies of a record until a merge collapses or expires them, beside
the in-process store the tests hold up as its reference; `BaselineHistory` extends
it by what the baseline engine reads.

The modules `MC*` give values to constants for TLC and nothing else. An operator
introduced as a mutant is the definition it precedes, changed as a plausible bug
would change it; `PROJECT.json` names, for each property of each passing run, a
mutant with which TLC finds the property violated.

## 3. What is checked

| Run | Instance | Shows |
|---|---|---|
| `Storage` | a log and a malformed entry, 2 deliveries, batches of 2, handlers that overrun their deadline; fair | acknowledged means stored or dead-lettered; the abstract promise; every entry settles, thanks to the age timer |
| `ProcessorRetries` | two samples about two anomalies, a probe between them, 2 deliveries, every fault but a failing rollback and an expired resource state | Redis snapshot and PostgreSQL agree once all is acknowledged; the abstract promise |
| `ProcessorEpisode` | a malformed entry and three events that open, resolve and stabilize; 1 delivery, every fault | no incident resolved with an open anomaly in it |
| `Detectors` | one pod with 4 events late by at most one, one fault, one refresh; nine samples of two rules in any order; two disturbances of a container | the detector knows what the incidents were told; recent baselines; a log counts once; rules open only after enough distinct samples; health ends what they opened |
| `Readings` | a collector and an agent that send again, a refused batch, a malformed record, 2 deliveries, 2 faults | one message at a time; no message counts twice, and no two count a part of each other |
| `TelemetryHistory` | seven records in two copies, three searches, four aggregations, a retention of one, one slot of warnings | no page skips a record; the two stores answer alike; evidence and baselines read the windows they promise |
| `Incidents` | four stories of three anomalies, 4 events, 2 incidents, a failure and an operator; a ticket with 3 versions and 2 faults; 3 sockets; 3 roster entries by 2 editors | resolved is quiet, nothing is forgotten, joining never lowers; one ticket message, honest claims, a ticket that shows the end; never deaf; an assignment lasts |
| `Notification` | an assigned SRE who is called and the Admin who is texted, one handler, one request, one crash or failed call, lost answers of one of them; fair | nobody alerted twice but by a repeated request, only an acknowledgement stops; without faults everybody named is contacted and a failed call brings in the Admin; the poll ends calls |
| `Identity` | two requests of any kind, one crash or failed call | the audit chain verifies, things are used once, done means recorded |
| `Billing` | two payments and a request of one address, two handlers, also of one event, one failed call; fair | one mail, which opens the account; a payment leads to an account unless two deliveries and a failure, or two failures, lose it |
| `Onboarding` | two machines whose contexts have one name, two organizations, two jobs, one fault; fair | assignments stay inside but for those stored beside an adoption, identities are unique, history is kept, an operation ends |
| `IncidentsEstimate` | the incidents of `Incidents` | *violated*: a resolved incident gets no estimate |

`Storage`, `Readings`, `Detectors` and the others leave everything but the bounds
below free: crashes, restarts, failures and timers happen whenever they can.
Deadlock is not checked where a configuration says so: those systems come to rest
when their stream, stories or requests are used up.

### Bounds, and why they are enough

* **Deliveries per entry** (`MaxDeliver`; the default of the code is 5): two give a
  first, a repeated and a last delivery; the models treat all others alike.
  `ProcessorEpisode` takes one, because its property does not depend on retries.
* **Stream** (`MaxStream`): in `Storage` an entry and a poisonous one, which with
  their redeliveries fill a batch of two; in the processor's runs the events an
  anomaly needs to open, to be resolved and, with the stabilization period, to bring
  the time at which its incident is; in `Readings` what two exporters send twice.
* **Incidents**: at most one per anomaly in the processor; two in `Incidents`, so that
  a deployment and a node have one each and may be linked.
* **Detection**: two levels of a value, one below and one above what triggers, are all
  that the techniques modelled tell apart; a window of one, two samples for the
  warm-up and one for hysteresis, cooldown 1. `MaxLag` 1 lets two events change places.
* **Lost answers** (`MaxLost`, `MaxRetries`): of one recipient, and one repetition
  where the client has two: a call is answered for at once, after a repetition, or not.
* **Tasks**: two requests of one account, two handlers of one address, two jobs, two
  editors: the races here are between pairs. In `Notification` one handler, one
  request, the sends and the poll; two handlers at once are left to the theorems.
* **Faults** (`MaxFaults`, `MaxDisturbances`, `MaxTicketFaults`): one, two in
  `Readings` and of the ticket; a second fault meets the same code from the same states.

### Fairness

Only what the code or its environment guarantees. `Storage`: the broker's timers
run, a handler or a publish ends in some way, a dispatched write succeeds, fails or
times out, the age timer of a batch fires (`setTimeout`, never cleared while the
batch is open), a stopped process is restarted by its supervisor. `Receive` is
strongly fair: a process that crashes for ever is, between crashes, at some point up
long enough for the broker to hand it the entry that is due. `Notification` needs
one weak fairness condition, on all that the worker process and the provider do by
themselves (`Background`), the tick of the recovery scheduler (a `setInterval`) and
the end of a call included, and no webhook. `Billing`: a handler goes on (weak), and
the provider, which sends an event again until it is answered with 200, gets through
between failures (strong). `Onboarding`: the spawned command goes on, and its exit
is reported (weak). Nothing obliges a publisher to publish, a webhook to arrive, a
person to acknowledge or anything to succeed.

## 4. What is proved

Every theorem speaks of all values of the constants, under the assumptions that the
modules name (`StorageAssumption`, `RuleAssumption` and `ProcessorAssumption`,
`DetectionAssumption`, `DetectorsAssumption` and `EpisodesAssumption`,
`ReadingsAssumption`, `NotificationAssumption`, `HandlingAssumption` and
`IncidentsAssumption`, `IdentityAssumption`, `BillingAssumption`,
`OnboardingAssumption`, `HistoryAssumption`, `BaselineAssumption`): the types of the
constants, that names of different kinds differ, that `None` is none of them. TLC evaluates them in the runs. What a theorem
assumes beyond that is said with it.

`TelemetryProcessorProofs` - the processor.

* *One delivery at a time* (`OneAtATime`): with a window of one and handlers that end
  before their deadline there is one entry that the broker waits for, and one call
  of `process` that is not idle. All that follows speaks of that call.
* `ProcessorImplementsAtLeastOnce`. The invariant `LedgerHolds` is `WorkShape`,
  `OneAtATime` and `LedgerInv`: at each step of `process` the ledger says of the
  entry what its claim may rest on, and a delivery that resolved is complete or dead.
  That complete entries stay complete (`CompletedGrows`) is the delicate half: the
  catch block releases a claim whose completion may have been written by the very
  request that failed, which is why `Completed` leaves such entries out.
  Assumption: `~HandlersMayOverrun`. With it, a redelivery that runs beside a slow
  first handler may find the claim released and redo what is complete.
* `NobodyResolvedUnhealthy`, for any failure or crash. `RulesHold`: the memory, the
  snapshot and the anomalies still to be correlated are about the rules' own
  anomalies, and each incident is `Sound`; every change that the correlation engine
  writes is (`CorrelationIsSound`). `advance()` lists incidents whose stabilization has
  begun, which a sound incident's has only if nothing in it is wrong; `DueHolds` says
  that they are still so when it reads and writes them back, statements later.
  Assumption: `~HandlersMayOverrun`, since only another handler could change them
  meanwhile (`OthersIdle`); section 5 says what it then does.
* `IncidentsFollowTheRules`: `TrackedWhenQuiet`. The two stores do not agree while an
  event is handled, nor after a crash in it: what is invariant is that *each rule's*
  anomaly stands in PostgreSQL either as the snapshot says or as the evaluation of
  the pending entry from that snapshot says (`Underway`), that the rules done with
  stand as the latter (`CallOK`), and that the engine's memory is the snapshot, or is
  to be read from it, whenever no call is being evaluated (`EngineInv`). A retry then
  emits the same anomalies again, and correlating one a second time changes nothing
  (`EvaluateSays`, `CorrelatingTells`). Assumptions: `~HandlersMayOverrun`,
  `~RollbackMayFail`, `~StateMayExpire`; section 5 says what happens without them.

`TelemetryStorageProofs` - the storage writer, with or without overrunning handlers,
and the readers of what it wrote, for any records, copies, queries and retention.

* `TypeCorrect`; `AckedIsAlwaysStored`: `AckedIsStored` is not inductive, since an
  acknowledgement is the end of a chain that starts with a write. `IInv` adds
  `WrittenIsStored` (a delivery whose batch resolved is in ClickHouse) and
  `ResolvedIsAccountedFor` (a handler that resolved has its entry stored or
  dead-lettered); each follows the one before by one step of the chain.
* `StorageImplementsAtLeastOnce`: the same invariant gives the guard of
  `AtLeastOnce!Release`.
* `PagesSkipNothing`: `NothingIsSkipped`. `HistoryInv` says that, while a query is read,
  every record promised to it is stored, and was shown or lies beyond the cursor. A page
  is characterised as the first ids of a set in an order (`InOrder`, `PageShows`), so
  that a copy that comes in or is merged away between two pages moves nothing across
  the cursor.
* `StoresAgree`: `AdaptersAgree`, from `SameWithin`: within the retention a record is in
  the one store exactly if it has a copy in the other. The pages are then the same ids
  in the same order (`SamePage`), and the buckets of a start and series, whatever their
  service, have together the samples of the one bucket in process (`TogetherIs`). The
  answers are cut by a limit each in its own order of names; a start that the finer
  answer shows whole is whole in the coarser one (`WholeStarts`, by counting).
* `EvidenceReachesTheEnd`: `EvidenceShowsTheEnd`, by the arithmetic of the windows and
  the order of a page, whose one record is the newest (`OneIsNewest`).
* `BaselinesAvoidDisruption`: `BaselineAvoidsDisruption`. The merged stretches stay apart,
  begin where some range begins and cover all ranges seen (`Merging`), which is shown of
  the fold step by step (`FoldLeftIs`, `ExtendMerges`). The limit on the number of ranges
  is in the property, as in the code, and so is that of the slots read
  (`FirstSlotFacts`).

`DetectorsProofs` - the detectors, for any pods, samples, rules and thresholds.

* `TheDetectorKnows`: `ToldIsKnown`. Detector and incidents disagree while a sample is
  handled. `DetectorInv` says what holds throughout: the incidents were told what
  follows from the committed snapshot, or from it and the pending sample judged by a
  baseline it was judged by before (`ToldOK`), so that a retry says the same again
  (`CallOK`). The exception is in the property (`split`): a retry that finds another
  baseline, or an event let pass by the catch block after it was judged, may say
  something else than the incidents were told.
* `LogsCountOnce`: an aggregate counts no more than the logs that were added to it, and
  the one a log was counted in still takes it in when the log is delivered again
  (`LogInv`).
* `OpensOnRecentBaseline`: what is cached as READY was READY, no longer ago than a
  look-up is cached (`CacheInv`).
* `OpensWhenHeld`: a condition that lasts was shown by as many samples as were counted,
  the first of them when it began, and health was not shown since (`Sustained`). The
  hypothesis `OneSeriesEach` says that each rule is shown its condition and health by
  samples of one series, as the rules of utilization and readiness are. It is needed:
  `observe` ignores what is older than the last sample of its condition, so that
  DEPLOYMENT_DEGRADED, which watches two series, may open although a sample of health
  of the one came in after a later one of the other.
* `HealthEndsAnomalies`: `HealthClears`. What is open and could be cleared has not seen
  the metrics that clear it since all readings tell of health (`EpisodeInv`), rule by
  rule, whatever readings expired in between.

`ReadingsProofs` - for any documents, containers and fields; both theorems assume
`~HandlersMayOverrun`.

* `TelemetryInOrder`: `StrictOrder`, from `OneAtATime` and from the fact that an entry
  is delivered for the first time after all that precede it (`InTurn`).
* `NoRestartTwice`: `RestartsCountedOnce`. `CountInv` says of the reading, and of the
  copy that a handler holds, that every delta counted, by the rules or by what they
  would be taken back to, ends before its own delta begins or is the same; so an
  evaluation adds one that follows the others or repeats the last, from a message not
  seen. It stands on the typing of what flows from the exporters to Redis (`DataInv`).

`NotificationProofs` - for every set of recipients, channels, handlers and requests.

* `NobodyAlertedTwice`, `AlwaysStoppedBySomebody`, `TypeCorrect`. `IInv` adds to the
  types what the argument is about: a target that is about to be called, or was, has
  its `direct:` key in `claims`, and one about to be called has not been answered for
  (`ClaimedBeforeAlert`); a task at `read-state` or `stop` has an acknowledgement
  behind it (`TasksHoldTheirs`); what is linked has a status to report
  (`AcceptedHasStatus`). That no stale write acknowledges for nobody is the last
  conjunct of `TypeOK`: what a task will write back was active when it was read.
* `EveryoneIsContacted`, `FailuresReachTheAdmin`. The invariant `Sure` follows each
  alert while no fault has happened: whoever the row names is contacted, claimed, or
  on the list of a task that will call (`NamedArePledged`); what is claimed leads to a
  contact (`ClaimsAreKept`); a stored failure has a task on its way to the claim of
  the fallback (`FailureIsHandled`), and that claim one on its way to the Admin
  (`FallbackIsKept`).

`IdentityProofs` - for any number of requests at once, crashes and failed calls.

* `TrailVerifies`, `EachServesOnce`, `DoneMeansRecorded`, from `IdentityHolds`. The
  invariant says that one writer holds the lock and has read the last record
  (`OneWriter`); that a challenge, code or token is marked spent by one request and
  stays spent in every copy that is still to be written back (`MadeOnce`,
  `StaysSpent`); and that a request which may still answer has its recording ahead
  of it (`WillRecord`). Requests are reasoned about by the calls they have left.

`ProvisioningProofs` - accounts, clusters and the plans that rule both; for any number
of buyers, payments, sign-ups and commands, machines, organizations, administrators
and jobs.

* `OneMailEach`, `MailOpens`, from `BillingHolds`: of the handlers of one address one
  at most has its mail ahead of it (`OneMails`), and the password of an account is
  mailed or in the hands of a handler that will mail it (`NoneIsLost`).
* `WellTyped`, `NobodyReachesAcross`, `OneIdentityEach`, `NoHistoryLostUnasked`.
  `AssignmentsStayInside` needs `AdoptionInv`: beside an adoption there are only
  assignments of the default organization, all stored meanwhile.
  `IdentityIsUnique` needs `IdentityInv`: the identifier of a running job is fresh
  until the ConfigMap of its machine holds it, and an identifier found there is
  reused only for the same machine.
* `RefusalNamesTheUpgrade`, `LimitRefusalNamesTheUpgrade`, `HigherIncludesLower`: the
  guard of a module and the upgrade its refusal names agree.

`IncidentHandlingProofs` - the incidents and the parts beside them.

* `ResolvedWhenQuiet`, `NoAnomalyForgotten`, for any anomalies, events, redeliveries and
  crashes, from `IncidentInv`: what an incident, stored or read, has as resolved has
  ended, and it stabilizes since the last of them (`Sane`); the incident in which the
  database finds an anomaly is the one that has it, as it was last told, unless its
  event is pending (`NothingLost`). Both properties except an estimate that overlapped
  another write (`stale`), which section 5 shows to be needed.
* `JoiningLowersNothing`: as long as a classification stays, severity and confidence
  grow with the set of signals (`WorstGrows`, `SeverityGrows`, `ConfidenceGrows`).
* `OneMessageEach`, `ClaimsTellTheThread`, `TicketEndsAsIncident`, from `TicketInv`:
  one task holds the claim of the ticket, what is claimed is in the thread or being
  sent (`HonestInv`), and the ticket has caught up with the events handled
  (`CaughtUp`).
* `NeverDeafNorTwiceListening`: at most one of the fields `connecting`, `socket` and
  `reconnectTimer` is set and agrees with the states of the sockets (`FieldsAgree`).
* `OnCallUntilThen`: no two entries overlap but those checked at once (`NoOverlaps`).

Model-checked only: all liveness (`EveryEntrySettles`, `NoCallLeftInProgress`,
`PaidGetsAccount`, `EveryOperationEnds`), since fairness and ENABLED are beyond the
prover. The library's induction theorems cannot be used with these provers; proofs that
need induction, over folds and flattened sequences, go by the least number for which a
statement fails (`ReadingsProofs`, `TelemetryStorageProofs`).

## 5. Where the code and its documents disagree

With a run:

* `apps/api/src/incidents.controller.ts:164` says that a resolved incident cannot
  receive a restoration estimate. `updateEta` checks the aggregate it read and writes
  all of it back; an incident that the processor resolves in between is open again,
  with an estimate (`IncidentsEstimate`).

Stated in a module, violated there with the constants named, and kept without a run:

* `docs/TELEMETRY-STORAGE.md:74-75` promises that an entry that exhausts its retries
  is preserved. The dead letter is written by the handler of the last delivery; if
  the process dies in it, or that publish fails, the broker drops the entry
  (`QueueSubscription!ExhaustedIsPreserved`).
* `docs/INFRASTRUCTURE.md:55-56` says an entry is acknowledged only after its
  operational events are complete. `publishedIncidents` is written before the
  lifecycle event is (`telemetry.consumer.ts:381`), so that a creation may never be
  announced; a resolution that `advance()` has stored is not found again by the
  retry; and two changes of one incident by one event share a message id, of which
  the stream keeps the first (`TelemetryProcessor!OutgoingEventsComplete`).
* `docs/INFRASTRUCTURE.md:50-53` says ledger, rule state and unique anomaly references
  together make redelivery safe. With `RollbackMayFail`, `StateMayExpire` or
  `HandlersMayOverrun` set, `TrackedWhenQuiet` fails: an anomaly is active in the
  snapshot and in no incident, or an incident keeps one that no rule will resolve.
* `docs/CALLING-AGENT.md:130-131` says an acknowledgement stops new alerting and a
  resolution closes the notification state. An acknowledgement that is stored while
  `fallbackToAdmin` is between reading the row and writing it back is undone
  (`notification.service.ts:187`, `Notification!ClosedStaysClosed`).

Met while modelling, and visible in the models:

* *Incidents.* Signals of a Deployment carry its uid and those of its pods do not, so
  that they make two incidents, not the one of `tests/incidents.test.cjs` ("multiple
  unavailable replicas plus deployment degradation become one critical incident")
  and `README.md:331-334`. The key of `packages/database/src/index.ts:257-263`
  may refuse an incident (`refused`), and its event is retried until it is dead. An
  incident with an anomaly of a log never resolves. With a handler that outlives its
  deadline, an incident that `advance()` has listed may be joined before
  `resolveIncident` reads it, which resolves it with an open anomaly, or between that
  read and its write, which undoes the joining (`ReadDue`, `StoreResolved`). A crash after `resolveIncident`
  leaves a resolution unannounced; after a restart INCIDENT_CREATED is announced again.
* *Slack.* A manual and an automatic creation at once, or a lost answer, post two
  messages (`raced`, `repeated`; comment at `slack-incident-ticket.publisher.ts:122`);
  a reply whose answer is lost is posted again, by `SlackClient.request` or with the
  next event (`unanswered`);
  a crash between claim and release leaves the claim. A service stopped while it asks
  for an address still opens the socket (`slack-socket-mode.service.ts:64`).
* *Notification.* "Duplicate incident lifecycle events do not create duplicate attempts"
  (`docs/CALLING-AGENT.md:127`), but a call may be placed up to three times: the
  provider's client repeats a request it has no answer to (`maxRetries: 2`,
  `retell.provider.ts:117-125`), no key tells the provider that it is the same, and
  what comes of the calls that were not answered for is dropped, an acknowledgement
  included. `AlertedOnce` counts these apart (`lost`). The poll asks for a call even
  when the attempt is a text (`recovery-scheduler.service.ts:56`), which no poll ends.
  With one fault `EveryRecipientIsContacted` fails: the row names its
  recipients before the first of them is contacted, and after a crash the redelivered
  event finds them there and returns. `FailureReachesAdmin` fails likewise, since the
  claim of the fallback is not released by a failure after it.
* *Restarts.* For a sample that is not newer the resource state still hands over the
  difference that stands (`redis-resource-state.ts:57`), and a collector that sends a
  batch again gives its samples new identifiers: a sample with the time of the one that
  stands passes the rules' guards (`in-memory-rule-engine.ts:55-65`) and counts the
  same restarts again. `RestartsCountedOnce` allows that repetition and no other.
* *Rules.* Out-of-memory anomalies of a pod, and failed scheduling or mounting seen on
  a Deployment or node, are never cleared, against `README.md:295`; a healthy
  container whose last termination was an OOM kill opens one again when the restart
  reading expires.
* *Read model.* ClickHouse groups the samples of a metric by service too
  (`clickhouse/src/store.ts:239`), the in-process store it is said to match does not
  (`in-memory-store.ts:151-158`), and names are ordered by bytes in the one and by
  locale in the other, so that a limit may cut different series of the last start.
* *Baselines.* The slots with a warning are read earliest first with a limit of 200
  (`engine.ts:201`), and 24 hours have 288 slots of five minutes: of a workload that
  was disrupted all day the last hours enter its baseline.
  The guard of `history.ts:168` counts a redelivered record twice, against
  `docs/TELEMETRY-STORAGE.md:137-139`. The evidence of a range whose trail exceeds the
  largest range lies after the incident.
* *Billing.* `findByUserId` takes an active row before others and the latest of them
  (`database/src/billing.ts:116-128`), so that a customer who pays for two has the
  tier of the newer, be it the lower one; a late `subscription.updated`
  revives a cancelled row (`subscription-lifecycle.service.ts:35`); credentials are
  never mailed if the update after `users.create` fails. A payment is lost, without an
  account and without another delivery of its event, in three ways: a second delivery
  is answered 200 as a duplicate (`billing.controller.ts:234-238`) while the first is
  under way, which then fails and releases the claim; an attempt fails and so does the
  release (line 268); the process stops between the two. `PaidGetsAccount` names the
  first two as exceptions, and `Billing` has no crash for the third.
* *Onboarding.* A cluster may be adopted while a user of the default organization is
  assigned to it: the adoption's `NOT EXISTS` (`scripts/cluster.cjs:317-327`) does not
  see the uncommitted assignment, nor the trigger of migration 0025 the uncommitted
  adoption, and both commit. `AssignmentsStayInside` excepts the assignments stored
  between the two (`raced`), and fails without the exception. Two requests count the clusters before either stores one
  (`entitlements.ts:123`, against `docs/SUBSCRIPTIONS.md:192`); the row of an
  uninstalled cluster returns under the default organization
  (`docs/ONBOARDING.md:270-272`); the server keeps one local state file for all
  machines (`scripts/cluster.cjs:1147`), and a ConfigMap that cannot be read gives a
  machine a second identity.
* *Identity.* The last recovery code cannot be used: the check `users_mfa_configuration`
  refuses the row.

## 6. What is left out

* *Data.* Severity, confidence, titles, evidence lists and wording, unless a property
  is about them; names and tokens; the statistics of a baseline (median, deviation,
  percentiles) and the trend and percentile techniques; the text of log patterns.
* *Capacities and lifetimes longer than a run*: eviction beyond 10,000 rule keys and
  5,000 signals, the keys of the ledger, the duplicate window of the stream, the
  history of the rules (their key, and the five minutes for which they remember
  messages and restarts). Times have one unit, where Redis compares nanoseconds and
  the rules milliseconds.
* *Processor*: in `TelemetryProcessor` the statistical detector and the log classifier
  (they swallow their own errors; `Detection` has them) and all resources but one.
* *Notification*: messages to end users and test calls, the communications and audit
  tables, the settings of a policy, retention; more than one incident, because no two
  share a row. Two handlers at once are covered by the theorems only.
* *Identity*: creation and removal of users, signatures, hashing, the in-memory
  repository for tests. *Billing*: checkout and portal sessions, which keep no state
  here, the deletion of accounts, and a crash. *Onboarding*: the interactive commands,
  the assignment of SREs, and what a single statement sees change while it runs, as a
  row deleted and made anew between the trigger of an assignment and its foreign key.
  `Crash` ends the child with the API, whereas a child of Node may outlive its parent;
  `EveryOperationEnds` says nothing of a child that cannot be spawned or reports its
  exit twice. *Ingestion*: the
  translation of logs and events, which is like that of metrics.
* Reporting, e-mail layout, configuration, health checks, redaction, the set-up and
  clean-up scripts: text and I/O.

## 7. What is next

1. `OpensWhenHeld` for rules of two series: the weaker statement that holds of them.
2. `LedgerHolds` for the overrunning handlers of `docs/INFRASTRUCTURE.md`: which part of
   it survives.
