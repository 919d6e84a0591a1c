------------------------------ MODULE Readings ------------------------------
(***************************************************************************)
(* Metrics from exporters to the reading of a resource: the exporters,     *)
(* which send a batch again until it is answered; apps/ingestion, which    *)
(* translates a batch and publishes its records one at a time; the queue   *)
(* (QueueSubscription, one delivery at a time); and the resource state of  *)
(* apps/processor, read from Redis, changed and written back.              *)
(*                                                                         *)
(* A record is [status, samples]: a data point has one sample, a snapshot  *)
(* of a workload several.  A sample is [field, value, time], of the one    *)
(* resource, on the clock of `now', of which it may be ahead; its field is *)
(* "log" for a log, which changes nothing and looks the reading up.        *)
(* `content' holds the messages of the stream, `reading' is the key in     *)
(* Redis and `held' what a handler has read of it.  `engine' is what the   *)
(* rules know of restarts, and `saved' their state in Redis: the messages  *)
(* seen, the latest time, and the deltas counted, each by the times        *)
(* between which it lies.  `ahead' is history: whether a sample was ahead  *)
(* of the clock.                                                           *)
(***************************************************************************)
EXTENDS Naturals, Sequences, FiniteSets, SequencesExt

CONSTANTS
  MaxStream, MaxDeliver, HandlersMayOverrun,   \* as in QueueSubscription
  Exporters,     \* OTLP collectors and clients of the REST routes
  Source,        \* "otlp" or "rest", for each exporter
  Batches,       \* the batches of each: sequences of sequences of records
  MaxAttempts,   \* times a batch is sent before the exporter gives it up
  Ttl, Lead,     \* age at which a sample expires, and how far it may be ahead
  MaxTime, MaxFaults, None

SampleTypes == [field : STRING, value : Nat, time : Nat]
KeptTypes == [value : Nat, time : Nat, since : Nat \union {None}]
RecordTypes == [status : {"ok", "malformed", "rejected"}, samples : Seq(SampleTypes)]

ASSUME ReadingsAssumption ==
  /\ MaxStream \in Nat /\ MaxDeliver \in Nat \ {0} /\ HandlersMayOverrun \in BOOLEAN
  /\ Source \in [Exporters -> {"otlp", "rest"}]
  /\ Batches \in [Exporters -> Seq(Seq(RecordTypes))]
  /\ MaxAttempts \in Nat \ {0} /\ Ttl \in Nat \ {0} /\ Lead \in Nat
  /\ MaxTime \in Nat /\ MaxFaults \in Nat
  /\ None \notin Nat /\ None \notin KeptTypes

VARIABLES
  published, attempts, broker, task, client, handled, dlq,   \* the subscription
  sending, attempt, request, content, now, reading, held, engine, saved, faults, ahead

queueVars == <<published, attempts, broker, task, client, handled, dlq>>
exporter == <<sending, attempt>>
counting == <<engine, saved, ahead>>
vars == <<queueVars, exporter, request, content, now, reading, held, faults, counting>>

Queue == INSTANCE QueueSubscription WITH MaxAckPending <- 1, Poison <- {}

Entries == Queue!Entries
Deliveries == Queue!Deliveries

Records == UNION {UNION {Range(b) : b \in Range(Batches[x])} : x \in Exporters}
Samples == UNION {Range(r.samples) : r \in Records}
Fields == {s.field : s \in Samples} \ {"log"}

Unread == [f \in Fields |-> None]
NoKey == [samples |-> Unread, until |-> 0]
NotRead == [at |-> "start", samples |-> Unread]
NothingSeen == [seen |-> {}, watermark |-> 0, counted |-> <<>>]

Init ==
  /\ Queue!Init
  /\ sending = [x \in Exporters |-> 1] /\ attempt = [x \in Exporters |-> 1]
  /\ request = [x \in Exporters |-> None] /\ content = <<>>
  /\ now = 0 /\ reading = NoKey /\ held = [d \in Deliveries |-> NotRead]
  /\ engine = NothingSeen /\ saved = NothingSeen /\ faults = 0 /\ ahead = FALSE

Fault == faults < MaxFaults /\ faults' = faults + 1

-----------------------------------------------------------------------------
(* Ingestion. *)

Sent(x) == IF sending[x] \in DOMAIN Batches[x] THEN Batches[x][sending[x]] ELSE <<>>

(* One malformed record refuses an OTLP batch; any it would reject, REST's. *)
Refused(x) ==
  \E r \in Range(Sent(x)) : r.status = "malformed" \/ (Source[x] = "rest" /\ r.status # "ok")

(* The events of a batch, in order; OTLP rejects single records. *)
Translate(r) == IF r.status = "ok" THEN r.samples ELSE <<>>

Events(batch) == FlattenSeq([i \in DOMAIN batch |-> Translate(batch[i])])

(* An OTLP record gets new identifiers each time it is translated; a REST *)
(* record brings its own.                                                 *)
EventId(x, k) == <<x, sending[x], k, IF Source[x] = "otlp" THEN attempt[x] ELSE 0>>

NextBatch(x) ==
  /\ sending' = [sending EXCEPT ![x] = @ + 1]
  /\ attempt' = [attempt EXCEPT ![x] = 1]

Ask(x, r) == request' = [request EXCEPT ![x] = r]

Send(x) ==
  /\ sending[x] <= Len(Batches[x]) /\ request[x] = None
  /\ \/ ~Refused(x) /\ Ask(x, 1) /\ UNCHANGED exporter
     \/ Refused(x) /\ NextBatch(x) /\ UNCHANGED request
  /\ UNCHANGED <<queueVars, content, now, reading, held, faults, counting>>

(* JetStream stores a message identifier once. *)
IsStored(id) == \E k \in DOMAIN content : content[k].id = id

Enqueue(x, k) ==
  IF IsStored(EventId(x, k)) THEN UNCHANGED <<queueVars, content>>
  ELSE /\ Queue!Publish
       /\ content' = Append(content, [id |-> EventId(x, k), sample |-> Events(Sent(x))[k]])

(* An open request publishes one event after the other. *)
Publishing(x) == request[x] # None /\ request[x] <= Len(Events(Sent(x)))
Published(x) == request[x] # None /\ request[x] > Len(Events(Sent(x)))

PublishEvent(x) ==
  /\ Publishing(x) /\ Enqueue(x, request[x]) /\ Ask(x, request[x] + 1)
  /\ UNCHANGED <<exporter, now, reading, held, faults, counting>>

(* Answered with 503, or not at all: sent again, unless for too long. *)
Again(x) ==
  /\ Ask(x, None)
  /\ IF attempt[x] < MaxAttempts
       THEN attempt' = [attempt EXCEPT ![x] = @ + 1] /\ UNCHANGED sending
       ELSE NextBatch(x)

(* The publish fails, having stored the message or not; what was published *)
(* before it stays in the stream.                                          *)
PublishFails(x) ==
  /\ Publishing(x) /\ Fault /\ Again(x)
  /\ Enqueue(x, request[x]) \/ UNCHANGED <<queueVars, content>>
  /\ UNCHANGED <<now, reading, held, counting>>

Accept(x) ==
  /\ Published(x) /\ Ask(x, None) /\ NextBatch(x)
  /\ UNCHANGED <<queueVars, content, now, reading, held, faults, counting>>

AnswerLost(x) ==
  /\ Published(x) /\ Fault /\ Again(x)
  /\ UNCHANGED <<queueVars, content, now, reading, held, counting>>

-----------------------------------------------------------------------------
(* The resource state. *)

(* A sample that is too old, or too far ahead, is not a reading. *)
InTime(r) == r.time + Ttl > now /\ r.time <= now + Lead

(* The key expires as a whole, and each sample by its own time. *)
Unexpired(key) ==
  [f \in Fields |-> IF key.until > now /\ key.samples[f] # None /\ key.samples[f].time + Ttl > now
                    THEN key.samples[f] ELSE None]

(* The newest sample wins, and of two of one time the first. *)
Newer(r, previous) == previous = None \/ previous.time < r.time

(* restartChange: no delta without a previous count, or when it was reset. *)
Delta(r, previous) == previous # None /\ previous.value < r.value

(* What is kept of a sample: with its value, since when the delta is. *)
Kept(r, previous) ==
  [value |-> r.value, time |-> r.time,
   since |-> IF r.field = "restart" /\ Delta(r, previous) THEN previous.time ELSE None]

(* The delta of the state, if it has one, as one that a message counts. *)
Counting(entry, standing) ==
  IF standing.since = None THEN engine.counted
  ELSE Append(engine.counted, [entry |-> entry, from |-> standing.since, to |-> standing.time])

\* Mutant of Evaluate: what was seen is not remembered.
EvaluateAgain(entry, time, standing) ==
  IF time < engine.watermark THEN engine
  ELSE [seen |-> {}, watermark |-> time, counted |-> Counting(entry, standing)]

(* The rules pass over a message seen, or of before the latest, and count *)
(* the delta of the state they are given.                                 *)
Evaluate(entry, time, standing) ==
  IF entry \in engine.seen \/ time < engine.watermark THEN engine
  ELSE [seen |-> engine.seen \union {entry}, watermark |-> time,
        counted |-> Counting(entry, standing)]

Event(d) == content[d[1]].sample

Deliver(e) ==
  /\ Queue!Deliver(e)
  /\ UNCHANGED <<exporter, request, content, now, reading, held, faults, counting>>

(* The ledger lets a delivery pass whose entry has not been handled. *)
Begins(d) == task[d] = "handling" /\ held[d].at = "start" /\ d[1] \notin handled

(* update: GET, and what of it has not expired. *)
Read(d) ==
  /\ Begins(d) /\ Event(d).field # "log" /\ InTime(Event(d))
  /\ held' = [held EXCEPT ![d] = [at |-> "read", samples |-> Unexpired(reading)]]
  /\ ahead' = (ahead \/ Event(d).time > now)
  /\ UNCHANGED <<queueVars, exporter, request, content, now, reading, engine, saved, faults>>

(* findForTelemetry: a key of which everything has expired is deleted. *)
LookUp(d) ==
  /\ Begins(d) /\ Event(d).field = "log"
  /\ held' = [held EXCEPT ![d] = [NotRead EXCEPT !.at = "done"]]
  /\ reading' = IF Unexpired(reading) = Unread THEN NoKey ELSE reading
  /\ UNCHANGED <<queueVars, exporter, request, content, now, faults, counting>>

(* The sample of the field that stands after an update: the delta of a      *)
(* sample that is not newer is that of the one before it.                   *)
Standing(r, previous) == IF Newer(r, previous) THEN Kept(r, previous) ELSE previous

(* update: SET, with the time to live of a whole key, if the sample is      *)
(* newer; and the rules evaluate it with the state there is.                *)
Write(d) ==
  LET r == Event(d)
      previous == held[d].samples[r.field]
  IN /\ task[d] = "handling" /\ held[d].at = "read"
     /\ held' = [held EXCEPT ![d] = [NotRead EXCEPT !.at = "done"]]
     /\ reading' = IF Newer(r, previous)
                   THEN [samples |-> [held[d].samples EXCEPT ![r.field] = Kept(r, previous)],
                         until |-> now + Ttl]
                   ELSE reading
     /\ engine' = IF r.field = "restart"
                  THEN Evaluate(d[1], r.time, Standing(r, previous)) ELSE engine
     /\ UNCHANGED <<queueVars, exporter, request, content, now, saved, faults, ahead>>

(* The rules have something to save: a log does not concern them. *)
Evaluated(d) == held[d].at = "done" /\ Event(d).field # "log"

Drop(d) == held' = [held EXCEPT ![d] = NotRead]

(* The rest of the handler ends, the sample having been used or ignored. *)
Resolve(d) ==
  /\ task[d] = "handling"
  /\ held[d].at = "done" \/ (held[d].at = "start" /\ (d[1] \in handled \/ (Event(d).field # "log" /\ ~InTime(Event(d)))))
  /\ Queue!HandlerResolves(d) /\ Drop(d)
  /\ saved' = IF Evaluated(d) THEN engine ELSE saved
  /\ UNCHANGED <<exporter, request, content, now, reading, engine, faults, ahead>>

(* It throws: before the update, or in what comes after it, before or after *)
(* the rules are saved; and takes the rules back, unless that fails too.    *)
Throw(d) ==
  /\ task[d] = "handling" /\ held[d].at # "read" /\ Fault /\ Drop(d)
  /\ Queue!Nak(d) \/ Queue!GiveUp(d)
  /\ saved' = saved \/ (Evaluated(d) /\ saved' = engine)
  /\ engine' = engine \/ engine' = saved'
  /\ UNCHANGED <<exporter, request, content, now, reading, ahead>>

Settle(d) ==
  /\ Queue!Ack(d) \/ Queue!DeadLetter(d)
  /\ UNCHANGED <<exporter, request, content, now, reading, held, faults, counting>>

(* What a stopped process held is delivered again when its time is up. *)
AckWaitExpires(e) ==
  /\ Queue!AckWaitExpires(e)
  /\ UNCHANGED <<exporter, request, content, now, reading, held, faults, counting>>

Crash ==
  /\ Fault /\ Queue!Crash
  /\ held' = [d \in Deliveries |-> NotRead] /\ engine' = saved
  /\ UNCHANGED <<exporter, request, content, now, reading, saved, ahead>>

Restart ==
  /\ Queue!Restart
  /\ UNCHANGED <<exporter, request, content, now, reading, held, faults, counting>>

Tick ==
  /\ now < MaxTime /\ now' = now + 1
  /\ UNCHANGED <<queueVars, exporter, request, content, reading, held, faults, counting>>

-----------------------------------------------------------------------------
Next ==
  \/ \E x \in Exporters : Send(x) \/ PublishEvent(x) \/ PublishFails(x) \/ Accept(x) \/ AnswerLost(x)
  \/ \E e \in Entries : Deliver(e) \/ AckWaitExpires(e)
  \/ \E d \in Deliveries : Read(d) \/ LookUp(d) \/ Write(d) \/ Resolve(d) \/ Throw(d) \/ Settle(d)
  \/ Crash \/ Restart \/ Tick

Spec == Init /\ [][Next]_vars

-----------------------------------------------------------------------------
(* Telemetry is handled strictly in order, also when a delivery is retried *)
(* or the process restarts (packages/queue/src/index.ts:58).               *)
StrictOrder == Queue!StrictOrder

(* A message counts once, however often it is delivered, and no two deltas *)
(* count a part of each other: their intervals follow one another, or are  *)
(* the one delta that stood when another message came that was not newer.  *)
(* That is as long as no sample was ahead of the clock.                    *)
Follows(i, k) == i.to <= k.from
Same(i, k) == i.from = k.from /\ i.to = k.to

RestartsCountedOnce ==
  ahead \/ \A j, k \in DOMAIN engine.counted : j < k =>
    LET earlier == engine.counted[j]
        later == engine.counted[k]
    IN earlier.entry # later.entry /\ (Follows(earlier, later) \/ Same(earlier, later))
=============================================================================
