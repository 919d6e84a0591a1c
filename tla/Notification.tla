---------------------------- MODULE Notification ----------------------------
(***************************************************************************)
(* Alerting for one incident by apps/notification: lifecycle handlers that *)
(* open and close the notification state, one task per alert sent, the     *)
(* provider's webhooks and the recovery poll that report outcomes, the     *)
(* acknowledgements by voice, Slack and the API, and the one-time fallback *)
(* to the primary Admin.                                                   *)
(*                                                                         *)
(* Each task is a `thread`: a step is one statement on the shared rows,    *)
(* and whatever a task has read before it is its own, possibly stale copy. *)
(***************************************************************************)
EXTENDS Naturals, FiniteSets, Sequences

CONSTANTS
  Targets,       \* recipient and channel pairs, each with a direct:... key
  Assigned,      \* targets of the SREs assigned to the incident's cluster
  Admins,        \* targets of the primary Admin
  Voice,         \* targets that are called; the others are texted
  Workers,       \* handlers of incidents.lifecycle (2: one may outlive ackWait)
  Requests,      \* HTTP requests served at a time: webhooks, Slack, the API
  Signals,       \* Slack replies and reactions, by event id
  Api,           \* who acknowledges by POST /incidents/:id/acknowledge
  Recovery,      \* the tick of the recovery scheduler
  None,          \* no value
  MaxEvents,     \* bound: lifecycle events published
  MaxDeliver,    \* deliveries of an event
  MaxRetries,    \* requests of a call the provider's client repeats
  MaxFaults,     \* bound: crashes and failed database calls
  MaxLost        \* bound: targets of which an answer is lost

Events  == 1..MaxEvents
Threads == Targets \union Workers \union Requests \union {Recovery}

\* The statuses of an attempt, and their order.
Rank == [PENDING |-> 0, SENT |-> 1, IN_PROGRESS |-> 2, ANSWERED |-> 3,
         COMPLETED |-> 4, DELIVERED |-> 4, ACKNOWLEDGED |-> 5, DECLINED |-> 5,
         FAILED |-> 5, NO_ANSWER |-> 5, CANCELLED |-> 5]
Statuses == DOMAIN Rank

ASSUME NotificationAssumption ==
  /\ Assigned \union Admins \union Voice \subseteq Targets
  /\ Assigned \intersect Admins = {}
  /\ Targets \intersect (Workers \union Requests \union {Recovery}) = {}
  /\ Workers \intersect (Requests \union {Recovery}) = {}
  /\ Recovery \notin Requests
  /\ None \notin Targets \union Signals \union {Api}
  /\ None \notin {"ACTIVE", "ACKNOWLEDGED", "RESOLVED"} \union Statuses
  /\ MaxEvents \in Nat \ {0} /\ MaxDeliver \in Nat \ {0} /\ MaxFaults \in Nat
  /\ MaxRetries \in Nat /\ MaxLost \in Nat

VARIABLES
  incident,    \* the incident's row: "OPEN" or "RESOLVED"
  inbox,       \* lifecycle events: the incident status each one carries
  deliveries,  \* [Events -> 0..MaxDeliver]
  settled,     \* events acknowledged or given up
  state,       \* the row of incident_notification_states
  ack,         \* the row of incident_acknowledgements: who acknowledged first
  claims,      \* keys of notification_idempotency
  attempt,     \* [Targets -> status], the rows of notification_attempts
  linked,      \* targets whose attempt has its provider_request_id
  call,        \* [Targets -> what the provider's call or message has come to]
  alerts,      \* history: [Targets -> requests the provider has accepted]
  lost,        \* [Targets -> requests it accepted whose answer did not arrive]
  thread,      \* [Threads -> where each task is and what it holds]
  faults

queueVars == <<inbox, deliveries, settled>>
rowVars   == <<state, ack, claims, attempt, linked>>
phoneVars == <<call, alerts, lost>>
vars == <<incident, queueVars, rowVars, phoneVars, thread, faults>>

-----------------------------------------------------------------------------
(* Statuses *)

Failures == {"FAILED", "NO_ANSWER", "CANCELLED", "DECLINED"}
Terminal == Failures \union {"COMPLETED", "DELIVERED", "ACKNOWLEDGED"}

CanTransition(from, to) ==
  from = to \/ (from \notin Terminal /\ Rank[to] >= Rank[from])

\* mapRetellStatus of what the provider knows. NO_ANSWER stands for the other
\* failures of a call too; a webhook may carry an older status.
StatusOf(c) ==
  CASE c = "ongoing"    -> "IN_PROGRESS"
    [] c = "ended"      -> "ANSWERED"
    [] c = "delivered"  -> "DELIVERED"
    [] c = "unanswered" -> "NO_ANSWER"
    [] c = "declined"   -> "DECLINED"

Reports(t) == IF call[t] = None THEN {} ELSE {"IN_PROGRESS", StatusOf(call[t])}

NoRow == [status |-> None, recipients |-> {}]

\* ClusterRecipientResolver.resolve: the Admin only when no SRE is contactable.
Recipients == IF Assigned = {} THEN Admins ELSE Assigned

\* The keys of notification_idempotency.
SendKey(t)      == <<"send", t>>
FallbackKey     == <<"fallback", None>>
AnswerKey(t, a) == <<a, t>>
SlackKey(s)     == <<"slack", s>>

-----------------------------------------------------------------------------
(* Tasks *)

Idle == [at |-> "idle", on |-> None, seen |-> NoRow,
         todo |-> {}, mine |-> {}]

At(p, stage) == thread[p].at = stage
Goto(p, stage) == thread' = [thread EXCEPT ![p].at = stage]
GotoHolding(p, stage, row) ==
  thread' = [thread EXCEPT ![p].at = stage, ![p].seen = row]
Dispatching(p, targets) ==
  thread' = [thread EXCEPT ![p].at = "dispatch", ![p].todo = targets]

Settle(e) == settled' = settled \union {e}

\* A task ends; the handler of a lifecycle event acknowledges it.
Finish(p) ==
  /\ thread' = [thread EXCEPT ![p] = Idle]
  /\ settled' = IF p \in Workers THEN settled \union {thread[p].on} ELSE settled
  /\ UNCHANGED <<inbox, deliveries>>

\* What the broker does with the deliveries that end without acknowledgement.
GivenUp(ps) ==
  {e \in Events : deliveries[e] = MaxDeliver /\ \E p \in ps : thread[p].on = e}

\* A task throws: a lifecycle handler asks for a retry, a Slack handler releases
\* its claim, and a send leaves the exception to the task that awaits it.
Throw(p) ==
  /\ thread' = [thread EXCEPT
       ![p] = IF p \in Targets THEN [Idle EXCEPT !.at = "threw"] ELSE Idle]
  /\ settled' = settled \union GivenUp({p} \intersect Workers)
  /\ claims' = IF thread[p].on \in Signals THEN claims \ {SlackKey(thread[p].on)} ELSE claims
  /\ UNCHANGED <<incident, inbox, deliveries, state, ack, attempt, linked,
                 phoneVars>>

Init ==
  /\ incident = "OPEN"
  /\ inbox = <<"OPEN">>
  /\ deliveries = [e \in Events |-> 0]
  /\ settled = {}
  /\ state = NoRow
  /\ ack = None
  /\ claims = {}
  /\ attempt = [t \in Targets |-> None]
  /\ linked = {}
  /\ call = [t \in Targets |-> None]
  /\ alerts = [t \in Targets |-> 0]
  /\ lost = [t \in Targets |-> 0]
  /\ thread = [p \in Threads |-> Idle]
  /\ faults = 0

-----------------------------------------------------------------------------
(* The incident and the provider *)

ResolveIncident ==
  /\ incident = "OPEN"
  /\ Len(inbox) < MaxEvents
  /\ incident' = "RESOLVED"
  /\ inbox' = Append(inbox, "RESOLVED")
  /\ UNCHANGED <<deliveries, settled, rowVars, phoneVars, thread, faults>>

\* A severity or status change: the event repeats the open incident.
UpdateIncident ==
  /\ incident = "OPEN"
  /\ Len(inbox) < MaxEvents
  /\ inbox' = Append(inbox, "OPEN")
  /\ UNCHANGED <<incident, deliveries, settled, rowVars, phoneVars, thread,
                 faults>>

CallEnds(t) ==
  /\ call[t] = "ongoing"
  /\ \E c \in IF t \in Voice THEN {"ended", "unanswered", "declined"}
              ELSE {"delivered"} : call' = [call EXCEPT ![t] = c]
  /\ UNCHANGED <<incident, queueVars, rowVars, alerts, lost, thread, faults>>

-----------------------------------------------------------------------------
(* Lifecycle events *)

AlreadyNotified == state.status # None
                     /\ (state.status # "ACTIVE" \/ state.recipients # {})

\* handleIncident of an event of an open incident, severe enough for the policy:
\* it reads the state, and an incident that has one is not alerted for again.
Notify(w, e) ==
  IF AlreadyNotified THEN Settle(e) /\ UNCHANGED thread
  ELSE /\ thread' = [thread EXCEPT ![w].at = "open", ![w].on = e]
       /\ UNCHANGED settled

\* resolve(): read the row, and write it back closed.
ReadToResolve(w, e) ==
  IF state.status \in {None, "RESOLVED"} THEN Settle(e) /\ UNCHANGED thread
  ELSE /\ thread' = [thread EXCEPT ![w].at = "close", ![w].on = e,
                                   ![w].seen = state]
       /\ UNCHANGED settled

\* The subscription delivers events in order, one at a time: an event follows
\* when the one before it is settled. While a handler overruns its ack wait,
\* the same event can be delivered again.
Receive(w) ==
  /\ At(w, "idle")
  /\ \E e \in 1..Len(inbox) :
       /\ e \notin settled
       /\ \A f \in 1..(e - 1) : f \in settled
       /\ deliveries[e] < MaxDeliver
       /\ deliveries' = [deliveries EXCEPT ![e] = @ + 1]
       /\ IF inbox[e] = "RESOLVED" THEN ReadToResolve(w, e) ELSE Notify(w, e)
  /\ UNCHANGED <<incident, inbox, rowVars, phoneVars, faults>>

\* The row names its recipients before any of them is contacted.
Open(w) ==
  /\ At(w, "open")
  /\ state' = [status |-> "ACTIVE", recipients |-> Recipients]
  /\ Dispatching(w, Recipients)
  /\ UNCHANGED <<incident, queueVars, ack, claims, attempt, linked, phoneVars,
                 faults>>

CloseResolved(w) ==
  /\ At(w, "close")
  /\ state' = [thread[w].seen EXCEPT !.status = "RESOLVED"]
  /\ Finish(w)
  /\ UNCHANGED <<incident, ack, claims, attempt, linked, phoneVars, faults>>

-----------------------------------------------------------------------------
(* Sending an alert *)

\* `send` claims the target's key and stores a PENDING attempt, which nobody
\* can find by a request id; whoever finds the key claimed has nothing to do.
StartSend(p, t) ==
  /\ At(p, "dispatch")
  /\ t \in thread[p].todo
  /\ \/ /\ SendKey(t) \in claims
        /\ thread' = [thread EXCEPT ![p].todo = @ \ {t}]
        /\ UNCHANGED <<claims, attempt>>
     \/ /\ SendKey(t) \notin claims
        /\ claims' = claims \union {SendKey(t)}
        /\ attempt' = [attempt EXCEPT ![t] = "PENDING"]
        /\ thread' = [thread EXCEPT
             ![p].todo = @ \ {t}, ![p].mine = @ \union {t},
             ![t] = [Idle EXCEPT !.at = "call", !.on = t]]
  /\ UNCHANGED <<incident, queueVars, state, ack, linked, phoneVars, faults>>

\* Promise.all: the dispatch ends with its last send, or throws with the first.
Dispatched(p) ==
  /\ At(p, "dispatch")
  /\ thread[p].todo = {}
  /\ \A t \in thread[p].mine : At(t, "idle")
  /\ Finish(p)
  /\ UNCHANGED <<incident, rowVars, phoneVars, faults>>

DispatchThrows(p) ==
  /\ At(p, "dispatch")
  /\ \E t \in thread[p].mine : At(t, "threw")
  /\ Throw(p)
  /\ UNCHANGED faults

Accepted(t) == alerts' = [alerts EXCEPT ![t] = @ + 1]

Answered(t) ==
  /\ Accepted(t)
  /\ call' = [call EXCEPT ![t] = "ongoing"]
  /\ Goto(t, "record")
  /\ UNCHANGED lost

\* The answer is lost or late: the client that places calls repeats the request,
\* the one that sends texts gives up. Nobody learns the id of that call, so what
\* comes of it is dropped.
Unanswered(t) ==
  /\ Cardinality({u \in Targets \ {t} : lost[u] # 0}) < MaxLost
  /\ Accepted(t)
  /\ lost' = [lost EXCEPT ![t] = @ + 1]
  /\ Goto(t, IF t \in Voice /\ lost[t] < MaxRetries THEN "call" ELSE "failed")
  /\ UNCHANGED call

\* Mutant of PlaceCall: a refused request is not caught.
PlaceCallUncaught(t) ==
  /\ At(t, "call")
  /\ Answered(t) \/ Unanswered(t) \/ (Goto(t, "idle") /\ UNCHANGED phoneVars)
  /\ UNCHANGED <<incident, queueVars, rowVars, faults>>

\* The provider accepts the request, or refuses it.
PlaceCall(t) ==
  /\ At(t, "call")
  /\ Answered(t) \/ Unanswered(t) \/ (Goto(t, "failed") /\ UNCHANGED phoneVars)
  /\ UNCHANGED <<incident, queueVars, rowVars, faults>>

\* The provider's request id is stored: its webhooks find the attempt only now.
Record(t) ==
  /\ At(t, "record")
  /\ attempt' = [attempt EXCEPT ![t] = "SENT"]
  /\ linked' = linked \union {t}
  /\ Finish(t)
  /\ UNCHANGED <<incident, state, ack, claims, phoneVars, faults>>

\* Mutant of RecordFails: the request is sent again.
RecordFailsRetried(t) ==
  /\ At(t, "record")
  /\ faults < MaxFaults
  /\ faults' = faults + 1
  /\ Goto(t, "call")
  /\ UNCHANGED <<incident, queueVars, rowVars, phoneVars>>

\* A database call throws after the provider accepted, before or after the
\* attempt was stored: the catch block treats the alert as failed.
RecordFails(t) ==
  /\ At(t, "record")
  /\ faults < MaxFaults
  /\ faults' = faults + 1
  /\ \/ UNCHANGED <<attempt, linked>>
     \/ /\ attempt' = [attempt EXCEPT ![t] = "SENT"]
        /\ linked' = linked \union {t}
  /\ Goto(t, "failed")
  /\ UNCHANGED <<incident, queueVars, state, ack, claims, phoneVars>>

\* Whose failed call falls back to the Admin.
FallsBack(t) == t \in Assigned \intersect Voice

\* The catch block of `send`, which has the request id when the answer came.
SendFailed(t) ==
  /\ At(t, "failed")
  /\ attempt' = [attempt EXCEPT ![t] = "FAILED"]
  /\ linked' = IF call[t] # None THEN linked \union {t} ELSE linked
  /\ \/ /\ FallsBack(t)
        /\ Goto(t, "fallback")
        /\ UNCHANGED queueVars
     \/ /\ ~FallsBack(t)
        /\ Finish(t)
  /\ UNCHANGED <<incident, state, ack, claims, phoneVars, faults>>

-----------------------------------------------------------------------------
(* The fallback to the primary Admin *)

\* fallbackToAdmin reads the state and goes on only while alerting is active.
FallbackRead(p) ==
  /\ At(p, "fallback")
  /\ \/ /\ state.status # "ACTIVE"
        /\ Finish(p)
     \/ /\ state.status = "ACTIVE"
        /\ GotoHolding(p, "fallback-claim", state)
        /\ UNCHANGED queueVars
  /\ UNCHANGED <<incident, rowVars, phoneVars, faults>>

FallbackClaim(p) ==
  /\ At(p, "fallback-claim")
  /\ claims' = claims \union {FallbackKey}
  /\ \/ /\ FallbackKey \in claims \/ incident = "RESOLVED"
        /\ Finish(p)
     \/ /\ FallbackKey \notin claims /\ incident = "OPEN"
        /\ Goto(p, "fallback-save")
        /\ UNCHANGED queueVars
  /\ UNCHANGED <<incident, state, ack, attempt, linked, phoneVars, faults>>

\* The row is written back as it was read, with the Admin added.
FallbackSave(p) ==
  /\ At(p, "fallback-save")
  /\ state' = [thread[p].seen EXCEPT !.recipients = @ \union Admins]
  /\ Dispatching(p, Admins)
  /\ UNCHANGED <<incident, queueVars, ack, claims, attempt, linked, phoneVars,
                 faults>>

-----------------------------------------------------------------------------
(* Outcomes: webhooks and the recovery poll *)

Changes(t, status) ==
  attempt[t] # status /\ CanTransition(attempt[t], status)

\* Mutant of TriggersFallback: a call nobody answers does not.
TriggersFallbackIfAnswered(t, status) ==
  FallsBack(t) /\ status \in Failures \ {"NO_ANSWER"}

TriggersFallback(t, status) == FallsBack(t) /\ status \in Failures

\* processProviderEvent: the row is locked while its status changes, and only a
\* report that changes it has consequences. An unknown request id is dropped.
Report(p, t, status) ==
  /\ At(p, "idle")
  /\ t \in linked
  /\ Changes(t, status)
  /\ attempt' = [attempt EXCEPT ![t] = status]
  /\ IF TriggersFallback(t, status) THEN Goto(p, "fallback")
     ELSE UNCHANGED thread
  /\ UNCHANGED <<incident, queueVars, state, ack, claims, linked, phoneVars,
                 faults>>

Webhook(p, t) == \E status \in Reports(t) : Report(p, t, status)

\* Mutant of Poll: only attempts that were never answered by the provider.
PollPending(t) ==
  /\ attempt[t] = "PENDING"
  /\ Report(Recovery, t, StatusOf(call[t]))

\* The tick polls the provider for calls it left in progress. Attempts that are
\* PENDING have no request id, SENT ones are not listed, and the provider knows
\* no call by the id of a text.
Poll(t) ==
  /\ t \in Voice
  /\ attempt[t] = "IN_PROGRESS"
  /\ Report(Recovery, t, StatusOf(call[t]))

Answers == {"acknowledge", "decline"}

\* A webhook of a connected call with the recipient's answer.
\* VoiceActionService.process reads every row it decides on and claims the
\* answer; one not wanted any more is a webhook with a status only.
BeginAnswer(p, t) ==
  /\ At(p, "idle")
  /\ t \in Voice \intersect linked
  /\ call[t] \in {"ongoing", "ended"}
  /\ incident = "OPEN" /\ state.status = "ACTIVE" /\ ack = None
  /\ \E a \in Answers :
       /\ AnswerKey(t, a) \notin claims
       /\ claims' = claims \union {AnswerKey(t, a)}
       /\ thread' = [thread EXCEPT
            ![p] = [Idle EXCEPT !.at = a, !.on = t, !.seen = state]]
  /\ UNCHANGED <<incident, queueVars, state, ack, attempt, linked, phoneVars,
                 faults>>

\* queue.publish(...).catch(() => undefined)
MayPublishOpen ==
  \/ UNCHANGED inbox
  \/ /\ Len(inbox) < MaxEvents
     /\ inbox' = Append(inbox, "OPEN")

\* PostgresAcknowledgementTransaction: one commit for the first acknowledgement,
\* the state if it is still active, and the attempt. The status of the same
\* webhook comes after a terminal one and changes nothing.
Acknowledge(p) ==
  /\ At(p, "acknowledge")
  /\ ack' = IF ack = None THEN thread[p].on ELSE ack
  /\ state' = IF state.status = "ACTIVE"
              THEN [thread[p].seen EXCEPT !.status = "ACKNOWLEDGED"] ELSE state
  /\ attempt' = [attempt EXCEPT ![thread[p].on] = "ACKNOWLEDGED"]
  /\ thread' = [thread EXCEPT ![p] = Idle]
  /\ MayPublishOpen
  /\ UNCHANGED <<incident, deliveries, settled, claims, linked, phoneVars,
                 faults>>

Decline(p) ==
  /\ At(p, "decline")
  /\ attempt' = [attempt EXCEPT ![thread[p].on] = "DECLINED"]
  /\ Goto(p, "fallback")
  /\ UNCHANGED <<incident, queueVars, state, ack, claims, linked, phoneVars,
                 faults>>

-----------------------------------------------------------------------------
(* Acknowledgement by Slack and by the API *)

\* Mutant of AckBy: the acknowledgement is left to the end of the request.
AckByLater(p, who) ==
  /\ thread' = [thread EXCEPT ![p].at = "read-state", ![p].on = who]
  /\ UNCHANGED ack

\* INSERT ... ON CONFLICT DO NOTHING: the first acknowledgement is kept.
AckBy(p, who) ==
  /\ ack' = IF ack = None THEN who ELSE ack
  /\ thread' = [thread EXCEPT ![p].at = "read-state", ![p].on = who]

\* The event of a signal on the incident's ticket is claimed; if the incident is
\* open and not acknowledged, Slack stores its acknowledgement and goes on to the
\* notification state.
BeginSlack(p) ==
  /\ At(p, "idle")
  /\ \E s \in Signals :
       /\ SlackKey(s) \notin claims
       /\ claims' = claims \union {SlackKey(s)}
       /\ IF incident = "RESOLVED" \/ ack # None THEN UNCHANGED <<ack, thread>>
          ELSE AckBy(p, s)
  /\ UNCHANGED <<incident, queueVars, state, attempt, linked, phoneVars, faults>>

\* The API asks neither for an earlier acknowledgement nor for the status.
BeginApi(p) ==
  /\ At(p, "idle")
  /\ AckBy(p, Api)
  /\ UNCHANGED <<incident, queueVars, state, claims, attempt, linked, phoneVars,
                 faults>>

\* Slack announces INCIDENT_ACKNOWLEDGED with the incident it has read.
EndAcknowledgement(p) ==
  /\ thread' = [thread EXCEPT ![p] = Idle]
  /\ IF thread[p].on \in Signals THEN MayPublishOpen ELSE UNCHANGED inbox
  /\ UNCHANGED <<incident, deliveries, settled, ack, claims, attempt, linked,
                 phoneVars, faults>>

ReadToAcknowledge(p) ==
  /\ At(p, "read-state")
  /\ IF state.status = "ACTIVE"
     THEN /\ GotoHolding(p, "stop", state)
          /\ UNCHANGED <<incident, queueVars, ack, claims, attempt, linked,
                         phoneVars, faults>>
     ELSE EndAcknowledgement(p)
  /\ UNCHANGED state

CloseAcknowledged(p) ==
  /\ At(p, "stop")
  /\ state' = [thread[p].seen EXCEPT !.status = "ACKNOWLEDGED"]
  /\ EndAcknowledgement(p)

-----------------------------------------------------------------------------
(* Faults *)

\* A database call of task p throws. In `send` after the request that is
\* RecordFails.
Fault(p) ==
  /\ thread[p].at \notin {"idle", "threw", "record"}
  /\ faults < MaxFaults
  /\ faults' = faults + 1
  /\ Throw(p)

\* The worker process dies. The API is another process.
Crash ==
  /\ faults < MaxFaults
  /\ faults' = faults + 1
  /\ thread' = [p \in Threads |-> IF thread[p].on = Api THEN thread[p] ELSE Idle]
  /\ settled' = settled \union GivenUp(Workers)
  /\ UNCHANGED <<incident, inbox, deliveries, rowVars, phoneVars>>

-----------------------------------------------------------------------------
WorkerStep(w) ==
  Receive(w) \/ Open(w) \/ CloseResolved(w)
SendStep(t)   == PlaceCall(t) \/ Record(t) \/ SendFailed(t)
RequestStep(p) ==
  Acknowledge(p) \/ Decline(p) \/ ReadToAcknowledge(p) \/ CloseAcknowledged(p)
SharedStep(p) == \/ Dispatched(p) \/ DispatchThrows(p)
                 \/ FallbackRead(p) \/ FallbackClaim(p) \/ FallbackSave(p)
                 \/ \E t \in Targets : StartSend(p, t)

Next ==
  \/ ResolveIncident \/ UpdateIncident \/ Crash
  \/ \E t \in Targets : CallEnds(t) \/ SendStep(t) \/ RecordFails(t) \/ Poll(t)
  \/ \E w \in Workers : WorkerStep(w)
  \/ \E p \in Requests :
       \/ RequestStep(p) \/ BeginSlack(p) \/ BeginApi(p)
       \/ \E t \in Targets : Webhook(p, t) \/ BeginAnswer(p, t)
  \/ \E p \in Threads : SharedStep(p) \/ Fault(p)

Spec == Init /\ [][Next]_vars

\* The worker process and the provider do not stand still while a handler, a
\* send, a fallback, a call or a poll can go on. There are finitely many such
\* steps, so every one of them is taken. Nothing makes a webhook arrive.
Background ==
  \/ \E t \in Targets : SendStep(t) \/ CallEnds(t) \/ Poll(t)
  \/ \E w \in Workers : WorkerStep(w)
  \/ \E p \in Threads : SharedStep(p)

FairSpec == Spec /\ WF_vars(Background)

-----------------------------------------------------------------------------
(* Properties *)

Stages == {"idle", "threw", "open", "close", "dispatch", "call", "record",
           "failed", "fallback", "fallback-claim", "fallback-save",
           "acknowledge", "decline", "read-state", "stop"}
Rows == [status : {None, "ACTIVE", "ACKNOWLEDGED", "RESOLVED"},
         recipients : SUBSET Targets]
Holdings == [at : Stages, on : Targets \union Events \union Signals \union {Api, None},
             seen : Rows, todo : SUBSET Targets, mine : SUBSET Targets]

\* The stages at which a task holds a state row it has read, and found active.
HoldsActive == {"fallback-claim", "fallback-save", "acknowledge", "decline", "stop"}

\* The types, and that what is written back as active or as acknowledged was
\* active when it was read.
TypeOK ==
  /\ incident \in {"OPEN", "RESOLVED"}
  /\ inbox \in Seq({"OPEN", "RESOLVED"}) /\ Len(inbox) <= MaxEvents
  /\ deliveries \in [Events -> 0..MaxDeliver]
  /\ settled \subseteq Events
  /\ state \in Rows
  /\ ack \in Targets \union Signals \union {Api, None}
  /\ attempt \in [Targets -> Statuses \union {None}]
  /\ linked \subseteq Targets
  /\ thread \in [Threads -> Holdings]
  /\ \A p \in Threads :
       thread[p].at \in HoldsActive => thread[p].seen.status = "ACTIVE"
  /\ faults \in 0..MaxFaults

\* "Duplicate incident lifecycle events do not create duplicate attempts"
\* (docs/CALLING-AGENT.md:127): whatever is redelivered, overruns its ack wait,
\* crashes or falls back twice, nobody is alerted twice for an incident, but that
\* the client repeats a call whose answer is lost (README).
AlertedOnce == \A t \in Targets : alerts[t] <= 1 + (IF t \in Voice THEN lost[t] ELSE 0)

\* Alerting counts as acknowledged only when somebody is on record for it,
\* whichever of the four paths acknowledged and wherever it was interrupted.
StoppedBySomebody == state.status = "ACKNOWLEDGED" => ack # None

Quiet ==
  /\ \A p \in Threads : thread[p].at \in {"idle", "threw"}
  /\ 1..Len(inbox) \subseteq settled

Contacted(t) == attempt[t] \notin {None, "PENDING"}

\* "Every resolved engineer is contacted in the same dispatch pass"
\* (docs/CALLING-AGENT.md:125): when nothing is left to be done for it, each
\* recipient an active notification names has been contacted. A crash or a failed
\* call after the row is stored breaks it (README).
EveryRecipientIsContacted ==
  faults = 0 /\ Quiet /\ state.status = "ACTIVE" => \A t \in state.recipients : Contacted(t)

\* "A failed ... or declined SRE voice call immediately triggers the primary
\* Admin fallback once" (docs/CALLING-AGENT.md:128), for a failure that has
\* reached the attempt's row and an incident nobody has taken or ended. A crash or a
\* failed call after the fallback is claimed breaks it (README).
FailureReachesAdmin ==
  faults = 0 /\ Quiet /\ ack = None /\ incident = "OPEN"
    /\ (\E t \in Targets : FallsBack(t) /\ attempt[t] \in Failures)
  => FallbackKey \in claims /\ \A t \in Admins : Contacted(t)

\* "Acknowledgement stops new alerting" and "Incident resolution closes the
\* durable notification state" (docs/CALLING-AGENT.md:130-131): a closed
\* notification is never active again.
ClosedStaysClosed ==
  [][state.status \in {"ACKNOWLEDGED", "RESOLVED"} => state'.status # "ACTIVE"]_vars

\* The recovery poll makes up for webhooks that are lost: no call is left in
\* progress for ever, although nothing makes a webhook arrive.
NoCallLeftInProgress ==
  \A t \in Voice : attempt[t] = "IN_PROGRESS" ~> attempt[t] # "IN_PROGRESS"

=============================================================================
