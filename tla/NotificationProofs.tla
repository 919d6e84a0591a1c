------------------------- MODULE NotificationProofs -------------------------
(***************************************************************************)
(* Proofs about Notification for every set of recipients, handlers and     *)
(* requests and every number of events, deliveries and faults: the types,  *)
(* that nobody is alerted twice, and that alerting is only ever stopped by *)
(* somebody; and, as long as no crash and no failed database call came     *)
(* between, that everyone named is contacted and that a failed call        *)
(* reaches the Admin.                                                      *)
(***************************************************************************)
EXTENDS Notification, TLAPS

CallStates == {"ongoing", "ended", "delivered", "unanswered", "declined"}

\* What a task holds while it is under way: a lifecycle handler its event, an
\* answer its target, and whoever goes on to the state an acknowledgement.
TasksHoldTheirs ==
  \A p \in Threads :
    /\ p \in Workers /\ thread[p].at # "idle" => thread[p].on \in Events
    /\ thread[p].at \in {"acknowledge", "decline"} => thread[p].on \in Targets
    /\ thread[p].at \in {"read-state", "stop"} => ack # None

\* Only an accepted request has a provider's status to report.
AcceptedHasStatus ==
  \A t \in Targets :
    t \in linked \/ call[t] # None \/ thread[t].at = "record" => call[t] \in CallStates

Repeated(t) == IF t \in Voice THEN lost[t] ELSE 0

\* The direct:... key is claimed before the provider is asked, and kept; a task
\* that asks has not been answered.
ClaimedBeforeAlert ==
  \A t \in Targets :
    /\ alerts[t] # 0 \/ thread[t].at = "call" => SendKey(t) \in claims
    /\ lost[t] <= alerts[t] /\ alerts[t] <= 1 + Repeated(t)
    /\ thread[t].at = "call" => alerts[t] = Repeated(t)

PhoneType == /\ call \in [Targets -> CallStates \union {None}]
             /\ alerts \in [Targets -> Nat] /\ lost \in [Targets -> Nat]

\* The inductive invariant.
IInv == /\ TypeOK
        /\ PhoneType
        /\ TasksHoldTheirs
        /\ AcceptedHasStatus
        /\ ClaimedBeforeAlert
        /\ StoppedBySomebody

-----------------------------------------------------------------------------
(* The invariant in parts *)

QueueType ==
  /\ inbox \in Seq({"OPEN", "RESOLVED"}) /\ Len(inbox) <= MaxEvents
  /\ deliveries \in [Events -> 0..MaxDeliver]
  /\ settled \subseteq Events

RowType ==
  /\ incident \in {"OPEN", "RESOLVED"}
  /\ state \in Rows
  /\ ack \in Targets \union Signals \union {Api, None}
  /\ attempt \in [Targets -> Statuses \union {None}]
  /\ linked \subseteq Targets
  /\ faults \in 0..MaxFaults

ThreadType ==
  /\ thread \in [Threads -> Holdings]
  /\ \A p \in Threads :
       thread[p].at \in HoldsActive => thread[p].seen.status = "ACTIVE"

LEMMA Parts == TypeOK <=> QueueType /\ RowType /\ ThreadType
<1> QED
  BY DEF TypeOK, QueueType, RowType, ThreadType

\* The tasks of targets, handlers, requests and the poll are different tasks.
LEMMA ThreadKinds ==
  /\ Targets \subseteq Threads /\ Workers \subseteq Threads
  /\ Requests \subseteq Threads /\ Recovery \in Threads
  /\ Targets \intersect Workers = {} /\ Requests \intersect Workers = {}
  /\ Targets \intersect Requests = {} /\ Recovery \notin Workers \union Targets
<1> QED
  BY NotificationAssumption DEF Threads

LEMMA RecipientsAreTargets ==
  Recipients \subseteq Targets /\ Admins \subseteq Targets
<1> QED
  BY NotificationAssumption DEF Recipients

LEMMA StatusNames ==
  /\ {"PENDING", "SENT", "IN_PROGRESS", "ACKNOWLEDGED", "DECLINED", "FAILED"}
       \subseteq Statuses
  /\ \A c \in CallStates : StatusOf(c) \in Statuses
<1> QED
  BY DEF StatusOf, CallStates, Statuses, Rank

LEMMA Keys ==
  \A t, u \in Targets, s \in Signals :
    SendKey(t) # SlackKey(s) /\ (SendKey(t) = SendKey(u) => t = u)
<1> QED
  BY DEF SendKey, SlackKey

LEMMA IdleType == Idle \in Holdings /\ Idle.at = "idle" /\ Idle.on = None
<1> QED
  BY DEF Idle, Holdings, Stages, Rows, NoRow

\* Starting a send leaves every task where it is, but the target's own.
LEMMA SendBegins ==
  ASSUME ThreadType, NEW p \in Threads, NEW t \in Targets, StartSend(p, t)
  PROVE  /\ thread' \in [Threads -> Holdings]
         /\ \A q \in Threads :
              \/ /\ thread'[q].at = thread[q].at /\ thread'[q].on = thread[q].on
                 /\ thread'[q].seen = thread[q].seen
              \/ /\ q = t /\ SendKey(t) \notin claims
                 /\ thread'[q].at = "call" /\ thread'[q].on = t
<1>1. thread \in [Threads -> Holdings] /\ t \in Threads
  BY ThreadKinds DEF ThreadType
<1>2. CASE SendKey(t) \in claims
  BY <1>1, <1>2 DEF StartSend, Holdings
<1>3. CASE SendKey(t) \notin claims
  <2> DEFINE waiting == [thread EXCEPT ![p].todo = @ \ {t},
                                       ![p].mine = @ \union {t}]
             begun   == [Idle EXCEPT !.at = "call", !.on = t]
  <2>1. waiting \in [Threads -> Holdings]
    BY <1>1 DEF Holdings
  <2>2. \A q \in Threads :
          /\ waiting[q].at = thread[q].at /\ waiting[q].on = thread[q].on
          /\ waiting[q].seen = thread[q].seen
    BY <1>1 DEF Holdings
  <2>3. begun \in Holdings /\ begun.at = "call" /\ begun.on = t
    BY IdleType DEF Holdings, Stages
  <2>4. thread' = [waiting EXCEPT ![t] = begun]
    BY <1>3 DEF StartSend
  <2> HIDE DEF waiting, begun
  <2> QED
    BY <1>1, <1>3, <2>1, <2>2, <2>3, <2>4
<1> QED
  BY <1>2, <1>3

\* The steps of Next, with the webhook and the poll as reports of a status.
LEMMA StepCases ==
  ASSUME PhoneType, AcceptedHasStatus, RowType, Next
  PROVE
    \/ ResolveIncident \/ UpdateIncident \/ Crash
    \/ \E t \in Targets :
         CallEnds(t) \/ PlaceCall(t) \/ Record(t) \/ SendFailed(t) \/ RecordFails(t)
    \/ \E w \in Workers : Receive(w) \/ Open(w) \/ CloseResolved(w)
    \/ \E p \in Threads :
         \/ Dispatched(p) \/ DispatchThrows(p) \/ Fault(p)
         \/ FallbackRead(p) \/ FallbackClaim(p) \/ FallbackSave(p)
         \/ \E t \in Targets : StartSend(p, t)
    \/ \E p \in Requests :
         \/ Acknowledge(p) \/ Decline(p) \/ BeginSlack(p) \/ BeginApi(p)
         \/ ReadToAcknowledge(p) \/ CloseAcknowledged(p)
         \/ \E t \in Targets : BeginAnswer(p, t)
    \/ \E p \in Requests \union {Recovery}, t \in Targets, s \in Statuses :
         Report(p, t, s)
<1>1. ASSUME NEW t \in linked
      PROVE  Reports(t) \union {StatusOf(call[t])} \subseteq Statuses
  BY <1>1, StatusNames DEF AcceptedHasStatus, RowType, Reports
<1>2. \A p : \A t \in Targets : Webhook(p, t) => \E s \in Statuses : Report(p, t, s)
  BY <1>1 DEF Webhook, Report
<1>3. \A t \in Targets : Poll(t) => \E s \in Statuses : Report(Recovery, t, s)
  BY <1>1 DEF Poll, Report
<1> QED
  BY <1>2, <1>3 DEF Next, SendStep, WorkerStep, RequestStep, SharedStep

-----------------------------------------------------------------------------
(* What a step does to the tasks *)

LEMMA StageChange ==
  ASSUME ThreadType, NEW p \in Threads, NEW s \in Stages, Goto(p, s),
         s \in HoldsActive => thread[p].seen.status = "ACTIVE"
  PROVE  ThreadType'
<1> QED
  BY DEF ThreadType, Goto, Holdings

LEMMA StageChangeHolding ==
  ASSUME ThreadType, NEW p \in Threads, NEW s \in Stages, NEW row \in Rows,
         GotoHolding(p, s, row), s \in HoldsActive => row.status = "ACTIVE"
  PROVE  ThreadType'
<1> QED
  BY DEF ThreadType, GotoHolding, Holdings

LEMMA DispatchBegins ==
  ASSUME ThreadType, NEW p \in Threads, NEW targets \in SUBSET Targets,
         Dispatching(p, targets)
  PROVE  ThreadType'
<1>1. thread' \in [Threads -> Holdings]
  <2>1. "dispatch" \in Stages
    BY DEF Stages
  <2>2. targets \subseteq Targets
    OBVIOUS
  <2> QED
    BY <2>1, <2>2 DEF ThreadType, Dispatching, Holdings
<1>2. \A q \in Threads : thread'[q].at \in HoldsActive => thread'[q] = thread[q]
  BY DEF ThreadType, Dispatching, Holdings, HoldsActive
<1> QED
  BY <1>1, <1>2 DEF ThreadType

LEMMA HandlerBegins ==
  ASSUME ThreadType, NEW p \in Threads, NEW s \in Stages \ HoldsActive,
         NEW e \in Events, NEW row \in Rows,
         \/ thread' = [thread EXCEPT ![p].at = s, ![p].on = e]
         \/ thread' = [thread EXCEPT ![p].at = s, ![p].on = e, ![p].seen = row]
  PROVE  ThreadType'
<1>1. thread' \in [Threads -> Holdings]
  BY DEF ThreadType, Holdings
<1>2. thread'[p].at = s /\ \A q \in Threads \ {p} : thread'[q] = thread[q]
  BY DEF ThreadType, Holdings
<1> QED
  BY <1>1, <1>2 DEF ThreadType

LEMMA TaskBecomes ==
  ASSUME ThreadType, NEW p \in Threads, NEW h \in Holdings,
         thread' = [thread EXCEPT ![p] = h],
         h.at \in HoldsActive => h.seen.status = "ACTIVE"
  PROVE  ThreadType'
<1> QED
  BY DEF ThreadType

LEMMA TaskEnds ==
  ASSUME ThreadType, NEW p \in Threads, thread' = [thread EXCEPT ![p] = Idle]
  PROVE  ThreadType'
<1> QED
  BY IdleType, TaskBecomes DEF HoldsActive

LEMMA PublishOpen ==
  ASSUME QueueType, MayPublishOpen, UNCHANGED <<deliveries, settled>>
  PROVE  QueueType'
<1>1. CASE UNCHANGED inbox
  BY <1>1 DEF QueueType
<1>2. CASE Len(inbox) < MaxEvents /\ inbox' = Append(inbox, "OPEN")
  BY <1>2, NotificationAssumption DEF QueueType
<1> QED
  BY <1>1, <1>2 DEF MayPublishOpen

LEMMA EventsInInbox ==
  ASSUME QueueType
  PROVE  1..Len(inbox) \subseteq Events
<1> QED
  BY NotificationAssumption DEF QueueType, Events

-----------------------------------------------------------------------------
(* The inductive invariant is kept, part by part *)

\* What is settled is an event, since a handler holds its own.
LEMMA QueueTypeStep ==
  ASSUME PhoneType, AcceptedHasStatus, RowType, QueueType, TasksHoldTheirs, Next
  PROVE  QueueType'
<1>1. ASSUME ResolveIncident
      PROVE  QueueType'
  BY <1>1, NotificationAssumption DEF QueueType, ResolveIncident
<1>2. ASSUME UpdateIncident
      PROVE  QueueType'
  BY <1>2, NotificationAssumption DEF QueueType, UpdateIncident
<1>3. ASSUME Crash
      PROVE  QueueType'
  BY <1>3 DEF QueueType, Crash, GivenUp
<1>4. ASSUME NEW t \in Targets,
             \/ CallEnds(t) \/ PlaceCall(t) \/ Record(t) \/ SendFailed(t)
             \/ RecordFails(t)
      PROVE  QueueType'
  BY <1>4, ThreadKinds
     DEF QueueType, CallEnds, PlaceCall, Answered, Unanswered, Accepted, Record, Finish, SendFailed,
         RecordFails, queueVars
<1>5. ASSUME NEW w \in Workers, Open(w) \/ CloseResolved(w)
      PROVE  QueueType'
  BY <1>5, ThreadKinds
     DEF QueueType, TasksHoldTheirs, Open, CloseResolved, Finish, At,
         queueVars
<1>6. ASSUME NEW w \in Workers, Receive(w)
      PROVE  QueueType'
  <2>1. PICK e \in 1..Len(inbox) :
          /\ deliveries[e] < MaxDeliver
          /\ deliveries' = [deliveries EXCEPT ![e] = @ + 1]
          /\ settled' \in {settled, settled \union {e}}
    BY <1>6 DEF Receive, ReadToResolve, Notify, Settle
  <2>2. e \in Events /\ inbox' = inbox
    BY <1>6, EventsInInbox DEF Receive
  <2>3. deliveries[e] \in 0..MaxDeliver /\ deliveries[e] + 1 \in 0..MaxDeliver
    BY <2>1, <2>2, NotificationAssumption DEF QueueType
  <2> QED
    BY <2>1, <2>2, <2>3 DEF QueueType
<1>7. ASSUME NEW p \in Threads,
             \/ Dispatched(p) \/ DispatchThrows(p) \/ Fault(p)
             \/ FallbackRead(p) \/ FallbackClaim(p) \/ FallbackSave(p)
      PROVE  QueueType'
  BY <1>7
     DEF QueueType, TasksHoldTheirs, Dispatched, Finish, DispatchThrows,
         Throw, GivenUp, Fault, FallbackRead, FallbackClaim, FallbackSave, At,
         queueVars
<1>8. ASSUME NEW p \in Threads, NEW t \in Targets, StartSend(p, t)
      PROVE  QueueType'
  BY <1>8 DEF QueueType, StartSend, queueVars
<1>9. ASSUME NEW p \in Requests, Decline(p) \/ BeginSlack(p) \/ BeginApi(p)
      PROVE  QueueType'
  BY <1>9 DEF QueueType, Decline, BeginSlack, AckBy, BeginApi, queueVars
<1>10. ASSUME NEW p \in Requests, Acknowledge(p)
       PROVE  QueueType'
  BY <1>10, PublishOpen DEF Acknowledge
<1>11. ASSUME NEW p \in Requests, ReadToAcknowledge(p)
       PROVE  QueueType'
  BY <1>11, PublishOpen
     DEF ReadToAcknowledge, EndAcknowledgement, queueVars, QueueType
<1>12. ASSUME NEW p \in Requests, CloseAcknowledged(p)
       PROVE  QueueType'
  BY <1>12, PublishOpen DEF CloseAcknowledged, EndAcknowledgement, QueueType
<1>13. ASSUME NEW p \in Requests, NEW t \in Targets, BeginAnswer(p, t)
       PROVE  QueueType'
  BY <1>13 DEF QueueType, BeginAnswer, queueVars
<1>14. ASSUME NEW p \in Requests \union {Recovery},
              NEW t \in Targets, NEW s \in Statuses, Report(p, t, s)
       PROVE  QueueType'
  BY <1>14 DEF QueueType, Report, queueVars
<1> QED
  BY StepCases, <1>1, <1>2, <1>3, <1>4, <1>5, <1>6, <1>7, <1>8, <1>9, <1>10,
     <1>11, <1>12, <1>13, <1>14

\* What is written to the rows has their types.
LEMMA RowTypeStep ==
  ASSUME PhoneType, AcceptedHasStatus, RowType, ThreadType, TasksHoldTheirs, Next
  PROVE  RowType'
<1>1. ASSUME ResolveIncident \/ UpdateIncident \/ Crash
      PROVE  RowType'
  BY <1>1, NotificationAssumption
     DEF RowType, Holdings, ResolveIncident, UpdateIncident, Crash, GivenUp,
         rowVars
<1>2. ASSUME NEW t \in Targets, CallEnds(t) \/ PlaceCall(t)
      PROVE  RowType'
  BY <1>2 DEF RowType, Holdings, CallEnds, PlaceCall, Answered, Unanswered, Accepted, rowVars
<1>3. ASSUME NEW t \in Targets, Record(t)
      PROVE  RowType'
  BY <1>3, StatusNames DEF Record, RowType
<1>4. ASSUME NEW t \in Targets, SendFailed(t)
      PROVE  RowType'
  BY <1>4, StatusNames DEF SendFailed, RowType
<1>5. ASSUME NEW t \in Targets, RecordFails(t)
      PROVE  RowType'
  BY <1>5, StatusNames, NotificationAssumption DEF RecordFails, RowType
<1>6. ASSUME NEW w \in Workers, Receive(w)
      PROVE  RowType'
  BY <1>6 DEF RowType, Holdings, Receive, ReadToResolve, Notify, rowVars
<1>7. ASSUME NEW w \in Workers, Open(w)
      PROVE  RowType'
  BY <1>7, ThreadKinds
     DEF RowType, ThreadType, Holdings, Rows, Open, Dispatching
<1>8. ASSUME NEW w \in Workers, CloseResolved(w)
      PROVE  RowType'
  BY <1>8, ThreadKinds
     DEF RowType, ThreadType, Holdings, Rows, CloseResolved, Finish
<1>9. ASSUME NEW p \in Threads,
             \/ Dispatched(p) \/ DispatchThrows(p) \/ Fault(p)
             \/ FallbackRead(p) \/ FallbackClaim(p) \/ FallbackSave(p)
      PROVE  RowType'
  BY <1>9, NotificationAssumption
     DEF RowType, ThreadType, Holdings, Rows, Dispatched, Finish,
         DispatchThrows, Throw, GivenUp, Fault, FallbackRead, GotoHolding,
         FallbackClaim, Goto, FallbackSave, Dispatching, rowVars
<1>10. ASSUME NEW p \in Threads, NEW t \in Targets, StartSend(p, t)
       PROVE  RowType'
  BY <1>10, StatusNames DEF StartSend, RowType
<1>11. ASSUME NEW p \in Requests, ReadToAcknowledge(p)
       PROVE  RowType'
  BY <1>11 DEF RowType, Holdings, ReadToAcknowledge, EndAcknowledgement
<1>12. ASSUME NEW p \in Requests, Acknowledge(p)
       PROVE  RowType'
  <2>1. p \in Threads /\ thread[p].on \in Targets /\ thread[p].seen \in Rows
    BY <1>12, ThreadKinds
       DEF Acknowledge, At, TasksHoldTheirs, ThreadType, Holdings
  <2>2. ack' \in Targets \union Signals \union {Api, None}
    BY <1>12, <2>1 DEF Acknowledge, RowType
  <2>3. state' \in Rows
    BY <1>12, <2>1 DEF Acknowledge, RowType, Rows
  <2>4. attempt' \in [Targets -> Statuses \union {None}]
    BY <1>12, StatusNames DEF Acknowledge, RowType
  <2> QED
    BY <1>12, <2>2, <2>3, <2>4 DEF Acknowledge, RowType
<1>13. ASSUME NEW p \in Requests, Decline(p)
       PROVE  RowType'
  BY <1>13, StatusNames DEF Decline, RowType
<1>14. ASSUME NEW p \in Requests, BeginSlack(p)
       PROVE  RowType'
  BY <1>14 DEF RowType, Holdings, BeginSlack, AckBy
<1>15. ASSUME NEW p \in Requests, BeginApi(p)
       PROVE  RowType'
  BY <1>15 DEF RowType, Holdings, BeginApi, AckBy
<1>16. ASSUME NEW p \in Requests, CloseAcknowledged(p)
       PROVE  RowType'
  BY <1>16, ThreadKinds
     DEF RowType, ThreadType, Holdings, Rows, CloseAcknowledged,
         EndAcknowledgement
<1>17. ASSUME NEW p \in Requests, NEW t \in Targets, BeginAnswer(p, t)
       PROVE  RowType'
  BY <1>17 DEF RowType, Holdings, BeginAnswer
<1>18. ASSUME NEW p \in Requests \union {Recovery},
              NEW t \in Targets, NEW s \in Statuses, Report(p, t, s)
       PROVE  RowType'
  BY <1>18 DEF Report, RowType
<1> QED
  BY StepCases, <1>1, <1>2, <1>3, <1>4, <1>5, <1>6, <1>7, <1>8, <1>9, <1>10,
     <1>11, <1>12, <1>13, <1>14, <1>15, <1>16, <1>17, <1>18

\* A task that holds an active row has read an active row.
LEMMA ThreadTypeStep ==
  ASSUME PhoneType, AcceptedHasStatus, RowType, QueueType, ThreadType, Next
  PROVE  ThreadType'
<1>1. ASSUME ResolveIncident \/ UpdateIncident
      PROVE  ThreadType'
  BY <1>1
     DEF ThreadType, RowType, Holdings, Stages, ResolveIncident,
         UpdateIncident
<1>2. ASSUME Crash
      PROVE  ThreadType'
  BY <1>2, IdleType
     DEF ThreadType, RowType, Holdings, HoldsActive, Stages, Crash
<1>3. ASSUME NEW t \in Targets, CallEnds(t)
      PROVE  ThreadType'
  BY <1>3 DEF CallEnds, ThreadType
<1>4. ASSUME NEW t \in Targets, PlaceCall(t)
      PROVE  ThreadType'
  BY <1>4, StageChange, ThreadKinds DEF PlaceCall, Answered, Unanswered, Accepted, Stages, HoldsActive
<1>5. ASSUME NEW t \in Targets, Record(t)
      PROVE  ThreadType'
  BY <1>5, TaskEnds, ThreadKinds DEF Record, Finish
<1>6. ASSUME NEW t \in Targets, SendFailed(t)
      PROVE  ThreadType'
  <2>1. CASE Goto(t, "fallback")
    BY <2>1, StageChange, ThreadKinds DEF Stages, HoldsActive
  <2>2. CASE Finish(t)
    BY <2>2, TaskEnds, ThreadKinds DEF Finish
  <2> QED
    BY <1>6, <2>1, <2>2 DEF SendFailed
<1>7. ASSUME NEW t \in Targets, RecordFails(t)
      PROVE  ThreadType'
  BY <1>7, StageChange, ThreadKinds DEF RecordFails, Stages, HoldsActive
<1>8. ASSUME NEW w \in Workers, Receive(w)
      PROVE  ThreadType'
  <2>1. PICK e \in 1..Len(inbox) : ReadToResolve(w, e) \/ Notify(w, e)
    BY <1>8 DEF Receive
  <2>2. w \in Threads /\ e \in Events
    BY EventsInInbox, ThreadKinds
  <2>3. CASE UNCHANGED thread
    BY <2>3 DEF ThreadType
  <2>4. CASE thread' = [thread EXCEPT ![w].at = "open", ![w].on = e]
    BY <2>2, <2>4, HandlerBegins DEF Stages, HoldsActive, RowType
  <2>5. CASE thread' = [thread EXCEPT ![w].at = "close", ![w].on = e,
                                      ![w].seen = state]
    BY <2>2, <2>5, HandlerBegins DEF Stages, HoldsActive, RowType
  <2> QED
    BY <2>1, <2>3, <2>4, <2>5 DEF ReadToResolve, Notify
<1>9. ASSUME NEW w \in Workers, Open(w)
      PROVE  ThreadType'
  BY <1>9, DispatchBegins, RecipientsAreTargets, ThreadKinds DEF Open
<1>10. ASSUME NEW w \in Workers, CloseResolved(w)
       PROVE  ThreadType'
  BY <1>10, TaskEnds, ThreadKinds DEF CloseResolved, Finish
<1>11. ASSUME NEW p \in Threads, Dispatched(p)
       PROVE  ThreadType'
  BY <1>11, TaskEnds DEF Dispatched, Finish
<1>12. ASSUME NEW p \in Threads, DispatchThrows(p)
       PROVE  ThreadType'
  <2>1. [Idle EXCEPT !.at = "threw"] \in Holdings
    BY IdleType DEF Holdings, Stages
  <2>2. PICK h \in {Idle, [Idle EXCEPT !.at = "threw"]} :
          thread' = [thread EXCEPT ![p] = h]
    BY <1>12 DEF DispatchThrows, Throw
  <2>3. h \in Holdings /\ h.at \notin HoldsActive
    BY <2>1, <2>2, IdleType DEF HoldsActive, Holdings
  <2> QED
    BY <2>2, <2>3, TaskBecomes
<1>13. ASSUME NEW p \in Threads, Fault(p)
       PROVE  ThreadType'
  <2>1. [Idle EXCEPT !.at = "threw"] \in Holdings
    BY IdleType DEF Holdings, Stages
  <2>2. PICK h \in {Idle, [Idle EXCEPT !.at = "threw"]} :
          thread' = [thread EXCEPT ![p] = h]
    BY <1>13 DEF Fault, Throw
  <2>3. h \in Holdings /\ h.at \notin HoldsActive
    BY <2>1, <2>2, IdleType DEF HoldsActive, Holdings
  <2> QED
    BY <2>2, <2>3, TaskBecomes
<1>14. ASSUME NEW p \in Threads, FallbackRead(p)
       PROVE  ThreadType'
  <2>1. CASE Finish(p)
    BY <2>1, TaskEnds DEF Finish
  <2>2. CASE state.status = "ACTIVE" /\ GotoHolding(p, "fallback-claim", state)
    BY <2>2, StageChangeHolding DEF RowType, Stages
  <2> QED
    BY <1>14, <2>1, <2>2 DEF FallbackRead
<1>15. ASSUME NEW p \in Threads, FallbackClaim(p)
       PROVE  ThreadType'
  <2>1. CASE Finish(p)
    BY <2>1, TaskEnds DEF Finish
  <2>2. CASE Goto(p, "fallback-save")
    <3>1. thread[p].seen.status = "ACTIVE"
      BY <1>15 DEF FallbackClaim, At, ThreadType, HoldsActive
    <3> QED
      BY <2>2, <3>1, StageChange DEF Stages
  <2> QED
    BY <1>15, <2>1, <2>2 DEF FallbackClaim
<1>16. ASSUME NEW p \in Threads, FallbackSave(p)
       PROVE  ThreadType'
  BY <1>16, DispatchBegins, RecipientsAreTargets DEF FallbackSave
<1>17. ASSUME NEW p \in Threads, NEW t \in Targets, StartSend(p, t)
       PROVE  ThreadType'
  BY <1>17, SendBegins DEF ThreadType, HoldsActive
<1>18. ASSUME NEW p \in Requests, Acknowledge(p)
       PROVE  ThreadType'
  BY <1>18, TaskEnds, ThreadKinds DEF Acknowledge
<1>19. ASSUME NEW p \in Requests, Decline(p)
       PROVE  ThreadType'
  BY <1>19, StageChange, ThreadKinds DEF Decline, Stages, HoldsActive
<1>20. ASSUME NEW p \in Requests, BeginSlack(p)
       PROVE  ThreadType'
  <2>1. CASE UNCHANGED thread
    BY <2>1 DEF ThreadType
  <2>2. CASE \E s \in Signals : AckBy(p, s)
    BY <2>2, ThreadKinds DEF AckBy, ThreadType, Holdings, HoldsActive, Stages
  <2> QED
    BY <1>20, <2>1, <2>2 DEF BeginSlack
<1>21. ASSUME NEW p \in Requests, BeginApi(p)
       PROVE  ThreadType'
  BY <1>21, ThreadKinds
     DEF ThreadType, RowType, Holdings, HoldsActive, Stages, BeginApi, AckBy
<1>22. ASSUME NEW p \in Requests, ReadToAcknowledge(p)
       PROVE  ThreadType'
  <2>1. CASE state.status = "ACTIVE" /\ GotoHolding(p, "stop", state)
    BY <2>1, StageChangeHolding, ThreadKinds DEF RowType, Stages
  <2>2. CASE EndAcknowledgement(p)
    BY <2>2, TaskEnds, ThreadKinds DEF EndAcknowledgement
  <2> QED
    BY <1>22, <2>1, <2>2 DEF ReadToAcknowledge
<1>23. ASSUME NEW p \in Requests, CloseAcknowledged(p)
       PROVE  ThreadType'
  BY <1>23, TaskEnds, ThreadKinds DEF CloseAcknowledged, EndAcknowledgement
<1>24. ASSUME NEW p \in Requests, NEW t \in Targets, BeginAnswer(p, t)
       PROVE  ThreadType'
  <2>1. PICK a \in Answers :
          thread' = [thread EXCEPT ![p] =
                       [Idle EXCEPT !.at = a, !.on = t, !.seen = state]]
    BY <1>24 DEF BeginAnswer
  <2> DEFINE h == [Idle EXCEPT !.at = a, !.on = t, !.seen = state]
  <2>2. h \in Holdings
    BY IdleType DEF Holdings, Answers, Stages, RowType
  <2>3. h.seen.status = "ACTIVE"
    BY <1>24, IdleType DEF BeginAnswer, Holdings
  <2> QED
    BY <2>1, <2>2, <2>3, TaskBecomes, ThreadKinds
<1>25. ASSUME NEW p \in Requests \union {Recovery},
              NEW t \in Targets, NEW s \in Statuses, Report(p, t, s)
       PROVE  ThreadType'
  <2>1. CASE Goto(p, "fallback")
    BY <2>1, StageChange, ThreadKinds DEF Stages, HoldsActive
  <2>2. CASE UNCHANGED thread
    BY <2>2 DEF ThreadType
  <2> QED
    BY <1>25, <2>1, <2>2 DEF Report
<1> QED
  BY StepCases, <1>1, <1>2, <1>3, <1>4, <1>5, <1>6, <1>7, <1>8, <1>9, <1>10,
     <1>11, <1>12, <1>13, <1>14, <1>15, <1>16, <1>17, <1>18, <1>19, <1>20,
     <1>21, <1>22, <1>23, <1>24, <1>25

\* A second alert would need a task at "call" after the first.
LEMMA PhoneTypeStep ==
  ASSUME PhoneType, AcceptedHasStatus, RowType, ClaimedBeforeAlert, Next
  PROVE  PhoneType'
<1>1. ASSUME ResolveIncident \/ UpdateIncident \/ Crash
      PROVE  PhoneType'
  BY <1>1
     DEF PhoneType, ClaimedBeforeAlert, ResolveIncident, UpdateIncident,
         Crash, phoneVars
<1>2. ASSUME NEW t \in Targets,
             \/ CallEnds(t) \/ PlaceCall(t) \/ Record(t) \/ SendFailed(t)
             \/ RecordFails(t)
      PROVE  PhoneType'
  BY <1>2
     DEF PhoneType, CallStates, ClaimedBeforeAlert, CallEnds, PlaceCall, Answered, Unanswered, Accepted,
         Record, Finish, SendFailed, RecordFails, At, phoneVars
<1>3. ASSUME NEW w \in Workers, Receive(w) \/ Open(w) \/ CloseResolved(w)
      PROVE  PhoneType'
  BY <1>3
     DEF PhoneType, ClaimedBeforeAlert, Receive, ReadToResolve, Notify, Open,
         CloseResolved, Finish, phoneVars
<1>4. ASSUME NEW p \in Threads,
             \/ Dispatched(p) \/ DispatchThrows(p) \/ Fault(p)
             \/ FallbackRead(p) \/ FallbackClaim(p) \/ FallbackSave(p)
      PROVE  PhoneType'
  BY <1>4
     DEF PhoneType, ClaimedBeforeAlert, Dispatched, Finish, DispatchThrows,
         Throw, Fault, FallbackRead, FallbackClaim, FallbackSave, phoneVars
<1>5. ASSUME NEW p \in Threads, NEW t \in Targets, StartSend(p, t)
      PROVE  PhoneType'
  BY <1>5 DEF PhoneType, ClaimedBeforeAlert, StartSend, phoneVars
<1>6. ASSUME NEW p \in Requests,
             \/ Acknowledge(p) \/ Decline(p) \/ BeginSlack(p)
             \/ BeginApi(p) \/ ReadToAcknowledge(p)
             \/ CloseAcknowledged(p)
      PROVE  PhoneType'
  BY <1>6
     DEF PhoneType, ClaimedBeforeAlert, Acknowledge, Decline, BeginSlack,
         AckBy, BeginApi, ReadToAcknowledge, EndAcknowledgement,
         CloseAcknowledged, phoneVars
<1>7. ASSUME NEW p \in Requests, NEW t \in Targets, BeginAnswer(p, t)
      PROVE  PhoneType'
  BY <1>7 DEF PhoneType, ClaimedBeforeAlert, BeginAnswer, phoneVars
<1>8. ASSUME NEW p \in Requests \union {Recovery},
             NEW t \in Targets, NEW s \in Statuses, Report(p, t, s)
      PROVE  PhoneType'
  BY <1>8 DEF PhoneType, ClaimedBeforeAlert, Report, phoneVars
<1> QED
  BY StepCases, <1>1, <1>2, <1>3, <1>4, <1>5, <1>6, <1>7, <1>8

\* A task keeps what it is about until it ends, and an acknowledgement is kept.
LEMMA TasksHoldTheirsStep ==
  ASSUME PhoneType, AcceptedHasStatus, RowType, QueueType, ThreadType, TasksHoldTheirs, Next
  PROVE  TasksHoldTheirs'
<1>1. ASSUME ResolveIncident \/ UpdateIncident
      PROVE  TasksHoldTheirs'
  BY <1>1
     DEF RowType, TasksHoldTheirs, Holdings, ResolveIncident, UpdateIncident,
         rowVars
<1>2. ASSUME Crash
      PROVE  TasksHoldTheirs'
  BY <1>2 DEF RowType, TasksHoldTheirs, Holdings, Crash, Idle, rowVars
<1>3. ASSUME NEW t \in Targets,
             \/ CallEnds(t) \/ PlaceCall(t) \/ Record(t) \/ SendFailed(t)
             \/ RecordFails(t)
      PROVE  TasksHoldTheirs'
  BY <1>3
     DEF ThreadType, RowType, TasksHoldTheirs, Holdings, CallEnds, PlaceCall, Answered, Unanswered, Accepted,
         Goto, Record, Finish, Idle, SendFailed, RecordFails, At, rowVars
<1>4. ASSUME NEW w \in Workers, Receive(w)
      PROVE  TasksHoldTheirs'
  <2>1. PICK e \in 1..Len(inbox) :
          IF inbox[e] = "RESOLVED" THEN ReadToResolve(w, e) ELSE Notify(w, e)
    BY <1>4 DEF Receive
  <2>2. e \in Events
    BY EventsInInbox
  <2>3. w \in Threads /\ w \notin Requests \union Targets
    BY ThreadKinds
  <2>4. CASE UNCHANGED thread
    BY <1>4, <2>4 DEF Receive, rowVars, TasksHoldTheirs
  <2>5. CASE \E s \in {"open", "close"} :
               /\ thread'[w].at = s /\ thread'[w].on = e
               /\ \A q \in Threads \ {w} : thread'[q] = thread[q]
    BY <1>4, <2>2, <2>3, <2>5 DEF Receive, rowVars, TasksHoldTheirs
  <2> QED
    BY <2>1, <2>3, <2>4, <2>5 DEF ReadToResolve, Notify, ThreadType, Holdings
<1>5. ASSUME NEW w \in Workers, Open(w)
      PROVE  TasksHoldTheirs'
  BY <1>5
     DEF ThreadType, RowType, TasksHoldTheirs, Holdings, Open, Dispatching, At
<1>6. ASSUME NEW w \in Workers, CloseResolved(w)
      PROVE  TasksHoldTheirs'
  BY <1>6 DEF RowType, TasksHoldTheirs, Holdings, CloseResolved, Finish, Idle
<1>7. ASSUME NEW p \in Threads, Dispatched(p) \/ DispatchThrows(p) \/ Fault(p)
      PROVE  TasksHoldTheirs'
  BY <1>7, ThreadKinds
     DEF ThreadType, RowType, TasksHoldTheirs, Holdings, Dispatched, Finish,
         Idle, DispatchThrows, Throw, Fault, rowVars
<1>8. ASSUME NEW p \in Threads, FallbackRead(p)
      PROVE  TasksHoldTheirs'
  BY <1>8
     DEF ThreadType, RowType, TasksHoldTheirs, Holdings, FallbackRead, Finish,
         Idle, GotoHolding, At, rowVars
<1>9. ASSUME NEW p \in Threads, FallbackClaim(p)
      PROVE  TasksHoldTheirs'
  BY <1>9
     DEF ThreadType, RowType, TasksHoldTheirs, Holdings, FallbackClaim,
         Finish, Idle, Goto, At
<1>10. ASSUME NEW p \in Threads, FallbackSave(p)
       PROVE  TasksHoldTheirs'
  BY <1>10
     DEF ThreadType, RowType, TasksHoldTheirs, Holdings, FallbackSave,
         Dispatching, At
<1>11. ASSUME NEW p \in Threads, NEW t \in Targets, StartSend(p, t)
       PROVE  TasksHoldTheirs'
  <2>1. t \notin Workers /\ ack' = ack
    BY <1>11, ThreadKinds DEF StartSend
  <2> QED
    BY <1>11, <2>1, SendBegins DEF TasksHoldTheirs
<1>12. ASSUME NEW p \in Requests,
              \/ Acknowledge(p) \/ Decline(p) \/ BeginSlack(p)
              \/ BeginApi(p) \/ CloseAcknowledged(p)
       PROVE  TasksHoldTheirs'
  BY <1>12, NotificationAssumption
     DEF ThreadType, RowType, TasksHoldTheirs, Holdings, Acknowledge, Idle,
         Decline, Goto, BeginSlack, AckBy, BeginApi, CloseAcknowledged,
         EndAcknowledgement
<1>13. ASSUME NEW p \in Requests, ReadToAcknowledge(p)
       PROVE  TasksHoldTheirs'
  <2>1. p \in Threads /\ p \notin Workers
    BY ThreadKinds
  <2>2. ack # None /\ ack' = ack
    BY <1>13, <2>1
       DEF ReadToAcknowledge, EndAcknowledgement, At, TasksHoldTheirs
  <2>3. CASE GotoHolding(p, "stop", state)
    BY <2>1, <2>2, <2>3 DEF GotoHolding, TasksHoldTheirs, ThreadType, Holdings
  <2>4. CASE EndAcknowledgement(p)
    BY <2>1, <2>2, <2>4, IdleType DEF EndAcknowledgement, TasksHoldTheirs
  <2> QED
    BY <1>13, <2>3, <2>4 DEF ReadToAcknowledge
<1>14. ASSUME NEW p \in Requests, NEW t \in Targets, BeginAnswer(p, t)
       PROVE  TasksHoldTheirs'
  BY <1>14, ThreadKinds
     DEF RowType, TasksHoldTheirs, Holdings, BeginAnswer, Answers
<1>15. ASSUME NEW p \in Requests \union {Recovery},
              NEW t \in Targets, NEW s \in Statuses, Report(p, t, s)
       PROVE  TasksHoldTheirs'
  BY <1>15, ThreadKinds
     DEF ThreadType, RowType, TasksHoldTheirs, Holdings, Report, Goto
<1> QED
  BY StepCases, <1>1, <1>2, <1>3, <1>4, <1>5, <1>6, <1>7, <1>8, <1>9, <1>10,
     <1>11, <1>12, <1>13, <1>14, <1>15

\* The request id is stored after the request was accepted.
LEMMA AcceptedHasStatusStep ==
  ASSUME PhoneType, AcceptedHasStatus, RowType, ThreadType, Next
  PROVE  AcceptedHasStatus'
<1>1. ASSUME ResolveIncident \/ UpdateIncident
      PROVE  AcceptedHasStatus'
  BY <1>1
     DEF PhoneType, AcceptedHasStatus, Holdings, ResolveIncident,
         UpdateIncident, rowVars, phoneVars
<1>2. ASSUME Crash
      PROVE  AcceptedHasStatus'
  BY <1>2, ThreadKinds
     DEF PhoneType, AcceptedHasStatus, Holdings, Crash, Idle, rowVars,
         phoneVars
<1>3. ASSUME NEW t \in Targets,
             \/ CallEnds(t) \/ PlaceCall(t) \/ Record(t) \/ SendFailed(t)
             \/ RecordFails(t)
      PROVE  AcceptedHasStatus'
  BY <1>3, ThreadKinds, IdleType
     DEF ThreadType, PhoneType, CallStates, AcceptedHasStatus, Holdings,
         CallEnds, PlaceCall, Answered, Unanswered, Accepted, Goto, Record, Finish, SendFailed, RecordFails,
         At, rowVars, phoneVars
<1>4. ASSUME NEW w \in Workers, Receive(w) \/ Open(w) \/ CloseResolved(w)
      PROVE  AcceptedHasStatus'
  BY <1>4, ThreadKinds
     DEF ThreadType, PhoneType, AcceptedHasStatus, Holdings, Receive,
         ReadToResolve, Notify, Open, Dispatching, CloseResolved, Finish,
         rowVars, phoneVars
<1>5. ASSUME NEW p \in Threads,
             \/ Dispatched(p) \/ DispatchThrows(p) \/ Fault(p)
             \/ FallbackSave(p)
      PROVE  AcceptedHasStatus'
  <2>1. UNCHANGED <<linked, call>>
    BY <1>5 DEF Dispatched, DispatchThrows, Throw, Fault, FallbackSave, rowVars, phoneVars
  <2>2. \A t \in Targets : thread'[t].at = "record" => thread[t].at = "record"
    BY <1>5, ThreadKinds
       DEF ThreadType, Holdings, Dispatched, Finish, Idle, DispatchThrows, Throw, Fault, FallbackSave,
           Dispatching
  <2> QED
    BY <2>1, <2>2 DEF AcceptedHasStatus
<1>6. ASSUME NEW p \in Threads, FallbackRead(p)
      PROVE  AcceptedHasStatus'
  <2>1. CASE Finish(p)
    BY <1>6, <2>1, IdleType
       DEF FallbackRead, Finish, rowVars, phoneVars, AcceptedHasStatus
  <2>2. CASE GotoHolding(p, "fallback-claim", state)
    BY <1>6, <2>2, ThreadKinds
       DEF FallbackRead, GotoHolding, Holdings, rowVars, phoneVars,
           AcceptedHasStatus, ThreadType
  <2> QED
    BY <1>6, <2>1, <2>2 DEF FallbackRead
<1>7. ASSUME NEW p \in Threads, FallbackClaim(p)
      PROVE  AcceptedHasStatus'
  <2>1. UNCHANGED <<linked, call>>
    BY <1>7 DEF FallbackClaim, phoneVars
  <2>2. \A t \in Targets : thread'[t].at = "record" => thread[t].at = "record"
    BY <1>7, ThreadKinds DEF ThreadType, Holdings, FallbackClaim, Finish, Idle, Goto
  <2> QED
    BY <2>1, <2>2 DEF AcceptedHasStatus
<1>8. ASSUME NEW p \in Threads, NEW t \in Targets, StartSend(p, t)
      PROVE  AcceptedHasStatus'
  <2>1. UNCHANGED <<linked, call, alerts>>
    BY <1>8 DEF StartSend, phoneVars
  <2> QED
    BY <1>8, <2>1, SendBegins, ThreadKinds DEF AcceptedHasStatus
<1>9. ASSUME NEW p \in Requests,
             \/ Acknowledge(p) \/ Decline(p) \/ BeginSlack(p)
             \/ BeginApi(p) \/ CloseAcknowledged(p)
      PROVE  AcceptedHasStatus'
  BY <1>9, ThreadKinds
     DEF ThreadType, PhoneType, AcceptedHasStatus, Holdings, Acknowledge,
         Decline, Goto, BeginSlack, AckBy, BeginApi, CloseAcknowledged,
         EndAcknowledgement, phoneVars
<1>10. ASSUME NEW p \in Requests, ReadToAcknowledge(p)
       PROVE  AcceptedHasStatus'
  BY <1>10, ThreadKinds
     DEF ThreadType, PhoneType, AcceptedHasStatus, Holdings,
         ReadToAcknowledge, GotoHolding, EndAcknowledgement, phoneVars
<1>11. ASSUME NEW p \in Requests, NEW t \in Targets, BeginAnswer(p, t)
       PROVE  AcceptedHasStatus'
  BY <1>11
     DEF PhoneType, AcceptedHasStatus, Holdings, BeginAnswer, Answers,
         phoneVars
<1>12. ASSUME NEW p \in Requests \union {Recovery},
              NEW t \in Targets, NEW s \in Statuses, Report(p, t, s)
       PROVE  AcceptedHasStatus'
  BY <1>12, ThreadKinds
     DEF ThreadType, PhoneType, AcceptedHasStatus, Holdings, Report, Goto,
         phoneVars
<1> QED
  BY StepCases, <1>1, <1>2, <1>3, <1>4, <1>5, <1>6, <1>7, <1>8, <1>9, <1>10,
     <1>11, <1>12

\* Only StartSend leads to a call, and only of a target whose key was free.
LEMMA ClaimedBeforeAlertStep ==
  ASSUME PhoneType, AcceptedHasStatus, RowType, ThreadType, ClaimedBeforeAlert, Next
  PROVE  ClaimedBeforeAlert'
<1>1. ASSUME ResolveIncident \/ UpdateIncident
      PROVE  ClaimedBeforeAlert'
  BY <1>1
     DEF PhoneType, ClaimedBeforeAlert, Repeated, Holdings, ResolveIncident,
         UpdateIncident, rowVars, phoneVars
<1>2. ASSUME Crash
      PROVE  ClaimedBeforeAlert'
  BY <1>2, ThreadKinds
     DEF PhoneType, ClaimedBeforeAlert, Repeated, Holdings, Crash, Idle, rowVars,
         phoneVars
<1>3. ASSUME NEW t \in Targets, CallEnds(t) \/ Record(t) \/ SendFailed(t) \/ RecordFails(t)
      PROVE  ClaimedBeforeAlert'
  BY <1>3, ThreadKinds
     DEF ThreadType, PhoneType, ClaimedBeforeAlert, Repeated, Holdings, CallEnds,
         Goto, Record, Finish, Idle, SendFailed, RecordFails, At, rowVars, phoneVars
<1>14. ASSUME NEW t \in Targets, PlaceCall(t)
       PROVE  ClaimedBeforeAlert'
  <2>1. /\ thread[t].at = "call" /\ claims' = claims /\ SendKey(t) \in claims
        /\ \A u \in Targets \ {t} : thread'[u] = thread[u] /\ alerts'[u] = alerts[u] /\ lost'[u] = lost[u]
    BY <1>14, ThreadKinds DEF PlaceCall, Answered, Unanswered, Accepted, Goto, At, rowVars, phoneVars,
       ThreadType, PhoneType, ClaimedBeforeAlert
  <2>2. alerts[t] = Repeated(t) /\ lost[t] \in Nat /\ alerts[t] \in Nat /\ lost[t] <= alerts[t]
    BY <2>1 DEF ClaimedBeforeAlert, PhoneType
  <2>3. CASE Answered(t)
    <3>1. alerts'[t] = alerts[t] + 1 /\ lost'[t] = lost[t] /\ thread'[t].at = "record"
      BY <2>3, ThreadKinds DEF Answered, Accepted, Goto, PhoneType, ThreadType, Holdings
    <3> QED
      BY <2>1, <2>2, <3>1 DEF ClaimedBeforeAlert, Repeated
  <2>4. CASE Unanswered(t)
    <3>1. alerts'[t] = alerts[t] + 1 /\ lost'[t] = lost[t] + 1
      BY <2>4 DEF Unanswered, Accepted, PhoneType
    <3>2. thread'[t].at = "call" => t \in Voice
      BY <2>4, ThreadKinds DEF Unanswered, Goto, ThreadType, Holdings
    <3> QED
      BY <2>1, <2>2, <3>1, <3>2 DEF ClaimedBeforeAlert, Repeated
  <2>5. CASE Goto(t, "failed") /\ UNCHANGED phoneVars
    <3>1. thread'[t].at = "failed" /\ UNCHANGED <<alerts, lost>>
      BY <2>5, ThreadKinds DEF Goto, ThreadType, Holdings, phoneVars
    <3> QED
      BY <2>1, <2>2, <3>1 DEF ClaimedBeforeAlert, Repeated
  <2> QED
    BY <1>14, <2>3, <2>4, <2>5 DEF PlaceCall
<1>4. ASSUME NEW w \in Workers, Receive(w) \/ Open(w) \/ CloseResolved(w)
      PROVE  ClaimedBeforeAlert'
  BY <1>4, ThreadKinds
     DEF ThreadType, PhoneType, ClaimedBeforeAlert, Repeated, Holdings, Receive,
         ReadToResolve, Notify, Open, Dispatching, CloseResolved, Finish,
         rowVars, phoneVars
<1>5. ASSUME NEW p \in Threads, Dispatched(p) \/ FallbackSave(p)
      PROVE  ClaimedBeforeAlert'
  BY <1>5, ThreadKinds
     DEF ThreadType, PhoneType, ClaimedBeforeAlert, Repeated, Holdings, Dispatched,
         Finish, Idle, FallbackSave, Dispatching, rowVars, phoneVars
<1>6. ASSUME NEW p \in Threads, DispatchThrows(p)
      PROVE  ClaimedBeforeAlert'
  BY <1>6, Keys
     DEF PhoneType, ClaimedBeforeAlert, Repeated, Holdings, DispatchThrows, Throw,
         phoneVars
<1>7. ASSUME NEW p \in Threads, Fault(p)
      PROVE  ClaimedBeforeAlert'
  BY <1>7, Keys
     DEF PhoneType, ClaimedBeforeAlert, Repeated, Holdings, Fault, Throw, phoneVars
<1>8. ASSUME NEW p \in Threads, FallbackRead(p)
      PROVE  ClaimedBeforeAlert'
  <2>1. CASE Finish(p)
    BY <1>8, <2>1, IdleType
       DEF FallbackRead, Finish, rowVars, phoneVars, ClaimedBeforeAlert, Repeated
  <2>2. CASE GotoHolding(p, "fallback-claim", state)
    BY <1>8, <2>2, ThreadKinds
       DEF FallbackRead, GotoHolding, Holdings, rowVars, phoneVars,
           ClaimedBeforeAlert, Repeated, ThreadType
  <2> QED
    BY <1>8, <2>1, <2>2 DEF FallbackRead
<1>9. ASSUME NEW p \in Threads, FallbackClaim(p)
      PROVE  ClaimedBeforeAlert'
  BY <1>9, ThreadKinds
     DEF ThreadType, PhoneType, ClaimedBeforeAlert, Repeated, Holdings, FallbackClaim,
         Finish, Idle, Goto, phoneVars
<1>10. ASSUME NEW p \in Threads, NEW t \in Targets, StartSend(p, t)
       PROVE  ClaimedBeforeAlert'
  <2>1. claims \subseteq claims' /\ SendKey(t) \in claims' /\ UNCHANGED <<alerts, lost>>
    BY <1>10 DEF StartSend, phoneVars
  <2>2. SendKey(t) \notin claims => alerts[t] = 0 /\ lost[t] = 0
    BY DEF ClaimedBeforeAlert, PhoneType
  <2> QED
    BY <1>10, <2>1, <2>2, SendBegins, ThreadKinds DEF ClaimedBeforeAlert, Repeated
<1>11. ASSUME NEW p \in Requests,
              \/ Acknowledge(p) \/ Decline(p) \/ BeginSlack(p)
              \/ BeginApi(p) \/ ReadToAcknowledge(p)
              \/ CloseAcknowledged(p)
       PROVE  ClaimedBeforeAlert'
  BY <1>11, ThreadKinds
     DEF ThreadType, PhoneType, ClaimedBeforeAlert, Repeated, Holdings, Acknowledge,
         Decline, Goto, BeginSlack, AckBy, BeginApi, ReadToAcknowledge,
         GotoHolding, EndAcknowledgement, CloseAcknowledged, phoneVars
<1>12. ASSUME NEW p \in Requests, NEW t \in Targets, BeginAnswer(p, t)
       PROVE  ClaimedBeforeAlert'
  BY <1>12
     DEF PhoneType, ClaimedBeforeAlert, Repeated, Holdings, BeginAnswer, Answers,
         phoneVars
<1>13. ASSUME NEW p \in Requests \union {Recovery},
              NEW t \in Targets, NEW s \in Statuses, Report(p, t, s)
       PROVE  ClaimedBeforeAlert'
  BY <1>13, ThreadKinds
     DEF ThreadType, PhoneType, ClaimedBeforeAlert, Repeated, Holdings, Report, Goto,
         phoneVars
<1> QED
  BY StepCases, <1>1, <1>2, <1>3, <1>4, <1>5, <1>6, <1>7, <1>8, <1>9, <1>10,
     <1>11, <1>12, <1>13, <1>14

\* Who writes ACKNOWLEDGED writes the acknowledgement first, or has; and what is
\* written back as active was active.
LEMMA StoppedStep ==
  ASSUME PhoneType, AcceptedHasStatus, RowType, ThreadType, TasksHoldTheirs, StoppedBySomebody, Next
  PROVE  StoppedBySomebody'
<1>1. ASSUME ResolveIncident \/ UpdateIncident \/ Crash
      PROVE  StoppedBySomebody'
  BY <1>1
     DEF RowType, StoppedBySomebody, ResolveIncident, UpdateIncident, Crash,
         rowVars
<1>2. ASSUME NEW t \in Targets,
             \/ CallEnds(t) \/ PlaceCall(t) \/ Record(t) \/ SendFailed(t)
             \/ RecordFails(t)
      PROVE  StoppedBySomebody'
  BY <1>2
     DEF RowType, StoppedBySomebody, CallEnds, PlaceCall, Answered, Unanswered, Accepted, Record, Finish,
         SendFailed, RecordFails, rowVars
<1>3. ASSUME NEW w \in Workers, Receive(w)
      PROVE  StoppedBySomebody'
  BY <1>3
     DEF RowType, StoppedBySomebody, Receive, ReadToResolve, Notify, rowVars
<1>4. ASSUME NEW w \in Workers, Open(w)
      PROVE  StoppedBySomebody'
  BY <1>4 DEF RowType, StoppedBySomebody, Open
<1>5. ASSUME NEW w \in Workers, CloseResolved(w)
      PROVE  StoppedBySomebody'
  BY <1>5 DEF RowType, StoppedBySomebody, CloseResolved, Finish
<1>6. ASSUME NEW p \in Threads, Dispatched(p) \/ DispatchThrows(p) \/ Fault(p)
      PROVE  StoppedBySomebody'
  BY <1>6
     DEF RowType, StoppedBySomebody, Dispatched, Finish, DispatchThrows,
         Throw, Fault, rowVars
<1>7. ASSUME NEW p \in Threads, FallbackRead(p)
      PROVE  StoppedBySomebody'
  BY <1>7 DEF RowType, StoppedBySomebody, FallbackRead, Finish, rowVars
<1>8. ASSUME NEW p \in Threads, FallbackClaim(p)
      PROVE  StoppedBySomebody'
  BY <1>8 DEF RowType, StoppedBySomebody, FallbackClaim, Finish
<1>9. ASSUME NEW p \in Threads, FallbackSave(p)
      PROVE  StoppedBySomebody'
  BY <1>9
     DEF ThreadType, RowType, StoppedBySomebody, HoldsActive, FallbackSave, At
<1>10. ASSUME NEW p \in Threads, NEW t \in Targets, StartSend(p, t)
       PROVE  StoppedBySomebody'
  BY <1>10 DEF RowType, StoppedBySomebody, StartSend
<1>11. ASSUME NEW p \in Requests,
              \/ Acknowledge(p) \/ Decline(p) \/ BeginSlack(p)
              \/ BeginApi(p) \/ ReadToAcknowledge(p)
              \/ CloseAcknowledged(p)
       PROVE  StoppedBySomebody'
  BY <1>11, ThreadKinds, NotificationAssumption
     DEF RowType, TasksHoldTheirs, StoppedBySomebody, Acknowledge, Decline,
         BeginSlack, AckBy, BeginApi, ReadToAcknowledge, EndAcknowledgement,
         CloseAcknowledged, At
<1>12. ASSUME NEW p \in Requests, NEW t \in Targets, BeginAnswer(p, t)
       PROVE  StoppedBySomebody'
  BY <1>12 DEF RowType, StoppedBySomebody, BeginAnswer
<1>13. ASSUME NEW p \in Requests \union {Recovery},
              NEW t \in Targets, NEW s \in Statuses, Report(p, t, s)
       PROVE  StoppedBySomebody'
  BY <1>13 DEF RowType, StoppedBySomebody, Report
<1> QED
  BY StepCases, <1>1, <1>2, <1>3, <1>4, <1>5, <1>6, <1>7, <1>8, <1>9, <1>10,
     <1>11, <1>12, <1>13

-----------------------------------------------------------------------------
(* Theorems *)

LEMMA Initially == Init => IInv
<1>1. SUFFICES ASSUME Init PROVE IInv
  OBVIOUS
<1>2. QueueType
  <2>1. inbox \in Seq({"OPEN", "RESOLVED"}) /\ Len(inbox) = 1
    BY <1>1 DEF Init
  <2>2. 0 \in 0..MaxDeliver /\ 1 <= MaxEvents
    BY NotificationAssumption
  <2> QED
    BY <1>1, <2>1, <2>2 DEF Init, QueueType
<1>3. RowType
  BY <1>1, NotificationAssumption DEF Init, RowType, Rows, NoRow
<1>4. ThreadType
  BY <1>1, IdleType DEF Init, ThreadType, HoldsActive
<1>5. PhoneType /\ StoppedBySomebody
  <2>1. NoRow.status = None /\ state = NoRow /\ ack = None
    BY <1>1 DEF NoRow, Init
  <2> QED
    BY <1>1, <2>1, NotificationAssumption
       DEF Init, PhoneType, StoppedBySomebody
<1>6. TasksHoldTheirs /\ AcceptedHasStatus /\ ClaimedBeforeAlert
  BY <1>1, IdleType, ThreadKinds
     DEF Init, TasksHoldTheirs, AcceptedHasStatus, ClaimedBeforeAlert, Repeated
<1> QED
  BY <1>2, <1>3, <1>4, <1>5, <1>6, Parts DEF IInv

LEMMA Inductive == IInv /\ [Next]_vars => IInv'
<1>1. ASSUME IInv, Next
      PROVE  IInv'
  <2>1. QueueType /\ RowType /\ ThreadType
    BY <1>1, Parts DEF IInv
  <2>2. QueueType' /\ RowType' /\ ThreadType'
    BY <1>1, <2>1, QueueTypeStep, RowTypeStep, ThreadTypeStep DEF IInv
  <2>3. TypeOK'
    BY <2>2 DEF TypeOK, QueueType, RowType, ThreadType
  <2>4. PhoneType' /\ TasksHoldTheirs' /\ StoppedBySomebody'
    BY <1>1, <2>1, PhoneTypeStep, TasksHoldTheirsStep, StoppedStep DEF IInv
  <2>5. AcceptedHasStatus' /\ ClaimedBeforeAlert'
    BY <1>1, <2>1, AcceptedHasStatusStep, ClaimedBeforeAlertStep DEF IInv
  <2> QED
    BY <2>3, <2>4, <2>5 DEF IInv
<1>2. ASSUME IInv, UNCHANGED vars
      PROVE  IInv'
  BY <1>2
     DEF IInv, TypeOK, PhoneType, TasksHoldTheirs, AcceptedHasStatus,
         ClaimedBeforeAlert, Repeated, StoppedBySomebody, vars, queueVars, rowVars,
         phoneVars
<1> QED
  BY <1>1, <1>2

LEMMA Invariance == Spec => []IInv
<1> QED
  BY Initially, Inductive, PTL DEF Spec

\* Every reachable state is well typed, and every task that is about to write
\* the notification's row back has read an active one.
THEOREM TypeCorrect == Spec => []TypeOK
<1>1. IInv => TypeOK
  BY DEF IInv
<1> QED
  BY <1>1, Invariance, PTL

\* Nobody is alerted twice for an incident, however many handlers overrun their
\* ack wait, requests arrive at once, or faults interrupt them: the direct:...
\* key is claimed before the provider is asked and is never released. Only the
\* provider's client repeats a call, and only one whose answer it has not got.
THEOREM NobodyAlertedTwice == Spec => []AlertedOnce
<1>1. IInv => AlertedOnce
  BY DEF IInv, ClaimedBeforeAlert, Repeated, AlertedOnce
<1> QED
  BY <1>1, Invariance, PTL

\* Alerting is acknowledged only with an acknowledgement on record, on each of
\* the four paths and at every interruption.
THEOREM AlwaysStoppedBySomebody == Spec => []StoppedBySomebody
<1>1. IInv => StoppedBySomebody
  BY DEF IInv
<1> QED
  BY <1>1, Invariance, PTL

-----------------------------------------------------------------------------
(* Without faults, everybody is reached                                     *)

Calling(t) == thread[t].at \in {"call", "record", "failed"}

\* Somebody has claimed the target's key, or is about to.
Pledged(t) ==
  \/ SendKey(t) \in claims
  \/ \E p \in Threads : thread[p].at = "dispatch" /\ t \in thread[p].todo

NobodyThrew == \A p \in Threads : thread[p].at # "threw"

\* The claim of a target's key leads to a contact, ...
ClaimsAreKept ==
  \A t \in Targets :
    /\ thread[t].at # "idle" \/ attempt[t] # None => SendKey(t) \in claims
    /\ t \in linked => Contacted(t)
    /\ SendKey(t) \in claims => Calling(t) \/ Contacted(t)

\* Whoever answers has been called.
AnswersAreClaimed ==
  \A p \in Threads : thread[p].at \in {"acknowledge", "decline"} => SendKey(thread[p].on) \in claims

\* ... and who is named in the state, or in a copy of it, is pledged to be called.
NamedArePledged ==
  /\ \A t \in state.recipients : Pledged(t)
  /\ \A p \in Threads : \A t \in thread[p].seen.recipients : Pledged(t)

\* Alerting ends as resolved only with the incident, and begins with its state.
ResolvedWithIncident ==
  /\ \A e \in 1..Len(inbox) : inbox[e] = "RESOLVED" => incident = "RESOLVED"
  /\ \A p \in Threads : thread[p].at = "close" => incident = "RESOLVED"
  /\ state.status = "RESOLVED" => incident = "RESOLVED"

StateBeforeCalls ==
  state.status = None =>
    /\ \A p \in Threads : thread[p].at # "dispatch"
    /\ \A t \in Targets : SendKey(t) \notin claims

\* A failure is on its way to the Admin, ...
FailureIsHandled ==
  ack = None /\ incident = "OPEN" /\ (\E t \in Targets : FallsBack(t) /\ attempt[t] \in Failures)
  => FallbackKey \in claims \/ \E p \in Threads : thread[p].at \in {"fallback", "fallback-claim"}

\* ... who is pledged to be called when the fallback is claimed.
FallbackIsKept ==
  incident = "OPEN" /\ FallbackKey \in claims =>
    (\E p \in Threads : thread[p].at = "fallback-save") \/ \A t \in Admins : Pledged(t)

Sure ==
  /\ NobodyThrew /\ ClaimsAreKept /\ AnswersAreClaimed /\ NamedArePledged
  /\ ResolvedWithIncident /\ StateBeforeCalls
  /\ FailureIsHandled /\ FallbackIsKept

-----------------------------------------------------------------------------
(* What a step without a fault does                                         *)

\* Task p goes on to a stage with targets to call and a row; no other changes.
Becomes(p, at, todo, row) ==
  \A q \in Threads :
    IF q = p THEN thread'[q].at = at /\ thread'[q].todo = todo /\ thread'[q].seen = row
    ELSE thread'[q] = thread[q]

LEMMA GotoBecomes ==
  ASSUME ThreadType, NEW p \in Threads, NEW s \in Stages, Goto(p, s)
  PROVE  Becomes(p, s, thread[p].todo, thread[p].seen)
<1> QED
  BY DEF ThreadType, Goto, Becomes, Holdings

LEMMA GotoHoldingBecomes ==
  ASSUME ThreadType, NEW p \in Threads, NEW s \in Stages, NEW row \in Rows, GotoHolding(p, s, row)
  PROVE  Becomes(p, s, thread[p].todo, row)
<1> QED
  BY DEF ThreadType, GotoHolding, Becomes, Holdings

LEMMA DispatchingBecomes ==
  ASSUME ThreadType, NEW p \in Threads, NEW targets, Dispatching(p, targets)
  PROVE  Becomes(p, "dispatch", targets, thread[p].seen)
<1> QED
  BY DEF ThreadType, Dispatching, Becomes, Holdings

LEMMA IdleBecomes ==
  ASSUME ThreadType, NEW p \in Threads, thread' = [thread EXCEPT ![p] = Idle]
  PROVE  Becomes(p, "idle", {}, NoRow)
<1> QED
  BY DEF ThreadType, Becomes, Idle

LEMMA SameBecomes ==
  ASSUME NEW p \in Threads, UNCHANGED thread
  PROVE  Becomes(p, thread[p].at, thread[p].todo, thread[p].seen)
<1> QED
  BY DEF Becomes

\* The claims that are not of sends, nor of the fallback, may come and stay.
OtherKeys == {AnswerKey(t, a) : t \in Targets, a \in Answers} \union {SlackKey(s) : s \in Signals}

LEMMA KeysDiffer ==
  /\ \A t \in Targets : SendKey(t) \notin OtherKeys /\ SendKey(t) # FallbackKey
  /\ FallbackKey \notin OtherKeys
<1> QED
  BY DEF OtherKeys, SendKey, FallbackKey, AnswerKey, SlackKey, Answers

\* A step of task p: what becomes of its pledges, ...
KeepsPledges(p, at, todo, row) ==
  /\ at # "threw"
  /\ p \in Targets /\ at # "idle" => thread[p].at # "idle"
  /\ thread[p].at = "dispatch" => thread[p].todo = {} \/ (at = "dispatch" /\ todo = thread[p].todo)
  /\ row.recipients \subseteq state.recipients \union thread[p].seen.recipients
  /\ p \in Targets /\ Calling(p) => at \in {"call", "record", "failed"} \/ Contacted(p)'

\* ... of the state, ...
KeepsState(p, at, todo) ==
  /\ \A t \in state'.recipients :
       \/ t \in state.recipients \union thread[p].seen.recipients
       \/ at = "dispatch" /\ t \in todo
  /\ incident' \in {incident, "RESOLVED"}
  /\ \A e \in 1..Len(inbox') : inbox'[e] = "RESOLVED" =>
       incident' = "RESOLVED" \/ (e \in 1..Len(inbox) /\ inbox[e] = "RESOLVED")
  /\ at = "close" => thread[p].at = "close" \/ incident = "RESOLVED"
  /\ state'.status = "RESOLVED" => state.status = "RESOLVED" \/ thread[p].at = "close"
  /\ state'.status = None => state.status = None /\ (at = "dispatch" => thread[p].at = "dispatch")

\* ... of the claims and the attempts, ...
KeepsClaims(p, at) ==
  /\ claims' \in {claims} \union {claims \union {k} : k \in OtherKeys \union {FallbackKey}}
  /\ \A t \in Targets :
       attempt'[t] = attempt[t]
         \/ /\ Contacted(t)' /\ SendKey(t) \in claims
            /\ FallsBack(t) /\ attempt'[t] \in Failures => at = "fallback"
  /\ \A t \in linked' : t \in linked \/ Contacted(t)'
  /\ at \in {"acknowledge", "decline"} => SendKey(thread'[p].on) \in claims

\* ... and of a fallback.
KeepsFallback(p, at, todo) ==
  /\ ack' = None => ack = None
  /\ thread[p].at \in {"fallback", "fallback-claim"} =>
       \/ at \in {"fallback", "fallback-claim"} \/ FallbackKey \in claims'
       \/ state.status # "ACTIVE" \/ incident = "RESOLVED"
  /\ thread[p].at = "fallback-save" => at = "fallback-save" \/ (at = "dispatch" /\ Admins \subseteq todo)
  /\ FallbackKey \in claims' => FallbackKey \in claims \/ at = "fallback-save" \/ incident = "RESOLVED"

Effect(p, at, todo, row) ==
  /\ Becomes(p, at, todo, row) /\ KeepsPledges(p, at, todo, row) /\ KeepsState(p, at, todo)
  /\ KeepsClaims(p, at) /\ KeepsFallback(p, at, todo)

LEMMA FailuresAreStatuses == \A s \in Failures : s # None /\ s \in Statuses
<1> QED
  BY NotificationAssumption DEF Failures, Statuses, Rank

-----------------------------------------------------------------------------
(* Such a step keeps what makes sure *)

LEMMA PledgesAreKept ==
  ASSUME NEW p \in Threads, NEW at, NEW todo, NEW row, Effect(p, at, todo, row),
         NEW t \in Targets, Pledged(t)
  PROVE  Pledged(t)'
<1>1. CASE SendKey(t) \in claims
  BY <1>1 DEF Effect, KeepsClaims, Pledged
<1>2. CASE \E q \in Threads : thread[q].at = "dispatch" /\ t \in thread[q].todo
  <2>1. PICK q \in Threads : thread[q].at = "dispatch" /\ t \in thread[q].todo
    BY <1>2
  <2>2. thread'[q].at = "dispatch" /\ t \in thread'[q].todo
    BY <2>1 DEF Effect, Becomes, KeepsPledges
  <2> QED
    BY <2>2 DEF Pledged
<1> QED
  BY <1>1, <1>2 DEF Pledged

LEMMA SureIsKept ==
  ASSUME RowType, RowType', ThreadType, StoppedBySomebody, Sure,
         NEW p \in Threads, NEW at, NEW todo, NEW row, Effect(p, at, todo, row)
  PROVE  Sure'
<1>1. NobodyThrew'
  BY DEF Sure, NobodyThrew, Effect, Becomes, KeepsPledges
<1>2. ClaimsAreKept'
  <2> SUFFICES ASSUME NEW t \in Targets
               PROVE  /\ thread'[t].at # "idle" \/ attempt'[t] # None => SendKey(t) \in claims'
                      /\ t \in linked' => Contacted(t)'
                      /\ SendKey(t) \in claims' => Calling(t)' \/ Contacted(t)'
    BY DEF ClaimsAreKept
  <2>1. t \in Threads
    BY ThreadKinds
  <2>2. Contacted(t) => Contacted(t)'
    BY DEF Effect, KeepsClaims, Contacted
  <2>3. SendKey(t) \in claims' <=> SendKey(t) \in claims
    BY KeysDiffer DEF Effect, KeepsClaims
  <2>4. thread'[t].at # "idle" \/ attempt'[t] # None => SendKey(t) \in claims
    BY <2>1, <2>3 DEF Sure, ClaimsAreKept, Effect, Becomes, KeepsPledges, KeepsClaims
  <2>5. Calling(t) => Calling(t)' \/ Contacted(t)'
    BY <2>1 DEF Calling, Effect, Becomes, KeepsPledges
  <2> QED
    BY <2>2, <2>3, <2>4, <2>5 DEF Sure, ClaimsAreKept, Effect, KeepsClaims
<1>3. NamedArePledged'
  <2>1. ASSUME NEW t \in state'.recipients
        PROVE  Pledged(t)'
    <3>1. t \in Targets
      BY DEF RowType, Rows
    <3>2. Pledged(t) \/ (at = "dispatch" /\ t \in todo)
      BY DEF Sure, NamedArePledged, Effect, KeepsState
    <3>3. CASE at = "dispatch" /\ t \in todo
      <4>1. thread'[p].at = "dispatch" /\ t \in thread'[p].todo
        BY <3>3 DEF Effect, Becomes
      <4> QED
        BY <4>1 DEF Pledged
    <3> QED
      BY <3>1, <3>2, <3>3, PledgesAreKept
  <2>2. ASSUME NEW q \in Threads, NEW t \in thread'[q].seen.recipients, t \in Targets
        PROVE  Pledged(t)'
    <3>1. t \in state.recipients \/ \E o \in Threads : t \in thread[o].seen.recipients
      BY <2>2 DEF Effect, Becomes, KeepsPledges
    <3>2. Pledged(t)
      BY <3>1 DEF Sure, NamedArePledged
    <3> QED
      BY <2>2, <3>2, PledgesAreKept
  <2>3. \A q \in Threads : thread'[q].seen.recipients \subseteq Targets
    <3>1. \A q \in Threads : \A t \in thread'[q].seen.recipients :
            t \in state.recipients \/ \E o \in Threads : t \in thread[o].seen.recipients
      BY DEF Effect, Becomes, KeepsPledges
    <3> QED
      BY <3>1 DEF ThreadType, Holdings, RowType, Rows
  <2> QED
    BY <2>1, <2>2, <2>3 DEF NamedArePledged
<1>4. ResolvedWithIncident'
  <2>1. incident = "RESOLVED" => incident' = "RESOLVED"
    BY DEF Effect, KeepsState
  <2>2. \A e \in 1..Len(inbox') : inbox'[e] = "RESOLVED" => incident' = "RESOLVED"
    BY <2>1 DEF Effect, KeepsState, Sure, ResolvedWithIncident
  <2>3. \A q \in Threads : thread'[q].at = "close" => incident' = "RESOLVED"
    BY <2>1 DEF Effect, Becomes, KeepsState, Sure, ResolvedWithIncident
  <2>4. state'.status = "RESOLVED" => incident' = "RESOLVED"
    BY <2>1 DEF Effect, KeepsState, Sure, ResolvedWithIncident
  <2> QED
    BY <2>2, <2>3, <2>4 DEF ResolvedWithIncident
<1>5. StateBeforeCalls'
  <2> SUFFICES ASSUME state'.status = None
               PROVE  /\ \A q \in Threads : thread'[q].at # "dispatch"
                      /\ \A t \in Targets : SendKey(t) \notin claims'
    BY DEF StateBeforeCalls
  <2>1. state.status = None /\ (at = "dispatch" => thread[p].at = "dispatch")
    BY DEF Effect, KeepsState
  <2>2. \A q \in Threads : thread'[q].at # "dispatch"
    BY <2>1 DEF Sure, StateBeforeCalls, Effect, Becomes
  <2>3. \A t \in Targets : SendKey(t) \notin claims'
    BY <2>1, KeysDiffer DEF Sure, StateBeforeCalls, Effect, KeepsClaims
  <2> QED
    BY <2>2, <2>3
<1>6. FailureIsHandled'
  <2> SUFFICES ASSUME ack' = None, incident' = "OPEN",
                      NEW t \in Targets, FallsBack(t), attempt'[t] \in Failures
               PROVE  \/ FallbackKey \in claims'
                      \/ \E q \in Threads : thread'[q].at \in {"fallback", "fallback-claim"}
    BY DEF FailureIsHandled, FallsBack
  <2>1. ack = None /\ incident = "OPEN"
    BY DEF Effect, KeepsFallback, KeepsState
  <2>2. CASE attempt'[t] = attempt[t]
    <3>1. FallbackKey \in claims \/ \E q \in Threads : thread[q].at \in {"fallback", "fallback-claim"}
      BY <2>1, <2>2 DEF Sure, FailureIsHandled
    <3>2. FallbackKey \in claims => FallbackKey \in claims'
      BY DEF Effect, KeepsClaims
    <3>3. state.status = "ACTIVE"
      <4>1. state.status # "ACKNOWLEDGED"
        BY <2>1 DEF StoppedBySomebody
      <4>2. state.status # "RESOLVED"
        BY <2>1 DEF Sure, ResolvedWithIncident
      <4>3. attempt[t] # None
        BY <2>2, FailuresAreStatuses
      <4>4. state.status # None
        BY <4>3 DEF Sure, StateBeforeCalls, ClaimsAreKept
      <4> QED
        BY <4>1, <4>2, <4>4 DEF RowType, Rows
    <3>4. ASSUME NEW q \in Threads, thread[q].at \in {"fallback", "fallback-claim"}
          PROVE  FallbackKey \in claims' \/ thread'[q].at \in {"fallback", "fallback-claim"}
      BY <2>1, <3>3, <3>4 DEF Effect, Becomes, KeepsFallback
    <3> QED
      BY <3>1, <3>2, <3>4
  <2>3. CASE attempt'[t] # attempt[t]
    BY <2>3 DEF Effect, Becomes, KeepsClaims
  <2> QED
    BY <2>2, <2>3
<1>7. FallbackIsKept'
  <2> SUFFICES ASSUME incident' = "OPEN", FallbackKey \in claims'
               PROVE  \/ \E q \in Threads : thread'[q].at = "fallback-save"
                      \/ \A t \in Admins : Pledged(t)'
    BY DEF FallbackIsKept
  <2>1. incident = "OPEN"
    BY DEF Effect, KeepsState
  <2>2. CASE at = "fallback-save"
    BY <2>2 DEF Effect, Becomes
  <2>3. CASE at = "dispatch" /\ Admins \subseteq todo
    <3>1. thread'[p].at = "dispatch" /\ Admins \subseteq thread'[p].todo
      BY <2>3 DEF Effect, Becomes
    <3> QED
      BY <3>1 DEF Pledged
  <2>4. CASE at # "fallback-save" /\ ~(at = "dispatch" /\ Admins \subseteq todo)
    <3>1. FallbackKey \in claims /\ thread[p].at # "fallback-save"
      BY <2>1, <2>4 DEF Effect, KeepsFallback
    <3>2. CASE \E q \in Threads : thread[q].at = "fallback-save"
      BY <3>1, <3>2 DEF Effect, Becomes
    <3>3. CASE \A t \in Admins : Pledged(t)
      BY <3>3, PledgesAreKept, RecipientsAreTargets
    <3> QED
      BY <2>1, <3>1, <3>2, <3>3 DEF Sure, FallbackIsKept
  <2> QED
    BY <2>2, <2>3, <2>4
<1>8. AnswersAreClaimed'
  BY DEF Sure, AnswersAreClaimed, Effect, Becomes, KeepsClaims
<1> QED
  BY <1>1, <1>2, <1>3, <1>4, <1>5, <1>6, <1>7, <1>8 DEF Sure

-----------------------------------------------------------------------------
(* A send begins *)

LEMMA SendMoves ==
  ASSUME ThreadType, ClaimsAreKept, NEW p \in Threads, NEW t \in Targets, StartSend(p, t)
  PROVE  /\ \A q \in Threads :
              \/ /\ thread'[q].at = thread[q].at /\ thread'[q].on = thread[q].on
                 /\ thread'[q].seen = thread[q].seen /\ thread[q].todo \ {t} \subseteq thread'[q].todo
              \/ /\ q = t /\ thread[q].at = "idle" /\ thread'[q].at = "call"
                 /\ thread'[q].seen.recipients = {}
         /\ \/ SendKey(t) \in claims /\ UNCHANGED <<claims, attempt>>
            \/ /\ thread'[t].at = "call" /\ claims' = claims \union {SendKey(t)}
               /\ attempt' = [attempt EXCEPT ![t] = "PENDING"] /\ SendKey(t) \notin claims
<1>1. thread \in [Threads -> Holdings] /\ t \in Threads
  BY ThreadKinds DEF ThreadType
<1>2. CASE SendKey(t) \in claims
  <2>1. thread' = [thread EXCEPT ![p].todo = @ \ {t}] /\ UNCHANGED <<claims, attempt>>
    BY <1>2 DEF StartSend
  <2> QED
    BY <1>1, <1>2, <2>1 DEF Holdings
<1>3. CASE SendKey(t) \notin claims
  <2> DEFINE waiting == [thread EXCEPT ![p].todo = @ \ {t},
                                       ![p].mine = @ \union {t}]
             begun   == [Idle EXCEPT !.at = "call", !.on = t]
  <2>1. waiting \in [Threads -> Holdings]
    BY <1>1 DEF Holdings
  <2>2. \A q \in Threads :
          /\ waiting[q].at = thread[q].at /\ waiting[q].on = thread[q].on
          /\ waiting[q].seen = thread[q].seen /\ thread[q].todo \ {t} \subseteq waiting[q].todo
    BY <1>1 DEF Holdings
  <2>3. begun.at = "call" /\ begun.seen.recipients = {}
    BY DEF Idle, NoRow
  <2>4. thread' = [waiting EXCEPT ![t] = begun]
    BY <1>3 DEF StartSend
  <2>5. thread[t].at = "idle"
    BY <1>3 DEF ClaimsAreKept
  <2>6. /\ claims' = claims \union {SendKey(t)} /\ attempt' = [attempt EXCEPT ![t] = "PENDING"]
    BY <1>3 DEF StartSend
  <2> HIDE DEF waiting, begun
  <2>7. thread'[t] = begun /\ \A q \in Threads \ {t} : thread'[q] = waiting[q]
    BY <1>1, <2>1, <2>4
  <2> QED
    BY <1>1, <1>3, <2>2, <2>3, <2>5, <2>6, <2>7
<1> QED
  BY <1>2, <1>3

LEMMA SendPledges ==
  ASSUME ThreadType, ClaimsAreKept, NEW p \in Threads, NEW t \in Targets, StartSend(p, t),
         NEW u \in Targets, Pledged(u)
  PROVE  Pledged(u)'
<1>1. SendKey(t) \in claims' /\ claims \subseteq claims'
  BY SendMoves
<1>2. CASE u = t \/ SendKey(u) \in claims
  BY <1>1, <1>2 DEF Pledged
<1>3. CASE u # t /\ SendKey(u) \notin claims
  <2>1. PICK q \in Threads : thread[q].at = "dispatch" /\ u \in thread[q].todo
    BY <1>3 DEF Pledged
  <2>2. thread'[q].at = "dispatch" /\ u \in thread'[q].todo
    BY <1>3, <2>1, SendMoves
  <2> QED
    BY <2>2 DEF Pledged
<1> QED
  BY <1>2, <1>3

LEMMA SendKeepsSure ==
  ASSUME RowType, ThreadType, Sure, NEW p \in Threads, NEW t \in Targets, StartSend(p, t)
  PROVE  Sure'
<1> USE SendMoves DEF Sure
<1>1. UNCHANGED <<incident, inbox, state, ack, linked>>
  BY DEF StartSend, queueVars
<1>2. NobodyThrew'
  BY DEF NobodyThrew
<1>3. ClaimsAreKept'
  <2> SUFFICES ASSUME NEW u \in Targets
               PROVE  /\ thread'[u].at # "idle" \/ attempt'[u] # None => SendKey(u) \in claims'
                      /\ u \in linked' => Contacted(u)'
                      /\ SendKey(u) \in claims' => Calling(u)' \/ Contacted(u)'
    BY DEF ClaimsAreKept
  <2>1. u \in Threads
    BY ThreadKinds
  <2>2. CASE SendKey(t) \in claims
    BY <1>1, <2>1, <2>2 DEF ClaimsAreKept, Contacted, Calling
  <2>3. CASE SendKey(t) \notin claims /\ u = t
    BY <1>1, <2>1, <2>3 DEF ClaimsAreKept, Contacted, Calling
  <2>4. CASE SendKey(t) \notin claims /\ u # t
    <3>1. SendKey(u) # SendKey(t)
      BY <2>4 DEF SendKey
    <3>2. thread'[u].at = thread[u].at /\ attempt'[u] = attempt[u]
      BY <2>1, <2>4 DEF RowType
    <3>3. SendKey(u) \in claims' <=> SendKey(u) \in claims
      BY <2>4, <3>1
    <3> QED
      BY <1>1, <2>1, <3>2, <3>3 DEF ClaimsAreKept, Contacted, Calling
  <2> QED
    BY <2>2, <2>3, <2>4
<1>4. AnswersAreClaimed'
  BY DEF AnswersAreClaimed
<1>5. NamedArePledged'
  <2>1. \A u \in state'.recipients : Pledged(u)'
    BY <1>1, SendPledges DEF NamedArePledged, RowType, Rows
  <2>2. ASSUME NEW q \in Threads, NEW u \in thread'[q].seen.recipients
        PROVE  Pledged(u)'
    <3>1. u \in thread[q].seen.recipients
      BY <2>2
    <3>2. u \in Targets
      BY <3>1 DEF ThreadType, Holdings, Rows
    <3> QED
      BY <3>1, <3>2, SendPledges DEF NamedArePledged
  <2> QED
    BY <2>1, <2>2 DEF NamedArePledged
<1>6. ResolvedWithIncident'
  BY <1>1 DEF ResolvedWithIncident
<1>7. StateBeforeCalls'
  BY <1>1 DEF StateBeforeCalls, StartSend, At
<1>8. FailureIsHandled'
  <2> SUFFICES ASSUME ack = None, incident = "OPEN",
                      NEW u \in Targets, FallsBack(u), attempt'[u] \in Failures
               PROVE  \/ FallbackKey \in claims'
                      \/ \E q \in Threads : thread'[q].at \in {"fallback", "fallback-claim"}
    BY <1>1 DEF FailureIsHandled, FallsBack
  <2>1. attempt[u] \in Failures
    BY DEF RowType, Failures
  <2>2. FallbackKey \in claims \/ \E q \in Threads : thread[q].at \in {"fallback", "fallback-claim"}
    BY <2>1 DEF FailureIsHandled
  <2> QED
    BY <2>2
<1>9. FallbackIsKept'
  <2> SUFFICES ASSUME incident = "OPEN", FallbackKey \in claims'
               PROVE  \/ \E q \in Threads : thread'[q].at = "fallback-save"
                      \/ \A u \in Admins : Pledged(u)'
    BY <1>1 DEF FallbackIsKept
  <2>1. FallbackKey \in claims
    BY KeysDiffer
  <2>2. CASE \E q \in Threads : thread[q].at = "fallback-save"
    BY <2>2
  <2>3. CASE \A u \in Admins : Pledged(u)
    BY <2>3, SendPledges, RecipientsAreTargets
  <2> QED
    BY <2>1, <2>2, <2>3 DEF FallbackIsKept
<1> QED
  BY <1>2, <1>3, <1>4, <1>5, <1>6, <1>7, <1>8, <1>9

-----------------------------------------------------------------------------
(* The steps without a fault *)

Moves(p) == \E at, todo, row : Effect(p, at, todo, row)

\* The incident and the provider change nothing that the service has done.
LEMMA OutsideMoves ==
  ASSUME RowType, QueueType, Sure,
         ResolveIncident \/ UpdateIncident \/ \E t \in Targets : CallEnds(t)
  PROVE  \E p \in Threads : Moves(p)
<1> DEFINE at == thread[Recovery].at  todo == thread[Recovery].todo  row == thread[Recovery].seen
<1>1. UNCHANGED <<state, ack, claims, attempt, linked, thread>>
  BY DEF ResolveIncident, UpdateIncident, CallEnds, rowVars
<1>2. Becomes(Recovery, at, todo, row)
  BY <1>1, ThreadKinds, SameBecomes
<1>3. KeepsPledges(Recovery, at, todo, row)
  BY ThreadKinds DEF KeepsPledges, Sure, NobodyThrew
<1>4. KeepsState(Recovery, at, todo)
  <2>1. /\ incident' \in {incident, "RESOLVED"}
        /\ \A e \in 1..Len(inbox') : inbox'[e] = "RESOLVED" =>
             incident' = "RESOLVED" \/ (e \in 1..Len(inbox) /\ inbox[e] = "RESOLVED")
    <3>1. CASE ResolveIncident
      BY <3>1 DEF ResolveIncident
    <3>2. CASE UpdateIncident
      BY <3>2 DEF UpdateIncident, QueueType
    <3>3. CASE \E t \in Targets : CallEnds(t)
      BY <3>3 DEF CallEnds, queueVars
    <3> QED
      BY <3>1, <3>2, <3>3
  <2> QED
    BY <1>1, <2>1 DEF KeepsState
<1>5. KeepsClaims(Recovery, at)
  BY <1>1, ThreadKinds DEF KeepsClaims, Sure, AnswersAreClaimed
<1>6. KeepsFallback(Recovery, at, todo)
  BY <1>1 DEF KeepsFallback
<1> QED
  BY <1>2, <1>3, <1>4, <1>5, <1>6, ThreadKinds DEF Effect, Moves

\* A send that reaches the provider, or does not.
LEMMA SendMovesOn ==
  ASSUME RowType, ThreadType, Sure, NEW p \in Targets, SendStep(p)
  PROVE  Moves(p)
<1> USE ThreadKinds DEF Sure
<1>1. CASE PlaceCall(p)
  <2>1. PICK at \in {"record", "call", "failed"} : Goto(p, at)
    BY <1>1 DEF PlaceCall, Answered, Unanswered, Accepted
  <2>2. Becomes(p, at, thread[p].todo, thread[p].seen) /\ thread[p].at = "call"
    BY <1>1, <2>1, GotoBecomes DEF Stages, PlaceCall, Answered, Unanswered, Accepted, At
  <2>3. KeepsPledges(p, at, thread[p].todo, thread[p].seen)
    BY <2>2 DEF KeepsPledges
  <2>4. KeepsState(p, at, thread[p].todo) /\ KeepsFallback(p, at, thread[p].todo) /\ KeepsClaims(p, at)
    BY <1>1, <2>2 DEF KeepsState, KeepsFallback, KeepsClaims, PlaceCall, Answered, Unanswered, Accepted, queueVars, rowVars
  <2> QED
    BY <2>2, <2>3, <2>4 DEF Effect, Moves
<1>2. CASE Record(p)
  <2>1. Becomes(p, "idle", {}, NoRow) /\ thread[p].at = "record"
    BY <1>2, IdleBecomes DEF Record, Finish, At
  <2>2. Contacted(p)' /\ \A t \in Targets \ {p} : attempt'[t] = attempt[t]
    BY <1>2, NotificationAssumption, StatusNames DEF Record, Contacted, RowType
  <2>3. SendKey(p) \in claims
    BY <2>1 DEF ClaimsAreKept
  <2>4. KeepsPledges(p, "idle", {}, NoRow)
    BY <2>1, <2>2 DEF KeepsPledges, NoRow
  <2>5. KeepsState(p, "idle", {}) /\ KeepsFallback(p, "idle", {})
    BY <1>2, <2>1 DEF KeepsState, KeepsFallback, Record, Finish
  <2>6. attempt'[p] \notin Failures
    BY <1>2 DEF Record, RowType, Failures
  <2>7. KeepsClaims(p, "idle")
    BY <1>2, <2>2, <2>3, <2>6 DEF KeepsClaims, Record
  <2> QED
    BY <2>1, <2>4, <2>5, <2>7 DEF Effect, Moves
<1>3. CASE SendFailed(p)
  <2>1. Contacted(p)' /\ \A t \in Targets \ {p} : attempt'[t] = attempt[t]
    BY <1>3, NotificationAssumption DEF SendFailed, Contacted, RowType, Statuses, Rank
  <2>2. thread[p].at = "failed" /\ SendKey(p) \in claims
    BY <1>3 DEF SendFailed, At, ClaimsAreKept
  <2>3. UNCHANGED <<incident, inbox, state, ack, claims>> /\ linked' \subseteq linked \union {p}
    BY <1>3 DEF SendFailed, Finish, queueVars
  <2>4. CASE FallsBack(p)
    <3>1. Becomes(p, "fallback", thread[p].todo, thread[p].seen)
      BY <1>3, <2>4, GotoBecomes DEF Stages, SendFailed
    <3>2. KeepsPledges(p, "fallback", thread[p].todo, thread[p].seen)
      BY <2>1, <2>2 DEF KeepsPledges
    <3>3. KeepsState(p, "fallback", thread[p].todo) /\ KeepsFallback(p, "fallback", thread[p].todo)
      BY <2>2, <2>3 DEF KeepsState, KeepsFallback
    <3>4. KeepsClaims(p, "fallback")
      BY <2>1, <2>2, <2>3 DEF KeepsClaims
    <3> QED
      BY <3>1, <3>2, <3>3, <3>4 DEF Effect, Moves
  <2>5. CASE ~FallsBack(p)
    <3>1. Becomes(p, "idle", {}, NoRow)
      BY <1>3, <2>5, IdleBecomes DEF SendFailed, Finish
    <3>2. KeepsPledges(p, "idle", {}, NoRow)
      BY <2>1, <2>2 DEF KeepsPledges, NoRow
    <3>3. KeepsState(p, "idle", {}) /\ KeepsFallback(p, "idle", {})
      BY <2>2, <2>3 DEF KeepsState, KeepsFallback
    <3>4. KeepsClaims(p, "idle")
      BY <2>1, <2>2, <2>3, <2>5 DEF KeepsClaims
    <3> QED
      BY <3>1, <3>2, <3>3, <3>4 DEF Effect, Moves
  <2> QED
    BY <2>4, <2>5
<1> QED
  BY <1>1, <1>2, <1>3 DEF SendStep

\* A handler of a lifecycle event.
LEMMA HandlerMoves ==
  ASSUME RowType, QueueType, ThreadType, Sure, NEW p \in Workers, WorkerStep(p)
  PROVE  Moves(p)
<1> USE ThreadKinds DEF Sure
<1>1. CASE Receive(p)
  <2>1. UNCHANGED <<incident, inbox, rowVars>> /\ thread[p].at = "idle"
    BY <1>1 DEF Receive, At
  <2>2. CASE UNCHANGED thread
    <3>1. Becomes(p, "idle", thread[p].todo, thread[p].seen)
      BY <2>1, <2>2, SameBecomes
    <3>2. KeepsPledges(p, "idle", thread[p].todo, thread[p].seen)
      BY <2>1 DEF KeepsPledges
    <3>3. KeepsState(p, "idle", thread[p].todo) /\ KeepsFallback(p, "idle", thread[p].todo) /\ KeepsClaims(p, "idle")
      BY <2>1 DEF KeepsState, KeepsFallback, KeepsClaims, rowVars
    <3> QED
      BY <3>1, <3>2, <3>3 DEF Effect, Moves
  <2>3. CASE \E e \in 1..Len(inbox) : thread' = [thread EXCEPT ![p].at = "open", ![p].on = e]
    <3>1. Becomes(p, "open", thread[p].todo, thread[p].seen)
      BY <2>3 DEF Becomes, ThreadType, Holdings
    <3>2. KeepsPledges(p, "open", thread[p].todo, thread[p].seen)
      BY <2>1 DEF KeepsPledges
    <3>3. KeepsState(p, "open", thread[p].todo) /\ KeepsFallback(p, "open", thread[p].todo) /\ KeepsClaims(p, "open")
      BY <2>1 DEF KeepsState, KeepsFallback, KeepsClaims, rowVars
    <3> QED
      BY <3>1, <3>2, <3>3 DEF Effect, Moves
  <2>4. CASE \E e \in 1..Len(inbox) :
               /\ inbox[e] = "RESOLVED"
               /\ thread' = [thread EXCEPT ![p].at = "close", ![p].on = e, ![p].seen = state]
    <3>1. Becomes(p, "close", thread[p].todo, state)
      BY <2>4 DEF Becomes, ThreadType, Holdings
    <3>2. KeepsPledges(p, "close", thread[p].todo, state)
      BY <2>1 DEF KeepsPledges
    <3>3. incident = "RESOLVED"
      BY <2>4 DEF ResolvedWithIncident
    <3>4. KeepsState(p, "close", thread[p].todo) /\ KeepsFallback(p, "close", thread[p].todo) /\ KeepsClaims(p, "close")
      BY <2>1, <3>3 DEF KeepsState, KeepsFallback, KeepsClaims, rowVars
    <3> QED
      BY <3>1, <3>2, <3>4 DEF Effect, Moves
  <2> QED
    BY <1>1, <2>2, <2>3, <2>4 DEF Receive, ReadToResolve, Notify
<1>2. CASE Open(p)
  <2>1. Becomes(p, "dispatch", Recipients, thread[p].seen) /\ thread[p].at = "open"
    BY <1>2, DispatchingBecomes DEF Open, At
  <2>2. KeepsPledges(p, "dispatch", Recipients, thread[p].seen)
    BY <2>1 DEF KeepsPledges
  <2>3. KeepsState(p, "dispatch", Recipients)
    BY <1>2, NotificationAssumption DEF KeepsState, Open, queueVars
  <2>4. KeepsFallback(p, "dispatch", Recipients) /\ KeepsClaims(p, "dispatch")
    BY <1>2, <2>1 DEF KeepsFallback, KeepsClaims, Open
  <2> QED
    BY <2>1, <2>2, <2>3, <2>4 DEF Effect, Moves
<1>3. CASE CloseResolved(p)
  <2>1. Becomes(p, "idle", {}, NoRow) /\ thread[p].at = "close"
    BY <1>3, IdleBecomes DEF CloseResolved, Finish, At
  <2>2. KeepsPledges(p, "idle", {}, NoRow)
    BY <2>1 DEF KeepsPledges, NoRow
  <2>3. state'.status = "RESOLVED" /\ state'.recipients = thread[p].seen.recipients
    BY <1>3 DEF CloseResolved, ThreadType, Holdings, Rows
  <2>4. KeepsState(p, "idle", {})
    BY <1>3, <2>1, <2>3, NotificationAssumption DEF KeepsState, CloseResolved, Finish
  <2>5. KeepsFallback(p, "idle", {}) /\ KeepsClaims(p, "idle")
    BY <1>3, <2>1 DEF KeepsFallback, KeepsClaims, CloseResolved
  <2> QED
    BY <2>1, <2>2, <2>4, <2>5 DEF Effect, Moves
<1> QED
  BY <1>1, <1>2, <1>3 DEF WorkerStep

\* The end of a dispatch, and the fallback.
LEMMA SharedMoves ==
  ASSUME RowType, ThreadType, Sure, NEW p \in Threads,
         Dispatched(p) \/ FallbackRead(p) \/ FallbackClaim(p) \/ FallbackSave(p)
  PROVE  Moves(p)
<1> USE ThreadKinds DEF Sure
<1>1. CASE Dispatched(p)
  <2>1. Becomes(p, "idle", {}, NoRow) /\ thread[p].at = "dispatch" /\ thread[p].todo = {}
    BY <1>1, IdleBecomes DEF Dispatched, Finish, At
  <2>2. KeepsPledges(p, "idle", {}, NoRow)
    BY <2>1 DEF KeepsPledges, NoRow, Calling
  <2>3. KeepsState(p, "idle", {}) /\ KeepsFallback(p, "idle", {}) /\ KeepsClaims(p, "idle")
    BY <1>1, <2>1 DEF KeepsState, KeepsFallback, KeepsClaims, Dispatched, Finish, rowVars
  <2> QED
    BY <2>1, <2>2, <2>3 DEF Effect, Moves
<1>2. CASE FallbackRead(p)
  <2>1. UNCHANGED <<incident, inbox, rowVars>> /\ thread[p].at = "fallback"
    BY <1>2 DEF FallbackRead, At, Finish, queueVars
  <2>2. CASE state.status # "ACTIVE"
    <3>1. Becomes(p, "idle", {}, NoRow)
      BY <1>2, <2>2, IdleBecomes DEF FallbackRead, Finish
    <3>2. KeepsPledges(p, "idle", {}, NoRow)
      BY <2>1 DEF KeepsPledges, NoRow, Calling
    <3>3. KeepsState(p, "idle", {}) /\ KeepsFallback(p, "idle", {}) /\ KeepsClaims(p, "idle")
      BY <2>1, <2>2 DEF KeepsState, KeepsFallback, KeepsClaims, rowVars
    <3> QED
      BY <3>1, <3>2, <3>3 DEF Effect, Moves
  <2>3. CASE state.status = "ACTIVE"
    <3>1. Becomes(p, "fallback-claim", thread[p].todo, state)
      BY <1>2, <2>3, GotoHoldingBecomes DEF FallbackRead, Stages, RowType
    <3>2. KeepsPledges(p, "fallback-claim", thread[p].todo, state)
      BY <2>1 DEF KeepsPledges, Calling
    <3>3. /\ KeepsState(p, "fallback-claim", thread[p].todo) /\ KeepsClaims(p, "fallback-claim")
          /\ KeepsFallback(p, "fallback-claim", thread[p].todo)
      BY <2>1 DEF KeepsState, KeepsFallback, KeepsClaims, rowVars
    <3> QED
      BY <3>1, <3>2, <3>3 DEF Effect, Moves
  <2> QED
    BY <2>2, <2>3
<1>3. CASE FallbackClaim(p)
  <2>1. /\ UNCHANGED <<incident, inbox, state, ack, attempt, linked>> /\ thread[p].at = "fallback-claim"
        /\ claims' = claims \union {FallbackKey}
    BY <1>3 DEF FallbackClaim, At, Finish, queueVars
  <2>2. CASE FallbackKey \in claims \/ incident = "RESOLVED"
    <3>1. Becomes(p, "idle", {}, NoRow)
      BY <1>3, <2>2, IdleBecomes DEF FallbackClaim, Finish
    <3>2. KeepsPledges(p, "idle", {}, NoRow)
      BY <2>1 DEF KeepsPledges, NoRow, Calling
    <3>3. KeepsState(p, "idle", {}) /\ KeepsFallback(p, "idle", {}) /\ KeepsClaims(p, "idle")
      BY <2>1, <2>2 DEF KeepsState, KeepsFallback, KeepsClaims
    <3> QED
      BY <3>1, <3>2, <3>3 DEF Effect, Moves
  <2>3. CASE ~(FallbackKey \in claims \/ incident = "RESOLVED")
    <3>1. Becomes(p, "fallback-save", thread[p].todo, thread[p].seen)
      BY <1>3, <2>3, GotoBecomes DEF FallbackClaim, Stages
    <3>2. KeepsPledges(p, "fallback-save", thread[p].todo, thread[p].seen)
      BY <2>1 DEF KeepsPledges, Calling
    <3>3. /\ KeepsState(p, "fallback-save", thread[p].todo) /\ KeepsClaims(p, "fallback-save")
          /\ KeepsFallback(p, "fallback-save", thread[p].todo)
      BY <2>1 DEF KeepsState, KeepsFallback, KeepsClaims
    <3> QED
      BY <3>1, <3>2, <3>3 DEF Effect, Moves
  <2> QED
    BY <2>2, <2>3
<1>4. CASE FallbackSave(p)
  <2>1. Becomes(p, "dispatch", Admins, thread[p].seen) /\ thread[p].at = "fallback-save"
    BY <1>4, DispatchingBecomes DEF FallbackSave, At
  <2>2. KeepsPledges(p, "dispatch", Admins, thread[p].seen)
    BY <2>1 DEF KeepsPledges, Calling
  <2>3. state'.status = "ACTIVE" /\ state'.recipients = thread[p].seen.recipients \union Admins
    BY <1>4, <2>1 DEF FallbackSave, ThreadType, HoldsActive, Holdings, Rows
  <2>4. KeepsState(p, "dispatch", Admins)
    BY <1>4, <2>3, NotificationAssumption DEF KeepsState, FallbackSave, queueVars
  <2>5. KeepsFallback(p, "dispatch", Admins) /\ KeepsClaims(p, "dispatch")
    BY <1>4, <2>1 DEF KeepsFallback, KeepsClaims, FallbackSave
  <2> QED
    BY <2>1, <2>2, <2>4, <2>5 DEF Effect, Moves
<1> QED
  BY <1>1, <1>2, <1>3, <1>4

LEMMA PublishesOpen ==
  ASSUME QueueType, MayPublishOpen
  PROVE  \A e \in 1..Len(inbox') : inbox'[e] = "RESOLVED" => e \in 1..Len(inbox) /\ inbox[e] = "RESOLVED"
<1> QED
  BY DEF QueueType, MayPublishOpen

\* A request: an answer to a call, ...
LEMMA AnswerMoves ==
  ASSUME RowType, QueueType, ThreadType, TasksHoldTheirs, Sure, NEW p \in Requests,
         Acknowledge(p) \/ Decline(p) \/ \E t \in Targets : BeginAnswer(p, t)
  PROVE  Moves(p)
<1> USE ThreadKinds DEF Sure
<1>1. CASE Acknowledge(p)
  <2>1. Becomes(p, "idle", {}, NoRow) /\ thread[p].at = "acknowledge"
    BY <1>1, IdleBecomes DEF Acknowledge, At
  <2>2. PICK t \in Targets : t = thread[p].on /\ SendKey(t) \in claims
    BY <2>1 DEF TasksHoldTheirs, AnswersAreClaimed
  <2>3. UNCHANGED <<incident, claims, linked>> /\ MayPublishOpen /\ (ack' = None => ack = None)
    BY <1>1 DEF Acknowledge
  <2>4. /\ attempt'[t] = "ACKNOWLEDGED" /\ Contacted(t)'
        /\ \A u \in Targets \ {t} : attempt'[u] = attempt[u]
    BY <1>1, <2>2, NotificationAssumption, StatusNames DEF Acknowledge, RowType, Contacted
  <2>5. KeepsPledges(p, "idle", {}, NoRow)
    BY <2>1 DEF KeepsPledges, NoRow
  <2>6. \/ UNCHANGED state
        \/ state'.status = "ACKNOWLEDGED" /\ state'.recipients = thread[p].seen.recipients
    BY <1>1 DEF Acknowledge, ThreadType, Holdings, Rows
  <2>7. KeepsState(p, "idle", {})
    BY <2>1, <2>3, <2>6, PublishesOpen, NotificationAssumption DEF KeepsState
  <2>8. KeepsFallback(p, "idle", {})
    BY <2>1, <2>3 DEF KeepsFallback
  <2>9. KeepsClaims(p, "idle")
    BY <2>2, <2>3, <2>4 DEF KeepsClaims, Failures
  <2> QED
    BY <2>1, <2>5, <2>7, <2>8, <2>9 DEF Effect, Moves
<1>2. CASE Decline(p)
  <2>1. Becomes(p, "fallback", thread[p].todo, thread[p].seen) /\ thread[p].at = "decline"
    BY <1>2, GotoBecomes DEF Decline, At, Stages
  <2>2. PICK t \in Targets : t = thread[p].on /\ SendKey(t) \in claims
    BY <2>1 DEF TasksHoldTheirs, AnswersAreClaimed
  <2>3. UNCHANGED <<incident, inbox, state, ack, claims, linked>>
    BY <1>2 DEF Decline, queueVars
  <2>4. /\ Contacted(t)' /\ \A u \in Targets \ {t} : attempt'[u] = attempt[u]
    BY <1>2, <2>2, NotificationAssumption, StatusNames DEF Decline, RowType, Contacted
  <2>5. KeepsPledges(p, "fallback", thread[p].todo, thread[p].seen)
    BY <2>1 DEF KeepsPledges
  <2>6. KeepsState(p, "fallback", thread[p].todo) /\ KeepsFallback(p, "fallback", thread[p].todo)
    BY <2>1, <2>3 DEF KeepsState, KeepsFallback
  <2>7. KeepsClaims(p, "fallback")
    BY <2>2, <2>3, <2>4 DEF KeepsClaims
  <2> QED
    BY <2>1, <2>5, <2>6, <2>7 DEF Effect, Moves
<1>3. ASSUME NEW t \in Targets, BeginAnswer(p, t)
      PROVE  Moves(p)
  <2>1. PICK a \in Answers :
          /\ claims' = claims \union {AnswerKey(t, a)}
          /\ thread' = [thread EXCEPT ![p] = [Idle EXCEPT !.at = a, !.on = t, !.seen = state]]
    BY <1>3 DEF BeginAnswer
  <2>2. UNCHANGED <<incident, inbox, state, ack, attempt, linked>> /\ thread[p].at = "idle" /\ t \in linked
    BY <1>3 DEF BeginAnswer, queueVars, At
  <2>3. Becomes(p, a, {}, state) /\ thread'[p].on = t
    BY <2>1 DEF Becomes, ThreadType, Idle
  <2>4. KeepsPledges(p, a, {}, state)
    BY <2>2 DEF KeepsPledges, Answers
  <2>5. KeepsState(p, a, {}) /\ KeepsFallback(p, a, {})
    BY <2>1, <2>2, KeysDiffer DEF KeepsState, KeepsFallback, Answers, OtherKeys
  <2>6. SendKey(t) \in claims
    BY <2>2, NotificationAssumption DEF ClaimsAreKept, Contacted
  <2>7. KeepsClaims(p, a)
    BY <2>1, <2>2, <2>3, <2>6 DEF KeepsClaims, OtherKeys
  <2> QED
    BY <2>3, <2>4, <2>5, <2>7 DEF Effect, Moves
<1> QED
  BY <1>1, <1>2, <1>3

\* ... an acknowledgement by Slack or the API, ...
LEMMA AcknowledgementMoves ==
  ASSUME RowType, QueueType, ThreadType, Sure, NEW p \in Requests,
         BeginSlack(p) \/ BeginApi(p) \/ ReadToAcknowledge(p) \/ CloseAcknowledged(p)
  PROVE  Moves(p)
<1> USE ThreadKinds DEF Sure
<1>1. ASSUME NEW who, AckBy(p, who), thread[p].at = "idle",
             UNCHANGED <<incident, inbox, state, attempt, linked>>,
             claims' \in {claims} \union {claims \union {SlackKey(s)} : s \in Signals}
      PROVE  Moves(p)
  <2>1. Becomes(p, "read-state", thread[p].todo, thread[p].seen)
    BY <1>1 DEF AckBy, Becomes, ThreadType, Holdings
  <2>2. KeepsPledges(p, "read-state", thread[p].todo, thread[p].seen)
    BY <1>1 DEF KeepsPledges
  <2>3. KeepsState(p, "read-state", thread[p].todo)
    BY <1>1 DEF KeepsState
  <2>4. KeepsClaims(p, "read-state")
    BY <1>1 DEF KeepsClaims, OtherKeys
  <2>5. KeepsFallback(p, "read-state", thread[p].todo)
    BY <1>1, KeysDiffer DEF KeepsFallback, AckBy, OtherKeys
  <2> QED
    BY <2>1, <2>2, <2>3, <2>4, <2>5 DEF Effect, Moves
<1>2. CASE BeginApi(p)
  BY <1>1, <1>2 DEF BeginApi, queueVars, At
<1>3. CASE BeginSlack(p)
  <2>1. PICK s \in Signals :
          /\ claims' = claims \union {SlackKey(s)}
          /\ UNCHANGED <<ack, thread>> \/ AckBy(p, s)
    BY <1>3 DEF BeginSlack
  <2>2. thread[p].at = "idle" /\ UNCHANGED <<incident, inbox, state, attempt, linked>>
    BY <1>3 DEF BeginSlack, queueVars, At
  <2>3. CASE UNCHANGED <<ack, thread>>
    <3>1. Becomes(p, "idle", thread[p].todo, thread[p].seen)
      BY <2>2, <2>3, SameBecomes
    <3>2. KeepsPledges(p, "idle", thread[p].todo, thread[p].seen)
      BY <2>2 DEF KeepsPledges
    <3>3. KeepsState(p, "idle", thread[p].todo) /\ KeepsClaims(p, "idle")
      BY <2>1, <2>2 DEF KeepsState, KeepsClaims, OtherKeys
    <3>4. KeepsFallback(p, "idle", thread[p].todo)
      BY <2>1, <2>2, <2>3, KeysDiffer DEF KeepsFallback, OtherKeys
    <3> QED
      BY <3>1, <3>2, <3>3, <3>4 DEF Effect, Moves
  <2> QED
    BY <1>1, <2>1, <2>2, <2>3
<1>4. ASSUME EndAcknowledgement(p), thread[p].at \in {"read-state", "stop"},
             \/ UNCHANGED state
             \/ state'.status = "ACKNOWLEDGED" /\ state'.recipients = thread[p].seen.recipients
      PROVE  Moves(p)
  <2>1. Becomes(p, "idle", {}, NoRow)
    BY <1>4, IdleBecomes DEF EndAcknowledgement
  <2>2. UNCHANGED <<incident, ack, claims, attempt, linked>> /\ (MayPublishOpen \/ UNCHANGED inbox)
    BY <1>4 DEF EndAcknowledgement
  <2>3. KeepsPledges(p, "idle", {}, NoRow)
    BY <1>4 DEF KeepsPledges, NoRow
  <2>4. KeepsState(p, "idle", {})
    BY <1>4, <2>2, PublishesOpen, NotificationAssumption DEF KeepsState
  <2>5. KeepsClaims(p, "idle") /\ KeepsFallback(p, "idle", {})
    BY <1>4, <2>2 DEF KeepsClaims, KeepsFallback
  <2> QED
    BY <2>1, <2>3, <2>4, <2>5 DEF Effect, Moves
<1>5. CASE ReadToAcknowledge(p)
  <2>1. CASE state.status = "ACTIVE"
    <3>1. Becomes(p, "stop", thread[p].todo, state) /\ thread[p].at = "read-state"
      BY <1>5, <2>1, GotoHoldingBecomes DEF ReadToAcknowledge, Stages, RowType, At
    <3>2. UNCHANGED <<incident, inbox, state, ack, claims, attempt, linked>>
      BY <1>5, <2>1 DEF ReadToAcknowledge, queueVars
    <3>3. KeepsPledges(p, "stop", thread[p].todo, state)
      BY <3>1 DEF KeepsPledges
    <3>4. KeepsState(p, "stop", thread[p].todo) /\ KeepsClaims(p, "stop") /\ KeepsFallback(p, "stop", thread[p].todo)
      BY <3>1, <3>2 DEF KeepsState, KeepsClaims, KeepsFallback
    <3> QED
      BY <3>1, <3>3, <3>4 DEF Effect, Moves
  <2>2. CASE state.status # "ACTIVE"
    BY <1>4, <1>5, <2>2 DEF ReadToAcknowledge, At
  <2> QED
    BY <2>1, <2>2
<1>6. CASE CloseAcknowledged(p)
  <2>1. state'.status = "ACKNOWLEDGED" /\ state'.recipients = thread[p].seen.recipients
    BY <1>6 DEF CloseAcknowledged, ThreadType, Holdings, Rows
  <2> QED
    BY <1>4, <1>6, <2>1 DEF CloseAcknowledged, At
<1> QED
  BY <1>2, <1>3, <1>5, <1>6

\* ... or a report of the provider, which never takes an attempt back to PENDING.
LEMMA ReportMoves ==
  ASSUME RowType, ThreadType, Sure, NEW p \in Requests \union {Recovery},
         NEW t \in Targets, NEW s \in Statuses, Report(p, t, s)
  PROVE  Moves(p)
<1> USE ThreadKinds DEF Sure
<1>1. /\ thread[p].at = "idle" /\ t \in linked /\ attempt' = [attempt EXCEPT ![t] = s]
      /\ UNCHANGED <<incident, inbox, state, ack, claims, linked>>
  BY DEF Report, At, queueVars
<1>2. attempt[t] \in Statuses \ {"PENDING"} /\ SendKey(t) \in claims
  BY <1>1 DEF ClaimsAreKept, Contacted, RowType
<1>3. s # "PENDING"
  <2>1. Rank[s] >= Rank[attempt[t]] \/ s = attempt[t]
    BY DEF Report, Changes, CanTransition
  <2>2. Rank["PENDING"] = 0 /\ \A r \in Statuses \ {"PENDING"} : Rank[r] \in 1..5
    BY DEF Rank, Statuses
  <2> QED
    BY <1>2, <2>1, <2>2
<1>4. Contacted(t)' /\ attempt'[t] = s /\ \A u \in Targets \ {t} : attempt'[u] = attempt[u]
  BY <1>1, <1>3, NotificationAssumption DEF Contacted, RowType
<1>5. CASE TriggersFallback(t, s)
  <2>1. Becomes(p, "fallback", thread[p].todo, thread[p].seen)
    BY <1>5, GotoBecomes DEF Report, Stages
  <2>2. KeepsPledges(p, "fallback", thread[p].todo, thread[p].seen)
    BY <1>1 DEF KeepsPledges
  <2>3. KeepsState(p, "fallback", thread[p].todo) /\ KeepsFallback(p, "fallback", thread[p].todo)
    BY <1>1 DEF KeepsState, KeepsFallback
  <2>4. KeepsClaims(p, "fallback")
    BY <1>1, <1>2, <1>4 DEF KeepsClaims
  <2> QED
    BY <2>1, <2>2, <2>3, <2>4 DEF Effect, Moves
<1>6. CASE ~TriggersFallback(t, s)
  <2>1. Becomes(p, "idle", thread[p].todo, thread[p].seen)
    BY <1>1, <1>6, SameBecomes DEF Report
  <2>2. KeepsPledges(p, "idle", thread[p].todo, thread[p].seen)
    BY <1>1 DEF KeepsPledges
  <2>3. KeepsState(p, "idle", thread[p].todo) /\ KeepsFallback(p, "idle", thread[p].todo)
    BY <1>1 DEF KeepsState, KeepsFallback
  <2>4. KeepsClaims(p, "idle")
    BY <1>1, <1>2, <1>4, <1>6 DEF KeepsClaims, TriggersFallback
  <2> QED
    BY <2>1, <2>2, <2>3, <2>4 DEF Effect, Moves
<1> QED
  BY <1>5, <1>6

LEMMA FaultsStay ==
  ASSUME IInv, Next, faults' = 0
  PROVE  faults = 0
<1>1. RowType /\ PhoneType /\ AcceptedHasStatus
  BY Parts DEF IInv
<1>2. faults + 1 # 0
  BY <1>1, NotificationAssumption DEF RowType
<1>3. ResolveIncident \/ UpdateIncident \/ Crash => faults = 0
  BY <1>2 DEF ResolveIncident, UpdateIncident, Crash
<1>4. \A t \in Targets : CallEnds(t) \/ PlaceCall(t) \/ Record(t) \/ SendFailed(t) \/ RecordFails(t) => faults = 0
  BY <1>2 DEF CallEnds, PlaceCall, Answered, Unanswered, Accepted, Record, SendFailed, RecordFails
<1>5. \A w \in Workers : Receive(w) \/ Open(w) \/ CloseResolved(w) => faults = 0
  BY DEF Receive, Open, CloseResolved
<1>6. \A p \in Threads : Dispatched(p) \/ DispatchThrows(p) \/ Fault(p) => faults = 0
  BY <1>2 DEF Dispatched, DispatchThrows, Fault
<1>7. \A p \in Threads : FallbackRead(p) \/ FallbackClaim(p) \/ FallbackSave(p) => faults = 0
  BY DEF FallbackRead, FallbackClaim, FallbackSave
<1>8. \A p \in Threads, t \in Targets : StartSend(p, t) => faults = 0
  BY DEF StartSend
<1>9. \A p \in Requests : Acknowledge(p) \/ Decline(p) \/ BeginSlack(p) \/ BeginApi(p) => faults = 0
  BY DEF Acknowledge, Decline, BeginSlack, BeginApi
<1>10. \A p \in Requests : ReadToAcknowledge(p) \/ CloseAcknowledged(p) => faults = 0
  BY DEF ReadToAcknowledge, CloseAcknowledged, EndAcknowledgement
<1>11. \A p \in Requests, t \in Targets : BeginAnswer(p, t) => faults = 0
  BY DEF BeginAnswer
<1>12. \A p \in Requests \union {Recovery}, t \in Targets, s \in Statuses : Report(p, t, s) => faults = 0
  BY DEF Report
<1> QED
  BY <1>1, StepCases, <1>3, <1>4, <1>5, <1>6, <1>7, <1>8, <1>9, <1>10, <1>11, <1>12

LEMMA SureStep ==
  ASSUME IInv, IInv', Sure, Next, faults' = 0
  PROVE  Sure'
<1>1. RowType /\ RowType' /\ QueueType /\ ThreadType /\ TasksHoldTheirs /\ StoppedBySomebody
  BY Parts DEF IInv, TypeOK, RowType
<1>2. ~Crash /\ (\A t \in Targets : ~RecordFails(t)) /\ \A p \in Threads : ~Fault(p)
  <2>1. faults + 1 # 0
    BY <1>1, NotificationAssumption DEF RowType
  <2> QED
    BY <2>1 DEF Crash, RecordFails, Fault
<1>3. \A p \in Threads : ~DispatchThrows(p)
  BY <1>1, ThreadKinds DEF Sure, NobodyThrew, DispatchThrows, At, ThreadType, Holdings
<1>4. CASE \E p \in Threads, t \in Targets : StartSend(p, t)
  BY <1>1, <1>4, SendKeepsSure
<1>5. CASE \E p \in Threads : Moves(p)
  BY <1>1, <1>5, SureIsKept DEF Moves
<1>6. (\E p \in Threads, t \in Targets : StartSend(p, t)) \/ \E p \in Threads : Moves(p)
  BY <1>1, <1>2, <1>3, StepCases, ThreadKinds, OutsideMoves, SendMovesOn, HandlerMoves, SharedMoves,
     AnswerMoves, AcknowledgementMoves, ReportMoves DEF IInv, SendStep, WorkerStep
<1> QED
  BY <1>4, <1>5, <1>6

SureUntilFault == faults = 0 => Sure

LEMMA SureInitially == Init => SureUntilFault
<1> SUFFICES ASSUME Init PROVE Sure
  BY DEF SureUntilFault
<1>1. /\ \A p \in Threads : thread[p] = Idle
      /\ \A t \in Targets : attempt[t] = None /\ thread[t].at = "idle"
      /\ claims = {} /\ linked = {} /\ state = NoRow /\ Len(inbox) = 1 /\ inbox[1] = "OPEN"
  BY ThreadKinds DEF Init, Idle
<1>2. Idle.at = "idle" /\ Idle.seen.recipients = {} /\ NoRow.status = None /\ NoRow.recipients = {}
  BY DEF Idle, NoRow
<1>3. NobodyThrew /\ ClaimsAreKept /\ AnswersAreClaimed /\ NamedArePledged
  BY <1>1, <1>2 DEF NobodyThrew, ClaimsAreKept, AnswersAreClaimed, NamedArePledged
<1>4. ResolvedWithIncident
  BY <1>1, <1>2, NotificationAssumption DEF ResolvedWithIncident
<1>5. StateBeforeCalls
  BY <1>1, <1>2 DEF StateBeforeCalls
<1>6. FailureIsHandled /\ FallbackIsKept
  BY <1>1, FailuresAreStatuses DEF FailureIsHandled, FallbackIsKept
<1> QED
  BY <1>3, <1>4, <1>5, <1>6 DEF Sure

LEMMA SureInvariance == Spec => []SureUntilFault
<1>1. IInv /\ IInv' /\ SureUntilFault /\ [Next]_vars => SureUntilFault'
  <2>1. ASSUME IInv, IInv', SureUntilFault, Next, faults' = 0
        PROVE  Sure'
    <3>1. faults = 0
      BY <2>1, FaultsStay
    <3> QED
      BY <2>1, <3>1, SureStep DEF SureUntilFault
  <2>2. ASSUME SureUntilFault, UNCHANGED vars
        PROVE  SureUntilFault'
    BY <2>2 DEF vars, queueVars, rowVars, phoneVars, SureUntilFault, Sure, NobodyThrew, ClaimsAreKept,
       AnswersAreClaimed, NamedArePledged, ResolvedWithIncident, StateBeforeCalls, FailureIsHandled,
       FallbackIsKept, Pledged, Calling, Contacted, FallsBack
  <2> QED
    BY <2>1, <2>2 DEF SureUntilFault
<1> QED
  BY SureInitially, <1>1, Invariance, PTL DEF Spec

\* Contacted as in EveryRecipientIsContacted: with no task under way a claimed key
\* belongs to a target whose attempt has come to something.
LEMMA QuietPledge ==
  ASSUME Sure, Quiet, NEW t \in Targets, Pledged(t)
  PROVE  Contacted(t)
<1>1. SendKey(t) \in claims
  BY DEF Quiet, Pledged
<1>2. ~Calling(t)
  BY ThreadKinds DEF Quiet, Calling
<1> QED
  BY <1>1, <1>2 DEF Sure, ClaimsAreKept

\* "Every resolved engineer is contacted in the same dispatch pass": for any
\* recipients, handlers, requests and events, and however tasks interleave, when
\* nothing is left to be done for an active notification each recipient it names
\* has been contacted, unless a crash or a failed database call came between.
THEOREM EveryoneIsContacted == Spec => []EveryRecipientIsContacted
<1>1. IInv /\ SureUntilFault => EveryRecipientIsContacted
  <2> SUFFICES ASSUME IInv, SureUntilFault, faults = 0, Quiet, NEW t \in state.recipients
               PROVE  Contacted(t)
    BY DEF EveryRecipientIsContacted
  <2>1. Pledged(t) /\ t \in Targets
    BY DEF SureUntilFault, Sure, NamedArePledged, IInv, TypeOK, Rows
  <2> QED
    BY <2>1, QuietPledge DEF SureUntilFault
<1> QED
  BY <1>1, Invariance, SureInvariance, PTL

\* "A failed ... SRE voice call immediately triggers the primary Admin fallback
\* once": for any recipients and whichever of the three paths stores the failure
\* of an SRE's call, once nothing is left to be done the fallback is claimed and
\* the Admin contacted, if nobody has acknowledged and the incident is open, unless
\* a crash or a failed database call came between.
THEOREM FailuresReachTheAdmin == Spec => []FailureReachesAdmin
<1>1. IInv /\ SureUntilFault => FailureReachesAdmin
  <2> SUFFICES ASSUME IInv, SureUntilFault, faults = 0, Quiet, ack = None, incident = "OPEN",
                      NEW u \in Targets, FallsBack(u), attempt[u] \in Failures
               PROVE  FallbackKey \in claims /\ \A t \in Admins : Contacted(t)
    BY DEF FailureReachesAdmin
  <2>1. Sure
    BY DEF SureUntilFault
  <2>2. FallbackKey \in claims
    BY <2>1 DEF Sure, FailureIsHandled, Quiet
  <2>3. \A t \in Admins : Pledged(t)
    BY <2>1, <2>2 DEF Sure, FallbackIsKept, Quiet
  <2> QED
    BY <2>1, <2>2, <2>3, QuietPledge, RecipientsAreTargets
<1> QED
  BY <1>1, Invariance, SureInvariance, PTL
=============================================================================
