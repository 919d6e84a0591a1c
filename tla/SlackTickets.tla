---------------------------- MODULE SlackTickets ----------------------------
(***************************************************************************)
(* The Slack ticket of one incident: apps/notification posts a message for *)
(* the incident, keeps it up to date and replies in its thread.  Two tasks *)
(* do so at the same time: the handler of the lifecycle events, which come *)
(* one after the other, and the handler of the requests that the API makes *)
(* for an operator.  A task is delivered again until it ends.              *)
(*                                                                         *)
(* Event 1 says that the incident is created, the others that its status   *)
(* or severity changed.  The row of the incident has as many versions, and *)
(* its timeline as many entries, as there were events.                     *)
(***************************************************************************)
EXTENDS Naturals, Sequences

CONSTANTS MaxEvents, MaxRequests, MaxFaults

VARIABLES
  published, handled,   \* lifecycle events
  asking, requests,     \* the API between its look and its request; requests to handle
  asked,
  task,                 \* [Tasks -> where it stands]
  claims,               \* table notification_idempotency
  ticket,               \* table incident_external_tickets: a message, or 0
  messages,             \* Slack: [shows], one per message of the channel
  replies,              \* Slack: replies in the thread, per update
  faults,
  raced,                \* a creation claimed after another had made the ticket
  repeated,             \* Slack took a message whose answer was lost
  unanswered,           \* the same of replies, per update
  missed,               \* a change found no ticket to show it in
  broken                \* a crash, or a failure of the database

queue == <<published, handled, asking, requests, asked>>
slack == <<messages, replies>>
ghosts == <<faults, raced, repeated, unanswered, missed, broken>>
vars == <<queue, task, claims, ticket, slack, ghosts>>

Tasks == {"lifecycle", "manual"}
TicketKey == <<"incident-ticket", 0>>

(* SlackIncidentTimelineMapper.map: the event itself, and the whole timeline. *)
UpdatesOf(k) == (IF k = 1 THEN {} ELSE {<<"event", k>>}) \union {<<"entry", j>> : j \in 1..k}
Updates == UNION {UpdatesOf(k) : k \in 1..MaxEvents}

NoUpdate == <<"none", 0>>
Idle == [at |-> "idle", version |-> 0, message |-> 0, todo |-> {}, reply |-> NoUpdate]

Init ==
  /\ published = 1 /\ handled = 0
  /\ asking = FALSE /\ requests = 0 /\ asked = 0
  /\ task = [p \in Tasks |-> Idle]
  /\ claims = {} /\ ticket = 0
  /\ messages = <<>> /\ replies = [u \in Updates |-> 0]
  /\ faults = 0 /\ raced = FALSE /\ repeated = FALSE /\ missed = FALSE /\ broken = FALSE
  /\ unanswered = [u \in Updates |-> 0]

At(p, stage) == task[p].at = stage
Goto(p, stage) == task' = [task EXCEPT ![p].at = stage]

(* A creation is over: the lifecycle handler goes on with the thread. *)
Created(p) == Goto(p, IF p = "lifecycle" THEN "thread" ELSE "end")

-----------------------------------------------------------------------------
(* The processor and the API.                                               *)

Publish ==
  /\ published < MaxEvents
  /\ published' = published + 1
  /\ UNCHANGED <<handled, asking, requests, asked, task, claims, ticket, slack, ghosts>>

(* createSlackTicket: an incident that has a ticket needs none. *)
Look ==
  /\ ~asking /\ asked < MaxRequests /\ ticket = 0
  /\ asking' = TRUE /\ asked' = asked + 1
  /\ UNCHANGED <<published, handled, requests, task, claims, ticket, slack, ghosts>>

Ask ==
  /\ asking
  /\ asking' = FALSE /\ requests' = requests + 1
  /\ UNCHANGED <<published, handled, asked, task, claims, ticket, slack, ghosts>>

-----------------------------------------------------------------------------
(* SlackIncidentTicketPublisher.create.                                     *)

BeginOnlyThread(p) ==
  /\ At(p, "idle")
  /\ IF p = "manual" THEN requests > 0 ELSE handled < published
  /\ Goto(p, IF p = "manual" \/ handled = 0 THEN "create" ELSE "thread")
  /\ UNCHANGED <<queue, claims, ticket, slack, ghosts>>

Begin(p) ==
  /\ At(p, "idle")
  /\ IF p = "manual" THEN requests > 0 ELSE handled < published
  /\ Goto(p, IF p = "manual" \/ handled = 0 THEN "create" ELSE "update")
  /\ UNCHANGED <<queue, claims, ticket, slack, ghosts>>

(* The incident as its row is now, of which there is no ticket yet. *)
Find(p) ==
  /\ At(p, "create")
  /\ IF ticket # 0 THEN Created(p)
     ELSE task' = [task EXCEPT ![p].at = "claim", ![p].version = published]
  /\ UNCHANGED <<queue, claims, ticket, slack, ghosts>>

Claim(p) ==
  /\ At(p, "claim")
  /\ IF TicketKey \in claims THEN Created(p) ELSE Goto(p, "post")
  /\ claims' = claims \union {TicketKey}
  /\ raced' = (raced \/ (TicketKey \notin claims /\ ticket # 0))
  /\ UNCHANGED <<queue, ticket, slack, faults, repeated, unanswered, missed, broken>>

Posted(p) == Append(messages, [shows |-> task[p].version])

Post(p) ==
  /\ At(p, "post")
  /\ messages' = Posted(p)
  /\ task' = [task EXCEPT ![p].at = "save", ![p].message = Len(messages) + 1]
  /\ UNCHANGED <<queue, claims, ticket, replies, ghosts>>

Faulty == faults < MaxFaults /\ faults' = faults + 1

(* Slack takes the message but the answer is lost: the client posts again. *)
PostUnanswered(p) ==
  /\ Faulty /\ At(p, "post")
  /\ messages' = Posted(p) /\ repeated' = TRUE
  /\ UNCHANGED <<queue, task, claims, ticket, replies, raced, unanswered, missed, broken>>

(* Slack refuses, three times or for good: the claim is released. *)
PostFails(p) ==
  /\ Faulty /\ At(p, "post")
  /\ claims' = claims \ {TicketKey}
  /\ Created(p)
  /\ UNCHANGED <<queue, ticket, slack, raced, repeated, unanswered, missed, broken>>

Save(p) ==
  /\ At(p, "save")
  /\ ticket' = IF ticket = 0 THEN task[p].message ELSE ticket
  /\ Goto(p, "release")
  /\ UNCHANGED <<queue, claims, slack, ghosts>>

SaveFailsReleased(p) ==
  /\ Faulty /\ At(p, "save")
  /\ broken' = TRUE
  /\ claims' = claims \ {TicketKey}
  /\ Created(p)
  /\ UNCHANGED <<queue, ticket, slack, raced, repeated, unanswered, missed>>

(* The ticket is not saved: the claim is kept, and what failed is not told. *)
SaveFails(p) ==
  /\ Faulty /\ At(p, "save")
  /\ broken' = TRUE
  /\ Created(p)
  /\ UNCHANGED <<queue, claims, ticket, slack, raced, repeated, unanswered, missed>>

Release(p) ==
  /\ At(p, "release")
  /\ claims' = claims \ {TicketKey}
  /\ Created(p)
  /\ UNCHANGED <<queue, ticket, slack, ghosts>>

-----------------------------------------------------------------------------
(* updateIncidentTicket, publishTimelineUpdates.                            *)

FindToUpdate ==
  /\ At("lifecycle", "update")
  /\ task' = [task EXCEPT !["lifecycle"].at = IF ticket = 0 THEN "thread" ELSE "edit",
                          !["lifecycle"].version = published]
  /\ missed' = (missed \/ ticket = 0)
  /\ UNCHANGED <<queue, claims, ticket, slack, faults, raced, repeated, unanswered, broken>>

Edit ==
  /\ At("lifecycle", "edit")
  /\ messages' = [messages EXCEPT ![ticket].shows = task["lifecycle"].version]
  /\ Goto("lifecycle", "thread")
  /\ UNCHANGED <<queue, claims, ticket, replies, ghosts>>

EditFails ==
  /\ Faulty /\ At("lifecycle", "edit")
  /\ Goto("lifecycle", "thread")
  /\ UNCHANGED <<queue, claims, ticket, slack, raced, repeated, unanswered, missed, broken>>

FindThread ==
  /\ At("lifecycle", "thread")
  /\ task' = [task EXCEPT !["lifecycle"].at = "replies",
                          !["lifecycle"].todo = IF ticket = 0 THEN {} ELSE UpdatesOf(handled + 1)]
  /\ UNCHANGED <<queue, claims, ticket, slack, ghosts>>

(* An update that is not in the thread yet; in which order is left open. *)
ClaimReply ==
  /\ At("lifecycle", "replies")
  /\ \E u \in task["lifecycle"].todo :
       /\ claims' = claims \union {u}
       /\ task' = [task EXCEPT !["lifecycle"].at = IF u \in claims THEN "replies" ELSE "reply",
                               !["lifecycle"].todo = @ \ {u},
                               !["lifecycle"].reply = u]
  /\ UNCHANGED <<queue, ticket, slack, ghosts>>

Reply ==
  /\ At("lifecycle", "reply")
  /\ replies' = [replies EXCEPT ![task["lifecycle"].reply] = @ + 1]
  /\ Goto("lifecycle", "replies")
  /\ UNCHANGED <<queue, claims, ticket, messages, ghosts>>

(* Slack takes the reply but the answer is lost: the client posts it again, *)
(* and if it gives up then, the next event does.                            *)
ReplyUnanswered ==
  /\ Faulty /\ At("lifecycle", "reply")
  /\ replies' = [replies EXCEPT ![task["lifecycle"].reply] = @ + 1]
  /\ unanswered' = [unanswered EXCEPT ![task["lifecycle"].reply] = @ + 1]
  /\ UNCHANGED <<queue, task, claims, ticket, messages, raced, repeated, missed, broken>>

ReplyFailsClaimed ==
  /\ Faulty /\ At("lifecycle", "reply")
  /\ Goto("lifecycle", "replies")
  /\ UNCHANGED <<queue, claims, ticket, slack, raced, repeated, unanswered, missed, broken>>

(* The next event brings the update again. *)
ReplyFails ==
  /\ Faulty /\ At("lifecycle", "reply")
  /\ claims' = claims \ {task["lifecycle"].reply}
  /\ Goto("lifecycle", "replies")
  /\ UNCHANGED <<queue, ticket, slack, raced, repeated, unanswered, missed, broken>>

End(p) ==
  /\ At(p, "end") \/ (At(p, "replies") /\ task[p].todo = {})
  /\ task' = [task EXCEPT ![p] = Idle]
  /\ handled' = IF p = "lifecycle" THEN handled + 1 ELSE handled
  /\ requests' = IF p = "manual" THEN requests - 1 ELSE requests
  /\ UNCHANGED <<published, asking, asked, claims, ticket, slack, ghosts>>

(* What was being handled is delivered again. *)
Crash ==
  /\ Faulty /\ \E p \in Tasks : ~At(p, "idle")
  /\ broken' = TRUE
  /\ task' = [p \in Tasks |-> Idle]
  /\ UNCHANGED <<queue, claims, ticket, slack, raced, repeated, unanswered, missed>>

Create(p) ==
  \/ Begin(p) \/ Find(p) \/ Claim(p) \/ Post(p) \/ Save(p) \/ Release(p) \/ End(p)
  \/ PostUnanswered(p) \/ PostFails(p) \/ SaveFails(p)

Next ==
  \/ Publish \/ Look \/ Ask
  \/ \E p \in Tasks : Create(p)
  \/ FindToUpdate \/ Edit \/ EditFails
  \/ FindThread \/ ClaimReply \/ Reply \/ ReplyUnanswered \/ ReplyFails
  \/ Crash

Spec == Init /\ [][Next]_vars

-----------------------------------------------------------------------------
(* However often a creation is repeated, after a crash and after any failure, *)
(* the incident has one message in the channel.  A creation that looked for   *)
(* the ticket before another had made it, and one whose answer is lost, are   *)
(* the exceptions.                                                            *)
OneTicketMessage == ~raced /\ ~repeated => Len(messages) <= 1

(* When nothing is being handled, an update is claimed if and only if it is   *)
(* in the thread by an answered request, once, and no claim keeps the incident *)
(* from having a ticket.  So what Slack refused is tried again, and what it    *)
(* said it took is not; what else is in the thread was taken by a request whose *)
(* answer was lost.  A crash and a failed statement of the database are the    *)
(* exceptions.                                                                 *)
ClaimsAreHonest ==
  ~broken /\ (\A p \in Tasks : At(p, "idle")) =>
    /\ TicketKey \notin claims
    /\ \A u \in Updates : replies[u] = unanswered[u] + (IF u \in claims THEN 1 ELSE 0)

(* When all is handled the ticket shows the incident as it is.  An incident   *)
(* that changed when it had no ticket, which one being made may not show, is  *)
(* the exception.                                                             *)
TicketShowsTheEnd ==
  faults = 0 /\ ~missed /\ ticket # 0 /\ handled = published /\ (\A p \in Tasks : At(p, "idle")) =>
    messages[ticket].shows = published

=============================================================================
