------------------------- MODULE QueueSubscription -------------------------
(***************************************************************************)
(* One durable JetStream subscription as packages/queue/src/index.ts uses  *)
(* it: the stream of a topic, the broker's cursor for the durable consumer *)
(* (attempts, ack-wait timer, max-deliver, max-ack-pending) and the client *)
(* process that handles deliveries, acknowledges, asks for a retry or      *)
(* writes a dead letter.                                                   *)
(*                                                                         *)
(* The broker's own rules are external: they are modelled from the options *)
(* `subscribe` sets and from what the handler does with a delivery.        *)
(***************************************************************************)
EXTENDS Naturals, FiniteSets

CONSTANTS
  MaxStream,           \* bound: entries published to the topic
  MaxDeliver,          \* BROKER_MAX_DELIVER
  MaxAckPending,       \* SubscribeOptions.maxAckPending
  Poison,              \* entries whose handling always throws
  HandlersMayOverrun   \* may a handler outlive ackWaitMs?

Entries == 1..MaxStream

\* Delivery <<e, n>> is the n-th delivery of entry e: raw.info.redeliveryCount
\* is n, 1 on the first delivery.
Deliveries == Entries \X (1..MaxDeliver)

BrokerStates == {"new", "pending", "due", "acked", "dropped"}
TaskStates   == {"none", "handling", "resolved", "deadlettering"}

VARIABLES
  published,   \* number of entries in the stream
  attempts,    \* [Entries -> 0..MaxDeliver], deliveries made of an entry
  broker,      \* the durable consumer's record of an entry
  task,        \* the promise the client holds for a delivery
  client,      \* "up", "closing" (unsubscribed, draining) or "down"
  handled,     \* history: entries whose handler has resolved
  dlq          \* entries in FAULTLINE_DEAD_LETTERS

brokerVars == <<published, attempts, broker>>
vars == <<published, attempts, broker, task, client, handled, dlq>>

-----------------------------------------------------------------------------
Idle == [d \in Deliveries |-> "none"]

\* Mutant of AckPending: an entry waiting out its retry delay does not count.
AckPendingOnlyInFlight == {e \in Entries : broker[e] = "pending"}

\* Entries the broker counts against max_ack_pending: delivered and neither
\* acknowledged nor given up. One waiting out its retry delay still counts.
AckPending == {e \in Entries : broker[e] \in {"pending", "due"}}

InFlight == {d \in Deliveries : task[d] # "none"}

\* What becomes of an entry whose delivery failed or timed out: JetStream
\* stops redelivering after max_deliver attempts.
Retry(e) == IF attempts[e] < MaxDeliver THEN "due" ELSE "dropped"

Init ==
  /\ published = 0
  /\ attempts = [e \in Entries |-> 0]
  /\ broker = [e \in Entries |-> "new"]
  /\ task = Idle
  /\ client = "up"
  /\ handled = {}
  /\ dlq = {}

-----------------------------------------------------------------------------
(* The publisher *)

Publish ==
  /\ published < MaxStream
  /\ published' = published + 1
  /\ UNCHANGED <<attempts, broker, task, client, handled, dlq>>

(* The broker *)

\* A new entry is delivered in stream order and only below max_ack_pending; a
\* retry already counts against it.
MayDeliver(e) ==
  \/ broker[e] = "due"
  \/ /\ broker[e] = "new"
     /\ e <= published
     /\ \A f \in Entries : f < e => broker[f] # "new"
     /\ Cardinality(AckPending) < MaxAckPending

\* The iterator of `subscribe` receives the message and starts `handle`.
Deliver(e) ==
  /\ client = "up"
  /\ MayDeliver(e)
  /\ attempts[e] < MaxDeliver
  /\ attempts' = [attempts EXCEPT ![e] = @ + 1]
  /\ broker' = [broker EXCEPT ![e] = "pending"]
  /\ task' = [task EXCEPT ![<<e, attempts[e] + 1>>] = "handling"]
  /\ UNCHANGED <<published, client, handled, dlq>>

AckWaitExpires(e) ==
  /\ broker[e] = "pending"
  /\ HandlersMayOverrun \/ \A d \in InFlight : d[1] # e
  /\ broker' = [broker EXCEPT ![e] = Retry(e)]
  /\ UNCHANGED <<published, attempts, task, client, handled, dlq>>

(* The client *)

HandlerResolves(d) ==
  /\ task[d] = "handling"
  /\ d[1] \notin Poison
  /\ task' = [task EXCEPT ![d] = "resolved"]
  /\ handled' = handled \union {d[1]}
  /\ UNCHANGED <<published, attempts, broker, client, dlq>>

\* raw.ack(): an acknowledgement settles the entry whichever of its deliveries
\* sends it, unless the broker has already given the entry up.
Acknowledged(e) ==
  IF broker[e] \in {"pending", "due"} THEN "acked" ELSE broker[e]

Ack(d) ==
  /\ task[d] = "resolved"
  /\ broker' = [broker EXCEPT ![d[1]] = Acknowledged(d[1])]
  /\ task' = [task EXCEPT ![d] = "none"]
  /\ UNCHANGED <<published, attempts, client, handled, dlq>>

\* The catch block below the last attempt: raw.nak(retryDelayMs).
Nak(d) ==
  /\ task[d] = "handling"
  /\ d[2] < MaxDeliver
  /\ broker' = [broker EXCEPT
       ![d[1]] = IF @ = "pending" THEN Retry(d[1]) ELSE @]
  /\ task' = [task EXCEPT ![d] = "none"]
  /\ UNCHANGED <<published, attempts, client, handled, dlq>>

\* The catch block on the last attempt: the dead letter is being published.
GiveUp(d) ==
  /\ task[d] = "handling"
  /\ d[2] >= MaxDeliver
  /\ task' = [task EXCEPT ![d] = "deadlettering"]
  /\ UNCHANGED <<published, attempts, broker, client, handled, dlq>>

\* The publish to deadletter.<topic> succeeds and the delivery is acknowledged.
\* The message id dlq-<id> makes a repeated dead letter the same one.
DeadLetter(d) ==
  /\ task[d] = "deadlettering"
  /\ dlq' = dlq \union {d[1]}
  /\ task' = [task EXCEPT ![d] = "resolved"]
  /\ UNCHANGED <<published, attempts, broker, client, handled>>

\* The process ends abruptly; the promises it held are gone.
Stop ==
  /\ client' = "down"
  /\ task' = Idle
  /\ UNCHANGED <<published, attempts, broker, handled, dlq>>

Crash ==
  /\ client # "down"
  /\ Stop

\* The publish to deadletter.<topic> fails. The rejection of `delivery.finally`
\* has no handler, and an unhandled rejection ends the Node process.
DeadLetterFails(d) ==
  /\ task[d] = "deadlettering"
  /\ Stop

\* QueueSubscription.close(): unsubscribe, then wait for the pending deliveries.
Close ==
  /\ client = "up"
  /\ client' = "closing"
  /\ UNCHANGED <<published, attempts, broker, task, handled, dlq>>

Closed ==
  /\ client = "closing"
  /\ InFlight = {}
  /\ client' = "down"
  /\ UNCHANGED <<published, attempts, broker, task, handled, dlq>>

Restart ==
  /\ client = "down"
  /\ client' = "up"
  /\ UNCHANGED <<published, attempts, broker, task, handled, dlq>>

-----------------------------------------------------------------------------
HandlerEnds(d) == HandlerResolves(d) \/ Nak(d) \/ GiveUp(d)
DeadLetterEnds(d) == DeadLetter(d) \/ DeadLetterFails(d)

Next ==
  \/ Publish
  \/ \E e \in Entries : Deliver(e) \/ AckWaitExpires(e)
  \/ \E d \in Deliveries : HandlerEnds(d) \/ Ack(d) \/ DeadLetterEnds(d)
  \/ Crash \/ Close \/ Closed \/ Restart

-----------------------------------------------------------------------------
(* Properties *)

TypeOK ==
  /\ published \in 0..MaxStream
  /\ attempts \in [Entries -> 0..MaxDeliver]
  /\ broker \in [Entries -> BrokerStates]
  /\ \A e \in Entries : broker[e] = "due" => attempts[e] < MaxDeliver
  /\ task \in [Deliveries -> TaskStates]
  /\ client \in {"up", "closing", "down"}
  /\ handled \subseteq Entries
  /\ dlq \subseteq Entries

\* maxAckPending = 1 and no handler outliving ackWaitMs: at most one delivery
\* is in flight and nothing is begun before all that precedes it is settled
\* ("telemetry is handled strictly in order", packages/queue/src/index.ts:58).
StrictOrder ==
  \A d \in InFlight :
    /\ \A c \in InFlight : c = d
    /\ \A e \in Entries : e < d[1] => broker[e] \in {"acked", "dropped"}

\* docs/TELEMETRY-STORAGE.md:74-75 says that anything that exhausts its retries is
\* preserved on the dead-letter subject.
ExhaustedIsPreserved ==
  \A e \in Entries : broker[e] = "dropped" => e \in handled \union dlq
=============================================================================
