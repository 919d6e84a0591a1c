-------------------------- MODULE TelemetryStorage --------------------------
(***************************************************************************)
(* The telemetry history writer: apps/storage/src/telemetry-storage        *)
(* .consumer.ts and its three packages/telemetry/src/batch.ts batchers, on *)
(* the durable subscription of QueueSubscription.                          *)
(*                                                                         *)
(* A handler adds its record to the open batch of its kind and waits for   *)
(* the promise of that batch. A batch leaves the open slot when it is full *)
(* or when its age timer fires, and waits its turn in the batcher's chain  *)
(* of writes. Only when the promise settles does the handler end.          *)
(***************************************************************************)
EXTENDS Naturals, Sequences, FiniteSets, Functions

CONSTANTS
  MaxStream, MaxDeliver, HandlersMayOverrun,   \* as in QueueSubscription
  Kinds,         \* log, metric, kubernetes: one batcher each
  Malformed,     \* the kind of an entry `process` rejects
  KindOf,        \* the kind of each entry
  MaxBatchSize   \* TELEMETRY_BATCH_MAX_SIZE

Entries == 1..MaxStream
Rejected == {e \in Entries : KindOf[e] = Malformed}

\* onModuleInit: Math.max(2, batchMaxSize * 2)
MaxAckPending == IF MaxBatchSize > 1 THEN 2 * MaxBatchSize ELSE 2

ASSUME StorageAssumption ==
  /\ MaxStream \in Nat
  /\ MaxDeliver \in Nat \ {0}
  /\ HandlersMayOverrun \in BOOLEAN
  /\ Malformed \notin Kinds
  /\ KindOf \in [Entries -> Kinds \union {Malformed}]
  /\ MaxBatchSize \in Nat \ {0}

VARIABLES
  published, attempts, broker, task, client, handled, dlq,  \* the subscription
  current,    \* [Kinds -> Seq(Deliveries)], the batch being filled
  chain,      \* [Kinds -> Seq(batch)], dispatched batches; the head is written
  written,    \* deliveries whose batch promise has resolved
  failed,     \* deliveries whose batch promise has rejected
  stored      \* entries in ClickHouse

queueVars == <<published, attempts, broker, task, client, handled, dlq>>
batcherVars == <<current, chain, written, failed>>
vars == <<queueVars, batcherVars, stored>>

Queue == INSTANCE QueueSubscription WITH Poison <- Rejected

Deliveries == Queue!Deliveries

-----------------------------------------------------------------------------
EmptyBatches == [k \in Kinds |-> <<>>]

EntriesOf(batch) == {batch[i][1] : i \in DOMAIN batch}

Init ==
  /\ Queue!Init
  /\ current = EmptyBatches
  /\ chain = EmptyBatches
  /\ written = {}
  /\ failed = {}
  /\ stored = {}

(* TelemetryBatcher *)

Dispatch(k, batch) ==
  /\ current' = [current EXCEPT ![k] = <<>>]
  /\ chain' = [chain EXCEPT ![k] = Append(@, batch)]

\* `add`: push, and dispatch as soon as the batch is full.
Add(k, d) ==
  LET batch == Append(current[k], d)
  IN  IF Len(batch) >= MaxBatchSize
      THEN Dispatch(k, batch)
      ELSE /\ current' = [current EXCEPT ![k] = batch]
           /\ UNCHANGED chain

\* Mutant of AgeTimerFires: only a full batch is dispatched.
AgeTimerFiresWhenFull(k) ==
  /\ Len(current[k]) >= MaxBatchSize
  /\ Dispatch(k, current[k])
  /\ UNCHANGED <<queueVars, written, failed, stored>>

\* The timer `open` started, never cleared while the batch is current.
AgeTimerFires(k) ==
  /\ current[k] # <<>>
  /\ Dispatch(k, current[k])
  /\ UNCHANGED <<queueVars, written, failed, stored>>

\* The insert at the head of the chain succeeds: the whole batch resolves.
FlushSucceeds(k) ==
  /\ chain[k] # <<>>
  /\ stored' = stored \union EntriesOf(Head(chain[k]))
  /\ written' = written \union Range(Head(chain[k]))
  /\ chain' = [chain EXCEPT ![k] = Tail(@)]
  /\ UNCHANGED <<queueVars, current, failed>>

\* Mutant of FlushFails: the error is swallowed.
FlushFailsSilently(k) ==
  /\ chain[k] # <<>>
  /\ written' = written \union Range(Head(chain[k]))
  /\ chain' = [chain EXCEPT ![k] = Tail(@)]
  /\ UNCHANGED <<queueVars, current, failed, stored>>

\* The insert fails, for the client at least: a request that timed out may
\* have stored any of the rows. The whole batch rejects.
FlushFails(k) ==
  /\ chain[k] # <<>>
  /\ \E S \in SUBSET EntriesOf(Head(chain[k])) : stored' = stored \union S
  /\ failed' = failed \union Range(Head(chain[k]))
  /\ chain' = [chain EXCEPT ![k] = Tail(@)]
  /\ UNCHANGED <<queueVars, current, written>>

(* TelemetryStorageConsumer on its subscription *)

\* A delivery reaches `process`: a malformed event throws (its rejection is
\* the Reject step), any other is added to the batch of its kind.
Receive(e) ==
  /\ Queue!Deliver(e)
  /\ IF e \in Rejected
     THEN UNCHANGED <<current, chain>>
     ELSE Add(KindOf[e], <<e, attempts[e] + 1>>)
  /\ UNCHANGED <<written, failed, stored>>

\* Mutant of Resolve: the promise of `add` is not awaited.
ResolveWithoutAwait(d) ==
  /\ Queue!HandlerResolves(d)
  /\ written' = written \ {d}
  /\ UNCHANGED <<current, chain, failed, stored>>

Resolve(d) ==
  /\ d \in written
  /\ Queue!HandlerResolves(d)
  /\ written' = written \ {d}
  /\ UNCHANGED <<current, chain, failed, stored>>

Reject(d) ==
  /\ d \in failed \/ d[1] \in Rejected
  /\ Queue!Nak(d) \/ Queue!GiveUp(d)
  /\ failed' = failed \ {d}
  /\ UNCHANGED <<current, chain, written, stored>>

Publish == Queue!Publish /\ UNCHANGED <<batcherVars, stored>>
Ack(d) == Queue!Ack(d) /\ UNCHANGED <<batcherVars, stored>>
DeadLetter(d) == Queue!DeadLetter(d) /\ UNCHANGED <<batcherVars, stored>>
AckWaitExpires(e) == Queue!AckWaitExpires(e) /\ UNCHANGED <<batcherVars, stored>>

\* Whatever is buffered in the process is lost with it.
LoseBuffers ==
  /\ current' = EmptyBatches
  /\ chain' = EmptyBatches
  /\ written' = {}
  /\ failed' = {}
  /\ UNCHANGED stored

Crash == Queue!Crash /\ LoseBuffers
DeadLetterFails(d) == Queue!DeadLetterFails(d) /\ LoseBuffers

\* onModuleDestroy: the subscription is closed, and only when every pending
\* delivery has ended are the batchers closed and the process left.
BeginDestroy == Queue!Close /\ UNCHANGED <<batcherVars, stored>>
EndDestroy == Queue!Closed /\ LoseBuffers
Restart == Queue!Restart /\ UNCHANGED <<batcherVars, stored>>

-----------------------------------------------------------------------------
FlushEnds(k) == FlushSucceeds(k) \/ FlushFails(k)
DeadLetterEnds(d) == DeadLetter(d) \/ DeadLetterFails(d)

Next ==
  \/ Publish
  \/ \E e \in Entries : Receive(e) \/ AckWaitExpires(e)
  \/ \E k \in Kinds : AgeTimerFires(k) \/ FlushEnds(k)
  \/ \E d \in Deliveries :
       Resolve(d) \/ Reject(d) \/ Ack(d) \/ DeadLetterEnds(d)
  \/ Crash \/ BeginDestroy \/ EndDestroy \/ Restart

\* As in QueueSubscription, but a handler is not assumed to end: it ends when
\* its batch does. Timers fire and an insert succeeds, fails or times out.
Fairness ==
  /\ \A e \in Entries : SF_vars(Receive(e)) /\ WF_vars(AckWaitExpires(e))
  /\ \A k \in Kinds : WF_vars(AgeTimerFires(k)) /\ WF_vars(FlushEnds(k))
  /\ \A d \in Deliveries :
       /\ WF_vars(Resolve(d))
       /\ WF_vars(Reject(d))
       /\ WF_vars(Ack(d))
       /\ WF_vars(DeadLetterEnds(d))
  /\ WF_vars(EndDestroy)
  /\ WF_vars(Restart)

Spec == Init /\ [][Next]_vars
FairSpec == Spec /\ Fairness

-----------------------------------------------------------------------------
(* Properties *)

Batches == Seq(Deliveries)

TypeOK ==
  /\ Queue!TypeOK
  /\ current \in [Kinds -> Batches]
  /\ chain \in [Kinds -> Seq(Batches)]
  /\ written \subseteq Deliveries
  /\ failed \subseteq Deliveries
  /\ stored \subseteq Entries

\* "an unwritten message is redelivered rather than silently lost"
\* (telemetry-storage.consumer.ts:46): the broker forgets an entry on an
\* acknowledgement only when its row is in ClickHouse or its envelope is in
\* the dead-letter stream.
AckedIsStored ==
  \A e \in Entries : broker[e] = "acked" => e \in stored \union dlq

\* However long ClickHouse is unavailable and however small the batches, every
\* published entry is at some point acknowledged or has used up its deliveries.
EveryEntrySettles ==
  \A e \in Entries :
    (e <= published) ~> (broker[e] \in {"acked", "dropped"})

\* The writer implements the abstract promise, with the stored rows as effect.
Abstract ==
  INSTANCE AtLeastOnce WITH
    effect <- stored,
    deadLettered <- dlq,
    released <- {e \in Entries : broker[e] = "acked"}

ImplementsAtLeastOnce == Abstract!Spec
=============================================================================
