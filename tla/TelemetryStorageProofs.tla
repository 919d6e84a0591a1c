----------------------- MODULE TelemetryStorageProofs -----------------------
(***************************************************************************)
(* What TelemetryStorage guarantees for every stream length, number of     *)
(* deliveries, batch size and assignment of kinds, and what readers of the *)
(* tables it writes (TelemetryHistory, BaselineHistory) are promised for   *)
(* all records, queries, windows and schedules.                            *)
(***************************************************************************)
EXTENDS TelemetryStorage, BaselineHistory, FiniteSetTheorems, SequenceTheorems,
        WellFoundedInduction, TLAPS

(* Types *)

LEMMA QueueFacts ==
  /\ MaxAckPending \in Nat \ {0}
  /\ Rejected \subseteq Entries
  /\ Entries = Queue!Entries
  /\ Deliveries = Entries \X (1..MaxDeliver)
<1> QED
  BY StorageAssumption
     DEF MaxAckPending, Rejected, Entries, Deliveries, Queue!Entries,
         Queue!Deliveries

LEMMA DeliveryParts ==
  ASSUME NEW d \in Deliveries
  PROVE  d[1] \in Entries /\ d[2] \in 1..MaxDeliver
<1> QED
  BY QueueFacts

LEMMA BatchParts ==
  ASSUME NEW batch \in Seq(Deliveries)
  PROVE  /\ EntriesOf(batch) \subseteq Entries
         /\ Range(batch) \subseteq Deliveries
<1> QED
  BY DeliveryParts DEF EntriesOf, Range

\* The queue's own steps keep the queue's type, whatever the batchers do.
LEMMA QueueTypeStep ==
  ASSUME Queue!TypeOK, [Queue!Next]_queueVars
  PROVE  Queue!TypeOK'
<1>. USE QueueFacts, StorageAssumption
<1>1. CASE UNCHANGED queueVars
  BY <1>1 DEF queueVars, Queue!TypeOK
<1>2. CASE Queue!Publish
  BY <1>2 DEF Queue!TypeOK, Queue!Publish
<1>3. ASSUME NEW e \in Queue!Entries, Queue!Deliver(e)
      PROVE  Queue!TypeOK'
  BY <1>3 DEF Queue!TypeOK, Queue!Deliver, Queue!BrokerStates,
              Queue!TaskStates, Queue!Deliveries
<1>4. ASSUME NEW e \in Queue!Entries, Queue!AckWaitExpires(e)
      PROVE  Queue!TypeOK'
  BY <1>4 DEF Queue!TypeOK, Queue!AckWaitExpires, Queue!Retry,
              Queue!BrokerStates
<1>5. ASSUME NEW d \in Queue!Deliveries,
             Queue!HandlerEnds(d) \/ Queue!Ack(d) \/ Queue!DeadLetter(d)
      PROVE  Queue!TypeOK'
  <2>1. d \in Deliveries /\ d[1] \in Queue!Entries
    BY DeliveryParts DEF Deliveries
  <2>2. CASE Queue!HandlerResolves(d)
    BY <2>1, <2>2 DEF Queue!TypeOK, Queue!HandlerResolves, Queue!TaskStates
  <2>3. CASE Queue!Nak(d)
    BY <2>1, <2>3 DEF Queue!TypeOK, Queue!Nak, Queue!Retry,
                      Queue!TaskStates, Queue!BrokerStates
  <2>4. CASE Queue!GiveUp(d)
    BY <2>1, <2>4 DEF Queue!TypeOK, Queue!GiveUp, Queue!TaskStates
  <2>5. CASE Queue!Ack(d)
    BY <2>1, <2>5 DEF Queue!TypeOK, Queue!Ack, Queue!Acknowledged,
                      Queue!TaskStates, Queue!BrokerStates
  <2>6. CASE Queue!DeadLetter(d)
    BY <2>1, <2>6 DEF Queue!TypeOK, Queue!DeadLetter, Queue!TaskStates
  <2>. QED
    BY <1>5, <2>2, <2>3, <2>4, <2>5, <2>6 DEF Queue!HandlerEnds
<1>6. ASSUME Queue!Stop
      PROVE  Queue!TypeOK'
  BY <1>6 DEF Queue!TypeOK, Queue!Stop, Queue!Idle, Queue!TaskStates
<1>7. CASE Queue!Close \/ Queue!Closed \/ Queue!Restart
  BY <1>7 DEF Queue!TypeOK, Queue!Close, Queue!Closed, Queue!Restart
<1>. QED
  BY <1>1, <1>2, <1>3, <1>4, <1>5, <1>6, <1>7
     DEF Queue!Next, Queue!DeadLetterEnds, Queue!DeadLetterFails, Queue!Crash

\* Every step of the writer is a step of its subscription, or leaves it alone.
LEMMA QueueStep ==
  ASSUME Next
  PROVE  [Queue!Next]_queueVars
<1>1. CASE Publish \/ Crash \/ BeginDestroy \/ EndDestroy \/ Restart
  BY <1>1 DEF Publish, Crash, BeginDestroy, EndDestroy, Restart, Queue!Next
<1>2. ASSUME NEW e \in Entries, Receive(e) \/ AckWaitExpires(e)
      PROVE  [Queue!Next]_queueVars
  BY <1>2, QueueFacts DEF Receive, AckWaitExpires, Queue!Next
<1>3. ASSUME NEW k \in Kinds, AgeTimerFires(k) \/ FlushEnds(k)
      PROVE  [Queue!Next]_queueVars
  BY <1>3 DEF AgeTimerFires, FlushEnds, FlushSucceeds, FlushFails
<1>4. ASSUME NEW d \in Deliveries,
             Resolve(d) \/ Reject(d) \/ Ack(d) \/ DeadLetterEnds(d)
      PROVE  [Queue!Next]_queueVars
  BY <1>4 DEF Resolve, Reject, Ack, DeadLetterEnds, DeadLetter,
              DeadLetterFails, Deliveries, Queue!Next, Queue!HandlerEnds,
              Queue!DeadLetterEnds
<1>. QED
  BY <1>1, <1>2, <1>3, <1>4 DEF Next

LEMMA DispatchType ==
  ASSUME TypeOK, NEW k \in Kinds, NEW batch \in Seq(Deliveries),
         Dispatch(k, batch)
  PROVE  current' \in [Kinds -> Batches] /\ chain' \in [Kinds -> Seq(Batches)]
<1> QED
  BY DEF TypeOK, Dispatch, Batches

LEMMA AddType ==
  ASSUME TypeOK, NEW k \in Kinds, NEW d \in Deliveries, Add(k, d)
  PROVE  current' \in [Kinds -> Batches] /\ chain' \in [Kinds -> Seq(Batches)]
<1>. DEFINE batch == Append(current[k], d)
<1>1. batch \in Seq(Deliveries)
  BY DEF TypeOK, Batches
<1>2. CASE Len(batch) >= MaxBatchSize
  BY <1>1, <1>2, DispatchType DEF Add
<1>3. CASE ~(Len(batch) >= MaxBatchSize)
  BY <1>1, <1>3 DEF Add, TypeOK, Batches
<1>. QED
  BY <1>2, <1>3

\* The head of a non-empty chain is a batch, and so is what follows it.
LEMMA HeadIsBatch ==
  ASSUME TypeOK, NEW k \in Kinds, chain[k] # <<>>
  PROVE  /\ Head(chain[k]) \in Seq(Deliveries)
         /\ Tail(chain[k]) \in Seq(Batches)
<1> QED
  BY DEF TypeOK, Batches

LEMMA TypeStep ==
  ASSUME TypeOK, [Next]_vars
  PROVE  TypeOK'
<1>1. Queue!TypeOK'
  BY QueueStep, QueueTypeStep DEF TypeOK, vars, queueVars
<1>. SUFFICES /\ current' \in [Kinds -> Batches]
              /\ chain' \in [Kinds -> Seq(Batches)]
              /\ written' \subseteq Deliveries
              /\ failed' \subseteq Deliveries
              /\ stored' \subseteq Entries
  BY <1>1 DEF TypeOK, Deliveries, Batches, Queue!Deliveries, Queue!Entries
<1>2. CASE UNCHANGED <<batcherVars, stored>>
  BY <1>2 DEF TypeOK, batcherVars
<1>3. CASE LoseBuffers
  BY <1>3 DEF TypeOK, LoseBuffers, EmptyBatches, Batches
<1>4. ASSUME NEW e \in Entries, Receive(e)
      PROVE  /\ current' \in [Kinds -> Batches]
             /\ chain' \in [Kinds -> Seq(Batches)]
             /\ UNCHANGED <<written, failed, stored>>
  <2>1. CASE e \in Rejected
    BY <1>4, <2>1 DEF Receive, TypeOK
  <2>2. CASE e \notin Rejected
    <3>1. KindOf[e] \in Kinds
      BY <2>2, StorageAssumption DEF Rejected
    <3>2. <<e, attempts[e] + 1>> \in Deliveries
      BY <1>4, QueueFacts, StorageAssumption
         DEF Receive, Queue!Deliver, TypeOK, Queue!TypeOK
    <3>. QED
      BY <1>4, <2>2, <3>1, <3>2, AddType DEF Receive
  <2>. QED
    BY <2>1, <2>2
<1>5. ASSUME NEW k \in Kinds, AgeTimerFires(k)
      PROVE  /\ current' \in [Kinds -> Batches]
             /\ chain' \in [Kinds -> Seq(Batches)]
             /\ UNCHANGED <<written, failed, stored>>
  <2>1. current[k] \in Seq(Deliveries)
    BY DEF TypeOK, Batches
  <2>. QED
    BY <1>5, <2>1, DispatchType DEF AgeTimerFires
<1>6. ASSUME NEW k \in Kinds, FlushEnds(k)
      PROVE  /\ UNCHANGED current
             /\ chain' \in [Kinds -> Seq(Batches)]
             /\ written' \subseteq Deliveries
             /\ failed' \subseteq Deliveries
             /\ stored' \subseteq Entries
  <2>1. chain[k] # <<>>
    BY <1>6 DEF FlushEnds, FlushSucceeds, FlushFails
  <2>2. /\ EntriesOf(Head(chain[k])) \subseteq Entries
        /\ Range(Head(chain[k])) \subseteq Deliveries
        /\ Tail(chain[k]) \in Seq(Batches)
    BY <2>1, HeadIsBatch, BatchParts
  <2>. QED
    BY <1>6, <2>2 DEF FlushEnds, FlushSucceeds, FlushFails, TypeOK
<1>7. ASSUME NEW d \in Deliveries, Resolve(d) \/ Reject(d)
      PROVE  /\ UNCHANGED <<current, chain, stored>>
             /\ written' \subseteq written
             /\ failed' \subseteq failed
  BY <1>7 DEF Resolve, Reject
<1>. QED
  BY <1>2, <1>3, <1>4, <1>5, <1>6, <1>7
     DEF Next, vars, TypeOK, Publish, AckWaitExpires, Ack, DeadLetterEnds,
         DeadLetter, DeadLetterFails, Crash, BeginDestroy, EndDestroy, Restart

LEMMA TypeInit ==
  ASSUME Init
  PROVE  TypeOK
<1> QED
  BY QueueFacts, StorageAssumption
     DEF Init, TypeOK, EmptyBatches, Batches, Queue!Init, Queue!TypeOK,
         Queue!Idle, Queue!BrokerStates, Queue!TaskStates

\* Type correctness of the writer: its queue, batchers and store always have
\* the shape the code gives them.
THEOREM TypeCorrect == Spec => []TypeOK
<1>1. Init => TypeOK
  BY TypeInit
<1>2. TypeOK /\ [Next]_vars => TypeOK'
  BY TypeStep
<1>. QED
  BY <1>1, <1>2, PTL DEF Spec

-----------------------------------------------------------------------------
(* Acknowledged means stored *)

\* AckedIsStored is not inductive by itself: an acknowledgement is justified
\* by a promise, the promise by a batch that was written before it resolved.
WrittenIsStored == \A d \in written : d[1] \in stored
ResolvedIsAccountedFor ==
  \A d \in Deliveries : task[d] = "resolved" => d[1] \in stored \union dlq
IInv == TypeOK /\ WrittenIsStored /\ ResolvedIsAccountedFor /\ AckedIsStored

\* Nothing is ever removed from the store or from the dead letters.
LEMMA AccountGrows ==
  ASSUME [Next]_vars
  PROVE  stored \subseteq stored' /\ dlq \subseteq dlq'
<1>. USE DEF Queue!Publish, Queue!Deliver, Queue!AckWaitExpires,
             Queue!HandlerResolves, Queue!Nak, Queue!GiveUp, Queue!Ack,
             Queue!DeadLetter, Queue!DeadLetterFails, Queue!Stop, Queue!Crash,
             Queue!Close, Queue!Closed, Queue!Restart
<1>1. CASE UNCHANGED vars
  BY <1>1 DEF vars, queueVars
<1>2. CASE Publish \/ Crash \/ BeginDestroy \/ EndDestroy \/ Restart
  BY <1>2 DEF Publish, Crash, BeginDestroy, EndDestroy, Restart, LoseBuffers
<1>3. ASSUME NEW e \in Entries, Receive(e) \/ AckWaitExpires(e)
      PROVE  stored \subseteq stored' /\ dlq \subseteq dlq'
  BY <1>3 DEF Receive, AckWaitExpires
<1>4. ASSUME NEW k \in Kinds, AgeTimerFires(k) \/ FlushEnds(k)
      PROVE  stored \subseteq stored' /\ dlq \subseteq dlq'
  BY <1>4 DEF AgeTimerFires, FlushEnds, FlushSucceeds, FlushFails, queueVars
<1>5. ASSUME NEW d \in Deliveries,
             Resolve(d) \/ Reject(d) \/ Ack(d) \/ DeadLetterEnds(d)
      PROVE  stored \subseteq stored' /\ dlq \subseteq dlq'
  BY <1>5 DEF Resolve, Reject, Ack, DeadLetterEnds, DeadLetter,
              DeadLetterFails, LoseBuffers
<1>. QED
  BY <1>1, <1>2, <1>3, <1>4, <1>5 DEF Next

\* A promise resolves only for deliveries whose rows are in the store.
LEMMA WrittenStep ==
  ASSUME TypeOK, WrittenIsStored, [Next]_vars
  PROVE  WrittenIsStored'
<1>1. ASSUME NEW k \in Kinds, FlushSucceeds(k)
      PROVE  WrittenIsStored'
  <2>1. ASSUME NEW d \in Range(Head(chain[k]))
        PROVE  d[1] \in EntriesOf(Head(chain[k]))
    BY DEF Range, EntriesOf
  <2>. QED
    BY <1>1, <2>1 DEF FlushSucceeds, WrittenIsStored
<1>2. CASE written' \subseteq written
  BY <1>2, AccountGrows DEF WrittenIsStored
<1>3. (\E k \in Kinds : FlushSucceeds(k)) \/ written' \subseteq written
  BY DEF Next, vars, batcherVars, Publish, Receive, AckWaitExpires,
         AgeTimerFires, FlushEnds, FlushFails, Resolve, Reject, Ack,
         DeadLetterEnds, DeadLetter, DeadLetterFails, Crash, BeginDestroy,
         EndDestroy, Restart, LoseBuffers
<1>. QED
  BY <1>1, <1>2, <1>3

\* How a delivery comes to be acknowledgeable: its batch was written, or it was
\* dead-lettered.
LEMMA ResolvedStep ==
  ASSUME TypeOK, WrittenIsStored, ResolvedIsAccountedFor, [Next]_vars
  PROVE  ResolvedIsAccountedFor'
<1>. SUFFICES ASSUME NEW d \in Deliveries, task'[d] = "resolved",
                     task[d] # "resolved"
              PROVE  d[1] \in stored' \union dlq'
  BY AccountGrows DEF ResolvedIsAccountedFor
<1>. USE QueueFacts DEF Queue!TypeOK, Queue!Entries, Queue!Deliveries
<1>1. ASSUME NEW c \in Deliveries, Resolve(c)
      PROVE  d[1] \in stored' \union dlq'
  <2>1. c = d
    BY <1>1 DEF Resolve, Queue!HandlerResolves, TypeOK
  <2>. QED
    BY <1>1, <2>1, AccountGrows DEF Resolve, WrittenIsStored
<1>2. ASSUME NEW c \in Deliveries, DeadLetter(c)
      PROVE  d[1] \in stored' \union dlq'
  BY <1>2 DEF DeadLetter, Queue!DeadLetter, TypeOK
<1>3. ASSUME NEW c \in Deliveries, Reject(c) \/ Ack(c) \/ DeadLetterFails(c)
      PROVE  FALSE
  BY <1>3 DEF Reject, Queue!Nak, Queue!GiveUp, Ack, Queue!Ack,
              DeadLetterFails, Queue!DeadLetterFails, Queue!Stop, Queue!Idle,
              TypeOK
<1>4. ASSUME NEW e \in Entries, Receive(e)
      PROVE  FALSE
  <2>1. <<e, attempts[e] + 1>> \in Deliveries
    BY <1>4, StorageAssumption DEF Receive, Queue!Deliver, TypeOK
  <2>. QED
    BY <1>4, <2>1 DEF Receive, Queue!Deliver, TypeOK
<1>5. CASE Crash \/ EndDestroy
  BY <1>5 DEF Crash, Queue!Crash, Queue!Stop, Queue!Idle, EndDestroy,
              Queue!Closed
<1>6. UNCHANGED task \/ Crash
      \/ (\E e \in Entries : Receive(e))
      \/ (\E c \in Deliveries : Resolve(c) \/ DeadLetter(c) \/ Reject(c)
                                \/ Ack(c) \/ DeadLetterFails(c))
  BY DEF Next, vars, queueVars, Publish, Queue!Publish, AckWaitExpires,
         Queue!AckWaitExpires, AgeTimerFires, FlushEnds, FlushSucceeds,
         FlushFails, DeadLetterEnds, BeginDestroy, Queue!Close, EndDestroy,
         Queue!Closed, Restart, Queue!Restart
<1>. QED
  BY <1>1, <1>2, <1>3, <1>4, <1>5, <1>6

\* The broker records an acknowledgement only on the Ack of a resolved task.
LEMMA AckedStep ==
  ASSUME TypeOK, ResolvedIsAccountedFor, AckedIsStored, [Next]_vars
  PROVE  AckedIsStored'
<1>. SUFFICES ASSUME NEW e \in Entries, broker'[e] = "acked",
                     broker[e] # "acked"
              PROVE  e \in stored' \union dlq'
  BY AccountGrows DEF AckedIsStored
<1>. USE QueueFacts DEF Queue!TypeOK, Queue!Entries, Queue!Deliveries
<1>1. ASSUME NEW c \in Deliveries, Ack(c)
      PROVE  e \in stored' \union dlq'
  <2>1. c[1] = e
    BY <1>1 DEF Ack, Queue!Ack, TypeOK
  <2>. QED
    BY <1>1, <2>1, AccountGrows DEF Ack, Queue!Ack, ResolvedIsAccountedFor
<1>2. ASSUME NEW c \in Deliveries, Reject(c)
      PROVE  FALSE
  BY <1>2 DEF Reject, Queue!Nak, Queue!GiveUp, Queue!Retry, TypeOK
<1>3. ASSUME NEW f \in Entries, Receive(f) \/ AckWaitExpires(f)
      PROVE  FALSE
  BY <1>3 DEF Receive, Queue!Deliver, AckWaitExpires, Queue!AckWaitExpires,
              Queue!Retry, TypeOK
<1>4. UNCHANGED broker
      \/ (\E f \in Entries : Receive(f) \/ AckWaitExpires(f))
      \/ (\E c \in Deliveries : Ack(c) \/ Reject(c))
  BY DEF Next, vars, queueVars, Publish, Queue!Publish, AgeTimerFires,
         FlushEnds, FlushSucceeds, FlushFails, Resolve, Queue!HandlerResolves,
         DeadLetterEnds, DeadLetter, Queue!DeadLetter, DeadLetterFails,
         Queue!DeadLetterFails, Queue!Stop, Crash, Queue!Crash, BeginDestroy,
         Queue!Close, EndDestroy, Queue!Closed, Restart, Queue!Restart
<1>. QED
  BY <1>1, <1>2, <1>3, <1>4

LEMMA InvariantHolds == Spec => []IInv
<1>1. Init => IInv
  BY TypeInit, QueueFacts
     DEF Init, IInv, WrittenIsStored, ResolvedIsAccountedFor, AckedIsStored,
         Queue!Init, Queue!Idle, Queue!Deliveries, Queue!Entries
<1>2. IInv /\ [Next]_vars => IInv'
  BY TypeStep, WrittenStep, ResolvedStep, AckedStep DEF IInv
<1>. QED
  BY <1>1, <1>2, PTL DEF Spec

\* The storage consumer never acknowledges an event that is neither in
\* ClickHouse nor in the dead-letter stream, for any batch size, number of
\* deliveries, mixture of kinds and interleaving of crashes and timeouts.
THEOREM AckedIsAlwaysStored == Spec => []AckedIsStored
<1>1. IInv => AckedIsStored
  BY DEF IInv
<1>. QED
  BY <1>1, InvariantHolds, PTL

-----------------------------------------------------------------------------
(* The writer implements the abstract promise *)

Released == {e \in Entries : broker[e] = "acked"}

\* A flush writes rows only; a dead letter writes one envelope only; an
\* acknowledgement releases one accounted entry; nothing else is visible.
LEMMA StepImplements ==
  ASSUME IInv, [Next]_vars
  PROVE  [Abstract!Next]_(Abstract!vars)
<1>. USE QueueFacts
     DEF Queue!TypeOK, Queue!Entries, Queue!Deliveries, IInv, TypeOK
<1>. DEFINE Stutters == UNCHANGED <<stored, dlq, Released>>
<1>1. Stutters => [Abstract!Next]_(Abstract!vars)
  BY DEF Abstract!vars, Released
<1>2. ASSUME NEW k \in Kinds, FlushEnds(k)
      PROVE  Abstract!TakeEffect
  <2>1. EntriesOf(Head(chain[k])) \subseteq Entries
    <3>1. chain[k] # <<>>
      BY <1>2 DEF FlushEnds, FlushSucceeds, FlushFails
    <3>. QED
      BY <3>1, HeadIsBatch, BatchParts DEF Batches
  <2>2. \E S \in SUBSET Entries : stored' = stored \union S
    BY <1>2, <2>1 DEF FlushEnds, FlushSucceeds, FlushFails
  <2>3. UNCHANGED <<dlq, broker>>
    BY <1>2 DEF FlushEnds, FlushSucceeds, FlushFails, queueVars
  <2>. QED
    BY <2>2, <2>3 DEF Abstract!TakeEffect
<1>3. ASSUME NEW d \in Deliveries, DeadLetter(d)
      PROVE  Abstract!DeadLetter
  BY <1>3 DEF DeadLetter, Queue!DeadLetter, Abstract!DeadLetter
<1>4. ASSUME NEW d \in Deliveries, Ack(d)
      PROVE  Abstract!Release \/ Stutters
  <2>1. d[1] \in Entries /\ d[1] \in stored \union dlq
    BY <1>4, DeliveryParts DEF Ack, Queue!Ack, ResolvedIsAccountedFor
  <2>2. UNCHANGED <<stored, dlq>>
    BY <1>4 DEF Ack, Queue!Ack
  <2>3. CASE broker[d[1]] \in {"pending", "due"}
    <3>1. Released' = Released \union {d[1]}
      BY <1>4, <2>1, <2>3 DEF Released, Ack, Queue!Ack, Queue!Acknowledged
    <3>. QED
      BY <2>1, <2>2, <3>1 DEF Abstract!Release, Released
  <2>4. CASE broker[d[1]] \notin {"pending", "due"}
    <3>1. Released' = Released
      BY <1>4, <2>1, <2>4 DEF Released, Ack, Queue!Ack, Queue!Acknowledged
    <3>. QED
      BY <2>2, <3>1
  <2>. QED
    BY <2>3, <2>4
<1>5. ASSUME NEW d \in Deliveries,
             Resolve(d) \/ Reject(d) \/ DeadLetterFails(d)
      PROVE  Stutters
  <2>1. CASE Resolve(d) \/ DeadLetterFails(d)
    BY <2>1 DEF Resolve, Queue!HandlerResolves, DeadLetterFails,
                Queue!DeadLetterFails, Queue!Stop, LoseBuffers, Released
  <2>2. CASE Reject(d)
    <3>1. UNCHANGED <<stored, dlq>>
      BY <2>2 DEF Reject, Queue!Nak, Queue!GiveUp
    <3>2. ASSUME NEW e \in Entries
          PROVE  broker'[e] = "acked" <=> broker[e] = "acked"
      BY <2>2, DeliveryParts DEF Reject, Queue!Nak, Queue!GiveUp, Queue!Retry
    <3>. QED
      BY <3>1, <3>2 DEF Released
  <2>. QED
    BY <1>5, <2>1, <2>2
<1>6. ASSUME NEW e \in Entries, Receive(e) \/ AckWaitExpires(e)
      PROVE  Stutters
  BY <1>6 DEF Receive, Queue!Deliver, Queue!MayDeliver, AckWaitExpires,
              Queue!AckWaitExpires, Queue!Retry, Released
<1>7. ASSUME NEW k \in Kinds, AgeTimerFires(k)
      PROVE  Stutters
  BY <1>7 DEF AgeTimerFires, queueVars, Released
<1>8. CASE Publish \/ Crash \/ BeginDestroy \/ EndDestroy \/ Restart
           \/ UNCHANGED vars
  BY <1>1, <1>8
          DEF Publish, Queue!Publish, Crash, Queue!Crash, Queue!Stop,
              BeginDestroy, Queue!Close, EndDestroy, Queue!Closed, Restart,
              Queue!Restart, LoseBuffers, vars, queueVars, Released
<1>. QED
  BY <1>1, <1>2, <1>3, <1>4, <1>5, <1>6, <1>7, <1>8
     DEF Next, DeadLetterEnds, Abstract!Next

\* The storage consumer implements AtLeastOnce: rows appear, envelopes are
\* dead-lettered, and the broker is told to forget only what is accounted for.
THEOREM StorageImplementsAtLeastOnce == Spec => ImplementsAtLeastOnce
<1>1. Init => Abstract!Init
  BY QueueFacts DEF Init, Queue!Init, Queue!Entries, Abstract!Init
<1>2. IInv /\ [Next]_vars => [Abstract!Next]_(Abstract!vars)
  BY StepImplements
<1>. QED
  BY <1>1, <1>2, InvariantHolds, PTL DEF Spec, ImplementsAtLeastOnce, Abstract!Spec

-----------------------------------------------------------------------------
(* Sets in an order *)

Before(S, R, x) == {y \in S : <<y, x>> \in R}

Orders(R, S) ==
  /\ \A x \in S : <<x, x>> \notin R
  /\ \A x, y \in S : x # y => <<x, y>> \in R \/ <<y, x>> \in R
  /\ \A x, y, z \in S : <<x, y>> \in R /\ <<y, z>> \in R => <<x, z>> \in R

\* s has each member of S once, in the order R.
InOrder(s, S, R) ==
  /\ s \in Seq(S) /\ Len(s) = Cardinality(S)
  /\ \A x \in S : \E i \in 1..Len(s) : s[i] = x
  /\ \A i, j \in 1..Len(s) : i < j => <<s[i], s[j]>> \in R

LEMMA RankGrows ==
  ASSUME NEW S, IsFiniteSet(S), NEW R, Orders(R, S)
  PROVE  /\ Cardinality(S) \in Nat
         /\ \A x \in S : Cardinality(Before(S, R, x)) \in 0..(Cardinality(S) - 1)
         /\ \A x, y \in S : <<x, y>> \in R =>
              Cardinality(Before(S, R, x)) < Cardinality(Before(S, R, y))
<1>1. ASSUME NEW T, IsFiniteSet(T), NEW U \in SUBSET T, U # T
      PROVE  /\ Cardinality(U) \in Nat /\ Cardinality(T) \in Nat
             /\ Cardinality(U) < Cardinality(T)
  BY <1>1, FS_Subset, FS_CardinalityType
<1>2. \A x \in S : Before(S, R, x) \in SUBSET S /\ x \notin Before(S, R, x)
  BY DEF Orders, Before
<1>3. \A x \in S : IsFiniteSet(Before(S, R, x))
  BY <1>2, FS_Subset
<1>4. \A x, y \in S : <<x, y>> \in R =>
        Before(S, R, x) \in SUBSET Before(S, R, y) /\ x \in Before(S, R, y)
  BY DEF Orders, Before
<1>5. \A x \in S : Cardinality(Before(S, R, x)) \in Nat /\ Cardinality(Before(S, R, x)) < Cardinality(S)
  BY <1>1, <1>2
<1>6. Cardinality(S) \in Nat
  BY FS_CardinalityType
<1>7. \A x, y \in S : <<x, y>> \in R =>
        Cardinality(Before(S, R, x)) < Cardinality(Before(S, R, y))
  BY <1>1, <1>2, <1>3, <1>4
<1> QED
  BY <1>5, <1>6, <1>7

LEMMA RankedOnce ==
  ASSUME NEW S, IsFiniteSet(S), NEW R, Orders(R, S)
  PROVE  /\ \A x, y \in S : Cardinality(Before(S, R, x)) = Cardinality(Before(S, R, y)) => x = y
         /\ \A i \in 1..Cardinality(S) : \E x \in S : Cardinality(Before(S, R, x)) = i - 1
<1> DEFINE n == Cardinality(S)
           rank == [x \in S |-> Cardinality(Before(S, R, x))]
<1>1. n \in Nat /\ \A x \in S : rank[x] \in 0..(n - 1)
  BY RankGrows
<1>2. \A x, y \in S : <<x, y>> \in R => rank[x] < rank[y]
  BY RankGrows
<1>3. rank \in [S -> 0..(n - 1)]
  BY <1>1
<1>4. \A x, y \in S : rank[x] = rank[y] => x = y
  <2> HIDE DEF rank, n
  <2> TAKE x, y \in S
  <2> HAVE rank[x] = rank[y]
  <2>1. <<x, y>> \notin R /\ <<y, x>> \notin R
    BY <1>1, <1>2
  <2> QED
    BY <2>1 DEF Orders
<1>5. \A k \in 0..(n - 1) : \E x \in S : rank[x] = k
  <2>1. rank \in Injection(S, 0..(n - 1))
    BY <1>3, <1>4 DEF Injection, IsInjective
  <2>2. IsFiniteSet(0..(n - 1)) /\ Cardinality(0..(n - 1)) = n
    BY <1>1, FS_Interval
  <2>3. rank \in Surjection(S, 0..(n - 1))
    BY <2>1, <2>2, FS_Injection
  <2> QED
    BY <2>3 DEF Surjection
<1>6. \A i \in 1..n : i - 1 \in 0..(n - 1)
  BY <1>1
<1> QED
  BY <1>4, <1>5, <1>6

LEMMA SameInterval ==
  ASSUME NEW a \in Nat, NEW b \in Nat, 1..a = 1..b
  PROVE  a = b
<1>1. ASSUME a < b PROVE FALSE
  <2>1. b \in 1..b /\ b \notin 1..a
    BY <1>1
  <2> QED
    BY <2>1
<1>2. ASSUME b < a PROVE FALSE
  <2>1. a \in 1..a /\ a \notin 1..b
    BY <1>2
  <2> QED
    BY <2>1
<1> QED
  BY <1>1, <1>2

LEMMA RankedInOrder ==
  ASSUME NEW S, IsFiniteSet(S), NEW R, Orders(R, S),
         NEW s \in [1..Cardinality(S) -> S],
         \A i \in 1..Cardinality(S) : s[i] \in S /\ Cardinality(Before(S, R, s[i])) = i - 1
  PROVE  InOrder(s, S, R)
<1> DEFINE n == Cardinality(S)
           rank == [x \in S |-> Cardinality(Before(S, R, x))]
<1>1. /\ n \in Nat /\ \A x \in S : rank[x] \in 0..(n - 1)
      /\ \A x, y \in S : <<x, y>> \in R => rank[x] < rank[y]
  BY RankGrows
<1>2. \A i \in 1..n : s[i] \in S /\ rank[s[i]] = i - 1
  OBVIOUS
<1>3. \A x, y \in S : rank[x] = rank[y] => x = y
  BY RankedOnce
<1>4. s \in [1..n -> S]
  OBVIOUS
<1> HIDE DEF n, rank
<1>5. s \in Seq(S) /\ Len(s) = n
  <2>1. s \in [1..n -> S]
    BY <1>4
  <2>2. s \in Seq(S)
    BY <1>1, <2>1, SeqDef
  <2>3. DOMAIN s = 1..n
    BY <2>1
  <2>4. DOMAIN s = 1..Len(s) /\ Len(s) \in Nat
    BY <2>2, LenProperties
  <2> QED
    BY <1>1, <2>2, <2>3, <2>4, SameInterval
<1>6. \A x \in S : \E i \in 1..n : s[i] = x
  <2> TAKE x \in S
  <2>1. rank[x] \in 0..(n - 1)
    BY <1>1
  <2>2. PICK i \in 1..n : rank[x] = i - 1
    <3>1. rank[x] + 1 \in 1..n /\ rank[x] = (rank[x] + 1) - 1
      BY <1>1, <2>1
    <3> QED
      BY <3>1
  <2> QED
    BY <1>2, <1>3, <2>2
<1>7. \A i, j \in 1..n : i < j => <<s[i], s[j]>> \in R
  <2> TAKE i, j \in 1..n
  <2> HAVE i < j
  <2>1. s[i] \in S /\ s[j] \in S /\ rank[s[i]] = i - 1 /\ rank[s[j]] = j - 1
    BY <1>2
  <2>2. <<s[j], s[i]>> \notin R /\ s[i] # s[j]
    BY <1>1, <2>1
  <2> QED
    BY <2>1, <2>2 DEF Orders
<1> QED
  BY <1>5, <1>6, <1>7 DEF InOrder, n

LEMMA RecordFacts ==
  /\ IsFiniteSet(Ids) /\ Ids \in SUBSET Int
  /\ \A e \in Ids : /\ IsRecord(Records[e])
                    /\ Inserted[e].table = Records[e].table
                    /\ Inserted[e].cluster = Records[e].cluster
                    /\ Inserted[e].time = Records[e].time /\ Records[e].time \in Int
                    /\ Inserted[e].label = Records[e].label
                    /\ Inserted[e].value = Records[e].value
<1>1. \A e \in Ids : IsRecord(Records[e])
  BY HistoryAssumption
<1>2. PICK n \in Nat : Ids = 1..n
  BY HistoryAssumption DEF Ids
<1>4. ASSUME NEW e \in Ids
      PROVE  /\ Inserted[e].table = Records[e].table
             /\ Inserted[e].cluster = Records[e].cluster
             /\ Inserted[e].time = Records[e].time /\ Records[e].time \in Int
             /\ Inserted[e].label = Records[e].label
             /\ Inserted[e].value = Records[e].value
  <2>1. Inserted[e] = RowOf(Records[e])
    BY DEF Inserted
  <2>2. PICK r : r = Records[e]
    OBVIOUS
  <2>3. DOMAIN r = {"table", "cluster", "time", "workload", "pod", "service", "label", "value"}
    BY <1>1, <2>2 DEF IsRecord
  <2>4. PICK w, p, v : RowOf(r) = [r EXCEPT !.workload = w, !.pod = p, !.service = v]
    BY DEF RowOf
  <2>5. \A f \in {"table", "cluster", "time", "label", "value"} : RowOf(r)[f] = r[f]
    BY <2>3, <2>4
  <2>6. r.time \in 0..MaxTime
    BY <1>1, <2>2 DEF IsRecord
  <2>7. RowOf(Records[e]) = RowOf(r)
    BY <2>2
  <2> QED
    BY <2>1, <2>2, <2>5, <2>6, <2>7
<1> QED
  BY <1>1, <1>2, <1>4, FS_Interval

LEMMA LaterOrder ==
  ASSUME NEW S \in SUBSET Ids
  PROVE  InOrder(Sorted(S, Later), S, {p \in S \X S : Later(p[1], p[2])})
<1> DEFINE R == {p \in S \X S : Later(p[1], p[2])}
<1>1. IsFiniteSet(S) /\ S \in SUBSET Int /\ \A e \in S : Inserted[e].time \in Int
  BY RecordFacts, FS_Subset
<1>2. \A x, y \in S : <<x, y>> \in R <=> Later(x, y)
  OBVIOUS
<1>3. Orders(R, S)
  <2>1. \A x \in S : ~Later(x, x)
    BY <1>1 DEF Later
  <2>2. \A x, y \in S : x # y => Later(x, y) \/ Later(y, x)
    BY <1>1 DEF Later
  <2>3. \A x, y, z \in S : Later(x, y) /\ Later(y, z) => Later(x, z)
    BY <1>1 DEF Later
  <2> HIDE DEF R
  <2> QED
    BY <1>2, <2>1, <2>2, <2>3 DEF Orders
<1>4. \A x \in S : Before(S, R, x) = {y \in S : Later(y, x)}
  BY <1>2 DEF Before
<1>5. PICK s : s = Sorted(S, Later)
  OBVIOUS
<1>6. s = [i \in 1..Cardinality(S) |-> CHOOSE x \in S : Cardinality({y \in S : Later(y, x)}) = i - 1]
  BY <1>5 DEF Sorted
<1>7. ASSUME NEW i \in 1..Cardinality(S)
      PROVE  s[i] \in S /\ Cardinality(Before(S, R, s[i])) = i - 1
  <2>1. \E x \in S : Cardinality({y \in S : Later(y, x)}) = i - 1
    <3>1. \E x \in S : Cardinality(Before(S, R, x)) = i - 1
      <4>0. IsFiniteSet(S)
        BY <1>1
      <4> HIDE DEF R
      <4>1. \A k \in 1..Cardinality(S) : \E x \in S : Cardinality(Before(S, R, x)) = k - 1
        BY <4>0, <1>3, RankedOnce
      <4> QED
        BY <1>7, <4>1
    <3> QED
      BY <3>1, <1>4
  <2>2. s[i] = CHOOSE x \in S : Cardinality({y \in S : Later(y, x)}) = i - 1
    BY <1>6
  <2>3. s[i] \in S /\ Cardinality({y \in S : Later(y, s[i])}) = i - 1
    BY <2>1, <2>2, Zenon
  <2> QED
    BY <1>4, <2>3
<1>8. s \in [1..Cardinality(S) -> S]
  <2>1. \A i \in 1..Cardinality(S) : (CHOOSE x \in S : Cardinality({y \in S : Later(y, x)}) = i - 1) \in S
    BY <1>6, <1>7
  <2> QED
    BY <1>6, <2>1, Zenon
<1> HIDE DEF R
<1> QED
  BY <1>1, <1>3, <1>5, <1>7, <1>8, RankedInOrder DEF R

(* Pages *)

First(s, n) == SubSeq(s, 1, Min2(n, Len(s)))

LEMMA FirstFacts ==
  ASSUME NEW S, NEW s \in Seq(S), NEW n \in Nat
  PROVE  /\ First(s, n) \in Seq(S) /\ Len(First(s, n)) = Min2(n, Len(s))
         /\ Min2(n, Len(s)) \in Nat
         /\ \A i \in 1..Min2(n, Len(s)) : First(s, n)[i] = s[i]
<1>1. PICK m : m = Min2(n, Len(s))
  OBVIOUS
<1>2. Len(s) \in Nat /\ \A i \in 1..Len(s) : s[i] \in S
  BY LenProperties
<1>3. m \in Nat /\ m <= Len(s)
  BY <1>1, <1>2 DEF Min2
<1>4. \A i \in 1..m : s[i] \in S
  BY <1>2, <1>3
<1>5. /\ SubSeq(s, 1, m) \in Seq(S) /\ Len(SubSeq(s, 1, m)) = m
      /\ \A i \in 1..m : SubSeq(s, 1, m)[i] = s[i]
  BY <1>3, <1>4, SubSeqProperties
<1> QED
  BY <1>1, <1>3, <1>5 DEF First

LEMMA FirstOfFirst ==
  ASSUME NEW S, NEW s \in Seq(S), NEW n \in Nat
  PROVE  First(First(s, n + 1), n) = First(s, n)
<1>1. PICK t : t = First(s, n + 1)
  OBVIOUS
<1>2. t \in Seq(S) /\ Len(t) = Min2(n + 1, Len(s)) /\ \A i \in 1..Min2(n + 1, Len(s)) : t[i] = s[i]
  <2>1. n + 1 \in Nat
    OBVIOUS
  <2> QED
    BY <1>1, <2>1, FirstFacts
<1>3. Len(s) \in Nat
  BY LenProperties
<1>4. Min2(n, Len(t)) = Min2(n, Len(s)) /\ \A i \in 1..Min2(n, Len(s)) : t[i] = s[i]
  BY <1>2, <1>3 DEF Min2
<1>5. First(t, n) \in Seq(S) /\ Len(First(t, n)) = Min2(n, Len(t)) /\ \A i \in 1..Min2(n, Len(t)) : First(t, n)[i] = t[i]
  BY <1>2, FirstFacts
<1>6. First(s, n) \in Seq(S) /\ Len(First(s, n)) = Min2(n, Len(s)) /\ \A i \in 1..Min2(n, Len(s)) : First(s, n)[i] = s[i]
  BY FirstFacts
<1>7. First(t, n) = First(s, n)
  BY <1>4, <1>5, <1>6, SeqEqual
<1> QED
  BY <1>1, <1>7

PageOfIds(s, limit) ==
  [items |-> First(s, limit),
   next |-> IF Len(s) > limit THEN <<Inserted[s[limit]].time, s[limit]>> ELSE NoCursor]

LEMMA PageFacts ==
  ASSUME NEW S, NEW s \in Seq(S), NEW limit \in Nat, limit > 0
  PROVE  PageOf(First(s, limit + 1), limit) = PageOfIds(s, limit)
<1>1. PICK rows : rows = First(s, limit + 1)
  OBVIOUS
<1>2. rows \in Seq(S) /\ Len(rows) = Min2(limit + 1, Len(s)) /\ \A i \in 1..Min2(limit + 1, Len(s)) : rows[i] = s[i]
  <2>1. limit + 1 \in Nat
    OBVIOUS
  <2> QED
    BY <1>1, <2>1, FirstFacts
<1>3. PICK visible : visible = First(rows, limit)
  OBVIOUS
<1>4. visible = First(s, limit)
  BY <1>1, <1>3, FirstOfFirst
<1>5. Len(visible) = Min2(limit, Len(s)) /\ \A i \in 1..Min2(limit, Len(s)) : visible[i] = s[i]
  BY <1>4, FirstFacts
<1>6. Len(s) \in Nat
  BY LenProperties
<1>7. Len(rows) > limit <=> Len(s) > limit
  BY <1>2, <1>6 DEF Min2
<1>8. Len(s) > limit => visible[Len(visible)] = s[limit]
  <2> HAVE Len(s) > limit
  <2>1. Min2(limit, Len(s)) = limit /\ limit \in 1..limit
    BY <1>6 DEF Min2
  <2> QED
    BY <1>5, <2>1
<1>9. PageOf(rows, limit) =
        [items |-> visible,
         next |-> IF Len(rows) > limit
                  THEN <<Inserted[visible[Len(visible)]].time, visible[Len(visible)]>> ELSE NoCursor]
  BY <1>3 DEF PageOf, First
<1>10. CASE Len(s) > limit
  <2>1. PageOf(rows, limit) = [items |-> visible, next |-> <<Inserted[s[limit]].time, s[limit]>>]
    BY <1>7, <1>8, <1>9, <1>10
  <2> QED
    BY <1>1, <1>4, <1>10, <2>1 DEF PageOfIds
<1>11. CASE ~(Len(s) > limit)
  <2>1. PageOf(rows, limit) = [items |-> visible, next |-> NoCursor]
    BY <1>7, <1>9, <1>11
  <2> QED
    BY <1>1, <1>4, <1>11, <2>1 DEF PageOfIds
<1> QED
  BY <1>10, <1>11

Found(table, q, labels, cursor) == {row[1] : row \in Where(table, q, labels, cursor)}

LEMMA FoundIds == \A table, q, labels, cursor : Found(table, q, labels, cursor) \in SUBSET Ids
<1>1. \A row \in Rows : row[1] \in Ids
  BY DEF Rows
<1> QED
  BY <1>1 DEF Found, Where

LEMMA SelectFacts ==
  ASSUME NEW table, NEW q, NEW labels, NEW cursor, q.limit \in Nat, q.limit > 0
  PROVE  LET ids == Found(table, q, labels, cursor)
         IN  /\ SelectRows(table, q, labels, cursor) = First(Sorted(ids, Later), q.limit + 1)
             /\ PageOf(SelectRows(table, q, labels, cursor), q.limit) = PageOfIds(Sorted(ids, Later), q.limit)
<1> DEFINE ids == Found(table, q, labels, cursor)
<1>1. SelectRows(table, q, labels, cursor) = First(Sorted(ids, Later), q.limit + 1)
  BY DEF SelectRows, First, Found
<1>2. Sorted(ids, Later) \in Seq(ids)
  BY FoundIds, LaterOrder DEF InOrder
<1> HIDE DEF ids
<1>3. PICK s : s = Sorted(ids, Later)
  OBVIOUS
<1>4. PICK limit \in Nat : limit = q.limit
  OBVIOUS
<1>5. PageOf(First(s, limit + 1), limit) = PageOfIds(s, limit)
  BY <1>2, <1>3, <1>4, PageFacts
<1> QED
  BY <1>1, <1>3, <1>4, <1>5 DEF ids

-----------------------------------------------------------------------------
(* Readings *)

Chosen(e, table, q, labels) ==
  /\ Inserted[e].table = table /\ Inserted[e].cluster = q.cluster
  /\ Inserted[e].time >= q.start /\ Inserted[e].time < q.end
  /\ Identity(Inserted[e], q)
  /\ labels = {} \/ Inserted[e].label \in labels

After(e, cursor) == Beyond(<<e, 1>>, cursor)

HistoryTypeOK ==
  /\ now \in Nat
  /\ copies \in [Ids -> 0..MaxCopies]
  /\ kept \in SUBSET Ids
  /\ DOMAIN reading = {"phase", "query", "cursor", "shown", "promised"}

ReadingOK ==
  /\ reading.phase \in {"idle", "reading", "done"}
  /\ reading.phase # "idle" => reading.shown \in Seq(Ids) /\ reading.promised \in SUBSET Ids
  /\ reading.phase = "reading" =>
       /\ reading.query.limit \in Nat /\ reading.query.limit > 0
       /\ \A e \in reading.promised :
            /\ copies[e] > 0 /\ Chosen(e, reading.query.table, reading.query, reading.query.labels)
            /\ e \in Range(reading.shown) \/ After(e, reading.cursor)
  /\ reading.phase = "done" => reading.promised \in SUBSET Range(reading.shown)

\* The two stores hold the same of what is within retention.
SameWithin == \A e \in Ids : ~Expired(e) => (e \in kept <=> copies[e] > 0)

HistoryInv == HistoryTypeOK /\ ReadingOK /\ SameWithin

LEMMA FoundMeans ==
  ASSUME HistoryTypeOK, NEW table, NEW q, NEW labels, NEW cursor
  PROVE  \A e : e \in Found(table, q, labels, cursor) <=>
           e \in Ids /\ copies[e] > 0 /\ Chosen(e, table, q, labels) /\ After(e, cursor)
<1>1. MaxCopies \in Nat /\ MaxCopies > 0
  BY HistoryAssumption
<1>2. \A e \in Ids : \A n : <<e, n>> \in Where(table, q, labels, cursor) <=>
        n \in 1..MaxCopies /\ n <= copies[e] /\ Chosen(e, table, q, labels) /\ Beyond(<<e, n>>, cursor)
  BY DEF Where, Rows, Column, Chosen
<1>3. \A e, n : Beyond(<<e, n>>, cursor) <=> After(e, cursor)
  BY DEF Beyond, After, Column
<1>4. \A row \in Where(table, q, labels, cursor) : \E e \in Ids, n \in 1..MaxCopies : row = <<e, n>>
  BY DEF Where, Rows
<1>5. \A e \in Ids : copies[e] \in 0..MaxCopies
  BY DEF HistoryTypeOK
<1>6. ASSUME NEW e \in Found(table, q, labels, cursor)
      PROVE  e \in Ids /\ copies[e] > 0 /\ Chosen(e, table, q, labels) /\ After(e, cursor)
  <2>1. PICK row \in Where(table, q, labels, cursor) : e = row[1]
    BY <1>6 DEF Found
  <2>2. PICK n \in 1..MaxCopies : row = <<e, n>> /\ e \in Ids
    BY <1>4, <2>1
  <2>3. n <= copies[e] /\ Chosen(e, table, q, labels) /\ After(e, cursor)
    BY <1>2, <1>3, <2>1, <2>2
  <2> QED
    BY <1>1, <1>5, <2>2, <2>3
<1>7. ASSUME NEW e \in Ids, copies[e] > 0, Chosen(e, table, q, labels), After(e, cursor)
      PROVE  e \in Found(table, q, labels, cursor)
  <2>1. 1 \in 1..MaxCopies /\ 1 <= copies[e]
    BY <1>1, <1>5, <1>7
  <2>2. <<e, 1>> \in Where(table, q, labels, cursor) /\ <<e, 1>>[1] = e
    BY <1>2, <1>3, <1>7, <2>1
  <2> QED
    BY <2>2 DEF Found
<1> QED
  BY <1>6, <1>7

\* A page shows every record it was asked for that it is not followed by.
LEMMA PageShows ==
  ASSUME NEW S \in SUBSET Ids, NEW limit \in Nat, limit > 0,
         NEW page, page = PageOfIds(Sorted(S, Later), limit)
  PROVE  /\ page.items \in Seq(Ids)
         /\ \A e \in S : e \in Range(page.items) \/ (page.next # NoCursor /\ After(e, page.next))
<1>1. PICK s : s = Sorted(S, Later)
  OBVIOUS
<1>2. /\ s \in Seq(S) /\ \A e \in S : \E i \in 1..Len(s) : s[i] = e
      /\ \A i, j \in 1..Len(s) : i < j => Later(s[i], s[j])
  BY <1>1, LaterOrder DEF InOrder
<1>3. Len(s) \in Nat /\ s \in Seq(Ids)
  <2>1. Seq(S) \in SUBSET Seq(Ids)
    BY SeqMonotonic
  <2> QED
    BY <1>2, <2>1, LenProperties
<1>4. page = PageOfIds(s, limit)
  BY <1>1
<1>5. PICK n : n = Min2(limit, Len(s))
  OBVIOUS
<1>6. page.items \in Seq(Ids) /\ Len(page.items) = n /\ \A i \in 1..n : page.items[i] = s[i]
  <2>1. page.items = First(s, limit)
    BY <1>4 DEF PageOfIds
  <2> QED
    BY <1>3, <1>5, <2>1, FirstFacts
<1>7. \A i \in 1..n : s[i] \in Range(page.items)
  <2>1. DOMAIN page.items = 1..n
    BY <1>6, LenProperties
  <2> QED
    BY <1>6, <2>1 DEF Range
<1>8. ASSUME NEW e \in S, e \notin Range(page.items)
      PROVE  page.next # NoCursor /\ After(e, page.next)
  <2>1. PICK i \in 1..Len(s) : s[i] = e
    BY <1>2
  <2>2. Len(s) > limit /\ limit < i /\ limit \in 1..Len(s)
    BY <1>3, <1>5, <1>7, <1>8, <2>1 DEF Min2
  <2>3. Later(s[limit], e)
    BY <1>2, <2>1, <2>2
  <2>4. page.next = <<Inserted[s[limit]].time, s[limit]>>
    BY <1>4, <2>2 DEF PageOfIds
  <2>5. page.next # NoCursor
    BY <2>4 DEF NoCursor
  <2>6. s[limit] \in Ids /\ e \in Ids
    BY <1>3, <2>2, LenProperties
  <2>7. PICK c : c = page.next
    OBVIOUS
  <2>8. c[1] = Inserted[s[limit]].time /\ c[2] = s[limit]
    BY <2>4, <2>7
  <2>9. Inserted[e].time < c[1] \/ (Inserted[e].time = c[1] /\ e < c[2])
    BY <2>3, <2>6, <2>8, RecordFacts DEF Later
  <2>10. Column(<<e, 1>>) = Inserted[e] /\ <<e, 1>>[1] = e
    BY DEF Column
  <2>11. After(e, c)
    BY <2>9, <2>10 DEF After, Beyond
  <2> QED
    BY <2>5, <2>7, <2>11
<1> QED
  BY <1>6, <1>8

LEMMA HistoryInitial == HistoryInit => HistoryInv
<1>1. HistoryInit => HistoryTypeOK
  BY HistoryAssumption DEF HistoryInit, HistoryTypeOK, Idle
<1>2. HistoryInit => ReadingOK
  BY DEF HistoryInit, ReadingOK, Idle
<1>3. HistoryInit => SameWithin
  BY DEF HistoryInit, SameWithin
<1> QED
  BY <1>1, <1>2, <1>3 DEF HistoryInv

LEMMA HistoryStep ==
  ASSUME HistoryInv, [HistoryNext]_historyVars
  PROVE  HistoryInv'
<1>1. HistoryTypeOK /\ ReadingOK /\ SameWithin
  BY DEF HistoryInv
<1>2. Ids \in SUBSET Int /\ \A e \in Ids : copies[e] \in 0..MaxCopies
  BY <1>1, RecordFacts DEF HistoryTypeOK
<1>3. MaxCopies \in Nat /\ MaxCopies > 0
  BY HistoryAssumption
<1>4. ASSUME NEW e \in Ids, Store(e)
      PROVE  HistoryInv'
  <2>1. HistoryTypeOK'
    BY <1>1, <1>2, <1>3, <1>4 DEF HistoryTypeOK, Store, KeptWith
  <2>2. \A f \in Ids : copies'[f] >= copies[f] /\ (f # e => copies'[f] = copies[f]) /\ copies'[e] > 0
    <3>1. copies' = [copies EXCEPT ![e] = @ + 1] /\ copies \in [Ids -> 0..MaxCopies]
      BY <1>1, <1>4 DEF HistoryTypeOK, Store
    <3>2. copies'[e] = copies[e] + 1 /\ \A f \in Ids : f # e => copies'[f] = copies[f]
      BY <3>1
    <3>3. \A f \in Ids : copies[f] \in Nat
      BY <1>2, <1>3
    <3> QED
      BY <3>2, <3>3
  <2>3. ReadingOK'
    <3>1. reading' = reading
      BY <1>4 DEF Store
    <3>2. \A f \in reading.promised : reading.phase = "reading" => copies'[f] > 0
      BY <1>1, <1>2, <2>1, <2>2 DEF ReadingOK, HistoryTypeOK
    <3> QED
      BY <1>1, <3>1, <3>2 DEF ReadingOK
  <2>4. SameWithin'
    <3>1. now' = now /\ (kept' = IF Expired(e) THEN kept ELSE kept \union {e})
      BY <1>4 DEF Store, KeptWith
    <3> QED
      BY <1>1, <2>2, <3>1 DEF SameWithin, Expired
  <2> QED
    BY <2>1, <2>3, <2>4 DEF HistoryInv
<1>5. ASSUME NEW e \in Ids, Merge(e)
      PROVE  HistoryInv'
  <2>1. HistoryTypeOK'
    BY <1>1, <1>2, <1>3, <1>5 DEF HistoryTypeOK, Merge
  <2>2. \A f \in Ids : copies'[f] > 0 <=> copies[f] > 0
    BY <1>1, <1>2, <1>5 DEF HistoryTypeOK, Merge
  <2>3. ReadingOK'
    <3>1. reading' = reading
      BY <1>5 DEF Merge
    <3>2. \A f \in reading.promised : reading.phase = "reading" => copies'[f] > 0
      BY <1>1, <2>2 DEF ReadingOK
    <3> QED
      BY <1>1, <3>1, <3>2 DEF ReadingOK
  <2>4. SameWithin'
    BY <1>1, <1>5, <2>2 DEF SameWithin, Expired, Merge
  <2> QED
    BY <2>1, <2>3, <2>4 DEF HistoryInv
<1>6. ASSUME NEW e \in Ids, Expire(e)
      PROVE  HistoryInv'
  <2>1. HistoryTypeOK'
    BY <1>1, <1>2, <1>3, <1>6 DEF HistoryTypeOK, Expire
  <2>2. \A f \in Ids : f # e => copies'[f] = copies[f]
    BY <1>1, <1>6 DEF HistoryTypeOK, Expire
  <2>3. ReadingOK'
    <3>1. /\ reading'.phase = reading.phase /\ reading'.query = reading.query /\ reading'.cursor = reading.cursor
          /\ reading'.shown = reading.shown /\ reading'.promised = reading.promised \ {e}
      BY <1>1, <1>6 DEF Expire, HistoryTypeOK
    <3>2. \A f \in reading'.promised : reading.phase = "reading" => copies'[f] = copies[f]
      BY <1>1, <2>2, <3>1 DEF ReadingOK
    <3> QED
      BY <1>1, <3>1, <3>2 DEF ReadingOK
  <2>4. SameWithin'
    BY <1>1, <1>6, <2>2 DEF SameWithin, Expired, Expire
  <2> QED
    BY <2>1, <2>3, <2>4 DEF HistoryInv
<1>7. ASSUME Tick
      PROVE  HistoryInv'
  <2>1. HistoryTypeOK'
    BY <1>1, <1>7 DEF HistoryTypeOK, Tick
  <2>2. ReadingOK'
    BY <1>1, <1>7 DEF ReadingOK, Tick
  <2>3. \A e \in Ids : Expired(e) => Expired(e)'
    BY <1>1, <1>7, RecordFacts, HistoryAssumption DEF Expired, HistoryTypeOK, Tick
  <2>4. SameWithin'
    BY <1>1, <1>7, <2>3 DEF SameWithin, Tick
  <2> QED
    BY <2>1, <2>2, <2>4 DEF HistoryInv
<1>8. ASSUME NEW request \in Requests, NEW assigned, Ask(request, assigned)
      PROVE  HistoryInv'
  <2>1. PICK q : q = [request EXCEPT !.cluster = ResolveCluster(@, Scope(assigned)), !.limit = ParseLimit(@)]
    OBVIOUS
  <2>2. q.limit \in Nat /\ q.limit > 0
    <3>1. DOMAIN request = {"table", "cluster", "workload", "pod", "labels", "start", "end", "limit"} /\ request.limit \in Int
      BY HistoryAssumption DEF IsSearch
    <3>2. q.limit = Min2(request.limit, MaxLimit) /\ MaxLimit \in Nat
      BY <2>1, <3>1, HistoryAssumption DEF ParseLimit
    <3>3. q.limit >= 1
      BY <1>8, <2>1 DEF Ask, ValidSearch
    <3> QED
      BY <3>1, <3>2, <3>3 DEF Min2
  <2>3. /\ reading' = [Idle EXCEPT !.phase = "reading", !.query = q,
                                   !.promised = Found(q.table, q, q.labels, NoCursor)]
        /\ now' = now /\ copies' = copies /\ kept' = kept
    BY <1>8, <2>1 DEF Ask, Found
  <2>4. /\ DOMAIN reading' = {"phase", "query", "cursor", "shown", "promised"}
        /\ reading'.phase = "reading" /\ reading'.query = q /\ reading'.cursor = NoCursor
        /\ reading'.shown = <<>> /\ reading'.promised = Found(q.table, q, q.labels, NoCursor)
    BY <2>3 DEF Idle
  <2>5. HistoryTypeOK'
    BY <1>1, <2>3, <2>4 DEF HistoryTypeOK
  <2>6. \A e \in Found(q.table, q, q.labels, NoCursor) :
          e \in Ids /\ copies[e] > 0 /\ Chosen(e, q.table, q, q.labels) /\ After(e, NoCursor)
    BY <1>1, FoundMeans
  <2>7. ReadingOK'
    <3>1. <<>> \in Seq(Ids)
      OBVIOUS
    <3>2. reading'.promised \in SUBSET Ids
      BY <2>4, <2>6
    <3>3. \A e \in reading'.promised :
            copies'[e] > 0 /\ Chosen(e, q.table, q, q.labels) /\ After(e, reading'.cursor)
      BY <2>3, <2>4, <2>6
    <3>4. /\ reading'.phase \in {"idle", "reading", "done"}
          /\ reading'.shown \in Seq(Ids) /\ reading'.promised \in SUBSET Ids
          /\ reading'.query.limit \in Nat /\ reading'.query.limit > 0 /\ reading'.phase # "done"
      BY <2>2, <2>4, <3>1, <3>2
    <3>5. \A e \in reading'.promised :
            /\ copies'[e] > 0
            /\ Chosen(e, reading'.query.table, reading'.query, reading'.query.labels)
            /\ e \in Range(reading'.shown) \/ After(e, reading'.cursor)
      BY <2>4, <3>3
    <3> QED
      BY <3>4, <3>5 DEF ReadingOK
  <2>8. SameWithin'
    BY <1>1, <2>3 DEF SameWithin, Expired
  <2> QED
    BY <2>5, <2>7, <2>8 DEF HistoryInv
<1>9. ASSUME NEW assigned, NextPage(assigned)
      PROVE  HistoryInv'
  <2>1. PICK q, page : q = reading.query /\ page = SearchPage(q.table, q, reading.cursor)
    OBVIOUS
  <2>2. /\ reading.phase = "reading" /\ now' = now /\ copies' = copies /\ kept' = kept
        /\ reading' = [reading EXCEPT !.cursor = page.next, !.shown = @ \o page.items,
                          !.phase = IF page.next = NoCursor THEN "done" ELSE "reading"]
    BY <1>9, <2>1 DEF NextPage
  <2>3. /\ DOMAIN reading' = {"phase", "query", "cursor", "shown", "promised"}
        /\ reading'.phase = IF page.next = NoCursor THEN "done" ELSE "reading"
        /\ reading'.query = q /\ reading'.cursor = page.next
        /\ reading'.shown = reading.shown \o page.items /\ reading'.promised = reading.promised
    BY <1>1, <2>1, <2>2 DEF HistoryTypeOK
  <2>4. q.limit \in Nat /\ q.limit > 0 /\ reading.shown \in Seq(Ids) /\ reading.promised \in SUBSET Ids
    BY <1>1, <2>1, <2>2 DEF ReadingOK
  <2>5. PICK S : S = Found(q.table, q, q.labels, reading.cursor)
    OBVIOUS
  <2>6. S \in SUBSET Ids
    BY <2>5, FoundIds
  <2>7. page = PageOfIds(Sorted(S, Later), q.limit)
    BY <2>1, <2>4, <2>5, SelectFacts DEF SearchPage
  <2>8. /\ page.items \in Seq(Ids)
        /\ \A e \in S : e \in Range(page.items) \/ (page.next # NoCursor /\ After(e, page.next))
    BY <2>4, <2>6, <2>7, PageShows
  <2>9. reading'.shown \in Seq(Ids) /\ Range(reading.shown) \union Range(page.items) = Range(reading'.shown)
    <3>1. reading'.shown \in Seq(Ids)
      BY <2>3, <2>4, <2>8
    <3>2. Range(reading.shown \o page.items) = Range(reading.shown) \union Range(page.items)
      BY <2>4, <2>8, RangeConcatenation
    <3> QED
      BY <2>3, <3>1, <3>2
  <2>10. \A e \in reading.promised :
           /\ copies[e] > 0 /\ Chosen(e, q.table, q, q.labels)
           /\ e \in Range(reading'.shown) \/ (page.next # NoCursor /\ After(e, page.next))
    <3> TAKE e \in reading.promised
    <3>1. copies[e] > 0 /\ Chosen(e, q.table, q, q.labels) /\ (e \in Range(reading.shown) \/ After(e, reading.cursor))
      BY <1>1, <2>1, <2>2 DEF ReadingOK
    <3>2. After(e, reading.cursor) => e \in S
      BY <1>1, <2>4, <2>5, <3>1, FoundMeans
    <3> QED
      BY <2>8, <2>9, <3>1, <3>2
  <2>11. HistoryTypeOK'
    BY <1>1, <2>2, <2>3 DEF HistoryTypeOK
  <2>12. ReadingOK'
    <3>1. CASE page.next = NoCursor
      <4>1. reading'.phase = "done" /\ reading'.promised \in SUBSET Range(reading'.shown)
        BY <2>3, <2>10, <3>1
      <4> QED
        BY <2>3, <2>4, <2>9, <4>1 DEF ReadingOK
    <3>2. CASE page.next # NoCursor
      <4>1. reading'.phase = "reading"
        BY <2>3, <3>2
      <4> QED
        BY <2>2, <2>3, <2>4, <2>9, <2>10, <4>1 DEF ReadingOK
    <3> QED
      BY <3>1, <3>2
  <2>13. SameWithin'
    BY <1>1, <2>2 DEF SameWithin, Expired
  <2> QED
    BY <2>11, <2>12, <2>13 DEF HistoryInv
<1>10. ASSUME Refuse \/ Leave
       PROVE  HistoryInv'
  <2>1. reading' = Idle /\ now' = now /\ copies' = copies /\ kept' = kept
    BY <1>10 DEF Refuse, Leave
  <2>2. DOMAIN reading' = {"phase", "query", "cursor", "shown", "promised"} /\ reading'.phase = "idle"
    BY <2>1 DEF Idle
  <2>3. HistoryTypeOK' /\ ReadingOK' /\ SameWithin'
    BY <1>1, <2>1, <2>2 DEF HistoryTypeOK, ReadingOK, SameWithin, Expired
  <2> QED
    BY <2>3 DEF HistoryInv
<1>11. CASE UNCHANGED historyVars
  BY <1>1, <1>11 DEF historyVars, HistoryInv, HistoryTypeOK, ReadingOK, SameWithin, Expired
<1> QED
  BY <1>4, <1>5, <1>6, <1>7, <1>8, <1>9, <1>10, <1>11 DEF HistoryNext

LEMMA HistoryHolds == HistorySpec => []HistoryInv
<1>1. HistoryInit => HistoryInv
  BY HistoryInitial
<1>2. HistoryInv /\ [HistoryNext]_historyVars => HistoryInv'
  BY HistoryStep
<1> QED
  BY <1>1, <1>2, PTL DEF HistorySpec

\* A reader who follows the cursors of page() (store.ts) to the last page has been
\* shown all that was there when it began, whatever is inserted, merged and expired
\* between two pages.
THEOREM PagesSkipNothing == HistorySpec => []NothingIsSkipped
<1>1. HistoryInv => NothingIsSkipped
  BY DEF HistoryInv, ReadingOK, NothingIsSkipped
<1> QED
  BY <1>1, HistoryHolds, PTL

(* The two stores *)

LEMMA RowIdentity ==
  \A e \in Ids :
    /\ Inserted[e].workload = IF Records[e].workload = None THEN "" ELSE Records[e].workload
    /\ Inserted[e].pod = IF Records[e].pod = None THEN "" ELSE Records[e].pod
    /\ Inserted[e].service = IF Records[e].service = None THEN "" ELSE Records[e].service
    /\ Records[e].workload # "" /\ Records[e].pod # "" /\ Records[e].service # ""
<1> TAKE e \in Ids
<1>1. PICK r : r = Records[e]
  OBVIOUS
<1>2. IsRecord(r)
  BY <1>1, HistoryAssumption
<1>3. Inserted[e] = RowOf(r)
  BY <1>1 DEF Inserted
<1>4. PICK w, p, v : /\ w = (IF r.workload = None THEN "" ELSE r.workload)
                     /\ p = (IF r.pod = None THEN "" ELSE r.pod)
                     /\ v = (IF r.service = None THEN "" ELSE r.service)
  OBVIOUS
<1>5. RowOf(r) = [r EXCEPT !.workload = w, !.pod = p, !.service = v]
  BY <1>4 DEF RowOf
<1>6. RowOf(r).workload = w /\ RowOf(r).pod = p /\ RowOf(r).service = v
  BY <1>2, <1>5 DEF IsRecord
<1> QED
  BY <1>1, <1>2, <1>3, <1>4, <1>6 DEF IsRecord

LEMMA SameIdentity ==
  ASSUME NEW e \in Ids, NEW q, q.workload # "", q.pod # ""
  PROVE  Identity(Inserted[e], q) <=> MatchesIdentity(Records[e], q)
<1> QED
  BY RowIdentity DEF Identity, MatchesIdentity, None

\* What a query asks of a record is the same in the two stores.
AsksWithin(q) == q.start \in Int /\ q.start >= now - Retention /\ q.workload # "" /\ q.pod # ""

LEMMA SameMatches ==
  ASSUME HistoryInv, NEW q, AsksWithin(q), NEW table, NEW labels
  PROVE  \A e : e \in Matches(table, q, labels) <=>
           e \in Ids /\ copies[e] > 0 /\ Chosen(e, table, q, labels)
<1>1. HistoryTypeOK /\ SameWithin
  BY DEF HistoryInv
<1>2. Matches(table, q, labels) \in SUBSET Ids
  BY <1>1 DEF Matches, Retained, HistoryTypeOK
<1>3. ASSUME NEW e \in Ids
      PROVE  e \in Matches(table, q, labels) <=> copies[e] > 0 /\ Chosen(e, table, q, labels)
  <2>1. Records[e].time >= q.start => ~Expired(e)
    <3>1. Retention \in Nat /\ now \in Nat /\ q.start \in Int /\ q.start >= now - Retention
      BY <1>1, HistoryAssumption DEF AsksWithin, HistoryTypeOK
    <3>2. Records[e].time \in Int
      BY RecordFacts
    <3> QED
      BY <3>1, <3>2 DEF Expired
  <2>2. Identity(Inserted[e], q) <=> MatchesIdentity(Records[e], q)
    BY SameIdentity DEF AsksWithin
  <2>3. e \in Matches(table, q, labels) <=>
          /\ e \in kept /\ ~Expired(e)
          /\ Records[e].table = table /\ Records[e].cluster = q.cluster
          /\ Records[e].time >= q.start /\ Records[e].time < q.end
          /\ MatchesIdentity(Records[e], q)
          /\ labels = {} \/ Records[e].label \in labels
    BY DEF Matches, Retained, WithinRange
  <2>4. ~Expired(e) => (e \in kept <=> copies[e] > 0)
    BY <1>1 DEF SameWithin
  <2> QED
    BY <2>1, <2>2, <2>3, <2>4, RecordFacts DEF Chosen
<1> QED
  BY <1>2, <1>3

LEMMA SameAfter ==
  ASSUME HistoryInv, NEW q, AsksWithin(q), NEW table, NEW labels, NEW cursor
  PROVE  {e \in Matches(table, q, labels) :
            cursor = NoCursor \/ Records[e].time < cursor[1]
              \/ (Records[e].time = cursor[1] /\ e < cursor[2])} = Found(table, q, labels, cursor)
<1>1. HistoryTypeOK
  BY DEF HistoryInv
<1>2. \A e \in Ids : After(e, cursor) <=>
        cursor = NoCursor \/ Records[e].time < cursor[1]
          \/ (Records[e].time = cursor[1] /\ e < cursor[2])
  BY RecordFacts DEF After, Beyond, Column
<1>3. \A e : e \in Found(table, q, labels, cursor) <=>
        e \in Ids /\ copies[e] > 0 /\ Chosen(e, table, q, labels) /\ After(e, cursor)
  BY <1>1, FoundMeans
<1>4. \A e : e \in Matches(table, q, labels) <=>
        e \in Ids /\ copies[e] > 0 /\ Chosen(e, table, q, labels)
  BY SameMatches
<1> QED
  BY <1>2, <1>3, <1>4

\* The members of S have their places whichever of the two orders names them.
LEMMA DescendingOrder ==
  ASSUME NEW S \in SUBSET Ids
  PROVE  Sorted(S, CompareDescending) = Sorted(S, Later)
<1> DEFINE R == {p \in S \X S : Later(p[1], p[2])}
<1>1. IsFiniteSet(S) /\ S \in SUBSET Int
  BY RecordFacts, FS_Subset
<1>2. \A x, y \in S : <<x, y>> \in R <=> Later(x, y)
  OBVIOUS
<1>3. Orders(R, S)
  BY <1>1, <1>2, RecordFacts DEF Orders, Later
<1>4. \A x \in S : Before(S, R, x) = {y \in S : Later(y, x)}
  BY <1>2 DEF Before
<1>5. \A x \in S : Before(S, R, x) = {y \in S : CompareDescending(y, x)}
  BY <1>4, RecordFacts DEF Later, CompareDescending
<1>6. \A i \in 1..Cardinality(S) :
        /\ \A x, y \in S : Cardinality(Before(S, R, x)) = i - 1 /\ Cardinality(Before(S, R, y)) = i - 1 => x = y
        /\ \E x \in S : Cardinality(Before(S, R, x)) = i - 1
  <2> HIDE DEF R
  <2> QED
    BY <1>1, <1>3, RankedOnce
<1> HIDE DEF R
<1>7. \A i \in 1..Cardinality(S) :
        (CHOOSE x \in S : Cardinality({y \in S : CompareDescending(y, x)}) = i - 1)
          = (CHOOSE x \in S : Cardinality({y \in S : Later(y, x)}) = i - 1)
  <2> TAKE i \in 1..Cardinality(S)
  <2>1. PICK x \in S : Cardinality(Before(S, R, x)) = i - 1
    BY <1>6
  <2>2. /\ \E z \in S : Cardinality({y \in S : CompareDescending(y, z)}) = i - 1
        /\ \E z \in S : Cardinality({y \in S : Later(y, z)}) = i - 1
    BY <1>4, <1>5, <2>1
  <2>3. PICK a : a = CHOOSE z \in S : Cardinality({y \in S : CompareDescending(y, z)}) = i - 1
    OBVIOUS
  <2>4. PICK b : b = CHOOSE z \in S : Cardinality({y \in S : Later(y, z)}) = i - 1
    OBVIOUS
  <2>5. a \in S /\ Cardinality({y \in S : CompareDescending(y, a)}) = i - 1
    BY <2>2, <2>3, Zenon
  <2>6. b \in S /\ Cardinality({y \in S : Later(y, b)}) = i - 1
    BY <2>2, <2>4, Zenon
  <2>7. a = b
    BY <1>4, <1>5, <1>6, <2>5, <2>6
  <2> QED
    BY <2>3, <2>4, <2>7
<1>8. PICK n : n = Cardinality(S)
  OBVIOUS
<1>9. PICK s, t : s = Sorted(S, CompareDescending) /\ t = Sorted(S, Later)
  OBVIOUS
<1>10. s = [i \in 1..n |-> CHOOSE x \in S : Cardinality({y \in S : CompareDescending(y, x)}) = i - 1]
  BY <1>8, <1>9, Zenon DEF Sorted
<1>11. t = [i \in 1..n |-> CHOOSE x \in S : Cardinality({y \in S : Later(y, x)}) = i - 1]
  BY <1>8, <1>9, Zenon DEF Sorted
<1>12. ASSUME NEW i \in 1..n
       PROVE  s[i] = t[i] /\ s[i] \in S
  <2>1. s[i] = CHOOSE x \in S : Cardinality({y \in S : CompareDescending(y, x)}) = i - 1
    BY <1>10
  <2>2. t[i] = CHOOSE x \in S : Cardinality({y \in S : Later(y, x)}) = i - 1
    BY <1>11
  <2>3. s[i] = t[i]
    BY <1>7, <1>8, <2>1, <2>2
  <2>4. \E x \in S : Cardinality({y \in S : Later(y, x)}) = i - 1
    BY <1>4, <1>6, <1>8
  <2>5. t[i] \in S
    BY <2>2, <2>4, Zenon
  <2> QED
    BY <2>3, <2>5
<1>13. s \in [1..n -> S]
  <2>1. \A i \in 1..n : (CHOOSE x \in S : Cardinality({y \in S : CompareDescending(y, x)}) = i - 1) \in S
    BY <1>10, <1>12
  <2> QED
    BY <1>10, <2>1, Zenon
<1>14. t \in [1..n -> S]
  <2>1. \A i \in 1..n : (CHOOSE x \in S : Cardinality({y \in S : Later(y, x)}) = i - 1) \in S
    BY <1>11, <1>12
  <2> QED
    BY <1>11, <2>1, Zenon
<1>15. s = t
  <2>1. \A i \in 1..n : s[i] = t[i]
    BY <1>12
  <2> QED
    <3>1. n \in Nat
      BY <1>1, <1>8, FS_CardinalityType
    <3>2. s \in Seq(S) /\ t \in Seq(S)
      BY <1>13, <1>14, <3>1, SeqDef
    <3>3. DOMAIN s = 1..n /\ DOMAIN t = 1..n
      BY <1>13, <1>14
    <3>4. Len(s) = n /\ Len(t) = n
      BY <3>1, <3>2, <3>3, LenProperties, SameInterval
    <3> QED
      BY <2>1, <3>2, <3>4, SeqEqual
<1> QED
  BY <1>9, <1>15

LEMMA SamePage ==
  ASSUME HistoryInv, NEW q, AsksWithin(q), NEW table, NEW labels, NEW cursor,
         q.limit \in Nat, q.limit > 0
  PROVE  /\ PageOf(SelectRows(table, q, labels, cursor), q.limit)
              = Paginate(Matches(table, q, labels), q.limit, cursor)
<1>1. PICK S : S = Found(table, q, labels, cursor)
  OBVIOUS
<1>2. S \in SUBSET Ids
  BY <1>1, FoundIds
<1>3. PICK s : s = Sorted(S, Later)
  OBVIOUS
<1>4. s \in Seq(S) /\ s \in Seq(Ids)
  <2>1. s \in Seq(S)
    BY <1>2, <1>3, LaterOrder DEF InOrder
  <2> QED
    BY <1>2, <2>1, SeqMonotonic
<1>5. PICK limit \in Nat : limit = q.limit /\ limit > 0
  OBVIOUS
<1>6. PageOf(SelectRows(table, q, labels, cursor), q.limit) = PageOfIds(s, limit)
  BY <1>1, <1>3, <1>5, SelectFacts
<1>7. PICK items : items = First(s, limit)
  OBVIOUS
<1>8. Len(items) = Min2(limit, Len(s)) /\ \A i \in 1..Min2(limit, Len(s)) : items[i] = s[i]
  BY <1>4, <1>5, <1>7, FirstFacts
<1>9. Len(s) \in Nat
  BY <1>4, LenProperties
<1>10. Paginate(Matches(table, q, labels), limit, cursor) =
         [items |-> items,
          next |-> IF Len(s) > limit THEN <<Records[items[Len(items)]].time, items[Len(items)]>> ELSE NoCursor]
  <2>1. {e \in Matches(table, q, labels) :
            cursor = NoCursor \/ Records[e].time < cursor[1]
              \/ (Records[e].time = cursor[1] /\ e < cursor[2])} = S
    BY <1>1, SameAfter
  <2>2. Sorted(S, CompareDescending) = s
    BY <1>2, <1>3, DescendingOrder
  <2> QED
    BY <1>7, <2>1, <2>2 DEF Paginate, First
<1>11. CASE Len(s) > limit
  <2>1. Min2(limit, Len(s)) = limit /\ limit \in 1..limit /\ limit \in 1..Len(s)
    BY <1>5, <1>9, <1>11 DEF Min2
  <2>2. items[Len(items)] = s[limit] /\ s[limit] \in Ids
    BY <1>4, <1>8, <2>1, LenProperties
  <2>3. Records[s[limit]].time = Inserted[s[limit]].time
    BY <2>2, RecordFacts
  <2> QED
    BY <1>5, <1>6, <1>7, <1>10, <1>11, <2>2, <2>3 DEF PageOfIds
<1>12. CASE ~(Len(s) > limit)
  BY <1>5, <1>6, <1>7, <1>10, <1>12 DEF PageOfIds
<1> QED
  BY <1>11, <1>12

(* Buckets *)

LEMMA Multiples ==
  ASSUME NEW w \in Nat, w > 0, NEW a \in Int, NEW b \in Int, a * w = b * w
  PROVE  a = b
<1>1. (a - b) * w = 0
  OBVIOUS
<1>2. PICK d \in Int : d = a - b
  OBVIOUS
<1>3. d * w = 0
  BY <1>1, <1>2
<1>4. d = 0
  BY <1>3
<1> QED
  BY <1>2, <1>4

LEMMA SlotIsInt ==
  ASSUME NEW x \in Int, NEW w \in Nat, w > 0
  PROVE  x \div w \in Int
<1> QED
  OBVIOUS

\* Where the bucket of a record begins, and its series.
StartOf(q, w, e) == q.start + ((Records[e].time - q.start) \div w) * w
SameSeries(e, f) ==
  Records[e].workload = Records[f].workload /\ Records[e].pod = Records[f].pod

\* The samples of one service of the series of a record, and of all of them.
OfService(q, w, found, e) ==
  {<<f, 1>> : f \in {g \in found : /\ StartOf(q, w, g) = StartOf(q, w, e)
                                   /\ SameSeries(g, e) /\ Records[g].service = Records[e].service}}
OfSeries(q, w, found, e) ==
  {<<f, 1>> : f \in {g \in found : StartOf(q, w, g) = StartOf(q, w, e) /\ SameSeries(g, e)}}

\* The buckets of ClickHouse and of the in-process store that a record falls into.
RowBucket(q, w, found, e) ==
  Bucket(StartOf(q, w, e), Records[e], OfService(q, w, found, e))
SampleBucket(q, w, found, e) ==
  Bucket(StartOf(q, w, e), [workload |-> Records[e].workload, pod |-> Records[e].pod, service |-> None],
         OfSeries(q, w, found, e))

LEMMA RowsOfSamples ==
  ASSUME HistoryInv, NEW q, AsksWithin(q)
  PROVE  SampleRows(q) = {<<e, 1>> : e \in Matches("metrics", q, {q.name})}
<1>1. HistoryTypeOK
  BY DEF HistoryInv
<1>2. MaxCopies \in Nat /\ MaxCopies > 0
  BY HistoryAssumption
<1>3. \A e : e \in Matches("metrics", q, {q.name}) <=>
        e \in Ids /\ copies[e] > 0 /\ Chosen(e, "metrics", q, {q.name})
  BY SameMatches
<1>4. \A e \in Ids : copies[e] \in 0..MaxCopies
  BY <1>1 DEF HistoryTypeOK
<1>5. \A e \in Ids : <<e, 1>> \in Where("metrics", q, {q.name}, NoCursor) <=>
        copies[e] > 0 /\ Chosen(e, "metrics", q, {q.name})
  BY <1>2, <1>4 DEF Where, Rows, Column, Chosen, Beyond
<1>6. \A row \in Where("metrics", q, {q.name}, NoCursor) :
        row[1] \in Ids /\ row = <<row[1], row[2]>>
  BY DEF Where, Rows
<1>7. ASSUME NEW row \in SampleRows(q)
      PROVE  row \in {<<e, 1>> : e \in Matches("metrics", q, {q.name})}
  <2>1. row \in Where("metrics", q, {q.name}, NoCursor) /\ row[2] = 1
    BY <1>7 DEF SampleRows
  <2>2. PICK e \in Ids : row = <<e, 1>>
    BY <1>6, <2>1
  <2> QED
    BY <1>3, <1>5, <2>1, <2>2
<1>8. ASSUME NEW e \in Matches("metrics", q, {q.name})
      PROVE  <<e, 1>> \in SampleRows(q)
  <2>1. <<e, 1>> \in Where("metrics", q, {q.name}, NoCursor) /\ <<e, 1>>[2] = 1
    BY <1>3, <1>5, <1>8
  <2> QED
    BY <2>1 DEF SampleRows
<1> QED
  BY <1>7, <1>8

LEMMA StartIsInt ==
  ASSUME NEW q, q.start \in Int, NEW w \in Nat, w > 0, NEW e \in Ids
  PROVE  StartOf(q, w, e) \in Int
<1>1. PICK a : a = (Records[e].time - q.start) \div w
  OBVIOUS
<1>2. a \in Int
  BY <1>1, RecordFacts, SlotIsInt
<1>3. a * w \in Int
  BY <1>2
<1> QED
  BY <1>1, <1>3 DEF StartOf

LEMMA SameSlot ==
  ASSUME NEW q, q.start \in Int, NEW w \in Nat, w > 0, NEW e \in Ids, NEW f \in Ids
  PROVE  StartOf(q, w, e) = StartOf(q, w, f) <=>
           (Records[e].time - q.start) \div w = (Records[f].time - q.start) \div w
<1>1. PICK a, b : a = (Records[e].time - q.start) \div w /\ b = (Records[f].time - q.start) \div w
  OBVIOUS
<1>2. a \in Int /\ b \in Int
  BY <1>1, RecordFacts, SlotIsInt
<1>3. PICK x, y : x = a * w /\ y = b * w
  OBVIOUS
<1>4. x \in Int /\ y \in Int
  BY <1>2, <1>3
<1>5. q.start + x = q.start + y <=> x = y
  BY <1>4
<1>6. x = y <=> a = b
  BY <1>2, <1>3, Multiples
<1> QED
  BY <1>1, <1>3, <1>5, <1>6 DEF StartOf

LEMMA SameIdentityBack ==
  ASSUME NEW e \in Ids
  PROVE  RecordOf([workload |-> Inserted[e].workload, pod |-> Inserted[e].pod,
                   service |-> Inserted[e].service])
           = [workload |-> Records[e].workload, pod |-> Records[e].pod, service |-> Records[e].service]
<1>1. PICK w, p, v, x, y, z : /\ w = Inserted[e].workload /\ p = Inserted[e].pod /\ v = Inserted[e].service
                              /\ x = Records[e].workload /\ y = Records[e].pod /\ z = Records[e].service
  OBVIOUS
<1>2. /\ w = (IF x = None THEN "" ELSE x) /\ p = (IF y = None THEN "" ELSE y)
      /\ v = (IF z = None THEN "" ELSE z) /\ x # "" /\ y # "" /\ z # ""
  BY <1>1, RowIdentity
<1>3. /\ (IF w = "" THEN None ELSE w) = x /\ (IF p = "" THEN None ELSE p) = y
      /\ (IF v = "" THEN None ELSE v) = z
  BY <1>2 DEF None
<1>4. RecordOf([workload |-> w, pod |-> p, service |-> v]) = [workload |-> x, pod |-> y, service |-> z]
  <2>1. PICK r : r = [workload |-> w, pod |-> p, service |-> v]
    OBVIOUS
  <2>2. RecordOf(r) = [r EXCEPT !.workload = IF @ = "" THEN None ELSE @, !.pod = IF @ = "" THEN None ELSE @,
                                !.service = IF @ = "" THEN None ELSE @]
    BY DEF RecordOf
  <2>3. r.workload = w /\ r.pod = p /\ r.service = v /\ DOMAIN r = {"workload", "pod", "service"}
    BY <2>1
  <2>4. RecordOf(r) = [r EXCEPT !.workload = x, !.pod = y, !.service = z]
    BY <1>3, <2>2, <2>3
  <2> QED
    BY <2>1, <2>4
<1> QED
  BY <1>1, <1>4

\* What the GROUP BY of ClickHouse makes of the records found.
LEMMA BucketsAre ==
  ASSUME HistoryInv, NEW q, AsksWithin(q), NEW w \in Nat, w = BucketWidth(q), w > 0,
         NEW found, found = Matches("metrics", q, {q.name})
  PROVE  Buckets(q) = {RowBucket(q, w, found, e) : e \in found}
<1> DEFINE Key(row) == <<q.start + ((Column(row).time - q.start) \div w) * w,
                         Column(row).workload, Column(row).pod, Column(row).service>>
           Of(k) == Bucket(k[1], RecordOf([workload |-> k[2], pod |-> k[3], service |-> k[4]]),
                           {row \in SampleRows(q) : Key(row) = k})
<1>1. Buckets(q) = {Of(k) : k \in {Key(row) : row \in SampleRows(q)}}
  BY DEF Buckets
<1>2. SampleRows(q) = {<<e, 1>> : e \in found} /\ found \in SUBSET Ids /\ q.start \in Int
  BY RowsOfSamples, SameMatches DEF AsksWithin
<1>3. \A e \in found : Key(<<e, 1>>) = <<StartOf(q, w, e), Inserted[e].workload, Inserted[e].pod, Inserted[e].service>>
  <2>1. \A e \in found : Column(<<e, 1>>) = Inserted[e] /\ Inserted[e].time = Records[e].time
    BY <1>2, RecordFacts DEF Column
  <2> QED
    BY <2>1 DEF StartOf
<1> HIDE DEF Key
<1>4. ASSUME NEW e \in found PROVE Of(Key(<<e, 1>>)) = RowBucket(q, w, found, e)
  <2>1. PICK k : k = Key(<<e, 1>>)
    OBVIOUS
  <2>2. /\ k[1] = StartOf(q, w, e) /\ k[2] = Inserted[e].workload /\ k[3] = Inserted[e].pod
        /\ k[4] = Inserted[e].service
    BY <1>3, <2>1
  <2>3. e \in Ids
    BY <1>2
  <2>4. RecordOf([workload |-> k[2], pod |-> k[3], service |-> k[4]])
          = [workload |-> Records[e].workload, pod |-> Records[e].pod, service |-> Records[e].service]
    BY <2>2, <2>3, SameIdentityBack
  <2>5. ASSUME NEW f \in found
        PROVE  Key(<<f, 1>>) = k <=> /\ StartOf(q, w, f) = StartOf(q, w, e) /\ SameSeries(f, e)
                                     /\ Records[f].service = Records[e].service
    <3>1. f \in Ids
      BY <1>2
    <3>2. /\ Inserted[f].workload = Inserted[e].workload <=> Records[f].workload = Records[e].workload
          /\ Inserted[f].pod = Inserted[e].pod <=> Records[f].pod = Records[e].pod
          /\ Inserted[f].service = Inserted[e].service <=> Records[f].service = Records[e].service
      BY <2>3, <3>1, RowIdentity DEF None
    <3>3. /\ Key(<<f, 1>>) = <<StartOf(q, w, f), Inserted[f].workload, Inserted[f].pod, Inserted[f].service>>
          /\ k = <<StartOf(q, w, e), Inserted[e].workload, Inserted[e].pod, Inserted[e].service>>
      BY <1>3, <2>1
    <3> QED
      BY <3>2, <3>3 DEF SameSeries
  <2>6. PICK T : T = {f \in found : /\ StartOf(q, w, f) = StartOf(q, w, e) /\ SameSeries(f, e)
                                     /\ Records[f].service = Records[e].service}
    OBVIOUS
  <2>7. {row \in SampleRows(q) : Key(row) = k} = {<<f, 1>> : f \in T}
    BY <1>2, <2>5, <2>6
  <2>8. OfService(q, w, found, e) = {<<f, 1>> : f \in T}
    BY <2>6 DEF OfService
  <2>9. PICK start, series, samples : /\ start = k[1] /\ series = RecordOf([workload |-> k[2], pod |-> k[3], service |-> k[4]])
                                      /\ samples = OfService(q, w, found, e)
    OBVIOUS
  <2>10. Of(k) = Bucket(start, series, samples)
    BY <2>7, <2>8, <2>9
  <2> HIDE DEF Of
  <2>11. /\ start = StartOf(q, w, e) /\ series.workload = Records[e].workload
         /\ series.pod = Records[e].pod /\ series.service = Records[e].service
    BY <2>2, <2>4, <2>9
  <2>12. Bucket(start, series, samples) = Bucket(start, Records[e], samples)
    BY <2>11 DEF Bucket
  <2> QED
    BY <2>1, <2>9, <2>10, <2>11, <2>12 DEF RowBucket
<1>5. {Key(row) : row \in SampleRows(q)} = {Key(<<e, 1>>) : e \in found}
  BY <1>2
<1>6. Buckets(q) = {Of(Key(<<e, 1>>)) : e \in found}
  <2>1. PICK keys : keys = {Key(<<e, 1>>) : e \in found}
    OBVIOUS
  <2> HIDE DEF Of
  <2>2. Buckets(q) = {Of(k) : k \in keys}
    BY <1>1, <1>5, <2>1
  <2>3. \A k \in keys : \E e \in found : Of(k) = Of(Key(<<e, 1>>))
    BY <2>1
  <2>4. \A e \in found : Key(<<e, 1>>) \in keys
    BY <2>1
  <2>5. \A b \in Buckets(q) : \E e \in found : b = Of(Key(<<e, 1>>))
    BY <2>2, <2>3
  <2>6. \A e \in found : Of(Key(<<e, 1>>)) \in Buckets(q)
    BY <2>2, <2>4
  <2> QED
    BY <2>5, <2>6
<1> HIDE DEF Of
<1> QED
  BY <1>4, <1>6

\* What the map of the in-process store makes of them.
LEMMA BucketsInProcessAre ==
  ASSUME HistoryInv, NEW q, AsksWithin(q), NEW w \in Nat, w = BucketWidth(q), w > 0,
         NEW found, found = Matches("metrics", q, {q.name})
  PROVE  BucketsInProcess(q) = {SampleBucket(q, w, found, e) : e \in found}
<1> DEFINE Key(e) == <<(Records[e].time - q.start) \div w, Records[e].workload, Records[e].pod>>
           Of(k) == Bucket(q.start + k[1] * w, [workload |-> k[2], pod |-> k[3], service |-> None],
                           {<<e, 1>> : e \in {f \in found : Key(f) = k}})
<1>1. BucketsInProcess(q) = {Of(k) : k \in {Key(e) : e \in found}}
  BY DEF BucketsInProcess
<1>2. found \in SUBSET Ids /\ q.start \in Int
  BY SameMatches DEF AsksWithin
<1>3. ASSUME NEW e \in found PROVE Of(Key(e)) = SampleBucket(q, w, found, e)
  <2>1. PICK k : k = Key(e)
    OBVIOUS
  <2>2. /\ q.start + k[1] * w = StartOf(q, w, e)
        /\ k[2] = Records[e].workload /\ k[3] = Records[e].pod
    BY <2>1 DEF StartOf
  <2>3. \A f \in found : Key(f) = k <=> StartOf(q, w, f) = StartOf(q, w, e) /\ SameSeries(f, e)
    <3> TAKE f \in found
    <3>1. StartOf(q, w, f) = StartOf(q, w, e) <=>
            (Records[f].time - q.start) \div w = (Records[e].time - q.start) \div w
      BY <1>2, SameSlot
    <3> QED
      BY <2>1, <3>1 DEF SameSeries
  <2> HIDE DEF Key
  <2>4. PICK T : T = {f \in found : StartOf(q, w, f) = StartOf(q, w, e) /\ SameSeries(f, e)}
    OBVIOUS
  <2>5. {f \in found : Key(f) = k} = T
    BY <2>3, <2>4
  <2>6. Of(k) = Bucket(StartOf(q, w, e), [workload |-> Records[e].workload, pod |-> Records[e].pod, service |-> None],
                       {<<f, 1>> : f \in T})
    BY <2>2, <2>5
  <2>7. OfSeries(q, w, found, e) = {<<f, 1>> : f \in T}
    BY <2>4 DEF OfSeries
  <2> HIDE DEF Of
  <2> QED
    BY <2>1, <2>6, <2>7 DEF SampleBucket
<1> HIDE DEF Key, Of
<1> QED
  BY <1>1, <1>3

\* Starts that the finer answer shows whole are whole in the coarser one.
LEMMA WholeStarts ==
  ASSUME NEW C, IsFiniteSet(C), NEW P, NEW g \in Surjection(C, P),
         \A b \in C : b.start \in Int /\ g[b].start = b.start,
         NEW limit \in Nat, NEW here \in Limited(C, limit), NEW there \in Limited(P, limit),
         NEW s \in Int, Cardinality(here) < limit \/ \E c \in here : s < c.start
  PROVE  /\ \A c \in C : c.start = s => c \in here
         /\ \A p \in P : p.start = s => p \in there
<1> DEFINE Cs == {c \in C : c.start <= s}
           Ps == {p \in P : p.start <= s}
<1>1. /\ here \subseteq C /\ Cardinality(here) = Min2(limit, Cardinality(C))
      /\ \A shown \in here, cut \in C \ here : shown.start <= cut.start
      /\ there \subseteq P /\ Cardinality(there) = Min2(limit, Cardinality(P))
      /\ \A shown \in there, cut \in P \ there : shown.start <= cut.start
  BY DEF Limited
<1>2. /\ IsFiniteSet(P) /\ IsFiniteSet(here) /\ IsFiniteSet(there) /\ IsFiniteSet(Cs) /\ IsFiniteSet(Ps)
      /\ Cardinality(C) \in Nat /\ Cardinality(P) \in Nat /\ Cardinality(here) \in Nat
      /\ Cardinality(Cs) \in Nat /\ Cardinality(Ps) \in Nat
  <2>1. IsFiniteSet(P)
    BY FS_Surjection
  <2>2. /\ IsFiniteSet(here) /\ IsFiniteSet(there) /\ IsFiniteSet(Cs) /\ IsFiniteSet(Ps)
    BY <1>1, <2>1, FS_Subset
  <2> QED
    BY <2>1, <2>2, FS_CardinalityType
<1>3. \A p \in P : \E c \in C : g[c] = p
  BY DEF Surjection
<1>4. \A c \in C : g[c] \in P
  BY DEF Surjection
<1>5. Cs \subseteq here /\ Cardinality(Cs) < limit
  <2>1. CASE Cardinality(here) < limit
    <3>1. Cardinality(here) = Cardinality(C)
      BY <1>1, <1>2, <2>1 DEF Min2
    <3>2. here = C
      BY <1>1, <1>2, <3>1, FS_Subset
    <3>3. Cardinality(Cs) <= Cardinality(C)
      BY FS_Subset
    <3> QED
      BY <1>2, <2>1, <3>1, <3>2, <3>3
  <2>2. CASE \E c \in here : s < c.start
    <3>1. PICK c \in here : s < c.start
      BY <2>2
    <3>2. c \in C /\ c.start \in Int
      BY <1>1
    <3>3. ASSUME NEW b \in Cs PROVE b \in here \ {c}
      <4>1. b \in C /\ b.start \in Int /\ b.start <= s
        OBVIOUS
      <4>2. b # c
        BY <3>1, <3>2, <4>1
      <4>3. b \in here
        BY <1>1, <3>1, <3>2, <4>1
      <4> QED
        BY <4>2, <4>3
    <3>4. IsFiniteSet(here \ {c}) /\ Cardinality(here \ {c}) = Cardinality(here) - 1
      BY <1>2, <3>1, FS_RemoveElement
    <3>5. Cardinality(Cs) <= Cardinality(here \ {c})
      <4> HIDE DEF Cs
      <4> QED
        BY <3>3, <3>4, FS_Subset
    <3>6. Cardinality(here) <= limit
      BY <1>1, <1>2 DEF Min2
    <3> QED
      BY <1>2, <3>3, <3>4, <3>5, <3>6
  <2> QED
    BY <2>1, <2>2
<1>6. Cardinality(Ps) < limit
  <2> DEFINE h == [c \in Cs |-> g[c]]
  <2>1. \A c \in Cs : g[c] \in Ps
    BY <1>4
  <2>2. \A p \in Ps : \E c \in Cs : g[c] = p
    <3> TAKE p \in Ps
    <3>1. PICK c \in C : g[c] = p
      BY <1>3
    <3>2. c.start = p.start /\ p.start <= s
      BY <3>1
    <3> QED
      BY <3>1, <3>2
  <2> HIDE DEF Cs, Ps
  <2>3. h \in Surjection(Cs, Ps)
    BY <2>1, <2>2 DEF Surjection
  <2>4. Cardinality(Ps) <= Cardinality(Cs)
    BY <1>2, <2>3, FS_Surjection
  <2> QED
    BY <1>2, <1>5, <2>4
<1>7. ASSUME NEW p \in P, p.start = s, p \notin there PROVE FALSE
  <2>1. Cardinality(there) # Cardinality(P)
    BY <1>1, <1>2, <1>7, FS_Subset
  <2>2. Cardinality(there) = limit
    BY <1>1, <1>2, <2>1 DEF Min2
  <2>3. \A x \in there : x \in Ps
    BY <1>1, <1>7
  <2>4. Cardinality(there) <= Cardinality(Ps)
    <3> HIDE DEF Ps
    <3> QED
      BY <1>2, <2>3, FS_Subset
  <2> QED
    BY <1>2, <1>6, <2>2, <2>4
<1> QED
  BY <1>5, <1>7

LEMMA RowBucketIs ==
  ASSUME NEW q, NEW w, NEW found, NEW e
  PROVE  /\ RowBucket(q, w, found, e).start = StartOf(q, w, e)
         /\ RowBucket(q, w, found, e).workload = Records[e].workload
         /\ RowBucket(q, w, found, e).pod = Records[e].pod
         /\ RowBucket(q, w, found, e).samples = OfService(q, w, found, e)
         /\ SampleBucket(q, w, found, e).start = StartOf(q, w, e)
<1> QED
  BY DEF RowBucket, SampleBucket, Bucket

\* The buckets shown of the series of b, in one.
MergedOf(here, b) ==
  Bucket(b.start, [workload |-> b.workload, pod |-> b.pod, service |-> None],
         UNION {c.samples : c \in {x \in here :
                  x.start = b.start /\ x.workload = b.workload /\ x.pod = b.pod}})

\* A series is its services taken together.
LEMMA TogetherIs ==
  ASSUME NEW q, NEW w, NEW found, NEW here,
         here \subseteq {RowBucket(q, w, found, e) : e \in found},
         NEW e \in found,
         \A f \in found : StartOf(q, w, f) = StartOf(q, w, e) => RowBucket(q, w, found, f) \in here,
         NEW b, b = RowBucket(q, w, found, e)
  PROVE  MergedOf(here, b) = SampleBucket(q, w, found, e)
<1> DEFINE Group == {x \in here : x.start = b.start /\ x.workload = b.workload /\ x.pod = b.pod}
           U == UNION {c.samples : c \in Group}
           T == {g \in found : StartOf(q, w, g) = StartOf(q, w, e) /\ SameSeries(g, e)}
<1>1. b.start = StartOf(q, w, e) /\ b.workload = Records[e].workload /\ b.pod = Records[e].pod
  BY RowBucketIs
<1>2. ASSUME NEW g \in T PROVE <<g, 1>> \in U
  <2>1. PICK c : c = RowBucket(q, w, found, g)
    OBVIOUS
  <2>2. c.start = b.start /\ c.workload = b.workload /\ c.pod = b.pod
    BY <1>1, <2>1, RowBucketIs DEF SameSeries
  <2>3. c \in Group
    BY <2>1, <2>2
  <2>4. <<g, 1>> \in c.samples
    <3>1. <<g, 1>> \in OfService(q, w, found, g)
      BY DEF SameSeries, OfService
    <3> QED
      BY <2>1, <3>1, RowBucketIs
  <2> QED
    BY <2>3, <2>4
<1>3. ASSUME NEW u \in U PROVE \E g \in T : u = <<g, 1>>
  <2>1. PICK c \in Group : u \in c.samples
    OBVIOUS
  <2>2. PICK f \in found : c = RowBucket(q, w, found, f)
    BY <2>1
  <2>3. StartOf(q, w, f) = StartOf(q, w, e) /\ SameSeries(f, e)
    BY <1>1, <2>1, <2>2, RowBucketIs DEF SameSeries
  <2>4. PICK g \in found : u = <<g, 1>> /\ StartOf(q, w, g) = StartOf(q, w, f) /\ SameSeries(g, f)
    <3>1. u \in OfService(q, w, found, f)
      BY <2>1, <2>2, RowBucketIs
    <3> QED
      BY <3>1 DEF OfService
  <2> QED
    BY <2>3, <2>4 DEF SameSeries
<1>4. U = {<<g, 1>> : g \in T}
  <2> HIDE DEF U, T
  <2> QED
    BY <1>2, <1>3
<1>5. PICK samples : samples = U
  OBVIOUS
<1>6. MergedOf(here, b) = Bucket(b.start, [workload |-> b.workload, pod |-> b.pod, service |-> None], samples)
  BY <1>5 DEF MergedOf
<1>7. SampleBucket(q, w, found, e)
        = Bucket(StartOf(q, w, e), [workload |-> Records[e].workload, pod |-> Records[e].pod, service |-> None], samples)
  <2>1. samples = OfSeries(q, w, found, e)
    BY <1>4, <1>5 DEF OfSeries
  <2> HIDE DEF U
  <2> QED
    BY <2>1 DEF SampleBucket
<1> HIDE DEF U
<1> QED
  BY <1>1, <1>6, <1>7

LEMMA SameBuckets ==
  ASSUME HistoryInv, NEW q, AsksWithin(q), BucketWidth(q) \in Nat, BucketWidth(q) > 0, q.limit \in Nat
  PROVE  SameAggregates(q)
<1>1. PICK w \in Nat : w = BucketWidth(q) /\ w > 0
  OBVIOUS
<1>2. PICK found : found = Matches("metrics", q, {q.name})
  OBVIOUS
<1>3. found \in SUBSET Ids /\ q.start \in Int
  BY <1>2, SameMatches DEF AsksWithin
<1>4. PICK C, P : C = Buckets(q) /\ P = BucketsInProcess(q)
  OBVIOUS
<1>5. /\ C = {RowBucket(q, w, found, e) : e \in found}
      /\ P = {SampleBucket(q, w, found, e) : e \in found}
  BY <1>1, <1>2, <1>4, BucketsAre, BucketsInProcessAre
<1>6. \A e \in found : StartOf(q, w, e) \in Int
  BY <1>1, <1>3, StartIsInt
<1>7. IsFiniteSet(C)
  <2>1. IsFiniteSet(found)
    BY <1>3, RecordFacts, FS_Subset
  <2> DEFINE h == [e \in found |-> RowBucket(q, w, found, e)]
  <2>2. h \in Surjection(found, C)
    BY <1>5 DEF Surjection
  <2> QED
    BY <2>1, <2>2, FS_Surjection
<1> DEFINE g == [b \in C |-> CHOOSE p \in P : \E e \in found : b = RowBucket(q, w, found, e) /\ p = SampleBucket(q, w, found, e)]
<1>8. ASSUME NEW e \in found, NEW f \in found, RowBucket(q, w, found, e) = RowBucket(q, w, found, f)
      PROVE  SampleBucket(q, w, found, e) = SampleBucket(q, w, found, f)
  <2>1. StartOf(q, w, e) = StartOf(q, w, f) /\ SameSeries(e, f)
    BY <1>8, RowBucketIs DEF SameSeries
  <2>2. {x \in found : StartOf(q, w, x) = StartOf(q, w, e) /\ SameSeries(x, e)}
          = {x \in found : StartOf(q, w, x) = StartOf(q, w, f) /\ SameSeries(x, f)}
    BY <2>1 DEF SameSeries
  <2>3. OfSeries(q, w, found, e) = OfSeries(q, w, found, f)
    BY <2>2 DEF OfSeries
  <2> QED
    BY <2>1, <2>3 DEF SameSeries, SampleBucket
<1>9. \A e \in found : g[RowBucket(q, w, found, e)] = SampleBucket(q, w, found, e)
  <2> TAKE e \in found
  <2>1. PICK b, p : b = RowBucket(q, w, found, e) /\ p = SampleBucket(q, w, found, e) /\ b \in C /\ p \in P
    BY <1>5
  <2>2. \A x \in P : (\E f \in found : b = RowBucket(q, w, found, f) /\ x = SampleBucket(q, w, found, f)) <=> x = p
    BY <1>8, <2>1
  <2>3. g[b] = CHOOSE x \in P : \E f \in found : b = RowBucket(q, w, found, f) /\ x = SampleBucket(q, w, found, f)
    BY <2>1
  <2>4. g[b] = p
    BY <2>1, <2>2, <2>3
  <2> QED
    BY <2>1, <2>4
<1>10. g \in Surjection(C, P) /\ \A b \in C : b.start \in Int /\ g[b].start = b.start
  <2>1. DOMAIN g = C /\ g = [b \in C |-> g[b]]
    OBVIOUS
  <2> HIDE DEF g
  <2>2. \A b \in C : \E e \in found : b = RowBucket(q, w, found, e) /\ g[b] = SampleBucket(q, w, found, e)
    BY <1>5, <1>9
  <2>3. \A b \in C : g[b] \in P /\ b.start \in Int /\ g[b].start = b.start
    BY <1>5, <1>6, <2>2, RowBucketIs
  <2>4. \A p \in P : \E b \in C : g[b] = p
    BY <1>5, <1>9
  <2>5. g \in [C -> P]
    BY <2>1, <2>3
  <2> QED
    BY <2>3, <2>4, <2>5 DEF Surjection
<1> SUFFICES ASSUME NEW here \in Limited(C, q.limit), NEW there \in Limited(P, q.limit)
             PROVE  {b \in Together(here) : Cardinality(here) < q.limit \/ \E c \in here : b.start < c.start}
                      = {b \in there : Cardinality(here) < q.limit \/ \E c \in here : b.start < c.start}
  BY <1>4 DEF SameAggregates
<1> DEFINE Whole(s) == Cardinality(here) < q.limit \/ \E c \in here : s < c.start
<1>11. PICK G : G = g
  OBVIOUS
<1>12. G \in Surjection(C, P) /\ \A b \in C : b.start \in Int /\ G[b].start = b.start
  BY <1>10, <1>11
<1> HIDE DEF g
<1>13. here \subseteq C /\ there \subseteq P
  BY DEF Limited
<1>14. ASSUME NEW s \in Int, Whole(s)
       PROVE  /\ \A c \in C : c.start = s => c \in here
              /\ \A p \in P : p.start = s => p \in there
  BY <1>7, <1>12, <1>14, WholeStarts
<1>15. \A e \in found : Whole(StartOf(q, w, e)) =>
         /\ \A f \in found : StartOf(q, w, f) = StartOf(q, w, e) => RowBucket(q, w, found, f) \in here
         /\ SampleBucket(q, w, found, e) \in there
  <2> TAKE e \in found
  <2> HAVE Whole(StartOf(q, w, e))
  <2>1. PICK s \in Int : s = StartOf(q, w, e) /\ Whole(s)
    BY <1>6
  <2> HIDE DEF Whole
  <2> QED
    BY <1>5, <1>14, <2>1, RowBucketIs
<1>16. Together(here) = {MergedOf(here, b) : b \in here}
  BY DEF Together, MergedOf
<1> HIDE DEF Whole
<1>17. \A e \in found : Whole(StartOf(q, w, e)) =>
         MergedOf(here, RowBucket(q, w, found, e)) = SampleBucket(q, w, found, e)
  <2> TAKE e \in found
  <2> HAVE Whole(StartOf(q, w, e))
  <2>1. PICK b : b = RowBucket(q, w, found, e)
    OBVIOUS
  <2>2. here \subseteq {RowBucket(q, w, found, f) : f \in found}
    BY <1>5, <1>13
  <2>3. \A f \in found : StartOf(q, w, f) = StartOf(q, w, e) => RowBucket(q, w, found, f) \in here
    BY <1>15
  <2>4. MergedOf(here, b) = SampleBucket(q, w, found, e)
    BY <2>1, <2>2, <2>3, TogetherIs
  <2> QED
    BY <2>1, <2>4
<1>18. \A b : MergedOf(here, b).start = b.start
  BY DEF MergedOf, Bucket
<1>19. ASSUME NEW t \in Together(here), Whole(t.start) PROVE t \in there
  <2>1. PICK e \in found : RowBucket(q, w, found, e) \in here /\ t = MergedOf(here, RowBucket(q, w, found, e))
    BY <1>5, <1>13, <1>16
  <2>2. Whole(StartOf(q, w, e))
    BY <1>18, <1>19, <2>1, RowBucketIs
  <2> QED
    BY <1>15, <1>17, <2>1, <2>2
<1>20. ASSUME NEW p \in there, Whole(p.start) PROVE p \in Together(here)
  <2>1. PICK e \in found : p = SampleBucket(q, w, found, e)
    BY <1>5, <1>13
  <2>2. Whole(StartOf(q, w, e))
    BY <1>20, <2>1, RowBucketIs
  <2>3. RowBucket(q, w, found, e) \in here /\ MergedOf(here, RowBucket(q, w, found, e)) = p
    BY <1>15, <1>17, <2>1, <2>2
  <2> QED
    BY <1>16, <2>3
<1>21. {b \in Together(here) : Whole(b.start)} = {b \in there : Whole(b.start)}
  BY <1>19, <1>20
<1> QED
  BY <1>21 DEF Whole

LEMMA WidthIsPositive ==
  ASSUME NEW q \in Probes, ValidMetricQuery(q)
  PROVE  BucketWidth(q) \in Nat /\ BucketWidth(q) > 0
<1>1. q.start \in Int /\ q.end \in Int /\ q.bucket \in Nat
  BY HistoryAssumption DEF IsProbe
<1>2. MinBucket \in Nat /\ MinBucket > 0 /\ DefaultBuckets \in Nat /\ DefaultBuckets > 0
  BY HistoryAssumption
<1>3. BucketWidth(q) >= MinBucket
  BY DEF ValidMetricQuery
<1>4. PICK slices : slices = DefaultBuckets * MinBucket
  OBVIOUS
<1>5. slices \in Nat /\ slices > 0
  BY <1>2, <1>4
<1>6. PICK count : count = (q.end - q.start + slices - 1) \div slices
  OBVIOUS
<1>7. count \in Int
  <2>1. q.end - q.start + slices - 1 \in Int
    BY <1>1, <1>5
  <2> QED
    BY <1>5, <1>6, <2>1, SlotIsInt
<1>8. BucketWidth(q) = IF q.bucket = 0 THEN Max2(MinBucket, count * MinBucket) ELSE q.bucket
  BY <1>4, <1>6 DEF BucketWidth
<1>9. count * MinBucket \in Int
  BY <1>2, <1>7
<1>10. BucketWidth(q) \in Int
  BY <1>1, <1>2, <1>8, <1>9 DEF Max2
<1> QED
  BY <1>2, <1>3, <1>10

LEMMA SearchOfTimeline ==
  ASSUME NEW q \in Probes, q.start >= now - Retention
  PROVE  /\ AsksWithin(q) /\ q.limit \in Nat /\ q.limit > 0
         /\ AsksWithin(TimelineFilters(q, q.resource))
         /\ TimelineFilters(q, q.resource).limit = q.limit
         /\ TimelineFilters(q, q.resource).labels = q.labels
<1>1. /\ DOMAIN q = {"cluster", "workload", "pod", "labels", "name", "names", "bucket", "start",
                      "end", "resource", "limit"}
      /\ q.start \in Int /\ q.limit \in Nat /\ q.limit > 0
      /\ q.workload # "" /\ q.pod # "" /\ q.resource.name # ""
  BY HistoryAssumption DEF IsProbe
<1>2. PICK w, p : /\ w = (IF q.resource.scope = "workload" THEN q.resource.name ELSE None)
                  /\ p = (IF q.resource.scope = "pod" THEN q.resource.name ELSE None)
  OBVIOUS
<1>3. w # "" /\ p # ""
  BY <1>1, <1>2 DEF None
<1>4. TimelineFilters(q, q.resource) = [q EXCEPT !.workload = w, !.pod = p]
  BY <1>2 DEF TimelineFilters
<1>5. PICK r : r = TimelineFilters(q, q.resource)
  OBVIOUS
<1>6. r.workload = w /\ r.pod = p /\ r.limit = q.limit /\ r.labels = q.labels /\ r.start = q.start
  BY <1>1, <1>4, <1>5
<1> QED
  BY <1>1, <1>3, <1>5, <1>6 DEF AsksWithin

LEMMA SameSearch ==
  ASSUME HistoryInv, NEW q, AsksWithin(q), q.limit \in Nat, q.limit > 0, NEW table, NEW cursor
  PROVE  SearchPage(table, q, cursor) = SearchInProcess(table, q, cursor)
<1> QED
  BY SamePage DEF SearchPage, SearchInProcess

\* Samples that were not cut are all there.
LEMMA UncutIsAll ==
  ASSUME NEW ids \in SUBSET Ids, NEW limit \in Nat,
         NEW rows, rows = First(Sorted(ids, Later), limit + 1), ~(Len(rows) > limit)
  PROVE  {rows[i] : i \in 1..Min2(limit, Len(rows))} = ids /\ Cardinality(ids) <= limit
<1>1. PICK s : s = Sorted(ids, Later)
  OBVIOUS
<1>2. /\ s \in Seq(ids) /\ Len(s) = Cardinality(ids)
      /\ \A e \in ids : \E i \in 1..Len(s) : s[i] = e
  BY <1>1, LaterOrder DEF InOrder
<1>3. Len(s) \in Nat /\ \A i \in 1..Len(s) : s[i] \in ids
  BY <1>2, LenProperties
<1>4. Len(rows) = Min2(limit + 1, Len(s)) /\ \A i \in 1..Min2(limit + 1, Len(s)) : rows[i] = s[i]
  <2>1. limit + 1 \in Nat
    OBVIOUS
  <2> QED
    <3>1. PICK n \in Nat : n = limit + 1
      BY <2>1
    <3>2. rows = First(s, n)
      BY <1>1, <3>1
    <3>3. Len(First(s, n)) = Min2(n, Len(s)) /\ \A i \in 1..Min2(n, Len(s)) : First(s, n)[i] = s[i]
      BY <1>2, FirstFacts
    <3> QED
      BY <3>1, <3>2, <3>3
<1>5. Len(s) <= limit /\ Min2(limit + 1, Len(s)) = Len(s) /\ Min2(limit, Len(rows)) = Len(s)
  BY <1>3, <1>4 DEF Min2
<1>6. {rows[i] : i \in 1..Len(s)} = ids
  BY <1>2, <1>3, <1>4, <1>5
<1> QED
  BY <1>2, <1>5, <1>6

LEMMA SameMetrics ==
  ASSUME HistoryInv, NEW q, NEW search, AsksWithin(search), search.limit = q.limit,
         q.limit \in Nat, q.limit > 0, search = TimelineFilters(q, q.resource),
         ~Timeline(q).cut.metrics
  PROVE  Timeline(q).metrics = TimelineInProcess(q).metrics /\ ~TimelineInProcess(q).cut.metrics
<1>1. PICK samples : samples = [name \in q.names |-> Matches("metrics", search, {name})]
  OBVIOUS
<1>2. /\ TimelineInProcess(q).metrics = UNION {samples[name] : name \in q.names}
      /\ TimelineInProcess(q).cut.metrics <=> \E name \in q.names : Cardinality(samples[name]) > q.limit
  BY <1>1 DEF TimelineInProcess
<1>3. PICK rows : rows = IF q.names = {} THEN <<>> ELSE SelectRows("metrics", search, q.names, NoCursor)
  OBVIOUS
<1>4. /\ Timeline(q).metrics = {rows[i] : i \in 1..Min2(q.limit, Len(rows))}
      /\ Timeline(q).cut.metrics <=> Len(rows) > q.limit
  BY <1>3 DEF Timeline
<1>5. CASE q.names = {}
  <2>1. rows = <<>> /\ Len(rows) = 0 /\ Min2(q.limit, Len(rows)) = 0
    BY <1>3, <1>5 DEF Min2
  <2>2. Timeline(q).metrics = {}
    BY <1>4, <2>1
  <2> QED
    BY <1>2, <1>5, <2>2
<1>6. CASE q.names # {}
  <2>1. PICK ids : ids = Found("metrics", search, q.names, NoCursor)
    OBVIOUS
  <2>2. ids \in SUBSET Ids /\ rows = First(Sorted(ids, Later), q.limit + 1)
    <3>1. search.limit \in Nat /\ search.limit > 0
      OBVIOUS
    <3>2. SelectRows("metrics", search, q.names, NoCursor) = First(Sorted(ids, Later), search.limit + 1)
      BY <2>1, <3>1, SelectFacts
    <3> QED
      BY <1>3, <1>6, <2>1, <3>2, FoundIds
  <2>3. Timeline(q).metrics = ids /\ Cardinality(ids) <= q.limit
    BY <1>4, <2>2, UncutIsAll
  <2>4. \A e : e \in ids <=> e \in Ids /\ copies[e] > 0 /\ Chosen(e, "metrics", search, q.names)
    <3>1. HistoryTypeOK
      BY DEF HistoryInv
    <3>2. \A e : After(e, NoCursor)
      BY DEF After, Beyond
    <3> QED
      BY <2>1, <3>1, <3>2, FoundMeans
  <2>5. \A name \in q.names : \A e : e \in samples[name] <=>
          e \in Ids /\ copies[e] > 0 /\ Chosen(e, "metrics", search, {name})
    BY <1>1, SameMatches
  <2>6. \A e : Chosen(e, "metrics", search, q.names) <=>
          \E name \in q.names : Chosen(e, "metrics", search, {name})
    BY <1>6 DEF Chosen
  <2>7. ids = UNION {samples[name] : name \in q.names}
    BY <2>4, <2>5, <2>6
  <2>8. \A name \in q.names : Cardinality(samples[name]) <= q.limit /\ Cardinality(samples[name]) \in Nat
    <3> TAKE name \in q.names
    <3>1. IsFiniteSet(ids)
      BY <2>2, RecordFacts, FS_Subset
    <3>2. samples[name] \in SUBSET ids
      BY <2>7
    <3>3. Cardinality(samples[name]) <= Cardinality(ids) /\ IsFiniteSet(samples[name])
      BY <3>1, <3>2, FS_Subset
    <3>4. Cardinality(samples[name]) \in Nat /\ Cardinality(ids) \in Nat
      BY <3>1, <3>3, FS_CardinalityType
    <3> QED
      BY <2>3, <3>3, <3>4
  <2> QED
    BY <1>2, <2>3, <2>7, <2>8
<1> QED
  BY <1>5, <1>6

\* The statements of store.ts and the filters of in-memory-store.ts answer a search,
\* an aggregation and a timeline alike, within retention.
THEOREM StoresAgree == HistorySpec => []AdaptersAgree
<1>1. ASSUME HistoryInv PROVE AdaptersAgree
  <2> SUFFICES ASSUME NEW q \in Probes, q.start >= now - Retention, ValidMetricQuery(q)
               PROVE  /\ SearchPage("logs", q, NoCursor) = SearchInProcess("logs", q, NoCursor)
                      /\ SearchPage("logs", q, SearchPage("logs", q, NoCursor).next)
                           = SearchInProcess("logs", q, SearchPage("logs", q, NoCursor).next)
                      /\ SameAggregates(q)
                      /\ Timeline(q).logs = TimelineInProcess(q).logs
                      /\ Timeline(q).events = TimelineInProcess(q).events
                      /\ ~Timeline(q).cut.metrics =>
                           /\ Timeline(q).metrics = TimelineInProcess(q).metrics
                           /\ ~TimelineInProcess(q).cut.metrics
    BY DEF AdaptersAgree
  <2>1. PICK search : search = TimelineFilters(q, q.resource)
    OBVIOUS
  <2>2. /\ AsksWithin(q) /\ q.limit \in Nat /\ q.limit > 0
        /\ AsksWithin(search) /\ search.limit = q.limit
    BY <2>1, SearchOfTimeline
  <2>3. \A cursor : SearchPage("logs", q, cursor) = SearchInProcess("logs", q, cursor)
    BY <1>1, <2>2, SameSearch
  <2>4. SameAggregates(q)
    BY <1>1, <2>2, WidthIsPositive, SameBuckets
  <2>5. search.limit \in Nat /\ search.limit > 0
    BY <2>2
  <2>6. Timeline(q).logs = TimelineInProcess(q).logs
    <3>1. SearchPage("logs", search, NoCursor) = SearchInProcess("logs", search, NoCursor)
      BY <1>1, <2>2, <2>5, SameSearch
    <3> QED
      BY <2>1, <3>1 DEF Timeline, TimelineInProcess
  <2>7. Timeline(q).events = TimelineInProcess(q).events
    <3>1. PageOf(SelectRows("events", search, {}, NoCursor), q.limit)
            = Paginate(Matches("events", search, {}), q.limit, NoCursor)
      BY <1>1, <2>2, <2>5, SamePage
    <3> QED
      BY <2>1, <3>1 DEF Timeline, TimelineInProcess
  <2>8. ~Timeline(q).cut.metrics =>
          Timeline(q).metrics = TimelineInProcess(q).metrics /\ ~TimelineInProcess(q).cut.metrics
    BY <1>1, <2>1, <2>2, SameMetrics
  <2> QED
    BY <2>3, <2>4, <2>6, <2>7, <2>8
<1> QED
  BY <1>1, HistoryHolds, PTL

(* The evidence of an incident *)

IncidentOf(first, last) ==
  [cluster |-> Records[1].cluster, first |-> first, last |-> last, resolved |-> 0, resources |-> <<>>]

\* The query that the evidence of such an incident makes of a table.
EvidenceQuery(first, last, lead, trail) ==
  LET window == EvidenceWindow(IncidentOf(first, last), lead, trail)
  IN  [cluster |-> Records[1].cluster, workload |-> None, pod |-> None,
       labels |-> {}, names |-> {"memory", "cpu"}, resource |-> [scope |-> "namespace", name |-> "default"],
       start |-> window.start, end |-> window.end, limit |-> 1]

LEMMA WindowFacts ==
  ASSUME NEW first \in Nat, NEW last \in Nat, first <= last, NEW lead \in 0..1, NEW trail \in 1..MaxRange
  PROVE  LET window == EvidenceWindow(IncidentOf(first, last), lead, trail)
         IN  /\ window.start \in Int /\ window.end = last + trail
             /\ window.end - window.start <= MaxRange
             /\ last + trail - (first - lead) <= MaxRange => window.start = first - lead
             /\ window.start <= last /\ last < window.end
<1>1. MaxRange \in Nat /\ MaxRange > 0
  BY HistoryAssumption
<1>2. trail \in Nat /\ trail > 0 /\ trail <= MaxRange /\ lead \in Nat
  BY <1>1
<1>3. PICK window : window = EvidenceWindow(IncidentOf(first, last), lead, trail)
  OBVIOUS
<1>4. PICK incident : incident = IncidentOf(first, last)
  OBVIOUS
<1>5. incident.first = first /\ incident.last = last /\ incident.resolved = 0
  BY <1>4 DEF IncidentOf
<1>6. PICK end, start : end = last + trail /\ start = Max2(first - lead, end - MaxRange)
  OBVIOUS
<1>7. window = [start |-> Min2(start, end - 1), end |-> end]
  BY <1>3, <1>4, <1>5, <1>6 DEF EvidenceWindow
<1>8. window.start = Min2(start, end - 1) /\ window.end = end
  BY <1>7
<1> QED
  BY <1>1, <1>2, <1>3, <1>6, <1>8 DEF Min2, Max2

LEMMA EvidenceFacts ==
  ASSUME NEW first, NEW last, NEW lead, NEW trail
  PROVE  LET found == Evidence(IncidentOf(first, last), lead, trail, 1)
             q == EvidenceQuery(first, last, lead, trail)
         IN  /\ found.window = EvidenceWindow(IncidentOf(first, last), lead, trail)
             /\ found.logs = PageOf(SelectRows("logs", q, {"error"}, NoCursor), 1)
             /\ found.events = PageOf(SelectRows("events", q, {"Warning"}, NoCursor), 1)
<1>1. PICK incident, window : /\ incident = IncidentOf(first, last)
                              /\ window = EvidenceWindow(incident, lead, trail)
  OBVIOUS
<1>2. incident.cluster = Records[1].cluster /\ incident.resources = <<>>
  BY <1>1 DEF IncidentOf
<1>3. PICK primary : primary = [scope |-> "namespace", name |-> "default"]
  OBVIOUS
<1>4. PrimaryResource(incident) = primary
  <2>1. {i \in DOMAIN incident.resources : incident.resources[i].name # None} = {}
    BY <1>2
  <2> QED
    BY <1>3, <2>1 DEF PrimaryResource
<1>5. ParseLimit(1) = 1
  BY HistoryAssumption DEF ParseLimit, Min2
<1>6. PICK q : q = EvidenceQuery(first, last, lead, trail)
  OBVIOUS
<1>7. q = [cluster |-> incident.cluster, workload |-> None, pod |-> None,
           labels |-> {}, names |-> {"memory", "cpu"}, resource |-> primary,
           start |-> window.start, end |-> window.end, limit |-> ParseLimit(1)]
  BY <1>1, <1>2, <1>3, <1>5, <1>6 DEF EvidenceQuery
<1>8. q.limit = 1 /\ q.workload = None /\ [q EXCEPT !.workload = None] = q
  BY <1>5, <1>7
<1>9. (IF primary.scope = "workload" THEN primary.name ELSE None) = None
  BY <1>3
<1>10. Evidence(incident, lead, trail, 1) =
         [window |-> window,
          logs   |-> PageOf(SelectRows("logs", [q EXCEPT !.workload = None], {"error"}, NoCursor), q.limit),
          events |-> PageOf(SelectRows("events", q, {"Warning"}, NoCursor), q.limit),
          metrics |-> Timeline(q).metrics]
  BY <1>1, <1>4, <1>7, <1>9 DEF Evidence
<1>11. Evidence(incident, lead, trail, 1) =
         [window |-> window,
          logs   |-> PageOf(SelectRows("logs", q, {"error"}, NoCursor), 1),
          events |-> PageOf(SelectRows("events", q, {"Warning"}, NoCursor), 1),
          metrics |-> Timeline(q).metrics]
  BY <1>8, <1>10
<1> QED
  BY <1>1, <1>6, <1>11

\* A page of one shows the newest there is.
LEMMA OneIsNewest ==
  ASSUME NEW S \in SUBSET Ids, NEW e \in S, NEW page, page = PageOfIds(Sorted(S, Later), 1)
  PROVE  /\ Len(page.items) = 1 /\ DOMAIN page.items = {1}
         /\ page.items = <<e>> \/ CompareDescending(page.items[1], e)
<1>1. PICK s : s = Sorted(S, Later)
  OBVIOUS
<1>2. /\ s \in Seq(S) /\ \A i, j \in 1..Len(s) : i < j => Later(s[i], s[j])
  BY <1>1, LaterOrder DEF InOrder
<1>3. PICK i \in 1..Len(s) : s[i] = e
  BY <1>1, LaterOrder DEF InOrder
<1>4. Len(s) \in Nat /\ Len(s) >= 1 /\ 1 \in 1..Len(s)
  BY <1>2, <1>3, LenProperties
<1>5. page.items = First(s, 1)
  BY <1>1 DEF PageOfIds
<1>6. Min2(1, Len(s)) = 1
  <2>1. PICK n \in Nat : n = Len(s) /\ n >= 1
    BY <1>4
  <2>2. Min2(1, n) = 1
    BY <2>1 DEF Min2
  <2> QED
    BY <2>1, <2>2
<1>7. page.items \in Seq(S) /\ Len(page.items) = 1 /\ page.items[1] = s[1]
  <2>1. /\ First(s, 1) \in Seq(S) /\ Len(First(s, 1)) = Min2(1, Len(s))
        /\ \A k \in 1..Min2(1, Len(s)) : First(s, 1)[k] = s[k]
    BY <1>2, FirstFacts
  <2>2. 1 \in 1..1
    OBVIOUS
  <2> QED
    BY <1>5, <1>6, <2>1, <2>2
<1>8. DOMAIN page.items = {1}
  BY <1>7, LenProperties
<1>9. CASE i = 1
  <2>1. page.items = <<e>>
    BY <1>3, <1>7, <1>9
  <2> QED
    BY <1>7, <1>8, <2>1
<1>10. CASE i # 1
  <2>1. Later(s[1], e)
    BY <1>2, <1>3, <1>4, <1>10
  <2>2. s[1] \in Ids /\ e \in Ids
    BY <1>2, <1>4, LenProperties
  <2>3. CompareDescending(page.items[1], e)
    BY <1>7, <2>1, <2>2, RecordFacts DEF Later, CompareDescending
  <2> QED
    BY <1>7, <1>8, <2>3
<1> QED
  BY <1>9, <1>10

\* What is stored of the last instant is found by the queries of the evidence.
LEMMA EndIsFound ==
  ASSUME HistoryTypeOK, NEW first \in Nat, NEW last \in Nat, first <= last,
         NEW lead \in 0..1, NEW trail \in 1..MaxRange,
         NEW e \in Ids, copies[e] > 0, Records[e].cluster = Records[1].cluster, Records[e].time = last
  PROVE  e \in Found(Records[e].table, EvidenceQuery(first, last, lead, trail), {Records[e].label}, NoCursor)
<1>1. PICK q, window : /\ q = EvidenceQuery(first, last, lead, trail)
                       /\ window = EvidenceWindow(IncidentOf(first, last), lead, trail)
  OBVIOUS
<1>2. /\ q.cluster = Records[1].cluster /\ q.workload = None /\ q.pod = None
      /\ q.start = window.start /\ q.end = window.end
  BY <1>1 DEF EvidenceQuery
<1>3. window.start <= last /\ last < window.end /\ window.start \in Int /\ window.end \in Int
  BY <1>1, WindowFacts
<1>4. Chosen(e, Records[e].table, q, {Records[e].label})
  BY <1>2, <1>3, RecordFacts DEF Chosen, Identity
<1>5. After(e, NoCursor)
  BY DEF After, Beyond
<1> QED
  BY <1>1, <1>4, <1>5, FoundMeans

\* The window that incident-evidence.controller.ts computes always holds the last
\* activity, and the page it reads shows it unless something newer fills it.
THEOREM EvidenceReachesTheEnd == HistorySpec => []EvidenceShowsTheEnd
<1>1. ASSUME HistoryInv PROVE EvidenceShowsTheEnd
  <2> SUFFICES ASSUME NEW first \in 0..now, NEW last \in 0..now, NEW lead \in 0..1, NEW trail \in 1..MaxRange
               PROVE  LET incident == [cluster |-> Records[1].cluster, first |-> first, last |-> last,
                                       resolved |-> 0, resources |-> <<>>]
                          found == Evidence(incident, lead, trail, 1)
                          AtTheEnd(table, label) ==
                            {e \in Ids : /\ copies[e] > 0
                                         /\ Records[e].cluster = incident.cluster
                                         /\ Records[e].time = last
                                         /\ Records[e].table = table /\ Records[e].label = label}
                          Newer(e, items) == \A i \in DOMAIN items : CompareDescending(items[i], e)
                      IN  first <= last =>
                            /\ found.window.end - found.window.start <= MaxRange
                            /\ last + trail - (first - lead) <= MaxRange =>
                                 found.window.start = first - lead
                            /\ \A e \in AtTheEnd("logs", "error") :
                                 found.logs.items # <<e>> =>
                                   Len(found.logs.items) = 1 /\ Newer(e, found.logs.items)
                            /\ \A e \in AtTheEnd("events", "Warning") :
                                 Len(found.events.items) = 1
    BY Zenon DEF EvidenceShowsTheEnd
  <2> DEFINE incident == [cluster |-> Records[1].cluster, first |-> first, last |-> last,
                          resolved |-> 0, resources |-> <<>>]
             found == Evidence(incident, lead, trail, 1)
  <2>1. incident = IncidentOf(first, last) /\ found = Evidence(incident, lead, trail, 1)
    BY DEF IncidentOf
  <2> HIDE DEF incident, found
  <2>2. first <= last =>
          /\ found.window.end - found.window.start <= MaxRange
          /\ last + trail - (first - lead) <= MaxRange => found.window.start = first - lead
          /\ \A e \in {e \in Ids : /\ copies[e] > 0
                                    /\ Records[e].cluster = incident.cluster
                                    /\ Records[e].time = last
                                    /\ Records[e].table = "logs" /\ Records[e].label = "error"} :
               found.logs.items # <<e>> =>
                 Len(found.logs.items) = 1
                   /\ \A i \in DOMAIN found.logs.items : CompareDescending(found.logs.items[i], e)
          /\ \A e \in {e \in Ids : /\ copies[e] > 0
                                    /\ Records[e].cluster = incident.cluster
                                    /\ Records[e].time = last
                                    /\ Records[e].table = "events" /\ Records[e].label = "Warning"} :
               Len(found.events.items) = 1
    <3> HAVE first <= last
    <3>1. HistoryTypeOK
      BY <1>1, <2>1 DEF HistoryInv
    <3>2. first \in Nat /\ last \in Nat
      BY <1>1, <2>1, <3>1 DEF HistoryTypeOK
    <3>3. PICK q : q = EvidenceQuery(first, last, lead, trail)
      OBVIOUS
    <3>4. /\ found.window = EvidenceWindow(IncidentOf(first, last), lead, trail)
          /\ found.logs = PageOf(SelectRows("logs", q, {"error"}, NoCursor), 1)
          /\ found.events = PageOf(SelectRows("events", q, {"Warning"}, NoCursor), 1)
      BY <1>1, <2>1, <3>3, EvidenceFacts
    <3>5. q.limit = 1 /\ incident.cluster = Records[1].cluster
      BY <1>1, <2>1, <3>3 DEF EvidenceQuery, IncidentOf
    <3>6. \A table, labels : PageOf(SelectRows(table, q, labels, NoCursor), 1)
                               = PageOfIds(Sorted(Found(table, q, labels, NoCursor), Later), 1)
      BY <3>5, SelectFacts
    <3>7. ASSUME NEW e \in Ids, copies[e] > 0, Records[e].cluster = incident.cluster, Records[e].time = last
          PROVE  e \in Found(Records[e].table, q, {Records[e].label}, NoCursor)
      BY <1>1, <2>1, <3>1, <3>2, <3>3, <3>5, <3>7, EndIsFound
    <3>8. ASSUME NEW e \in Ids, copies[e] > 0, Records[e].cluster = incident.cluster, Records[e].time = last,
                 Records[e].table = "logs", Records[e].label = "error"
          PROVE  \/ found.logs.items = <<e>>
                 \/ /\ Len(found.logs.items) = 1
                    /\ \A i \in DOMAIN found.logs.items : CompareDescending(found.logs.items[i], e)
      <4>1. PICK S : S = Found("logs", q, {"error"}, NoCursor)
        OBVIOUS
      <4>2. e \in S /\ S \in SUBSET Ids /\ found.logs = PageOfIds(Sorted(S, Later), 1)
        BY <3>4, <3>6, <3>7, <3>8, <4>1, FoundIds
      <4>3. /\ Len(found.logs.items) = 1 /\ DOMAIN found.logs.items = {1}
            /\ found.logs.items = <<e>> \/ CompareDescending(found.logs.items[1], e)
        BY <4>2, OneIsNewest
      <4> QED
        BY <4>3
    <3>9. ASSUME NEW e \in Ids, copies[e] > 0, Records[e].cluster = incident.cluster, Records[e].time = last,
                 Records[e].table = "events", Records[e].label = "Warning"
          PROVE  Len(found.events.items) = 1
      <4>1. PICK S : S = Found("events", q, {"Warning"}, NoCursor)
        OBVIOUS
      <4>2. e \in S /\ S \in SUBSET Ids /\ found.events = PageOfIds(Sorted(S, Later), 1)
        BY <3>4, <3>6, <3>7, <3>9, <4>1, FoundIds
      <4> QED
        BY <4>2, OneIsNewest
    <3>10. /\ found.window.end - found.window.start <= MaxRange
           /\ last + trail - (first - lead) <= MaxRange => found.window.start = first - lead
      <4>1. PICK window : window = EvidenceWindow(IncidentOf(first, last), lead, trail)
        OBVIOUS
      <4>2. /\ window.end - window.start <= MaxRange
            /\ last + trail - (first - lead) <= MaxRange => window.start = first - lead
        BY <1>1, <2>1, <3>2, <4>1, WindowFacts
      <4> QED
        BY <3>4, <4>1, <4>2
    <3> QED
      BY <3>8, <3>9, <3>10
  <2> QED
    BY <2>2, Zenon DEF incident, found
<1> QED
  BY <1>1, HistoryHolds, PTL

(* Ranges *)

LEMMA LeastNatural ==
  ASSUME NEW T, T \subseteq Nat, T # {}
  PROVE  \E n \in T : \A m \in T : n <= m
<1>1. IsWellFoundedOn(OpToRel(<, Nat), Nat)
  BY NatLessThanWellFounded
<1>2. PICK n \in T : \A m \in T : <<m, n>> \notin OpToRel(<, Nat)
  BY <1>1, WFMin
<1>3. \A m \in T : ~(m < n)
  BY <1>2 DEF OpToRel
<1> QED
  BY <1>3

LEMMA Extremes ==
  ASSUME NEW T, T # {}, NEW top \in Nat, T \subseteq 0..top
  PROVE  /\ Min(T) \in T /\ \A x \in T : Min(T) <= x
         /\ Max(T) \in T /\ \A x \in T : Max(T) >= x
<1>0. T \subseteq Nat /\ \A x \in T : x \in Nat /\ x <= top
  OBVIOUS
<1>1. \E x \in T : \A y \in T : x <= y
  BY <1>0, LeastNatural
<1>2. \E x \in T : \A y \in T : x >= y
  <2> DEFINE U == {top - x : x \in T}
  <2>0. \A x \in T : top - x \in Nat
    BY <1>0
  <2>1. U \subseteq Nat /\ U # {}
    BY <2>0
  <2>2. \A x \in T : top - x \in U /\ x \in Nat
    OBVIOUS
  <2>3. \A u \in U : \E x \in T : u = top - x
    OBVIOUS
  <2> HIDE DEF U
  <2>4. PICK u \in U : \A v \in U : u <= v
    BY <2>1, LeastNatural
  <2>5. PICK x \in T : u = top - x
    BY <2>3
  <2>6. ASSUME NEW y \in T PROVE x >= y
    <3>1. top - x <= top - y /\ x \in Nat /\ y \in Nat
      BY <2>2, <2>4, <2>5
    <3> QED
      BY <3>1
  <2> QED
    BY <2>6
<1>3. PICK a : a = CHOOSE x \in T : \A y \in T : x <= y
  OBVIOUS
<1>4. PICK b : b = CHOOSE x \in T : \A y \in T : x >= y
  OBVIOUS
<1>5. a \in T /\ \A y \in T : a <= y
  BY <1>1, <1>3, Zenon
<1>6. b \in T /\ \A y \in T : b >= y
  BY <1>2, <1>4, Zenon
<1> QED
  BY <1>3, <1>4, <1>5, <1>6, Zenon DEF Min, Max

LEMMA MaxIs ==
  ASSUME NEW T, NEW k \in T, k \in Nat, T \subseteq 1..k
  PROVE  Max(T) = k
<1>1. \E x \in T : \A y \in T : x >= y
  OBVIOUS
<1>2. PICK b : b = CHOOSE x \in T : \A y \in T : x >= y
  OBVIOUS
<1>3. b \in T /\ \A y \in T : b >= y
  BY <1>1, <1>2, Zenon
<1>4. b = k
  BY <1>3
<1> QED
  BY <1>2, <1>4, Zenon DEF Max

\* The recursive function of FoldLeft, as far as the k-th range.
Folds(f, ordered, k) ==
  f = [s \in SUBSET (1..k) |-> IF s = {} THEN <<>> ELSE Extend(f[s \ {Max(s)}], ordered[Max(s)])]

LEMMA FoldsExists ==
  ASSUME NEW ordered, NEW n \in Nat
  PROVE  \E f : Folds(f, ordered, n)
<1> DEFINE Bad == {k \in Nat : ~ \E f : Folds(f, ordered, k)}
<1>1. SUFFICES ASSUME Bad # {} PROVE FALSE
  OBVIOUS
<1>2. PICK k \in Bad : \A m \in Bad : k <= m
  BY <1>1, LeastNatural
<1>3. k # 0
  <2>1. SUBSET (1..0) = {{}}
    OBVIOUS
  <2> DEFINE f == [s \in SUBSET (1..0) |-> <<>>]
  <2>2. [s \in SUBSET (1..0) |-> IF s = {} THEN <<>> ELSE Extend(f[s \ {Max(s)}], ordered[Max(s)])] = f
    BY <2>1
  <2>3. Folds(f, ordered, 0)
    BY <2>2 DEF Folds
  <2> QED
    BY <2>3
<1>4. k - 1 \in Nat /\ k - 1 \notin Bad
  BY <1>2, <1>3
<1>5. PICK g : Folds(g, ordered, k - 1)
  BY <1>4
<1> DEFINE h == [s \in SUBSET (1..k) |->
                   IF k \in s THEN Extend(g[s \ {k}], ordered[k]) ELSE g[s]]
<1>6. \A s \in SUBSET (1..k) : s \ {k} \in SUBSET (1..(k - 1))
  BY <1>4
<1>7. ASSUME NEW s \in SUBSET (1..k)
      PROVE  h[s] = IF s = {} THEN <<>> ELSE Extend(h[s \ {Max(s)}], ordered[Max(s)])
  <2>1. CASE k \in s
    <3>1. Max(s) = k
      BY <2>1, MaxIs
    <3>2. h[s \ {k}] = g[s \ {k}]
      OBVIOUS
    <3> QED
      BY <2>1, <3>1, <3>2
  <2>2. CASE k \notin s
    <3>1. s \in SUBSET (1..(k - 1)) /\ s \ {Max(s)} \in SUBSET (1..k) /\ k \notin s \ {Max(s)}
      BY <1>6, <2>2
    <3>2. h[s] = g[s] /\ h[s \ {Max(s)}] = g[s \ {Max(s)}]
      BY <2>2, <3>1
    <3>3. g[s] = IF s = {} THEN <<>> ELSE Extend(g[s \ {Max(s)}], ordered[Max(s)])
      BY <1>5, <3>1 DEF Folds
    <3> QED
      BY <3>2, <3>3
  <2> QED
    BY <2>1, <2>2
<1>8. Folds(h, ordered, k)
  <2>1. h = [s \in SUBSET (1..k) |-> h[s]]
    OBVIOUS
  <2> HIDE DEF h
  <2>2. h = [s \in SUBSET (1..k) |-> IF s = {} THEN <<>> ELSE Extend(h[s \ {Max(s)}], ordered[Max(s)])]
    BY <1>7, <2>1
  <2> QED
    BY <2>2 DEF Folds
<1> QED
  BY <1>2, <1>8

LEMMA FoldLeftIs ==
  ASSUME NEW ordered, NEW n \in Nat, DOMAIN ordered = 1..n
  PROVE  \E f : Folds(f, ordered, n) /\ FoldLeft(Extend, <<>>, ordered) = f[1..n]
<1>1. PICK f : f = CHOOSE g : Folds(g, ordered, n)
  OBVIOUS
<1>2. Folds(f, ordered, n)
  BY <1>1, FoldsExists, Zenon
<1>3. f = CHOOSE g : g = [s \in SUBSET (1..n) |->
                            IF s = {} THEN <<>> ELSE Extend(g[s \ {Max(s)}], ordered[Max(s)])]
  BY <1>1, Zenon DEF Folds
<1>4. FoldLeft(Extend, <<>>, ordered) =
        LET iter[s \in SUBSET (DOMAIN ordered)] ==
              IF s = {} THEN <<>> ELSE Extend(iter[s \ {Max(s)}], ordered[Max(s)])
        IN  iter[DOMAIN ordered]
  BY Zenon DEF FoldLeft, MapThenFoldSet
<1>5. FoldLeft(Extend, <<>>, ordered) = f[1..n]
  BY <1>3, <1>4, Zenon
<1> QED
  BY <1>2, <1>5

Ranges == [start : Int, end : Int]

\* What the first k ranges have been merged to: stretches apart from each other, that
\* begin where one of the ranges does and cover them all.
Merging(m, ordered, k) ==
  /\ m \in Seq(Ranges)
  /\ \A j \in 1..Len(m) : m[j].start < m[j].end
  /\ \A i, j \in 1..Len(m) : i < j => m[i].start < m[j].start
  /\ \A j \in 1..Len(m) : \E i \in 1..k : m[j].start = ordered[i].start
  /\ \A i \in 1..k : \E j \in 1..Len(m) : m[j].start <= ordered[i].start /\ ordered[i].end <= m[j].end

LEMMA ExtendFacts ==
  ASSUME NEW m \in Seq(Ranges), NEW r \in Ranges
  PROVE  \/ /\ m # <<>> /\ r.start <= m[Len(m)].end
            /\ Extend(m, r) \in Seq(Ranges) /\ Len(Extend(m, r)) = Len(m)
            /\ \A j \in 1..Len(m) : j # Len(m) => Extend(m, r)[j] = m[j]
            /\ Extend(m, r)[Len(m)].start = m[Len(m)].start
            /\ Extend(m, r)[Len(m)].end = Max2(m[Len(m)].end, r.end)
         \/ /\ m = <<>> \/ ~(r.start <= m[Len(m)].end)
            /\ Extend(m, r) \in Seq(Ranges) /\ Len(Extend(m, r)) = Len(m) + 1
            /\ \A j \in 1..Len(m) : Extend(m, r)[j] = m[j]
            /\ Extend(m, r)[Len(m) + 1] = r
<1>1. PICK n : n = Len(m)
  OBVIOUS
<1>2. n \in Nat /\ m \in [1..n -> Ranges] /\ DOMAIN m = 1..n
  BY <1>1, LenProperties
<1>3. CASE m # <<>> /\ r.start <= m[n].end
  <2>1. n \in 1..n /\ m[n] \in Ranges
    <3>1. n # 0
      BY <1>1, <1>3, EmptySeq
    <3> QED
      BY <1>2, <3>1
  <2>2. PICK last : last = m[n]
    OBVIOUS
  <2>3. last \in Ranges /\ last.end \in Int /\ last.start \in Int /\ r.end \in Int
    BY <2>1, <2>2 DEF Ranges
  <2>4. PICK new : new = [last EXCEPT !.end = Max2(last.end, r.end)]
    OBVIOUS
  <2>5. new \in Ranges /\ new.start = last.start /\ new.end = Max2(last.end, r.end)
    BY <2>3, <2>4 DEF Ranges, Max2
  <2>6. PICK e : e = Extend(m, r)
    OBVIOUS
  <2>7. e = [m EXCEPT ![n] = new]
    BY <1>1, <1>3, <2>2, <2>4, <2>6 DEF Extend
  <2>8. e \in [1..n -> Ranges] /\ e[n] = new /\ \A j \in 1..n : j # n => e[j] = m[j]
    BY <1>2, <2>1, <2>5, <2>7
  <2>9. e \in Seq(Ranges)
    BY <1>2, <2>8, SeqDef
  <2>10. Len(e) = n
    <3>1. DOMAIN e = 1..n /\ DOMAIN e = 1..Len(e) /\ Len(e) \in Nat
      BY <2>8, <2>9, LenProperties
    <3> QED
      BY <1>2, <3>1, SameInterval
  <2> QED
    BY <1>1, <1>3, <2>2, <2>5, <2>6, <2>8, <2>9, <2>10
<1>4. CASE m = <<>> \/ ~(r.start <= m[n].end)
  <2>1. Extend(m, r) = Append(m, r)
    BY <1>1, <1>4 DEF Extend
  <2>2. /\ Append(m, r) \in Seq(Ranges) /\ Len(Append(m, r)) = n + 1
        /\ \A j \in 1..n : Append(m, r)[j] = m[j]
        /\ Append(m, r)[n + 1] = r
    BY <1>1, AppendProperties
  <2> QED
    BY <1>1, <1>4, <2>1, <2>2
<1> QED
  BY <1>1, <1>3, <1>4

LEMMA ExtendMerges ==
  ASSUME NEW k \in Nat, NEW m, NEW ordered, Merging(m, ordered, k),
         \A i \in 1..(k + 1) : /\ ordered[i] \in Ranges /\ ordered[i].start < ordered[i].end
                               /\ ordered[i].start <= ordered[k + 1].start
  PROVE  Merging(Extend(m, ordered[k + 1]), ordered, k + 1)
<1>1. PICK r, e : r = ordered[k + 1] /\ e = Extend(m, r)
  OBVIOUS
<1>2. k + 1 \in 1..(k + 1) /\ \A i \in 1..k : i \in 1..(k + 1)
  OBVIOUS
<1>3. r \in Ranges /\ r.start < r.end /\ r.start \in Int /\ r.end \in Int
  BY <1>1, <1>2 DEF Ranges
<1>4. \A i \in 1..k : /\ ordered[i].start <= r.start /\ ordered[i].start \in Int
                      /\ ordered[i].end \in Int
  BY <1>1, <1>2 DEF Ranges
<1>5. PICK n : n = Len(m)
  OBVIOUS
<1>6. n \in Nat /\ m \in Seq(Ranges) /\ \A j \in 1..n : m[j].start \in Int /\ m[j].end \in Int
  <2>1. m \in Seq(Ranges)
    BY DEF Merging
  <2>2. n \in Nat /\ \A j \in 1..n : m[j] \in Ranges
    BY <1>5, <2>1, LenProperties
  <2>3. \A x \in Ranges : x.start \in Int /\ x.end \in Int
    BY DEF Ranges
  <2> QED
    BY <2>1, <2>2, <2>3
<1>7. /\ \A j \in 1..n : m[j].start < m[j].end
      /\ \A i, j \in 1..n : i < j => m[i].start < m[j].start
      /\ \A j \in 1..n : \E i \in 1..k : m[j].start = ordered[i].start
      /\ \A i \in 1..k : \E j \in 1..n : m[j].start <= ordered[i].start /\ ordered[i].end <= m[j].end
  BY <1>5 DEF Merging
<1>8. \A j \in 1..n : m[j].start <= r.start
  BY <1>4, <1>7
<1>9. CASE /\ m # <<>> /\ r.start <= m[n].end
           /\ e \in Seq(Ranges) /\ Len(e) = n
           /\ \A j \in 1..n : j # n => e[j] = m[j]
           /\ e[n].start = m[n].start
           /\ e[n].end = Max2(m[n].end, r.end)
  <2>1. n \in 1..n
    <3>1. n # 0
      BY <1>5, <1>6, <1>9, EmptySeq
    <3> QED
      BY <1>6, <3>1
  <2>2. e[n].end >= m[n].end /\ e[n].end >= r.end /\ e[n].end \in Int
    BY <1>3, <1>6, <1>9, <2>1 DEF Max2
  <2>3. \A j \in 1..n : e[j].start = m[j].start /\ e[j].end >= m[j].end /\ e[j].end \in Int
    BY <1>6, <1>9, <2>2
  <2>4. \A j \in 1..n : e[j].start < e[j].end
    <3> TAKE j \in 1..n
    <3>1. m[j].start < m[j].end /\ m[j].start \in Int /\ m[j].end \in Int
      BY <1>6, <1>7
    <3>2. e[j].start = m[j].start /\ e[j].end >= m[j].end /\ e[j].end \in Int
      BY <2>3
    <3> QED
      BY <3>1, <3>2
  <2>5. \A i, j \in 1..n : i < j => e[i].start < e[j].start
    BY <1>7, <2>3
  <2>6. \A j \in 1..n : \E i \in 1..(k + 1) : e[j].start = ordered[i].start
    BY <1>2, <1>7, <2>3
  <2>7. ASSUME NEW i \in 1..(k + 1)
        PROVE  \E j \in 1..n : e[j].start <= ordered[i].start /\ ordered[i].end <= e[j].end
    <3>1. CASE i = k + 1
      BY <1>1, <1>8, <2>1, <2>2, <2>3, <3>1
    <3>2. CASE i # k + 1
      <4>1. i \in 1..k
        BY <3>2
      <4>2. PICK j \in 1..n : m[j].start <= ordered[i].start /\ ordered[i].end <= m[j].end
        BY <1>7, <4>1
      <4>3. e[j].start <= ordered[i].start /\ ordered[i].end <= e[j].end
        BY <1>4, <1>6, <2>3, <4>1, <4>2
      <4> QED
        BY <4>3
    <3> QED
      BY <3>1, <3>2
  <2> QED
    BY <1>1, <1>9, <2>4, <2>5, <2>6, <2>7 DEF Merging
<1>10. CASE /\ m = <<>> \/ ~(r.start <= m[n].end)
            /\ e \in Seq(Ranges) /\ Len(e) = n + 1
            /\ \A j \in 1..n : e[j] = m[j]
            /\ e[n + 1] = r
  <2>1. \A j \in 1..n : m[j].start < r.start
    <3> TAKE j \in 1..n
    <3>1. n \in 1..n /\ n # 0
      BY <1>6
    <3>2. m # <<>>
      BY <1>5, <3>1, EmptySeq
    <3>3. m[n].start < r.start
      <4>1. m[n].start < m[n].end /\ m[n].start \in Int /\ m[n].end \in Int
        BY <1>6, <1>7, <3>1
      <4>2. ~(r.start <= m[n].end)
        BY <1>10, <3>2
      <4> QED
        BY <1>3, <4>1, <4>2
    <3>4. j = n \/ m[j].start < m[n].start
      BY <1>6, <1>7, <3>1
    <3> QED
      BY <1>3, <1>6, <3>1, <3>3, <3>4
  <2>2. \A j \in 1..(n + 1) : j \in 1..n \/ j = n + 1
    BY <1>6
  <2>3. \A j \in 1..(n + 1) : e[j].start < e[j].end
    BY <1>3, <1>7, <1>10, <2>2
  <2>4. \A i, j \in 1..(n + 1) : i < j => e[i].start < e[j].start
    <3> TAKE i, j \in 1..(n + 1)
    <3> HAVE i < j
    <3>1. i \in 1..n
      BY <1>6
    <3>2. CASE j = n + 1
      <4>1. m[i].start < r.start /\ e[i] = m[i] /\ e[j] = r
        BY <1>10, <2>1, <3>1, <3>2
      <4> QED
        BY <4>1
    <3>3. CASE j # n + 1
      <4>1. j \in 1..n
        BY <2>2, <3>3
      <4>2. m[i].start < m[j].start /\ e[i] = m[i] /\ e[j] = m[j]
        BY <1>7, <1>10, <3>1, <4>1
      <4> QED
        BY <4>2
    <3> QED
      BY <3>2, <3>3
  <2>5. \A j \in 1..(n + 1) : \E i \in 1..(k + 1) : e[j].start = ordered[i].start
    <3> TAKE j \in 1..(n + 1)
    <3>1. CASE j = n + 1
      BY <1>1, <1>2, <1>10, <3>1
    <3>2. CASE j # n + 1
      <4>1. j \in 1..n
        BY <2>2, <3>2
      <4>2. PICK i \in 1..k : m[j].start = ordered[i].start
        BY <1>7, <4>1
      <4>3. e[j] = m[j] /\ i \in 1..(k + 1)
        BY <1>2, <1>10, <4>1
      <4> QED
        BY <4>2, <4>3
    <3> QED
      BY <3>1, <3>2
  <2>6. ASSUME NEW i \in 1..(k + 1)
        PROVE  \E j \in 1..(n + 1) : e[j].start <= ordered[i].start /\ ordered[i].end <= e[j].end
    <3>1. CASE i = k + 1
      <4>1. n + 1 \in 1..(n + 1)
        BY <1>6
      <4> QED
        BY <1>1, <1>3, <1>10, <3>1, <4>1
    <3>2. CASE i # k + 1
      <4>1. i \in 1..k
        BY <3>2
      <4>2. PICK j \in 1..n : m[j].start <= ordered[i].start /\ ordered[i].end <= m[j].end
        BY <1>7, <4>1
      <4>3. j \in 1..(n + 1) /\ e[j] = m[j]
        BY <1>6, <1>10
      <4> QED
        BY <4>2, <4>3
    <3> QED
      BY <3>1, <3>2
  <2> QED
    BY <1>1, <1>10, <2>3, <2>4, <2>5, <2>6 DEF Merging
<1>11. \/ /\ m # <<>> /\ r.start <= m[n].end
          /\ e \in Seq(Ranges) /\ Len(e) = n
          /\ \A j \in 1..n : j # n => e[j] = m[j]
          /\ e[n].start = m[n].start
          /\ e[n].end = Max2(m[n].end, r.end)
       \/ /\ m = <<>> \/ ~(r.start <= m[n].end)
          /\ e \in Seq(Ranges) /\ Len(e) = n + 1
          /\ \A j \in 1..n : e[j] = m[j]
          /\ e[n + 1] = r
  <2>1. m \in Seq(Ranges) /\ r \in Ranges
    BY <1>3, <1>6
  <2>2. e = Extend(m, r)
    BY <1>1
  <2> QED
    BY <1>5, <2>1, <2>2, ExtendFacts
<1> QED
  BY <1>9, <1>10, <1>11

LEMMA FoldMerges ==
  ASSUME NEW n \in Nat, NEW ordered, DOMAIN ordered = 1..n,
         \A i \in 1..n : ordered[i] \in Ranges /\ ordered[i].start < ordered[i].end,
         \A i, j \in 1..n : i < j => ordered[i].start <= ordered[j].start
  PROVE  Merging(FoldLeft(Extend, <<>>, ordered), ordered, n)
<1>1. PICK f : Folds(f, ordered, n) /\ FoldLeft(Extend, <<>>, ordered) = f[1..n]
  BY FoldLeftIs
<1> DEFINE Bad == {k \in Nat : k <= n /\ ~Merging(f[1..k], ordered, k)}
<1>2. SUFFICES ASSUME Bad # {} PROVE FALSE
  BY <1>1
<1>3. PICK k \in Bad : \A l \in Bad : k <= l
  BY <1>2, LeastNatural
<1>4. k \in Nat /\ k <= n /\ ~Merging(f[1..k], ordered, k)
  OBVIOUS
<1>5. \A s \in SUBSET (1..n) : f[s] = IF s = {} THEN <<>> ELSE Extend(f[s \ {Max(s)}], ordered[Max(s)])
  BY <1>1 DEF Folds
<1>6. k # 0
  <2>1. f[1..0] = <<>>
    <3>1. 1..0 = {}
      OBVIOUS
    <3>2. {} \in SUBSET (1..n)
      OBVIOUS
    <3> QED
      BY <1>5, <3>1, <3>2
  <2>2. Merging(<<>>, ordered, 0)
    <3>1. <<>> \in Seq(Ranges) /\ Len(<<>>) = 0
      OBVIOUS
    <3>2. \A j : j \notin 1..0
      OBVIOUS
    <3> QED
      BY <3>1, <3>2 DEF Merging
  <2> QED
    BY <1>4, <2>1, <2>2
<1>7. PICK l \in Nat : k = l + 1
  <2>1. k - 1 \in Nat /\ k = (k - 1) + 1
    BY <1>4, <1>6
  <2> QED
    BY <2>1
<1>8. Merging(f[1..l], ordered, l)
  <2>1. l \notin Bad /\ l <= n
    BY <1>3, <1>4, <1>7
  <2> QED
    BY <2>1
<1>9. f[1..k] = Extend(f[1..l], ordered[k])
  <2>1. k \in 1..k /\ Max(1..k) = k
    <3>1. k \in 1..k
      BY <1>4, <1>6
    <3> QED
      BY <1>4, <3>1, MaxIs
  <2>2. (1..k) \ {k} = 1..l
    BY <1>4, <1>7
  <2>3. 1..k \in SUBSET (1..n) /\ 1..k # {}
    BY <1>4, <2>1
  <2> QED
    BY <1>5, <2>1, <2>2, <2>3
<1>10. \A i \in 1..(l + 1) : /\ ordered[i] \in Ranges /\ ordered[i].start < ordered[i].end
                             /\ ordered[i].start <= ordered[l + 1].start
  <2> TAKE i \in 1..(l + 1)
  <2>1. i \in 1..n /\ l + 1 \in 1..n /\ (i < l + 1 \/ i = l + 1)
    BY <1>4, <1>7
  <2>2. ordered[i] \in Ranges /\ ordered[i].start < ordered[i].end /\ ordered[i].start \in Int
    BY <2>1 DEF Ranges
  <2> QED
    BY <2>1, <2>2
<1>11. Merging(Extend(f[1..l], ordered[l + 1]), ordered, l + 1)
  BY <1>8, <1>10, ExtendMerges
<1> QED
  BY <1>4, <1>7, <1>9, <1>11

LEMMA RangeOrder ==
  ASSUME NEW S \in SUBSET Ranges, IsFiniteSet(S)
  PROVE  InOrder(Sorted(S, BeginsEarlier), S, {p \in S \X S : BeginsEarlier(p[1], p[2])})
<1> DEFINE R == {p \in S \X S : BeginsEarlier(p[1], p[2])}
<1>1. \A x, y \in S : <<x, y>> \in R <=> BeginsEarlier(x, y)
  OBVIOUS
<1>2. \A x \in S : x.start \in Int /\ x.end \in Int /\ x = [start |-> x.start, end |-> x.end]
  BY DEF Ranges
<1>3. Orders(R, S)
  <2>1. \A x \in S : ~BeginsEarlier(x, x)
    BY <1>2 DEF BeginsEarlier
  <2>2. ASSUME NEW x \in S, NEW y \in S, x # y
        PROVE  BeginsEarlier(x, y) \/ BeginsEarlier(y, x)
    <3>1. x.start # y.start \/ x.end # y.end
      BY <1>2, <2>2
    <3> QED
      BY <1>2, <3>1 DEF BeginsEarlier
  <2>3. \A x, y, z \in S : BeginsEarlier(x, y) /\ BeginsEarlier(y, z) => BeginsEarlier(x, z)
    BY <1>2 DEF BeginsEarlier
  <2> HIDE DEF R
  <2> QED
    BY <1>1, <2>1, <2>2, <2>3 DEF Orders
<1>4. \A x \in S : Before(S, R, x) = {y \in S : BeginsEarlier(y, x)}
  BY <1>1 DEF Before
<1>5. PICK s : s = Sorted(S, BeginsEarlier)
  OBVIOUS
<1>6. s = [i \in 1..Cardinality(S) |-> CHOOSE x \in S : Cardinality({y \in S : BeginsEarlier(y, x)}) = i - 1]
  BY <1>5 DEF Sorted
<1>7. ASSUME NEW i \in 1..Cardinality(S)
      PROVE  s[i] \in S /\ Cardinality(Before(S, R, s[i])) = i - 1
  <2>1. \E x \in S : Cardinality({y \in S : BeginsEarlier(y, x)}) = i - 1
    <3>1. \E x \in S : Cardinality(Before(S, R, x)) = i - 1
      <4> HIDE DEF R
      <4>1. \A k \in 1..Cardinality(S) : \E x \in S : Cardinality(Before(S, R, x)) = k - 1
        BY <1>3, RankedOnce
      <4> QED
        BY <1>7, <4>1
    <3> QED
      BY <3>1, <1>4
  <2>2. s[i] = CHOOSE x \in S : Cardinality({y \in S : BeginsEarlier(y, x)}) = i - 1
    BY <1>6
  <2>3. s[i] \in S /\ Cardinality({y \in S : BeginsEarlier(y, s[i])}) = i - 1
    BY <2>1, <2>2, Zenon
  <2> QED
    BY <1>4, <2>3
<1>8. s \in [1..Cardinality(S) -> S]
  <2>1. \A i \in 1..Cardinality(S) : (CHOOSE x \in S : Cardinality({y \in S : BeginsEarlier(y, x)}) = i - 1) \in S
    BY <1>6, <1>7
  <2> QED
    BY <1>6, <2>1, Zenon
<1> HIDE DEF R
<1> QED
  BY <1>3, <1>5, <1>7, <1>8, RankedInOrder DEF R

LEMMA MergeCovers ==
  ASSUME NEW ranges \in SUBSET Ranges, IsFiniteSet(ranges), Cardinality(MergeRanges(ranges)) < MaxRanges
  PROVE  \A r \in ranges : r.end > r.start =>
           \E x \in MergeRanges(ranges) : x.start <= r.start /\ r.end <= x.end /\ x.start \in Int /\ x.end \in Int
<1> DEFINE S == {r \in ranges : r.end > r.start}
<1>1. S \in SUBSET Ranges /\ IsFiniteSet(S) /\ \A r \in S : r.end > r.start /\ r.start \in Int /\ r.end \in Int
  BY FS_Subset DEF Ranges
<1>2. PICK s, n : s = Sorted(S, BeginsEarlier) /\ n = Cardinality(S)
  OBVIOUS
<1>3. PICK m : m = FoldLeft(Extend, <<>>, s)
  OBVIOUS
<1>4. MergeRanges(ranges) = {m[i] : i \in 1..Min2(MaxRanges, Len(m))}
  BY <1>2, <1>3 DEF MergeRanges
<1>5. \A r \in ranges : r.end > r.start => r \in S
  OBVIOUS
<1> HIDE DEF S
<1>6. /\ s \in Seq(S) /\ Len(s) = n /\ n \in Nat
      /\ \A r \in S : \E i \in 1..n : s[i] = r
      /\ \A i, j \in 1..n : i < j => <<s[i], s[j]>> \in {p \in S \X S : BeginsEarlier(p[1], p[2])}
  <2>1. PICK R : R = {p \in S \X S : BeginsEarlier(p[1], p[2])}
    OBVIOUS
  <2>2. InOrder(s, S, R)
    BY <1>1, <1>2, <2>1, RangeOrder
  <2>3. n \in Nat
    BY <1>1, <1>2, FS_CardinalityType
  <2>4. /\ s \in Seq(S) /\ Len(s) = n
        /\ \A r \in S : \E i \in 1..n : s[i] = r
        /\ \A i, j \in 1..n : i < j => <<s[i], s[j]>> \in R
    BY <1>2, <2>2 DEF InOrder
  <2> QED
    BY <2>1, <2>3, <2>4
<1>7. DOMAIN s = 1..n /\ \A i \in 1..n : s[i] \in S
  BY <1>6, LenProperties
<1>8. \A i \in 1..n : s[i] \in Ranges /\ s[i].start < s[i].end
  BY <1>1, <1>7
<1>9. \A i, j \in 1..n : i < j => s[i].start <= s[j].start
  <2> TAKE i, j \in 1..n
  <2> HAVE i < j
  <2>1. BeginsEarlier(s[i], s[j])
    BY <1>6
  <2>2. s[i].start \in Int /\ s[j].start \in Int
    BY <1>1, <1>7
  <2> QED
    BY <2>1, <2>2 DEF BeginsEarlier
<1>10. Merging(m, s, n)
  BY <1>3, <1>6, <1>7, <1>8, <1>9, FoldMerges
<1>11. PICK l : l = Len(m)
  OBVIOUS
<1>12. /\ l \in Nat /\ \A j \in 1..l : m[j] \in Ranges /\ m[j].start \in Int /\ m[j].end \in Int
       /\ \A i, j \in 1..l : i < j => m[i].start < m[j].start
       /\ \A i \in 1..n : \E j \in 1..l : m[j].start <= s[i].start /\ s[i].end <= m[j].end
  <2>1. m \in Seq(Ranges)
    BY <1>10 DEF Merging
  <2>2. l \in Nat /\ \A j \in 1..l : m[j] \in Ranges
    BY <1>11, <2>1, LenProperties
  <2>3. \A x \in Ranges : x.start \in Int /\ x.end \in Int
    BY DEF Ranges
  <2> QED
    BY <1>10, <1>11, <2>2, <2>3 DEF Merging
<1>13. MaxRanges \in Nat
  BY BaselineAssumption
<1>14. l <= MaxRanges
  <2> SUFFICES ASSUME l > MaxRanges PROVE FALSE
    BY <1>12, <1>13
  <2>1. Min2(MaxRanges, l) = MaxRanges
    BY <1>12, <1>13 DEF Min2
  <2>2. PICK X : X = MergeRanges(ranges)
    OBVIOUS
  <2>3. X = {m[i] : i \in 1..MaxRanges}
    BY <1>4, <1>11, <2>1, <2>2
  <2> DEFINE g == [i \in 1..MaxRanges |-> m[i]]
  <2>4. g \in Surjection(1..MaxRanges, X)
    BY <2>3 DEF Surjection
  <2>5. IsFiniteSet(1..MaxRanges) /\ Cardinality(1..MaxRanges) = MaxRanges
    BY <1>13, FS_Interval
  <2>6. IsFiniteSet(X)
    BY <2>4, <2>5, FS_Surjection
  <2>7. \A i, j \in 1..MaxRanges : g[i] = g[j] => i = j
    <3> TAKE i, j \in 1..MaxRanges
    <3> HAVE g[i] = g[j]
    <3>1. i \in 1..l /\ j \in 1..l /\ m[i].start = m[j].start /\ m[i].start \in Int
      BY <1>12, <1>13
    <3>2. ~(i < j) /\ ~(j < i)
      BY <1>12, <3>1
    <3> QED
      BY <3>2
  <2>8. g \in Injection(1..MaxRanges, X)
    <3>1. g \in [1..MaxRanges -> X]
      BY <2>3
    <3> QED
      BY <2>7, <3>1 DEF Injection, IsInjective
  <2>9. MaxRanges <= Cardinality(X)
    BY <2>5, <2>6, <2>8, FS_Injection
  <2>10. Cardinality(X) \in Nat
    BY <2>6, FS_CardinalityType
  <2> QED
    BY <1>13, <2>2, <2>9, <2>10
<1>15. Min2(MaxRanges, l) = l
  BY <1>12, <1>13, <1>14 DEF Min2
<1>16. \A j \in 1..l : m[j] \in MergeRanges(ranges)
  BY <1>4, <1>11, <1>15
<1> TAKE r \in ranges
<1> HAVE r.end > r.start
<1>17. PICK i \in 1..n : s[i] = r
  BY <1>5, <1>6
<1>18. PICK j \in 1..l : m[j].start <= r.start /\ r.end <= m[j].end
  BY <1>12, <1>17
<1> QED
  BY <1>12, <1>16, <1>18

-----------------------------------------------------------------------------
(* What a baseline leaves out *)

WarningTimes(target, window) ==
  {Column(r).time : r \in {x \in Rows : /\ Column(x).table = "events"
                                       /\ Column(x).label = "Warning"
                                       /\ During(x, window) /\ OfTarget(x, target)}}

SlotRange(times, n) ==
  [start |-> Min({u \in times : u \div Padding = n}) - Padding,
   end |-> Max({u \in times : u \div Padding = n}) + Padding]

LEMMA RowFacts ==
  \A row \in Rows : /\ row[1] \in Ids /\ Column(row) = Inserted[row[1]]
                    /\ Column(row).time \in 0..MaxTime
<1> TAKE row \in Rows
<1>1. row[1] \in Ids
  BY DEF Rows
<1>2. IsRecord(Records[row[1]]) /\ Column(row) = Inserted[row[1]]
  BY <1>1, HistoryAssumption DEF Column
<1> QED
  BY <1>1, <1>2, RecordFacts DEF IsRecord

LEMMA SlotFacts ==
  ASSUME NEW times, times \subseteq 0..MaxTime, NEW t \in times
  PROVE  LET range == SlotRange(times, t \div Padding)
         IN  range \in Ranges /\ range.start <= t - Padding /\ t + Padding <= range.end
<1>1. Padding \in Nat /\ Padding > 0 /\ MaxTime \in Nat
  BY BaselineAssumption, HistoryAssumption
<1>2. PICK slot : slot = {u \in times : u \div Padding = t \div Padding}
  OBVIOUS
<1>3. t \in slot /\ slot \subseteq 0..MaxTime /\ slot # {}
  BY <1>2
<1>4. /\ Min(slot) \in slot /\ Min(slot) <= t
      /\ Max(slot) \in slot /\ Max(slot) >= t
  BY <1>1, <1>3, Extremes
<1>5. PICK a, b : a = Min(slot) /\ b = Max(slot)
  OBVIOUS
<1>6. a \in Int /\ b \in Int /\ t \in Int /\ a <= t /\ b >= t
  <2>1. a \in 0..MaxTime /\ b \in 0..MaxTime /\ t \in 0..MaxTime
    BY <1>3, <1>4, <1>5
  <2> QED
    BY <1>4, <1>5, <2>1
<1>7. SlotRange(times, t \div Padding) = [start |-> a - Padding, end |-> b + Padding]
  BY <1>2, <1>5 DEF SlotRange
<1> QED
  BY <1>1, <1>6, <1>7 DEF Ranges

LEMMA DisruptionFacts ==
  ASSUME NEW target, NEW window
  PROVE  /\ DisruptionWindows(target, window) \in SUBSET Ranges
         /\ IsFiniteSet(DisruptionWindows(target, window))
         /\ \A t \in WarningTimes(target, window) :
              t \div Padding \in FirstSlots(WarningTimes(target, window)) =>
                \E r \in DisruptionWindows(target, window) : r.start <= t - Padding /\ t + Padding <= r.end
<1>1. PICK times : times = WarningTimes(target, window)
  OBVIOUS
<1>2. times \subseteq 0..MaxTime
  BY <1>1, RowFacts DEF WarningTimes
<1>3. DisruptionWindows(target, window) = {SlotRange(times, n) : n \in FirstSlots(times)}
  BY <1>1 DEF DisruptionWindows, WarningTimes, SlotRange
<1>4. IsFiniteSet(times)
  <2>1. IsFiniteSet(0..MaxTime)
    BY FS_Interval, HistoryAssumption
  <2> QED
    BY <1>2, <2>1, FS_Subset
<1>5. IsFiniteSet({SlotRange(times, n) : n \in FirstSlots(times)})
  <2> DEFINE slots == {t \div Padding : t \in times}
             g == [t \in times |-> t \div Padding]
             h == [n \in FirstSlots(times) |-> SlotRange(times, n)]
             T == {SlotRange(times, n) : n \in FirstSlots(times)}
  <2>1. g \in Surjection(times, slots)
    BY DEF Surjection
  <2>2. IsFiniteSet(slots)
    BY <1>4, <2>1, FS_Surjection
  <2>3. FirstSlots(times) \in SUBSET slots
    BY DEF FirstSlots
  <2>4. IsFiniteSet(FirstSlots(times))
    BY <2>2, <2>3, FS_Subset
  <2>5. h \in Surjection(FirstSlots(times), T)
    BY DEF Surjection
  <2> QED
    BY <2>4, <2>5, FS_Surjection
<1>6. \A t \in times :
        /\ SlotRange(times, t \div Padding) \in Ranges
        /\ SlotRange(times, t \div Padding).start <= t - Padding /\ t + Padding <= SlotRange(times, t \div Padding).end
  BY <1>2, SlotFacts
<1>7. \A n \in FirstSlots(times) : \E t \in times : n = t \div Padding
  BY DEF FirstSlots
<1>8. \A n \in FirstSlots(times) : SlotRange(times, n) \in Ranges
  BY <1>6, <1>7
<1> QED
  BY <1>1, <1>3, <1>5, <1>6, <1>8

\* A warning that few enough slots precede is in one of the slots read.
LEMMA FirstSlotFacts ==
  ASSUME NEW times, NEW slots, IsFiniteSet(slots), \A t \in times : t \div Padding \in slots,
         NEW t \in times, Cardinality({n \in slots : n < t \div Padding}) < MaxSlots
  PROVE  t \div Padding \in FirstSlots(times)
<1> DEFINE own == {u \div Padding : u \in times}
           A == {m \in own : m < t \div Padding}
           B == {n \in slots : n < t \div Padding}
<1>1. A \subseteq B /\ IsFiniteSet(B)
  BY FS_Subset
<1>2. IsFiniteSet(A) /\ Cardinality(A) <= Cardinality(B)
  <2> HIDE DEF A, B
  <2> QED
    BY <1>1, FS_Subset
<1>3. Cardinality(A) \in Nat /\ Cardinality(B) \in Nat /\ MaxSlots \in Nat
  BY <1>1, <1>2, FS_CardinalityType, BaselineAssumption
<1>4. Cardinality(A) < MaxSlots
  BY <1>2, <1>3
<1> QED
  BY <1>4 DEF FirstSlots

LEMMA IncidentFacts == IncidentWindows \in SUBSET Ranges
<1>1. \A w \in IncidentWindows : w = [start |-> w.start, end |-> w.end] /\ w.start \in Int /\ w.end \in Int
  BY BaselineAssumption
<1> QED
  BY <1>1 DEF Ranges

\* A merged range leaves out what any of the ranges it covers would.
LEMMA CoveredIsOutside ==
  ASSUME NEW row \in Rows, NEW r \in Ranges, NEW x, x.start \in Int, x.end \in Int,
         x.start <= r.start, r.end <= x.end, ~During(row, x)
  PROVE  ~During(row, r) /\ (Column(row).time < r.start \/ Column(row).time >= r.end)
<1>1. Column(row).time \in Int /\ r.start \in Int /\ r.end \in Int
  BY RowFacts DEF Ranges
<1> QED
  BY <1>1 DEF During

\* The warnings of a window, and their slots, as the property has them.
Warnings(target, window) ==
  {e \in Ids : /\ copies[e] > 0
               /\ Records[e].table = "events"
               /\ Records[e].label = "Warning"
               /\ Records[e].cluster = target.cluster
               /\ Records[e].workload = target.workload
               /\ During(<<e, 1>>, window)}
SlotsOf(warnings) == {Records[e].time \div Padding : e \in warnings}

\* The ranges that history.ts merges cover every incident and every warning of the
\* slots it reads, so that engine.ts summarizes no sample of such a disruption.
THEOREM BaselinesAvoidDisruption == HistorySpec => []BaselineAvoidsDisruption
<1>1. ASSUME HistoryInv,
             NEW target \in BaselineTargets(now), NEW incidents \in SUBSET IncidentWindows,
             NEW window, window = WindowEnding(now, BaselineWindow),
             NEW excluded, excluded = Exclusions(target, window, incidents),
             Cardinality(excluded) < MaxRanges,
             NEW row \in Summarized(target, "memory", window, excluded),
             NEW warnings, warnings = Warnings(target, window)
      PROVE  /\ \A range \in incidents : ~During(row, range)
             /\ \A w \in warnings :
                  Cardinality({n \in SlotsOf(warnings) : n < Records[w].time \div Padding}) < MaxSlots =>
                     \/ Column(row).time < Records[w].time - Padding
                     \/ Column(row).time >= Records[w].time + Padding
  <2>1. PICK disruptions : disruptions = DisruptionWindows(target, window)
    OBVIOUS
  <2>2. PICK ranges : ranges = incidents \union disruptions
    OBVIOUS
  <2>3. ranges \in SUBSET Ranges /\ IsFiniteSet(ranges)
    <3>1. incidents \in SUBSET Ranges
      BY IncidentFacts
    <3>2. IsFiniteSet(incidents)
      BY FS_Subset, BaselineAssumption
    <3>3. disruptions \in SUBSET Ranges /\ IsFiniteSet(disruptions)
      BY <2>1, DisruptionFacts
    <3> QED
      BY <2>2, <3>1, <3>2, <3>3, FS_Union
  <2>4. excluded = MergeRanges(ranges)
    BY <1>1, <2>1, <2>2 DEF Exclusions
  <2>5. \A r \in ranges : r.end > r.start =>
          \E x \in excluded : x.start <= r.start /\ r.end <= x.end /\ x.start \in Int /\ x.end \in Int
    BY <1>1, <2>3, <2>4, MergeCovers
  <2>6. row \in Rows /\ \A x \in excluded : ~During(row, x)
    BY <1>1 DEF Summarized
  <2>7. Column(row).time \in Int
    BY <2>6, RowFacts
  <2>8. ASSUME NEW r \in ranges, r.end > r.start
        PROVE  ~During(row, r) /\ (Column(row).time < r.start \/ Column(row).time >= r.end)
    <3>1. PICK x \in excluded : x.start <= r.start /\ r.end <= x.end /\ x.start \in Int /\ x.end \in Int
      BY <2>5, <2>8
    <3>2. r \in Ranges
      BY <2>3
    <3> QED
      BY <2>6, <3>1, <3>2, CoveredIsOutside
  <2>9. ASSUME NEW range \in incidents
        PROVE  ~During(row, range)
    <3>1. range \in ranges /\ range.start \in Int /\ range.end \in Int
      BY <2>2, <2>3 DEF Ranges
    <3>2. CASE range.end > range.start
      BY <2>8, <3>1, <3>2
    <3>3. CASE ~(range.end > range.start)
      BY <2>7, <3>1, <3>3 DEF During
    <3> QED
      BY <3>2, <3>3
  <2>11. target.workload # "" /\ target.workload # None
    <3>1. PICK r \in Rows : target.workload = Column(r).workload /\ Column(r).workload # ""
      <4>1. PICK r \in Rows : /\ Column(r).workload # ""
                             /\ target = [cluster |-> Column(r).cluster, workload |-> Column(r).workload]
        BY DEF BaselineTargets
      <4> QED
        BY <4>1
    <3>2. PICK e \in Ids : Column(r) = Inserted[e]
      BY RowFacts
    <3> QED
      BY <3>1, <3>2, RowIdentity DEF None
  <2>12. warnings \subseteq Ids
    BY <1>1 DEF Warnings
  <2>13. \A t \in WarningTimes(target, window) : \E w \in warnings : t = Records[w].time
    <3> TAKE t \in WarningTimes(target, window)
    <3>1. PICK r \in Rows : /\ t = Column(r).time /\ Column(r).table = "events" /\ Column(r).label = "Warning"
                           /\ During(r, window) /\ OfTarget(r, target)
      BY DEF WarningTimes
    <3>2. PICK w \in Ids : w = r[1] /\ Column(r) = Inserted[w] /\ Column(<<w, 1>>) = Inserted[w]
      BY RowFacts DEF Column
    <3>3. copies[w] > 0
      <4>1. copies[w] \in 0..MaxCopies /\ r[2] \in 1..MaxCopies /\ r[2] <= copies[w] /\ MaxCopies \in Nat
        BY <1>1, <3>2, HistoryAssumption DEF HistoryInv, HistoryTypeOK, Rows
      <4> QED
        BY <4>1
    <3>4. /\ Records[w].table = "events" /\ Records[w].label = "Warning" /\ t = Records[w].time
          /\ Records[w].cluster = target.cluster
      BY <3>1, <3>2, RecordFacts DEF OfTarget
    <3>5. Records[w].workload = target.workload
      BY <2>11, <3>1, <3>2, RowIdentity DEF OfTarget
    <3>6. During(<<w, 1>>, window)
      BY <3>1, <3>2 DEF During
    <3> QED
      BY <1>1, <3>2, <3>3, <3>4, <3>5, <3>6 DEF Warnings
  <2>14. IsFiniteSet(SlotsOf(warnings))
    <3>1. IsFiniteSet(warnings)
      BY <2>12, RecordFacts, FS_Subset
    <3> DEFINE g == [w \in warnings |-> Records[w].time \div Padding]
    <3>2. g \in Surjection(warnings, SlotsOf(warnings))
      BY DEF Surjection, SlotsOf
    <3> QED
      BY <3>1, <3>2, FS_Surjection
  <2>15. \A t \in WarningTimes(target, window) : t \div Padding \in SlotsOf(warnings)
    BY <2>13 DEF SlotsOf
  <2>10. ASSUME NEW w \in warnings,
                Cardinality({n \in SlotsOf(warnings) : n < Records[w].time \div Padding}) < MaxSlots
         PROVE  \/ Column(row).time < Records[w].time - Padding
                \/ Column(row).time >= Records[w].time + Padding
    <3>0. /\ w \in Ids /\ copies[w] > 0 /\ Records[w].table = "events" /\ Records[w].label = "Warning"
          /\ Records[w].cluster = target.cluster /\ Records[w].workload = target.workload
          /\ During(<<w, 1>>, window)
      BY <1>1, <2>10 DEF Warnings
    <3>1. <<w, 1>> \in Rows /\ Column(<<w, 1>>) = Inserted[w]
      <4>1. MaxCopies \in Nat /\ MaxCopies > 0 /\ copies[w] \in 0..MaxCopies
        BY <1>1, <3>0, HistoryAssumption DEF HistoryInv, HistoryTypeOK
      <4> QED
        BY <3>0, <4>1 DEF Rows, Column
    <3>3. OfTarget(<<w, 1>>, target)
      BY <2>11, <3>0, <3>1, RecordFacts, RowIdentity DEF OfTarget
    <3>4. Records[w].time \in WarningTimes(target, window)
      BY <3>0, <3>1, <3>3, RecordFacts DEF WarningTimes
    <3>9. Records[w].time \div Padding \in FirstSlots(WarningTimes(target, window))
      BY <2>10, <2>14, <2>15, <3>4, FirstSlotFacts
    <3>5. PICK r \in disruptions : r.start <= Records[w].time - Padding /\ Records[w].time + Padding <= r.end
      BY <2>1, <3>4, <3>9, DisruptionFacts
    <3>6. /\ r \in ranges /\ r.start \in Int /\ r.end \in Int
          /\ Records[w].time \in Int /\ Padding \in Nat /\ Padding > 0
      BY <2>2, <2>3, <3>0, RecordFacts, BaselineAssumption DEF Ranges
    <3>7. r.end > r.start
      BY <3>5, <3>6
    <3>8. Column(row).time < r.start \/ Column(row).time >= r.end
      BY <2>8, <3>6, <3>7
    <3> QED
      BY <2>7, <3>5, <3>6, <3>8
  <2> QED
    BY <2>9, <2>10
<1>2. ASSUME HistoryInv PROVE BaselineAvoidsDisruption
  <2> SUFFICES ASSUME NEW target \in BaselineTargets(now), NEW incidents \in SUBSET IncidentWindows
               PROVE  LET window == WindowEnding(now, BaselineWindow)
                          baseline == Baseline(target, "memory", incidents)
                          warnings == Warnings(target, window)
                          slots == SlotsOf(warnings)
                          Preceding(w) == {n \in slots : n < Records[w].time \div Padding}
                      IN  baseline.excludedRanges < MaxRanges =>
                            \A row \in baseline.rows :
                              /\ \A range \in incidents : ~During(row, range)
                              /\ \A w \in warnings :
                                   Cardinality(Preceding(w)) < MaxSlots =>
                                     \/ Column(row).time < Records[w].time - Padding
                                     \/ Column(row).time >= Records[w].time + Padding
    BY Zenon DEF BaselineAvoidsDisruption, Warnings, SlotsOf
  <2>1. PICK window, excluded, warnings :
          /\ window = WindowEnding(now, BaselineWindow)
          /\ excluded = Exclusions(target, window, incidents) /\ warnings = Warnings(target, window)
    OBVIOUS
  <2>2. PICK baseline : baseline = Baseline(target, "memory", incidents)
    OBVIOUS
  <2>3. baseline.rows = Summarized(target, "memory", window, excluded) /\ baseline.excludedRanges = Cardinality(excluded)
    BY <2>1, <2>2 DEF Baseline
  <2>4. baseline.excludedRanges < MaxRanges =>
          \A row \in baseline.rows :
            /\ \A range \in incidents : ~During(row, range)
            /\ \A w \in warnings :
                 Cardinality({n \in SlotsOf(warnings) : n < Records[w].time \div Padding}) < MaxSlots =>
                   \/ Column(row).time < Records[w].time - Padding
                   \/ Column(row).time >= Records[w].time + Padding
    BY <1>1, <1>2, <2>1, <2>3
  <2> QED
    BY <2>1, <2>2, <2>4, Zenon
<1> QED
  BY <1>2, HistoryHolds, PTL

=============================================================================
