--------------------------- MODULE ReadingsProofs ---------------------------
(***************************************************************************)
(* What Readings guarantees for all exporters, batches, deliveries, times  *)
(* and faults, if no handler outlives its deadline: telemetry is handled   *)
(* strictly in order, no message counts twice, and no two messages count a *)
(* part of each other's restarts.                                          *)
(***************************************************************************)
EXTENDS Readings, FiniteSetTheorems, SequenceTheorems, WellFoundedInduction, TLAPS

-----------------------------------------------------------------------------
(* What a batch becomes                                                     *)

\* The least-number principle, on which every induction below is built.
LEMMA LeastNatural ==
  ASSUME NEW T, T \subseteq Nat, T # {}
  PROVE  \E n \in T : \A m \in T : n <= m
<1>1. IsWellFoundedOn(OpToRel(<, Nat), Nat)
  BY NatLessThanWellFounded
<1>2. PICK n \in T : \A m \in T : <<m, n>> \notin OpToRel(<, Nat)
  BY <1>1, WFMin
<1>3. \A m \in T : ~(m < n)
  BY <1>2 DEF OpToRel
<1>. QED
  BY <1>3

\* The recursive function of FlattenSeq, as far as the n-th sequence.
Flattens(f, seqs, n) ==
  f = [i \in 1..n |-> IF i = 1 THEN seqs[i] ELSE f[i - 1] \o seqs[i]]

LEMMA FlattenExists ==
  ASSUME NEW seqs, NEW n \in Nat
  PROVE  \E f : Flattens(f, seqs, n)
<1>. DEFINE Bad == {k \in Nat : ~ \E f : Flattens(f, seqs, k)}
<1>1. SUFFICES ASSUME Bad # {} PROVE FALSE
  OBVIOUS
<1>2. PICK k \in Bad : \A m \in Bad : k <= m
  BY <1>1, LeastNatural
<1>3. k # 0
  <2>1. Flattens([i \in 1..0 |-> 0], seqs, 0)
    BY DEF Flattens
  <2>. QED
    BY <2>1
<1>4. k - 1 \in Nat /\ k - 1 \notin Bad
  BY <1>2, <1>3
<1>5. PICK f : Flattens(f, seqs, k - 1)
  BY <1>4
<1>. DEFINE g == [i \in 1..k |-> IF i < k THEN f[i]
                                 ELSE IF i = 1 THEN seqs[i] ELSE f[i - 1] \o seqs[i]]
<1>6. Flattens(g, seqs, k)
  <2>1. \A i \in 1..(k - 1) : f[i] = IF i = 1 THEN seqs[i] ELSE f[i - 1] \o seqs[i]
    BY <1>4, <1>5 DEF Flattens
  <2>2. \A i \in 1..k : g[i] = IF i = 1 THEN seqs[i] ELSE g[i - 1] \o seqs[i]
    BY <1>4, <2>1
  <2>. QED
    BY <2>2 DEF Flattens
<1>. QED
  BY <1>2, <1>6

LEMMA FlattenType ==
  ASSUME NEW S, NEW seqs \in Seq(Seq(S))
  PROVE  FlattenSeq(seqs) \in Seq(S)
<1>1. CASE Len(seqs) = 0
  BY <1>1 DEF FlattenSeq
<1>2. CASE Len(seqs) # 0
  <2>. DEFINE f == CHOOSE g : g = [i \in 1..Len(seqs) |->
                                     IF i = 1 THEN seqs[i] ELSE g[i - 1] \o seqs[i]]
              Bad == {k \in Nat : k \in 1..Len(seqs) /\ f[k] \notin Seq(S)}
  <2>1. FlattenSeq(seqs) = f[Len(seqs)]
    BY <1>2 DEF FlattenSeq
  <2>2. f = [i \in 1..Len(seqs) |-> IF i = 1 THEN seqs[i] ELSE f[i - 1] \o seqs[i]]
    <3>1. Len(seqs) \in Nat
      OBVIOUS
    <3>2. \E g : g = [i \in 1..Len(seqs) |-> IF i = 1 THEN seqs[i] ELSE g[i - 1] \o seqs[i]]
      BY <3>1, FlattenExists DEF Flattens
    <3>. QED
      BY <3>2, Zenon
  <2>. HIDE DEF f
  <2>3. Bad = {}
    <3>1. SUFFICES ASSUME Bad # {} PROVE FALSE
      OBVIOUS
    <3>2. PICK k \in Bad : \A m \in Bad : k <= m
      BY <3>1, LeastNatural
    <3>3. f[k] = IF k = 1 THEN seqs[k] ELSE f[k - 1] \o seqs[k]
      BY <2>2
    <3>4. k = 1 \/ f[k - 1] \in Seq(S)
      BY <3>2
    <3>5. f[k] \in Seq(S)
      BY <3>2, <3>3, <3>4
    <3>. QED
      BY <3>2, <3>5
  <2>. QED
    BY <1>2, <2>1, <2>3
<1>. QED
  BY <1>1, <1>2

LEMMA RecordsAre ==
  \A r : r \in Records <=> \E x \in Exporters : \E b \in Range(Batches[x]) : r \in Range(b)
<1>. DEFINE Of(x) == UNION {Range(b) : b \in Range(Batches[x])}
<1>1. \A r, x : r \in Of(x) <=> \E b \in Range(Batches[x]) : r \in Range(b)
  OBVIOUS
<1>2. Records = UNION {Of(x) : x \in Exporters}
  BY DEF Records
<1>. HIDE DEF Of
<1>. QED
  BY <1>1, <1>2

\* The records of a batch, and their samples, are of the types assumed.
LEMMA SentIsBatch ==
  ASSUME NEW x \in Exporters
  PROVE  Sent(x) \in Seq(Records)
<1>1. Batches[x] \in Seq(Seq(RecordTypes))
  BY ReadingsAssumption
<1>2. \A i \in DOMAIN Batches[x] : Batches[x][i] \in Seq(RecordTypes)
  <2>. DEFINE S == Seq(RecordTypes)
  <2>1. Batches[x] \in Seq(S)
    BY <1>1
  <2>. HIDE DEF S
  <2>2. \A i \in DOMAIN Batches[x] : Batches[x][i] \in S
    BY <2>1
  <2>. QED
    BY <2>2 DEF S
<1>3. ASSUME NEW i \in DOMAIN Batches[x]
      PROVE  Batches[x][i] \in Seq(Records)
  <2>1. Batches[x][i] \in Range(Batches[x])
    BY <1>3 DEF Range
  <2>2. Range(Batches[x][i]) \subseteq Records
    BY <2>1, RecordsAre
  <2>3. \A j \in DOMAIN Batches[x][i] : Batches[x][i][j] \in Records
    BY <2>2 DEF Range
  <2>. QED
    BY <1>2, <2>3
<1>4. <<>> \in Seq(Records)
  OBVIOUS
<1>. QED
  BY <1>3, <1>4 DEF Sent

LEMMA RecordsHaveTypes == Records \subseteq RecordTypes
<1>1. SUFFICES ASSUME NEW x \in Exporters, NEW b \in Range(Batches[x]), NEW r \in Range(b)
               PROVE  r \in RecordTypes
  BY RecordsAre
<1>2. Batches[x] \in Seq(Seq(RecordTypes))
  BY ReadingsAssumption
<1>3. b \in Seq(RecordTypes)
  <2>. DEFINE S == Seq(RecordTypes)
  <2>1. Batches[x] \in Seq(S)
    BY <1>2
  <2>. HIDE DEF S
  <2>2. b \in S
    BY <2>1 DEF Range
  <2>. QED
    BY <2>2 DEF S
<1>. QED
  BY <1>3 DEF Range

LEMMA SamplesOfRecord ==
  ASSUME NEW r \in Records
  PROVE  r.samples \in Seq(SampleTypes) /\ r.samples \in Seq(Samples)
<1>1. r.samples \in Seq(SampleTypes)
  <2>. DEFINE S == Seq(SampleTypes)
  <2>1. r \in [status : {"ok", "malformed", "rejected"}, samples : S]
    BY RecordsHaveTypes DEF RecordTypes
  <2>. HIDE DEF S
  <2>2. r.samples \in S
    BY <2>1
  <2>. QED
    BY <2>2 DEF S
<1>2. Range(r.samples) \subseteq Samples
  BY Zenon DEF Samples
<1>3. \A i \in DOMAIN r.samples : r.samples[i] \in Samples
  BY <1>2 DEF Range
<1>. QED
  BY <1>1, <1>3

LEMMA SamplesHaveTypes ==
  /\ Samples \subseteq SampleTypes
  /\ \A s \in Samples : s.field # "log" => s.field \in Fields
<1>1. ASSUME NEW s \in Samples
      PROVE  s \in SampleTypes
  <2>1. PICK r \in Records : s \in Range(r.samples)
    BY DEF Samples
  <2>2. r.samples \in Seq(SampleTypes)
    BY SamplesOfRecord
  <2>. QED
    BY <2>1, <2>2 DEF Range
<1>. QED
  BY <1>1 DEF Fields

\* What a batch becomes are samples of its records.
LEMMA EventsAreSamples ==
  ASSUME NEW x \in Exporters
  PROVE  Events(Sent(x)) \in Seq(Samples)
<1>. DEFINE batch == Sent(x)
            translated == [i \in DOMAIN batch |-> Translate(batch[i])]
<1>1. batch \in Seq(Records)
  BY SentIsBatch
<1>. HIDE DEF batch
<1>2. <<>> \in Seq(Samples) /\ \A i \in DOMAIN batch : batch[i].samples \in Seq(Samples)
  BY <1>1, SamplesOfRecord
<1>3. \A i \in DOMAIN batch : Translate(batch[i]) \in Seq(Samples)
  BY <1>2, Zenon DEF Translate
<1>4. translated \in Seq(Seq(Samples))
  <2>. DEFINE S == Seq(Samples)
  <2>. HIDE DEF S
  <2>1. translated \in Seq(S)
    BY <1>1, <1>3 DEF S
  <2>. QED
    BY <2>1 DEF S
<1>5. Events(batch) \in Seq(Samples)
  BY <1>4, FlattenType DEF Events
<1>. QED
  BY <1>5 DEF batch

-----------------------------------------------------------------------------
(* The subscription                                                         *)

LEMMA StreamFacts ==
  /\ MaxStream \in Nat /\ MaxDeliver \in Nat \ {0}
  /\ Entries = 1..MaxStream /\ Entries = Queue!Entries
  /\ Deliveries = Entries \X (1..MaxDeliver) /\ Deliveries = Queue!Deliveries
  /\ IsFiniteSet(Entries)
<1>1. MaxStream \in Nat /\ MaxDeliver \in Nat \ {0}
  BY ReadingsAssumption
<1>2. IsFiniteSet(1..MaxStream)
  BY <1>1, FS_Interval
<1>. QED
  BY <1>1, <1>2 DEF Entries, Deliveries, Queue!Entries, Queue!Deliveries

LEMMA DeliveryParts ==
  ASSUME NEW d \in Deliveries
  PROVE  d[1] \in Entries /\ d[2] \in 1..MaxDeliver
<1>. QED
  BY StreamFacts

\* With a window of one and handlers that end before their deadline, there is
\* one entry that the broker waits for, and one delivery of it in flight.
OneAtATime ==
  /\ Queue!TypeOK
  /\ \A e, f \in Queue!AckPending : e = f
  /\ \A d \in Queue!InFlight : broker[d[1]] = "pending" /\ attempts[d[1]] = d[2]

\* The queue's own steps keep the queue's type, whatever `process` does.
LEMMA QueueTypeStep ==
  ASSUME Queue!TypeOK, [Queue!Next]_queueVars
  PROVE  Queue!TypeOK'
<1>. USE StreamFacts, DeliveryParts
<1>1. CASE UNCHANGED queueVars
  BY <1>1 DEF queueVars, Queue!TypeOK
<1>2. CASE Queue!Publish
  BY <1>2 DEF Queue!TypeOK, Queue!Publish
<1>3. ASSUME NEW e \in Entries, Queue!Deliver(e)
      PROVE  Queue!TypeOK'
  <2>1. attempts' \in [Queue!Entries -> 0..MaxDeliver] /\ broker' \in [Queue!Entries -> Queue!BrokerStates]
    BY <1>3 DEF Queue!TypeOK, Queue!Deliver, Queue!BrokerStates
  <2>2. \A f \in Queue!Entries : broker'[f] = "due" => attempts'[f] < MaxDeliver
    BY <1>3 DEF Queue!TypeOK, Queue!Deliver
  <2>3. task' \in [Queue!Deliveries -> Queue!TaskStates]
    BY <1>3 DEF Queue!TypeOK, Queue!Deliver, Queue!TaskStates
  <2>. QED
    BY <1>3, <2>1, <2>2, <2>3 DEF Queue!TypeOK, Queue!Deliver
<1>4. ASSUME NEW e \in Entries, Queue!AckWaitExpires(e)
      PROVE  Queue!TypeOK'
  BY <1>4 DEF Queue!TypeOK, Queue!AckWaitExpires, Queue!Retry, Queue!BrokerStates
<1>5. ASSUME NEW d \in Deliveries,
             Queue!HandlerEnds(d) \/ Queue!Ack(d) \/ Queue!DeadLetter(d)
      PROVE  Queue!TypeOK'
  <2>1. CASE Queue!HandlerResolves(d)
    BY <2>1 DEF Queue!TypeOK, Queue!HandlerResolves, Queue!TaskStates
  <2>2. CASE Queue!Nak(d)
    BY <2>2 DEF Queue!TypeOK, Queue!Nak, Queue!Retry, Queue!TaskStates,
                Queue!BrokerStates
  <2>3. CASE Queue!GiveUp(d)
    BY <2>3 DEF Queue!TypeOK, Queue!GiveUp, Queue!TaskStates
  <2>4. CASE Queue!Ack(d)
    BY <2>4 DEF Queue!TypeOK, Queue!Ack, Queue!Acknowledged, Queue!TaskStates,
                Queue!BrokerStates
  <2>5. CASE Queue!DeadLetter(d)
    BY <2>5 DEF Queue!TypeOK, Queue!DeadLetter, Queue!TaskStates
  <2>. QED
    BY <1>5, <2>1, <2>2, <2>3, <2>4, <2>5 DEF Queue!HandlerEnds
<1>6. ASSUME Queue!Stop
      PROVE  Queue!TypeOK'
  BY <1>6 DEF Queue!TypeOK, Queue!Stop, Queue!Idle, Queue!TaskStates
<1>7. CASE Queue!Close \/ Queue!Closed \/ Queue!Restart
  BY <1>7 DEF Queue!TypeOK, Queue!Close, Queue!Closed, Queue!Restart
<1>. QED
  BY <1>1, <1>2, <1>3, <1>4, <1>5, <1>6, <1>7
     DEF Queue!Next, Queue!DeadLetterEnds, Queue!DeadLetterFails, Queue!Crash

\* Every step is a step of the subscription, or leaves it alone.
LEMMA QueueStep ==
  ASSUME [Next]_vars
  PROVE  [Queue!Next]_queueVars
<1>1. CASE UNCHANGED vars \/ Tick
  BY <1>1 DEF vars, Tick
<1>2. ASSUME NEW x \in Exporters,
             Send(x) \/ PublishEvent(x) \/ PublishFails(x) \/ Accept(x) \/ AnswerLost(x)
      PROVE  [Queue!Next]_queueVars
  BY <1>2 DEF Send, PublishEvent, PublishFails, Accept, AnswerLost, Enqueue, Queue!Next
<1>3. ASSUME NEW e \in Entries, Deliver(e) \/ AckWaitExpires(e)
      PROVE  [Queue!Next]_queueVars
  BY <1>3, StreamFacts DEF Deliver, AckWaitExpires, Queue!Next
<1>4. ASSUME NEW d \in Deliveries,
             Read(d) \/ LookUp(d) \/ Write(d) \/ Resolve(d) \/ Throw(d) \/ Settle(d)
      PROVE  [Queue!Next]_queueVars
  BY <1>4, StreamFacts
     DEF Read, LookUp, Write, Resolve, Throw, Settle, Queue!Next, Queue!HandlerEnds,
         Queue!DeadLetterEnds
<1>5. CASE Crash \/ Restart
  BY <1>5 DEF Crash, Restart, Queue!Next
<1>. QED
  BY <1>1, <1>2, <1>3, <1>4, <1>5 DEF Next

\* With nobody waited for, a delivery may begin; else only that of a due entry.
LEMMA NobodyPending ==
  ASSUME Queue!Cardinality(Queue!AckPending) < 1
  PROVE  Queue!AckPending = {}
<1>0. Queue!Cardinality(Queue!AckPending) = Cardinality(Queue!AckPending)
  BY DEF Queue!Cardinality, Cardinality
<1>1. Queue!AckPending \subseteq Entries
  BY StreamFacts DEF Queue!AckPending
<1>2. IsFiniteSet(Queue!AckPending)
  BY <1>1, StreamFacts, FS_Subset
<1>3. Cardinality(Queue!AckPending) \in Nat
  BY <1>2, FS_CardinalityType
<1>. QED
  BY <1>0, <1>2, <1>3, FS_EmptySet

\* Two deliveries in flight are one.
LEMMA Alone ==
  ASSUME OneAtATime, NEW c \in Deliveries, NEW d \in Deliveries,
         task[c] # "none", task[d] # "none"
  PROVE  c = d
<1>1. c \in Queue!InFlight /\ d \in Queue!InFlight
  BY StreamFacts DEF Queue!InFlight
<1>2. c[1] = d[1]
  BY <1>1, StreamFacts, DeliveryParts DEF OneAtATime, Queue!AckPending
<1>. QED
  BY <1>1, <1>2, StreamFacts DEF OneAtATime

\* A delivery begins when nothing is in flight and nothing else is waited for.
LEMMA BeforeDelivery ==
  ASSUME OneAtATime, NEW e \in Entries, Queue!Deliver(e)
  PROVE  /\ \A f \in Entries : broker[f] \in {"pending", "due"} => f = e
         /\ \A d \in Deliveries : task[d] = "none"
         /\ <<e, attempts[e] + 1>> \in Deliveries
         /\ attempts[e] \in Nat
<1>1. ASSUME NEW f \in Entries, broker[f] \in {"pending", "due"}
      PROVE  f = e
  <2>1. CASE broker[e] = "due"
    BY <1>1, <2>1, StreamFacts DEF OneAtATime, Queue!AckPending
  <2>2. CASE broker[e] # "due"
    <3>1. Queue!AckPending = {}
      BY <2>2, NobodyPending DEF Queue!Deliver, Queue!MayDeliver
    <3>. QED
      BY <1>1, <3>1, StreamFacts DEF Queue!AckPending
  <2>. QED
    BY <2>1, <2>2
<1>2. broker[e] \in {"new", "due"}
  BY DEF Queue!Deliver, Queue!MayDeliver
<1>3. ASSUME NEW d \in Deliveries, task[d] # "none"
      PROVE  FALSE
  <2>1. broker[d[1]] = "pending"
    BY <1>3, StreamFacts DEF OneAtATime, Queue!InFlight
  <2>. QED
    BY <1>1, <1>2, <2>1, DeliveryParts
<1>4. attempts[e] \in 0..MaxDeliver /\ attempts[e] < MaxDeliver
  BY StreamFacts DEF OneAtATime, Queue!TypeOK, Queue!Deliver
<1>5. <<e, attempts[e] + 1>> \in Deliveries
  BY <1>4, StreamFacts
<1>. QED
  BY <1>1, <1>3, <1>4, <1>5

\* The queue's own steps keep it so.
LEMMA OneAtATimeStep ==
  ASSUME ~HandlersMayOverrun, OneAtATime, [Queue!Next]_queueVars
  PROVE  OneAtATime'
<1>1. Queue!TypeOK'
  BY QueueTypeStep DEF OneAtATime
<1>. DEFINE Waited(e) == broker[e] \in {"pending", "due"}
            OneWaited == \A e, f \in Entries : Waited(e) /\ Waited(f) => e = f
            InStep == \A d \in Deliveries :
                        task[d] # "none" => broker[d[1]] = "pending" /\ attempts[d[1]] = d[2]
<1>2. OneWaited /\ InStep
  BY StreamFacts DEF OneAtATime, Queue!AckPending, Queue!InFlight
<1>3. SUFFICES OneWaited' /\ InStep'
  BY <1>1, StreamFacts DEF OneAtATime, Queue!AckPending, Queue!InFlight
<1>. USE DEF Queue!TypeOK, OneAtATime
<1>4. ASSUME UNCHANGED <<broker, attempts, task>>
      PROVE  OneWaited' /\ InStep'
  BY <1>2, <1>4
<1>5. ASSUME NEW e \in Entries, Queue!Deliver(e)
      PROVE  OneWaited' /\ InStep'
  <2>1. /\ \A f \in Entries : Waited(f) => f = e
        /\ \A d \in Deliveries : task[d] = "none"
    BY <1>5, BeforeDelivery
  <2>4. /\ broker' = [broker EXCEPT ![e] = "pending"]
        /\ attempts' = [attempts EXCEPT ![e] = attempts[e] + 1]
        /\ task' = [task EXCEPT ![<<e, attempts[e] + 1>>] = "handling"]
    BY <1>5 DEF Queue!Deliver
  <2>5. OneWaited'
    BY <2>1, <2>4, StreamFacts
  <2>6. \A d \in Deliveries : task'[d] # "none" => d = <<e, attempts[e] + 1>>
    BY <2>1, <2>4, StreamFacts
  <2>. QED
    BY <2>4, <2>5, <2>6, StreamFacts
<1>6. ASSUME NEW e \in Entries, Queue!AckWaitExpires(e)
      PROVE  OneWaited' /\ InStep'
  <2>1. \A d \in Deliveries : task[d] # "none" => d[1] # e
    BY <1>6, StreamFacts DEF Queue!AckWaitExpires, Queue!InFlight
  <2>2. /\ broker' = [broker EXCEPT ![e] = Queue!Retry(e)]
        /\ broker[e] = "pending"
        /\ UNCHANGED <<attempts, task>>
    BY <1>6 DEF Queue!AckWaitExpires
  <2>. QED
    BY <1>2, <2>1, <2>2, StreamFacts, DeliveryParts
<1>7. ASSUME NEW d \in Deliveries,
             \/ Queue!HandlerResolves(d) \/ Queue!GiveUp(d) \/ Queue!DeadLetter(d)
      PROVE  OneWaited' /\ InStep'
  BY <1>2, <1>7, StreamFacts DEF Queue!HandlerResolves, Queue!GiveUp, Queue!DeadLetter
<1>8. ASSUME NEW d \in Deliveries, Queue!Ack(d) \/ Queue!Nak(d)
      PROVE  OneWaited' /\ InStep'
  <2>1. task[d] # "none" /\ task' = [task EXCEPT ![d] = "none"] /\ UNCHANGED attempts
    BY <1>8 DEF Queue!Ack, Queue!Nak
  <2>2. broker[d[1]] = "pending"
    BY <1>2, <2>1
  <2>3. \E state : broker' = [broker EXCEPT ![d[1]] = state]
    BY <1>8 DEF Queue!Ack, Queue!Nak
  <2>4. \A c \in Deliveries : task'[c] # "none" => task[c] # "none" /\ c # d
    BY <2>1, StreamFacts
  <2>5. \A c \in Deliveries : task'[c] # "none" => c[1] # d[1]
    BY <1>2, <2>1, <2>4, Alone, StreamFacts
  <2>. QED
    BY <1>2, <2>1, <2>2, <2>3, <2>4, <2>5, StreamFacts, DeliveryParts
<1>9. ASSUME Queue!Stop
      PROVE  OneWaited' /\ InStep'
  BY <1>2, <1>9, StreamFacts DEF Queue!Stop, Queue!Idle
<1>. QED
  BY <1>4, <1>5, <1>6, <1>7, <1>8, <1>9, StreamFacts
     DEF Queue!Next, Queue!HandlerEnds, Queue!DeadLetterEnds, Queue!DeadLetterFails,
         Queue!Crash, Queue!Publish, Queue!Close, Queue!Closed, Queue!Restart, queueVars

\* An entry is delivered for the first time after all that precede it.
Begun(e) == broker[e] # "new"
InTurn ==
  \A e \in Entries : Begun(e) =>
    e <= published /\ \A f \in Entries : f < e => Begun(f)

LEMMA InTurnStep ==
  ASSUME Queue!TypeOK, InTurn, [Queue!Next]_queueVars
  PROVE  InTurn'
<1>0. published \in Nat /\ published' \in Nat /\ published <= published'
  <2>1. published \in Nat
    BY StreamFacts DEF Queue!TypeOK
  <2>2. published' \in {published, published + 1}
    BY DEF queueVars, Queue!Next, Queue!Publish, Queue!Deliver, Queue!AckWaitExpires,
           Queue!HandlerEnds, Queue!HandlerResolves, Queue!Nak, Queue!GiveUp, Queue!Ack,
           Queue!DeadLetterEnds, Queue!DeadLetter, Queue!DeadLetterFails, Queue!Crash,
           Queue!Stop, Queue!Close, Queue!Closed, Queue!Restart
  <2>. QED
    BY <2>1, <2>2
<1>1. ASSUME \A e \in Entries : Begun(e)' <=> Begun(e)
      PROVE  InTurn'
  BY <1>0, <1>1, StreamFacts DEF InTurn
<1>2. ASSUME NEW e \in Entries, Queue!Deliver(e)
      PROVE  InTurn'
  <2>1. \A f \in Entries : Begun(f)' <=> f = e \/ Begun(f)
    BY <1>2, StreamFacts DEF Queue!Deliver, Queue!TypeOK, Begun
  <2>2. e <= published /\ \A f \in Entries : f < e => Begun(f)
    BY <1>2, StreamFacts DEF Queue!Deliver, Queue!MayDeliver, InTurn, Begun
  <2>. QED
    BY <1>0, <2>1, <2>2, StreamFacts DEF InTurn
<1>3. ASSUME NEW e \in Entries, Queue!AckWaitExpires(e)
      PROVE  InTurn'
  <2>1. \A f \in Entries : Begun(f)' <=> Begun(f)
    BY <1>3, StreamFacts DEF Queue!AckWaitExpires, Queue!Retry, Queue!TypeOK, Begun
  <2>. QED
    BY <1>1, <2>1
<1>4. ASSUME NEW d \in Deliveries, Queue!Ack(d) \/ Queue!Nak(d)
      PROVE  InTurn'
  <2>1. \A f \in Entries : Begun(f)' <=> Begun(f)
    BY <1>4, StreamFacts, DeliveryParts
       DEF Queue!Ack, Queue!Acknowledged, Queue!Nak, Queue!Retry, Queue!TypeOK, Begun
  <2>. QED
    BY <1>1, <2>1
<1>5. ASSUME UNCHANGED broker
      PROVE  InTurn'
  BY <1>1, <1>5 DEF Begun
<1>. QED
  BY <1>2, <1>3, <1>4, <1>5, StreamFacts
     DEF Queue!Next, Queue!HandlerEnds, Queue!HandlerResolves, Queue!GiveUp, Queue!DeadLetterEnds,
         Queue!DeadLetter, Queue!DeadLetterFails, Queue!Crash, Queue!Stop, Queue!Publish,
         Queue!Close, Queue!Closed, Queue!Restart, queueVars

LEMMA QueueInit ==
  ASSUME Queue!Init
  PROVE  OneAtATime /\ InTurn
<1>1. Queue!TypeOK
  BY StreamFacts DEF Queue!Init, Queue!TypeOK, Queue!Idle, Queue!BrokerStates, Queue!TaskStates
<1>2. (\A e \in Entries : broker[e] = "new") /\ \A d \in Deliveries : task[d] = "none"
  BY StreamFacts DEF Queue!Init, Queue!Idle
<1>. QED
  BY <1>1, <1>2, StreamFacts DEF OneAtATime, InTurn, Begun, Queue!AckPending, Queue!InFlight

\* Telemetry is handled strictly in order, also when a delivery is retried, a
\* dead letter is written or the process restarts: one delivery is in flight at
\* most, and all that precedes it is settled.
THEOREM TelemetryInOrder ==
  ASSUME ~HandlersMayOverrun
  PROVE  Spec => []StrictOrder
<1>1. Init => OneAtATime /\ InTurn
  BY QueueInit DEF Init
<1>2. OneAtATime /\ InTurn /\ [Next]_vars => (OneAtATime /\ InTurn)'
  <2>1. SUFFICES ASSUME OneAtATime, InTurn, [Next]_vars
                 PROVE  OneAtATime' /\ InTurn'
    OBVIOUS
  <2>2. [Queue!Next]_queueVars
    BY <2>1, QueueStep
  <2>. QED
    BY <2>1, <2>2, OneAtATimeStep, InTurnStep DEF OneAtATime
<1>3. OneAtATime /\ InTurn => StrictOrder
  <2>1. SUFFICES ASSUME OneAtATime, InTurn, NEW d \in Deliveries, task[d] # "none"
                 PROVE  /\ \A c \in Deliveries : task[c] # "none" => c = d
                        /\ \A e \in Entries : e < d[1] => broker[e] \in {"acked", "dropped"}
    BY StreamFacts DEF StrictOrder, Queue!StrictOrder, Queue!InFlight
  <2>2. broker[d[1]] = "pending" /\ d[1] \in Entries
    BY <2>1, StreamFacts, DeliveryParts DEF OneAtATime, Queue!InFlight
  <2>3. ASSUME NEW e \in Entries, e < d[1]
        PROVE  broker[e] \in {"acked", "dropped"}
    <3>1. broker[e] # "new"
      BY <2>1, <2>2, <2>3 DEF InTurn, Begun
    <3>2. broker[e] \notin {"pending", "due"}
      BY <2>1, <2>2, <2>3, StreamFacts DEF OneAtATime, Queue!AckPending
    <3>3. broker[e] \in Queue!BrokerStates
      BY <2>1, StreamFacts DEF OneAtATime, Queue!TypeOK
    <3>. QED
      BY <3>1, <3>2, <3>3 DEF Queue!BrokerStates
  <2>. QED
    BY <2>1, <2>3, Alone
<1>. QED
  BY <1>1, <1>2, <1>3, PTL DEF Spec

-----------------------------------------------------------------------------
(* The data                                                                 *)

Values == [Fields -> KeptTypes \union {None}]
DeltaTypes == [entry : Nat, from : Nat, to : Nat]
EngineTypes == [seen : SUBSET Nat, watermark : Nat, counted : Seq(DeltaTypes)]
Stored == [id : Exporters \X Nat \X Nat \X Nat, sample : Samples]

ExporterType ==
  /\ sending \in [Exporters -> Nat] /\ attempt \in [Exporters -> Nat]
  /\ request \in [Exporters -> (Nat \ {0}) \union {None}]

StreamType == content \in Seq(Stored) /\ Len(content) = published

DataType ==
  /\ now \in Nat
  /\ reading \in [samples : Values, until : Nat]
  /\ held \in [Deliveries -> [at : {"start", "read", "done"}, samples : Values]]
  /\ engine \in EngineTypes /\ saved \in EngineTypes

\* Who has read the resource state is under way, with a sample of a field.
ReadByHandler ==
  \A d \in Deliveries :
    held[d].at = "read" => task[d] = "handling" /\ Event(d).field # "log"

LEMMA EntryIsStored ==
  ASSUME OneAtATime, InTurn, StreamType, NEW d \in Deliveries, task[d] # "none"
  PROVE  d[1] \in DOMAIN content /\ Event(d) \in Samples
<1>1. broker[d[1]] = "pending" /\ d[1] \in Entries
  BY StreamFacts, DeliveryParts DEF OneAtATime, Queue!InFlight
<1>2. d[1] \in 1..published
  BY <1>1, StreamFacts DEF InTurn, Begun, OneAtATime, Queue!TypeOK
<1>3. d[1] \in DOMAIN content
  BY <1>2 DEF StreamType
<1>4. content[d[1]] \in Stored
  BY <1>3 DEF StreamType
<1>. QED
  BY <1>3, <1>4 DEF Event, Stored

LEMMA SampleParts ==
  ASSUME NEW r \in Samples
  PROVE  /\ r.time \in Nat /\ r \in SampleTypes
         /\ r.field # "log" => r.field \in Fields
<1>. QED
  BY SamplesHaveTypes DEF SampleTypes

\* Publishing appends a sample of the batch.
LEMMA Enqueues ==
  ASSUME ExporterType, StreamType, Queue!TypeOK, NEW x \in Exporters, Publishing(x),
         Enqueue(x, request[x]) \/ UNCHANGED <<queueVars, content>>
  PROVE  /\ StreamType'
         /\ UNCHANGED <<attempts, broker, task, client, handled, dlq>>
         /\ \A k \in DOMAIN content : content'[k] = content[k]
<1>1. CASE UNCHANGED <<queueVars, content>>
  BY <1>1 DEF queueVars, StreamType
<1>2. CASE ~UNCHANGED <<queueVars, content>>
  <2>. DEFINE k == request[x]
              new == [id |-> EventId(x, k), sample |-> Events(Sent(x))[k]]
  <2>1. Queue!Publish /\ content' = Append(content, new)
    BY <1>2 DEF Enqueue
  <2>2. k \in Nat \ {0} /\ k <= Len(Events(Sent(x)))
    BY DEF Publishing, ExporterType
  <2>3. Events(Sent(x))[k] \in Samples
    BY <2>2, EventsAreSamples
  <2>4. EventId(x, k) \in Exporters \X Nat \X Nat \X Nat
    BY <2>2 DEF EventId, ExporterType
  <2>5. new \in Stored
    BY <2>3, <2>4 DEF Stored
  <2>. HIDE DEF k, new
  <2>6. content' \in Seq(Stored) /\ Len(content') = Len(content) + 1
    BY <2>1, <2>5 DEF StreamType
  <2>7. \A i \in DOMAIN content : content'[i] = content[i]
    BY <2>1, <2>5 DEF StreamType
  <2>. QED
    BY <2>1, <2>6, <2>7 DEF Queue!Publish, StreamType
<1>. QED
  BY <1>1, <1>2

\* The steps of an exporter, as far as others see them.
LEMMA ExporterStep ==
  ASSUME ExporterType, StreamType, Queue!TypeOK, NEW x \in Exporters,
         Send(x) \/ PublishEvent(x) \/ PublishFails(x) \/ Accept(x) \/ AnswerLost(x)
  PROVE  /\ ExporterType' /\ StreamType'
         /\ UNCHANGED <<attempts, broker, task, client, handled, dlq>>
         /\ UNCHANGED <<now, reading, held, engine, saved, ahead>>
         /\ \A k \in DOMAIN content : content'[k] = content[k]
<1>1. NextBatch(x) => sending' \in [Exporters -> Nat] /\ attempt' \in [Exporters -> Nat]
  BY DEF NextBatch, ExporterType
<1>2. \A r \in (Nat \ {0}) \union {None} :
        Ask(x, r) => request' \in [Exporters -> (Nat \ {0}) \union {None}]
  BY DEF Ask, ExporterType
<1>3. Again(x) => ExporterType'
  <2>1. SUFFICES ASSUME Again(x) PROVE ExporterType'
    OBVIOUS
  <2>2. request' \in [Exporters -> (Nat \ {0}) \union {None}]
    BY <1>2, <2>1 DEF Again
  <2>3. CASE attempt[x] < MaxAttempts
    <3>1. attempt' = [attempt EXCEPT ![x] = @ + 1] /\ sending' = sending
      BY <2>1, <2>3 DEF Again
    <3>. QED
      BY <2>2, <3>1 DEF ExporterType
  <2>4. CASE ~(attempt[x] < MaxAttempts)
    BY <1>1, <2>1, <2>2, <2>4 DEF Again, ExporterType
  <2>. QED
    BY <2>3, <2>4
<1>4. CASE Send(x)
  <2>1. ExporterType'
    BY <1>1, <1>2, <1>4 DEF Send, exporter, ExporterType
  <2>. QED
    BY <1>4, <2>1 DEF Send, queueVars, counting, StreamType
<1>5. CASE PublishEvent(x)
  <2>1. request[x] + 1 \in (Nat \ {0}) \union {None}
    BY <1>5 DEF PublishEvent, Publishing, ExporterType
  <2>2. ExporterType'
    BY <1>2, <1>5, <2>1 DEF PublishEvent, exporter, ExporterType
  <2>. QED
    BY <1>5, <2>2, Enqueues DEF PublishEvent, counting
<1>6. CASE PublishFails(x)
  BY <1>3, <1>6, Enqueues DEF PublishFails, counting
<1>7. CASE Accept(x)
  <2>1. ExporterType'
    BY <1>1, <1>2, <1>7 DEF Accept, ExporterType
  <2>. QED
    BY <1>7, <2>1 DEF Accept, queueVars, counting, StreamType
<1>8. CASE AnswerLost(x)
  BY <1>3, <1>8 DEF AnswerLost, queueVars, counting, StreamType
<1>. QED
  BY <1>4, <1>5, <1>6, <1>7, <1>8

\* What of a key has not expired.
LEMMA UnexpiredParts ==
  ASSUME DataType
  PROVE  /\ Unexpired(reading) \in Values
         /\ \A f \in Fields :
              IF Unexpired(reading)[f] # None
              THEN /\ Unexpired(reading)[f] = reading.samples[f]
                   /\ reading.until > now /\ reading.samples[f].time + Ttl > now
              ELSE \/ reading.samples[f] = None
                   \/ reading.until <= now
                   \/ reading.samples[f].time + Ttl <= now
<1>1. now \in Nat /\ reading.samples \in Values /\ reading.until \in Nat
  BY DEF DataType
<1>2. \A f \in Fields : reading.samples[f] # None => reading.samples[f].time \in Nat
  BY <1>1 DEF Values, KeptTypes
<1>3. Unexpired(reading) \in Values
  BY <1>1 DEF Unexpired, Values
<1>. QED
  BY <1>1, <1>2, <1>3, ReadingsAssumption DEF Unexpired

LEMMA UnreadType == Unread \in Values /\ NotRead.at = "start" /\ NotRead.samples = Unread
<1>. QED
  BY DEF Unread, Values, NotRead

\* A handler that begins, or goes on, holds an entry of the stream.
DataInv == ExporterType /\ StreamType /\ DataType /\ ReadByHandler

LEMMA DataInit ==
  ASSUME Init
  PROVE  DataInv
<1>1. ExporterType
  BY DEF Init, ExporterType
<1>2. StreamType
  BY DEF Init, StreamType, Queue!Init
<1>3. DataType
  <2>1. NothingSeen \in EngineTypes
    BY DEF NothingSeen, EngineTypes
  <2>. QED
    BY <2>1, UnreadType DEF Init, DataType, NoKey, NotRead
<1>4. ReadByHandler
  BY DEF Init, ReadByHandler, NotRead
<1>. QED
  BY <1>1, <1>2, <1>3, <1>4 DEF DataInv

\* What the steps of a handler do to what it holds.
HoldsNow(d, h) ==
  \A c \in Deliveries : held'[c] = IF c = d THEN h ELSE held[c]

LEMMA HoldingStep ==
  ASSUME DataType, NEW d \in Deliveries, NEW at \in {"start", "read", "done"},
         NEW samples \in Values, held' = [held EXCEPT ![d] = [at |-> at, samples |-> samples]]
  PROVE  /\ held' \in [Deliveries -> [at : {"start", "read", "done"}, samples : Values]]
         /\ HoldsNow(d, [at |-> at, samples |-> samples])
<1>. QED
  BY DEF DataType, HoldsNow

LEMMA DoneIs == [NotRead EXCEPT !.at = "done"] = [at |-> "done", samples |-> Unread]
<1>. QED
  BY DEF NotRead

\* A write: of a sample that is newer than what was read, if it is.
LEMMA WriteParts ==
  ASSUME OneAtATime, InTurn, DataInv, NEW d \in Deliveries, Write(d)
  PROVE  /\ HoldsNow(d, [at |-> "done", samples |-> Unread])
         /\ held[d].at = "read" /\ task[d] = "handling"
         /\ Event(d) \in Samples /\ Event(d).field \in Fields /\ Event(d).time \in Nat
         /\ held[d].samples \in Values
         /\ held[d].samples[Event(d).field] \in KeptTypes \union {None}
         /\ reading' = IF Newer(Event(d), held[d].samples[Event(d).field])
                       THEN [samples |-> [held[d].samples EXCEPT ![Event(d).field] =
                                            Kept(Event(d), held[d].samples[Event(d).field])],
                             until |-> now + Ttl]
                       ELSE reading
         /\ engine' = IF Event(d).field = "restart"
                      THEN Evaluate(d[1], Event(d).time,
                                    Standing(Event(d), held[d].samples[Event(d).field]))
                      ELSE engine
         /\ UNCHANGED <<queueVars, exporter, content, now, saved, ahead>>
<1>1. held[d].at = "read" /\ task[d] = "handling"
  BY DEF Write
<1>2. Event(d) \in Samples /\ Event(d).field # "log"
  BY <1>1, EntryIsStored DEF DataInv, ReadByHandler
<1>3. Event(d).field \in Fields /\ Event(d).time \in Nat
  BY <1>2, SampleParts
<1>4. HoldsNow(d, [at |-> "done", samples |-> Unread])
  BY HoldingStep, DoneIs, UnreadType DEF Write, DataInv
<1>5. held[d].samples \in Values
  BY DEF DataInv, DataType
<1>6. held[d].samples[Event(d).field] \in KeptTypes \union {None}
  BY <1>3, <1>5 DEF Values
<1>. QED
  BY <1>1, <1>2, <1>3, <1>4, <1>5, <1>6 DEF Write

\* What stands after an update is a sample kept, and what is counted a delta.
LEMMA StandingType ==
  ASSUME NEW r \in SampleTypes, NEW previous \in KeptTypes \union {None}
  PROVE  Kept(r, previous) \in KeptTypes /\ Standing(r, previous) \in KeptTypes
<1>1. r.value \in Nat /\ r.time \in Nat /\ (previous # None => previous.time \in Nat)
  BY DEF SampleTypes, KeptTypes
<1>2. Kept(r, previous) \in KeptTypes
  BY <1>1 DEF Kept, Delta, KeptTypes
<1>3. ~Newer(r, previous) => previous \in KeptTypes
  BY DEF Newer
<1>. QED
  BY <1>2, <1>3 DEF Standing

LEMMA CountingParts ==
  ASSUME engine \in EngineTypes, NEW entry \in Nat, NEW s \in KeptTypes
  PROVE  IF s.since = None THEN Counting(entry, s) = engine.counted
         ELSE /\ [entry |-> entry, from |-> s.since, to |-> s.time] \in DeltaTypes
              /\ Counting(entry, s) \in Seq(DeltaTypes)
              /\ DOMAIN Counting(entry, s) = 1..(Len(engine.counted) + 1)
              /\ DOMAIN engine.counted = 1..Len(engine.counted) /\ Len(engine.counted) \in Nat
              /\ \A j \in DOMAIN engine.counted : Counting(entry, s)[j] = engine.counted[j]
              /\ Counting(entry, s)[Len(engine.counted) + 1] =
                   [entry |-> entry, from |-> s.since, to |-> s.time]
<1>1. CASE s.since = None
  BY <1>1 DEF Counting
<1>2. CASE s.since # None
  <2>1. engine.counted \in Seq(DeltaTypes)
    BY DEF EngineTypes
  <2>2. PICK delta : delta = [entry |-> entry, from |-> s.since, to |-> s.time]
    OBVIOUS
  <2>3. delta \in DeltaTypes
    BY <1>2, <2>2 DEF DeltaTypes, KeptTypes
  <2>4. Counting(entry, s) = Append(engine.counted, delta)
    BY <1>2, <2>2 DEF Counting
  <2>5. /\ Append(engine.counted, delta) \in Seq(DeltaTypes)
        /\ DOMAIN Append(engine.counted, delta) = 1..(Len(engine.counted) + 1)
        /\ DOMAIN engine.counted = 1..Len(engine.counted) /\ Len(engine.counted) \in Nat
        /\ \A j \in DOMAIN engine.counted : Append(engine.counted, delta)[j] = engine.counted[j]
        /\ Append(engine.counted, delta)[Len(engine.counted) + 1] = delta
    BY <2>1, <2>3
  <2>. QED
    BY <1>2, <2>2, <2>3, <2>4, <2>5
<1>. QED
  BY <1>1, <1>2

LEMMA EvaluateType ==
  ASSUME engine \in EngineTypes, NEW entry \in Nat, NEW time \in Nat, NEW s \in KeptTypes
  PROVE  Evaluate(entry, time, s) \in EngineTypes
<1>1. Counting(entry, s) \in Seq(DeltaTypes)
  BY CountingParts DEF EngineTypes
<1>2. engine.seen \union {entry} \in SUBSET Nat
  BY DEF EngineTypes
<1>. QED
  BY <1>1, <1>2 DEF Evaluate, EngineTypes

LEMMA WriteType ==
  ASSUME OneAtATime, InTurn, DataInv, NEW d \in Deliveries, Write(d)
  PROVE  DataType'
<1>. DEFINE r == Event(d)
            previous == held[d].samples[r.field]
<1>1. UNCHANGED <<now, saved>> /\ held' \in [Deliveries -> [at : {"start", "read", "done"}, samples : Values]]
  BY HoldingStep, DoneIs, UnreadType DEF Write, DataInv
<1>2. r \in SampleTypes /\ r.time \in Nat /\ previous \in KeptTypes \union {None}
  BY WriteParts, SampleParts
<1>3. Kept(r, previous) \in KeptTypes /\ Standing(r, previous) \in KeptTypes
  BY <1>2, StandingType
<1>4. engine' \in EngineTypes
  <2>1. d[1] \in Nat /\ engine \in EngineTypes
    BY DeliveryParts, StreamFacts DEF DataInv, DataType
  <2>2. Evaluate(d[1], r.time, Standing(r, previous)) \in EngineTypes
    BY <1>2, <1>3, <2>1, EvaluateType
  <2>. QED
    BY <2>1, <2>2, WriteParts
<1>5. reading' \in [samples : Values, until : Nat]
  <2>1. now + Ttl \in Nat
    BY ReadingsAssumption DEF DataInv, DataType
  <2>2. [held[d].samples EXCEPT ![r.field] = Kept(r, previous)] \in Values
    BY <1>3, WriteParts DEF Values
  <2>3. reading \in [samples : Values, until : Nat]
    BY DEF DataInv, DataType
  <2>. QED
    BY <2>1, <2>2, <2>3, WriteParts
<1>. QED
  BY <1>1, <1>4, <1>5 DEF DataInv, DataType

\* A step that leaves the data alone: the queue's, but for its handlers, and time.
LEMMA OtherSteps ==
  ASSUME DataInv, OneAtATime,
         \/ \E e \in Entries : Deliver(e) \/ AckWaitExpires(e)
         \/ \E d \in Deliveries : Settle(d)
         \/ Restart \/ Tick \/ UNCHANGED vars
  PROVE  /\ UNCHANGED <<exporter, request, content, published, reading, held, engine, saved, ahead>>
         /\ now' \in Nat /\ now <= now'
         /\ \A d \in Deliveries : task[d] = "handling" => task'[d] = "handling"
<1>1. now \in Nat
  BY DEF DataInv, DataType
<1>2. CASE UNCHANGED vars
  BY <1>1, <1>2 DEF vars, queueVars, counting
<1>3. CASE Tick
  BY <1>1, <1>3 DEF Tick, queueVars, counting
<1>4. CASE Restart
  BY <1>1, <1>4 DEF Restart, Queue!Restart, counting
<1>5. ASSUME NEW e \in Entries, Deliver(e)
      PROVE  /\ UNCHANGED <<exporter, request, content, published, reading, held, engine, saved, ahead, now>>
             /\ \A d \in Deliveries : task[d] = "handling" => task'[d] = "handling"
  BY <1>5, StreamFacts DEF Deliver, Queue!Deliver, counting, OneAtATime, Queue!TypeOK
<1>6. ASSUME NEW e \in Entries, AckWaitExpires(e)
      PROVE  UNCHANGED <<exporter, request, content, published, reading, held, engine, saved, ahead, now, task>>
  BY <1>6 DEF AckWaitExpires, Queue!AckWaitExpires, counting
<1>7. ASSUME NEW d \in Deliveries, Settle(d)
      PROVE  /\ UNCHANGED <<exporter, request, content, published, reading, held, engine, saved, ahead, now>>
             /\ \A c \in Deliveries : task[c] = "handling" => task'[c] = "handling"
  <2>1. UNCHANGED <<exporter, request, content, reading, held, engine, saved, ahead, now>>
    BY <1>7 DEF Settle, counting
  <2>2. /\ task[d] \in {"resolved", "deadlettering"} /\ UNCHANGED published
        /\ \E state : task' = [task EXCEPT ![d] = state]
    BY <1>7 DEF Settle, Queue!Ack, Queue!DeadLetter
  <2>. QED
    BY <2>1, <2>2, StreamFacts DEF OneAtATime, Queue!TypeOK
<1>. QED
  BY <1>1, <1>2, <1>3, <1>4, <1>5, <1>6, <1>7

\* The steps of a handler that read and write nothing, and a crash.
LEMMA EndSteps ==
  ASSUME DataInv, OneAtATime,
         Crash \/ \E d \in Deliveries : Resolve(d) \/ Throw(d)
  PROVE  /\ UNCHANGED <<exporter, request, content, published, reading, ahead, now>>
         /\ {engine', saved'} \subseteq {engine, saved}
         /\ held' \in [Deliveries -> [at : {"start", "read", "done"}, samples : Values]]
         /\ \A d \in Deliveries :
              held'[d].at = "read" => held'[d] = held[d] /\ task'[d] = task[d]
<1>1. CASE Crash
  <2>1. /\ UNCHANGED <<exporter, request, content, published, reading, ahead, now>>
        /\ {engine', saved'} \subseteq {engine, saved}
    BY <1>1 DEF Crash, Queue!Crash, Queue!Stop
  <2>2. \A d \in Deliveries : held'[d] = NotRead
    BY <1>1 DEF Crash
  <2>3. held' \in [Deliveries -> [at : {"start", "read", "done"}, samples : Values]]
    BY <1>1, UnreadType DEF Crash, NotRead
  <2>. QED
    BY <2>1, <2>2, <2>3, UnreadType
<1>2. ASSUME NEW d \in Deliveries, Resolve(d) \/ Throw(d)
      PROVE  /\ UNCHANGED <<exporter, request, content, published, reading, ahead, now>>
             /\ {engine', saved'} \subseteq {engine, saved}
             /\ held' \in [Deliveries -> [at : {"start", "read", "done"}, samples : Values]]
             /\ \A c \in Deliveries :
                  held'[c].at = "read" => held'[c] = held[c] /\ task'[c] = task[c]
  <2>1. /\ UNCHANGED <<exporter, request, content, reading, ahead, now>>
        /\ {engine', saved'} \subseteq {engine, saved}
    BY <1>2 DEF Resolve, Throw
  <2>2. UNCHANGED published /\ \E state : task' = [task EXCEPT ![d] = state]
    BY <1>2 DEF Resolve, Throw, Queue!HandlerResolves, Queue!Nak, Queue!GiveUp
  <2>3. held' = [held EXCEPT ![d] = [at |-> "start", samples |-> Unread]]
    BY <1>2 DEF Resolve, Throw, Drop, NotRead
  <2>4. /\ held' \in [Deliveries -> [at : {"start", "read", "done"}, samples : Values]]
        /\ HoldsNow(d, [at |-> "start", samples |-> Unread])
    BY <2>3, HoldingStep, UnreadType DEF DataInv
  <2>5. \A c \in Deliveries : c # d => held'[c] = held[c] /\ task'[c] = task[c]
    BY <2>2, <2>4, StreamFacts DEF HoldsNow, OneAtATime, Queue!TypeOK
  <2>6. held'[d].at = "start"
    BY <2>4 DEF HoldsNow
  <2>. QED
    BY <2>1, <2>2, <2>4, <2>5, <2>6
<1>. QED
  BY <1>1, <1>2

\* Looking up: a key of which everything has expired is deleted.
LEMMA LookUpParts ==
  ASSUME DataInv, NEW d \in Deliveries, LookUp(d)
  PROVE  /\ HoldsNow(d, [at |-> "done", samples |-> Unread])
         /\ held' \in [Deliveries -> [at : {"start", "read", "done"}, samples : Values]]
         /\ reading' = reading \/ (Unexpired(reading) = Unread /\ reading' = NoKey)
         /\ reading' \in [samples : Values, until : Nat]
         /\ UNCHANGED <<queueVars, exporter, request, content, now, engine, saved, ahead>>
<1>1. held' = [held EXCEPT ![d] = [at |-> "done", samples |-> Unread]]
  BY DoneIs DEF LookUp
<1>2. NoKey \in [samples : Values, until : Nat]
  BY UnreadType DEF NoKey
<1>. QED
  BY <1>1, <1>2, HoldingStep, UnreadType DEF LookUp, DataInv, DataType, counting

\* Reading: a sample in time, and what has not expired.
LEMMA ReadParts ==
  ASSUME OneAtATime, InTurn, DataInv, NEW d \in Deliveries, Read(d)
  PROVE  /\ HoldsNow(d, [at |-> "read", samples |-> Unexpired(reading)])
         /\ held' \in [Deliveries -> [at : {"start", "read", "done"}, samples : Values]]
         /\ task[d] = "handling" /\ Event(d) \in Samples /\ Event(d).field # "log"
         /\ Event(d).time \in Nat /\ Event(d).time + Ttl > now
         /\ ahead' = (ahead \/ Event(d).time > now)
         /\ UNCHANGED <<queueVars, exporter, request, content, now, reading, engine, saved>>
<1>1. held' = [held EXCEPT ![d] = [at |-> "read", samples |-> Unexpired(reading)]]
  BY DEF Read
<1>2. task[d] = "handling" /\ Event(d).field # "log" /\ Event(d).time + Ttl > now
  BY DEF Read, Begins, InTime
<1>3. Event(d) \in Samples /\ Event(d).time \in Nat
  BY <1>2, EntryIsStored, SampleParts DEF DataInv
<1>. QED
  BY <1>1, <1>2, <1>3, HoldingStep, UnexpiredParts DEF Read, DataInv

LEMMA DataStep ==
  ASSUME OneAtATime, InTurn, DataInv, [Next]_vars
  PROVE  DataInv'
<1>0. /\ ExporterType /\ StreamType /\ DataType /\ ReadByHandler /\ Queue!TypeOK
      /\ \A d \in Deliveries : held[d].at = "read" => Event(d) \in Samples /\ d[1] \in DOMAIN content
  BY EntryIsStored DEF DataInv, OneAtATime, ReadByHandler
<1>1. ASSUME NEW x \in Exporters,
             Send(x) \/ PublishEvent(x) \/ PublishFails(x) \/ Accept(x) \/ AnswerLost(x)
      PROVE  DataInv'
  <2>1. /\ ExporterType' /\ StreamType'
        /\ UNCHANGED <<task, now, reading, held, engine, saved>>
        /\ \A k \in DOMAIN content : content'[k] = content[k]
    BY <1>0, <1>1, ExporterStep
  <2>2. DataType'
    BY <1>0, <2>1 DEF DataType
  <2>3. ReadByHandler'
    BY <1>0, <2>1 DEF ReadByHandler, Event
  <2>. QED
    BY <2>1, <2>2, <2>3 DEF DataInv
<1>2. ASSUME \/ \E e \in Entries : Deliver(e) \/ AckWaitExpires(e)
             \/ \E d \in Deliveries : Settle(d)
             \/ Restart \/ Tick \/ UNCHANGED vars
      PROVE  DataInv'
  <2>1. /\ UNCHANGED <<exporter, request, content, published, reading, held, engine, saved>>
        /\ now' \in Nat
        /\ \A d \in Deliveries : task[d] = "handling" => task'[d] = "handling"
    BY <1>2, OtherSteps
  <2>2. ExporterType' /\ StreamType'
    BY <1>0, <2>1 DEF ExporterType, StreamType, exporter
  <2>3. DataType' /\ ReadByHandler'
    BY <1>0, <2>1 DEF DataType, ReadByHandler, Event
  <2>. QED
    BY <2>2, <2>3 DEF DataInv
<1>3. ASSUME Crash \/ \E d \in Deliveries : Resolve(d) \/ Throw(d)
      PROVE  DataInv'
  <2>1. /\ UNCHANGED <<exporter, request, content, published, reading, now>>
        /\ {engine', saved'} \subseteq {engine, saved}
        /\ held' \in [Deliveries -> [at : {"start", "read", "done"}, samples : Values]]
        /\ \A d \in Deliveries :
             held'[d].at = "read" => held'[d] = held[d] /\ task'[d] = task[d]
    BY <1>3, EndSteps
  <2>2. ExporterType' /\ StreamType'
    BY <1>0, <2>1 DEF ExporterType, StreamType, exporter
  <2>3. DataType' /\ ReadByHandler'
    BY <1>0, <2>1 DEF DataType, ReadByHandler, Event
  <2>. QED
    BY <2>2, <2>3 DEF DataInv
<1>4. ASSUME NEW d \in Deliveries, Read(d)
      PROVE  DataInv'
  <2>1. /\ HoldsNow(d, [at |-> "read", samples |-> Unexpired(reading)])
        /\ held' \in [Deliveries -> [at : {"start", "read", "done"}, samples : Values]]
        /\ task[d] = "handling" /\ Event(d).field # "log"
        /\ UNCHANGED <<queueVars, exporter, request, content, now, reading, engine, saved>>
    BY <1>4, ReadParts
  <2>2. ExporterType' /\ StreamType' /\ DataType'
    BY <1>0, <2>1 DEF ExporterType, StreamType, DataType, exporter, queueVars
  <2>3. ReadByHandler'
    BY <1>0, <2>1 DEF ReadByHandler, HoldsNow, Event, queueVars
  <2>. QED
    BY <2>2, <2>3 DEF DataInv
<1>5. ASSUME NEW d \in Deliveries, LookUp(d)
      PROVE  DataInv'
  <2>1. /\ HoldsNow(d, [at |-> "done", samples |-> Unread])
        /\ held' \in [Deliveries -> [at : {"start", "read", "done"}, samples : Values]]
        /\ reading' \in [samples : Values, until : Nat]
        /\ UNCHANGED <<queueVars, exporter, request, content, now, engine, saved>>
    BY <1>5, LookUpParts
  <2>2. ExporterType' /\ StreamType' /\ DataType'
    BY <1>0, <2>1 DEF ExporterType, StreamType, DataType, exporter, queueVars
  <2>3. ReadByHandler'
    BY <1>0, <2>1 DEF ReadByHandler, HoldsNow, Event, queueVars
  <2>. QED
    BY <2>2, <2>3 DEF DataInv
<1>6. ASSUME NEW d \in Deliveries, Write(d)
      PROVE  DataInv'
  <2>1. /\ HoldsNow(d, [at |-> "done", samples |-> Unread])
        /\ UNCHANGED <<queueVars, exporter, content, now>>
    BY <1>6, WriteParts
  <2>2. ExporterType' /\ StreamType'
    BY <1>0, <1>6, <2>1 DEF ExporterType, StreamType, exporter, queueVars, Write
  <2>3. ReadByHandler'
    BY <1>0, <2>1 DEF ReadByHandler, HoldsNow, Event, queueVars
  <2>. QED
    BY <1>6, <2>2, <2>3, WriteType DEF DataInv
<1>. QED
  BY <1>1, <1>2, <1>3, <1>4, <1>5, <1>6 DEF Next

-----------------------------------------------------------------------------
(* What is counted                                                          *)

\* The deltas counted, by the rules or by what they would be taken back to.
Deltas == Range(engine.counted) \union Range(saved.counted)

\* A delta is not later than the sample that stands, and either before its delta
\* or the same; or it is older than anything that can be read any more.
Behind(i, s) ==
  IF s # None
  THEN /\ i.to <= s.time
       /\ s.since # None => i.to <= s.since \/ (i.from = s.since /\ i.to = s.time)
  ELSE i.to + Ttl <= now

\* As long as no sample was ahead of the clock, the reading is of the past and
\* the key lives as long as its samples, ...
ReadingIsPast ==
  \A f \in Fields : reading.samples[f] # None =>
    reading.samples[f].time <= now /\ reading.samples[f].time + Ttl <= reading.until

\* ... as is what a handler has read of it, ...
HeldIsPast ==
  \A d \in Deliveries : held[d].at = "read" =>
    /\ Event(d).time <= now
    /\ \A f \in Fields : held[d].samples[f] # None =>
         held[d].samples[f].time <= now /\ reading.samples[f] = held[d].samples[f]

\* ... and the deltas are behind what the next one begins with.
ReadingIsLast ==
  \A i \in Deltas : "restart" \in Fields /\ Behind(i, reading.samples["restart"])

HeldIsLast ==
  \A d \in Deliveries : held[d].at = "read" =>
    \A i \in Deltas :
      /\ Behind(i, held[d].samples["restart"])
      /\ held[d].samples["restart"] = None => i.to < Event(d).time

Ordered(rules) ==
  /\ \A j \in DOMAIN rules.counted : rules.counted[j].entry \in rules.seen
  /\ \A j, k \in DOMAIN rules.counted : j < k =>
       /\ rules.counted[j].entry # rules.counted[k].entry
       /\ Follows(rules.counted[j], rules.counted[k]) \/ Same(rules.counted[j], rules.counted[k])

CountInv ==
  /\ ReadingIsPast /\ HeldIsPast /\ ReadingIsLast /\ HeldIsLast
  /\ Ordered(engine) /\ Ordered(saved)

LEMMA TimesAreNaturals ==
  ASSUME DataInv
  PROVE  /\ now \in Nat /\ Ttl \in Nat /\ reading.until \in Nat
         /\ \A f \in Fields : reading.samples[f] # None => reading.samples[f].time \in Nat
         /\ \A d \in Deliveries : \A f \in Fields :
              held[d].samples[f] # None => held[d].samples[f].time \in Nat
         /\ \A i \in Deltas : i.from \in Nat /\ i.to \in Nat
         /\ None \notin Nat
<1>1. /\ now \in Nat /\ reading.until \in Nat /\ reading.samples \in Values
      /\ \A d \in Deliveries : held[d].samples \in Values
      /\ engine.counted \in Seq(DeltaTypes) /\ saved.counted \in Seq(DeltaTypes)
  BY DEF DataInv, DataType, EngineTypes
<1>2. \A samples \in Values : \A f \in Fields : samples[f] # None => samples[f].time \in Nat
  BY DEF Values, KeptTypes
<1>3. Deltas \subseteq DeltaTypes
  BY <1>1 DEF Deltas, Range
<1>. QED
  BY <1>1, <1>2, <1>3, ReadingsAssumption DEF DeltaTypes

\* What follows a delta that is behind the reading is behind what of it has not
\* expired.
LEMMA StillBehind ==
  ASSUME DataInv, ReadingIsPast, ReadingIsLast, NEW i \in Deltas
  PROVE  "restart" \in Fields /\ Behind(i, Unexpired(reading)["restart"])
<1>1. "restart" \in Fields /\ Behind(i, reading.samples["restart"])
  BY DEF ReadingIsLast
<1>2. CASE Unexpired(reading)["restart"] # None
  BY <1>1, <1>2, UnexpiredParts DEF DataInv
<1>3. CASE Unexpired(reading)["restart"] = None
  <2>1. PICK t \in Nat : t = i.to
    BY TimesAreNaturals
  <2>2. PICK s : s = reading.samples["restart"]
    OBVIOUS
  <2>3. now \in Nat /\ Ttl \in Nat /\ reading.until \in Nat /\ (s # None => s.time \in Nat)
    BY <1>1, <2>2, TimesAreNaturals
  <2>4. /\ IF s # None THEN t <= s.time ELSE t + Ttl <= now
        /\ s # None => s.time + Ttl <= reading.until
        /\ s = None \/ reading.until <= now \/ s.time + Ttl <= now
    BY <1>1, <1>3, <2>1, <2>2, UnexpiredParts DEF Behind, ReadingIsPast, DataInv
  <2>5. t + Ttl <= now
    BY <2>3, <2>4
  <2>. QED
    BY <1>1, <1>3, <2>1, <2>5 DEF Behind
<1>. QED
  BY <1>1, <1>2, <1>3

\* Time passes, and what was behind is behind.
LEMMA BehindLater ==
  ASSUME DataInv, NEW i \in Deltas, NEW s, Behind(i, s), now' \in Nat, now <= now'
  PROVE  Behind(i, s)'
<1>. QED
  BY TimesAreNaturals DEF Behind

\* Nothing is read, written or counted: time may pass, handlers may end, and the
\* rules be saved or taken back.
LEMMA CountKept ==
  ASSUME DataInv, OneAtATime, InTurn, CountInv,
         UNCHANGED reading, {engine', saved'} \subseteq {engine, saved}, now' \in Nat, now <= now',
         \A d \in Deliveries : held'[d].at = "read" =>
           held'[d] = held[d] /\ Event(d)' = Event(d)
  PROVE  CountInv'
<1>1. \A d \in Deliveries : held[d].at = "read" => Event(d).time \in Nat
  BY EntryIsStored, SampleParts DEF DataInv, ReadByHandler
<1>2. Deltas' \subseteq Deltas /\ Ordered(engine)' /\ Ordered(saved)'
  BY DEF Deltas, CountInv, Ordered
<1>3. ReadingIsPast'
  BY TimesAreNaturals DEF CountInv, ReadingIsPast
<1>4. HeldIsPast'
  BY <1>1, TimesAreNaturals DEF CountInv, HeldIsPast
<1>5. ReadingIsLast'
  <2>1. \A i \in Deltas : "restart" \in Fields /\ Behind(i, reading.samples["restart"])
    BY DEF CountInv, ReadingIsLast
  <2>2. \A i \in Deltas : IF reading.samples["restart"] # None THEN TRUE ELSE i.to + Ttl <= now'
    BY <2>1, TimesAreNaturals DEF Behind
  <2>. QED
    BY <1>2, <2>1, <2>2 DEF ReadingIsLast, Behind
<1>6. HeldIsLast'
  <2>1. ASSUME NEW d \in Deliveries, held'[d].at = "read", NEW i \in Deltas
        PROVE  /\ Behind(i, held[d].samples["restart"])
               /\ held[d].samples["restart"] = None => i.to < Event(d).time
               /\ IF held[d].samples["restart"] # None THEN TRUE ELSE i.to + Ttl <= now'
    BY <2>1, TimesAreNaturals DEF CountInv, HeldIsLast, Behind
  <2>. QED
    BY <1>2, <2>1 DEF HeldIsLast, Behind
<1>. QED
  BY <1>2, <1>3, <1>4, <1>5, <1>6 DEF CountInv

LEMMA CountRead ==
  ASSUME DataInv, OneAtATime, InTurn, CountInv, NEW d \in Deliveries, Read(d), ~ahead'
  PROVE  CountInv'
<1>1. /\ HoldsNow(d, [at |-> "read", samples |-> Unexpired(reading)])
      /\ Event(d).time \in Nat /\ Event(d).time + Ttl > now /\ Event(d).time <= now
      /\ UNCHANGED <<content, now, reading, engine, saved>>
  <2>1. ~(Event(d).time > now) /\ Event(d).time \in Nat /\ now \in Nat
    BY ReadParts, TimesAreNaturals
  <2>. QED
    BY <2>1, ReadParts
<1>2. ReadingIsPast /\ HeldIsPast /\ ReadingIsLast /\ HeldIsLast
  BY DEF CountInv
<1>3. \A c \in Deliveries : held'[c].at = "read" =>
        IF c = d THEN held'[c].samples = Unexpired(reading) ELSE held'[c] = held[c]
  BY <1>1 DEF HoldsNow
<1>4. HeldIsPast'
  <2>1. \A f \in Fields : Unexpired(reading)[f] # None =>
          Unexpired(reading)[f].time <= now /\ reading.samples[f] = Unexpired(reading)[f]
    BY <1>2, UnexpiredParts DEF ReadingIsPast, DataInv
  <2>. QED
    BY <1>1, <1>2, <1>3, <2>1 DEF HeldIsPast, Event
<1>5. HeldIsLast'
  <2>1. ASSUME NEW i \in Deltas
        PROVE  /\ Behind(i, Unexpired(reading)["restart"])
               /\ Unexpired(reading)["restart"] = None => i.to < Event(d).time
    <3>1. Behind(i, Unexpired(reading)["restart"])
      BY <1>2, StillBehind
    <3>. QED
      BY <1>1, <3>1, TimesAreNaturals DEF Behind
  <2>2. Deltas' = Deltas
    BY <1>1 DEF Deltas
  <2>. QED
    BY <1>1, <1>2, <1>3, <2>1, <2>2 DEF HeldIsLast, Event, Behind
<1>. QED
  BY <1>1, <1>4, <1>5 DEF CountInv, ReadingIsPast, ReadingIsLast, Behind, Ordered, Deltas

LEMMA CountLookUp ==
  ASSUME DataInv, OneAtATime, InTurn, CountInv, NEW d \in Deliveries, LookUp(d)
  PROVE  CountInv'
<1>1. /\ HoldsNow(d, [at |-> "done", samples |-> Unread])
      /\ reading' = reading \/ (Unexpired(reading) = Unread /\ reading' = NoKey)
      /\ UNCHANGED <<content, now, engine, saved>>
  BY LookUpParts
<1>2. \A c \in Deliveries : held'[c].at = "read" => held'[c] = held[c] /\ Event(c)' = Event(c)
  BY <1>1 DEF HoldsNow, Event
<1>3. CASE reading' = reading
  BY <1>1, <1>2, <1>3, CountKept, TimesAreNaturals
<1>4. CASE Unexpired(reading) = Unread /\ reading' = NoKey
  <2>1. \A f \in Fields : reading'.samples[f] = None /\ Unexpired(reading)[f] = None
    BY <1>4 DEF NoKey, Unread
  <2>2. ReadingIsPast'
    BY <2>1 DEF ReadingIsPast
  <2>3. ReadingIsLast'
    <3>1. \A i \in Deltas : "restart" \in Fields /\ i.to + Ttl <= now
      BY <2>1, StillBehind DEF CountInv, Behind
    <3>2. Deltas' = Deltas
      BY <1>1 DEF Deltas
    <3>. QED
      BY <1>1, <2>1, <3>1, <3>2 DEF ReadingIsLast, Behind
  <2>4. \A c \in Deliveries : held'[c].at # "read"
    <3>1. task[d] = "handling" /\ held[d].at = "start"
      BY DEF LookUp, Begins
    <3>2. \A c \in Deliveries : held[c].at # "read"
      BY <3>1, Alone DEF DataInv, ReadByHandler
    <3>. QED
      BY <1>1, <3>2 DEF HoldsNow
  <2>5. HeldIsPast' /\ HeldIsLast'
    BY <2>4 DEF HeldIsPast, HeldIsLast
  <2>. QED
    BY <1>1, <2>2, <2>3, <2>5 DEF CountInv, Ordered
<1>. QED
  BY <1>1, <1>3, <1>4

\* An evaluation counts a delta that is not behind it, if any, and once.
LEMMA EvaluateOrders ==
  ASSUME engine \in EngineTypes, Ordered(engine), NEW entry \in Nat, NEW time \in Nat,
         NEW s \in KeptTypes, \A i \in Range(engine.counted) : Behind(i, s)
  PROVE  /\ Ordered(Evaluate(entry, time, s))
         /\ \A i \in Range(Evaluate(entry, time, s).counted) :
              \/ i \in Range(engine.counted)
              \/ s.since # None /\ i = [entry |-> entry, from |-> s.since, to |-> s.time]
<1>1. CASE entry \in engine.seen \/ time < engine.watermark
  BY <1>1 DEF Evaluate
<1>2. CASE ~(entry \in engine.seen \/ time < engine.watermark)
  <2>. DEFINE new == Evaluate(entry, time, s)
  <2>1. new.seen = engine.seen \union {entry} /\ new.counted = Counting(entry, s)
    BY <1>2 DEF Evaluate
  <2>. HIDE DEF new
  <2>2. CASE s.since = None
    <3>1. new.counted = engine.counted
      BY <2>1, <2>2 DEF Counting
    <3>. QED
      BY <2>1, <3>1 DEF Ordered, new
  <2>3. CASE s.since # None
    <3>. DEFINE n == Len(engine.counted)
                delta == [entry |-> entry, from |-> s.since, to |-> s.time]
    <3>1. /\ DOMAIN new.counted = 1..(n + 1) /\ DOMAIN engine.counted = 1..n /\ n \in Nat
          /\ \A j \in 1..n : new.counted[j] = engine.counted[j]
          /\ new.counted[n + 1] = delta
      BY <2>1, <2>3, CountingParts
    <3>2. delta.entry = entry /\ delta.from = s.since /\ delta.to = s.time
      OBVIOUS
    <3>. HIDE DEF n, delta
    <3>3. \A j \in 1..n : engine.counted[j] \in Range(engine.counted)
      BY <3>1 DEF Range
    <3>4. \A j \in 1..n :
            /\ engine.counted[j].entry # entry
            /\ Follows(engine.counted[j], delta) \/ Same(engine.counted[j], delta)
      <4>1. \A j \in 1..n : engine.counted[j].entry \in engine.seen
        BY <3>1 DEF Ordered
      <4>2. \A j \in 1..n : /\ engine.counted[j].to <= s.since
                               \/ (engine.counted[j].from = s.since /\ engine.counted[j].to = s.time)
        <5>1. s # None
          BY ReadingsAssumption
        <5>. QED
          BY <2>3, <3>3, <5>1 DEF Behind
      <4>. QED
        BY <1>2, <3>2, <4>1, <4>2 DEF Follows, Same
    <3>5. \A j \in DOMAIN new.counted : new.counted[j].entry \in new.seen
      <4>1. \A j \in DOMAIN new.counted : j \in 1..n \/ j = n + 1
        BY <3>1
      <4>. QED
        BY <2>1, <3>1, <3>2, <4>1 DEF Ordered
    <3>6. ASSUME NEW j \in DOMAIN new.counted, NEW k \in DOMAIN new.counted, j < k
          PROVE  /\ new.counted[j].entry # new.counted[k].entry
                 /\ Follows(new.counted[j], new.counted[k]) \/ Same(new.counted[j], new.counted[k])
      <4>1. j \in 1..n
        BY <3>1, <3>6
      <4>2. CASE k = n + 1
        BY <3>1, <3>2, <3>4, <4>1, <4>2
      <4>3. CASE k # n + 1
        <5>1. k \in 1..n
          BY <3>1, <4>3
        <5>. QED
          BY <3>1, <3>6, <4>1, <5>1 DEF Ordered
      <4>. QED
        BY <4>2, <4>3
    <3>7. \A i \in Range(new.counted) : i \in Range(engine.counted) \/ i = delta
      <4>1. \A j \in DOMAIN new.counted : j \in 1..n \/ j = n + 1
        BY <3>1
      <4>. QED
        BY <3>1, <3>3, <4>1 DEF Range
    <3>. QED
      BY <2>3, <3>5, <3>6, <3>7 DEF Ordered, new, delta
  <2>. QED
    BY <2>2, <2>3
<1>. QED
  BY <1>1, <1>2

\* What stands after an update, newer or not, is not before any delta.
LEMMA StandingIsLast ==
  ASSUME DataInv, OneAtATime, InTurn, CountInv, NEW d \in Deliveries, Write(d),
         Event(d).field = "restart"
  PROVE  LET s == Standing(Event(d), held[d].samples["restart"])
         IN /\ \A i \in Deltas : Behind(i, s)
            /\ reading'.samples["restart"] = s
<1>. DEFINE r == Event(d)
            previous == held[d].samples["restart"]
<1>1. /\ held[d].at = "read" /\ "restart" \in Fields /\ r \in Samples /\ r.time \in Nat
      /\ previous \in KeptTypes \union {None} /\ held[d].samples \in Values
      /\ reading' = IF Newer(r, previous)
                    THEN [samples |-> [held[d].samples EXCEPT !["restart"] = Kept(r, previous)],
                          until |-> now + Ttl]
                    ELSE reading
  BY WriteParts
<1>2. \A i \in Deltas :
        /\ Behind(i, previous) /\ (previous = None => i.to < r.time)
        /\ i.to \in Nat
  BY <1>1, TimesAreNaturals DEF CountInv, HeldIsLast
<1>3. CASE Newer(r, previous)
  <2>1. Standing(r, previous) = Kept(r, previous) /\ Kept(r, previous) \in KeptTypes
    BY <1>1, <1>3, StandingType, SampleParts DEF Standing
  <2>2. reading'.samples["restart"] = Kept(r, previous)
    BY <1>1, <1>3 DEF Values
  <2>3. ASSUME NEW i \in Deltas
        PROVE  Behind(i, Kept(r, previous))
    <3>1. /\ Kept(r, previous) # None /\ Kept(r, previous).time = r.time
          /\ Kept(r, previous).since # None =>
               previous # None /\ Kept(r, previous).since = previous.time
      BY <2>1, ReadingsAssumption DEF Kept, Delta
    <3>2. previous # None => previous.time \in Nat /\ previous.time < r.time /\ i.to <= previous.time
      BY <1>1, <1>2, <1>3 DEF Newer, Behind, KeptTypes
    <3>3. i.to <= r.time
      BY <1>1, <1>2, <3>2
    <3>. QED
      BY <3>1, <3>2, <3>3 DEF Behind
  <2>. QED
    BY <2>1, <2>2, <2>3
<1>4. CASE ~Newer(r, previous)
  <2>1. previous # None /\ Standing(r, previous) = previous
    BY <1>4 DEF Newer, Standing
  <2>2. reading.samples["restart"] = previous
    BY <1>1, <2>1 DEF CountInv, HeldIsPast
  <2>. QED
    BY <1>1, <1>2, <1>4, <2>1, <2>2
<1>. QED
  BY <1>3, <1>4

\* What is counted by an update, and what stands after it.
LEMMA WriteCounts ==
  ASSUME DataInv, OneAtATime, InTurn, CountInv, NEW d \in Deliveries, Write(d)
  PROVE  Ordered(engine') /\ ReadingIsLast'
<1>1. /\ held[d].at = "read" /\ Event(d) \in Samples /\ Event(d).field \in Fields
      /\ Event(d).time \in Nat /\ held[d].samples \in Values
      /\ UNCHANGED <<now, saved>>
  BY WriteParts
<1>2. /\ engine \in EngineTypes /\ d[1] \in Nat /\ Ordered(engine)
      /\ \A i \in Deltas : "restart" \in Fields /\ Behind(i, reading.samples["restart"])
  BY DeliveryParts, StreamFacts DEF DataInv, DataType, CountInv, ReadingIsLast
<1>3. CASE Event(d).field # "restart"
  <2>1. engine' = engine
    BY <1>3, WriteParts
  <2>2. reading'.samples["restart"] \in {reading.samples["restart"], held[d].samples["restart"]}
        \/ "restart" \notin Fields
    BY <1>1, <1>3, WriteParts DEF Values
  <2>3. Deltas' = Deltas /\ \A i \in Deltas : Behind(i, held[d].samples["restart"])
    BY <1>1, <2>1 DEF Deltas, CountInv, HeldIsLast
  <2>. QED
    BY <1>1, <1>2, <2>1, <2>2, <2>3 DEF ReadingIsLast, Behind
<1>4. CASE Event(d).field = "restart"
  <2>. DEFINE s == Standing(Event(d), held[d].samples["restart"])
  <2>1. s \in KeptTypes
    BY <1>1, <1>4, WriteParts, StandingType, SampleParts
  <2>2. (\A i \in Deltas : Behind(i, s)) /\ reading'.samples["restart"] = s
    BY <1>4, StandingIsLast
  <2>3. engine' = Evaluate(d[1], Event(d).time, s)
    BY <1>4, WriteParts
  <2>. HIDE DEF s
  <2>4. \A i \in Range(engine.counted) : Behind(i, s)
    BY <2>2 DEF Deltas
  <2>5. /\ Ordered(engine')
        /\ \A i \in Range(engine'.counted) :
             \/ i \in Range(engine.counted)
             \/ s.since # None /\ i = [entry |-> d[1], from |-> s.since, to |-> s.time]
    BY <1>1, <1>2, <2>1, <2>3, <2>4, EvaluateOrders
  <2>6. ASSUME NEW i \in Deltas'
        PROVE  Behind(i, s)
    <3>1. CASE i \in Deltas
      BY <2>2, <3>1
    <3>2. CASE i = [entry |-> d[1], from |-> s.since, to |-> s.time]
      <4>1. i.from = s.since /\ i.to = s.time /\ s # None /\ s.time <= s.time
        BY <2>1, <3>2, ReadingsAssumption DEF KeptTypes
      <4>. QED
        BY <4>1 DEF Behind
    <3>. QED
      BY <1>1, <2>5, <3>1, <3>2 DEF Deltas
  <2>7. "restart" \in Fields
    BY <1>1, <1>4
  <2>. QED
    BY <1>1, <2>2, <2>5, <2>6, <2>7 DEF ReadingIsLast, Behind
<1>. QED
  BY <1>3, <1>4

LEMMA CountWrite ==
  ASSUME DataInv, OneAtATime, InTurn, CountInv, NEW d \in Deliveries, Write(d)
  PROVE  CountInv'
<1>. DEFINE r == Event(d)
            old == held[d].samples
            previous == old[r.field]
<1>1. /\ HoldsNow(d, [at |-> "done", samples |-> Unread])
      /\ held[d].at = "read" /\ task[d] = "handling"
      /\ r \in Samples /\ r.field \in Fields /\ r.time \in Nat
      /\ old \in Values
      /\ UNCHANGED <<now, saved>>
  BY WriteParts
<1>2. \A c \in Deliveries : held'[c].at # "read"
  <2>1. \A c \in Deliveries : held[c].at = "read" => c = d
    BY <1>1, Alone DEF DataInv, ReadByHandler
  <2>. QED
    BY <1>1, <2>1 DEF HoldsNow
<1>3. HeldIsPast' /\ HeldIsLast'
  BY <1>2 DEF HeldIsPast, HeldIsLast
<1>4. ReadingIsPast'
  <2>1. CASE Newer(r, previous)
    <3>1. reading' = [samples |-> [old EXCEPT ![r.field] = Kept(r, previous)], until |-> now + Ttl]
      BY <2>1, WriteParts
    <3>2. \A f \in Fields : reading'.samples[f] = IF f = r.field THEN Kept(r, previous) ELSE old[f]
      BY <1>1, <3>1 DEF Values
    <3>3. Kept(r, previous).time = r.time /\ reading'.until = now + Ttl
      BY <3>1 DEF Kept
    <3>4. /\ r.time <= now /\ now \in Nat /\ Ttl \in Nat
          /\ \A f \in Fields : old[f] # None => old[f].time <= now /\ old[f].time \in Nat
      BY <1>1, TimesAreNaturals DEF CountInv, HeldIsPast
    <3>. HIDE DEF r, old
    <3>. QED
      BY <1>1, <3>2, <3>3, <3>4 DEF ReadingIsPast
  <2>2. CASE ~Newer(r, previous)
    BY <1>1, <2>2, WriteParts DEF CountInv, ReadingIsPast
  <2>. QED
    BY <2>1, <2>2
<1>5. Ordered(engine)' /\ Ordered(saved)' /\ ReadingIsLast'
  BY <1>1, WriteCounts DEF CountInv, Ordered
<1>. QED
  BY <1>3, <1>4, <1>5 DEF CountInv

\* A message counts once, and no two deltas count a part of each other, as long
\* as no sample was ahead of the clock: whatever was sent again, redelivered, out
\* of order, expired, taken back by a rollback or lost with the process.
THEOREM NoRestartTwice ==
  ASSUME ~HandlersMayOverrun
  PROVE  Spec => []RestartsCountedOnce
<1>. DEFINE Inv == OneAtATime /\ InTurn /\ DataInv /\ (ahead \/ CountInv)
<1>1. Init => Inv
  <2>1. SUFFICES ASSUME Init PROVE Inv
    OBVIOUS
  <2>2. /\ engine.counted = <<>> /\ saved.counted = <<>>
        /\ \A f \in Fields : reading.samples[f] = None
        /\ \A d \in Deliveries : held[d].at = "start"
    BY <2>1 DEF Init, NoKey, NotRead, Unread, NothingSeen
  <2>3. Deltas = {}
    BY <2>2 DEF Deltas, Range
  <2>4. CountInv
    BY <2>2, <2>3 DEF CountInv, ReadingIsPast, HeldIsPast, ReadingIsLast, HeldIsLast, Ordered
  <2>. QED
    BY <2>1, <2>4, QueueInit, DataInit DEF Init
<1>2. Inv /\ [Next]_vars => Inv'
  <2>1. SUFFICES ASSUME Inv, [Next]_vars
                 PROVE  Inv'
    OBVIOUS
  <2>2. OneAtATime' /\ InTurn' /\ DataInv'
    BY <2>1, QueueStep, OneAtATimeStep, InTurnStep, DataStep DEF OneAtATime
  <2>3. SUFFICES ASSUME ~ahead' PROVE CountInv'
    BY <2>2
  <2>4. now \in Nat /\ ExporterType /\ StreamType /\ Queue!TypeOK
        /\ \A d \in Deliveries : held[d].at = "read" => d[1] \in DOMAIN content
    BY <2>1, EntryIsStored DEF DataInv, DataType, OneAtATime, ReadByHandler
  <2>5. ASSUME NEW x \in Exporters,
               Send(x) \/ PublishEvent(x) \/ PublishFails(x) \/ Accept(x) \/ AnswerLost(x)
        PROVE  CountInv'
    <3>1. /\ UNCHANGED <<now, reading, held, engine, saved, ahead>>
          /\ \A k \in DOMAIN content : content'[k] = content[k]
      BY <2>4, <2>5, ExporterStep
    <3>2. \A d \in Deliveries : held'[d].at = "read" => held'[d] = held[d] /\ Event(d)' = Event(d)
      BY <2>4, <3>1 DEF Event
    <3>. QED
      BY <2>1, <2>3, <2>4, <3>1, <3>2, CountKept
  <2>6. ASSUME \/ \E e \in Entries : Deliver(e) \/ AckWaitExpires(e)
               \/ \E d \in Deliveries : Settle(d)
               \/ Restart \/ Tick \/ UNCHANGED vars
        PROVE  CountInv'
    <3>1. UNCHANGED <<content, reading, held, engine, saved, ahead>> /\ now' \in Nat /\ now <= now'
      BY <2>1, <2>6, OtherSteps
    <3>. QED
      BY <2>1, <2>3, <3>1, CountKept DEF Event
  <2>7. ASSUME Crash \/ \E d \in Deliveries : Resolve(d) \/ Throw(d)
        PROVE  CountInv'
    <3>1. /\ UNCHANGED <<content, reading, ahead, now>>
          /\ {engine', saved'} \subseteq {engine, saved}
          /\ \A d \in Deliveries : held'[d].at = "read" => held'[d] = held[d]
      BY <2>1, <2>7, EndSteps
    <3>. QED
      BY <2>1, <2>3, <2>4, <3>1, CountKept DEF Event
  <2>8. ASSUME NEW d \in Deliveries, Read(d)
        PROVE  CountInv'
    BY <2>1, <2>3, <2>8, CountRead, ReadParts
  <2>9. ASSUME NEW d \in Deliveries, LookUp(d) \/ Write(d)
        PROVE  CountInv'
    BY <2>1, <2>3, <2>9, CountLookUp, CountWrite, LookUpParts, WriteParts
  <2>. QED
    BY <2>1, <2>5, <2>6, <2>7, <2>8, <2>9 DEF Next
<1>3. Inv => RestartsCountedOnce
  BY DEF CountInv, Ordered, RestartsCountedOnce
<1>. QED
  BY <1>1, <1>2, <1>3, PTL DEF Spec

=============================================================================
