---------------------- MODULE TelemetryProcessorProofs ----------------------
(***************************************************************************)
(* What TelemetryProcessor guarantees for every stream of telemetry, every *)
(* set of rules, number of deliveries and stabilization period: if no      *)
(* handler outlives its deadline, an acknowledged entry is complete and an *)
(* incident is resolved only when healthy; and if, besides, rollbacks      *)
(* succeed and resource states last, the rules and the incidents agree.    *)
(***************************************************************************)
EXTENDS TelemetryProcessor, FiniteSetTheorems, SequenceTheorems, TLAPS

(* The stream *)

LEMMA StreamFacts ==
  /\ MaxStream \in Nat
  /\ Entries = 1..MaxStream
  /\ Entries = Queue!Entries
  /\ IsFiniteSet(Entries)
  /\ Deliveries = Entries \X (1..MaxDeliver)
  /\ Deliveries = Queue!Deliveries
<1>1. MaxStream \in Nat /\ Entries = 1..MaxStream
  BY RuleAssumption DEF MaxStream, Entries
<1>2. Entries = Queue!Entries
  BY <1>1 DEF Queue!Entries
<1>3. IsFiniteSet(1..MaxStream)
  BY <1>1, FS_Interval
<1>. QED
  BY <1>1, <1>2, <1>3 DEF Deliveries, Queue!Deliveries

LEMMA DeliveryParts ==
  ASSUME NEW d \in Deliveries
  PROVE  /\ d[1] \in Entries
         /\ d[2] \in 1..MaxDeliver
         /\ TimeOf(d) \in Times
         /\ TimeOf(d) \in Nat \ {0}
<1>1. d[1] \in Entries /\ d[2] \in 1..MaxDeliver
  BY StreamFacts
<1>2. Telemetry[d[1]] \in Events
  BY <1>1, RuleAssumption DEF Entries
<1>. QED
  BY <1>1, <1>2 DEF TimeOf, Times, Events

-----------------------------------------------------------------------------
(* One delivery at a time *)

\* With a window of one and handlers that end before their deadline, there is
\* one entry that the broker waits for, and one delivery of it in flight.
OneAtATime ==
  /\ Queue!TypeOK
  /\ \A e, f \in Queue!AckPending : e = f
  /\ \A d \in Queue!InFlight : broker[d[1]] = "pending" /\ attempts[d[1]] = d[2]

\* The queue's own steps keep the queue's type, whatever `process` does.
LEMMA QueueTypeStep ==
  ASSUME Queue!TypeOK, [Queue!Next]_queueVars
  PROVE  Queue!TypeOK'
<1>. USE StreamFacts, DeliveryParts, ProcessorAssumption
<1>1. CASE UNCHANGED queueVars
  BY <1>1 DEF queueVars, Queue!TypeOK
<1>2. CASE Queue!Publish
  BY <1>2 DEF Queue!TypeOK, Queue!Publish
<1>3. ASSUME NEW e \in Entries, Queue!Deliver(e)
      PROVE  Queue!TypeOK'
  <2>1. attempts' \in [Queue!Entries -> 0..MaxDeliver] /\ broker' \in [Queue!Entries -> Queue!BrokerStates]
    BY <1>3 DEF Queue!TypeOK, Queue!Deliver, Queue!BrokerStates
  <2>2. \A f \in Queue!Entries : broker'[f] = "due" => attempts'[f] < MaxDeliver
    BY <1>3 DEF Queue!TypeOK, Queue!Deliver
  <2>3. task' \in [Queue!Deliveries -> Queue!TaskStates]
    BY <1>3 DEF Queue!TypeOK, Queue!Deliver, Queue!TaskStates
  <2>. QED
    BY <1>3, <2>1, <2>2, <2>3 DEF Queue!TypeOK, Queue!Deliver
<1>4. ASSUME NEW e \in Entries, Queue!AckWaitExpires(e)
      PROVE  Queue!TypeOK'
  BY <1>4 DEF Queue!TypeOK, Queue!AckWaitExpires, Queue!Retry, Queue!BrokerStates
<1>5. ASSUME NEW d \in Deliveries,
             Queue!HandlerEnds(d) \/ Queue!Ack(d) \/ Queue!DeadLetter(d)
      PROVE  Queue!TypeOK'
  <2>1. CASE Queue!HandlerResolves(d)
    BY <2>1 DEF Queue!TypeOK, Queue!HandlerResolves, Queue!TaskStates
  <2>2. CASE Queue!Nak(d)
    BY <2>2 DEF Queue!TypeOK, Queue!Nak, Queue!Retry, Queue!TaskStates,
                Queue!BrokerStates
  <2>3. CASE Queue!GiveUp(d)
    BY <2>3 DEF Queue!TypeOK, Queue!GiveUp, Queue!TaskStates
  <2>4. CASE Queue!Ack(d)
    BY <2>4 DEF Queue!TypeOK, Queue!Ack, Queue!Acknowledged, Queue!TaskStates,
                Queue!BrokerStates
  <2>5. CASE Queue!DeadLetter(d)
    BY <2>5 DEF Queue!TypeOK, Queue!DeadLetter, Queue!TaskStates
  <2>. QED
    BY <1>5, <2>1, <2>2, <2>3, <2>4, <2>5 DEF Queue!HandlerEnds
<1>6. ASSUME Queue!Stop
      PROVE  Queue!TypeOK'
  BY <1>6 DEF Queue!TypeOK, Queue!Stop, Queue!Idle, Queue!TaskStates
<1>7. CASE Queue!Close \/ Queue!Closed \/ Queue!Restart
  BY <1>7 DEF Queue!TypeOK, Queue!Close, Queue!Closed, Queue!Restart
<1>. QED
  BY <1>1, <1>2, <1>3, <1>4, <1>5, <1>6, <1>7
     DEF Queue!Next, Queue!DeadLetterEnds, Queue!DeadLetterFails, Queue!Crash

\* Every step of the processor is a step of its subscription, or leaves it alone.
LEMMA QueueStep ==
  ASSUME Next
  PROVE  [Queue!Next]_queueVars
<1>1. CASE Publish \/ Crash \/ BeginDestroy \/ EndDestroy \/ Restart
  BY <1>1 DEF Publish, Crash, BeginDestroy, EndDestroy, Restart, Queue!Next
<1>2. ASSUME NEW e \in Entries, Receive(e) \/ AckWaitExpires(e)
      PROVE  [Queue!Next]_queueVars
  BY <1>2, StreamFacts DEF Receive, AckWaitExpires, Queue!Next
<1>3. ASSUME NEW d \in Deliveries, ProcessStep(d)
      PROVE  [Queue!Next]_queueVars
  <2>1. CASE ProcessResolves(d) \/ ProcessRejects(d)
    BY <2>1, StreamFacts DEF ProcessResolves, ProcessRejects, Queue!Next, Queue!HandlerEnds
  <2>2. CASE ~(ProcessResolves(d) \/ ProcessRejects(d))
    BY <1>3, <2>2
       DEF ProcessStep, Begin, BeginFails, EvaluateRules, Correlate, PublishUpdated,
           PublishLifecycle, ShouldAdvance, Advance, Commit, Complete, Fail, Rollback,
           RollbackFails, Release
  <2>. QED
    BY <2>1, <2>2
<1>4. ASSUME NEW d \in Deliveries, Ack(d) \/ DeadLetter(d) \/ DeadLetterFails(d)
      PROVE  [Queue!Next]_queueVars
  BY <1>4, StreamFacts DEF Ack, DeadLetter, DeadLetterFails, Queue!Next, Queue!DeadLetterEnds
<1>. QED
  BY <1>1, <1>2, <1>3, <1>4 DEF Next

\* With nobody waited for, a delivery may begin; else only that of a due entry.
LEMMA NobodyPending ==
  ASSUME Queue!Cardinality(Queue!AckPending) < 1
  PROVE  Queue!AckPending = {}
<1>0. Queue!Cardinality(Queue!AckPending) = Cardinality(Queue!AckPending)
  BY DEF Queue!Cardinality, Cardinality
<1>1. Queue!AckPending \subseteq Entries
  BY StreamFacts DEF Queue!AckPending
<1>2. IsFiniteSet(Queue!AckPending)
  BY <1>1, StreamFacts, FS_Subset
<1>3. Cardinality(Queue!AckPending) \in Nat
  BY <1>2, FS_CardinalityType
<1>. QED
  BY <1>0, <1>2, <1>3, FS_EmptySet

\* Two deliveries in flight are one.
LEMMA Alone ==
  ASSUME OneAtATime, NEW c \in Deliveries, NEW d \in Deliveries,
         task[c] # "none", task[d] # "none"
  PROVE  c = d
<1>1. c \in Queue!InFlight /\ d \in Queue!InFlight
  BY StreamFacts DEF Queue!InFlight
<1>2. c[1] = d[1]
  BY <1>1, StreamFacts, DeliveryParts DEF OneAtATime, Queue!AckPending
<1>. QED
  BY <1>1, <1>2, StreamFacts DEF OneAtATime

\* A delivery begins when nothing is in flight and nothing else is waited for.
LEMMA BeforeDelivery ==
  ASSUME OneAtATime, NEW e \in Entries, Queue!Deliver(e)
  PROVE  /\ \A f \in Entries : broker[f] \in {"pending", "due"} => f = e
         /\ \A d \in Deliveries : task[d] = "none"
         /\ <<e, attempts[e] + 1>> \in Deliveries
         /\ attempts[e] \in Nat
<1>1. ASSUME NEW f \in Entries, broker[f] \in {"pending", "due"}
      PROVE  f = e
  <2>1. CASE broker[e] = "due"
    BY <1>1, <2>1, StreamFacts DEF OneAtATime, Queue!AckPending
  <2>2. CASE broker[e] # "due"
    <3>1. Queue!AckPending = {}
      BY <2>2, NobodyPending DEF Queue!Deliver, Queue!MayDeliver
    <3>. QED
      BY <1>1, <3>1, StreamFacts DEF Queue!AckPending
  <2>. QED
    BY <2>1, <2>2
<1>2. broker[e] \in {"new", "due"}
  BY DEF Queue!Deliver, Queue!MayDeliver
<1>3. ASSUME NEW d \in Deliveries, task[d] # "none"
      PROVE  FALSE
  <2>1. broker[d[1]] = "pending"
    BY <1>3, StreamFacts DEF OneAtATime, Queue!InFlight
  <2>. QED
    BY <1>1, <1>2, <2>1, DeliveryParts
<1>4. attempts[e] \in 0..MaxDeliver /\ attempts[e] < MaxDeliver
  BY StreamFacts DEF OneAtATime, Queue!TypeOK, Queue!Deliver
<1>5. <<e, attempts[e] + 1>> \in Deliveries
  BY <1>4, StreamFacts, ProcessorAssumption
<1>. QED
  BY <1>1, <1>3, <1>4, <1>5

\* The queue's own steps keep it so.
LEMMA OneAtATimeStep ==
  ASSUME ~HandlersMayOverrun, OneAtATime, [Queue!Next]_queueVars
  PROVE  OneAtATime'
<1>1. Queue!TypeOK'
  BY QueueTypeStep DEF OneAtATime
<1>. DEFINE Waited(e) == broker[e] \in {"pending", "due"}
            OneWaited == \A e, f \in Entries : Waited(e) /\ Waited(f) => e = f
            InStep == \A d \in Deliveries :
                        task[d] # "none" => broker[d[1]] = "pending" /\ attempts[d[1]] = d[2]
<1>2. OneWaited /\ InStep
  BY StreamFacts DEF OneAtATime, Queue!AckPending, Queue!InFlight
<1>3. SUFFICES OneWaited' /\ InStep'
  BY <1>1, StreamFacts DEF OneAtATime, Queue!AckPending, Queue!InFlight
<1>. USE DEF Queue!TypeOK, OneAtATime
<1>4. ASSUME UNCHANGED <<broker, attempts, task>>
      PROVE  OneWaited' /\ InStep'
  BY <1>2, <1>4
<1>5. ASSUME NEW e \in Entries, Queue!Deliver(e)
      PROVE  OneWaited' /\ InStep'
  <2>1. /\ \A f \in Entries : Waited(f) => f = e
        /\ \A d \in Deliveries : task[d] = "none"
    BY <1>5, BeforeDelivery
  <2>4. /\ broker' = [broker EXCEPT ![e] = "pending"]
        /\ attempts' = [attempts EXCEPT ![e] = attempts[e] + 1]
        /\ task' = [task EXCEPT ![<<e, attempts[e] + 1>>] = "handling"]
    BY <1>5 DEF Queue!Deliver
  <2>5. OneWaited'
    BY <2>1, <2>4, StreamFacts
  <2>6. \A d \in Deliveries : task'[d] # "none" => d = <<e, attempts[e] + 1>>
    BY <2>1, <2>4, StreamFacts
  <2>. QED
    BY <2>4, <2>5, <2>6, StreamFacts
<1>6. ASSUME NEW e \in Entries, Queue!AckWaitExpires(e)
      PROVE  OneWaited' /\ InStep'
  <2>1. \A d \in Deliveries : task[d] # "none" => d[1] # e
    BY <1>6, StreamFacts DEF Queue!AckWaitExpires, Queue!InFlight
  <2>2. /\ broker' = [broker EXCEPT ![e] = Queue!Retry(e)]
        /\ broker[e] = "pending"
        /\ UNCHANGED <<attempts, task>>
    BY <1>6 DEF Queue!AckWaitExpires
  <2>. QED
    BY <1>2, <2>1, <2>2, StreamFacts, DeliveryParts
<1>7. ASSUME NEW d \in Deliveries,
             \/ Queue!HandlerResolves(d) \/ Queue!GiveUp(d) \/ Queue!DeadLetter(d)
      PROVE  OneWaited' /\ InStep'
  BY <1>2, <1>7, StreamFacts DEF Queue!HandlerResolves, Queue!GiveUp, Queue!DeadLetter
<1>8. ASSUME NEW d \in Deliveries, Queue!Ack(d) \/ Queue!Nak(d)
      PROVE  OneWaited' /\ InStep'
  <2>1. task[d] # "none" /\ task' = [task EXCEPT ![d] = "none"] /\ UNCHANGED attempts
    BY <1>8 DEF Queue!Ack, Queue!Nak
  <2>2. broker[d[1]] = "pending"
    BY <1>2, <2>1
  <2>3. \E state : broker' = [broker EXCEPT ![d[1]] = state]
    BY <1>8 DEF Queue!Ack, Queue!Nak
  <2>4. \A c \in Deliveries : task'[c] # "none" => task[c] # "none" /\ c # d
    BY <2>1, StreamFacts
  <2>5. \A c \in Deliveries : task'[c] # "none" => c[1] # d[1]
    BY <1>2, <2>1, <2>4, Alone, StreamFacts
  <2>. QED
    BY <1>2, <2>1, <2>2, <2>3, <2>4, <2>5, StreamFacts, DeliveryParts
<1>9. ASSUME Queue!Stop
      PROVE  OneWaited' /\ InStep'
  BY <1>2, <1>9, StreamFacts DEF Queue!Stop, Queue!Idle
<1>. QED
  BY <1>4, <1>5, <1>6, <1>7, <1>8, <1>9, StreamFacts
     DEF Queue!Next, Queue!HandlerEnds, Queue!DeadLetterEnds, Queue!DeadLetterFails,
         Queue!Crash, Queue!Publish, Queue!Close, Queue!Closed, Queue!Restart, queueVars

-----------------------------------------------------------------------------
(* The calls of `process` *)

Fields == {"at", "todo", "changes", "type", "due", "found"}

WorkShape ==
  /\ DOMAIN work = Deliveries
  /\ \A d \in Deliveries : DOMAIN work[d] = Fields

OthersStay(d) == \A c \in Deliveries : c # d => work'[c] = work[c]

LEMMA Going ==
  ASSUME WorkShape, NEW d \in Deliveries, NEW step, GoTo(d, step)
  PROVE  /\ WorkShape' /\ OthersStay(d)
         /\ work'[d].at = step
         /\ work'[d].todo = work[d].todo
         /\ work'[d].changes = work[d].changes
         /\ work'[d].type = work[d].type
<1> QED
  BY DEF WorkShape, GoTo, Fields, OthersStay

\* What the steps of advance() have in common.
LEMMA AdvanceMoves ==
  ASSUME WorkShape, NEW d \in Deliveries, Advance(d)
  PROVE  /\ WorkShape' /\ OthersStay(d)
         /\ work[d].at \in {"advance", "resolve", "store"}
         /\ work'[d].at \in {"resolve", "store", "commit"}
         /\ work'[d].todo = work[d].todo
         /\ (UNCHANGED incidents) \/ (At(d, "store") /\ WriteBack(work[d].found))
         /\ UNCHANGED <<queueVars, ruleVars, announced, advancedTo, updated, lifecycle,
                        snapshot, ledger>>
<1>. USE DEF At
<1>. DEFINE Moves == /\ WorkShape' /\ OthersStay(d)
                     /\ work'[d].at \in {"resolve", "store", "commit"}
                     /\ work'[d].todo = work[d].todo
<1>1. ASSUME ListDue(d)
      PROVE  Moves
  <2>1. \E due : work' = [work EXCEPT ![d].at = "resolve", ![d].due = due]
    BY <1>1 DEF ListDue
  <2>. QED
    BY <2>1 DEF WorkShape, Fields, OthersStay
<1>2. ASSUME ReadDue(d)
      PROVE  Moves
  <2>1. PICK i \in work[d].due :
          work' = [work EXCEPT ![d].at = "store", ![d].due = @ \ {i},
                     ![d].found = Change(i, "RESOLVED", Resolved(incidents[i]))]
    BY <1>2 DEF ReadDue
  <2>2. DOMAIN work' = Deliveries /\ \A c \in Deliveries : DOMAIN work'[c] = Fields
    BY <2>1 DEF WorkShape, Fields
  <2>3. work'[d].at = "store" /\ work'[d].todo = work[d].todo
    BY <2>1 DEF WorkShape, Fields
  <2>. QED
    BY <2>1, <2>2, <2>3 DEF WorkShape, OthersStay
<1>3. ASSUME StoreResolved(d)
      PROVE  Moves
  <2>1. work' = [work EXCEPT ![d].at = "resolve", ![d].found = NothingFound,
                             ![d].changes = Append(@, work[d].found)]
    BY <1>3 DEF StoreResolved
  <2>2. DOMAIN work' = Deliveries /\ \A c \in Deliveries : DOMAIN work'[c] = Fields
    BY <2>1 DEF WorkShape, Fields
  <2>3. work'[d].at = "resolve" /\ work'[d].todo = work[d].todo
    BY <2>1 DEF WorkShape, Fields
  <2>. QED
    BY <2>1, <2>2, <2>3 DEF WorkShape, OthersStay
<1>4. ASSUME AdvanceEnds(d)
      PROVE  Moves
  BY <1>4, Going DEF AdvanceEnds
<1>5. /\ work[d].at \in {"advance", "resolve", "store"}
      /\ (UNCHANGED incidents) \/ (At(d, "store") /\ WriteBack(work[d].found))
  BY DEF Advance, ListDue, ReadDue, StoreResolved, AdvanceEnds
<1>6. UNCHANGED <<queueVars, ruleVars, announced, advancedTo, updated, lifecycle,
                  snapshot, ledger>>
  BY DEF Advance
<1>. QED
  BY <1>1, <1>2, <1>3, <1>4, <1>5, <1>6 DEF Advance

\* What each step does to the call it is a step of.
LEMMA CallStep ==
  ASSUME WorkShape, NEW d \in Deliveries, ProcessStep(d)
  PROVE  WorkShape' /\ OthersStay(d)
<1>1. CASE \E step : GoTo(d, step)
  BY <1>1, Going
<1>2. ASSUME EvaluateRules(d), ~\E step : GoTo(d, step)
      PROVE  WorkShape' /\ OthersStay(d)
  <2>1. \E todo : work' = [work EXCEPT ![d].at = "correlate", ![d].todo = todo]
    BY <1>2 DEF EvaluateRules
  <2>. QED
    BY <2>1 DEF WorkShape, OthersStay, Fields
<1>3. ASSUME Correlate(d)
      PROVE  WorkShape' /\ OthersStay(d)
  <2>1. \E todo, changes :
          \/ work' = [work EXCEPT ![d].todo = todo]
          \/ work' = [work EXCEPT ![d].todo = todo, ![d].changes = changes]
    BY <1>3 DEF Correlate
  <2>. QED
    BY <2>1 DEF WorkShape, OthersStay, Fields
<1>4. ASSUME PublishUpdated(d) \/ PublishLifecycle(d)
      PROVE  WorkShape' /\ OthersStay(d)
  <2>1. \E type, changes : work' = [work EXCEPT ![d].type = type, ![d].changes = changes]
    BY <1>4 DEF PublishUpdated, PublishLifecycle, WorkShape
  <2>. QED
    BY <2>1 DEF WorkShape, OthersStay, Fields
<1>5. ASSUME Advance(d)
      PROVE  WorkShape' /\ OthersStay(d)
  BY <1>5, AdvanceMoves
<1>6. ASSUME Fail(d)
      PROVE  WorkShape' /\ OthersStay(d)
  BY <1>6 DEF Fail, Waiting, WorkShape, OthersStay, Fields
<1>. QED
  BY <1>1, <1>2, <1>3, <1>4, <1>5, <1>6
     DEF ProcessStep, Begin, BeginFails, ShouldAdvance, Commit, Complete, Rollback,
         RollbackFails, Release, ProcessResolves, ProcessRejects

\* All steps but those of `process` and the first leave the calls alone or end them.
LEMMA WorkShapeStep ==
  ASSUME WorkShape, [Next]_vars
  PROVE  WorkShape'
<1>1. ASSUME NEW e \in Entries, Receive(e)
      PROVE  WorkShape'
  BY <1>1 DEF Receive, GoTo, WorkShape
<1>2. ASSUME NEW d \in Deliveries, ProcessStep(d)
      PROVE  WorkShape'
  BY <1>2, CallStep
<1>3. ASSUME LoseProcess
      PROVE  WorkShape'
  BY <1>3 DEF LoseProcess, WorkShape, Waiting, Fields
<1>4. ASSUME UNCHANGED work
      PROVE  WorkShape'
  BY <1>4 DEF WorkShape
<1>. QED
  BY <1>1, <1>2, <1>3, <1>4
     DEF Next, vars, Publish, AckWaitExpires, Ack, DeadLetter, BeginDestroy, Restart,
         processorVars, Crash, DeadLetterFails, EndDestroy

-----------------------------------------------------------------------------
(* The ledger *)

(* What the ledger holds of the entry of a call, by where the call stands.  *)
ClaimOK(d) ==
  /\ At(d, "begin") /\ d[2] = 1 => ledger[d[1]] = "absent"
  /\ work[d].at \in TrySteps => ledger[d[1]] = "processing"
  /\ At(d, "done") => ledger[d[1]] = "complete"

LedgerInv ==
  /\ ledger \in [Entries -> {"absent", "processing", "complete"}]
  /\ \A e \in Entries : attempts[e] = 0 => ledger[e] = "absent"
  /\ \A d \in Deliveries :
       /\ work[d].at # "idle" <=> task[d] = "handling"
       /\ ClaimOK(d)
       /\ task[d] = "resolved" => d[1] \in Completed \union dlq

(* The steps of `process` between its first and its end.                    *)
Inner(d) ==
  \/ Begin(d) \/ BeginFails(d) \/ EvaluateRules(d) \/ Correlate(d)
  \/ PublishUpdated(d) \/ PublishLifecycle(d) \/ ShouldAdvance(d)
  \/ Advance(d) \/ Commit(d) \/ Complete(d)
  \/ Fail(d) \/ Rollback(d) \/ RollbackFails(d) \/ Release(d)

\* A claim that may be undone is not complete: what is complete stays so.
StaysComplete(d) ==
  ledger[d[1]] = "complete" /\ work[d].at \notin {"rollback", "release"} =>
    ledger'[d[1]] = "complete" /\ work'[d].at \notin {"rollback", "release"}

LEMMA InnerStep ==
  ASSUME WorkShape, LedgerInv, NEW d \in Deliveries, Inner(d)
  PROVE  /\ UNCHANGED queueVars
         /\ ledger' \in [Entries -> {"absent", "processing", "complete"}]
         /\ \A e \in Entries : e # d[1] => ledger'[e] = ledger[e]
         /\ work'[d].at # "idle" <=> work[d].at # "idle"
         /\ work[d].at # "idle" \/ UNCHANGED ledger
         /\ ClaimOK(d)' /\ StaysComplete(d)
<1>. USE DeliveryParts DEF At, TrySteps, ClaimOK, StaysComplete, LedgerInv
<1>1. CASE Begin(d)
  <2>1. CASE Claimable(d)
    <3>1. PICK step \in {"complete", "evaluate"} :
            GoTo(d, step) /\ ledger' = [ledger EXCEPT ![d[1]] = "processing"]
      BY <1>1, <2>1 DEF Begin
    <3>. QED
      BY <1>1, <2>1, <3>1, Going DEF Begin, Claimable
  <2>2. CASE ~Claimable(d)
    <3>1. ledger[d[1]] = "complete"
      BY <1>1, <2>2 DEF Begin, Claimable
    <3>. QED
      BY <1>1, <2>2, <3>1, Going DEF Begin
  <2>. QED
    BY <2>1, <2>2
<1>2. CASE BeginFails(d)
  BY <1>2, Going DEF BeginFails
<1>3. CASE EvaluateRules(d)
  <2>1. /\ work'[d].at = "correlate"
        /\ work[d].at = "evaluate"
        /\ UNCHANGED <<queueVars, ledger>>
    BY <1>3, Going DEF EvaluateRules, WorkShape, Fields
  <2>. QED
    BY <2>1
<1>4. CASE Correlate(d)
  <2>1. /\ work'[d].at = "correlate"
        /\ work[d].at = "correlate"
        /\ UNCHANGED <<queueVars, ledger>>
    BY <1>4 DEF Correlate, WorkShape, Fields
  <2>. QED
    BY <2>1
<1>5. CASE PublishUpdated(d) \/ PublishLifecycle(d)
  <2>1. work'[d].at = work[d].at /\ UNCHANGED <<queueVars, ledger>>
    BY <1>5 DEF PublishUpdated, PublishLifecycle, WorkShape, Fields
  <2>. QED
    BY <2>1
<1>6. CASE ShouldAdvance(d)
  <2>1. PICK step \in {"advance", "commit"} : GoTo(d, step)
    BY <1>6 DEF ShouldAdvance
  <2>. QED
    BY <1>6, <2>1, Going DEF ShouldAdvance
<1>7. CASE Advance(d)
  BY <1>7, AdvanceMoves
<1>8. CASE Commit(d) \/ Complete(d)
  BY <1>8, Going DEF Commit, Complete
<1>9. CASE Fail(d)
  <2>1. /\ work'[d].at = "rollback"
        /\ ledger[d[1]] = "processing"
        /\ UNCHANGED queueVars
        /\ UNCHANGED ledger \/ ledger' = [ledger EXCEPT ![d[1]] = "complete"]
    BY <1>9 DEF Fail, WorkShape, Waiting
  <2>2. work[d].at \in TrySteps
    BY <1>9 DEF Fail
  <2>. QED
    BY <2>1, <2>2
<1>10. CASE Rollback(d) \/ RollbackFails(d)
  <2>1. /\ work'[d].at \in {"release", "failed"}
        /\ work[d].at = "rollback"
        /\ UNCHANGED <<queueVars, ledger>>
    BY <1>10, Going DEF Rollback, RollbackFails
  <2>. QED
    BY <2>1
<1>11. CASE Release(d)
  BY <1>11, Going DEF Release
<1>. QED
  BY <1>1, <1>2, <1>3, <1>4, <1>5, <1>6, <1>7, <1>8, <1>9, <1>10, <1>11 DEF Inner

\* The steps that are none of `process`: what they do to calls and ledger.
LEMMA OtherSteps ==
  ASSUME [Next]_vars
  PROVE  \/ \E e \in Entries : Receive(e)
         \/ \E d \in Deliveries : Inner(d) \/ ProcessResolves(d) \/ ProcessRejects(d)
         \/ \E d \in Deliveries : Ack(d) \/ DeadLetter(d)
         \/ /\ LoseProcess /\ UNCHANGED <<attempts, broker, dlq>>
            /\ \A d \in Deliveries : task'[d] = "none"
         \/ (\E e \in Entries : AckWaitExpires(e)) /\ UNCHANGED <<attempts, task, dlq, processorVars>>
         \/ UNCHANGED <<attempts, broker, task, dlq, processorVars>>
<1>1. CASE UNCHANGED vars
  BY <1>1 DEF vars, queueVars, ruleVars, incidentVars, processorVars
<1>2. CASE Publish \/ BeginDestroy \/ Restart
  BY <1>2 DEF Publish, BeginDestroy, Restart, Queue!Publish, Queue!Close, Queue!Restart
<1>3. ASSUME NEW e \in Entries, AckWaitExpires(e)
      PROVE  UNCHANGED <<attempts, task, dlq, processorVars>>
  BY <1>3 DEF AckWaitExpires, Queue!AckWaitExpires
<1>4. ASSUME Crash \/ \E d \in Deliveries : DeadLetterFails(d)
      PROVE  /\ LoseProcess /\ UNCHANGED <<attempts, broker, dlq>>
             /\ \A d \in Deliveries : task'[d] = "none"
  BY <1>4, StreamFacts
     DEF Crash, DeadLetterFails, Queue!Crash, Queue!DeadLetterFails, Queue!Stop, Queue!Idle
<1>5. ASSUME NEW d \in Deliveries, ProcessStep(d)
      PROVE  Inner(d) \/ ProcessResolves(d) \/ ProcessRejects(d)
  BY <1>5 DEF ProcessStep, Inner
<1>6. ASSUME EndDestroy
      PROVE  /\ LoseProcess /\ UNCHANGED <<attempts, broker, dlq>>
             /\ \A d \in Deliveries : task'[d] = "none"
  BY <1>6, StreamFacts DEF EndDestroy, Queue!Closed, Queue!InFlight
<1>. QED
  BY <1>1, <1>2, <1>3, <1>4, <1>5, <1>6 DEF Next

\* The end of a call of `process`.
LEMMA EndStep ==
  ASSUME WorkShape, Queue!TypeOK, NEW d \in Deliveries,
         ProcessResolves(d) \/ ProcessRejects(d)
  PROVE  /\ task[d] = "handling"
         /\ \A c \in Deliveries : c # d => task'[c] = task[c]
         /\ task'[d] # "handling"
         /\ task'[d] = "resolved" => At(d, "done")
         /\ work'[d].at = "idle" /\ OthersStay(d)
         /\ work[d].at \in {"done", "failed"}
         /\ UNCHANGED <<attempts, dlq, ledger>>
<1>1. GoTo(d, "idle") /\ UNCHANGED ledger
  BY DEF ProcessResolves, ProcessRejects
<1>2. CASE ProcessResolves(d)
  BY <1>1, <1>2, Going, StreamFacts
     DEF ProcessResolves, Queue!HandlerResolves, At, Queue!TypeOK
<1>3. CASE ProcessRejects(d)
  BY <1>1, <1>3, Going, StreamFacts
     DEF ProcessRejects, Queue!Nak, Queue!GiveUp, At, Queue!TypeOK
<1>. QED
  BY <1>2, <1>3

LEMMA DlqGrows ==
  ASSUME [Next]_vars
  PROVE  dlq \subseteq dlq'
<1>1. ASSUME NEW d \in Deliveries, Inner(d)
      PROVE  UNCHANGED dlq
  BY <1>1
     DEF Inner, Begin, BeginFails, EvaluateRules, Correlate, PublishUpdated, PublishLifecycle,
         ShouldAdvance, Advance, Commit, Complete, Fail, Rollback, RollbackFails, Release,
         queueVars
<1>2. ASSUME NEW d \in Deliveries, ProcessResolves(d) \/ ProcessRejects(d)
      PROVE  UNCHANGED dlq
  BY <1>2 DEF ProcessResolves, ProcessRejects, Queue!HandlerResolves, Queue!Nak, Queue!GiveUp
<1>3. ASSUME NEW d \in Deliveries, Ack(d) \/ DeadLetter(d)
      PROVE  dlq \subseteq dlq'
  BY <1>3 DEF Ack, DeadLetter, Queue!Ack, Queue!DeadLetter
<1>4. ASSUME NEW e \in Entries, Receive(e) \/ AckWaitExpires(e)
      PROVE  UNCHANGED dlq
  BY <1>4 DEF Receive, AckWaitExpires, Queue!Deliver, Queue!AckWaitExpires
<1>. QED
  BY <1>1, <1>2, <1>3, <1>4, OtherSteps

\* What the ledger calls complete stays complete.
LEMMA CompletedGrows ==
  ASSUME WorkShape, OneAtATime, LedgerInv, [Next]_vars
  PROVE  Completed \subseteq Completed'
<1>. SUFFICES ASSUME NEW e \in Entries, ledger[e] = "complete",
                     \A d \in Deliveries :
                       d[1] = e => work[d].at \notin {"rollback", "release"}
              PROVE  /\ ledger'[e] = "complete"
                     /\ \A d \in Deliveries :
                          d[1] = e => work'[d].at \notin {"rollback", "release"}
  BY DEF Completed
<1>. USE DEF OthersStay
<1>1. ASSUME NEW d \in Deliveries, Inner(d)
      PROVE  /\ ledger'[e] = "complete"
             /\ \A c \in Deliveries :
                  c[1] = e => work'[c].at \notin {"rollback", "release"}
  <2>1. StaysComplete(d) /\ (e # d[1] => ledger'[e] = ledger[e])
    BY <1>1, InnerStep
  <2>2. OthersStay(d)
    BY <1>1, CallStep DEF Inner, ProcessStep
  <2>. QED
    BY <2>1, <2>2 DEF StaysComplete
<1>2. ASSUME NEW d \in Deliveries, ProcessResolves(d) \/ ProcessRejects(d)
      PROVE  /\ ledger'[e] = "complete"
             /\ \A c \in Deliveries :
                  c[1] = e => work'[c].at \notin {"rollback", "release"}
  BY <1>2, EndStep DEF OneAtATime
<1>3. ASSUME NEW f \in Entries, Receive(f)
      PROVE  /\ ledger'[e] = "complete"
             /\ \A c \in Deliveries :
                  c[1] = e => work'[c].at \notin {"rollback", "release"}
  <2>1. <<f, attempts[f] + 1>> \in Deliveries
    BY <1>3, BeforeDelivery DEF Receive
  <2>2. PICK step \in {"failed", "begin"} : GoTo(<<f, attempts[f] + 1>>, step)
    BY <1>3 DEF Receive
  <2>3. UNCHANGED ledger
    BY <1>3 DEF Receive
  <2>. QED
    BY <2>1, <2>2, <2>3, Going
<1>4. CASE LoseProcess
  BY <1>4 DEF LoseProcess, Waiting
<1>5. CASE UNCHANGED <<work, ledger>>
  BY <1>5
<1>. QED
  BY <1>1, <1>2, <1>3, <1>4, <1>5, OtherSteps DEF Ack, DeadLetter, processorVars

\* The ledger tells, of every call, what a claim may rest on.
LEMMA LedgerStep ==
  ASSUME WorkShape, OneAtATime, OneAtATime', LedgerInv, [Next]_vars
  PROVE  LedgerInv'
<1>. USE DEF LedgerInv, OthersStay
<1>1. Completed \union dlq \subseteq Completed' \union dlq'
  BY CompletedGrows, DlqGrows
<1>2. \A d \in Deliveries : task[d] = "handling" => attempts[d[1]] # 0
  BY StreamFacts, DeliveryParts, ProcessorAssumption DEF OneAtATime, Queue!InFlight
<1>3. ASSUME NEW d \in Deliveries, Inner(d)
      PROVE  LedgerInv'
  <2>1. OthersStay(d)
    BY <1>3, CallStep DEF Inner, ProcessStep
  <2>2. /\ ledger' \in [Entries -> {"absent", "processing", "complete"}]
        /\ \A e \in Entries : e # d[1] => ledger'[e] = ledger[e]
        /\ work'[d].at # "idle" <=> work[d].at # "idle"
        /\ work[d].at # "idle" \/ UNCHANGED ledger
        /\ ClaimOK(d)'
    BY <1>3, InnerStep
  <2>3. UNCHANGED <<attempts, task, dlq>>
    BY <1>3, InnerStep DEF queueVars
  <2>4. \A e \in Entries : attempts'[e] = 0 => ledger'[e] = "absent"
    BY <1>2, <2>2, <2>3
  <2>5. ASSUME NEW c \in Deliveries, c # d
        PROVE  ClaimOK(c)'
    <3>1. CASE UNCHANGED ledger
      BY <2>1, <2>5, <3>1 DEF ClaimOK, At
    <3>2. CASE work[d].at # "idle"
      <4>1. task[c] = "none"
        BY <2>5, <3>2, Alone
      <4>. QED
        BY <2>1, <2>5, <4>1 DEF ClaimOK, At, TrySteps
    <3>. QED
      BY <2>2, <3>1, <3>2
  <2>. QED
    BY <1>1, <2>1, <2>2, <2>3, <2>4, <2>5
<1>4. ASSUME NEW d \in Deliveries, ProcessResolves(d) \/ ProcessRejects(d)
      PROVE  LedgerInv'
  <2>1. /\ task[d] = "handling"
        /\ \A c \in Deliveries : c # d => task'[c] = task[c]
        /\ task'[d] # "handling"
        /\ task'[d] = "resolved" => At(d, "done")
        /\ work'[d].at = "idle" /\ OthersStay(d)
        /\ UNCHANGED <<attempts, dlq, ledger>>
    BY <1>4, EndStep DEF OneAtATime
  <2>2. \A c \in Deliveries : c # d => work[c].at = "idle"
    BY <2>1, Alone
  <2>3. At(d, "done") => d[1] \in Completed'
    BY <2>1, <2>2, DeliveryParts DEF Completed, ClaimOK, At
  <2>. QED
    BY <1>1, <2>1, <2>3 DEF ClaimOK, At, TrySteps
<1>5. ASSUME NEW e \in Entries, Receive(e)
      PROVE  LedgerInv'
  <2>. DEFINE d == <<e, attempts[e] + 1>>
  <2>1. d \in Deliveries /\ attempts[e] \in Nat /\ \A c \in Deliveries : task[c] = "none"
    BY <1>5, BeforeDelivery DEF Receive
  <2>2. PICK step \in {"failed", "begin"} : GoTo(d, step)
    BY <1>5 DEF Receive
  <2>3. /\ attempts' = [attempts EXCEPT ![e] = attempts[e] + 1]
        /\ task' = [task EXCEPT ![d] = "handling"]
        /\ UNCHANGED <<ledger, dlq>>
    BY <1>5 DEF Receive, Queue!Deliver
  <2>. HIDE DEF d
  <2>4. OthersStay(d) /\ work'[d].at = step
    BY <2>1, <2>2, Going
  <2>5. \A f \in Entries : attempts'[f] = 0 => attempts[f] = 0
    BY <2>1, <2>3, StreamFacts DEF OneAtATime, Queue!TypeOK
  <2>6. d[1] = e /\ (d[2] = 1 => attempts[e] = 0)
    BY <2>1 DEF d
  <2>7. \A c \in Deliveries : task'[c] = IF c = d THEN "handling" ELSE task[c]
    BY <2>1, <2>3, StreamFacts DEF OneAtATime, Queue!TypeOK
  <2>. QED
    BY <1>1, <2>1, <2>3, <2>4, <2>5, <2>6, <2>7 DEF ClaimOK, At, TrySteps
<1>6. ASSUME NEW d \in Deliveries, Ack(d) \/ DeadLetter(d)
      PROVE  LedgerInv'
  <2>1. UNCHANGED processorVars /\ UNCHANGED attempts
    BY <1>6 DEF Ack, DeadLetter, Queue!Ack, Queue!DeadLetter
  <2>2. /\ task[d] \notin {"none", "handling"} /\ task'[d] # "handling"
        /\ \A c \in Deliveries : c # d => task'[c] = task[c]
        /\ task'[d] = "resolved" => d[1] \in dlq'
    BY <1>6, StreamFacts DEF Ack, DeadLetter, Queue!Ack, Queue!DeadLetter, OneAtATime, Queue!TypeOK
  <2>. QED
    BY <1>1, <2>1, <2>2 DEF processorVars, ClaimOK, At
<1>7. CASE /\ LoseProcess /\ UNCHANGED <<attempts, broker, dlq>>
           /\ \A d \in Deliveries : task'[d] = "none"
  BY <1>7 DEF LoseProcess, Waiting, ClaimOK, At, TrySteps
<1>8. CASE UNCHANGED <<attempts, task, dlq, processorVars>>
  BY <1>1, <1>8 DEF processorVars, ClaimOK, At
<1>. QED
  BY <1>3, <1>4, <1>5, <1>6, <1>7, <1>8, OtherSteps

LedgerHolds == WorkShape /\ OneAtATime /\ LedgerInv

LEMMA LedgerInit ==
  ASSUME Init
  PROVE  LedgerHolds
<1>1. Queue!TypeOK
  BY StreamFacts, ProcessorAssumption
     DEF Init, Queue!Init, Queue!TypeOK, Queue!BrokerStates, Queue!TaskStates, Queue!Idle
<1>2. OneAtATime
  BY <1>1, StreamFacts
     DEF Init, Queue!Init, Queue!Idle, OneAtATime, Queue!AckPending, Queue!InFlight
<1>3. WorkShape
  BY DEF Init, WorkShape, Waiting, Fields
<1>4. LedgerInv
  BY StreamFacts
     DEF Init, Queue!Init, Queue!Idle, LedgerInv, ClaimOK, Waiting, At, TrySteps
<1>. QED
  BY <1>2, <1>3, <1>4 DEF LedgerHolds

LEMMA LedgerKept ==
  ASSUME ~HandlersMayOverrun, LedgerHolds, [Next]_vars
  PROVE  LedgerHolds'
<1>1. [Queue!Next]_queueVars
  BY QueueStep DEF vars, queueVars
<1>. QED
  BY <1>1, WorkShapeStep, OneAtATimeStep, LedgerStep DEF LedgerHolds

-----------------------------------------------------------------------------
(* The processor implements the abstract promise *)

Released == {e \in Entries : broker[e] = "acked"}

\* The broker records an acknowledgement only on the Ack of a resolved task.
LEMMA ReleasedStep ==
  ASSUME LedgerHolds, [Next]_vars
  PROVE  UNCHANGED Released \/ \E d \in Deliveries : Ack(d)
<1>. USE StreamFacts DEF Released
<1>1. ASSUME NEW d \in Deliveries, Inner(d)
      PROVE  UNCHANGED Released
  BY <1>1, InnerStep DEF queueVars, LedgerHolds
<1>2. ASSUME NEW d \in Deliveries, ProcessResolves(d) \/ ProcessRejects(d)
      PROVE  UNCHANGED Released
  <2>1. \A e \in Entries : broker'[e] = "acked" <=> broker[e] = "acked"
    BY <1>2, DeliveryParts
       DEF ProcessResolves, ProcessRejects, Queue!HandlerResolves, Queue!Nak, Queue!GiveUp,
           Queue!Retry, LedgerHolds, OneAtATime, Queue!TypeOK
  <2>. QED
    BY <2>1
<1>3. ASSUME NEW d \in Deliveries, DeadLetter(d)
      PROVE  UNCHANGED Released
  BY <1>3 DEF DeadLetter, Queue!DeadLetter
<1>4. ASSUME NEW e \in Entries, Receive(e)
      PROVE  UNCHANGED Released
  <2>1. broker[e] # "acked" /\ broker' = [broker EXCEPT ![e] = "pending"]
    BY <1>4 DEF Receive, Queue!Deliver, Queue!MayDeliver
  <2>2. \A f \in Entries : broker'[f] = "acked" <=> broker[f] = "acked"
    BY <2>1 DEF LedgerHolds, OneAtATime, Queue!TypeOK
  <2>. QED
    BY <2>2
<1>5. ASSUME NEW e \in Entries, AckWaitExpires(e)
      PROVE  UNCHANGED Released
  <2>1. \A f \in Entries : broker'[f] = "acked" <=> broker[f] = "acked"
    BY <1>5
       DEF AckWaitExpires, Queue!AckWaitExpires, Queue!Retry, LedgerHolds, OneAtATime,
           Queue!TypeOK
  <2>. QED
    BY <2>1
<1>6. CASE UNCHANGED broker
  BY <1>6
<1>. QED
  BY <1>1, <1>2, <1>3, <1>4, <1>5, <1>6, OtherSteps

LEMMA StepImplements ==
  ASSUME LedgerHolds, [Next]_vars
  PROVE  [Abstract!Next]_(Abstract!vars)
<1>1. Completed \subseteq Completed' /\ Completed' \subseteq Entries
  BY CompletedGrows DEF LedgerHolds, Completed
<1>2. ASSUME NEW d \in Deliveries, Ack(d)
      PROVE  [Abstract!Next]_(Abstract!vars)
  <2>1. UNCHANGED <<Completed, dlq>> /\ d[1] \in Entries
    BY <1>2, DeliveryParts DEF Ack, Queue!Ack, processorVars, Completed
  <2>2. d[1] \in Completed \union dlq
    BY <1>2 DEF Ack, Queue!Ack, LedgerHolds, LedgerInv
  <2>3. Released' = Released \union {d[1]}
    <3>1. d \in Queue!InFlight
      BY <1>2, StreamFacts DEF Ack, Queue!Ack, Queue!InFlight
    <3>2. broker[d[1]] = "pending" /\ broker \in [Entries -> Queue!BrokerStates]
      BY <3>1, StreamFacts DEF LedgerHolds, OneAtATime, Queue!TypeOK
    <3>3. broker' = [broker EXCEPT ![d[1]] = "acked"]
      BY <1>2, <3>2 DEF Ack, Queue!Ack, Queue!Acknowledged
    <3>. QED
      BY <2>1, <3>2, <3>3 DEF Released
  <2>. QED
    BY <2>1, <2>2, <2>3 DEF Abstract!Next, Abstract!Release, Released
<1>3. ASSUME NEW d \in Deliveries, DeadLetter(d)
      PROVE  [Abstract!Next]_(Abstract!vars)
  <2>1. UNCHANGED <<Completed, broker>> /\ dlq' = dlq \union {d[1]} /\ d[1] \in Entries
    BY <1>3, DeliveryParts DEF DeadLetter, Queue!DeadLetter, processorVars, Completed
  <2>. QED
    BY <2>1 DEF Abstract!Next, Abstract!DeadLetter
<1>4. ASSUME UNCHANGED <<dlq, Released>>
      PROVE  [Abstract!Next]_(Abstract!vars)
  <2>1. Completed' = Completed \union Completed'
    BY <1>1
  <2>. QED
    BY <1>1, <1>4, <2>1 DEF Abstract!Next, Abstract!TakeEffect, Released
<1>5. ASSUME ~\E d \in Deliveries : Ack(d) \/ DeadLetter(d)
      PROVE  UNCHANGED <<dlq, Released>>
  <2>1. UNCHANGED Released
    BY <1>5, ReleasedStep
  <2>2. ASSUME NEW d \in Deliveries,
               Inner(d) \/ ProcessResolves(d) \/ ProcessRejects(d)
        PROVE  UNCHANGED dlq
    BY <2>2, InnerStep, EndStep DEF LedgerHolds, OneAtATime, queueVars
  <2>3. ASSUME NEW e \in Entries, Receive(e)
        PROVE  UNCHANGED dlq
    BY <2>3 DEF Receive, Queue!Deliver
  <2>. QED
    BY <1>5, <2>1, <2>2, <2>3, OtherSteps
<1>. QED
  BY <1>2, <1>3, <1>4, <1>5

\* While no handler outlives its deadline the processor implements AtLeastOnce,
\* for any telemetry, rules, deliveries, probes and malformed entries: what is
\* acknowledged is complete in the ledger or dead-lettered, and stays so.
THEOREM ProcessorImplementsAtLeastOnce ==
  ASSUME ~HandlersMayOverrun
  PROVE  Spec => ImplementsAtLeastOnce
<1>1. Init => LedgerHolds /\ Abstract!Init
  BY LedgerInit, StreamFacts
     DEF Init, Queue!Init, Abstract!Init, Completed
<1>2. LedgerHolds /\ [Next]_vars => LedgerHolds'
  BY LedgerKept
<1>3. LedgerHolds /\ [Next]_vars => [Abstract!Next]_(Abstract!vars)
  BY StepImplements
<1>. QED
  BY <1>1, <1>2, <1>3, PTL DEF Spec, ImplementsAtLeastOnce, Abstract!Spec

-----------------------------------------------------------------------------
(* The rules *)

IdsOf(r) == {r} \X Times
Known(r) == [id : IdsOf(r), confirmations : {1, 2}]
Sayings(r) == [id : IdsOf(r), status : Statuses]

\* The memory knows, of each rule, no anomaly or one of its own.
KnowsOwn(m) == \A r \in Rules : m.active[r] = NotActive \/ m.active[r] \in Known(r)

Unended == {"OPEN", "ACTIVE"}

\* The status that an anomaly has for the rules, if they follow it.
Told(m, a) ==
  IF m.active[a[1]].id # a THEN {}
  ELSE IF m.active[a[1]].confirmations = 1 THEN {"OPEN"} ELSE {"ACTIVE"}

LEMMA SignalIsVerdict ==
  ASSUME NEW r, NEW signal, NEW observed
  PROVE  Verdict(r, signal, observed) \in {"clear", "match", "none"}
<1> QED
  BY DEF Verdict

(* What a rule says and what it then remembers: of an anomaly that it names, *)
(* the status; of one that it does not name, nothing new.                    *)
Remembers(r, prior, next, out) ==
  /\ next = NotActive \/ next \in Known(r)
  /\ out = <<>> => \/ next = prior
                  \/ /\ next.id = prior.id
                     /\ next.confirmations # 1 /\ prior.confirmations # 1
  /\ out # <<>> =>
       /\ out[1] \in Sayings(r)
       /\ prior = NotActive \/ prior.id = out[1].id
       /\ out[1].status = "OPEN" => next = [id |-> out[1].id, confirmations |-> 1]
       /\ out[1].status = "ACTIVE" => next = [id |-> out[1].id, confirmations |-> 2]
       /\ out[1].status = "RESOLVED" => next = NotActive

LEMMA RuleSpeaks ==
  ASSUME NEW r \in Rules, NEW prior, prior = NotActive \/ prior \in Known(r),
         NEW verdict \in {"clear", "match", "none"}, NEW time \in Times
  PROVE  Remembers(r, prior, Lifecycle(r, prior, verdict, time), Emitted(r, prior, verdict, time))
<1>. USE DEF Remembers, Sayings, Lifecycle, Emitted, NotActive, NoAnomaly, Known, IdsOf, Statuses
<1>1. CASE verdict = "none"
  <2>1. Emitted(r, prior, verdict, time) = <<>> /\ Lifecycle(r, prior, verdict, time) = prior
    BY <1>1
  <2>. QED
    BY <2>1
<1>2. CASE verdict = "clear"
  <2>1. Lifecycle(r, prior, verdict, time) = NotActive
    BY <1>2
  <2>2. CASE prior = NotActive
    <3>1. Emitted(r, prior, verdict, time) = <<>>
      BY <1>2, <2>2
    <3>. QED
      BY <2>1, <2>2, <3>1
  <2>3. CASE prior # NotActive
    <3>1. Emitted(r, prior, verdict, time) = <<[id |-> prior.id, status |-> "RESOLVED"]>>
      BY <1>2, <2>3
    <3>. QED
      BY <2>1, <2>3, <3>1
  <2>. QED
    BY <2>2, <2>3
<1>3. CASE verdict = "match" /\ prior = NotActive
  BY <1>3
<1>4. CASE verdict = "match" /\ prior # NotActive
  <2>1. prior \in Known(r)
    BY <1>4
  <2>2. prior.id \in IdsOf(r) /\ prior.confirmations \in {1, 2}
    BY <2>1
  <2>3. Lifecycle(r, prior, verdict, time) = [id |-> prior.id, confirmations |-> 2]
    BY <1>4, <2>1
  <2>. QED
    BY <1>4, <2>1, <2>2, <2>3
<1>. QED
  BY <1>1, <1>2, <1>3, <1>4

(* What is said is what changes: the statuses that `next` has and `m` had.  *)
SaysChanges(m, next, said) ==
  /\ DOMAIN said \subseteq Rules
  /\ \A r \in Rules \ DOMAIN said : \A a \in IdsOf(r) : Told(next, a) = Told(m, a)
  /\ \A r \in DOMAIN said :
       /\ said[r] \in Sayings(r)
       /\ Told(next, said[r].id) = {said[r].status} \intersect Unended
       /\ \A a \in IdsOf(r) \ {said[r].id} : Told(m, a) = {} /\ Told(next, a) = {}

LEMMA EvaluateSays ==
  ASSUME NEW m, KnowsOwn(m), NEW e \in Entries
  PROVE  /\ KnowsOwn(Evaluate(m, e).memory)
         /\ SaysChanges(m, Evaluate(m, e).memory, Evaluate(m, e).emitted)
<1>1. CASE Ignored(m, e)
  <2>1. Evaluate(m, e) = [memory |-> m, emitted |-> <<>>]
    BY <1>1 DEF Evaluate
  <2>. QED
    BY <2>1 DEF SaysChanges
<1>2. CASE ~Ignored(m, e)
  <2>. DEFINE event == Telemetry[e]
              observed == [r \in Rules |-> Observe(m.condition[r], event.signal[r], event.time)]
              verdict == [r \in Rules |-> Verdict(r, event.signal[r], observed[r])]
              out == [r \in Rules |-> Emitted(r, m.active[r], verdict[r], event.time)]
              spoken == {r \in Rules : out[r] # <<>>}
              active == [r \in Rules |-> Lifecycle(r, m.active[r], verdict[r], event.time)]
              said == [r \in spoken |-> out[r][1]]
              next == Evaluate(m, e).memory
  <2>1. Evaluate(m, e).emitted = said /\ next.active = active
    BY <1>2 DEF Evaluate
  <2>2. event.time \in Times
    BY DEF Times
  <2>3. \A r \in Rules : verdict[r] \in {"clear", "match", "none"}
    BY SignalIsVerdict
  <2>. HIDE DEF verdict
  <2>4. ASSUME NEW r \in Rules
        PROVE  Remembers(r, m.active[r], active[r], out[r])
    <3>1. m.active[r] = NotActive \/ m.active[r] \in Known(r)
      BY DEF KnowsOwn
    <3>2. /\ active[r] = Lifecycle(r, m.active[r], verdict[r], event.time)
          /\ out[r] = Emitted(r, m.active[r], verdict[r], event.time)
      OBVIOUS
    <3>3. verdict[r] \in {"clear", "match", "none"}
      BY <2>3
    <3>. QED
      BY <2>2, <3>1, <3>2, <3>3, RuleSpeaks
  <2>. HIDE DEF active, out, event
  <2>5. KnowsOwn(next)
    BY <2>1, <2>4 DEF KnowsOwn, Remembers
  <2>6. ASSUME NEW r \in Rules \ spoken, NEW a \in IdsOf(r)
        PROVE  Told(next, a) = Told(m, a)
    <3>1. a[1] = r
      BY DEF IdsOf
    <3>2. out[r] = <<>>
      OBVIOUS
    <3>. QED
      BY <2>1, <2>4, <3>1, <3>2 DEF Told, Remembers
  <2>7. ASSUME NEW r \in spoken
        PROVE  /\ said[r] \in Sayings(r)
               /\ Told(next, said[r].id) = {said[r].status} \intersect Unended
               /\ \A a \in IdsOf(r) \ {said[r].id} : Told(m, a) = {} /\ Told(next, a) = {}
    <3>1. said[r] = out[r][1] /\ out[r] # <<>>
      OBVIOUS
    <3>2. \A a \in IdsOf(r) : a[1] = r /\ a # NoAnomaly
      BY DEF IdsOf, NoAnomaly
    <3>3. /\ said[r] \in Sayings(r)
          /\ said[r].id \in IdsOf(r) /\ said[r].status \in Statuses
      BY <2>4, <3>1 DEF Remembers, Sayings
    <3>. HIDE DEF said
    <3>4. Told(next, said[r].id) = {said[r].status} \intersect Unended
      <4>1. CASE said[r].status = "OPEN"
        <5>1. next.active[r] = [id |-> said[r].id, confirmations |-> 1]
          BY <2>1, <2>4, <3>1, <4>1 DEF Remembers
        <5>. QED
          BY <3>2, <3>3, <4>1, <5>1 DEF Told, Unended
      <4>2. CASE said[r].status = "ACTIVE"
        <5>1. next.active[r] = [id |-> said[r].id, confirmations |-> 2]
          BY <2>1, <2>4, <3>1, <4>2 DEF Remembers
        <5>. QED
          BY <3>2, <3>3, <4>2, <5>1 DEF Told, Unended
      <4>3. CASE said[r].status = "RESOLVED"
        <5>1. next.active[r] = NotActive
          BY <2>1, <2>4, <3>1, <4>3 DEF Remembers
        <5>. QED
          BY <3>2, <3>3, <4>3, <5>1 DEF Told, Unended, NotActive
      <4>. QED
        BY <3>3, <4>1, <4>2, <4>3 DEF Statuses
    <3>5. ASSUME NEW a \in IdsOf(r) \ {said[r].id}
          PROVE  Told(m, a) = {} /\ Told(next, a) = {}
      <4>1. m.active[r].id # a
        <5>1. m.active[r] = NotActive \/ m.active[r].id = said[r].id
          BY <2>4, <3>1 DEF Remembers
        <5>2. NotActive.id = NoAnomaly
          BY DEF NotActive
        <5>. QED
          BY <3>2, <5>1, <5>2
      <4>2. next.active[r].id # a
        <5>1. \/ active[r] = NotActive
              \/ active[r] = [id |-> said[r].id, confirmations |-> 1]
              \/ active[r] = [id |-> said[r].id, confirmations |-> 2]
          BY <2>4, <3>1, <3>3 DEF Statuses, Remembers
        <5>2. active[r].id \in {NoAnomaly, said[r].id}
          BY <5>1 DEF NotActive
        <5>. QED
          BY <2>1, <3>2, <5>2
      <4>. QED
        BY <3>2, <4>1, <4>2 DEF Told
    <3>. QED
      BY <3>3, <3>4, <3>5
  <2>. QED
    BY <2>1, <2>5, <2>6, <2>7 DEF SaysChanges
<1>. QED
  BY <1>1, <1>2

-----------------------------------------------------------------------------
(* Incidents *)

Anomaly == [id : AnomalyIds, status : Statuses]

(* Open until its last anomaly has ended and the period after that is over. *)
Sound(incident) ==
  IF incident.status = "RESOLVED" THEN Unresolved(incident) = {}
  ELSE incident.stabilizing # 0 <=> Unresolved(incident) = {}

LEMMA TimesArePositive == Times \subseteq Nat \ {0}
<1>1. ASSUME NEW e \in Entries
      PROVE  Telemetry[e].time \in Nat \ {0}
  <2>1. Telemetry[e] \in Events
    BY RuleAssumption DEF Entries
  <2>. QED
    BY <2>1 DEF Events
<1>. QED
  BY <1>1 DEF Times

LEMMA CreatedIsSound ==
  ASSUME NEW anomaly \in Anomaly, anomaly.status # "RESOLVED", NEW time \in Times
  PROVE  LET incident == Created(anomaly, time)
         IN  /\ incident \in Incident /\ Sound(incident)
             /\ \A a \in AnomalyIds :
                  incident.anomalies[a] = IF a = anomaly.id THEN anomaly.status ELSE "none"
<1>. DEFINE incident == Created(anomaly, time)
<1>1. anomaly.id \in AnomalyIds /\ anomaly.status \in {"OPEN", "ACTIVE"}
  BY DEF Anomaly, Statuses
<1>2. incident \in Incident
  BY <1>1 DEF Created, Incident
<1>3. \A a \in AnomalyIds :
        incident.anomalies[a] = IF a = anomaly.id THEN anomaly.status ELSE "none"
  BY DEF Created
<1>4. incident.status = "OPEN" /\ incident.stabilizing = 0
  BY DEF Created
<1>. HIDE DEF incident
<1>5. anomaly.id \in Unresolved(incident)
  BY <1>1, <1>3 DEF Unresolved
<1>. QED
  BY <1>2, <1>3, <1>4, <1>5 DEF Sound, incident

LEMMA RebuiltIsSound ==
  ASSUME NEW incident \in Incident, NEW anomaly \in Anomaly, NEW time \in Times
  PROVE  LET next == Rebuilt(incident, anomaly, time)
         IN  /\ next \in Incident /\ Sound(next)
             /\ next.anomalies = [incident.anomalies EXCEPT ![anomaly.id] = anomaly.status]
<1>1. anomaly.id \in AnomalyIds /\ anomaly.status \in {"OPEN", "ACTIVE", "RESOLVED"}
  BY DEF Anomaly, Statuses
<1>. DEFINE first == [incident EXCEPT !.status = "ACTIVE",
                                      !.lastSeen = IF time > @ THEN time ELSE @,
                                      !.anomalies[anomaly.id] = anomaly.status]
            next == Rebuilt(incident, anomaly, time)
<1>2. first \in Incident /\ first.status = "ACTIVE"
      /\ first.stabilizing = incident.stabilizing
      /\ first.anomalies = [incident.anomalies EXCEPT ![anomaly.id] = anomaly.status]
  BY <1>1 DEF Incident
<1>3. next = [first EXCEPT !.stabilizing =
                IF Unresolved(first) # {} THEN 0 ELSE IF @ # 0 THEN @ ELSE time]
  BY DEF Rebuilt
<1>. HIDE DEF first, next
<1>4. /\ next \in Incident /\ next.status = "ACTIVE" /\ next.anomalies = first.anomalies
      /\ next.stabilizing = IF Unresolved(first) # {} THEN 0
                            ELSE IF first.stabilizing # 0 THEN first.stabilizing ELSE time
  BY <1>2, <1>3 DEF Incident
<1>5. Unresolved(next) = Unresolved(first)
  BY <1>4 DEF Unresolved
<1>6. time # 0
  BY TimesArePositive
<1>7. Sound(next)
  BY <1>4, <1>5, <1>6 DEF Sound
<1>. QED
  BY <1>2, <1>4, <1>7 DEF next

\* What correlateInScope may write, and where.
LEMMA CorrelationIsSound ==
  ASSUME incidents \in Seq(Incident), NEW anomaly \in Anomaly, NEW time \in Times,
         NEW change \in Correlations(anomaly, time)
  PROVE  /\ change.aggregate \in Incident /\ Sound(change.aggregate)
         /\ HoldersOf(anomaly.id) = {} \/ change.incident \in HoldersOf(anomaly.id)
         /\ \/ /\ change.incident \in DOMAIN incidents
               /\ change.aggregate.anomalies =
                    [incidents[change.incident].anomalies EXCEPT ![anomaly.id] = anomaly.status]
            \/ /\ change.incident = Len(incidents) + 1
               /\ \A a \in AnomalyIds :
                    change.aggregate.anomalies[a] =
                      IF a = anomaly.id THEN anomaly.status ELSE "none"
<1>. DEFINE targets == IF HoldersOf(anomaly.id) # {} THEN HoldersOf(anomaly.id)
                       ELSE IF anomaly.status = "RESOLVED" THEN {}
                       ELSE ActiveIncidents
<1>1. CASE targets = {} /\ anomaly.status # "RESOLVED"
  <2>1. change = Change(Len(incidents) + 1, "CREATED", Created(anomaly, time))
    BY <1>1 DEF Correlations
  <2>2. HoldersOf(anomaly.id) = {}
    BY <1>1
  <2>3. change.incident = Len(incidents) + 1 /\ change.aggregate = Created(anomaly, time)
    BY <2>1 DEF Change
  <2>. QED
    BY <1>1, <2>2, <2>3, CreatedIsSound
<1>2. CASE ~(targets = {} /\ anomaly.status # "RESOLVED")
  <2>1. PICK i \in targets : change = Change(i, "UPDATED", Rebuilt(incidents[i], anomaly, time))
    BY <1>2 DEF Correlations
  <2>2. i \in DOMAIN incidents /\ (HoldersOf(anomaly.id) = {} \/ i \in HoldersOf(anomaly.id))
    BY DEF HoldersOf, ActiveIncidents
  <2>3. incidents[i] \in Incident
    BY <2>2
  <2>4. change.incident = i /\ change.aggregate = Rebuilt(incidents[i], anomaly, time)
    BY <2>1 DEF Change
  <2>. QED
    BY <2>2, <2>3, <2>4, RebuiltIsSound
<1>. QED
  BY <1>1, <1>2

Writes(change) ==
  incidents' = [i \in DOMAIN incidents \union {change.incident} |->
                  IF i = change.incident THEN change.aggregate ELSE incidents[i]]

LEMMA WritingIsSound ==
  ASSUME incidents \in Seq(Incident), NEW change, change.aggregate \in Incident,
         change.incident \in DOMAIN incidents \union {Len(incidents) + 1},
         Writes(change)
  PROVE  /\ incidents' \in Seq(Incident)
         /\ DOMAIN incidents' = DOMAIN incidents \union {change.incident}
         /\ incidents'[change.incident] = change.aggregate
         /\ \A i \in DOMAIN incidents : i # change.incident => incidents'[i] = incidents[i]
<1>1. DOMAIN incidents = 1..Len(incidents) /\ Len(incidents) \in Nat
  OBVIOUS
<1>2. \E n \in Nat : DOMAIN incidents \union {change.incident} = 1..n
  <2>1. CASE change.incident \in DOMAIN incidents
    BY <1>1, <2>1
  <2>2. CASE change.incident = Len(incidents) + 1
    <3>1. DOMAIN incidents \union {change.incident} = 1..(Len(incidents) + 1)
      BY <1>1, <2>2
    <3>. QED
      BY <1>1, <3>1
  <2>. QED
    BY <2>1, <2>2
<1>3. PICK n \in Nat : DOMAIN incidents \union {change.incident} = 1..n
  BY <1>2
<1>4. incidents' \in [1..n -> Incident]
  BY <1>1, <1>3 DEF Writes
<1>5. incidents' \in Seq(Incident)
  BY <1>4, SeqDef
<1>. QED
  BY <1>5 DEF Writes

(* The change resolves a healthy incident as it stands.                     *)
Resolves(change) ==
  /\ change.incident \in DOMAIN incidents
  /\ change.aggregate = Resolved(incidents[change.incident])
  /\ Unresolved(incidents[change.incident]) = {}

\* Writing it changes no anomaly.
LEMMA ResolvingIsSound ==
  ASSUME incidents \in Seq(Incident), \A i \in DOMAIN incidents : Sound(incidents[i]),
         NEW change, Resolves(change), WriteBack(change)
  PROVE  /\ incidents' \in Seq(Incident) /\ DOMAIN incidents' = DOMAIN incidents
         /\ \A i \in DOMAIN incidents : /\ Sound(incidents'[i])
                                       /\ incidents'[i].anomalies = incidents[i].anomalies
<1>1. ASSUME NEW i \in DOMAIN incidents
      PROVE  /\ Resolved(incidents[i]) \in Incident
             /\ Resolved(incidents[i]).status = "RESOLVED"
             /\ Resolved(incidents[i]).anomalies = incidents[i].anomalies
             /\ Unresolved(Resolved(incidents[i])) = Unresolved(incidents[i])
  <2>1. incidents[i] \in Incident
    OBVIOUS
  <2>2. /\ Resolved(incidents[i]) \in Incident
        /\ Resolved(incidents[i]).status = "RESOLVED"
        /\ Resolved(incidents[i]).anomalies = incidents[i].anomalies
    BY <2>1 DEF Resolved, Incident
  <2>. QED
    BY <2>2 DEF Unresolved
<1>3. ASSUME NEW i \in DOMAIN incidents
      PROVE  /\ incidents'[i] \in Incident /\ Sound(incidents'[i])
             /\ incidents'[i].anomalies = incidents[i].anomalies
  <2>1. CASE i = change.incident
    BY <1>1, <2>1 DEF WriteBack, Resolves, Sound
  <2>2. CASE i # change.incident
    BY <2>2 DEF WriteBack
  <2>. QED
    BY <2>1, <2>2
<1>4. DOMAIN incidents' = 1..Len(incidents) /\ Len(incidents) \in Nat
  BY DEF WriteBack
<1>5. incidents' \in [1..Len(incidents) -> Incident]
  BY <1>3, <1>4 DEF WriteBack
<1>6. incidents' \in Seq(Incident)
  BY <1>4, <1>5, SeqDef
<1>. QED
  BY <1>3, <1>4, <1>6

(* Memory, snapshot and calls know anomalies of their rules; incidents are sound. *)
RulesHold ==
  /\ WorkShape
  /\ KnowsOwn(memory) /\ KnowsOwn(snapshot)
  /\ \A d \in Deliveries :
       /\ DOMAIN work[d].todo \subseteq Rules
       /\ \A r \in DOMAIN work[d].todo : work[d].todo[r] \in Sayings(r)
  /\ incidents \in Seq(Incident)
  /\ \A i \in DOMAIN incidents : Sound(incidents[i])

(* What advance() goes by, unless another handler writes meanwhile: those    *)
(* it listed are healthy, and the one it has read is as it was read.        *)
DueOK(d) ==
  /\ At(d, "resolve") \/ At(d, "store") =>
       \A i \in work[d].due : i \in DOMAIN incidents /\ Unresolved(incidents[i]) = {}
  /\ At(d, "store") => Resolves(work[d].found)

DueHolds == \A d \in Deliveries : DueOK(d)

LEMMA NothingSaid == DOMAIN Waiting.todo = {} /\ KnowsOwn(EmptyMemory)
<1> QED
  BY DEF Waiting, KnowsOwn, EmptyMemory

LEMMA EvaluatingKeeps ==
  ASSUME RulesHold, NEW d \in Deliveries, EvaluateRules(d)
  PROVE  RulesHold'
<1>. DEFINE current == IF hydrated THEN memory ELSE snapshot
            result == Evaluate(current, d[1])
<1>1. KnowsOwn(current)
  BY DEF RulesHold
<1>2. KnowsOwn(result.memory) /\ SaysChanges(current, result.memory, result.emitted)
  BY <1>1, EvaluateSays, DeliveryParts
<1>3. \/ /\ memory' = result.memory
         /\ work' = [work EXCEPT ![d].at = "correlate", ![d].todo = result.emitted]
      \/ memory' = current /\ GoTo(d, "correlate")
  BY DEF EvaluateRules
<1>4. UNCHANGED <<incidents, snapshot>>
  BY DEF EvaluateRules, incidentVars
<1>. HIDE DEF current, result
<1>5. KnowsOwn(memory')
  BY <1>1, <1>2, <1>3
<1>6. WorkShape' /\ OthersStay(d) /\ work'[d].todo \in {work[d].todo, result.emitted}
  BY <1>3, Going DEF RulesHold, WorkShape, Fields, OthersStay
<1>. QED
  BY <1>2, <1>4, <1>5, <1>6 DEF RulesHold, OthersStay, SaysChanges

\* The rule whose anomaly is next; what is written, if anything is.
LEMMA CorrelatingDoes ==
  ASSUME RulesHold, NEW d \in Deliveries, Correlate(d)
  PROVE  \E r \in DOMAIN work[d].todo :
           /\ work[d].todo[r] \in Anomaly
           /\ work'[d].at = "correlate" /\ WorkShape' /\ OthersStay(d)
           /\ work'[d].todo = [s \in DOMAIN work[d].todo \ {r} |-> work[d].todo[s]]
           /\ \/ Correlations(work[d].todo[r], TimeOf(d)) = {} /\ UNCHANGED incidents
              \/ \E change \in Correlations(work[d].todo[r], TimeOf(d)) : Writes(change)
<1>. DEFINE rest(r) == [s \in DOMAIN work[d].todo \ {r} |-> work[d].todo[s]]
<1>1. PICK r \in DOMAIN work[d].todo :
        \/ /\ Correlations(work[d].todo[r], TimeOf(d)) = {}
           /\ work' = [work EXCEPT ![d].todo = rest(r)]
           /\ UNCHANGED incidents
        \/ \E change \in Correlations(work[d].todo[r], TimeOf(d)) :
             /\ Writes(change)
             /\ work' = [work EXCEPT ![d].todo = rest(r), ![d].changes = <<change>>]
  BY DEF Correlate, Writes
<1>2. work[d].todo[r] \in Anomaly
  BY DEF RulesHold, Sayings, Anomaly, IdsOf, AnomalyIds
<1>3. work[d].at = "correlate"
  BY DEF Correlate, At
<1>. HIDE DEF rest
<1>4. \E changes : \/ work' = [work EXCEPT ![d].todo = rest(r)]
                   \/ work' = [work EXCEPT ![d].todo = rest(r), ![d].changes = changes]
  BY <1>1
<1>5. /\ WorkShape' /\ OthersStay(d)
      /\ work'[d].at = "correlate" /\ work'[d].todo = rest(r)
  BY <1>3, <1>4 DEF RulesHold, WorkShape, Fields, OthersStay
<1>. QED
  BY <1>1, <1>2, <1>5 DEF rest

LEMMA CorrelatingKeeps ==
  ASSUME RulesHold, NEW d \in Deliveries, Correlate(d)
  PROVE  RulesHold'
<1>1. PICK r \in DOMAIN work[d].todo :
        /\ work[d].todo[r] \in Anomaly
        /\ work'[d].at = "correlate" /\ WorkShape' /\ OthersStay(d)
        /\ work'[d].todo = [s \in DOMAIN work[d].todo \ {r} |-> work[d].todo[s]]
        /\ \/ Correlations(work[d].todo[r], TimeOf(d)) = {} /\ UNCHANGED incidents
           \/ \E change \in Correlations(work[d].todo[r], TimeOf(d)) : Writes(change)
  BY CorrelatingDoes
<1>2. UNCHANGED <<memory, snapshot>>
  BY DEF Correlate, ruleVars
<1>3. incidents' \in Seq(Incident) /\ \A i \in DOMAIN incidents' : Sound(incidents'[i])
  <2>1. CASE UNCHANGED incidents
    BY <2>1 DEF RulesHold
  <2>2. ASSUME NEW change \in Correlations(work[d].todo[r], TimeOf(d)), Writes(change)
        PROVE  incidents' \in Seq(Incident) /\ \A i \in DOMAIN incidents' : Sound(incidents'[i])
    <3>1. /\ change.aggregate \in Incident /\ Sound(change.aggregate)
          /\ change.incident \in DOMAIN incidents \union {Len(incidents) + 1}
      BY <1>1, CorrelationIsSound, DeliveryParts DEF RulesHold
    <3>. QED
      BY <2>2, <3>1, WritingIsSound DEF RulesHold
  <2>. QED
    BY <1>1, <2>1, <2>2
<1>4. /\ DOMAIN work'[d].todo \subseteq DOMAIN work[d].todo
      /\ \A s \in DOMAIN work'[d].todo : work'[d].todo[s] = work[d].todo[s]
  BY <1>1
<1>. QED
  BY <1>1, <1>2, <1>3, <1>4 DEF RulesHold, OthersStay

LEMMA RulesStep ==
  ASSUME RulesHold, DueHolds, [Next]_vars
  PROVE  RulesHold'
<1>1. WorkShape'
  BY WorkShapeStep DEF RulesHold
<1>2. ASSUME NEW d \in Deliveries, Inner(d)
      PROVE  RulesHold'
  <2>1. OthersStay(d)
    BY <1>2, CallStep DEF Inner, ProcessStep, RulesHold
  <2>2. CASE EvaluateRules(d) \/ Correlate(d)
    BY <2>2, EvaluatingKeeps, CorrelatingKeeps
  <2>3. CASE Advance(d)
    <3>1. incidents' \in Seq(Incident) /\ \A i \in DOMAIN incidents' : Sound(incidents'[i])
      BY <2>3, AdvanceMoves, ResolvingIsSound DEF RulesHold, DueHolds, DueOK
    <3>2. work'[d].todo = work[d].todo
      BY <2>3, AdvanceMoves DEF RulesHold
    <3>3. UNCHANGED <<memory, snapshot>>
      BY <2>3 DEF Advance, ruleVars
    <3>. QED
      BY <1>1, <2>1, <3>1, <3>2, <3>3 DEF RulesHold, OthersStay
  <2>4. CASE Fail(d)
    <3>1. incidents' \in Seq(Incident) /\ \A i \in DOMAIN incidents' : Sound(incidents'[i])
      <4>1. CASE UNCHANGED incidents
        BY <4>1 DEF RulesHold
      <4>2. CASE At(d, "store") /\ WriteBack(work[d].found)
        BY <4>2, ResolvingIsSound DEF RulesHold, DueHolds, DueOK
      <4>. QED
        BY <2>4, <4>1, <4>2 DEF Fail
    <3>2. DOMAIN work'[d].todo = {}
      BY <2>4, NothingSaid DEF Fail, RulesHold, WorkShape, Waiting
    <3>3. UNCHANGED <<memory, snapshot>>
      BY <2>4 DEF Fail, ruleVars
    <3>. QED
      BY <1>1, <2>1, <3>1, <3>2, <3>3 DEF RulesHold, OthersStay
  <2>5. CASE Commit(d) \/ Rollback(d) \/ RollbackFails(d)
    <3>1. /\ memory' \in {memory, snapshot} /\ snapshot' \in {memory, snapshot}
          /\ UNCHANGED incidents
      BY <2>5 DEF Commit, Rollback, RollbackFails, incidentVars
    <3>2. work'[d].todo = work[d].todo
      BY <2>5, Going DEF Commit, Rollback, RollbackFails, RulesHold
    <3>. QED
      BY <1>1, <2>1, <3>1, <3>2 DEF RulesHold, OthersStay
  <2>6. CASE PublishUpdated(d) \/ PublishLifecycle(d)
    <3>1. work'[d].todo = work[d].todo
      BY <2>6 DEF PublishUpdated, PublishLifecycle, RulesHold, WorkShape, Fields
    <3>2. UNCHANGED <<memory, snapshot, incidents>>
      BY <2>6 DEF PublishUpdated, PublishLifecycle, ruleVars
    <3>. QED
      BY <1>1, <2>1, <3>1, <3>2 DEF RulesHold, OthersStay
  <2>7. CASE Begin(d) \/ BeginFails(d) \/ ShouldAdvance(d) \/ Complete(d) \/ Release(d)
    <3>1. work'[d].todo = work[d].todo
      BY <2>7, Going DEF Begin, BeginFails, ShouldAdvance, Complete, Release, RulesHold
    <3>2. UNCHANGED <<memory, snapshot, incidents>>
      BY <2>7 DEF Begin, BeginFails, ShouldAdvance, Complete, Release, ruleVars, incidentVars
    <3>. QED
      BY <1>1, <2>1, <3>1, <3>2 DEF RulesHold, OthersStay
  <2>. QED
    BY <1>2, <2>2, <2>3, <2>4, <2>5, <2>6, <2>7 DEF Inner
<1>3. ASSUME NEW d \in Deliveries, ProcessResolves(d) \/ ProcessRejects(d)
      PROVE  RulesHold'
  <2>1. GoTo(d, "idle") /\ UNCHANGED <<memory, snapshot, incidents>>
    BY <1>3 DEF ProcessResolves, ProcessRejects, ruleVars, incidentVars
  <2>. QED
    BY <2>1, Going DEF RulesHold, OthersStay
<1>4. ASSUME NEW e \in Entries, Receive(e)
      PROVE  RulesHold'
  <2>1. \A d \in Deliveries : work'[d].todo = work[d].todo
    BY <1>4 DEF Receive, GoTo, RulesHold, WorkShape, Fields
  <2>2. UNCHANGED <<memory, snapshot, incidents>>
    BY <1>4 DEF Receive, ruleVars, incidentVars
  <2>. QED
    BY <1>1, <2>1, <2>2 DEF RulesHold
<1>5. CASE LoseProcess
  <2>1. \A d \in Deliveries : DOMAIN work'[d].todo = {}
    BY <1>5, NothingSaid DEF LoseProcess
  <2>. QED
    BY <1>1, <1>5, <2>1, NothingSaid DEF LoseProcess, RulesHold
<1>6. CASE UNCHANGED processorVars
  BY <1>1, <1>6 DEF processorVars, ruleVars, incidentVars, RulesHold
<1>. QED
  BY <1>2, <1>3, <1>4, <1>5, <1>6, OtherSteps DEF Ack, DeadLetter

LEMMA RulesInit ==
  ASSUME Init
  PROVE  RulesHold
<1>1. DOMAIN work = Deliveries /\ \A d \in Deliveries : work[d] = Waiting
  BY DEF Init
<1>2. WorkShape
  BY <1>1 DEF WorkShape, Waiting, Fields
<1>. QED
  BY <1>1, <1>2, NothingSaid DEF Init, RulesHold

\* While one call is under way, the others wait.
LEMMA OthersIdle ==
  ASSUME LedgerHolds, NEW d \in Deliveries, task[d] # "none"
  PROVE  \A c \in Deliveries : c # d => work[c].at = "idle" /\ task[c] = "none"
<1> QED
  BY Alone DEF LedgerHolds, LedgerInv

\* advance() finds healthy incidents, reads one as it is, and writes it so.
LEMMA AdvancingKeepsDue ==
  ASSUME RulesHold, NEW d \in Deliveries, DueOK(d), Advance(d)
  PROVE  DueOK(d)'
<1>. USE DEF At
<1>. WorkShape /\ incidents \in Seq(Incident)
  BY DEF RulesHold
<1>1. CASE ListDue(d)
  <2>1. /\ work'[d].at = "resolve" /\ work'[d].due = Stabilized(TimeOf(d))
        /\ UNCHANGED incidents
    BY <1>1 DEF ListDue, WorkShape, Fields
  <2>2. ASSUME NEW i \in Stabilized(TimeOf(d))
        PROVE  i \in DOMAIN incidents /\ Unresolved(incidents[i]) = {}
    BY DEF Stabilized, ActiveIncidents, RulesHold, Sound
  <2>. QED
    BY <2>1, <2>2 DEF DueOK, Unresolved
<1>2. CASE ReadDue(d)
  <2>1. PICK i \in work[d].due :
          work' = [work EXCEPT ![d].at = "store", ![d].due = work[d].due \ {i},
                     ![d].found = Change(i, "RESOLVED", Resolved(incidents[i]))]
    BY <1>2 DEF ReadDue, WorkShape, Fields
  <2>2. /\ work'[d].at = "store" /\ work'[d].due = work[d].due \ {i}
        /\ work'[d].found = Change(i, "RESOLVED", Resolved(incidents[i]))
    BY <2>1 DEF WorkShape, Fields
  <2>3. work[d].at = "resolve" /\ UNCHANGED incidents
    BY <1>2 DEF ReadDue
  <2>. QED
    BY <2>2, <2>3 DEF DueOK, Resolves, Unresolved, Change
<1>3. CASE StoreResolved(d)
  <2>1. /\ work'[d].at = "resolve" /\ work'[d].due = work[d].due
        /\ work[d].at = "store" /\ WriteBack(work[d].found)
    BY <1>3 DEF StoreResolved, WorkShape, Fields
  <2>2. /\ DOMAIN incidents' = DOMAIN incidents
        /\ \A i \in DOMAIN incidents : incidents'[i].anomalies = incidents[i].anomalies
    BY <2>1, ResolvingIsSound DEF DueOK, RulesHold
  <2>. QED
    BY <2>1, <2>2 DEF DueOK, Unresolved
<1>4. CASE AdvanceEnds(d)
  BY <1>4, Going DEF AdvanceEnds, DueOK
<1>. QED
  BY <1>1, <1>2, <1>3, <1>4 DEF Advance

\* The other steps of a call do not lead there, or leave what it goes by.
LEMMA CallKeepsDue ==
  ASSUME RulesHold, NEW d \in Deliveries, DueOK(d), Inner(d)
  PROVE  DueOK(d)'
<1>. WorkShape
  BY DEF RulesHold
<1>1. CASE Advance(d)
  BY <1>1, AdvancingKeepsDue
<1>2. CASE PublishUpdated(d) \/ PublishLifecycle(d)
  <2>1. /\ work'[d].at = work[d].at /\ work'[d].due = work[d].due
        /\ work'[d].found = work[d].found
    BY <1>2 DEF PublishUpdated, PublishLifecycle, WorkShape, Fields
  <2>2. UNCHANGED incidents
    BY <1>2 DEF PublishUpdated, PublishLifecycle
  <2>. QED
    BY <2>1, <2>2 DEF DueOK, Resolves, Unresolved, At
<1>3. CASE EvaluateRules(d) \/ Correlate(d) \/ Fail(d)
  <2>1. work'[d].at \in {"correlate", "rollback"}
    <3>1. EvaluateRules(d) => work'[d].at = "correlate"
      BY Going DEF EvaluateRules, WorkShape, Fields
    <3>2. Correlate(d) => work'[d].at = "correlate"
      BY CorrelatingDoes
    <3>3. Fail(d) => work'[d].at = "rollback"
      BY DEF Fail, WorkShape, Waiting
    <3>. QED
      BY <1>3, <3>1, <3>2, <3>3
  <2>. QED
    BY <2>1 DEF DueOK, At
<1>4. CASE \E step \in {"evaluate", "complete", "done", "failed", "advance", "commit",
                       "release"} : GoTo(d, step)
  <2>1. work'[d].at \notin {"resolve", "store"}
    BY <1>4, Going
  <2>. QED
    BY <2>1 DEF DueOK, At
<1>. QED
  BY <1>1, <1>2, <1>3, <1>4
     DEF Inner, Begin, BeginFails, ShouldAdvance, Commit, Complete, Rollback, RollbackFails,
         Release

LEMMA DueStep ==
  ASSUME LedgerHolds, RulesHold, DueHolds, [Next]_vars
  PROVE  DueHolds'
<1>. WorkShape
  BY DEF RulesHold
<1>1. ASSUME NEW c \in Deliveries, work'[c].at \notin {"resolve", "store"}
      PROVE  DueOK(c)'
  BY <1>1 DEF DueOK, At
<1>2. ASSUME NEW c \in Deliveries, work'[c] = work[c], UNCHANGED incidents
      PROVE  DueOK(c)'
  BY <1>2 DEF DueHolds, DueOK, Resolves, Unresolved, At
<1>3. ASSUME NEW d \in Deliveries, Inner(d)
      PROVE  DueHolds'
  <2>1. OthersStay(d)
    BY <1>3, CallStep DEF Inner, ProcessStep
  <2>2. DueOK(d)'
    BY <1>3, CallKeepsDue DEF DueHolds
  <2>3. CASE work[d].at = "idle"
    <3>1. ~Advance(d)
      BY <2>3, AdvanceMoves
    <3>2. UNCHANGED incidents
      BY <1>3, <2>3, <3>1
         DEF Inner, Begin, BeginFails, EvaluateRules, Correlate, PublishUpdated, ToPublish,
             PublishLifecycle, ShouldAdvance, Commit, Complete, Fail, TrySteps, Rollback,
             RollbackFails, Release, At
    <3>. QED
      BY <1>2, <2>1, <2>2, <3>2 DEF DueHolds, OthersStay
  <2>4. CASE work[d].at # "idle"
    <3>1. \A c \in Deliveries : c # d => work'[c].at = "idle"
      BY <2>1, <2>4, OthersIdle DEF LedgerHolds, LedgerInv, OthersStay
    <3>. QED
      BY <1>1, <2>2, <3>1 DEF DueHolds
  <2>. QED
    BY <2>3, <2>4
<1>4. ASSUME NEW d \in Deliveries, ProcessResolves(d) \/ ProcessRejects(d)
      PROVE  DueHolds'
  <2>1. GoTo(d, "idle") /\ UNCHANGED incidents
    BY <1>4 DEF ProcessResolves, ProcessRejects, incidentVars
  <2>. QED
    BY <1>1, <1>2, <2>1, Going DEF DueHolds, OthersStay
<1>5. ASSUME NEW e \in Entries, Receive(e)
      PROVE  DueHolds'
  <2>1. <<e, attempts[e] + 1>> \in Deliveries
    BY <1>5, BeforeDelivery DEF Receive, LedgerHolds
  <2>2. PICK step \in {"failed", "begin"} : GoTo(<<e, attempts[e] + 1>>, step)
    BY <1>5 DEF Receive
  <2>3. UNCHANGED incidents
    BY <1>5 DEF Receive, incidentVars
  <2>. QED
    BY <1>1, <1>2, <2>1, <2>2, <2>3, Going DEF DueHolds, OthersStay
<1>6. CASE LoseProcess
  BY <1>1, <1>6 DEF LoseProcess, Waiting, DueHolds
<1>7. CASE UNCHANGED processorVars
  BY <1>2, <1>7 DEF processorVars, incidentVars, DueHolds
<1>. QED
  BY <1>3, <1>4, <1>5, <1>6, <1>7, OtherSteps DEF Ack, DeadLetter

LEMMA DueInit ==
  ASSUME Init
  PROVE  DueHolds
<1> QED
  BY DEF Init, Waiting, DueHolds, DueOK, At

\* While no handler outlives its deadline, for any telemetry, rules, deliveries and
\* stabilization period, and whatever fails, expires or crashes: an incident is
\* resolved only when every anomaly in it has ended, and one in which all have ended
\* is stabilizing. advance() lists, reads and writes each one outside the lock of the
\* correlation: with two handlers at work it would write back a stale incident.
THEOREM NobodyResolvedUnhealthy ==
  ASSUME ~HandlersMayOverrun
  PROVE  Spec => []ResolvedMeansHealthy
<1>. DEFINE All == LedgerHolds /\ RulesHold /\ DueHolds
<1>1. Init => All
  BY LedgerInit, RulesInit, DueInit
<1>2. All /\ [Next]_vars => All'
  BY LedgerKept, RulesStep, DueStep
<1>3. All => ResolvedMeansHealthy
  BY DEF RulesHold, ResolvedMeansHealthy, Sound
<1>. QED
  BY <1>1, <1>2, <1>3, PTL DEF Spec

-----------------------------------------------------------------------------
(* What the incidents hold open, and what the rules would say of it *)

Held(a) == {incidents[i].anomalies[a] : i \in DOMAIN incidents} \intersect Unended

OneHolder == \A a \in AnomalyIds : \A i, j \in HoldersOf(a) : i = j

\* A correlated anomaly is held open with the status that was told, or not at all;
\* no other is touched, and none gets a second incident.
LEMMA CorrelatingTells ==
  ASSUME RulesHold, OneHolder, NEW anomaly \in Anomaly, NEW time \in Times,
         \/ Correlations(anomaly, time) = {} /\ UNCHANGED incidents
         \/ \E change \in Correlations(anomaly, time) : Writes(change)
  PROVE  /\ OneHolder'
         /\ Held(anomaly.id)' = {anomaly.status} \intersect Unended
         /\ \A a \in AnomalyIds \ {anomaly.id} : Held(a)' = Held(a)
<1>. anomaly.id \in AnomalyIds /\ anomaly.status \in {"OPEN", "ACTIVE", "RESOLVED"}
  BY DEF Anomaly, Statuses
<1>1. CASE Correlations(anomaly, time) = {} /\ UNCHANGED incidents
  <2>1. HoldersOf(anomaly.id) = {} /\ anomaly.status = "RESOLVED"
    BY <1>1 DEF Correlations
  <2>2. Held(anomaly.id) = {}
    BY <2>1 DEF HoldersOf, Held, Unended
  <2>3. \A a : Held(a)' = Held(a) /\ HoldersOf(a)' = HoldersOf(a)
    BY <1>1 DEF Held, HoldersOf
  <2>4. {anomaly.status} \intersect Unended = {}
    BY <2>1 DEF Unended
  <2>. QED
    BY <2>2, <2>3, <2>4 DEF OneHolder
<1>2. ASSUME NEW change \in Correlations(anomaly, time), Writes(change)
      PROVE  /\ OneHolder'
             /\ Held(anomaly.id)' = {anomaly.status} \intersect Unended
             /\ \A a \in AnomalyIds \ {anomaly.id} : Held(a)' = Held(a)
  <2>. DEFINE k == change.incident
  <2>1. incidents \in Seq(Incident)
    BY DEF RulesHold
  <2>2. /\ change.aggregate \in Incident
        /\ HoldersOf(anomaly.id) = {} \/ k \in HoldersOf(anomaly.id)
        /\ \/ /\ k \in DOMAIN incidents
              /\ change.aggregate.anomalies =
                   [incidents[k].anomalies EXCEPT ![anomaly.id] = anomaly.status]
           \/ /\ k = Len(incidents) + 1
              /\ \A a \in AnomalyIds :
                   change.aggregate.anomalies[a] =
                     IF a = anomaly.id THEN anomaly.status ELSE "none"
    BY <2>1, CorrelationIsSound
  <2>3. /\ DOMAIN incidents' = DOMAIN incidents \union {k}
        /\ incidents'[k] = change.aggregate
        /\ \A i \in DOMAIN incidents : i # k => incidents'[i] = incidents[i]
    BY <1>2, <2>1, <2>2, WritingIsSound
  <2>4. ASSUME NEW i \in DOMAIN incidents
        PROVE  DOMAIN incidents[i].anomalies = AnomalyIds
    <3>1. incidents[i] \in Incident
      BY <2>1
    <3>. QED
      BY <3>1 DEF Incident
  <2>5. k \notin DOMAIN incidents \/ k \in DOMAIN incidents
    OBVIOUS
  <2>6. ~(Len(incidents) + 1 \in DOMAIN incidents)
    BY <2>1
  <2>7. ASSUME NEW a \in AnomalyIds \ {anomaly.id}
        PROVE  /\ k \in DOMAIN incidents => incidents'[k].anomalies[a] = incidents[k].anomalies[a]
               /\ k \notin DOMAIN incidents => incidents'[k].anomalies[a] = "none"
    <3>1. CASE k \in DOMAIN incidents
      BY <2>2, <2>3, <2>4, <2>6, <3>1
    <3>2. CASE k \notin DOMAIN incidents
      BY <2>2, <2>3, <3>2
    <3>. QED
      BY <3>1, <3>2
  <2>8. incidents'[k].anomalies[anomaly.id] = anomaly.status
    BY <2>2, <2>3, <2>4
  <2>. HIDE DEF k
  <2>9. ASSUME NEW a \in AnomalyIds \ {anomaly.id}
        PROVE  Held(a)' = Held(a) /\ HoldersOf(a)' = HoldersOf(a)
    <3>1. HoldersOf(a)' = HoldersOf(a)
      BY <2>3, <2>7 DEF HoldersOf
    <3>2. Held(a)' = Held(a)
      BY <2>3, <2>7 DEF Held, Unended
    <3>. QED
      BY <3>1, <3>2
  <2>10. HoldersOf(anomaly.id)' \subseteq {k}
    BY <2>2, <2>3 DEF OneHolder, HoldersOf
  <2>11. Held(anomaly.id)' = {anomaly.status} \intersect Unended
    <3>1. \A i \in DOMAIN incidents' : i # k => incidents'[i].anomalies[anomaly.id] = "none"
      BY <2>10 DEF HoldersOf
    <3>2. \A x \in Held(anomaly.id)' : x = anomaly.status
      BY <2>8, <3>1 DEF Held, Unended
    <3>3. anomaly.status \in Unended => anomaly.status \in Held(anomaly.id)'
      BY <2>3, <2>8 DEF Held
    <3>4. Held(anomaly.id)' \subseteq Unended
      BY DEF Held
    <3>. QED
      BY <3>2, <3>3, <3>4
  <2>12. OneHolder'
    BY <2>9, <2>10 DEF OneHolder
  <2>. QED
    BY <2>9, <2>11, <2>12
<1>. QED
  BY <1>1, <1>2

\* A step that changes no anomaly of an incident changes nothing held.
LEMMA HeldStays ==
  ASSUME DOMAIN incidents' = DOMAIN incidents,
         \A i \in DOMAIN incidents : incidents'[i].anomalies = incidents[i].anomalies
  PROVE  /\ \A a : Held(a)' = Held(a)
         /\ OneHolder => OneHolder'
<1>1. \A a : HoldersOf(a)' = HoldersOf(a)
  BY DEF HoldersOf
<1>2. \A a : Held(a)' = Held(a)
  BY DEF Held
<1>. QED
  BY <1>1, <1>2 DEF OneHolder

-----------------------------------------------------------------------------
(* The memory of the engine, beside the snapshot *)

Evaluated == {"correlate", "advance", "resolve", "store", "commit"}

Skipped(e) == e \in Probes \/ e \in Malformed \/ ~Telemetry[e].relevant

(* The memory that the evaluation of an entry leads to from the snapshot.   *)
Effect(e) == IF Skipped(e) THEN snapshot ELSE Evaluate(snapshot, e).memory
Says(e) == Evaluate(snapshot, e).emitted

TodoOK(d) ==
  IF At(d, "correlate")
  THEN \A r \in DOMAIN work[d].todo :
         ~Skipped(d[1]) /\ r \in DOMAIN Says(d[1]) /\ work[d].todo[r] = Says(d[1])[r]
  ELSE DOMAIN work[d].todo = {}

EngineAt(d) ==
  /\ work[d].at \in Evaluated =>
       hydrated /\ memory = Effect(d[1]) /\ (pending \/ memory = snapshot)
  /\ work[d].at \in Evaluated \union {"evaluate"} => d[1] \notin Probes
  /\ work[d].at \in Evaluated \union {"evaluate", "begin"} => d[1] \notin Malformed
  /\ TodoOK(d)

Unchanged == ~pending /\ (hydrated => memory = snapshot)

(* Between calls, the memory is the snapshot or is to be read from it.      *)
EngineInv ==
  /\ \A d \in Deliveries : EngineAt(d)
  /\ (\A d \in Deliveries : work[d].at \notin Evaluated \union {"rollback"}) => Unchanged

LEMMA EngineInit ==
  ASSUME Init
  PROVE  EngineInv
<1>1. \A d \in Deliveries : work[d] = Waiting
  BY DEF Init
<1>. QED
  BY <1>1, NothingSaid DEF Init, EngineInv, EngineAt, TodoOK, At, Waiting, Evaluated, Unchanged

\* What is to be shown of a step of one call, the others being idle.
LEMMA EngineOfOne ==
  ASSUME EngineInv, NEW d \in Deliveries, OthersStay(d),
         \A c \in Deliveries : c # d => work[c].at = "idle"
  PROVE  /\ work[d].at \notin Evaluated \union {"rollback"} => Unchanged
         /\ \/ work'[d].at \in Evaluated \union {"rollback"}
            \/ Unchanged'
            => (EngineAt(d)' => EngineInv')
<1>1. work[d].at \notin Evaluated \union {"rollback"} => Unchanged
  BY DEF EngineInv, Evaluated
<1>2. ASSUME NEW c \in Deliveries, c # d
      PROVE  EngineAt(c)'
  <2>1. work'[c] = work[c] /\ work[c].at = "idle"
    BY <1>2 DEF OthersStay
  <2>2. DOMAIN work[c].todo = {}
    BY <2>1 DEF EngineInv, EngineAt, TodoOK, At
  <2>. QED
    BY <2>1, <2>2 DEF EngineAt, TodoOK, At, Evaluated
<1>. QED
  BY <1>1, <1>2 DEF EngineInv

\* A step that leaves the engine alone, and of every call where it stands.
LEMMA EngineFrame ==
  ASSUME EngineInv, UNCHANGED <<memory, hydrated, pending, snapshot>>,
         \A d \in Deliveries : work'[d].at = work[d].at /\ work'[d].todo = work[d].todo
  PROVE  EngineInv'
<1>1. \A e : Effect(e)' = Effect(e) /\ Says(e)' = Says(e)
  BY DEF Effect, Says
<1>2. \A d \in Deliveries : EngineAt(d)'
  BY <1>1 DEF EngineInv, EngineAt, TodoOK, At
<1>. QED
  BY <1>2 DEF EngineInv, Unchanged

\* A step of a call that is not being evaluated, before it nor after it.
LEMMA EngineOutside ==
  ASSUME LedgerHolds, EngineInv, NEW d \in Deliveries, task[d] = "handling",
         UNCHANGED <<memory, hydrated, pending, snapshot>>,
         NEW step, step \notin Evaluated \union {"rollback"}, GoTo(d, step),
         work[d].at \notin Evaluated \union {"rollback"},
         step = "evaluate" => d[1] \notin Probes,
         step \in {"evaluate", "begin"} => d[1] \notin Malformed
  PROVE  EngineInv'
<1>1. OthersStay(d) /\ work'[d].at = step /\ work'[d].todo = work[d].todo
  BY Going DEF LedgerHolds
<1>2. \A c \in Deliveries : c # d => work[c].at = "idle"
  BY OthersIdle
<1>3. Unchanged'
  BY <1>1, <1>2, EngineOfOne DEF Unchanged
<1>4. DOMAIN work[d].todo = {}
  BY DEF EngineInv, EngineAt, TodoOK, At, Evaluated
<1>5. EngineAt(d)'
  BY <1>1, <1>4 DEF EngineAt, TodoOK, At, Evaluated
<1>. QED
  BY <1>1, <1>2, <1>3, <1>5, EngineOfOne

LEMMA EngineEvaluating ==
  ASSUME ~StateMayExpire, LedgerHolds, EngineInv, NEW d \in Deliveries, EvaluateRules(d),
         task[d] = "handling"
  PROVE  /\ EngineInv'
         /\ DOMAIN work'[d].todo = IF Skipped(d[1]) THEN {} ELSE DOMAIN Says(d[1])
<1>1. WorkShape /\ work[d].at = "evaluate"
  BY DEF LedgerHolds, EvaluateRules, At
<1>2. OthersStay(d)
  BY <1>1, CallStep DEF ProcessStep
<1>3. \A c \in Deliveries : c # d => work[c].at = "idle"
  BY OthersIdle
<1>4. Unchanged
  BY <1>1, <1>2, <1>3, EngineOfOne DEF Evaluated
<1>5. (IF hydrated THEN memory ELSE snapshot) = snapshot
  BY <1>4 DEF Unchanged
<1>6. d[1] \notin Probes /\ d[1] \notin Malformed /\ DOMAIN work[d].todo = {}
  BY <1>1 DEF EngineInv, EngineAt, TodoOK, At
<1>7. hydrated' = TRUE /\ UNCHANGED snapshot
  BY DEF EvaluateRules
<1>8. CASE Telemetry[d[1]].relevant
  <2>1. /\ memory' = Evaluate(snapshot, d[1]).memory
        /\ pending' = TRUE
        /\ work' = [work EXCEPT ![d].at = "correlate", ![d].todo = Says(d[1])]
    BY <1>5, <1>8 DEF EvaluateRules, Says
  <2>2. work'[d].at = "correlate" /\ work'[d].todo = Says(d[1])
    BY <1>1, <2>1 DEF WorkShape, Fields
  <2>3. ~Skipped(d[1])
    BY <1>6, <1>8 DEF Skipped
  <2>4. Says(d[1])' = Says(d[1]) /\ Effect(d[1])' = memory'
    BY <1>7, <2>1, <2>3 DEF Says, Effect
  <2>5. EngineAt(d)'
    BY <1>6, <1>7, <2>1, <2>2, <2>3, <2>4 DEF EngineAt, TodoOK, At, Evaluated
  <2>. QED
    BY <1>2, <1>3, <2>2, <2>3, <2>5, EngineOfOne DEF Evaluated
<1>9. CASE ~Telemetry[d[1]].relevant
  <2>1. memory' = snapshot /\ GoTo(d, "correlate") /\ UNCHANGED pending
    BY <1>5, <1>9 DEF EvaluateRules
  <2>2. work'[d].at = "correlate" /\ DOMAIN work'[d].todo = {}
    BY <1>1, <1>6, <2>1, Going
  <2>3. Skipped(d[1])
    BY <1>9 DEF Skipped
  <2>4. Effect(d[1])' = snapshot
    BY <1>7, <2>3 DEF Effect
  <2>5. EngineAt(d)'
    BY <1>6, <1>7, <2>1, <2>2, <2>4 DEF EngineAt, TodoOK, At, Evaluated
  <2>. QED
    BY <1>2, <1>3, <2>2, <2>3, <2>5, EngineOfOne DEF Evaluated
<1>. QED
  BY <1>8, <1>9

\* The steps of a call under evaluation that leave the engine alone.
LEMMA EngineInside ==
  ASSUME LedgerHolds, EngineInv, NEW d \in Deliveries, task[d] = "handling",
         UNCHANGED <<memory, hydrated, pending, snapshot>>, OthersStay(d),
         work[d].at \in Evaluated, work'[d].at \in Evaluated, TodoOK(d)'
  PROVE  EngineInv'
<1>1. \A c \in Deliveries : c # d => work[c].at = "idle"
  BY OthersIdle
<1>2. Effect(d[1])' = Effect(d[1])
  BY DEF Effect
<1>3. EngineAt(d)'
  BY <1>2 DEF EngineInv, EngineAt
<1>. QED
  BY <1>1, <1>3, EngineOfOne

\* Where a step leads a call, and what is then left to correlate.
LEMMA LeadsTo ==
  ASSUME RulesHold, EngineInv, NEW d \in Deliveries
  PROVE  /\ Correlate(d) => /\ work[d].at = "correlate" /\ work'[d].at = "correlate"
                            /\ TodoOK(d)'
         /\ Advance(d) => /\ work[d].at \in {"advance", "resolve", "store"}
                          /\ work'[d].at \in {"resolve", "store", "commit"}
                          /\ DOMAIN work'[d].todo = {}
         /\ ShouldAdvance(d) => /\ work[d].at = "correlate"
                                /\ work'[d].at \in {"advance", "commit"}
                                /\ DOMAIN work'[d].todo = {}
         /\ Fail(d) => work'[d].at = "rollback" /\ DOMAIN work'[d].todo = {}
<1>1. WorkShape
  BY DEF RulesHold
<1>2. ASSUME Correlate(d)
      PROVE  work[d].at = "correlate" /\ work'[d].at = "correlate" /\ TodoOK(d)'
  <2>1. UNCHANGED snapshot /\ work[d].at = "correlate"
    BY <1>2 DEF Correlate, At
  <2>2. Says(d[1])' = Says(d[1])
    BY <2>1 DEF Says
  <2>3. PICK r \in DOMAIN work[d].todo :
          /\ work'[d].at = "correlate"
          /\ work'[d].todo = [s \in DOMAIN work[d].todo \ {r} |-> work[d].todo[s]]
    BY <1>2, CorrelatingDoes
  <2>4. TodoOK(d)
    BY DEF EngineInv, EngineAt
  <2>. QED
    BY <2>1, <2>2, <2>3, <2>4 DEF TodoOK, At
<1>3. ASSUME Advance(d)
      PROVE  /\ work[d].at \in {"advance", "resolve", "store"}
             /\ work'[d].at \in {"resolve", "store", "commit"}
             /\ DOMAIN work'[d].todo = {}
  <2>1. /\ work[d].at \in {"advance", "resolve", "store"}
        /\ work'[d].at \in {"resolve", "store", "commit"}
        /\ work'[d].todo = work[d].todo
    BY <1>1, <1>3, AdvanceMoves
  <2>. QED
    BY <2>1 DEF EngineInv, EngineAt, TodoOK, At
<1>4. ASSUME ShouldAdvance(d)
      PROVE  /\ work[d].at = "correlate" /\ work'[d].at \in {"advance", "commit"}
             /\ DOMAIN work'[d].todo = {}
  <2>1. PICK step \in {"advance", "commit"} : GoTo(d, step)
    BY <1>4 DEF ShouldAdvance
  <2>. QED
    BY <1>1, <1>4, <2>1, Going DEF ShouldAdvance, At
<1>5. ASSUME Fail(d)
      PROVE  work'[d].at = "rollback" /\ DOMAIN work'[d].todo = {}
  BY <1>1, <1>5 DEF Fail, WorkShape, Waiting
<1>. QED
  BY <1>2, <1>3, <1>4, <1>5

LEMMA EngineInner ==
  ASSUME ~StateMayExpire, ~RollbackMayFail, LedgerHolds, RulesHold, EngineInv,
         NEW d \in Deliveries, Inner(d)
  PROVE  EngineInv'
<1>. USE DEF At
<1>1. WorkShape /\ OthersStay(d)
  BY CallStep DEF Inner, ProcessStep, RulesHold
<1>2. work[d].at # "idle" => /\ task[d] = "handling"
                             /\ \A c \in Deliveries : c # d => work[c].at = "idle"
  <2>1. task[d] = "handling" => task[d] # "none"
    OBVIOUS
  <2>. QED
    BY <2>1, OthersIdle DEF LedgerHolds, LedgerInv
<1>3. EngineAt(d)
  BY DEF EngineInv
<1>4. CASE PublishUpdated(d) \/ PublishLifecycle(d)
  <2>1. UNCHANGED <<memory, hydrated, pending, snapshot>>
    BY <1>4 DEF PublishUpdated, PublishLifecycle, ruleVars
  <2>2. work'[d].at = work[d].at /\ work'[d].todo = work[d].todo
    BY <1>1, <1>4 DEF PublishUpdated, PublishLifecycle, WorkShape, Fields
  <2>. QED
    BY <1>1, <2>1, <2>2, EngineFrame DEF OthersStay
<1>5. CASE Begin(d) \/ BeginFails(d) \/ Complete(d) \/ Release(d)
  <2>1. /\ UNCHANGED <<memory, hydrated, pending, snapshot>>
        /\ work[d].at \in {"begin", "complete", "release"}
    BY <1>5 DEF Begin, BeginFails, Complete, Release, ruleVars
  <2>2. \E step \in {"complete", "evaluate", "done", "failed"} :
          /\ GoTo(d, step)
          /\ step = "evaluate" => work[d].at = "begin" /\ d[1] \notin Probes
    BY <1>5 DEF Begin, BeginFails, Complete, Release
  <2>3. PICK step \in {"complete", "evaluate", "done", "failed"} :
          /\ GoTo(d, step)
          /\ step = "evaluate" => work[d].at = "begin" /\ d[1] \notin Probes
    BY <2>2
  <2>4. step = "evaluate" => d[1] \notin Malformed
    BY <1>3, <2>3 DEF EngineAt
  <2>. QED
    BY <1>2, <2>1, <2>3, <2>4, EngineOutside DEF Evaluated
<1>6. CASE EvaluateRules(d)
  <2>1. task[d] = "handling"
    BY <1>2, <1>6 DEF EvaluateRules
  <2>. QED
    BY <1>6, <2>1, EngineEvaluating
<1>7. CASE Correlate(d) \/ ShouldAdvance(d) \/ Advance(d)
  <2>1. UNCHANGED <<memory, hydrated, pending, snapshot>>
    BY <1>7 DEF Correlate, ShouldAdvance, Advance, ruleVars
  <2>2. work[d].at \in Evaluated /\ work'[d].at \in Evaluated /\ TodoOK(d)'
    BY <1>7, LeadsTo DEF Evaluated, TodoOK
  <2>3. work[d].at # "idle"
    BY <2>2 DEF Evaluated
  <2>. QED
    BY <1>1, <1>2, <2>1, <2>2, <2>3, EngineInside
<1>8. CASE Commit(d)
  <2>1. /\ work[d].at = "commit"
        /\ snapshot' = IF pending THEN memory ELSE snapshot
        /\ pending' = FALSE /\ UNCHANGED <<memory, hydrated>>
    BY <1>8 DEF Commit
  <2>2. work'[d].at = "complete" /\ work'[d].todo = work[d].todo
    BY <1>1, <1>8, Going DEF Commit
  <2>3. Unchanged'
    BY <1>3, <2>1 DEF EngineAt, Unchanged, Evaluated
  <2>4. EngineAt(d)'
    BY <1>3, <2>1, <2>2 DEF EngineAt, TodoOK, Evaluated
  <2>. QED
    BY <1>1, <1>2, <2>1, <2>3, <2>4, EngineOfOne
<1>9. CASE Fail(d)
  <2>1. work'[d].at = "rollback" /\ TodoOK(d)'
    BY <1>9, LeadsTo DEF TodoOK
  <2>2. EngineAt(d)'
    BY <2>1 DEF EngineAt, Evaluated
  <2>3. work[d].at # "idle"
    BY <1>9 DEF Fail, TrySteps
  <2>. QED
    BY <1>1, <1>2, <2>1, <2>2, <2>3, EngineOfOne DEF Evaluated
<1>10. CASE Rollback(d)
  <2>1. /\ work[d].at = "rollback"
        /\ memory' = snapshot /\ UNCHANGED snapshot /\ pending' = FALSE
    BY <1>10 DEF Rollback
  <2>2. work'[d].at = "release" /\ work'[d].todo = work[d].todo
    BY <1>1, <1>10, Going DEF Rollback
  <2>3. EngineAt(d)'
    BY <1>3, <2>1, <2>2 DEF EngineAt, TodoOK, Evaluated
  <2>4. Unchanged'
    BY <2>1 DEF Unchanged
  <2>. QED
    BY <1>1, <1>2, <2>1, <2>3, <2>4, EngineOfOne
<1>. QED
  BY <1>4, <1>5, <1>6, <1>7, <1>8, <1>9, <1>10 DEF Inner, RollbackFails

LEMMA EngineStep ==
  ASSUME ~StateMayExpire, ~RollbackMayFail, LedgerHolds, RulesHold, EngineInv, [Next]_vars
  PROVE  EngineInv'
<1>1. ASSUME NEW d \in Deliveries, ProcessResolves(d) \/ ProcessRejects(d)
      PROVE  EngineInv'
  <2>1. /\ work[d].at \in {"done", "failed"} /\ GoTo(d, "idle")
        /\ UNCHANGED <<memory, hydrated, pending, snapshot>>
    BY <1>1 DEF ProcessResolves, ProcessRejects, At, ruleVars
  <2>2. task[d] = "handling"
    BY <2>1 DEF LedgerHolds, LedgerInv
  <2>. QED
    BY <2>1, <2>2, EngineOutside DEF Evaluated
<1>2. ASSUME NEW e \in Entries, Receive(e)
      PROVE  EngineInv'
  <2>1. PICK d \in Deliveries : d = <<e, attempts[e] + 1>>
    BY <1>2, BeforeDelivery DEF Receive, LedgerHolds
  <2>0. \A c \in Deliveries : task[c] = "none"
    BY <1>2, BeforeDelivery DEF Receive, LedgerHolds
  <2>2. \A c \in Deliveries : work[c].at = "idle"
    BY <2>0 DEF LedgerHolds, LedgerInv
  <2>3. PICK step \in {"failed", "begin"} :
          GoTo(d, step) /\ (step = "begin" => e \notin Malformed)
    BY <1>2, <2>1 DEF Receive
  <2>4. UNCHANGED <<memory, hydrated, pending, snapshot>>
    BY <1>2 DEF Receive, ruleVars
  <2>5. d[1] = e
    BY <2>1
  <2>6. OthersStay(d) /\ work'[d].at = step /\ work'[d].todo = work[d].todo
    BY <2>1, <2>3, Going DEF LedgerHolds
  <2>7. DOMAIN work[d].todo = {}
    BY <2>1, <2>2 DEF EngineInv, EngineAt, TodoOK, At
  <2>8. EngineAt(d)'
    BY <2>3, <2>5, <2>6, <2>7 DEF EngineAt, TodoOK, At, Evaluated
  <2>9. Unchanged
    BY <2>2 DEF EngineInv, Evaluated
  <2>10. Unchanged'
    BY <2>4, <2>9 DEF Unchanged
  <2>. QED
    BY <2>1, <2>2, <2>6, <2>8, <2>10, EngineOfOne
<1>3. ASSUME LoseProcess
      PROVE  EngineInv'
  <2>1. \A d \in Deliveries : work'[d] = Waiting
    BY <1>3 DEF LoseProcess
  <2>2. Unchanged'
    BY <1>3 DEF LoseProcess, Unchanged
  <2>. QED
    BY <2>1, <2>2, NothingSaid DEF EngineInv, EngineAt, TodoOK, At, Waiting, Evaluated
<1>4. ASSUME UNCHANGED processorVars
      PROVE  EngineInv'
  BY <1>4, EngineFrame DEF processorVars, ruleVars
<1>5. ASSUME NEW d \in Deliveries, Ack(d) \/ DeadLetter(d)
      PROVE  UNCHANGED processorVars
  BY <1>5 DEF Ack, DeadLetter
<1>. QED
  BY <1>1, <1>2, <1>3, <1>4, <1>5, EngineInner, OtherSteps

-----------------------------------------------------------------------------
(* Incidents and rules agree, between the entries and rule by rule within one *)

Agrees(m, r) == \A a \in IdsOf(r) : Held(a) = Told(m, a)
Settled == \A r \in Rules : Agrees(snapshot, r)

\* Of each rule, the anomaly is as it was before the entry or as it is after it.
Underway(e) == \A r \in Rules : Agrees(snapshot, r) \/ Agrees(Effect(e), r)

EntryOK(e) == Underway(e) /\ (ledger[e] = "complete" => Settled)

CallOK(d) ==
  /\ work[d].at \in Evaluated =>
       \A r \in Rules \ DOMAIN work[d].todo : Agrees(Effect(d[1]), r)
  /\ work[d].at \in {"complete", "done"} => Settled
  /\ task[d] = "resolved" => Settled

TrackInv ==
  /\ OneHolder
  /\ NothingGivenUp =>
       /\ Queue!AckPending = {} => Settled
       /\ \A e \in Queue!AckPending : EntryOK(e)
       /\ \A d \in Deliveries : CallOK(d)

\* An entry given up remains so.
LEMMA GivenUpStays ==
  ASSUME Queue!TypeOK, [Next]_vars, NothingGivenUp'
  PROVE  NothingGivenUp
<1>. USE StreamFacts, DeliveryParts DEF Queue!TypeOK
<1>1. [Queue!Next]_queueVars
  BY QueueStep DEF vars
<1>2. ASSUME NEW e \in Entries, broker[e] = "dropped"
      PROVE  broker'[e] = "dropped"
  <2>1. ASSUME NEW f \in Entries, Queue!Deliver(f) \/ Queue!AckWaitExpires(f)
        PROVE  broker'[e] = "dropped"
    BY <1>2, <2>1 DEF Queue!Deliver, Queue!MayDeliver, Queue!AckWaitExpires
  <2>2. ASSUME NEW d \in Deliveries, Queue!HandlerEnds(d) \/ Queue!Ack(d)
        PROVE  broker'[e] = "dropped"
    BY <1>2, <2>2
       DEF Queue!HandlerEnds, Queue!HandlerResolves, Queue!Nak, Queue!GiveUp, Queue!Ack,
           Queue!Acknowledged
  <2>. QED
    BY <1>1, <1>2, <2>1, <2>2
       DEF Queue!Next, Queue!DeadLetterEnds, Queue!DeadLetter, Queue!DeadLetterFails,
           Queue!Crash, Queue!Stop, Queue!Publish, Queue!Close, Queue!Closed,
           Queue!Restart, queueVars
<1>3. dlq \subseteq dlq'
  BY DlqGrows
<1>. QED
  BY <1>2, <1>3 DEF NothingGivenUp

\* While a delivery is in flight, its entry is the one waited for.
LEMMA PendingOne ==
  ASSUME LedgerHolds, NEW d \in Deliveries, task[d] # "none"
  PROVE  Queue!AckPending = {d[1]}
<1>1. broker[d[1]] = "pending"
  BY StreamFacts DEF LedgerHolds, OneAtATime, Queue!InFlight
<1>. QED
  BY <1>1, StreamFacts, DeliveryParts DEF LedgerHolds, OneAtATime, Queue!AckPending

\* What depends on the incidents and the snapshot alone.
LEMMA SameView ==
  ASSUME \A a : Held(a)' = Held(a), UNCHANGED snapshot
  PROVE  /\ Settled' = Settled
         /\ \A e : Underway(e)' = Underway(e)
         /\ \A e, r : Agrees(Effect(e), r)' = Agrees(Effect(e), r)
<1>1. \A e : Effect(e)' = Effect(e)
  BY DEF Effect
<1>2. Settled' = Settled
  BY DEF Settled, Agrees, Told
<1>3. \A e, r : Agrees(Effect(e), r)' = Agrees(Effect(e), r)
  BY <1>1 DEF Agrees, Told
<1>4. \A r : Agrees(snapshot, r)' = Agrees(snapshot, r)
  BY DEF Agrees, Told
<1>5. \A e : Underway(e)' = Underway(e)
  BY <1>3, <1>4 DEF Underway
<1>. QED
  BY <1>2, <1>3, <1>5

\* What is to be shown of a step of one call, the subscription being still.
LEMMA TrackOfOne ==
  ASSUME LedgerHolds, WorkShape, NEW d \in Deliveries, task[d] = "handling",
         OthersStay(d), UNCHANGED queueVars, OneHolder',
         NothingGivenUp => EntryOK(d[1])' /\ CallOK(d)'
  PROVE  TrackInv'
<1>1. Queue!AckPending' = {d[1]}
  <2>1. Queue!AckPending = {d[1]}
    BY PendingOne
  <2>. QED
    BY <2>1 DEF queueVars, Queue!AckPending
<1>2. NothingGivenUp' = NothingGivenUp
  BY DEF NothingGivenUp, queueVars
<1>3. ASSUME NEW c \in Deliveries, c # d
      PROVE  CallOK(c)'
  <2>1. work'[c].at = "idle" /\ task'[c] = "none"
    BY <1>3, OthersIdle DEF OthersStay, queueVars
  <2>. QED
    BY <2>1 DEF CallOK, Evaluated
<1>. QED
  BY <1>1, <1>2, <1>3 DEF TrackInv

\* What is known of the entry and the call before such a step.
LEMMA TrackBefore ==
  ASSUME LedgerHolds, TrackInv, NEW d \in Deliveries, task[d] # "none", NothingGivenUp
  PROVE  EntryOK(d[1]) /\ CallOK(d)
<1> QED
  BY PendingOne DEF TrackInv

\* What is settled stays so, whichever entry is to be evaluated.
LEMMA SettledIsFine ==
  ASSUME NEW e, Settled
  PROVE  EntryOK(e)
<1> QED
  BY DEF EntryOK, Underway, Settled

\* Steps that change nothing held, nor the snapshot, nor settle anything.
LEMMA TrackStill ==
  ASSUME LedgerHolds, TrackInv, NEW d \in Deliveries, task[d] = "handling",
         OthersStay(d), WorkShape, UNCHANGED queueVars, UNCHANGED snapshot,
         OneHolder', \A a : Held(a)' = Held(a),
         NothingGivenUp /\ work'[d].at \in Evaluated =>
           \A r \in Rules \ DOMAIN work'[d].todo : Agrees(Effect(d[1]), r),
         NothingGivenUp /\ work'[d].at \in {"complete", "done"} => Settled,
         NothingGivenUp /\ ledger'[d[1]] = "complete" => Settled
  PROVE  TrackInv'
<1>1. /\ Settled' = Settled
      /\ \A e : Underway(e)' = Underway(e)
      /\ \A e, r : Agrees(Effect(e), r)' = Agrees(Effect(e), r)
  BY SameView
<1>2. ASSUME NothingGivenUp
      PROVE  EntryOK(d[1])' /\ CallOK(d)'
  <2>1. EntryOK(d[1]) /\ CallOK(d)
    BY <1>2, TrackBefore
  <2>2. EntryOK(d[1])'
    BY <1>1, <1>2, <2>1 DEF EntryOK
  <2>3. task'[d] = "handling"
    BY DEF queueVars
  <2>4. CallOK(d)'
    BY <1>1, <1>2, <2>3 DEF CallOK
  <2>. QED
    BY <2>2, <2>4
<1>. QED
  BY <1>2, TrackOfOne

LEMMA TrackEvaluating ==
  ASSUME ~StateMayExpire, LedgerHolds, RulesHold, EngineInv, TrackInv,
         NEW d \in Deliveries, EvaluateRules(d), task[d] = "handling"
  PROVE  TrackInv'
<1>1. work'[d].at = "correlate" /\ WorkShape /\ OthersStay(d)
  <2>1. WorkShape
    BY DEF RulesHold
  <2>2. OthersStay(d)
    BY <2>1, CallStep DEF ProcessStep
  <2>3. work'[d].at = "correlate"
    BY <2>1 DEF EvaluateRules, GoTo, WorkShape, Fields
  <2>. QED
    BY <2>1, <2>2, <2>3
<1>2. /\ UNCHANGED <<queueVars, incidents, snapshot, ledger>>
      /\ work[d].at = "evaluate"
  BY DEF EvaluateRules, incidentVars, At
<1>3. DOMAIN work'[d].todo = IF Skipped(d[1]) THEN {} ELSE DOMAIN Says(d[1])
  BY EngineEvaluating
<1>4. OneHolder' /\ \A a : Held(a)' = Held(a)
  BY <1>2, HeldStays DEF TrackInv
<1>5. ledger[d[1]] = "processing"
  BY <1>2 DEF LedgerHolds, LedgerInv, ClaimOK, TrySteps
<1>6. ASSUME NothingGivenUp, NEW r \in Rules \ DOMAIN work'[d].todo
      PROVE  Agrees(Effect(d[1]), r)
  <2>1. Agrees(snapshot, r) \/ Agrees(Effect(d[1]), r)
    BY <1>6, TrackBefore DEF EntryOK, Underway
  <2>2. CASE Skipped(d[1])
    BY <2>1, <2>2 DEF Effect
  <2>3. CASE ~Skipped(d[1])
    <3>1. \A a \in IdsOf(r) : Told(Effect(d[1]), a) = Told(snapshot, a)
      BY <1>3, <1>6, <2>3, EvaluateSays, DeliveryParts
         DEF Effect, Says, SaysChanges, RulesHold
    <3>. QED
      BY <2>1, <3>1 DEF Agrees
  <2>. QED
    BY <2>2, <2>3
<1>. QED
  BY <1>1, <1>2, <1>4, <1>5, <1>6, TrackStill

\* The anomaly of a rule moves from the snapshot's view of it to the new one.
LEMMA TrackCorrelating ==
  ASSUME LedgerHolds, RulesHold, EngineInv, TrackInv,
         NEW d \in Deliveries, Correlate(d), task[d] = "handling"
  PROVE  TrackInv'
<1>1. PICK r \in DOMAIN work[d].todo :
        /\ work[d].todo[r] \in Anomaly
        /\ work'[d].at = "correlate" /\ WorkShape' /\ OthersStay(d)
        /\ work'[d].todo = [s \in DOMAIN work[d].todo \ {r} |-> work[d].todo[s]]
        /\ \/ Correlations(work[d].todo[r], TimeOf(d)) = {} /\ UNCHANGED incidents
           \/ \E change \in Correlations(work[d].todo[r], TimeOf(d)) : Writes(change)
  BY CorrelatingDoes
<1>2. /\ UNCHANGED <<queueVars, snapshot, ledger>>
      /\ work[d].at = "correlate" /\ WorkShape
  BY DEF Correlate, At, RulesHold
<1>3. PICK anomaly \in Anomaly : anomaly = work[d].todo[r]
  BY <1>1
<1>4. /\ OneHolder'
      /\ Held(anomaly.id)' = {anomaly.status} \intersect Unended
      /\ \A a \in AnomalyIds \ {anomaly.id} : Held(a)' = Held(a)
  BY <1>1, <1>3, CorrelatingTells, DeliveryParts DEF TrackInv
<1>5. r \in Rules /\ anomaly \in Sayings(r) /\ anomaly.id \in IdsOf(r)
  BY <1>3 DEF RulesHold, Sayings
<1>6. /\ ~Skipped(d[1]) /\ r \in DOMAIN Says(d[1])
      /\ anomaly = Says(d[1])[r]
  BY <1>2, <1>3 DEF EngineInv, EngineAt, TodoOK, At
<1>7. SaysChanges(snapshot, Effect(d[1]), Says(d[1]))
  BY <1>6, EvaluateSays, DeliveryParts DEF Effect, Says, RulesHold
<1>8. Effect(d[1])' = Effect(d[1])
  BY <1>2 DEF Effect
<1>9. ASSUME NEW s \in Rules, s # r
      PROVE  /\ Agrees(snapshot, s)' = Agrees(snapshot, s)
             /\ Agrees(Effect(d[1]), s)' = Agrees(Effect(d[1]), s)
  <2>1. \A a \in IdsOf(s) : a \in AnomalyIds /\ a # anomaly.id
    BY <1>5, <1>9 DEF IdsOf, AnomalyIds
  <2>2. \A a \in IdsOf(s) : Held(a)' = Held(a)
    BY <1>4, <2>1
  <2>. QED
    BY <1>2, <1>8, <2>2 DEF Agrees, Told
<1>10. ASSUME NothingGivenUp
       PROVE  EntryOK(d[1])' /\ CallOK(d)'
  <2>1. EntryOK(d[1]) /\ CallOK(d)
    BY <1>10, TrackBefore
  <2>2. Agrees(Effect(d[1]), r)'
    <3>1. ASSUME NEW a \in IdsOf(r), a # anomaly.id
          PROVE  Held(a)' = Told(Effect(d[1]), a)
      <4>1. Told(snapshot, a) = {} /\ Told(Effect(d[1]), a) = {}
        BY <1>6, <1>7, <3>1 DEF SaysChanges
      <4>2. Held(a) = {}
        BY <1>5, <2>1, <4>1 DEF EntryOK, Underway, Agrees
      <4>3. a \in AnomalyIds
        BY <1>5 DEF IdsOf, AnomalyIds
      <4>. QED
        BY <1>4, <3>1, <4>1, <4>2, <4>3
    <3>2. Told(Effect(d[1]), anomaly.id) = {anomaly.status} \intersect Unended
      BY <1>6, <1>7 DEF SaysChanges
    <3>. QED
      BY <1>4, <1>8, <3>1, <3>2 DEF Agrees, Told
  <2>3. ledger'[d[1]] = "processing"
    BY <1>2 DEF LedgerHolds, LedgerInv, ClaimOK, TrySteps
  <2>4. EntryOK(d[1])'
    BY <1>9, <2>1, <2>2, <2>3 DEF EntryOK, Underway
  <2>5. \A s \in Rules \ DOMAIN work'[d].todo : Agrees(Effect(d[1]), s)'
    BY <1>1, <1>2, <1>9, <2>1, <2>2 DEF CallOK, Evaluated
  <2>6. task'[d] = "handling"
    BY <1>2 DEF queueVars
  <2>7. CallOK(d)'
    BY <1>1, <2>5, <2>6 DEF CallOK
  <2>. QED
    BY <2>4, <2>7
<1>. QED
  BY <1>1, <1>2, <1>4, <1>10, TrackOfOne

\* The new view becomes the snapshot.
LEMMA TrackCommitting ==
  ASSUME LedgerHolds, RulesHold, EngineInv, TrackInv,
         NEW d \in Deliveries, Commit(d), task[d] = "handling"
  PROVE  TrackInv'
<1>1. /\ work[d].at = "commit"
      /\ snapshot' = IF pending THEN memory ELSE snapshot
      /\ UNCHANGED <<queueVars, incidents>>
      /\ GoTo(d, "complete")
  BY DEF Commit, At, incidentVars
<1>2. WorkShape /\ OthersStay(d) /\ work'[d].at = "complete"
  BY <1>1, Going DEF RulesHold
<1>3. snapshot' = Effect(d[1]) /\ DOMAIN work[d].todo = {}
  BY <1>1 DEF EngineInv, EngineAt, TodoOK, At, Evaluated
<1>4. OneHolder' /\ \A a : Held(a)' = Held(a)
  BY <1>1, HeldStays DEF TrackInv
<1>5. ASSUME NothingGivenUp
      PROVE  EntryOK(d[1])' /\ CallOK(d)'
  <2>1. \A r \in Rules : Agrees(Effect(d[1]), r)
    BY <1>1, <1>3, <1>5, TrackBefore DEF CallOK, Evaluated
  <2>2. Settled'
    BY <1>3, <1>4, <2>1 DEF Settled, Agrees, Told
  <2>3. EntryOK(d[1])'
    BY <2>2 DEF EntryOK, Underway, Settled
  <2>4. CallOK(d)'
    BY <1>2, <2>2 DEF CallOK, Evaluated
  <2>. QED
    BY <2>3, <2>4
<1>. QED
  BY <1>1, <1>2, <1>4, <1>5, TrackOfOne

LEMMA TrackInner ==
  ASSUME ~StateMayExpire, ~RollbackMayFail, LedgerHolds, RulesHold, DueHolds, EngineInv,
         TrackInv, NEW d \in Deliveries, Inner(d)
  PROVE  TrackInv'
<1>. USE DEF At
<1>1. WorkShape /\ OthersStay(d)
  BY CallStep DEF Inner, ProcessStep, RulesHold
<1>2. UNCHANGED queueVars /\ (work[d].at # "idle" => task[d] = "handling")
  BY InnerStep DEF LedgerHolds, LedgerInv
<1>3. ASSUME UNCHANGED incidents
      PROVE  OneHolder' /\ \A a : Held(a)' = Held(a)
  BY <1>3, HeldStays DEF TrackInv
<1>4. ASSUME NothingGivenUp, task[d] = "handling"
      PROVE  EntryOK(d[1]) /\ CallOK(d)
  BY <1>4, TrackBefore
<1>5. CASE PublishUpdated(d) \/ PublishLifecycle(d)
  <2>1. UNCHANGED <<snapshot, incidents, ledger>>
    BY <1>5 DEF PublishUpdated, PublishLifecycle
  <2>2. \A c \in Deliveries : work'[c].at = work[c].at /\ work'[c].todo = work[c].todo
    BY <1>1, <1>5 DEF PublishUpdated, PublishLifecycle, WorkShape, Fields, OthersStay
  <2>3. /\ Settled' = Settled
        /\ \A e : Underway(e)' = Underway(e)
        /\ \A e, r : Agrees(Effect(e), r)' = Agrees(Effect(e), r)
    BY <1>3, <2>1, SameView
  <2>4. Queue!AckPending' = Queue!AckPending /\ NothingGivenUp' = NothingGivenUp
    BY <1>2 DEF queueVars, Queue!AckPending, NothingGivenUp
  <2>5. \A e : EntryOK(e)' = EntryOK(e)
    BY <2>1, <2>3 DEF EntryOK
  <2>6. ASSUME NEW c \in Deliveries, CallOK(c)
        PROVE  CallOK(c)'
    BY <1>2, <2>2, <2>3, <2>6 DEF CallOK, queueVars
  <2>. QED
    BY <1>3, <2>1, <2>3, <2>4, <2>5, <2>6 DEF TrackInv
<1>6. CASE Begin(d)
  <2>1. UNCHANGED <<snapshot, incidents>> /\ work[d].at = "begin"
    BY <1>6 DEF Begin, incidentVars
  <2>2. CASE Claimable(d)
    <3>1. /\ ledger' = [ledger EXCEPT ![d[1]] = "processing"]
          /\ GoTo(d, IF d[1] \in Probes THEN "complete" ELSE "evaluate")
      BY <1>6, <2>2 DEF Begin
    <3>2. work'[d].at = IF d[1] \in Probes THEN "complete" ELSE "evaluate"
      BY <1>1, <3>1, Going
    <3>3. ledger'[d[1]] # "complete"
      BY <3>1, DeliveryParts DEF LedgerHolds, LedgerInv
    <3>4. NothingGivenUp /\ d[1] \in Probes => Settled
      <4>1. d[1] \in Probes => Effect(d[1]) = snapshot
        BY DEF Effect, Skipped
      <4>. QED
        BY <1>2, <1>4, <2>1, <4>1 DEF EntryOK, Underway, Settled
    <3>. QED
      BY <1>1, <1>2, <1>3, <2>1, <3>2, <3>3, <3>4, TrackStill DEF Evaluated
  <2>3. CASE ~Claimable(d)
    <3>1. UNCHANGED ledger /\ work'[d].at = "done"
      BY <1>1, <1>6, <2>3, Going DEF Begin
    <3>2. ledger[d[1]] = "complete"
      BY <2>1, <2>3, DeliveryParts DEF Claimable, LedgerHolds, LedgerInv, ClaimOK
    <3>. QED
      BY <1>1, <1>2, <1>3, <1>4, <2>1, <3>1, <3>2, TrackStill DEF Evaluated, EntryOK
  <2>. QED
    BY <2>2, <2>3
<1>7. CASE BeginFails(d) \/ Release(d) \/ Rollback(d)
  <2>1. /\ UNCHANGED <<snapshot, incidents>>
        /\ work[d].at \in {"begin", "release", "rollback"}
    BY <1>7 DEF BeginFails, Release, Rollback, incidentVars
  <2>2. PICK step \in {"failed", "release"} : GoTo(d, step)
    BY <1>7 DEF BeginFails, Release, Rollback
  <2>3. work'[d].at \in {"failed", "release"}
    BY <1>1, <2>2, Going
  <2>4. ledger'[d[1]] = "complete" => ledger[d[1]] = "complete"
    BY <1>7, DeliveryParts DEF BeginFails, Release, Rollback, LedgerHolds, LedgerInv
  <2>. QED
    BY <1>1, <1>2, <1>3, <1>4, <2>1, <2>3, <2>4, TrackStill DEF Evaluated, EntryOK
<1>8. CASE EvaluateRules(d)
  BY <1>2, <1>8, TrackEvaluating DEF EvaluateRules
<1>9. CASE Correlate(d)
  BY <1>2, <1>9, TrackCorrelating DEF Correlate
<1>10. CASE Commit(d)
  BY <1>2, <1>10, TrackCommitting DEF Commit
<1>11. CASE ShouldAdvance(d)
  <2>1. /\ UNCHANGED <<snapshot, incidents, ledger>>
        /\ work[d].at = "correlate" /\ work'[d].at \in {"advance", "commit"}
    BY <1>11, LeadsTo DEF ShouldAdvance
  <2>2. DOMAIN work[d].todo = {}
    BY <1>11 DEF ShouldAdvance
  <2>. QED
    BY <1>1, <1>2, <1>3, <1>4, <2>1, <2>2, TrackStill DEF Evaluated, EntryOK, CallOK
<1>12. CASE Complete(d)
  <2>1. UNCHANGED <<snapshot, incidents>> /\ work[d].at = "complete"
    BY <1>12 DEF Complete, incidentVars
  <2>2. work'[d].at = "done"
    BY <1>1, <1>12, Going DEF Complete
  <2>. QED
    BY <1>1, <1>2, <1>3, <1>4, <2>1, <2>2, TrackStill DEF Evaluated, CallOK
<1>13. ASSUME At(d, "store"), WriteBack(work[d].found)
       PROVE  OneHolder' /\ \A a : Held(a)' = Held(a)
  <2>1. /\ DOMAIN incidents' = DOMAIN incidents
        /\ \A i \in DOMAIN incidents : incidents'[i].anomalies = incidents[i].anomalies
    BY <1>13, ResolvingIsSound DEF RulesHold, DueHolds, DueOK
  <2>. QED
    BY <2>1, HeldStays DEF TrackInv
<1>14. CASE Advance(d)
  <2>1. /\ UNCHANGED <<snapshot, ledger>>
        /\ work[d].at \in {"advance", "resolve", "store"}
        /\ work'[d].at \in {"resolve", "store", "commit"}
    BY <1>14, LeadsTo DEF Advance
  <2>2. DOMAIN work[d].todo = {}
    BY <2>1 DEF EngineInv, EngineAt, TodoOK
  <2>3. OneHolder' /\ \A a : Held(a)' = Held(a)
    BY <1>1, <1>3, <1>13, <1>14, AdvanceMoves DEF RulesHold
  <2>. QED
    BY <1>1, <1>2, <1>4, <2>1, <2>2, <2>3, TrackStill DEF Evaluated, EntryOK, CallOK
<1>15. CASE Fail(d)
  <2>1. UNCHANGED snapshot /\ work[d].at \in TrySteps
    BY <1>15 DEF Fail
  <2>2. work'[d].at = "rollback"
    BY <1>15, LeadsTo
  <2>3. OneHolder' /\ \A a : Held(a)' = Held(a)
    BY <1>3, <1>13, <1>15 DEF Fail
  <2>4. ledger'[d[1]] = "complete" => ledger[d[1]] = "complete" \/ work[d].at = "complete"
    BY <1>15 DEF Fail
  <2>. QED
    BY <1>1, <1>2, <1>4, <2>1, <2>2, <2>3, <2>4, TrackStill
       DEF Evaluated, TrySteps, EntryOK, CallOK
<1>. QED
  BY <1>5, <1>6, <1>7, <1>8, <1>9, <1>10, <1>11, <1>12, <1>14, <1>15 DEF Inner, RollbackFails

LEMMA TrackStep ==
  ASSUME ~StateMayExpire, ~RollbackMayFail, LedgerHolds, LedgerHolds', RulesHold, DueHolds,
         EngineInv, TrackInv, [Next]_vars
  PROVE  TrackInv'
<1>. USE StreamFacts
<1>1. NothingGivenUp' => NothingGivenUp
  BY GivenUpStays DEF LedgerHolds, OneAtATime
<1>2. ASSUME UNCHANGED <<incidents, snapshot>>
      PROVE  /\ OneHolder'
             /\ Settled' = Settled
             /\ \A e : Underway(e)' = Underway(e)
             /\ UNCHANGED ledger => \A e : EntryOK(e)' = EntryOK(e)
  <2>1. OneHolder' /\ \A a : Held(a)' = Held(a)
    BY <1>2, HeldStays DEF TrackInv
  <2>2. Settled' = Settled /\ \A e : Underway(e)' = Underway(e)
    BY <1>2, <2>1, SameView
  <2>. QED
    BY <2>1, <2>2 DEF EntryOK
<1>3. ASSUME NEW c \in Deliveries, work'[c].at \in {"idle", "begin", "failed"},
             task'[c] # "resolved"
      PROVE  CallOK(c)'
  BY <1>3 DEF CallOK, Evaluated
<1>4. ASSUME NEW d \in Deliveries, ProcessResolves(d)
      PROVE  TrackInv'
  <2>1. /\ task[d] = "handling" /\ work[d].at = "done"
        /\ task' = [task EXCEPT ![d] = "resolved"]
        /\ GoTo(d, "idle")
        /\ UNCHANGED <<broker, incidents, snapshot, ledger>>
    BY <1>4 DEF ProcessResolves, Queue!HandlerResolves, At, incidentVars
  <2>2. work'[d].at = "idle" /\ OthersStay(d)
    BY <2>1, Going DEF LedgerHolds
  <2>3. \A c \in Deliveries : c # d => work'[c].at = "idle" /\ task'[c] = "none"
    BY <2>1, <2>2, OthersIdle DEF OthersStay
  <2>4. Queue!AckPending' = Queue!AckPending
    BY <2>1 DEF Queue!AckPending
  <2>5. NothingGivenUp => Settled
    BY <2>1 DEF TrackInv, CallOK
  <2>6. NothingGivenUp => CallOK(d)'
    BY <1>2, <2>1, <2>2, <2>5 DEF CallOK, Evaluated
  <2>7. \A c \in Deliveries : c # d => CallOK(c)'
    BY <1>3, <2>3
  <2>. QED
    BY <1>1, <1>2, <2>1, <2>4, <2>6, <2>7 DEF TrackInv
<1>5. ASSUME NEW d \in Deliveries, ProcessRejects(d)
      PROVE  TrackInv'
  <2>1. /\ task[d] = "handling"
        /\ task' \in {[task EXCEPT ![d] = "none"], [task EXCEPT ![d] = "deadlettering"]}
        /\ \/ UNCHANGED broker
           \/ broker' = [broker EXCEPT ![d[1]] =
                           IF @ = "pending" THEN Queue!Retry(d[1]) ELSE @]
        /\ GoTo(d, "idle")
        /\ UNCHANGED <<incidents, snapshot, ledger>>
    BY <1>5 DEF ProcessRejects, Queue!Nak, Queue!GiveUp, incidentVars
  <2>2. work'[d].at = "idle" /\ OthersStay(d)
    BY <2>1, Going DEF LedgerHolds
  <2>3. ASSUME NEW c \in Deliveries, c # d
        PROVE  work'[c].at = "idle" /\ task'[c] = "none"
    <3>1. work[c].at = "idle" /\ task[c] = "none"
      BY <2>1, <2>3, OthersIdle
    <3>2. task'[c] = task[c]
      BY <2>1, <2>3 DEF LedgerHolds, OneAtATime, Queue!TypeOK
    <3>. QED
      BY <2>2, <2>3, <3>1, <3>2 DEF OthersStay
  <2>4. \A c \in Deliveries : CallOK(c)'
    <3>1. task'[d] # "resolved"
      BY <2>1 DEF LedgerHolds, OneAtATime, Queue!TypeOK
    <3>. QED
      BY <1>3, <2>2, <2>3, <3>1
  <2>5. ASSUME NothingGivenUp'
        PROVE  Queue!AckPending' = Queue!AckPending
    <3>1. broker'[d[1]] # "dropped" /\ d[1] \in Entries
      BY <2>5, DeliveryParts DEF NothingGivenUp
    <3>. QED
      BY <2>1, <3>1 DEF Queue!AckPending, Queue!Retry, LedgerHolds, OneAtATime, Queue!TypeOK
  <2>. QED
    BY <1>1, <1>2, <2>1, <2>4, <2>5 DEF TrackInv
<1>6. ASSUME NEW e \in Entries, Receive(e)
      PROVE  TrackInv'
  <2>1. /\ \A f \in Entries : broker[f] \in {"pending", "due"} => f = e
        /\ \A c \in Deliveries : task[c] = "none"
        /\ <<e, attempts[e] + 1>> \in Deliveries
    BY <1>6, BeforeDelivery DEF Receive, LedgerHolds
  <2>2. \A c \in Deliveries : work[c].at = "idle"
    BY <2>1 DEF LedgerHolds, LedgerInv
  <2>3. /\ broker' = [broker EXCEPT ![e] = "pending"]
        /\ task' = [task EXCEPT ![<<e, attempts[e] + 1>>] = "handling"]
        /\ UNCHANGED <<incidents, snapshot, ledger>>
    BY <1>6 DEF Receive, Queue!Deliver, incidentVars
  <2>4. PICK step \in {"failed", "begin"} : GoTo(<<e, attempts[e] + 1>>, step)
    BY <1>6 DEF Receive
  <2>5. \A c \in Deliveries : work'[c].at \in {"idle", "failed", "begin"} /\ task'[c] # "resolved"
    BY <2>1, <2>2, <2>3, <2>4, Going DEF OthersStay, LedgerHolds
  <2>6. Queue!AckPending' = {e}
    BY <2>1, <2>3 DEF Queue!AckPending, LedgerHolds, OneAtATime, Queue!TypeOK
  <2>7. Queue!AckPending = {} \/ Queue!AckPending = {e}
    BY <2>1 DEF Queue!AckPending
  <2>8. NothingGivenUp => EntryOK(e)
    BY <2>7, SettledIsFine DEF TrackInv
  <2>. QED
    BY <1>1, <1>2, <1>3, <2>3, <2>5, <2>6, <2>8 DEF TrackInv
<1>7. ASSUME NEW d \in Deliveries, Ack(d)
      PROVE  TrackInv'
  <2>1. /\ task[d] = "resolved"
        /\ broker' = [broker EXCEPT ![d[1]] = Queue!Acknowledged(d[1])]
        /\ task' = [task EXCEPT ![d] = "none"]
        /\ UNCHANGED <<work, incidents, snapshot, ledger>>
    BY <1>7 DEF Ack, Queue!Ack, processorVars, incidentVars
  <2>2. NothingGivenUp => Settled
    BY <2>1 DEF TrackInv, CallOK
  <2>3. work[d].at = "idle"
    BY <2>1 DEF LedgerHolds, LedgerInv
  <2>4. \A c \in Deliveries : work'[c].at = "idle" /\ task'[c] # "resolved"
    BY <2>1, <2>3, OthersIdle DEF LedgerHolds, OneAtATime, Queue!TypeOK
  <2>5. \A c \in Deliveries : CallOK(c)'
    BY <1>3, <2>4
  <2>6. Settled => \A e : EntryOK(e)
    BY SettledIsFine
  <2>. QED
    BY <1>1, <1>2, <2>1, <2>2, <2>5, <2>6 DEF TrackInv
<1>8. ASSUME NEW d \in Deliveries, DeadLetter(d)
      PROVE  TrackInv'
  <2>1. d[1] \in dlq' /\ UNCHANGED <<incidents, snapshot>>
    BY <1>8 DEF DeadLetter, Queue!DeadLetter, processorVars, incidentVars
  <2>. QED
    BY <1>2, <2>1 DEF TrackInv, NothingGivenUp
<1>9. ASSUME LoseProcess, UNCHANGED broker, \A d \in Deliveries : task'[d] = "none"
      PROVE  TrackInv'
  <2>1. UNCHANGED <<incidents, snapshot, ledger>> /\ \A c \in Deliveries : work'[c].at = "idle"
    BY <1>9 DEF LoseProcess, Waiting
  <2>2. \A c \in Deliveries : CallOK(c)'
    BY <1>3, <1>9, <2>1
  <2>3. Queue!AckPending' = Queue!AckPending
    BY <1>9 DEF Queue!AckPending
  <2>. QED
    BY <1>1, <1>2, <2>1, <2>2, <2>3 DEF TrackInv
<1>10. ASSUME UNCHANGED <<task, processorVars>>,
              NothingGivenUp' => Queue!AckPending' = Queue!AckPending
       PROVE  TrackInv'
  <2>1. UNCHANGED <<work, task, incidents, snapshot, ledger>>
    BY <1>10 DEF processorVars, incidentVars
  <2>2. \A a : Held(a)' = Held(a)
    BY <2>1 DEF Held
  <2>3. \A e, r : Agrees(Effect(e), r)' = Agrees(Effect(e), r)
    BY <2>1, <2>2, SameView
  <2>4. ASSUME NEW c \in Deliveries, CallOK(c)
        PROVE  CallOK(c)'
    BY <1>2, <2>1, <2>3, <2>4 DEF CallOK
  <2>. QED
    BY <1>1, <1>2, <1>10, <2>1, <2>4 DEF TrackInv
<1>11. ASSUME NEW e \in Entries, AckWaitExpires(e), UNCHANGED <<task, processorVars>>
       PROVE  TrackInv'
  <2>1. broker[e] = "pending" /\ broker' = [broker EXCEPT ![e] = Queue!Retry(e)]
    BY <1>11 DEF AckWaitExpires, Queue!AckWaitExpires
  <2>2. NothingGivenUp' => Queue!AckPending' = Queue!AckPending
    BY <2>1 DEF NothingGivenUp, Queue!AckPending, Queue!Retry, LedgerHolds, OneAtATime, Queue!TypeOK
  <2>. QED
    BY <1>10, <1>11, <2>2
<1>12. ASSUME UNCHANGED <<broker, task, processorVars>>
       PROVE  TrackInv'
  BY <1>10, <1>12 DEF Queue!AckPending
<1>13. ASSUME NEW d \in Deliveries, Inner(d)
       PROVE  TrackInv'
  BY <1>13, TrackInner
<1>. QED
  BY <1>4, <1>5, <1>6, <1>7, <1>8, <1>9, <1>11, <1>12, <1>13, OtherSteps

LEMMA TrackInit ==
  ASSUME Init
  PROVE  TrackInv
<1>1. /\ incidents = <<>> /\ snapshot = EmptyMemory
      /\ \A e \in Entries : broker[e] = "new" /\ ledger[e] = "absent"
      /\ \A d \in Deliveries : task[d] = "none" /\ work[d] = Waiting
  BY StreamFacts DEF Init, Queue!Init, Queue!Idle
<1>2. Queue!AckPending = {}
  BY <1>1, StreamFacts DEF Queue!AckPending
<1>3. \A a : Held(a) = {} /\ HoldersOf(a) = {}
  BY <1>1 DEF Held, HoldersOf
<1>4. \A r \in Rules : \A a \in IdsOf(r) : Told(snapshot, a) = {}
  BY <1>1 DEF Told, EmptyMemory, NotActive, NoAnomaly, IdsOf
<1>5. OneHolder
  BY <1>3 DEF OneHolder
<1>6. Settled
  BY <1>3, <1>4 DEF Settled, Agrees
<1>7. \A d \in Deliveries : CallOK(d)
  BY <1>1, <1>6 DEF CallOK, Evaluated, Waiting
<1>. QED
  BY <1>2, <1>5, <1>6, <1>7 DEF TrackInv

\* Once every entry that was delivered is acknowledged as processed, PostgreSQL holds
\* an anomaly unresolved, and with that status, exactly when the rules still follow it:
\* whatever was retried, claimed anew or cut off by a crash on the way. Handlers end
\* before their deadline, rollbacks find Redis, and a resource state outlives a retry.
THEOREM IncidentsFollowTheRules ==
  ASSUME ~HandlersMayOverrun, ~StateMayExpire, ~RollbackMayFail
  PROVE  Spec => []TrackedWhenQuiet
<1>. DEFINE All == LedgerHolds /\ RulesHold /\ DueHolds /\ EngineInv /\ TrackInv
<1>1. Init => All
  BY LedgerInit, RulesInit, DueInit, EngineInit, TrackInit
<1>2. All /\ [Next]_vars => All'
  BY LedgerKept, RulesStep, DueStep, EngineStep, TrackStep
<1>3. All => TrackedWhenQuiet
  <2>. SUFFICES ASSUME TrackInv, Quiet, NEW a \in AnomalyIds
                PROVE  Held(a) = Told(snapshot, a)
    BY DEF TrackedWhenQuiet, Held, Told, Unended
  <2>1. Queue!AckPending = {}
    BY StreamFacts DEF Quiet, Queue!AckPending
  <2>2. Settled
    BY <2>1 DEF TrackInv, Quiet
  <2>3. a[1] \in Rules /\ a \in IdsOf(a[1])
    BY DEF AnomalyIds, IdsOf
  <2>. QED
    BY <2>2, <2>3 DEF Settled, Agrees
<1>. QED
  BY <1>1, <1>2, <1>3, PTL DEF Spec
=============================================================================
