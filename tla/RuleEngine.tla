----------------------------- MODULE RuleEngine -----------------------------
(***************************************************************************)
(* The deterministic rule engine of the processor as pure functions on its *)
(* memory: apps/processor/src/rules/in-memory-rule-engine.ts, with the     *)
(* rules of rules.ts reduced to what they ask of the engine.               *)
(*                                                                         *)
(* One resource is modelled: a rule stands for its dedupe key. Severity,   *)
(* wording and evidence are left out, and so are the capacity and the      *)
(* five-minute window that bound the memory.                               *)
(***************************************************************************)
EXTENDS Naturals, Sequences

CONSTANTS
  Telemetry,           \* Seq of events, in stream order
  NumRules,            \* the rules, in the order createDefaultRules lists them
  Series,              \* watermark keys: resource, kind and metric name
  ObservationsNeeded,  \* [Rules -> Nat], observation.count a rule asks for
  DurationNeeded       \* [Rules -> Nat], durationMs a rule asks for

Entries == DOMAIN Telemetry
Rules == 1..NumRules

\* What an event shows a rule: its condition, health, or nothing of interest.
Signals == {"high", "normal", "silent"}

\* `relevant` is isRuleRelevantTelemetry: FALSE for a log or an unmapped metric.
Events == [time : Nat \ {0}, series : Series, relevant : BOOLEAN,
           signal : [Rules -> Signals]]

ASSUME RuleAssumption ==
  /\ NumRules \in Nat
  /\ Telemetry \in Seq(Events)
  /\ ObservationsNeeded \in [Rules -> Nat]
  /\ DurationNeeded \in [Rules -> Nat]

Times == {Telemetry[e].time : e \in Entries}

\* anomalyId hashes the dedupe key and the timestamp of the opening event.
AnomalyIds == Rules \X Times
NoAnomaly == <<>>

-----------------------------------------------------------------------------
Condition == [active : BOOLEAN, count : Nat, since : Nat, last : Nat]

\* confirmations: 1 after OPEN; 2 stands for every later value.
ActiveAnomaly == [id : AnomalyIds \union {NoAnomaly}, confirmations : 0..2]

Memory == [seen      : SUBSET Entries,
           watermark : [Series -> Nat],
           condition : [Rules -> Condition],
           active    : [Rules -> ActiveAnomaly]]

NoCondition == [active |-> FALSE, count |-> 0, since |-> 0, last |-> 0]
NotActive == [id |-> NoAnomaly, confirmations |-> 0]

EmptyMemory ==
  [seen      |-> {},
   watermark |-> [s \in Series |-> 0],
   condition |-> [r \in Rules |-> NoCondition],
   active    |-> [r \in Rules |-> NotActive]]

-----------------------------------------------------------------------------
\* observe(): older samples leave the condition alone, a healthy one resets it.
Observe(prior, signal, time) ==
  IF signal = "silent" \/ time < prior.last THEN prior
  ELSE IF signal = "normal"
  THEN [active |-> FALSE, count |-> 0, since |-> time, last |-> time]
  ELSE [active |-> TRUE,
        count  |-> IF prior.active THEN prior.count + 1 ELSE 1,
        since  |-> IF prior.active THEN prior.since ELSE time,
        last   |-> time]

\* What a rule answers: a match, a null match ("clear"), or no evaluation.
Verdict(r, signal, observed) ==
  CASE signal = "normal" -> "clear"
    [] /\ signal = "high"
       /\ observed.count >= ObservationsNeeded[r]
       /\ observed.last - observed.since >= DurationNeeded[r] -> "match"
    [] OTHER -> "none"

\* The lifecycle of the anomaly of one dedupe key.
Lifecycle(r, prior, verdict, time) ==
  CASE verdict = "none" -> prior
    [] verdict = "clear" -> NotActive
    [] verdict = "match" -> IF prior = NotActive
                            THEN [id |-> <<r, time>>, confirmations |-> 1]
                            ELSE [prior EXCEPT !.confirmations = 2]

\* The statuses that go out: OPEN, ACTIVE on the first confirmation, RESOLVED.
Emitted(r, prior, verdict, time) ==
  CASE verdict = "match" /\ prior = NotActive ->
         <<[id |-> <<r, time>>, status |-> "OPEN"]>>
    [] verdict = "match" /\ prior.confirmations = 1 ->
         <<[id |-> prior.id, status |-> "ACTIVE"]>>
    [] verdict = "clear" /\ prior # NotActive ->
         <<[id |-> prior.id, status |-> "RESOLVED"]>>
    [] OTHER -> <<>>

\* Mutant of Ignored: only older samples are.
IgnoredIfLate(memory, e) ==
  Telemetry[e].time < memory.watermark[Telemetry[e].series]

\* An event is ignored when seen before or behind the watermark of its series.
Ignored(memory, e) ==
  \/ e \in memory.seen
  \/ Telemetry[e].time < memory.watermark[Telemetry[e].series]

-----------------------------------------------------------------------------
\* evaluate(): the memory after event e, and the anomaly each rule emits, if
\* any; they go out in the order of the rules.
Evaluate(memory, e) ==
  LET event    == Telemetry[e]
      observed == [r \in Rules |->
                     Observe(memory.condition[r], event.signal[r], event.time)]
      verdict  == [r \in Rules |-> Verdict(r, event.signal[r], observed[r])]
      out      == [r \in Rules |->
                     Emitted(r, memory.active[r], verdict[r], event.time)]
      spoken   == {r \in Rules : out[r] # <<>>}
  IN  IF Ignored(memory, e)
      THEN [memory |-> memory, emitted |-> <<>>]
      ELSE [memory |->
              [seen      |-> memory.seen \union {e},
               watermark |-> [memory.watermark EXCEPT ![event.series] =
                                event.time],
               condition |-> observed,
               active    |-> [r \in Rules |->
                                Lifecycle(r, memory.active[r], verdict[r],
                                          event.time)]],
            emitted |-> [r \in spoken |-> out[r][1]]]
=============================================================================
