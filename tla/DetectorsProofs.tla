--------------------------- MODULE DetectorsProofs ---------------------------
(***************************************************************************)
(* What the statistical detector, the log classifier and the baselines     *)
(* guarantee for any pods, samples, windows and thresholds, and for any    *)
(* number of failures, crashes and refresh cycles; what the rule engine    *)
(* guarantees for any telemetry, rules and lateness; and what the catalog  *)
(* of rules makes of any failures, notices and expired readings.           *)
(***************************************************************************)
EXTENDS Detectors, FiniteSetTheorems, TLAPS

-----------------------------------------------------------------------------
(* What the detector knows, and what the incidents were told                *)

\* A memory holds an anomaly of each pod exactly when it was told as not ended.
Follows(m, tell) ==
  \A p \in Pods :
    IF tell[p].status \in {"OPEN", "ACTIVE"} THEN m.signals[p].anomaly = tell[p].id
    ELSE m.signals[p].anomaly = None

Anew(v) == Detect(snapshot, due, v)

DetectorType ==
  /\ snapshot \in Memories /\ mem \in Memories \union {None}
  /\ due # None => due \in Samples
  /\ now \in Nat /\ count \in Nat
  /\ told = [s \in Signals |-> told[s]]
  /\ source \in {"log", "usage"}
  /\ source = "log" => verdicts = {}
  /\ ~split => \A v, w \in verdicts : v = w

\* A judgement that leaves the memory alone: of a log, of a sample seen before, or none.
Passed ==
  /\ Memory = snapshot
  /\ attempt.out = <<>> \/ \E a : attempt.out = <<a>> /\ a.signal = "pattern"
  /\ ~split => Follows(snapshot, told)

\* A sample judged with what was committed before, and perhaps told.
Judged(v) ==
  /\ due \notin snapshot.seen
  /\ mem = Anew(v).memory /\ attempt.out \in {<<>>, Anew(v).out}
  /\ ~split /\ attempt.out = <<>> => Follows(mem, told)

CallOK ==
  /\ attempt.phase \in {"idle", "judged", "committed"}
  /\ attempt.phase # "idle" => due # None
  /\ attempt.phase # "judged" => Memory = snapshot
  /\ attempt.phase = "committed" => (~split => Follows(snapshot, told))
  /\ attempt.phase = "judged" => Passed \/ \E v \in verdicts : Judged(v)

\* The incidents are told what follows from what was committed, or from the pending
\* sample and that: judged as it was before it will say the same again.
ToldOK ==
  ~split =>
    /\ due = None \/ due \in snapshot.seen => Follows(snapshot, told)
    /\ Follows(snapshot, told) \/ \E v \in verdicts : Follows(Anew(v).memory, told)

DetectorInv == DetectorType /\ CallOK /\ ToldOK

-----------------------------------------------------------------------------
(* What a judgement does                                                    *)

SaysOf(out, pod, before, after) ==
  \/ out = <<>> /\ after.anomaly = before.anomaly
  \/ \E a : /\ out = <<a>> /\ a.signal = pod
            /\ IF a.status \in {"OPEN", "ACTIVE"} THEN after.anomaly = a.id ELSE after.anomaly = None

LEMMA CountedKeeps ==
  ASSUME NEW s \in SignalStates, NEW window
  PROVE  Counted(s, window) \in SignalStates /\ Counted(s, window).anomaly = s.anomaly
<1>1. /\ s.abnormal + 1 \in Nat /\ s.normal + 1 \in Nat /\ 0 \in Nat /\ DOMAIN s = {"abnormal", "normal", "anomaly", "until"}
      /\ s.anomaly \in Nat \union {None} /\ s.until \in Nat
      /\ s = [abnormal |-> s.abnormal, normal |-> s.normal, anomaly |-> s.anomaly, until |-> s.until]
  BY DEF SignalStates
<1>2. \/ Counted(s, window) = s
      \/ Counted(s, window) =
           [abnormal |-> s.abnormal + 1, normal |-> 0, anomaly |-> s.anomaly, until |-> s.until]
      \/ Counted(s, window) =
           [abnormal |-> 0, normal |-> s.normal + 1, anomaly |-> s.anomaly, until |-> s.until]
  <2>1. CASE Abnormal(window)
    <3>1. Counted(s, window) = [s EXCEPT !.abnormal = @ + 1, !.normal = 0]
      BY <2>1 DEF Counted
    <3> QED
      BY <1>1, <3>1
  <2>2. CASE ~Abnormal(window) /\ Recovered(window)
    <3>1. Counted(s, window) = [s EXCEPT !.normal = @ + 1, !.abnormal = 0]
      BY <2>2 DEF Counted
    <3> QED
      BY <1>1, <3>1
  <2>3. CASE ~Abnormal(window) /\ ~Recovered(window)
    BY <2>3 DEF Counted
  <2> QED
    BY <2>1, <2>2, <2>3
<1> QED
  BY <1>1, <1>2 DEF SignalStates

LEMMA AdvanceSays ==
  ASSUME NEW before \in SignalStates, NEW window, NEW e \in Samples
  PROVE  /\ Advance(before, window, e)[1] \in SignalStates
         /\ SaysOf(Advance(before, window, e)[2], e.pod, before, Advance(before, window, e)[1])
<1> DEFINE is(st, id) == <<[signal |-> e.pod, status |-> st, id |-> id, at |-> e.time]>>
<1>1. PICK s : s = Counted(before, window)
  OBVIOUS
<1>2. s \in SignalStates /\ s.anomaly = before.anomaly
  BY <1>1, CountedKeeps
<1>3. e.n \in Nat /\ e.time \in Nat /\ e.pod \in Pods /\ e.time + Cooldown \in Nat
  BY DetectionAssumption DEF Samples
<1>4. \/ Advance(before, window, e) = <<s, <<>>>>
      \/ Advance(before, window, e) = <<s, is("ACTIVE", s.anomaly)>>
      \/ Advance(before, window, e) = <<Resolved(e), is("RESOLVED", s.anomaly)>>
      \/ Advance(before, window, e) = <<[s EXCEPT !.anomaly = e.n], is("OPEN", e.n)>>
  BY <1>1 DEF Advance
<1>5. CASE Advance(before, window, e) = <<s, <<>>>>
  BY <1>2, <1>5 DEF SaysOf
<1>6. CASE Advance(before, window, e) = <<s, is("ACTIVE", s.anomaly)>>
  BY <1>2, <1>6 DEF SaysOf
<1>7. CASE Advance(before, window, e) = <<Resolved(e), is("RESOLVED", s.anomaly)>>
  <2>1. Resolved(e) \in SignalStates /\ Resolved(e).anomaly = None
    BY <1>3 DEF Resolved, Quiet, SignalStates
  <2> QED
    BY <1>7, <2>1 DEF SaysOf
<1>8. CASE Advance(before, window, e) = <<[s EXCEPT !.anomaly = e.n], is("OPEN", e.n)>>
  <2>1. PICK opened : opened = [s EXCEPT !.anomaly = e.n]
    OBVIOUS
  <2>2. opened \in SignalStates /\ opened.anomaly = e.n
    BY <1>2, <1>3, <2>1 DEF SignalStates
  <2>3. Advance(before, window, e)[1] = opened /\ Advance(before, window, e)[2] = is("OPEN", e.n)
    BY <1>8, <2>1
  <2>4. SaysOf(is("OPEN", e.n), e.pod, before, opened)
    <3>1. PICK a : a = [signal |-> e.pod, status |-> "OPEN", id |-> e.n, at |-> e.time]
      OBVIOUS
    <3>2. a.signal = e.pod /\ a.status = "OPEN" /\ a.id = e.n /\ is("OPEN", e.n) = <<a>>
      BY <3>1
    <3> HIDE DEF is
    <3> QED
      BY <2>2, <3>2 DEF SaysOf
  <2> QED
    BY <2>2, <2>3, <2>4
<1> QED
  BY <1>4, <1>5, <1>6, <1>7, <1>8

Detected(m, e, result) ==
  /\ result.memory \in Memories /\ e \in result.memory.seen
  /\ \A p \in Pods : p # e.pod => result.memory.signals[p] = m.signals[p]
  /\ SaysOf(result.out, e.pod, m.signals[e.pod], result.memory.signals[e.pod])

LEMMA DetectSays ==
  ASSUME NEW m \in Memories, NEW e \in Samples, NEW v
  PROVE  /\ Detected(m, e, Detect(m, e, v))
         /\ ~v => Detect(m, e, v).memory.signals = m.signals
<1> DEFINE window == Recorded(m.windows[e.pod], e)
           compared == v /\ Cardinality(window) >= MinSamples
           advanced == IF compared THEN Advance(m.signals[e.pod], window, e)
                       ELSE <<m.signals[e.pod], <<>>>>
           seen == Pruned(m.seen \union {e}, e)
           signals == [m.signals EXCEPT ![e.pod] = advanced[1]]
           windows == [m.windows EXCEPT ![e.pod] = window]
<1>1. /\ e.pod \in Pods /\ e.time \in Nat /\ e.n \in Nat /\ m.signals \in [Pods -> SignalStates]
      /\ m.windows \in [Pods -> SUBSET Samples] /\ m.seen \in SUBSET Samples
  BY DEF Memories, Samples
<1>2. Detect(m, e, v) = [memory |-> [windows |-> windows, signals |-> signals, seen |-> seen],
                              out |-> advanced[2]]
  BY DEF Detect
<1>3. advanced[1] \in SignalStates /\ SaysOf(advanced[2], e.pod, m.signals[e.pod], advanced[1])
  <2>1. m.signals[e.pod] \in SignalStates
    BY <1>1
  <2>2. CASE compared
    <3>1. advanced = Advance(m.signals[e.pod], window, e)
      BY <2>2
    <3> HIDE DEF advanced, window, compared
    <3> QED
      BY <2>1, <3>1, AdvanceSays
  <2>3. CASE ~compared
    BY <2>1, <2>3 DEF SaysOf
  <2> QED
    BY <2>2, <2>3
<1>4. seen \in SUBSET Samples /\ e \in seen
  BY <1>1, DetectionAssumption DEF Pruned
<1>5. windows \in [Pods -> SUBSET Samples]
  <2>1. window \in SUBSET Samples
    BY <1>1 DEF Recorded
  <2> HIDE DEF window
  <2> QED
    BY <1>1, <2>1
<1>6. ~v => advanced[1] = m.signals[e.pod]
  OBVIOUS
<1> HIDE DEF window, compared, advanced, seen, windows
<1>7. /\ signals \in [Pods -> SignalStates] /\ signals[e.pod] = advanced[1]
      /\ \A p \in Pods : p # e.pod => signals[p] = m.signals[p]
      /\ ~v => signals = m.signals
  BY <1>1, <1>3, <1>6
<1> HIDE DEF signals
<1>8. Detect(m, e, v).memory \in Memories
  BY <1>2, <1>4, <1>5, <1>7 DEF Memories
<1> QED
  BY <1>2, <1>3, <1>4, <1>7, <1>8 DEF Detected

LEMMA TellingFollows ==
  ASSUME NEW m, NEW e \in Samples, NEW result, Detected(m, e, result),
         NEW tell, tell = [s \in Signals |-> tell[s]],
         Follows(m, tell) \/ Follows(result.memory, tell)
  PROVE  /\ result.out = <<>> => Follows(result.memory, tell)
         /\ \A a : result.out = <<a>> =>
              Follows(result.memory,
                [tell EXCEPT ![a.signal] = [status |-> a.status, id |-> a.id, at |-> a.at]])
<1>1. e.pod \in Pods
  BY DEF Samples
<1>2. ASSUME result.out = <<>>
      PROVE  Follows(result.memory, tell)
  <2>1. result.memory.signals[e.pod].anomaly = m.signals[e.pod].anomaly
    BY <1>2 DEF Detected, SaysOf
  <2> QED
    BY <1>1, <2>1 DEF Follows, Detected
<1>3. ASSUME NEW a, result.out = <<a>>
      PROVE  Follows(result.memory,
               [tell EXCEPT ![a.signal] = [status |-> a.status, id |-> a.id, at |-> a.at]])
  <2> DEFINE after == [tell EXCEPT ![a.signal] = [status |-> a.status, id |-> a.id, at |-> a.at]]
  <2>1. /\ a.signal = e.pod
        /\ IF a.status \in {"OPEN", "ACTIVE"} THEN result.memory.signals[e.pod].anomaly = a.id
           ELSE result.memory.signals[e.pod].anomaly = None
    <3>1. PICK b : /\ result.out = <<b>> /\ b.signal = e.pod
                   /\ IF b.status \in {"OPEN", "ACTIVE"}
                      THEN result.memory.signals[e.pod].anomaly = b.id
                      ELSE result.memory.signals[e.pod].anomaly = None
      BY <1>3 DEF Detected, SaysOf
    <3>2. a = b
      BY <1>3, <3>1
    <3> QED
      BY <3>1, <3>2
  <2>2. after[e.pod].status = a.status /\ after[e.pod].id = a.id
    BY <1>1, <2>1 DEF Signals
  <2>3. \A p \in Pods : p # e.pod => after[p] = tell[p]
    BY <1>1, <2>1 DEF Signals
  <2> HIDE DEF after
  <2>4. ASSUME NEW p \in Pods
        PROVE  IF after[p].status \in {"OPEN", "ACTIVE"} THEN result.memory.signals[p].anomaly = after[p].id
               ELSE result.memory.signals[p].anomaly = None
    <3>1. CASE p = e.pod
      BY <2>1, <2>2, <3>1
    <3>2. CASE p # e.pod
      BY <2>3, <3>2 DEF Follows, Detected
    <3> QED
      BY <3>1, <3>2
  <2>5. Follows(result.memory, after)
    BY <2>4 DEF Follows
  <2> QED
    BY <2>5 DEF after
<1> QED
  BY <1>2, <1>3

-----------------------------------------------------------------------------
(* The steps                                                                *)

LEMMA DetectorInvInit == Init => DetectorInv
<1> SUFFICES ASSUME Init
             PROVE  DetectorInv
  OBVIOUS
<1> USE DEF Init
<1>1. Quiet \in SignalStates /\ Fresh \in Memories
  BY DEF Quiet, SignalStates, Fresh, Memories
<1>2. told = [s \in Signals |-> told[s]]
  OBVIOUS
<1>3. DetectorType
  BY <1>1, <1>2 DEF DetectorType
<1>4. CallOK
  BY DEF CallOK, Waiting, Memory
<1>5. Follows(snapshot, told)
  BY DEF Follows, Fresh, Quiet, Nothing, Signals
<1> QED
  BY <1>3, <1>4, <1>5 DEF DetectorInv, ToldOK

LEMMA ReceiveKeeps ==
  ASSUME DetectorInv, Receive
  PROVE  DetectorInv'
<1>1. due' \in Samples /\ count' \in Nat
  BY DetectionAssumption DEF DetectorInv, DetectorType, Receive, Samples
<1>2. DetectorType'
  BY <1>1 DEF DetectorInv, DetectorType, Receive, history, detector
<1>3. attempt.phase = "idle" /\ Memory = snapshot
  BY DEF DetectorInv, CallOK, Receive
<1>4. CallOK'
  BY <1>3 DEF CallOK, Receive, detector, Memory
<1>5. ~split => Follows(snapshot, told)
  BY DEF DetectorInv, ToldOK, Receive
<1>6. ToldOK'
  BY <1>5 DEF ToldOK, Receive, detector, history
<1> QED
  BY <1>2, <1>4, <1>6 DEF DetectorInv

LEMMA JudgeSampleKeeps ==
  ASSUME DetectorInv, JudgeSample
  PROVE  DetectorInv'
<1>1. Memory = snapshot /\ Memory \in Memories /\ due \in snapshot.seen
  BY DEF DetectorInv, CallOK, DetectorType, JudgeSample, Memory
<1>2. mem' = snapshot /\ Memory' = snapshot'
  BY <1>1 DEF JudgeSample, Memory
<1>3. DetectorType'
  BY <1>1, <1>2 DEF DetectorInv, DetectorType, JudgeSample, history
<1>4. ~split => Follows(snapshot, told)
  BY <1>1 DEF DetectorInv, ToldOK
<1>5. Passed'
  BY <1>2, <1>4 DEF Passed, JudgeSample, history
<1>6. CallOK'
  BY <1>5 DEF CallOK, JudgeSample
<1>7. ToldOK'
  BY <1>4 DEF ToldOK, JudgeSample, history
<1> QED
  BY <1>3, <1>6, <1>7 DEF DetectorInv

LEMMA JudgeSampleAnewKeeps ==
  ASSUME DetectorInv, JudgeSampleAnew
  PROVE  DetectorInv'
<1>1. Memory = snapshot /\ due \notin snapshot.seen /\ due \in Samples /\ snapshot \in Memories
  BY DEF DetectorInv, CallOK, DetectorType, JudgeSampleAnew
<1>2. PICK looked : /\ cache' = looked /\ mem' = Anew(looked.ready).memory
                    /\ attempt' = [phase |-> "judged", out |-> Anew(looked.ready).out]
                    /\ verdicts' = verdicts \union {looked.ready}
                    /\ split' = (split \/ \E v \in verdicts : v # looked.ready)
  BY <1>1 DEF JudgeSampleAnew, Anew
<1>3. PICK v : v = looked.ready
  OBVIOUS
<1>4. PICK result : result = Anew(v)
  OBVIOUS
<1>5. Detected(snapshot, due, result)
  BY <1>1, <1>4, DetectSays DEF Anew
<1>6. snapshot' = snapshot /\ due' = due /\ told' = told /\ source' = source /\ source = "usage"
  BY DEF JudgeSampleAnew
<1>7. \A w : Anew(w)' = Anew(w)
  BY <1>6 DEF Anew
<1>8. DetectorType'
  <2>1. mem' \in Memories
    BY <1>2, <1>3, <1>4, <1>5 DEF Detected
  <2>2. ~split' => \A a, b \in verdicts' : a = b
    BY <1>2 DEF DetectorInv, DetectorType
  <2>3. now' = now /\ count' = count
    BY DEF JudgeSampleAnew
  <2> QED
    BY <1>6, <2>1, <2>2, <2>3 DEF DetectorInv, DetectorType
<1>9. ASSUME ~split'
      PROVE  Follows(snapshot, told) \/ Follows(result.memory, told)
  <2>1. ~split /\ \A w \in verdicts : w = v
    BY <1>2, <1>3, <1>9
  <2> QED
    BY <1>4, <2>1 DEF DetectorInv, ToldOK
<1>10. Judged(v)'
  <2>1. due' \notin snapshot'.seen
    BY <1>1, <1>6
  <2>2. mem' = Anew(v)'.memory /\ attempt'.out = Anew(v)'.out
    BY <1>2, <1>3, <1>7
  <2>3. ~split' /\ attempt'.out = <<>> => Follows(mem', told')
    <3>1. ~split' /\ result.out = <<>> => Follows(result.memory, told)
      BY <1>1, <1>5, <1>9, TellingFollows DEF DetectorInv, DetectorType
    <3>2. attempt'.out = result.out /\ mem' = result.memory
      BY <1>2, <1>3, <1>4
    <3> QED
      BY <1>6, <3>1, <3>2
  <2> QED
    BY <2>1, <2>2, <2>3 DEF Judged
<1>11. CallOK'
  <2>1. attempt'.phase = "judged" /\ due' # None /\ v \in verdicts'
    BY <1>2, <1>3, <1>6 DEF JudgeSampleAnew
  <2> QED
    BY <1>10, <2>1 DEF CallOK
<1>12. ToldOK'
  <2>1. v \in verdicts' /\ Anew(v)' = result
    BY <1>2, <1>3, <1>4, <1>7
  <2>2. due' # None /\ due' \notin snapshot'.seen
    BY <1>1, <1>6 DEF JudgeSampleAnew
  <2>3. ~split' => Follows(snapshot', told') \/ Follows(Anew(v)'.memory, told')
    BY <1>6, <1>9, <2>1
  <2> QED
    BY <2>1, <2>2, <2>3 DEF ToldOK
<1> QED
  BY <1>8, <1>11, <1>12 DEF DetectorInv

LEMMA ClassifyKeeps ==
  ASSUME DetectorInv, Classify
  PROVE  DetectorInv'
<1>1. Memory = snapshot /\ verdicts = {} /\ due # None
  BY DEF DetectorInv, CallOK, DetectorType, Classify
<1>2. ~split => Follows(snapshot, told)
  BY <1>1 DEF DetectorInv, ToldOK
<1>3. PICK out : /\ attempt' = [phase |-> "judged", out |-> out]
                 /\ out = <<>> \/ \E a : out = <<a>> /\ a.signal = "pattern"
  <2>1. PICK g : g = Aggregated(due)
    OBVIOUS
  <2>2. PICK a : a = [signal |-> "pattern", id |-> g.first, at |-> due.time,
                      status |-> IF g.count = 1 THEN "OPEN" ELSE "ACTIVE"]
    OBVIOUS
  <2>3. attempt' = [phase |-> "judged", out |-> Classified(g, due)]
    BY <2>1 DEF Classify
  <2>4. Classified(g, due) = <<>> \/ Classified(g, due) = <<a>>
    BY <2>2 DEF Classified
  <2>5. a.signal = "pattern"
    BY <2>2
  <2> QED
    BY <2>3, <2>4, <2>5
<1>4. Passed'
  BY <1>1, <1>2, <1>3 DEF Passed, Classify, Memory, detector, history
<1>5. CallOK'
  BY <1>1, <1>3, <1>4 DEF CallOK, Classify
<1>6. ToldOK'
  BY <1>2 DEF ToldOK, Classify, detector, history
<1>7. DetectorType'
  BY DEF DetectorInv, DetectorType, Classify, detector, history
<1> QED
  BY <1>5, <1>6, <1>7 DEF DetectorInv

LEMMA EnricherFailsKeeps ==
  ASSUME DetectorInv, EnricherFails
  PROVE  DetectorInv'
<1>1. Memory = snapshot /\ due # None /\ mem' = mem /\ snapshot' = snapshot
  BY DEF DetectorInv, CallOK, EnricherFails, detector
<1>2. ~split' => ~split /\ Follows(snapshot, told)
  BY DEF DetectorInv, DetectorType, ToldOK, EnricherFails
<1>3. Passed'
  BY <1>1, <1>2 DEF Passed, EnricherFails, Memory
<1>4. CallOK'
  BY <1>1, <1>3 DEF CallOK, EnricherFails
<1>5. ToldOK'
  BY <1>1, <1>2 DEF ToldOK, EnricherFails
<1>6. DetectorType'
  BY <1>1, <1>2 DEF DetectorInv, DetectorType, EnricherFails
<1> QED
  BY <1>4, <1>5, <1>6 DEF DetectorInv

LEMMA CorrelateKeeps ==
  ASSUME DetectorInv, Correlate
  PROVE  DetectorInv'
<1> DEFINE tellsOf(a) == [told EXCEPT ![a.signal] = [status |-> a.status, id |-> a.id, at |-> a.at]]
<1>1. /\ snapshot' = snapshot /\ mem' = mem /\ due' = due /\ verdicts' = verdicts /\ split' = split
      /\ now' = now /\ count' = count /\ source' = source
      /\ attempt.phase = "judged" /\ attempt.out # <<>> /\ due # None
  BY DEF Correlate, detector, history, DetectorInv, CallOK
<1>2. PICK a : attempt.out = <<a>>
  <2>1. CASE Passed
    BY <1>1, <2>1 DEF Passed
  <2>2. ASSUME NEW v \in verdicts, Judged(v)
        PROVE  \E a : attempt.out = <<a>>
    <3>1. attempt.out = Anew(v).out
      BY <1>1, <2>2 DEF Judged
    <3>2. SaysOf(Anew(v).out, due.pod, snapshot.signals[due.pod], Anew(v).memory.signals[due.pod])
      BY <1>1, DetectSays DEF Anew, Detected, DetectorInv, DetectorType
    <3> QED
      BY <1>1, <3>1, <3>2 DEF SaysOf
  <2> QED
    BY <1>1, <2>1, <2>2 DEF DetectorInv, CallOK
<1>3. told' = tellsOf(a) /\ attempt' = [attempt EXCEPT !.out = <<>>]
  BY <1>2 DEF Correlate
<1>4. told' = [s \in Signals |-> told'[s]]
  <2>1. \A tell : tell = [s \in Signals |-> tell[s]] <=> \E f : tell = [s \in Signals |-> f[s]]
    OBVIOUS
  <2>2. DOMAIN told = Signals
    BY DEF DetectorInv, DetectorType
  <2> QED
    BY <1>3, <2>2
<1>5. DetectorType'
  BY <1>1, <1>4 DEF DetectorInv, DetectorType
<1>6. attempt'.phase = "judged" /\ attempt'.out = <<>>
  <2>1. attempt' = [attempt EXCEPT !.out = Tail(attempt.out)]
    BY DEF Correlate
  <2> QED
    BY <1>1, <1>2, <1>3
<1>7. CASE Passed
  <2>1. a.signal = "pattern"
    BY <1>1, <1>2, <1>7 DEF Passed
  <2>2. \A p \in Pods : told'[p] = told[p]
    BY <1>3, <2>1, DetectionAssumption DEF DetectorInv, DetectorType, Signals
  <2>3. ~split' => Follows(snapshot', told')
    BY <1>1, <1>7, <2>2 DEF Passed, Follows
  <2>4. Passed'
    BY <1>1, <1>6, <1>7, <2>3 DEF Passed, Memory
  <2>5. CallOK'
    BY <1>1, <1>6, <2>4 DEF CallOK
  <2>6. ToldOK'
    BY <2>3 DEF ToldOK
  <2> QED
    BY <1>5, <2>5, <2>6 DEF DetectorInv
<1>8. ASSUME NEW v \in verdicts, Judged(v)
      PROVE  DetectorInv'
  <2>1. PICK result : result = Anew(v)
    OBVIOUS
  <2>2. Detected(snapshot, due, result)
    BY <1>1, <2>1, DetectSays DEF Anew, DetectorInv, DetectorType
  <2>3. result.out = <<a>> /\ mem = result.memory /\ due \notin snapshot.seen
    BY <1>1, <1>2, <1>8, <2>1 DEF Judged
  <2>4. \A w : Anew(w)' = Anew(w)
    BY <1>1 DEF Anew
  <2>5. ~split => Follows(result.memory, tellsOf(a))
    <3>1. ASSUME ~split
          PROVE  Follows(snapshot, told) \/ Follows(result.memory, told)
      <4>1. PICK w \in verdicts \union {v} : Follows(snapshot, told) \/ Follows(Anew(w).memory, told)
        BY <3>1 DEF DetectorInv, ToldOK
      <4>2. w = v
        BY <3>1, <1>8, <4>1 DEF DetectorInv, DetectorType
      <4> QED
        BY <2>1, <4>1, <4>2
    <3>2. due \in Samples /\ told = [s \in Signals |-> told[s]]
      BY <1>1 DEF DetectorInv, DetectorType
    <3> HIDE DEF tellsOf
    <3>3. Follows(snapshot, told) \/ Follows(result.memory, told) =>
            Follows(result.memory, [told EXCEPT ![a.signal] = [status |-> a.status, id |-> a.id, at |-> a.at]])
      BY <2>2, <2>3, <3>2, TellingFollows
    <3> QED
      BY <3>1, <3>3 DEF tellsOf
  <2>6. ~split' => Follows(mem', told')
    BY <1>1, <1>3, <2>3, <2>5
  <2>7. Judged(v)'
    BY <1>1, <1>6, <1>8, <2>4, <2>6 DEF Judged
  <2>8. CallOK'
    BY <1>1, <1>6, <2>7 DEF CallOK
  <2>9. ToldOK'
    BY <1>1, <2>1, <2>3, <2>4, <2>6 DEF ToldOK
  <2> QED
    BY <1>5, <2>8, <2>9 DEF DetectorInv
<1> QED
  BY <1>1, <1>7, <1>8 DEF DetectorInv, CallOK

LEMMA CommitKeeps ==
  ASSUME DetectorInv, Commit
  PROVE  DetectorInv'
<1>1. /\ snapshot' = Memory /\ mem' = mem /\ due' = due /\ verdicts' = verdicts /\ split' = split
      /\ told' = told /\ attempt.phase = "judged" /\ attempt.out = <<>> /\ due # None
      /\ attempt' = [attempt EXCEPT !.phase = "committed"]
  BY DEF Commit, history, DetectorInv, CallOK
<1>2. ~split => Follows(Memory, told)
  <2>1. CASE Passed
    BY <2>1 DEF Passed
  <2>2. ASSUME NEW v \in verdicts, Judged(v)
        PROVE  ~split => Follows(Memory, told)
    <3>1. mem \in Memories
      BY <2>2, <1>1, DetectSays DEF Judged, Anew, Detected, DetectorInv, DetectorType
    <3>2. Memory = mem
      BY <3>1, DetectionAssumption DEF Memory
    <3> QED
      BY <1>1, <2>2, <3>2 DEF Judged
  <2> QED
    BY <1>1, <2>1, <2>2 DEF DetectorInv, CallOK
<1>3. Memory' = snapshot' /\ Memory \in Memories
  BY <1>1 DEF Memory, DetectorInv, DetectorType
<1>4. DetectorType'
  BY <1>1, <1>3 DEF DetectorInv, DetectorType, Commit
<1>5. attempt'.phase = "committed"
  BY <1>1
<1>6. CallOK'
  BY <1>1, <1>2, <1>3, <1>5 DEF CallOK
<1>7. ToldOK'
  BY <1>1, <1>2 DEF ToldOK
<1> QED
  BY <1>4, <1>6, <1>7 DEF DetectorInv

LEMMA CompleteKeeps ==
  ASSUME DetectorInv, Complete
  PROVE  DetectorInv'
<1>1. /\ Memory = snapshot /\ snapshot' = snapshot /\ mem' = mem /\ told' = told /\ split' = split
      /\ ~split => Follows(snapshot, told)
  BY DEF Complete, detector, DetectorInv, CallOK
<1>2. DetectorType'
  BY <1>1 DEF DetectorInv, DetectorType, Complete
<1>3. CallOK'
  BY <1>1 DEF CallOK, Complete, Waiting, Memory
<1>4. ToldOK'
  BY <1>1 DEF ToldOK
<1> QED
  BY <1>2, <1>3, <1>4 DEF DetectorInv

\* An attempt that ends without being committed leaves what was committed.
LEMMA GivingUpKeeps ==
  ASSUME DetectorInv, Rollback \/ Crash
  PROVE  DetectorInv'
<1>1. /\ mem' \in {snapshot, None} /\ snapshot' = snapshot /\ told' = told /\ split' = split
      /\ due' = due /\ verdicts' = verdicts /\ attempt' = Waiting
      /\ now' = now /\ count' = count /\ source' = source
  BY DEF Rollback, Crash, history
<1>2. DetectorType'
  BY <1>1 DEF DetectorInv, DetectorType
<1>3. CallOK'
  BY <1>1 DEF CallOK, Waiting, Memory
<1>4. ToldOK'
  BY <1>1 DEF ToldOK, DetectorInv, Anew
<1> QED
  BY <1>2, <1>3, <1>4 DEF DetectorInv

\* What concerns neither the detector nor the incidents.
LEMMA ElsewhereKeeps ==
  ASSUME DetectorInv, now' \in Nat,
         UNCHANGED <<source, due, count, detector, attempt, told, verdicts, split>>
  PROVE  DetectorInv'
<1>1. DetectorType'
  BY DEF DetectorInv, DetectorType, detector
<1>2. CallOK'
  BY DEF DetectorInv, CallOK, Passed, Judged, Memory, Anew, detector
<1>3. ToldOK'
  BY DEF DetectorInv, ToldOK, Anew, detector
<1> QED
  BY <1>1, <1>2, <1>3 DEF DetectorInv

LEMMA DetectorInvStep == DetectorInv /\ [DetectorsNext]_detectorsVars => DetectorInv'
<1> SUFFICES ASSUME DetectorInv, [DetectorsNext]_detectorsVars
             PROVE  DetectorInv'
  OBVIOUS
<1>1. CASE UNCHANGED vars
  <2>1. /\ UNCHANGED <<source, due, count, detector, attempt, told, verdicts, split>>
        /\ now' \in Nat
    BY <1>1 DEF vars, history, DetectorInv, DetectorType
  <2> QED
    BY <2>1, ElsewhereKeeps
<1>2. CASE Tick \/ Refresh
  <2>1. /\ UNCHANGED <<source, due, count, detector, attempt, told, verdicts, split>>
        /\ now' \in Nat
    BY <1>2 DEF Tick, Refresh, DetectorInv, DetectorType
  <2> QED
    BY <2>1, ElsewhereKeeps
<1>3. Next \/ UNCHANGED vars
  BY DEF DetectorsNext, detectorsVars
<1> QED
  BY <1>1, <1>2, <1>3, ReceiveKeeps, JudgeSampleKeeps, JudgeSampleAnewKeeps, ClassifyKeeps,
     EnricherFailsKeeps, CorrelateKeeps, CommitKeeps, CompleteKeeps, GivingUpKeeps DEF Next

\* ToldIsKnown (Detection): when every event is completed the incidents hold a signal's
\* anomaly open if and only if the detector does, whatever failed or crashed on the way,
\* but for an event judged anew by another baseline or let pass after it was judged.
THEOREM TheDetectorKnows == DetectorsSpec => []ToldIsKnown
<1>1. DetectorsInit => DetectorInv
  BY DetectorInvInit DEF DetectorsInit
<1>2. DetectorInv => ToldIsKnown
  BY DEF DetectorInv, CallOK, ToldOK, ToldIsKnown, Follows
<1> QED
  BY <1>1, <1>2, DetectorInvStep, PTL DEF DetectorsSpec

-----------------------------------------------------------------------------
(* Logs                                                                     *)

\* The aggregate that the log at hand was counted in still takes it in.
TakesIn(time, aggregate) == time \in aggregate.last - Window .. aggregate.last + Window

LogInv ==
  /\ logged \subseteq 1..count
  /\ pattern # None =>
       /\ pattern \in Aggregates
       /\ 1 <= pattern.count /\ pattern.count <= Cardinality(logged)
  /\ due # None =>
       /\ due.n = count /\ count >= 1
       /\ due.n \in logged => pattern # None /\ TakesIn(due.time, pattern)

LEMMA Extremes ==
  ASSUME NEW a \in Nat, NEW b \in Nat
  PROVE  /\ Max({a, b}) \in {a, b} /\ Max({a, b}) >= a /\ Max({a, b}) >= b
         /\ Min({a, b}) \in {a, b}
<1>1. \E x \in {a, b} : \A y \in {a, b} : x >= y
  <2>1. CASE a >= b
    BY <2>1
  <2>2. CASE b >= a
    BY <2>2
  <2> QED
    BY <2>1, <2>2
<1>2. \E x \in {a, b} : \A y \in {a, b} : x <= y
  <2>1. CASE a <= b
    BY <2>1
  <2>2. CASE b <= a
    BY <2>2
  <2> QED
    BY <2>1, <2>2
<1>3. Max({a, b}) \in {a, b} /\ \A y \in {a, b} : Max({a, b}) >= y
  BY <1>1, Zenon DEF Max
<1>4. Min({a, b}) \in {a, b} /\ \A y \in {a, b} : Min({a, b}) <= y
  BY <1>2, Zenon DEF Min
<1> QED
  BY <1>3, <1>4

LEMMA LogsAreFinite ==
  ASSUME LogInv, count \in Nat
  PROVE  /\ IsFiniteSet(logged) /\ Cardinality(logged) \in Nat
         /\ \A n : IsFiniteSet(logged \union {n})
         /\ \A n : n \notin logged => Cardinality(logged \union {n}) = Cardinality(logged) + 1
<1>1. IsFiniteSet(1..count)
  BY FS_Interval
<1>2. IsFiniteSet(logged)
  BY <1>1, FS_Subset DEF LogInv
<1> QED
  BY <1>2, FS_CardinalityType, FS_AddElement

LEMMA ClassifyCountsOnce ==
  ASSUME DetectorInv, LogInv, Classify
  PROVE  LogInv'
<1> DEFINE continues == IF pattern = None THEN FALSE ELSE TakesIn(due.time, pattern)
           base == IF continues THEN pattern
                   ELSE [count |-> 0, first |-> due.time, last |-> due.time, pods |-> {}]
<1>1. /\ due \in Samples /\ due # None /\ due' = due /\ count' = count /\ due.n = count
      /\ due.n \in Nat /\ due.time \in Nat /\ due.pod \in Pods /\ count \in Nat /\ Window \in Nat
  BY DetectionAssumption DEF DetectorInv, DetectorType, Classify, LogInv, Samples
<1>2. pattern' = [count |-> base.count + Adds(due), first |-> Min({base.first, due.time}),
                  last |-> Max({base.last, due.time}), pods |-> base.pods \union {due.pod}]
  BY DEF Classify, Aggregated, TakesIn
<1>3. /\ base.count \in Nat /\ base.first \in Nat /\ base.last \in Nat /\ base.pods \in SUBSET Pods
      /\ base.count <= Cardinality(logged)
      /\ TakesIn(due.time, base)
  <2>1. Cardinality(logged) \in Nat
    BY <1>1, LogsAreFinite
  <2>2. CASE continues
    BY <2>2 DEF LogInv, Aggregates
  <2>3. CASE ~continues
    BY <1>1, <2>1, <2>3 DEF TakesIn
  <2> QED
    BY <2>2, <2>3
<1>4. due.n \in logged => base = pattern /\ base.count >= 1
  BY <1>1 DEF LogInv
<1> HIDE DEF base, continues
<1>5. PICK first, last : first = Min({base.first, due.time}) /\ last = Max({base.last, due.time})
  OBVIOUS
<1>6. first \in Nat /\ last \in Nat /\ last \in {base.last, due.time} /\ last >= base.last /\ last >= due.time
  BY <1>1, <1>3, <1>5, Extremes
<1>7. /\ pattern'.count = base.count + Adds(due) /\ pattern'.last = last
      /\ pattern' = [count |-> base.count + Adds(due), first |-> first, last |-> last,
                     pods |-> base.pods \union {due.pod}]
  BY <1>2, <1>5
<1>8. /\ 1 <= pattern'.count /\ pattern'.count <= Cardinality(logged')
      /\ pattern'.count \in Nat
  <2>1. logged' = logged \union {due.n}
    BY DEF Classify
  <2>2. Cardinality(logged) \in Nat
    BY <1>1, LogsAreFinite
  <2>3. CASE due.n \in logged
    <3>1. logged' = logged /\ Adds(due) = 0
      BY <2>1, <2>3 DEF Adds
    <3> QED
      BY <1>3, <1>4, <1>7, <2>2, <2>3, <3>1
  <2>4. CASE due.n \notin logged
    <3>1. Cardinality(logged') = Cardinality(logged) + 1 /\ Adds(due) = 1
      BY <1>1, <2>1, <2>4, LogsAreFinite DEF Adds
    <3> QED
      BY <1>3, <1>7, <2>2, <3>1
  <2> QED
    BY <2>3, <2>4
<1>9. pattern' \in Aggregates
  <2>1. base.pods \union {due.pod} \in SUBSET Pods
    BY <1>1, <1>3
  <2>2. base.count + Adds(due) \in Nat
    BY <1>7, <1>8
  <2> QED
    BY <1>6, <1>7, <2>1, <2>2 DEF Aggregates
<1>10. TakesIn(due.time, pattern')
  BY <1>1, <1>3, <1>6, <1>7 DEF TakesIn
<1>11. logged' \subseteq 1..count' /\ pattern' # None
  <2>1. logged' = logged \union {due.n} /\ due.n \in 1..count
    BY <1>1 DEF Classify, LogInv
  <2> QED
    BY <1>1, <1>9, <2>1, DetectionAssumption DEF LogInv
<1> QED
  BY <1>1, <1>8, <1>9, <1>10, <1>11 DEF LogInv

LEMMA LogInvStep == DetectorInv /\ LogInv /\ [DetectorsNext]_detectorsVars => LogInv'
<1> SUFFICES ASSUME DetectorInv, LogInv, [DetectorsNext]_detectorsVars
             PROVE  LogInv'
  OBVIOUS
<1>1. CASE Receive
  <2>1. /\ due'.n = count + 1 /\ count' = count + 1 /\ logged' = logged /\ pattern' = pattern
        /\ count \in Nat
    BY <1>1 DEF Receive, logs, DetectorInv, DetectorType
  <2>2. logged \subseteq 1..count' /\ due'.n \notin logged
    BY <2>1 DEF LogInv
  <2> QED
    BY <2>1, <2>2 DEF LogInv
<1>2. CASE Classify
  BY <1>2, ClassifyCountsOnce
<1>3. CASE Complete
  BY <1>3 DEF Complete, logs, LogInv
<1>4. CASE UNCHANGED <<logged, pattern, due, count>>
  BY <1>4 DEF LogInv
<1>5. ASSUME \/ Tick \/ Refresh \/ JudgeSample \/ JudgeSampleAnew \/ EnricherFails \/ Correlate
             \/ Commit \/ Rollback \/ Crash \/ UNCHANGED vars
      PROVE  UNCHANGED <<logged, pattern, due, count>>
  BY <1>5 DEF Tick, Refresh, JudgeSample, JudgeSampleAnew, EnricherFails, Correlate, Commit,
     Rollback, Crash, vars, logs
<1>6. Next \/ UNCHANGED vars
  BY DEF DetectorsNext, detectorsVars
<1> QED
  BY <1>1, <1>2, <1>3, <1>4, <1>5, <1>6 DEF Next

\* EachLogCountsOnce (Detection): however often a log is delivered, and whatever failed
\* after it was counted, the aggregate of its pattern counts it once, and is of one log
\* at least.
THEOREM LogsCountOnce == DetectorsSpec => []EachLogCountsOnce
<1>1. DetectorsInit => DetectorInv /\ LogInv
  <2>1. Init => LogInv
    BY DEF Init, LogInv
  <2> QED
    BY <2>1, DetectorInvInit DEF DetectorsInit
<1>2. LogInv => EachLogCountsOnce
  BY DEF LogInv, EachLogCountsOnce
<1> QED
  BY <1>1, <1>2, DetectorInvStep, LogInvStep, PTL DEF DetectorsSpec

-----------------------------------------------------------------------------
(* Baselines                                                                *)

\* What is cached as READY was so, and no longer than a baseline is cached.
CacheInv ==
  /\ now \in Nat /\ readyAt \in Int /\ readyAt <= now
  /\ cache.expires \in Nat /\ cache.ready \in BOOLEAN
  /\ cache.ready => LastReady >= 0 /\ cache.expires <= LastReady + Ttl

LEMMA ReadinessStep ==
  ASSUME CacheInv, now' \in Nat, now' >= now, readyAt' = LastReady, cache' = cache
  PROVE  CacheInv'
<1>1. LastReady \in Int /\ LastReady <= now /\ (LastReady' = now' \/ LastReady' = LastReady)
  BY DEF CacheInv, LastReady
<1>2. LastReady' >= LastReady /\ LastReady' \in Int
  BY <1>1 DEF CacheInv
<1> QED
  BY <1>1, <1>2, DetectionAssumption DEF CacheInv

\* What is looked up is what is cached, or is read from what is stored.
Looks(looked) ==
  \/ looked = cache /\ cache.expires > now
  \/ looked = [expires |-> now + Ttl, ready |-> Ready(stored)]
  \/ looked = [expires |-> now + FailureTtl, ready |-> FALSE]

LEMMA AnewLooks ==
  ASSUME JudgeSampleAnew
  PROVE  /\ \E looked : /\ Looks(looked) /\ cache' = looked
                        /\ mem' = Detect(Memory, due, looked.ready).memory
         /\ UNCHANGED <<now, stored, readyAt>>
<1>1. PICK looked \in Lookups \union {FailedLookup} :
        cache' = looked /\ mem' = Detect(Memory, due, looked.ready).memory
  BY DEF JudgeSampleAnew
<1>2. Looks(looked)
  BY <1>1 DEF Looks, Lookups, FailedLookup
<1> QED
  BY <1>1, <1>2 DEF JudgeSampleAnew

LEMMA CacheInvStep == CacheInv /\ [DetectorsNext]_detectorsVars => CacheInv'
<1> SUFFICES ASSUME CacheInv, [DetectorsNext]_detectorsVars
             PROVE  CacheInv'
  OBVIOUS
<1>1. CASE Tick \/ Refresh
  BY <1>1, ReadinessStep DEF Tick, Refresh, RefreshSaves, RefreshSkips, DeleteStale, RefreshFails,
     baselines, CacheInv
<1>2. CASE JudgeSampleAnew
  <2>1. PICK looked : Looks(looked) /\ cache' = looked
    BY <1>2, AnewLooks
  <2>2. UNCHANGED <<now, stored, readyAt>> /\ Ready(stored) \in BOOLEAN
    BY <1>2, AnewLooks DEF Ready
  <2>3. LastReady' = LastReady
    BY <2>2 DEF LastReady, Ready
  <2>4. CASE looked = cache
    BY <2>1, <2>2, <2>3, <2>4 DEF CacheInv
  <2>5. CASE looked = [expires |-> now + Ttl, ready |-> Ready(stored)]
    <3>1. cache'.expires = now + Ttl /\ cache'.ready = Ready(stored)
      BY <2>1, <2>5
    <3>2. Ready(stored) => LastReady = now
      BY DEF LastReady
    <3>3. now' = now /\ readyAt' = readyAt /\ now \in Nat /\ now + Ttl \in Nat
      BY <2>2, DetectionAssumption DEF CacheInv
    <3>4. cache'.ready => LastReady' >= 0 /\ cache'.expires <= LastReady' + Ttl
      BY <2>3, <3>1, <3>2, <3>3
    <3> QED
      BY <2>2, <3>1, <3>3, <3>4 DEF CacheInv
  <2>6. CASE looked = [expires |-> now + FailureTtl, ready |-> FALSE]
    <3>1. cache'.expires = now + FailureTtl /\ cache'.ready = FALSE
      BY <2>1, <2>6
    <3>2. now' = now /\ readyAt' = readyAt /\ now \in Nat /\ now + FailureTtl \in Nat
      BY <2>2, DetectionAssumption DEF CacheInv
    <3> QED
      BY <3>1, <3>2 DEF CacheInv
  <2> QED
    BY <2>1, <2>4, <2>5, <2>6 DEF Looks
<1>3. CASE Crash
  BY <1>3 DEF Crash, history, CacheInv
<1>4. CASE UNCHANGED <<now, stored, cache, readyAt>>
  BY <1>4 DEF CacheInv, LastReady, Ready
<1>5. ASSUME \/ Receive \/ JudgeSample \/ Classify \/ EnricherFails \/ Correlate
             \/ Commit \/ Complete \/ Rollback \/ UNCHANGED vars
      PROVE  UNCHANGED <<now, stored, cache, readyAt>>
  BY <1>5 DEF Receive, JudgeSample, Classify, EnricherFails, Correlate, Commit, Complete,
     Rollback, vars, baselines, history
<1>6. Next \/ UNCHANGED vars
  BY DEF DetectorsNext, detectorsVars
<1> QED
  BY <1>1, <1>2, <1>3, <1>4, <1>5, <1>6 DEF Next

LEMMA OpensOnReady ==
  ASSUME DetectorInv, CacheInv, JudgeSampleAnew, NEW p \in Pods,
         Memory.signals[p].anomaly = None, mem'.signals[p].anomaly # None
  PROVE  LastReady >= 0 /\ now - LastReady < Max({Ttl, 1})
<1>1. PICK looked : Looks(looked) /\ mem' = Detect(Memory, due, looked.ready).memory
  BY AnewLooks
<1>2. Memory \in Memories /\ due \in Samples
  BY DEF DetectorInv, DetectorType, Memory, JudgeSampleAnew
<1>3. looked.ready
  <2>1. CASE ~looked.ready
    <3>1. Detect(Memory, due, looked.ready).memory.signals = Memory.signals
      BY <1>2, <2>1, DetectSays
    <3> QED
      BY <1>1, <3>1
  <2> QED
    BY <2>1
<1>4. Max({Ttl, 1}) >= Ttl /\ Max({Ttl, 1}) >= 1 /\ Ttl \in Nat /\ Max({Ttl, 1}) \in Nat
  BY Extremes, DetectionAssumption
<1>5. CASE looked = cache /\ cache.expires > now
  <2>1. LastReady \in Int
    BY DEF CacheInv, LastReady
  <2> QED
    BY <1>3, <1>4, <1>5, <2>1 DEF CacheInv
<1>6. CASE looked = [expires |-> now + Ttl, ready |-> Ready(stored)]
  <2>1. LastReady = now
    BY <1>3, <1>6 DEF LastReady
  <2> QED
    BY <1>4, <2>1 DEF CacheInv
<1>7. CASE looked = [expires |-> now + FailureTtl, ready |-> FALSE]
  BY <1>3, <1>7
<1> QED
  BY <1>1, <1>5, <1>6, <1>7 DEF Looks

\* JudgedByRecentBaseline (Detection): no anomaly opens on a baseline that has been gone,
\* or was no longer READY, for the time a look-up may be cached, however refresh cycles,
\* look-ups that fail and crashes interleave.
THEOREM OpensOnRecentBaseline == DetectorsSpec => JudgedByRecentBaseline
<1>1. DetectorsInit => DetectorInv /\ CacheInv
  <2>1. Init => CacheInv
    BY DEF Init, CacheInv
  <2> QED
    BY <2>1, DetectorInvInit DEF DetectorsInit
<1>2. DetectorInv /\ CacheInv =>
        [\A p \in Pods :
           (/\ JudgeSampleAnew
            /\ Memory.signals[p].anomaly = None /\ mem'.signals[p].anomaly # None) =>
             LastReady >= 0 /\ now - LastReady < Max({Ttl, 1})]_vars
  BY OpensOnReady
<1> QED
  BY <1>1, <1>2, DetectorInvStep, CacheInvStep, PTL DEF DetectorsSpec, JudgedByRecentBaseline

-----------------------------------------------------------------------------
(* Rules                                                                    *)

\* Every rule is shown its condition and health by samples of one series.
OneSeriesEach ==
  \A r \in Lifecycle!Rules : \A e, f \in Lifecycle!Entries :
    Telemetry[e].signal[r] # "silent" /\ Telemetry[f].signal[r] # "silent" =>
      Telemetry[e].series = Telemetry[f].series

Highs(m, r) ==
  {e \in Lifecycle!Showing(m.seen, r, "high") :
     Telemetry[e].time \in m.condition[r].since .. m.condition[r].last}

\* A condition that lasts was shown by as many samples as were counted, the first of
\* them when it began, and health was not shown since.
Sustained(m, r) ==
  /\ m.condition[r].since <= m.condition[r].last
  /\ m.condition[r].count <= Cardinality(Highs(m, r))
  /\ \E e \in Highs(m, r) : Telemetry[e].time = m.condition[r].since
  /\ \A e \in Lifecycle!Showing(m.seen, r, "normal") :
       Telemetry[e].time <= m.condition[r].since

EngineOK(m) ==
  /\ m.seen \subseteq Lifecycle!Entries
  /\ m.watermark \in [Series -> Nat]
  /\ m.condition \in [Lifecycle!Rules -> Lifecycle!Condition]
  /\ \A e \in m.seen : Telemetry[e].time <= m.watermark[Telemetry[e].series]
  /\ \A r \in Lifecycle!Rules :
       /\ \A e \in Lifecycle!Entries :
            Telemetry[e].signal[r] # "silent" =>
              m.condition[r].last <= m.watermark[Telemetry[e].series]
       /\ m.condition[r].active => Sustained(m, r)

LEMMA SampleParts ==
  ASSUME NEW e \in Lifecycle!Entries
  PROVE  /\ Telemetry[e].time \in Nat \ {0} /\ Telemetry[e].series \in Series
         /\ \A r \in Lifecycle!Rules : Telemetry[e].signal[r] \in {"high", "normal", "silent"}
<1>1. Telemetry[e] \in Lifecycle!Events
  BY DetectorsAssumption DEF Lifecycle!Entries
<1> QED
  BY <1>1 DEF Lifecycle!Events, Lifecycle!Signals

LEMMA SeenIsFinite ==
  ASSUME NEW S \in SUBSET Lifecycle!Entries
  PROVE  IsFiniteSet(S) /\ Cardinality(S) \in Nat
<1>1. Lifecycle!Entries = 1..Len(Telemetry) /\ Len(Telemetry) \in Nat
  BY DetectorsAssumption DEF Lifecycle!Entries
<1>2. IsFiniteSet(1..Len(Telemetry))
  BY <1>1, FS_Interval
<1> QED
  BY <1>1, <1>2, FS_Subset, FS_CardinalityType

\* What a sample that is not ignored makes of the condition of a rule.
Kept(m, e, r, after) ==
  Telemetry[e].signal[r] = "silent" /\ after = m.condition[r]
Ended(e, r, after) ==
  /\ Telemetry[e].signal[r] = "normal" /\ ~after.active
  /\ after.last = Telemetry[e].time
Extended(m, e, r, after) ==
  /\ Telemetry[e].signal[r] = "high"
  /\ after.active /\ after.last = Telemetry[e].time
  /\ IF m.condition[r].active
     THEN after.count = m.condition[r].count + 1 /\ after.since = m.condition[r].since
     ELSE after.count = 1 /\ after.since = Telemetry[e].time

LEMMA ObservingDoes ==
  ASSUME NEW m, EngineOK(m), NEW e \in Lifecycle!Entries, ~Lifecycle!Ignored(m, e),
         NEW r \in Lifecycle!Rules, NEW after,
         after = Lifecycle!Observe(m.condition[r], Telemetry[e].signal[r], Telemetry[e].time)
  PROVE  /\ after \in Lifecycle!Condition
         /\ Kept(m, e, r, after) \/ Ended(e, r, after) \/ Extended(m, e, r, after)
<1> DEFINE c == m.condition[r]
           t == Telemetry[e].time
           signal == Telemetry[e].signal[r]
<1>1. c \in Lifecycle!Condition /\ t \in Nat /\ signal \in {"high", "normal", "silent"}
  BY SampleParts DEF EngineOK
<1>2. signal # "silent" => ~(t < c.last)
  <2>1. ~(t < m.watermark[Telemetry[e].series])
    BY DEF Lifecycle!Ignored
  <2>2. signal # "silent" => c.last <= m.watermark[Telemetry[e].series]
    BY DEF EngineOK
  <2>3. m.watermark[Telemetry[e].series] \in Nat /\ c.last \in Nat
    BY <1>1, SampleParts DEF EngineOK, Lifecycle!Condition
  <2> QED
    BY <1>1, <2>1, <2>2, <2>3
<1>3. CASE signal = "silent"
  BY <1>1, <1>3 DEF Lifecycle!Observe, Kept
<1>4. CASE signal = "normal"
  <2>1. after = [active |-> FALSE, count |-> 0, since |-> t, last |-> t]
    BY <1>2, <1>4 DEF Lifecycle!Observe
  <2>2. after.active = FALSE /\ after.last = t
    BY <2>1
  <2>3. after \in Lifecycle!Condition
    BY <1>1, <2>1 DEF Lifecycle!Condition
  <2> QED
    BY <1>4, <2>2, <2>3 DEF Ended
<1>5. CASE signal = "high"
  <2>1. after = [active |-> TRUE, count |-> IF c.active THEN c.count + 1 ELSE 1,
                 since |-> IF c.active THEN c.since ELSE t, last |-> t]
    BY <1>2, <1>5 DEF Lifecycle!Observe
  <2>2. c.count \in Nat /\ c.since \in Nat
    BY <1>1 DEF Lifecycle!Condition
  <2>3. /\ after.active = TRUE /\ after.last = t
        /\ after.count = IF c.active THEN c.count + 1 ELSE 1
        /\ after.since = IF c.active THEN c.since ELSE t
    BY <2>1
  <2>4. after \in Lifecycle!Condition
    BY <1>1, <2>1, <2>2 DEF Lifecycle!Condition
  <2> QED
    BY <1>5, <2>3, <2>4 DEF Extended
<1> QED
  BY <1>1, <1>3, <1>4, <1>5

Fed(m, e, next) ==
  /\ next.seen = m.seen \union {e}
  /\ next.watermark = [m.watermark EXCEPT ![Telemetry[e].series] = Telemetry[e].time]
  /\ next.condition =
       [r \in Lifecycle!Rules |->
          Lifecycle!Observe(m.condition[r], Telemetry[e].signal[r], Telemetry[e].time)]

LEMMA SustainedStep ==
  ASSUME OneSeriesEach, NEW m, EngineOK(m), NEW e \in Lifecycle!Entries, ~Lifecycle!Ignored(m, e),
         NEW next, Fed(m, e, next), NEW r \in Lifecycle!Rules, next.condition[r].active
  PROVE  Sustained(next, r)
<1> DEFINE c == m.condition[r]
           d == next.condition[r]
           t == Telemetry[e].time
<1>1. /\ d \in Lifecycle!Condition
      /\ Kept(m, e, r, d) \/ Ended(e, r, d) \/ Extended(m, e, r, d)
  <2>1. d = Lifecycle!Observe(m.condition[r], Telemetry[e].signal[r], Telemetry[e].time)
    BY DEF Fed
  <2> HIDE DEF d
  <2> QED
    BY <2>1, ObservingDoes
<1>2. /\ e \notin m.seen /\ next.seen = m.seen \union {e} /\ m.seen \subseteq Lifecycle!Entries
      /\ c \in Lifecycle!Condition /\ t \in Nat
  BY SampleParts DEF Lifecycle!Ignored, Fed, EngineOK
<1>3. PICK H : H = Highs(m, r)
  OBVIOUS
<1>4. PICK I : I = Highs(next, r)
  OBVIOUS
<1>5. \A x \in Lifecycle!Entries : Telemetry[x].time \in Nat
  BY SampleParts
<1>6. /\ c.since \in Nat /\ c.last \in Nat /\ c.count \in Nat
      /\ d.since \in Nat /\ d.last \in Nat /\ d.count \in Nat
  BY <1>1, <1>2 DEF Lifecycle!Condition
<1>7. H \in SUBSET m.seen /\ I \in SUBSET Lifecycle!Entries
  BY <1>2, <1>3, <1>4 DEF Highs, Lifecycle!Showing
<1>8. /\ IsFiniteSet(H) /\ Cardinality(H) \in Nat /\ IsFiniteSet(I) /\ Cardinality(I) \in Nat
      /\ \A S \in SUBSET I : Cardinality(S) <= Cardinality(I)
  BY <1>2, <1>7, SeenIsFinite, FS_Subset
<1>9. CASE Kept(m, e, r, d)
  <2>1. d = c /\ Telemetry[e].signal[r] = "silent"
    BY <1>9 DEF Kept
  <2>2. /\ Lifecycle!Showing(next.seen, r, "high") = Lifecycle!Showing(m.seen, r, "high")
        /\ Lifecycle!Showing(next.seen, r, "normal") = Lifecycle!Showing(m.seen, r, "normal")
    BY <1>2, <2>1 DEF Lifecycle!Showing
  <2>3. Sustained(m, r)
    BY <2>1 DEF EngineOK
  <2> QED
    BY <2>1, <2>2, <2>3 DEF Sustained, Highs
<1>10. CASE Extended(m, e, r, d)
  <2>1. Telemetry[e].signal[r] = "high" /\ d.last = t
    BY <1>10 DEF Extended
  <2>2. /\ Lifecycle!Showing(next.seen, r, "high") = Lifecycle!Showing(m.seen, r, "high") \union {e}
        /\ Lifecycle!Showing(next.seen, r, "normal") = Lifecycle!Showing(m.seen, r, "normal")
    BY <1>2, <2>1 DEF Lifecycle!Showing
  <2>3. c.last <= t
    <3>1. c.last <= m.watermark[Telemetry[e].series]
      BY <2>1 DEF EngineOK
    <3>2. ~(t < m.watermark[Telemetry[e].series]) /\ m.watermark[Telemetry[e].series] \in Nat
      BY SampleParts DEF Lifecycle!Ignored, EngineOK
    <3> QED
      BY <1>2, <1>6, <3>1, <3>2
  <2>4. CASE c.active
    <3>1. d.count = c.count + 1 /\ d.since = c.since
      BY <1>10, <2>4 DEF Extended
    <3>2. Sustained(m, r)
      BY <2>4 DEF EngineOK
    <3>3. c.since <= c.last /\ c.count <= Cardinality(H)
      BY <1>3, <3>2 DEF Sustained
    <3>4. e \in I
      <4>1. t \in d.since..d.last
        BY <1>2, <1>6, <2>1, <2>3, <3>1, <3>3
      <4> QED
        BY <1>4, <2>2, <4>1 DEF Highs
    <3>5. H \subseteq I
      BY <1>2, <1>3, <1>4, <1>5, <1>6, <2>1, <2>2, <2>3, <3>1 DEF Highs, Lifecycle!Showing
    <3>6. Cardinality(H \union {e}) = Cardinality(H) + 1
      BY <1>2, <1>7, <1>8, FS_AddElement
    <3>7. d.count <= Cardinality(I)
      <4>1. Cardinality(H \union {e}) <= Cardinality(I)
        BY <1>8, <3>4, <3>5
      <4> QED
        BY <1>6, <1>8, <3>1, <3>3, <3>6, <4>1
    <3>8. \E x \in I : Telemetry[x].time = d.since
      BY <1>3, <3>1, <3>2, <3>5 DEF Sustained
    <3>9. \A x \in Lifecycle!Showing(next.seen, r, "normal") : Telemetry[x].time <= d.since
      BY <2>2, <3>1, <3>2 DEF Sustained
    <3>10. d.since <= d.last
      BY <1>6, <2>1, <2>3, <3>1, <3>3
    <3> QED
      BY <1>4, <3>7, <3>8, <3>9, <3>10 DEF Sustained
  <2>5. CASE ~c.active
    <3>1. d.count = 1 /\ d.since = t
      BY <1>10, <2>5 DEF Extended
    <3>2. e \in I
      <4>1. t \in d.since..d.last
        BY <1>2, <1>6, <2>1, <3>1
      <4> QED
        BY <1>4, <2>2, <4>1 DEF Highs
    <3>3. d.count <= Cardinality(I)
      <4>1. Cardinality(I) # 0
        BY <1>8, <3>2, FS_EmptySet
      <4> QED
        BY <1>8, <3>1, <4>1
    <3>4. ASSUME NEW x \in Lifecycle!Showing(next.seen, r, "normal")
          PROVE  Telemetry[x].time <= d.since
      <4>1. x \in m.seen /\ x \in Lifecycle!Entries /\ Telemetry[x].signal[r] = "normal"
        BY <1>2, <2>2 DEF Lifecycle!Showing
      <4>2. Telemetry[x].series = Telemetry[e].series
        BY <2>1, <4>1 DEF OneSeriesEach
      <4>3. Telemetry[x].time <= m.watermark[Telemetry[e].series]
        BY <4>1, <4>2 DEF EngineOK
      <4>4. ~(t < m.watermark[Telemetry[e].series]) /\ m.watermark[Telemetry[e].series] \in Nat
        BY SampleParts DEF Lifecycle!Ignored, EngineOK
      <4> QED
        BY <1>2, <1>5, <3>1, <4>1, <4>3, <4>4
    <3>5. d.since <= d.last /\ Telemetry[e].time = d.since
      BY <1>6, <2>1, <3>1
    <3> QED
      BY <1>4, <3>2, <3>3, <3>4, <3>5 DEF Sustained
  <2> QED
    BY <2>4, <2>5
<1>11. ~Ended(e, r, d)
  BY DEF Ended
<1> QED
  BY <1>1, <1>9, <1>10, <1>11

LEMMA FedIsOK ==
  ASSUME OneSeriesEach, NEW m, EngineOK(m), NEW e \in Lifecycle!Entries, ~Lifecycle!Ignored(m, e),
         NEW next, Fed(m, e, next)
  PROVE  EngineOK(next)
<1> DEFINE s == Telemetry[e].series
           t == Telemetry[e].time
<1>1. /\ s \in Series /\ t \in Nat /\ m.watermark \in [Series -> Nat] /\ ~(t < m.watermark[s])
      /\ next.seen = m.seen \union {e} /\ m.seen \subseteq Lifecycle!Entries
  BY SampleParts DEF EngineOK, Lifecycle!Ignored, Fed
<1>2. /\ next.watermark \in [Series -> Nat] /\ next.watermark[s] = t
      /\ \A x \in Series : next.watermark[x] >= m.watermark[x]
  BY <1>1 DEF Fed
<1>3. \A r \in Lifecycle!Rules :
        /\ next.condition[r] \in Lifecycle!Condition
        /\ \/ Kept(m, e, r, next.condition[r]) \/ Ended(e, r, next.condition[r])
           \/ Extended(m, e, r, next.condition[r])
  BY ObservingDoes DEF Fed
<1>4. next.condition \in [Lifecycle!Rules -> Lifecycle!Condition]
  BY <1>3 DEF Fed
<1>5. ASSUME NEW x \in next.seen
      PROVE  Telemetry[x].time <= next.watermark[Telemetry[x].series]
  <2>1. x \in Lifecycle!Entries
    BY <1>1
  <2>2. Telemetry[x].time \in Nat /\ Telemetry[x].series \in Series
    BY <2>1, SampleParts
  <2>3. CASE x = e
    BY <1>1, <1>2, <2>3
  <2>4. CASE x \in m.seen
    <3>1. Telemetry[x].time <= m.watermark[Telemetry[x].series]
      BY <2>4 DEF EngineOK
    <3>2. m.watermark[Telemetry[x].series] \in Nat /\ next.watermark[Telemetry[x].series] \in Nat
      BY <1>1, <1>2, <2>2
    <3> QED
      BY <1>2, <2>2, <3>1, <3>2
  <2> QED
    BY <1>1, <2>3, <2>4
<1>6. ASSUME NEW r \in Lifecycle!Rules, NEW x \in Lifecycle!Entries,
             Telemetry[x].signal[r] # "silent"
      PROVE  next.condition[r].last <= next.watermark[Telemetry[x].series]
  <2>1. Telemetry[x].series \in Series
    BY SampleParts
  <2>2. CASE Kept(m, e, r, next.condition[r])
    <3>1. m.condition[r].last <= m.watermark[Telemetry[x].series] /\ m.condition[r] \in Lifecycle!Condition
      BY <1>6 DEF EngineOK
    <3>2. next.condition[r].last = m.condition[r].last /\ m.condition[r].last \in Nat
      BY <2>2, <3>1 DEF Kept, Lifecycle!Condition
    <3>3. m.watermark[Telemetry[x].series] \in Nat /\ next.watermark[Telemetry[x].series] \in Nat
      BY <1>1, <1>2, <2>1
    <3> QED
      BY <1>2, <2>1, <3>1, <3>2, <3>3
  <2>3. CASE Ended(e, r, next.condition[r]) \/ Extended(m, e, r, next.condition[r])
    <3>1. next.condition[r].last = t /\ Telemetry[e].signal[r] # "silent"
      BY <2>3 DEF Ended, Extended
    <3>2. Telemetry[x].series = s
      BY <1>6, <3>1 DEF OneSeriesEach
    <3> QED
      BY <1>1, <1>2, <3>1, <3>2
  <2> QED
    BY <1>3, <2>2, <2>3
<1>7. \A r \in Lifecycle!Rules : next.condition[r].active => Sustained(next, r)
  BY SustainedStep
<1> QED
  BY <1>1, <1>2, <1>4, <1>5, <1>6, <1>7 DEF EngineOK

LEMMA EvaluatingDoes ==
  ASSUME OneSeriesEach, EngineOK(memory), NEW e \in Lifecycle!Entries,
         NEW result, result = Lifecycle!Evaluate(memory, e)
  PROVE  /\ EngineOK(result.memory)
         /\ \A i \in DOMAIN result.emitted : result.emitted[i].status = "OPEN" =>
              \E r \in Lifecycle!Rules : \E c :
                /\ c = result.memory.condition[r] /\ c.active
                /\ c.last = Telemetry[e].time /\ c.count >= ObservationsNeeded[r]
                /\ c.last - c.since >= DurationNeeded[r]
                /\ result.emitted[i].id = <<r, Telemetry[e].time>>
<1>1. CASE Lifecycle!Ignored(memory, e)
  <2>1. result = [memory |-> memory, emitted |-> <<>>]
    BY <1>1 DEF Lifecycle!Evaluate
  <2> QED
    BY <2>1
<1>2. CASE ~Lifecycle!Ignored(memory, e)
  <2> DEFINE event == Telemetry[e]
             observed == [r \in Lifecycle!Rules |->
                            Lifecycle!Observe(memory.condition[r], event.signal[r], event.time)]
             verdict == [r \in Lifecycle!Rules |-> Lifecycle!Verdict(r, event.signal[r], observed[r])]
             out == [r \in Lifecycle!Rules |->
                       Lifecycle!Emitted(r, memory.active[r], verdict[r], event.time)]
             spoken == {r \in Lifecycle!Rules : out[r] # <<>>}
             follows == [seen |-> memory.seen \union {e},
                         watermark |-> [memory.watermark EXCEPT ![event.series] = event.time],
                         condition |-> observed,
                         active |-> [r \in Lifecycle!Rules |->
                                       Lifecycle!Lifecycle(r, memory.active[r], verdict[r], event.time)]]
  <2>1. result = [memory |-> follows, emitted |-> [r \in spoken |-> out[r][1]]]
    BY <1>2 DEF Lifecycle!Evaluate
  <2>2. Fed(memory, e, follows)
    BY DEF Fed
  <2>3. EngineOK(follows)
    <3> HIDE DEF follows
    <3> QED
      BY <1>2, <2>2, FedIsOK
  <2>4. ASSUME NEW i \in DOMAIN result.emitted, result.emitted[i].status = "OPEN"
        PROVE  \E r \in Lifecycle!Rules : \E c :
                 /\ c = result.memory.condition[r] /\ c.active
                 /\ c.last = Telemetry[e].time /\ c.count >= ObservationsNeeded[r]
                 /\ c.last - c.since >= DurationNeeded[r]
                 /\ result.emitted[i].id = <<r, Telemetry[e].time>>
    <3>1. i \in Lifecycle!Rules /\ out[i] # <<>> /\ result.emitted[i] = out[i][1]
      BY <2>1
    <3>2. out[i] = Lifecycle!Emitted(i, memory.active[i], verdict[i], event.time)
      BY <3>1
    <3>3. verdict[i] = "match" /\ result.emitted[i].id = <<i, event.time>>
      <4> HIDE DEF out, verdict
      <4>1. \/ verdict[i] = "match" /\ out[i] = <<[id |-> <<i, event.time>>, status |-> "OPEN"]>>
            \/ \E id : out[i] = <<[id |-> id, status |-> "ACTIVE"]>>
            \/ \E id : out[i] = <<[id |-> id, status |-> "RESOLVED"]>>
        BY <3>1, <3>2 DEF Lifecycle!Emitted
      <4>2. ASSUME NEW id, NEW st, st # "OPEN", out[i] = <<[id |-> id, status |-> st]>>
            PROVE  FALSE
        <5>1. result.emitted[i] = [id |-> id, status |-> st]
          BY <3>1, <4>2
        <5> QED
          BY <2>4, <4>2, <5>1
      <4>3. verdict[i] = "match" /\ out[i] = <<[id |-> <<i, event.time>>, status |-> "OPEN"]>>
        <5>1. "ACTIVE" # "OPEN" /\ "RESOLVED" # "OPEN"
          OBVIOUS
        <5> QED
          BY <4>1, <4>2, <5>1
      <4>4. result.emitted[i] = [id |-> <<i, event.time>>, status |-> "OPEN"]
        BY <3>1, <4>3
      <4> QED
        BY <4>3, <4>4
    <3>4. /\ event.signal[i] = "high" /\ observed[i].count >= ObservationsNeeded[i]
          /\ observed[i].last - observed[i].since >= DurationNeeded[i]
      <4>1. verdict[i] = Lifecycle!Verdict(i, event.signal[i], observed[i])
        BY <3>1
      <4> HIDE DEF verdict, observed
      <4> QED
        BY <3>3, <4>1 DEF Lifecycle!Verdict
    <3>5. PICK c : c = observed[i]
      OBVIOUS
    <3>6. c = Lifecycle!Observe(memory.condition[i], Telemetry[e].signal[i], Telemetry[e].time)
      BY <3>1, <3>5
    <3>7. Kept(memory, e, i, c) \/ Ended(e, i, c) \/ Extended(memory, e, i, c)
      BY <1>2, <3>1, <3>6, ObservingDoes
    <3>8. Extended(memory, e, i, c)
      BY <3>4, <3>7 DEF Kept, Ended
    <3>9. c.active /\ c.last = Telemetry[e].time
      BY <3>8 DEF Extended
    <3>10. result.memory.condition[i] = c
      BY <2>1, <3>5
    <3> HIDE DEF observed
    <3> QED
      BY <3>1, <3>3, <3>4, <3>5, <3>9, <3>10
  <2>5. result.memory = follows
    BY <2>1
  <2> HIDE DEF follows
  <2> QED
    BY <2>3, <2>4, <2>5
<1> QED
  BY <1>1, <1>2

LEMMA EngineOKInit == Lifecycle!Init => EngineOK(memory)
<1> SUFFICES ASSUME Lifecycle!Init
             PROVE  EngineOK(memory)
  OBVIOUS
<1>1. memory = Lifecycle!EmptyMemory
  BY DEF Lifecycle!Init
<1>2. Lifecycle!NoCondition \in Lifecycle!Condition
  BY DEF Lifecycle!NoCondition, Lifecycle!Condition
<1>3. /\ memory.seen = {} /\ memory.watermark = [s \in Series |-> 0]
      /\ memory.condition = [r \in Lifecycle!Rules |-> Lifecycle!NoCondition]
  BY <1>1 DEF Lifecycle!EmptyMemory
<1>4. \A e \in Lifecycle!Entries : Telemetry[e].series \in Series
  BY SampleParts
<1>5. Lifecycle!NoCondition.last = 0 /\ Lifecycle!NoCondition.active = FALSE
  BY DEF Lifecycle!NoCondition
<1> QED
  BY <1>2, <1>3, <1>4, <1>5 DEF EngineOK

LEMMA EngineOKStep ==
  ASSUME OneSeriesEach, EngineOK(memory), [DetectorsNext]_detectorsVars
  PROVE  EngineOK(memory')
<1>1. CASE UNCHANGED ruleVars
  BY <1>1 DEF ruleVars
<1>2. ASSUME NEW e \in Lifecycle!Entries, Lifecycle!Feed(e)
      PROVE  EngineOK(memory')
  BY <1>2, EvaluatingDoes DEF Lifecycle!Feed
<1>3. Lifecycle!Next \/ UNCHANGED ruleVars
  BY DEF DetectorsNext, detectorsVars
<1> QED
  BY <1>1, <1>2, <1>3 DEF Lifecycle!Next

\* An anomaly that opens was shown as HeldThroughout says.
Held(m, a) ==
  \E start \in Lifecycle!Times :
    LET high == {e \in Lifecycle!Showing(m.seen, a[1], "high") :
                   Telemetry[e].time \in start..a[2]}
    IN  /\ Lifecycle!Cardinality(high) >= ObservationsNeeded[a[1]]
        /\ \E e \in high : Telemetry[e].time + DurationNeeded[a[1]] <= a[2]
        /\ \A e \in Lifecycle!Showing(m.seen, a[1], "normal") :
             Telemetry[e].time \notin (start + 1)..(a[2] - 1)

LEMMA SameCardinality == \A S : Lifecycle!Cardinality(S) = Cardinality(S)
BY DEF Lifecycle!Cardinality, Cardinality

LEMMA SustainedIsHeld ==
  ASSUME NEW m, EngineOK(m), NEW r \in Lifecycle!Rules, NEW c, c = m.condition[r], c.active,
         c.count >= ObservationsNeeded[r], c.last - c.since >= DurationNeeded[r]
  PROVE  Held(m, <<r, c.last>>)
<1>1. c \in Lifecycle!Condition /\ Sustained(m, r) /\ m.seen \subseteq Lifecycle!Entries
  BY DEF EngineOK
<1>2. c.since \in Nat /\ c.last \in Nat /\ c.count \in Nat
  BY <1>1 DEF Lifecycle!Condition
<1>3. PICK H : H = Highs(m, r)
  OBVIOUS
<1>4. H = {e \in Lifecycle!Showing(m.seen, r, "high") : Telemetry[e].time \in c.since..c.last}
  BY <1>3 DEF Highs
<1>5. PICK first \in H : Telemetry[first].time = c.since
  BY <1>1, <1>3 DEF Sustained
<1>6. first \in Lifecycle!Entries
  BY <1>1, <1>4, <1>5 DEF Lifecycle!Showing
<1>7. c.since \in Lifecycle!Times
  BY <1>5, <1>6 DEF Lifecycle!Times
<1>8. ObservationsNeeded[r] \in Nat /\ DurationNeeded[r] \in Nat
  BY DetectorsAssumption
<1>9. Lifecycle!Cardinality(H) >= ObservationsNeeded[r]
  <2>1. H \in SUBSET Lifecycle!Entries
    BY <1>1, <1>4 DEF Lifecycle!Showing
  <2>2. Cardinality(H) \in Nat
    BY <2>1, SeenIsFinite
  <2>3. c.count <= Cardinality(H)
    BY <1>1, <1>3 DEF Sustained
  <2> QED
    BY <1>2, <1>8, <2>2, <2>3, SameCardinality
<1>10. Telemetry[first].time + DurationNeeded[r] <= c.last
  BY <1>2, <1>5, <1>8
<1>11. ASSUME NEW e \in Lifecycle!Showing(m.seen, r, "normal")
       PROVE  Telemetry[e].time \notin (c.since + 1)..(c.last - 1)
  <2>1. Telemetry[e].time <= c.since
    BY <1>1 DEF Sustained
  <2>2. e \in Lifecycle!Entries
    BY <1>1 DEF Lifecycle!Showing
  <2>3. Telemetry[e].time \in Nat
    BY <2>2, SampleParts
  <2> QED
    BY <1>2, <2>1, <2>3
<1> QED
  BY <1>4, <1>5, <1>7, <1>9, <1>10, <1>11 DEF Held

LEMMA OpenIsHeld ==
  ASSUME OneSeriesEach, EngineOK(memory), Lifecycle!Next, NEW a \in Lifecycle!AnomalyIds,
         status[a] # "OPEN", status'[a] = "OPEN"
  PROVE  Held(memory', a)
<1>1. PICK e \in Lifecycle!Entries : Lifecycle!Feed(e)
  BY DEF Lifecycle!Next
<1>2. PICK result : result = Lifecycle!Evaluate(memory, e)
  OBVIOUS
<1>3. PICK tells : tells = {result.emitted[i] : i \in DOMAIN result.emitted}
  OBVIOUS
<1>4. /\ memory' = result.memory
      /\ status'[a] = IF \E o \in tells : o.id = a THEN (CHOOSE o \in tells : o.id = a).status
                      ELSE status[a]
  BY <1>1, <1>2, <1>3 DEF Lifecycle!Feed
<1>5. PICK o \in tells : o.id = a /\ o.status = "OPEN"
  <2>1. \E o \in tells : o.id = a
    BY <1>4
  <2>2. PICK o : o = CHOOSE x \in tells : x.id = a
    OBVIOUS
  <2>3. o \in tells /\ o.id = a
    BY <2>1, <2>2, Zenon
  <2> QED
    BY <1>4, <2>1, <2>2, <2>3
<1>6. PICK i \in DOMAIN result.emitted : o = result.emitted[i]
  BY <1>3
<1>7. PICK r \in Lifecycle!Rules :
        \E c : /\ c = result.memory.condition[r] /\ c.active
               /\ c.last = Telemetry[e].time /\ c.count >= ObservationsNeeded[r]
               /\ c.last - c.since >= DurationNeeded[r]
               /\ o.id = <<r, Telemetry[e].time>>
  <2>1. result.emitted[i].status = "OPEN"
    BY <1>5, <1>6
  <2> QED
    BY <1>2, <1>6, <2>1, EvaluatingDoes
<1>8. PICK c : /\ c = result.memory.condition[r] /\ c.active
               /\ c.last = Telemetry[e].time /\ c.count >= ObservationsNeeded[r]
               /\ c.last - c.since >= DurationNeeded[r]
               /\ o.id = <<r, Telemetry[e].time>>
  BY <1>7
<1>9. EngineOK(result.memory)
  BY <1>2, EvaluatingDoes
<1>10. Held(result.memory, <<r, c.last>>)
  BY <1>8, <1>9, SustainedIsHeld
<1> QED
  BY <1>4, <1>5, <1>8, <1>10

\* HeldThroughout (RuleLifecycle): for rules that listen to one series each, an anomaly
\* opens only after as many distinct samples as the rule asks for, for as long, with no
\* sample of health between, however samples are reordered and delivered again.
THEOREM OpensWhenHeld == OneSeriesEach => (DetectorsSpec => HeldThroughout)
<1> SUFFICES ASSUME OneSeriesEach
             PROVE  DetectorsSpec => HeldThroughout
  OBVIOUS
<1> DEFINE OK == EngineOK(memory)
<1>1. DetectorsInit => OK
  BY EngineOKInit DEF DetectorsInit
<1>2. OK /\ [DetectorsNext]_detectorsVars => OK'
  BY EngineOKStep
<1>3. OK /\ [DetectorsNext]_detectorsVars =>
        [\A a \in Lifecycle!AnomalyIds :
           status[a] # "OPEN" /\ status'[a] = "OPEN" => Held(memory', a)]_ruleVars
  BY OpenIsHeld DEF DetectorsNext, detectorsVars, ruleVars
<1> HIDE DEF OK
<1>4. DetectorsSpec =>
        [][\A a \in Lifecycle!AnomalyIds :
             status[a] # "OPEN" /\ status'[a] = "OPEN" => Held(memory', a)]_ruleVars
  BY <1>1, <1>2, <1>3, PTL DEF DetectorsSpec
<1> QED
  BY <1>4, PTL DEF HeldThroughout, Lifecycle!HeldThroughout, Held, Lifecycle!vars, ruleVars

-----------------------------------------------------------------------------
(* Failures and their end                                                   *)

\* The metrics that end the anomaly of a class when they tell of health.
Enders(class) ==
  IF class \in Observing THEN Watches[class].names
  ELSE IF class \in ByReason THEN {"podReady"} ELSE {"status"}

\* A container that reports both and is well runs, and has not been restarted of late.
Recovering == {"restart", "status"} \subseteq watched

KeyOK(key) ==
  /\ key = <<key[1], key[2]>> /\ key[1] \in Classes
  /\ key[1] \in Observing => /\ Watches[key[1]].names \subseteq watched
                             /\ key[2] = Resource(Watches[key[1]].scope, labelled)
  /\ key[1] = "CRASH_LOOP" => Recovering /\ key[2] = Resource("container", labelled)

ReadingsOK(r) ==
  /\ r \in [Metrics -> Int \union Statuses \union {Missing}]
  /\ \A m \in Metrics \ watched : r[m] = Absent[m]

EpisodeInv ==
  /\ watched \in SUBSET Metrics /\ labelled \in BOOLEAN
  /\ ReadingsOK(read)
  /\ restarts \in Nat /\ remembered.increases \in Nat
  /\ DOMAIN remembered = {"conditions", "increases", "backoff"}
  /\ restarts # 0 => "status" \in watched
  /\ remembered.increases # 0 => Recovering
  /\ \A key \in active : KeyOK(key)
  /\ \A key \in active : Clearable(key) => heard \intersect Enders(key[1]) = {}

Scopes == {"container", "pod", "deployment", "node"}

-----------------------------------------------------------------------------
LEMMA ClassesAre ==
  /\ Metrics = {"memory", "cpu", "restart", "status", "containerReady", "podReady", "desired",
                "available", "nodeReady"}
  /\ Observing = {"HIGH_MEMORY_UTILIZATION", "HIGH_CPU_UTILIZATION", "POD_NOT_READY",
                  "DEPLOYMENT_DEGRADED", "NODE_NOT_READY"}
  /\ ByReason = {"FAILED_SCHEDULING", "IMAGE_PULL_FAILURE", "FAILED_MOUNT"}
BY DEF Metrics, ScopeOf, Observing, Watches, ByReason, Reasons

LEMMA WatchesAre ==
  /\ Watches["HIGH_MEMORY_UTILIZATION"] = [names |-> {"memory"}, scope |-> "container"]
  /\ Watches["HIGH_CPU_UTILIZATION"] = [names |-> {"cpu"}, scope |-> "container"]
  /\ Watches["POD_NOT_READY"] = [names |-> {"podReady"}, scope |-> "pod"]
  /\ Watches["DEPLOYMENT_DEGRADED"] = [names |-> {"desired", "available"}, scope |-> "deployment"]
  /\ Watches["NODE_NOT_READY"] = [names |-> {"nodeReady"}, scope |-> "node"]
BY DEF Watches

LEMMA ScopesAre ==
  /\ \A m \in {"memory", "cpu", "restart", "status", "containerReady"} : ScopeOf[m] = "container"
  /\ ScopeOf["podReady"] = "pod" /\ ScopeOf["nodeReady"] = "node"
  /\ \A m \in {"desired", "available"} : ScopeOf[m] = "deployment"
BY DEF ScopeOf

LEMMA WatchedScope ==
  ASSUME NEW c \in Observing, NEW m \in Watches[c].names
  PROVE  /\ m \in Metrics /\ m # "status" /\ ScopeOf[m] = Watches[c].scope
         /\ Watches[c].scope \in Scopes /\ Fine[m] \in Int /\ Fine[m] # -1
<1>1. c \in {"HIGH_MEMORY_UTILIZATION", "HIGH_CPU_UTILIZATION", "POD_NOT_READY",
             "DEPLOYMENT_DEGRADED", "NODE_NOT_READY"}
  BY ClassesAre
<1>2. /\ Fine["memory"] = 0 /\ Fine["cpu"] = 0 /\ Fine["podReady"] = 1 /\ Fine["desired"] = 2
      /\ Fine["available"] = 2 /\ Fine["nodeReady"] = 1
  BY DEF Fine
<1>3. CASE c = "HIGH_MEMORY_UTILIZATION"
  <2>1. Watches[c].scope = "container" /\ m \in {"memory"}
    BY <1>3, WatchesAre
  <2>2. m \in Metrics /\ m # "status"
    BY <2>1, ClassesAre
  <2>3. ScopeOf[m] = Watches[c].scope
    BY <2>1, ScopesAre
  <2>4. Watches[c].scope \in Scopes
    BY <2>1 DEF Scopes
  <2>5. Fine[m] \in Int /\ Fine[m] # -1
    BY <1>2, <2>1
  <2> QED
    BY <2>2, <2>3, <2>4, <2>5
<1>4. CASE c = "HIGH_CPU_UTILIZATION"
  <2>1. Watches[c].scope = "container" /\ m \in {"cpu"}
    BY <1>4, WatchesAre
  <2> QED
    BY <1>2, <2>1, ScopesAre, ClassesAre DEF Scopes
<1>5. CASE c = "POD_NOT_READY"
  <2>1. Watches[c].scope = "pod" /\ m \in {"podReady"}
    BY <1>5, WatchesAre
  <2> QED
    BY <1>2, <2>1, ScopesAre, ClassesAre DEF Scopes
<1>6. CASE c = "DEPLOYMENT_DEGRADED"
  <2>1. Watches[c].scope = "deployment" /\ m \in {"desired", "available"}
    BY <1>6, WatchesAre
  <2> QED
    BY <1>2, <2>1, ScopesAre, ClassesAre DEF Scopes
<1>7. CASE c = "NODE_NOT_READY"
  <2>1. Watches[c].scope = "node" /\ m \in {"nodeReady"}
    BY <1>7, WatchesAre
  <2> QED
    BY <1>2, <2>1, ScopesAre, ClassesAre DEF Scopes
<1> QED
  BY <1>1, <1>3, <1>4, <1>5, <1>6, <1>7

LEMMA AnswerIs ==
  ASSUME NEW res, NEW clears \in BOOLEAN, NEW matches \in BOOLEAN, NEW sev \in Severities
  PROVE  /\ \A a \in Answer(res, clears, matches, sev) :
              /\ a.resource = res
              /\ a.match # Missing => matches /\ ~clears
              /\ a.match = Missing => clears
         /\ clears => [resource |-> res, match |-> Missing] \in Answer(res, clears, matches, sev)
BY EpisodesAssumption DEF Answer, Severities

LEMMA ClearingIs ==
  ASSUME NEW res, NEW sev \in Severities
  PROVE  /\ \A a \in Answer(res, TRUE, FALSE, sev) : a.match = Missing
         /\ [resource |-> res, match |-> Missing] \in Answer(res, TRUE, FALSE, sev)
BY EpisodesAssumption DEF Answer, Severities

LEMMA StateIs ==
  ASSUME NEW scope \in Scopes, NEW uid \in BOOLEAN,
         NEW r \in [Metrics -> Int \union Statuses \union {Missing}],
         NEW state, state = State(scope, uid, r)
  PROVE  /\ state # Missing => state = [scope |-> scope, uid |-> uid, read |-> r]
         /\ \A m \in Metrics : ScopeOf[m] = scope /\ r[m] # Absent[m] => state # Missing
<1>1. [scope |-> scope, uid |-> uid, read |-> r] \in States
  BY DEF States, Scopes
<1>2. [scope |-> scope, uid |-> uid, read |-> r] # Missing
  BY <1>1, EpisodesAssumption
<1> QED
  BY <1>2 DEF State

MetricEvent(m) == [kind |-> "metric", name |-> m]

\* A state that a metric reached.
Reached(m, r) == State(ScopeOf[m], labelled, r)

LEMMA ReachedIs ==
  ASSUME labelled \in BOOLEAN, NEW m \in Metrics, NEW r, ReadingsOK(r),
         NEW state, state = Reached(m, r)
  PROVE  /\ state # Missing => state = [scope |-> ScopeOf[m], uid |-> labelled, read |-> r]
         /\ Healthy(r) /\ m \in watched => state # Missing
<1>1. ScopeOf[m] \in Scopes
  BY ClassesAre, ScopesAre DEF Scopes
<1>2. r \in [Metrics -> Int \union Statuses \union {Missing}]
  BY DEF ReadingsOK
<1>3. state = State(ScopeOf[m], labelled, r)
  BY DEF Reached
<1>4. ASSUME Healthy(r), m \in watched
      PROVE  r[m] # Absent[m]
  <2>1. CASE m = "status"
    <3>1. r[m].container = "running"
      BY <1>4, <2>1 DEF Healthy
    <3>2. Absent[m].container = Missing
      BY <2>1 DEF Absent, NoStatus, Status
    <3> QED
      BY <3>1, <3>2, EpisodesAssumption DEF Phases
  <2>2. CASE m # "status"
    <3>1. r[m] = Fine[m] /\ Absent[m] = Missing
      BY <1>4, <2>2 DEF Healthy, Absent
    <3>2. Fine[m] \in Int
      BY <2>2, ClassesAre DEF Fine
    <3> QED
      BY <3>1, <3>2, EpisodesAssumption
  <2> QED
    BY <2>1, <2>2
<1> QED
  BY <1>1, <1>2, <1>3, <1>4, StateIs

LEMMA HealthyCondition ==
  ASSUME NEW c \in Observing, NEW r, \A m \in Watches[c].names : r[m] = Fine[m]
  PROVE  ~Condition(c, r)
<1>1. c \in {"HIGH_MEMORY_UTILIZATION", "HIGH_CPU_UTILIZATION", "POD_NOT_READY",
             "DEPLOYMENT_DEGRADED", "NODE_NOT_READY"}
  BY ClassesAre
<1>2. /\ Fine["memory"] = 0 /\ Fine["cpu"] = 0 /\ Fine["podReady"] = 1 /\ Fine["desired"] = 2
      /\ Fine["available"] = 2 /\ Fine["nodeReady"] = 1
  BY DEF Fine
<1>3. CASE c = "HIGH_MEMORY_UTILIZATION"
  <2>1. r["memory"] = 0
    BY <1>2, <1>3, WatchesAre
  <2> QED
    BY <1>3, <2>1 DEF Condition
<1>4. CASE c = "HIGH_CPU_UTILIZATION"
  <2>1. r["cpu"] = 0
    BY <1>2, <1>4, WatchesAre
  <2> QED
    BY <1>4, <2>1 DEF Condition
<1>5. CASE c = "POD_NOT_READY"
  <2>1. r["podReady"] = 1
    BY <1>2, <1>5, WatchesAre
  <2> QED
    BY <1>5, <2>1 DEF Condition
<1>6. CASE c = "DEPLOYMENT_DEGRADED"
  <2>1. r["desired"] = 2 /\ r["available"] = 2
    BY <1>2, <1>6, WatchesAre
  <2> QED
    BY <1>6, <2>1 DEF Condition
<1>7. CASE c = "NODE_NOT_READY"
  <2>1. r["nodeReady"] = 1
    BY <1>2, <1>7, WatchesAre
  <2> QED
    BY <1>7, <2>1 DEF Condition
<1> QED
  BY <1>1, <1>3, <1>4, <1>5, <1>6, <1>7

LEMMA LongEnoughIs ==
  ASSUME NEW c \in Observing, NEW obs
  PROVE  LongEnough(c, obs) \in BOOLEAN
<1>1. c \in {"HIGH_MEMORY_UTILIZATION", "HIGH_CPU_UTILIZATION", "POD_NOT_READY",
             "DEPLOYMENT_DEGRADED", "NODE_NOT_READY"}
  BY ClassesAre
<1>2. CASE c = "HIGH_MEMORY_UTILIZATION"
  BY <1>2 DEF LongEnough
<1>3. CASE c = "HIGH_CPU_UTILIZATION"
  BY <1>3 DEF LongEnough
<1>4. CASE c = "POD_NOT_READY"
  BY <1>4 DEF LongEnough
<1>5. CASE c = "DEPLOYMENT_DEGRADED"
  BY <1>5 DEF LongEnough
<1>6. CASE c = "NODE_NOT_READY"
  BY <1>6 DEF LongEnough
<1> QED
  BY <1>1, <1>2, <1>3, <1>4, <1>5, <1>6

LEMMA ObservedSays ==
  ASSUME labelled \in BOOLEAN, NEW c \in Observing, NEW m \in Metrics, NEW r, ReadingsOK(r),
         NEW obs, NEW answers, answers = Observed(c, MetricEvent(m), Reached(m, r), obs)
  PROVE  /\ \A a \in answers :
              /\ Watches[c].names \subseteq watched
              /\ a.resource = Resource(Watches[c].scope, labelled)
              /\ Healthy(r) => a.match = Missing
         /\ Healthy(r) /\ Watches[c].names \subseteq watched /\ m \in Watches[c].names =>
              [resource |-> Resource(Watches[c].scope, labelled), match |-> Missing] \in answers
<1> DEFINE names == Watches[c].names
           clears == ~Condition(c, r)
           matches == LongEnough(c, obs)
           severity == Severity(c, r)
           record == [scope |-> ScopeOf[m], uid |-> labelled, read |-> r]
<1>1. PICK state : state = Reached(m, r)
  OBVIOUS
<1>2. /\ state # Missing => state = record
      /\ Healthy(r) /\ m \in watched => state # Missing
  BY <1>1, ReachedIs
<1>3. record.scope = ScopeOf[m] /\ record.uid = labelled /\ record.read = r
  OBVIOUS
<1> HIDE DEF record
<1>4. Applies(c, MetricEvent(m), state) =>
        /\ m \in names /\ state = record /\ ScopeOf[m] = Watches[c].scope
        /\ \A name \in names : r[name] # Missing
  <2>1. IsMetric(MetricEvent(m), names) <=> m \in names
    BY DEF IsMetric, MetricEvent
  <2> QED
    BY <1>2, <1>3, <2>1 DEF Applies, InScope
<1>5. /\ m \in names /\ state # Missing /\ ScopeOf[m] = Watches[c].scope
      /\ \A name \in names : r[name] \notin {Missing, -1}
      => Applies(c, MetricEvent(m), state)
  <2>1. IsMetric(MetricEvent(m), names) <=> m \in names
    BY DEF IsMetric, MetricEvent
  <2> QED
    BY <1>2, <1>3, <2>1 DEF Applies, InScope
<1>6. CASE Applies(c, MetricEvent(m), state)
  <2>1. answers = Answer(Resource(Watches[c].scope, labelled), clears, matches, severity)
    <3>1. answers = Answer(ResourceFromState(state), ~Condition(c, state.read),
                           matches, Severity(c, state.read))
      BY <1>1, <1>6 DEF Observed
    <3>2. ResourceFromState(state) = Resource(Watches[c].scope, labelled) /\ state.read = r
      BY <1>3, <1>4, <1>6 DEF ResourceFromState
    <3> QED
      BY <3>1, <3>2
  <2>2. severity \in Severities
    BY DEF Severity, Severities
  <2>3. matches \in BOOLEAN /\ clears \in BOOLEAN
    BY LongEnoughIs
  <2>4. names \subseteq watched
    <3>1. ASSUME NEW name \in names
          PROVE  name \in watched
      <4>1. r[name] # Missing /\ name \in Metrics /\ name # "status"
        BY <1>4, <1>6, <3>1, WatchedScope
      <4>2. Absent[name] = Missing
        BY <4>1 DEF Absent
      <4> QED
        BY <4>1, <4>2 DEF ReadingsOK
    <3> QED
      BY <3>1
  <2>5. Healthy(r) => clears
    <3>1. ASSUME Healthy(r), NEW name \in names
          PROVE  r[name] = Fine[name]
      <4>1. name # "status" /\ name \in watched
        BY <2>4, <3>1, WatchedScope
      <4> QED
        BY <3>1, <4>1 DEF Healthy
    <3> QED
      BY <3>1, HealthyCondition
  <2> HIDE DEF clears, matches, severity
  <2>6. /\ \A a \in answers : /\ a.resource = Resource(Watches[c].scope, labelled)
                              /\ a.match # Missing => ~clears
        /\ clears => [resource |-> Resource(Watches[c].scope, labelled), match |-> Missing] \in answers
    BY <2>1, <2>2, <2>3, AnswerIs
  <2> QED
    BY <2>4, <2>5, <2>6
<1>7. CASE ~Applies(c, MetricEvent(m), state)
  <2>1. answers = {}
    BY <1>1, <1>7 DEF Observed
  <2>2. ASSUME Healthy(r), names \subseteq watched, m \in names
        PROVE  Applies(c, MetricEvent(m), state)
    <3>1. state # Missing /\ ScopeOf[m] = Watches[c].scope
      BY <1>2, <2>2, WatchedScope
    <3>2. ASSUME NEW name \in names
          PROVE  r[name] \notin {Missing, -1}
      <4>1. name # "status" /\ name \in watched /\ Fine[name] \in Int /\ Fine[name] # -1
        BY <2>2, <3>2, WatchedScope
      <4>2. r[name] = Fine[name]
        BY <2>2, <4>1 DEF Healthy
      <4> QED
        BY <4>1, <4>2, EpisodesAssumption
    <3> QED
      BY <1>5, <2>2, <3>1, <3>2
  <2> QED
    BY <1>7, <2>1, <2>2
<1> QED
  BY <1>6, <1>7

LEMMA RunningIs ==
  ASSUME NEW r, Healthy(r), Recovering
  PROVE  r.status.container = "running" /\ r.restart = 0
<1>1. r["status"].container = "running" /\ r["restart"] = Fine["restart"]
  BY DEF Healthy, Recovering
<1>2. Fine["restart"] = 0
  BY DEF Fine
<1> QED
  BY <1>1, <1>2

LEMMA OomSays ==
  ASSUME labelled \in BOOLEAN, NEW m \in Metrics, NEW r, ReadingsOK(r), Healthy(r), Recovering,
         NEW answers, answers = OomKilled(MetricEvent(m), Reached(m, r))
  PROVE  /\ \A a \in answers : a.match = Missing
         /\ m = "status" =>
              [resource |-> Resource("container", labelled), match |-> Missing] \in answers
<1> DEFINE record == [scope |-> ScopeOf[m], uid |-> labelled, read |-> r]
<1>1. PICK state : state = Reached(m, r)
  OBVIOUS
<1>2. /\ state # Missing => state = record
      /\ m \in watched => state # Missing
  BY <1>1, ReachedIs
<1>3. record.scope = ScopeOf[m] /\ record.uid = labelled /\ record.read = r
  OBVIOUS
<1> HIDE DEF record
<1>4. r.status.container = "running" /\ r.restart = 0
  BY RunningIs
<1>5. ~IsReason(MetricEvent(m), {"OOMKilled"})
  BY DEF IsReason, MetricEvent
<1>6. ~OomInState(state)
  <2>1. InScope(state, "container") => Running(state) /\ SinceRestart(state) = 0
    BY <1>2, <1>3, <1>4 DEF InScope, Running, SinceRestart
  <2> QED
    BY <2>1 DEF OomInState
<1>7. CASE Running(state)
  <2> PICK res : res = OomResource(MetricEvent(m), state)
    OBVIOUS
  <2>1. answers = Answer(res, TRUE, FALSE, "CRITICAL")
    BY <1>1, <1>5, <1>6, <1>7 DEF OomKilled
  <2>2. "CRITICAL" \in Severities
    BY DEF Severities
  <2>3. /\ \A a \in answers : a.match = Missing
        /\ [resource |-> res, match |-> Missing] \in answers
    BY <2>1, <2>2, ClearingIs
  <2>4. m = "status" => res = Resource("container", labelled)
    <3>1. m = "status" => state = record /\ state # Missing /\ record.scope = "container"
      BY <1>2, <1>3, ScopesAre DEF Recovering
    <3> QED
      BY <1>3, <3>1 DEF OomResource, ResourceFromState
  <2> QED
    BY <2>3, <2>4
<1>8. CASE ~Running(state)
  <2>1. answers = {}
    BY <1>1, <1>5, <1>6, <1>8 DEF OomKilled
  <2>2. m # "status"
    BY <1>2, <1>3, <1>4, <1>8, ScopesAre DEF Recovering, Running, InScope
  <2> QED
    BY <2>1, <2>2
<1> QED
  BY <1>7, <1>8

LEMMA CrashLoopSays ==
  ASSUME labelled \in BOOLEAN, NEW m \in Metrics, NEW r, ReadingsOK(r),
         NEW increases \in Nat, NEW backoff \in BOOLEAN,
         NEW answers, answers = CrashLoop(MetricEvent(m), Reached(m, r), increases, backoff)
  PROVE  /\ \A a \in answers : /\ a.resource = Resource("container", labelled)
                               /\ a.match # Missing => increases # 0
         /\ Healthy(r) /\ Recovering =>
              /\ \A a \in answers : a.match = Missing
              /\ m = "status" =>
                   [resource |-> Resource("container", labelled), match |-> Missing] \in answers
<1>1. PICK state : state = Reached(m, r)
  OBVIOUS
<1> DEFINE record == [scope |-> ScopeOf[m], uid |-> labelled, read |-> r]
           clears == Running(state) /\ SinceRestart(state) = 0
           matches == /\ increases >= RestartThreshold
                      /\ backoff \/ state.read.status.reason = "CrashLoopBackOff"
<1>2. /\ state # Missing => state = record
      /\ Healthy(r) /\ m \in watched => state # Missing
  BY <1>1, ReachedIs
<1>3. record.scope = ScopeOf[m] /\ record.uid = labelled /\ record.read = r
  OBVIOUS
<1> HIDE DEF record
<1>4. CASE InScope(state, "container") /\ IsMetric(MetricEvent(m), {"restart", "status"})
  <2>1. answers = Answer(ResourceFromState(state), clears, matches, "HIGH")
    BY <1>1, <1>4 DEF CrashLoop
  <2>2. "HIGH" \in Severities /\ clears \in BOOLEAN /\ matches \in BOOLEAN
    BY DEF Severities, Running, InScope
  <2>3. matches => increases # 0
    BY EpisodesAssumption
  <2>4. Healthy(r) /\ Recovering => clears
    <3>1. state = record /\ state # Missing /\ state.scope = "container"
      BY <1>2, <1>4 DEF InScope
    <3> QED
      BY <1>3, <3>1, RunningIs DEF Running, InScope, SinceRestart
  <2>5. ResourceFromState(state) = Resource("container", labelled)
    BY <1>2, <1>3, <1>4 DEF InScope, ResourceFromState
  <2> HIDE DEF clears, matches
  <2>6. /\ \A a \in answers : /\ a.resource = ResourceFromState(state)
                              /\ a.match # Missing => matches /\ ~clears
        /\ clears => [resource |-> ResourceFromState(state), match |-> Missing] \in answers
    BY <2>1, <2>2, AnswerIs
  <2> QED
    BY <2>3, <2>4, <2>5, <2>6
<1>5. CASE ~(InScope(state, "container") /\ IsMetric(MetricEvent(m), {"restart", "status"}))
  <2>1. answers = {}
    BY <1>1, <1>5 DEF CrashLoop
  <2>2. Healthy(r) /\ Recovering => m # "status"
    <3>1. ASSUME Healthy(r), Recovering, m = "status"
          PROVE  FALSE
      <4>1. state # Missing /\ state = record /\ record.scope = "container"
        BY <1>2, <1>3, <3>1, ScopesAre DEF Recovering
      <4>2. IsMetric(MetricEvent(m), {"restart", "status"})
        BY <3>1 DEF IsMetric, MetricEvent
      <4> QED
        BY <1>5, <4>1, <4>2 DEF InScope
    <3> QED
      BY <3>1
  <2> QED
    BY <2>1, <2>2
<1> QED
  BY <1>4, <1>5

LEMMA ReasonSays ==
  ASSUME labelled \in BOOLEAN, NEW c \in ByReason, NEW m \in Metrics, NEW r, ReadingsOK(r),
         NEW answers, answers = KubernetesReason(c, MetricEvent(m), Reached(m, r))
  PROVE  /\ \A a \in answers : a.match = Missing
         /\ Healthy(r) /\ "podReady" \in watched /\ m = "podReady" =>
              [resource |-> Resource("pod", labelled), match |-> Missing] \in answers
<1>1. PICK state : state = Reached(m, r)
  OBVIOUS
<1> DEFINE record == [scope |-> ScopeOf[m], uid |-> labelled, read |-> r]
           ready == \/ InScope(state, "pod") /\ state.read.podReady = 1
                    \/ Running(state) /\ state.read.containerReady = 1
<1>2. /\ state # Missing => state = record
      /\ Healthy(r) /\ m \in watched => state # Missing
  BY <1>1, ReachedIs
<1>3. record.scope = ScopeOf[m] /\ record.uid = labelled /\ record.read = r
  OBVIOUS
<1> HIDE DEF record
<1>4. ~IsReason(MetricEvent(m), Reasons[c])
  BY DEF IsReason, MetricEvent
<1>5. answers = IF ready THEN Answer(Resource("pod", state.uid), TRUE, FALSE, "HIGH") ELSE {}
  BY <1>1, <1>4 DEF KubernetesReason
<1>6. "HIGH" \in Severities
  BY DEF Severities
<1>7. ready => state.uid = labelled
  BY <1>2, <1>3 DEF InScope, Running
<1>8. Healthy(r) /\ "podReady" \in watched /\ m = "podReady" => ready
  <2>1. ASSUME Healthy(r), "podReady" \in watched, m = "podReady"
        PROVE  InScope(state, "pod") /\ state.read.podReady = 1
    <3>1. state # Missing /\ state = record /\ record.scope = "pod"
      BY <1>2, <1>3, <2>1, ScopesAre
    <3>2. r["podReady"] = Fine["podReady"] /\ Fine["podReady"] = 1
      BY <2>1 DEF Healthy, Fine
    <3> QED
      BY <1>3, <3>1, <3>2 DEF InScope
  <2> QED
    BY <2>1
<1> HIDE DEF ready
<1>9. CASE ready
  <2> PICK res : res = Resource("pod", labelled)
    OBVIOUS
  <2>1. answers = Answer(res, TRUE, FALSE, "HIGH")
    BY <1>5, <1>7, <1>9
  <2>2. /\ \A a \in answers : a.match = Missing
        /\ [resource |-> res, match |-> Missing] \in answers
    BY <1>6, <2>1, ClearingIs
  <2> QED
    BY <2>2
<1>10. CASE ~ready
  BY <1>5, <1>8, <1>10
<1> QED
  BY <1>9, <1>10

\* What is asked of the rules is what they have seen before.
SeenOK(seen) ==
  /\ seen.increases \in Nat /\ seen.backoff \in BOOLEAN
  /\ seen.increases # 0 => Recovering

LEMMA ResourceIs ==
  ASSUME NEW scope \in Scopes, NEW uid
  PROVE  Resource(scope, uid).scope = scope
BY DEF Resource

LEMMA MetricAnswers ==
  ASSUME labelled \in BOOLEAN, NEW c \in Classes, NEW m \in Metrics, NEW r, ReadingsOK(r),
         NEW seen, SeenOK(seen),
         NEW answers, answers = Answers(c, MetricEvent(m), Reached(m, r), seen)
  PROVE  /\ \A a \in answers : a.match # Missing =>
              /\ KeyOK(<<c, a.resource>>)
              /\ Healthy(r) => ~Clearable(<<c, a.resource>>)
         /\ \A res : /\ Healthy(r) /\ m \in watched /\ m \in Enders(c)
                     /\ KeyOK(<<c, res>>) /\ Clearable(<<c, res>>)
                     => [resource |-> res, match |-> Missing] \in answers
<1>1. /\ c \in Observing => c \notin ByReason /\ c # "OOM_KILLED" /\ c # "CRASH_LOOP"
      /\ c \in ByReason => c \notin Observing /\ c # "OOM_KILLED" /\ c # "CRASH_LOOP"
      /\ c = "OOM_KILLED" => c \notin Observing /\ c \notin ByReason /\ c # "CRASH_LOOP"
      /\ c = "CRASH_LOOP" => c \notin Observing /\ c \notin ByReason /\ c # "OOM_KILLED"
  BY ClassesAre
<1>2. CASE c \in Observing
  <2>1. answers = Observed(c, MetricEvent(m), Reached(m, r), seen.observed[c])
    BY <1>1, <1>2 DEF Answers
  <2>2. PICK obs : obs = seen.observed[c]
    OBVIOUS
  <2>3. /\ \A a \in answers :
              /\ Watches[c].names \subseteq watched
              /\ a.resource = Resource(Watches[c].scope, labelled)
              /\ Healthy(r) => a.match = Missing
        /\ Healthy(r) /\ Watches[c].names \subseteq watched /\ m \in Watches[c].names =>
              [resource |-> Resource(Watches[c].scope, labelled), match |-> Missing] \in answers
    BY <1>2, <2>1, <2>2, ObservedSays
  <2> QED
    BY <1>1, <1>2, <2>3 DEF KeyOK, Enders
<1>3. CASE c \in ByReason
  <2>1. answers = KubernetesReason(c, MetricEvent(m), Reached(m, r))
    BY <1>1, <1>3 DEF Answers
  <2>2. /\ \A a \in answers : a.match = Missing
        /\ Healthy(r) /\ "podReady" \in watched /\ m = "podReady" =>
              [resource |-> Resource("pod", labelled), match |-> Missing] \in answers
    BY <1>3, <2>1, ReasonSays
  <2>3. \A res : Clearable(<<c, res>>) => res = Resource("pod", labelled) /\ "podReady" \in watched
    BY <1>3 DEF Clearable
  <2> QED
    BY <1>1, <1>3, <2>2, <2>3 DEF Enders
<1>4. CASE c = "OOM_KILLED"
  <2>1. answers = OomKilled(MetricEvent(m), Reached(m, r))
    BY <1>1, <1>4 DEF Answers
  <2>2. Healthy(r) /\ Recovering =>
          /\ \A a \in answers : a.match = Missing
          /\ m = "status" =>
               [resource |-> Resource("container", labelled), match |-> Missing] \in answers
    BY <2>1, OomSays
  <2>3. \A res : Clearable(<<c, res>>) => res = Resource("container", labelled) /\ Recovering
    BY <1>4 DEF Clearable, Recovering
  <2>4. \A a \in answers : KeyOK(<<c, a.resource>>)
    BY <1>1, <1>4 DEF KeyOK
  <2> QED
    BY <1>1, <1>4, <2>2, <2>3, <2>4 DEF Enders
<1>5. CASE c = "CRASH_LOOP"
  <2>1. answers = CrashLoop(MetricEvent(m), Reached(m, r), seen.increases, seen.backoff)
    BY <1>1, <1>5 DEF Answers
  <2>2. PICK increases \in Nat, backoff \in BOOLEAN :
          increases = seen.increases /\ backoff = seen.backoff
    BY DEF SeenOK
  <2>3. /\ \A a \in answers : /\ a.resource = Resource("container", labelled)
                              /\ a.match # Missing => increases # 0
        /\ Healthy(r) /\ Recovering =>
              /\ \A a \in answers : a.match = Missing
              /\ m = "status" =>
                   [resource |-> Resource("container", labelled), match |-> Missing] \in answers
    BY <2>1, <2>2, CrashLoopSays
  <2> QED
    BY <1>1, <1>5, <2>2, <2>3 DEF KeyOK, Enders, SeenOK
<1> QED
  BY <1>2, <1>3, <1>4, <1>5 DEF Classes

LEMMA NoticeAnswers ==
  ASSUME NEW c \in Classes, NEW event, event.kind = "kubernetes", NEW state, NEW seen,
         NEW a \in Answers(c, event, state, seen)
  PROVE  KeyOK(<<c, a.resource>>)
<1>1. /\ c \in Observing => c \notin ByReason /\ c # "OOM_KILLED" /\ c # "CRASH_LOOP"
      /\ c = "CRASH_LOOP" => c \notin Observing /\ c \notin ByReason /\ c # "OOM_KILLED"
  BY ClassesAre
<1>2. \A names : ~IsMetric(event, names)
  BY DEF IsMetric
<1>3. c \notin Observing
  <2>1. CASE c \in Observing
    <3>1. Answers(c, event, state, seen) = Observed(c, event, state, seen.observed[c])
      BY <1>1, <2>1 DEF Answers
    <3>2. ~Applies(c, event, state)
      BY <1>2 DEF Applies
    <3> QED
      BY <3>1, <3>2 DEF Observed
  <2> QED
    BY <2>1
<1>4. c # "CRASH_LOOP"
  <2>1. CASE c = "CRASH_LOOP"
    <3>1. Answers(c, event, state, seen) = CrashLoop(event, state, seen.increases, seen.backoff)
      BY <1>1, <2>1 DEF Answers
    <3> QED
      BY <1>2, <3>1 DEF CrashLoop
  <2> QED
    BY <2>1
<1> QED
  BY <1>3, <1>4 DEF KeyOK

\* The rules answer: the keys that stay, and those that come.
LEMMA EvaluateDoes ==
  ASSUME NEW event, NEW state, Evaluate(event, state), \A key \in active : KeyOK(key),
         NEW seen, seen = Seen(Remembered(event, state))
  PROVE  /\ remembered' = Remembered(event, state)
         /\ \A key \in active' :
              \/ key \in active
                 /\ [resource |-> key[2], match |-> Missing] \notin Answers(key[1], event, state, seen)
              \/ \E c \in Classes : \E a \in Answers(c, event, state, seen) :
                   key = <<c, a.resource>> /\ a.match # Missing
<1> DEFINE answers == UNION {{<<c, a.resource, a.match>> : a \in Answers(c, event, state, seen)} :
                               c \in Classes}
<1>1. /\ remembered' = Remembered(event, state)
      /\ active' = (active \ {<<a[1], a[2]>> : a \in {b \in answers : b[3] = Missing}})
                     \union {<<a[1], a[2]>> : a \in {b \in answers : b[3] # Missing}}
  <2>1. PICK m : m = Remembered(event, state)
    OBVIOUS
  <2>2. seen = Seen(m)
    BY <2>1
  <2>3. answers = UNION {{<<c, a.resource, a.match>> : a \in Answers(c, event, state, Seen(m))} :
                           c \in Classes}
    BY <2>2
  <2> HIDE DEF answers
  <2> QED
    BY <2>1, <2>3 DEF Evaluate
<1>2. \A x \in answers : \E c \in Classes : \E a \in Answers(c, event, state, seen) :
        x = <<c, a.resource, a.match>>
  OBVIOUS
<1>3. \A c \in Classes : \A a \in Answers(c, event, state, seen) : <<c, a.resource, a.match>> \in answers
  OBVIOUS
<1> HIDE DEF answers
<1>4. ASSUME NEW key \in active', key \notin {<<a[1], a[2]>> : a \in {b \in answers : b[3] # Missing}}
      PROVE  key \in active
             /\ [resource |-> key[2], match |-> Missing] \notin Answers(key[1], event, state, seen)
  <2>1. key \in active /\ key \notin {<<a[1], a[2]>> : a \in {b \in answers : b[3] = Missing}}
    BY <1>1, <1>4
  <2>2. key = <<key[1], key[2]>> /\ key[1] \in Classes
    BY <2>1 DEF KeyOK
  <2>3. ASSUME [resource |-> key[2], match |-> Missing] \in Answers(key[1], event, state, seen)
        PROVE  FALSE
    <3>1. PICK x : x = <<key[1], key[2], Missing>>
      OBVIOUS
    <3>2. PICK a \in Answers(key[1], event, state, seen) : a.resource = key[2] /\ a.match = Missing
      BY <2>3
    <3>3. x \in answers
      BY <1>3, <2>2, <3>1, <3>2
    <3>4. x[1] = key[1] /\ x[2] = key[2] /\ x[3] = Missing
      BY <3>1
    <3> QED
      BY <2>1, <2>2, <3>3, <3>4
  <2> QED
    BY <2>1, <2>3
<1>5. ASSUME NEW key \in {<<a[1], a[2]>> : a \in {b \in answers : b[3] # Missing}}
      PROVE  \E c \in Classes : \E a \in Answers(c, event, state, seen) :
               key = <<c, a.resource>> /\ a.match # Missing
  <2>1. PICK x \in answers : key = <<x[1], x[2]>> /\ x[3] # Missing
    BY <1>5
  <2>2. PICK c \in Classes : \E a \in Answers(c, event, state, seen) : x = <<c, a.resource, a.match>>
    BY <1>2
  <2>3. PICK a \in Answers(c, event, state, seen) : x = <<c, a.resource, a.match>>
    BY <2>2
  <2> QED
    BY <2>1, <2>3
<1> QED
  BY <1>1, <1>4, <1>5

LEMMA ReadingsAreTyped ==
  ASSUME restarts \in Nat, NEW m \in Metrics, NEW value \in Readings(m)
  PROVE  /\ value \in Int \union Statuses \union {Missing}
         /\ m = "restart" => value \in {-1, restarts}
<1>1. CASE m = "status"
  <2>1. LastTermination \in {"OOMKilled", Missing}
    BY DEF LastTermination
  <2>2. \/ value = Status("terminated", "OOMKilled", "OOMKilled", Missing)
        \/ value = Status("waiting", "CrashLoopBackOff", Missing, LastTermination)
        \/ value = Up(LastTermination)
    BY <1>1 DEF Readings
  <2>3. value \in Statuses
    BY <2>1, <2>2 DEF Status, Up, Statuses, Phases
  <2> QED
    BY <1>1, <2>3
<1>2. CASE m # "status"
  <2>1. CASE m = "restart"
    BY <2>1 DEF Readings
  <2>2. CASE m \in {"memory", "cpu"}
    BY <2>2 DEF Readings
  <2>3. CASE m \in {"containerReady", "podReady"}
    BY <2>3 DEF Readings
  <2>4. CASE m = "desired"
    BY <2>4 DEF Readings
  <2>5. CASE m = "available"
    BY <2>5 DEF Readings
  <2>6. CASE m = "nodeReady"
    BY <2>6 DEF Readings
  <2> QED
    BY <1>2, <2>1, <2>2, <2>3, <2>4, <2>5, <2>6, ClassesAre
<1> QED
  BY <1>1, <1>2

LEMMA EpisodeInvInit == EpisodeInit => EpisodeInv
<1> SUFFICES ASSUME EpisodeInit
             PROVE  EpisodeInv
  OBVIOUS
<1>1. watched \in SUBSET Metrics /\ labelled \in BOOLEAN
  BY EpisodesAssumption DEF EpisodeInit
<1>2. \A m \in Metrics : /\ Fine[m] \in Int \union Statuses \union {Missing}
                         /\ Absent[m] \in Int \union Statuses \union {Missing}
  <2>1. NoStatus \in Statuses /\ Up(Missing) \in Statuses
    BY DEF NoStatus, Up, Status, Statuses, Phases
  <2>2. \A m \in Metrics : Absent[m] \in Int \union Statuses \union {Missing}
    BY <2>1 DEF Absent
  <2>3. \A m \in Metrics : Fine[m] \in Int \union Statuses \union {Missing}
    BY <2>1, ClassesAre DEF Fine
  <2> QED
    BY <2>2, <2>3
<1>3. ReadingsOK(read)
  BY <1>2 DEF EpisodeInit, ReadingsOK
<1>4. remembered.increases = 0 /\ DOMAIN remembered = {"conditions", "increases", "backoff"}
  BY DEF EpisodeInit
<1> QED
  BY <1>1, <1>3, <1>4 DEF EpisodeInv, EpisodeInit

LEMMA ReportKeeps ==
  ASSUME EpisodeInv, NEW m \in Metrics, Report(m)
  PROVE  EpisodeInv'
<1>1. /\ m \in watched /\ watched' = watched /\ labelled' = labelled
      /\ watched \in SUBSET Metrics /\ labelled \in BOOLEAN
      /\ heard' = IF Healthy(read') THEN heard \union {m} ELSE {}
      /\ restarts' = IF m = "restart" THEN 0 ELSE restarts
  BY DEF Report, EpisodeInv
<1>2. PICK value \in Readings(m) :
        /\ read' = [read EXCEPT ![m] = value]
        /\ Evaluate(MetricEvent(m), Reached(m, read'))
  BY DEF Report, MetricEvent, Reached
<1>3. /\ value \in Int \union Statuses \union {Missing}
      /\ m = "restart" => value \in {-1, restarts}
  BY <1>2, ReadingsAreTyped DEF EpisodeInv
<1>4. PICK r : r = read'
  OBVIOUS
<1>5. ReadingsOK(r) /\ r[m] = value
  BY <1>1, <1>2, <1>3, <1>4 DEF EpisodeInv, ReadingsOK
<1>6. PICK event : event = MetricEvent(m)
  OBVIOUS
<1>7. PICK state : state = Reached(m, r)
  OBVIOUS
<1>8. PICK seen : seen = Seen(Remembered(event, state))
  OBVIOUS
<1>9. Evaluate(event, state)
  BY <1>2, <1>4, <1>6, <1>7
<1>10. /\ remembered' = Remembered(event, state)
       /\ \A key \in active' :
            \/ key \in active
               /\ [resource |-> key[2], match |-> Missing] \notin Answers(key[1], event, state, seen)
            \/ \E c \in Classes : \E a \in Answers(c, event, state, seen) :
                 key = <<c, a.resource>> /\ a.match # Missing
  BY <1>8, <1>9, EvaluateDoes DEF EpisodeInv
<1>11. /\ remembered'.increases \in Nat /\ (remembered'.increases # 0 => Recovering)
       /\ DOMAIN remembered' = {"conditions", "increases", "backoff"}
  <2>1. /\ remembered'.increases =
             IF IsMetric(event, {"restart"}) /\ state.read.restart > 0
             THEN IF remembered.increases < RestartThreshold THEN remembered.increases + 1
                  ELSE RestartThreshold
             ELSE remembered.increases
        /\ DOMAIN remembered' = {"conditions", "increases", "backoff"}
    BY <1>10 DEF Remembered
  <2>2. ASSUME IsMetric(event, {"restart"}), state.read.restart > 0
        PROVE  Recovering
    <3>1. m = "restart"
      BY <1>6, <2>2 DEF IsMetric, MetricEvent
    <3>2. r[m] # Absent[m]
      BY <1>3, <1>5, <3>1, EpisodesAssumption DEF Absent, EpisodeInv
    <3>3. r \in [Metrics -> Int \union Statuses \union {Missing}] /\ ScopeOf[m] \in Scopes
      BY <1>5, <3>1, ScopesAre DEF ReadingsOK, Scopes
    <3>4. state = [scope |-> ScopeOf[m], uid |-> labelled, read |-> r]
      BY <1>1, <1>7, <3>2, <3>3, StateIs DEF Reached
    <3>5. value > 0
      BY <1>5, <2>2, <3>1, <3>4
    <3>6. restarts # 0
      BY <1>3, <3>1, <3>5
    <3> QED
      BY <1>1, <3>1, <3>6 DEF EpisodeInv, Recovering
  <2> QED
    BY <2>1, <2>2, EpisodesAssumption DEF EpisodeInv
<1>12. SeenOK(seen)
  <2>1. seen.increases = remembered'.increases /\ seen.backoff = Remembered(event, state).backoff
    BY <1>8, <1>10 DEF Seen
  <2>2. Remembered(event, state).backoff \in BOOLEAN
    BY DEF Remembered
  <2> QED
    BY <1>11, <2>1, <2>2 DEF SeenOK
<1>13. \A c \in Classes :
         /\ \A a \in Answers(c, event, state, seen) : a.match # Missing =>
              /\ KeyOK(<<c, a.resource>>)
              /\ Healthy(r) => ~Clearable(<<c, a.resource>>)
         /\ \A res : /\ Healthy(r) /\ m \in watched /\ m \in Enders(c)
                     /\ KeyOK(<<c, res>>) /\ Clearable(<<c, res>>)
                     => [resource |-> res, match |-> Missing] \in Answers(c, event, state, seen)
  BY <1>1, <1>5, <1>6, <1>7, <1>12, MetricAnswers
<1>14. ASSUME NEW key \in active'
       PROVE  KeyOK(key) /\ (Clearable(key) => heard' \intersect Enders(key[1]) = {})
  <2>1. CASE key \in active
             /\ [resource |-> key[2], match |-> Missing] \notin Answers(key[1], event, state, seen)
    <3>1. KeyOK(key) /\ (Clearable(key) => heard \intersect Enders(key[1]) = {})
      BY <2>1 DEF EpisodeInv
    <3>2. key = <<key[1], key[2]>> /\ key[1] \in Classes
      BY <3>1 DEF KeyOK
    <3>3. Healthy(r) /\ Clearable(key) => m \notin Enders(key[1])
      BY <1>1, <1>13, <2>1, <3>1, <3>2
    <3> QED
      BY <1>1, <1>4, <3>1, <3>3
  <2>2. ASSUME NEW c \in Classes, NEW a \in Answers(c, event, state, seen),
               key = <<c, a.resource>>, a.match # Missing
        PROVE  KeyOK(key) /\ (Clearable(key) => heard' \intersect Enders(key[1]) = {})
    BY <1>1, <1>4, <1>13, <2>2
  <2> QED
    BY <1>10, <2>1, <2>2
<1>15. \A key \in active' : KeyOK(key)' /\ (Clearable(key)' => heard' \intersect Enders(key[1]) = {})
  BY <1>1, <1>14 DEF KeyOK, Clearable, Recovering
<1>16. ReadingsOK(read)'
  BY <1>1, <1>4, <1>5 DEF ReadingsOK
<1>17. restarts' \in Nat /\ (restarts' # 0 => "status" \in watched')
  BY <1>1 DEF EpisodeInv
<1> QED
  BY <1>1, <1>11, <1>15, <1>16, <1>17 DEF EpisodeInv, Recovering

LEMMA NoticeKeeps ==
  ASSUME EpisodeInv, NEW event \in Notices, Notice(event)
  PROVE  EpisodeInv'
<1>1. /\ watched' = watched /\ labelled' = labelled /\ heard' = {} /\ read' = read
      /\ restarts' = restarts /\ event.kind = "kubernetes"
  BY EpisodesAssumption DEF Notice
<1>2. PICK state : state = FindForTelemetry(event)
  OBVIOUS
<1>3. PICK seen : seen = Seen(Remembered(event, state))
  OBVIOUS
<1>4. /\ remembered' = Remembered(event, state)
      /\ \A key \in active' :
           \/ key \in active
           \/ \E c \in Classes : \E a \in Answers(c, event, state, seen) : key = <<c, a.resource>>
  <2>1. Evaluate(event, state)
    BY <1>2 DEF Notice
  <2>2. \A key \in active : KeyOK(key)
    BY DEF EpisodeInv
  <2>3. /\ remembered' = Remembered(event, state)
        /\ \A key \in active' :
             \/ key \in active
                /\ [resource |-> key[2], match |-> Missing] \notin Answers(key[1], event, state, seen)
             \/ \E c \in Classes : \E a \in Answers(c, event, state, seen) :
                  key = <<c, a.resource>> /\ a.match # Missing
    BY <1>3, <2>1, <2>2, EvaluateDoes
  <2> QED
    BY <2>3
<1>5. /\ remembered'.increases = remembered.increases
      /\ DOMAIN remembered' = {"conditions", "increases", "backoff"}
  BY <1>1, <1>4 DEF Remembered, IsMetric
<1>6. \A key \in active' : KeyOK(key)
  BY <1>1, <1>4, NoticeAnswers DEF EpisodeInv
<1>7. \A key \in active' : KeyOK(key)'
  BY <1>1, <1>6 DEF KeyOK, Recovering
<1>8. ReadingsOK(read)'
  BY <1>1 DEF EpisodeInv, ReadingsOK
<1> QED
  BY <1>1, <1>5, <1>7, <1>8 DEF EpisodeInv, Recovering

LEMMA EpisodeStep == EpisodeInv /\ [DetectorsNext]_detectorsVars => EpisodeInv'
<1> SUFFICES ASSUME EpisodeInv, [DetectorsNext]_detectorsVars
             PROVE  EpisodeInv'
  OBVIOUS
<1>1. ASSUME UNCHANGED <<watched, labelled, active>>, heard' \in {heard, {}}, ReadingsOK(read'),
             restarts' \in Nat, restarts' # 0 => "status" \in watched,
             remembered'.increases \in {0, remembered.increases},
             DOMAIN remembered' = {"conditions", "increases", "backoff"}
      PROVE  EpisodeInv'
  <2>1. \A key : KeyOK(key)' = KeyOK(key) /\ Clearable(key)' = Clearable(key)
    BY <1>1 DEF KeyOK, Clearable, Recovering
  <2>2. ReadingsOK(read)'
    BY <1>1 DEF ReadingsOK
  <2> QED
    BY <1>1, <2>1, <2>2 DEF EpisodeInv, Recovering
<1>2. ASSUME UNCHANGED <<watched, labelled, active, heard, read, restarts, remembered>>
      PROVE  EpisodeInv'
  BY <1>1, <1>2 DEF EpisodeInv
<1>3. ASSUME NEW t \in DOMAIN ShownBy, Fail(t)
      PROVE  EpisodeInv'
  <2>1. restarts' \in Nat /\ (restarts' # 0 => "status" \in watched)
    <3>1. t \in {"oom", "backoff"} => ShownBy[t] = "status"
      BY DEF ShownBy
    <3> QED
      BY <1>3, <3>1 DEF Fail, EpisodeInv
  <2> QED
    BY <1>1, <1>3, <2>1 DEF Fail, EpisodeInv
<1>4. ASSUME NEW m \in Metrics, Expire(m)
      PROVE  EpisodeInv'
  <2>1. ReadingsOK(read')
    <3>1. Absent[m] \in Statuses \union {Missing}
      BY DEF Absent, NoStatus, Status, Statuses
    <3> QED
      BY <1>4, <3>1 DEF Expire, EpisodeInv, ReadingsOK
  <2> QED
    BY <1>1, <1>4, <2>1 DEF Expire, EpisodeInv
<1>5. ASSUME Forget
      PROVE  EpisodeInv'
  <2>1. remembered'.increases = 0 /\ DOMAIN remembered' = DOMAIN remembered
    BY <1>5 DEF Forget, EpisodeInv
  <2> QED
    BY <1>1, <1>5, <2>1 DEF Forget, EpisodeInv
<1>6. CASE Heal \/ TimePasses
  BY <1>2, <1>6 DEF Heal, TimePasses
<1>7. CASE UNCHANGED episodeVars
  BY <1>2, <1>7 DEF episodeVars
<1>8. EpisodeNext \/ UNCHANGED episodeVars
  BY DEF DetectorsNext, detectorsVars
<1> QED
  BY <1>3, <1>4, <1>5, <1>6, <1>7, <1>8, ReportKeeps, NoticeKeeps DEF EpisodeNext

LEMMA HeardClears == EpisodeInv => HealthClears
<1> SUFFICES ASSUME EpisodeInv, heard = watched, NEW key \in active, Clearable(key)
             PROVE  FALSE
  BY DEF HealthClears
<1>1. KeyOK(key) /\ watched \intersect Enders(key[1]) = {}
  BY DEF EpisodeInv
<1>2. CASE key[1] \in Observing
  <2>1. Watches[key[1]].names \subseteq watched /\ Enders(key[1]) = Watches[key[1]].names
    BY <1>1, <1>2 DEF KeyOK, Enders
  <2>2. Watches[key[1]].names # {}
    <3>1. \A c \in {"HIGH_MEMORY_UTILIZATION", "HIGH_CPU_UTILIZATION", "POD_NOT_READY",
                    "DEPLOYMENT_DEGRADED", "NODE_NOT_READY"} : Watches[c].names # {}
      BY WatchesAre
    <3> QED
      BY <1>2, <3>1, ClassesAre
  <2> QED
    BY <1>1, <2>1, <2>2
<1>3. CASE key[1] \in ByReason
  <2>1. Enders(key[1]) = {"podReady"}
    BY <1>3, ClassesAre DEF Enders
  <2> QED
    BY <1>1, <1>3, <2>1 DEF Clearable
<1>4. CASE key[1] \in {"OOM_KILLED", "CRASH_LOOP"}
  <2>1. Enders(key[1]) = {"status"}
    BY <1>4, ClassesAre DEF Enders
  <2> QED
    BY <1>1, <1>4, <2>1 DEF Clearable, KeyOK, Recovering
<1> QED
  BY <1>1, <1>2, <1>3, <1>4 DEF KeyOK, Classes

\* HealthClears (FailureEpisodes): once every reading tells of health and every metric
\* has been reported again, no anomaly is open that a metric of the resource can clear,
\* whatever failures, Kubernetes events and expired readings came between, in any order.
THEOREM HealthEndsAnomalies == DetectorsSpec => []HealthClears
<1>1. DetectorsInit => EpisodeInv
  BY EpisodeInvInit DEF DetectorsInit
<1> QED
  BY <1>1, EpisodeStep, HeardClears, PTL DEF DetectorsSpec

=============================================================================
