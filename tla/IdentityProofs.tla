--------------------------- MODULE IdentityProofs ---------------------------
(***************************************************************************)
(* What Identity guarantees for any number of concurrent requests, crashes *)
(* and failed calls.                                                       *)
(*                                                                         *)
(* A request is reasoned about by the calls it still has to make: `Has'    *)
(* says that one of them is left, which no request gains once it runs.     *)
(***************************************************************************)
EXTENDS Identity, TLAPS

Steps == {"count", "expire", "clear", "session", "members", "revoke", "end", "challenge",
          "consume", "factor", "configure", "unenroll", "update", "token", "reset",
          "attempt", "audit", "activity"}

Has(steps, x) == \E i \in 1..Len(steps) : steps[i] = x

(* The calls that create what is later spent.                               *)
Creating == {"challenge", "configure", "token"}

NoneTwice(steps) ==
  \A i, j \in 1..Len(steps) : steps[i] = steps[j] /\ steps[i] \in Creating => i = j

TaskTypeOK ==
  /\ DOMAIN task = Requests
  /\ \A r \in Requests :
       /\ DOMAIN task[r] = {"kind", "steps", "row", "ids", "arg", "outcome"}
       /\ task[r].steps \in Seq(Steps)
       /\ task[r].kind = "none" => task[r].steps = <<>> /\ task[r].outcome = "none"

TablesTypeOK ==
  /\ DOMAIN challenges = Names /\ DOMAIN resets = Names
  /\ DOMAIN user = {"password", "mustChange", "status", "secret", "codes", "counter", "version"}

(***************************************************************************)
(* The audit trail.  Records are written one at a time, under a lock; the  *)
(* one that has a number has the greatest, and names the last committed.   *)
(***************************************************************************)

LogTypeOK ==
  /\ sequence \in Nat
  /\ DOMAIN writer = Requests
  /\ \A x \in log : x.seq \in 1..sequence /\ x.what \in {"event", "activity"}

OneWriter ==
  /\ \A q, r \in Requests : writer[q] # Idle /\ writer[r] # Idle => q = r
  /\ \A r \in Requests : writer[r] # Idle =>
       /\ writer[r].seq = sequence /\ sequence > 0 /\ writer[r].prev = ChainHead
       /\ \A x \in log : x.seq < sequence
       /\ \E step \in Recording : At(r, step)

ChainInv == LogTypeOK /\ OneWriter /\ ChainVerifies

(***************************************************************************)
(* What is spent once.  A request that has made a challenge, the codes of  *)
(* an enrolment or a token makes none again, and none of them comes back.  *)
(***************************************************************************)

Made(r, step) == task[r].kind # "none" /\ ~Has(task[r].steps, step)

MadeOnce ==
  \A r \in Requests :
    /\ NoneTwice(task[r].steps)
    /\ Has(task[r].steps, "consume") => task[r].arg.challenge \in Names
    /\ Has(task[r].steps, "reset") => task[r].arg.token \in Names
    /\ challenges[r] # "none" => Made(r, "challenge")
    /\ resets[r] # "none" => Made(r, "token")
    /\ \A code \in CodesOf(r) : code \in user.codes => Made(r, "configure")

StaysSpent ==
  \A x \in spent :
    /\ x[1] = "challenge" => x[2] \in Names /\ challenges[x[2]] = "used"
    /\ x[1] = "token" => x[2] \in Names /\ resets[x[2]] = "used"
    /\ x[1] = "code" => /\ x[2] \notin user.codes
                        /\ \A r \in Requests : x[2] \in CodesOf(r) => Made(r, "configure")

SpentInv == MadeOnce /\ StaysSpent /\ OnceEach

(***************************************************************************)
(* What a request that is still to be answered as done has recorded, or    *)
(* will record.                                                            *)
(***************************************************************************)

Recorded(r, what) == \E x \in log : x.by = r /\ x.what = what

WillRecord ==
  \A r \in Requests :
    /\ task[r].kind = "none" => \A what \in {"event", "activity"} : ~Recorded(r, what)
    /\ task[r].outcome = "ok" =>
         /\ Recorded(r, "event") \/ Has(task[r].steps, "audit") \/ Has(task[r].steps, "attempt")
         /\ Has(task[r].steps, "attempt") => task[r].kind \in Public
         /\ IF task[r].kind \in Public
            THEN ~Recorded(r, "activity") /\ ~Has(task[r].steps, "activity")
            ELSE Recorded(r, "activity") \/ Has(task[r].steps, "activity")

IdentityInv == TaskTypeOK /\ TablesTypeOK /\ ChainInv /\ SpentInv /\ WillRecord

-----------------------------------------------------------------------------
(* Sequences of calls.                                                      *)

LEMMA HeadAndTail ==
  ASSUME NEW steps \in Seq(Steps), steps # <<>>
  PROVE  /\ Head(steps) \in Steps /\ Tail(steps) \in Seq(Steps)
         /\ \A x : Has(steps, x) <=> x = Head(steps) \/ Has(Tail(steps), x)
         /\ NoneTwice(steps) => /\ NoneTwice(Tail(steps))
                                /\ Head(steps) \in Creating => ~Has(Tail(steps), Head(steps))
<1>1. /\ Len(steps) \in Nat \ {0} /\ Len(Tail(steps)) = Len(steps) - 1 /\ Head(steps) = steps[1]
      /\ \A i \in 1..Len(steps) - 1 : Tail(steps)[i] = steps[i + 1]
      /\ Head(steps) \in Steps /\ Tail(steps) \in Seq(Steps)
  OBVIOUS
<1>2. ASSUME NEW x
      PROVE  Has(steps, x) <=> x = Head(steps) \/ Has(Tail(steps), x)
  <2>1. ASSUME NEW i \in 1..Len(steps), steps[i] = x, i # 1
        PROVE  Has(Tail(steps), x)
    <3>1. i - 1 \in 1..Len(Tail(steps)) /\ Tail(steps)[i - 1] = x
      BY <1>1, <2>1
    <3> QED
      BY <3>1 DEF Has
  <2>2. ASSUME NEW i \in 1..Len(Tail(steps)), Tail(steps)[i] = x
        PROVE  Has(steps, x)
    <3>1. i + 1 \in 1..Len(steps) /\ steps[i + 1] = x
      BY <1>1, <2>2
    <3> QED
      BY <3>1 DEF Has
  <2>3. Has(steps, Head(steps))
    BY <1>1 DEF Has
  <2> QED
    BY <1>1, <2>1, <2>2, <2>3 DEF Has
<1>3. ASSUME NoneTwice(steps)
      PROVE  /\ NoneTwice(Tail(steps))
             /\ Head(steps) \in Creating => ~Has(Tail(steps), Head(steps))
  <2>1. ASSUME NEW i \in 1..Len(Tail(steps)), NEW j \in 1..Len(Tail(steps)),
               Tail(steps)[i] = Tail(steps)[j], Tail(steps)[i] \in Creating
        PROVE  i = j
    <3>1. i + 1 \in 1..Len(steps) /\ j + 1 \in 1..Len(steps)
      BY <1>1
    <3>2. steps[i + 1] = steps[j + 1] /\ steps[i + 1] \in Creating
      BY <1>1, <2>1
    <3>3. i + 1 = j + 1
      BY <1>3, <3>1, <3>2 DEF NoneTwice
    <3> QED
      BY <3>3
  <2>2. ASSUME NEW i \in 1..Len(Tail(steps)), Tail(steps)[i] = Head(steps), Head(steps) \in Creating
        PROVE  FALSE
    <3>1. i + 1 \in 1..Len(steps) /\ 1 \in 1..Len(steps) /\ steps[i + 1] = steps[1] /\ steps[1] \in Creating
      BY <1>1, <2>2
    <3>2. i + 1 = 1
      BY <1>3, <3>1 DEF NoneTwice
    <3> QED
      BY <3>2
  <2> QED
    BY <2>1, <2>2 DEF NoneTwice, Has
<1> QED
  BY <1>1, <1>2, <1>3

LEMMA Joined ==
  ASSUME NEW s \in Seq(Steps), NEW t \in Seq(Steps)
  PROVE  /\ s \o t \in Seq(Steps)
         /\ \A x : Has(s \o t, x) <=> Has(s, x) \/ Has(t, x)
         /\ NoneTwice(s) /\ NoneTwice(t) /\ (\A x \in Creating : ~Has(t, x) \/ ~Has(s, x)) =>
              NoneTwice(s \o t)
<1>1. /\ s \o t \in Seq(Steps) /\ Len(s) \in Nat /\ Len(t) \in Nat
      /\ Len(s \o t) = Len(s) + Len(t)
      /\ \A i \in 1..Len(s) + Len(t) : (s \o t)[i] = IF i <= Len(s) THEN s[i] ELSE t[i - Len(s)]
  OBVIOUS
<1>2. ASSUME NEW i \in 1..Len(s \o t)
      PROVE  \/ i \in 1..Len(s) /\ (s \o t)[i] = s[i]
             \/ i \notin 1..Len(s) /\ i - Len(s) \in 1..Len(t) /\ (s \o t)[i] = t[i - Len(s)]
  BY <1>1
<1>3. \A i \in 1..Len(s) : i \in 1..Len(s \o t) /\ (s \o t)[i] = s[i]
  BY <1>1
<1>4. \A i \in 1..Len(t) : i + Len(s) \in 1..Len(s \o t) /\ (s \o t)[i + Len(s)] = t[i]
  BY <1>1
<1>5. ASSUME NEW x
      PROVE  Has(s \o t, x) <=> Has(s, x) \/ Has(t, x)
  BY <1>2, <1>3, <1>4 DEF Has
<1>6. ASSUME NoneTwice(s), NoneTwice(t), \A x \in Creating : ~Has(t, x) \/ ~Has(s, x),
             NEW i \in 1..Len(s \o t), NEW j \in 1..Len(s \o t),
             (s \o t)[i] = (s \o t)[j], (s \o t)[i] \in Creating
      PROVE  i = j
  <2>1. CASE i \in 1..Len(s) /\ j \in 1..Len(s)
    BY <1>2, <1>6, <2>1 DEF NoneTwice
  <2>2. CASE i \notin 1..Len(s) /\ j \notin 1..Len(s)
    <3>1. i - Len(s) = j - Len(s)
      BY <1>2, <1>6, <2>2 DEF NoneTwice
    <3> QED
      BY <1>1, <3>1
  <2>3. CASE (i \in 1..Len(s)) # (j \in 1..Len(s))
    <3>1. Has(s, (s \o t)[i]) /\ Has(t, (s \o t)[i])
      BY <1>2, <1>6, <2>3 DEF Has
    <3> QED
      BY <1>6, <3>1
  <2> QED
    BY <2>1, <2>2, <2>3
<1> QED
  BY <1>1, <1>5, <1>6 DEF NoneTwice

-----------------------------------------------------------------------------
(* Requests that go on.                                                     *)

Goes(r, steps, outcome) ==
  /\ DOMAIN task' = Requests
  /\ \A q \in Requests :
       /\ DOMAIN task'[q] = {"kind", "steps", "row", "ids", "arg", "outcome"}
       /\ task'[q].kind = task[q].kind /\ task'[q].arg = task[q].arg
       /\ task'[q].steps = IF q = r THEN steps ELSE task[q].steps
       /\ task'[q].outcome = IF q = r THEN outcome ELSE task[q].outcome

LEMMA ProceedGoes ==
  ASSUME TaskTypeOK, NEW r \in Requests, Proceed(r)
  PROVE  Goes(r, Tail(task[r].steps), task[r].outcome)
  BY DEF TaskTypeOK, Proceed, Goes

LEMMA TurnGoes ==
  ASSUME TaskTypeOK, NEW r \in Requests, NEW outcome, NEW steps, Turn(r, outcome, steps)
  PROVE  Goes(r, steps, outcome)
  BY DEF TaskTypeOK, Turn, Goes

(* No call is left that was not, of those that create or spend something.   *)
NothingNew(s, t) ==
  /\ s \in Seq(Steps) /\ NoneTwice(s)
  /\ \A x \in Creating \union {"consume", "reset"} : Has(s, x) => Has(t, x)

(* A request that runs goes on, and is not answered as done without what it *)
(* had still to record.                                                     *)
GoesOn(r, steps, outcome) ==
  /\ task[r].steps # <<>>
  /\ Goes(r, steps, outcome) /\ NothingNew(steps, task[r].steps)
  /\ \/ outcome \notin {"ok", "none"}
     \/ /\ outcome = task[r].outcome
        /\ \A x \in Recording : Has(steps, x) <=> Has(task[r].steps, x)

(* What it has made it does not make again.                                 *)
StillMade ==
  \A q \in Requests :
    /\ \A step \in Creating : Made(q, step) => Made(q, step)'
    /\ NoneTwice(task'[q].steps)
    /\ Has(task'[q].steps, "consume") => task'[q].arg.challenge \in Names
    /\ Has(task'[q].steps, "reset") => task'[q].arg.token \in Names

LEMMA GoingStillMade ==
  ASSUME TaskTypeOK, SpentInv, NEW r \in Requests, NEW steps, NEW outcome,
         Goes(r, steps, outcome), NothingNew(steps, task[r].steps)
  PROVE  StillMade
<1>1. \A q \in Requests : \A x \in Creating \union {"consume", "reset"} :
        Has(task'[q].steps, x) => Has(task[q].steps, x)
  BY DEF Goes, NothingNew
<1>2. \A q \in Requests : NoneTwice(task'[q].steps)
  BY DEF Goes, NothingNew, SpentInv, MadeOnce
<1> QED
  BY <1>1, <1>2 DEF Goes, StillMade, Made, SpentInv, MadeOnce

LEMMA GoingOnKeeps ==
  ASSUME IdentityInv, NEW r \in Requests, NEW steps, NEW outcome, GoesOn(r, steps, outcome),
         Head(task[r].steps) \notin Recording, UNCHANGED audit
  PROVE  TaskTypeOK' /\ ChainInv' /\ WillRecord' /\ StillMade
<1>1. TaskTypeOK /\ ChainInv /\ WillRecord /\ SpentInv
      /\ Goes(r, steps, outcome) /\ NothingNew(steps, task[r].steps)
  BY DEF IdentityInv, GoesOn
<1>2. task[r].kind # "none"
  BY <1>1 DEF TaskTypeOK, GoesOn
<1>3. TaskTypeOK'
  BY <1>1, <1>2 DEF TaskTypeOK, Goes, NothingNew
<1>4. \A q \in Requests : writer[q] # Idle => q # r
  BY <1>1 DEF ChainInv, OneWriter, At
<1>5. ChainInv'
  <2>1. UNCHANGED <<ChainHead, ChainVerifies, log, sequence, writer>>
    BY DEF audit, ChainHead, ChainVerifies
  <2>2. \A q \in Requests, step \in Recording : q # r /\ At(q, step) => At(q, step)'
    BY <1>1 DEF At, Goes
  <2> QED
    BY <1>1, <1>4, <2>1, <2>2 DEF ChainInv, LogTypeOK, OneWriter
<1>6. WillRecord'
  <2>1. \A q \in Requests, what \in {"event", "activity"} : Recorded(q, what)' <=> Recorded(q, what)
    BY DEF Recorded, audit
  <2>2. \A q \in Requests \ {r} : /\ task'[q].kind = task[q].kind
                                  /\ task'[q].steps = task[q].steps
                                  /\ task'[q].outcome = task[q].outcome
    BY <1>1 DEF Goes
  <2>3. task'[r].kind = task[r].kind /\ task'[r].steps = steps /\ task'[r].outcome = outcome
    BY <1>1 DEF Goes
  <2>4. ASSUME outcome = "ok"
        PROVE  /\ task[r].outcome = "ok"
               /\ \A x \in {"audit", "attempt", "activity"} : Has(steps, x) <=> Has(task[r].steps, x)
    BY <2>4 DEF GoesOn, Recording
  <2> QED
    BY <1>1, <1>2, <2>1, <2>2, <2>3, <2>4 DEF WillRecord
<1> QED
  BY <1>1, <1>3, <1>5, <1>6, GoingStillMade

(* Nothing comes back that is spent, and nothing is created.                *)
Ages(tokens, before) ==
  /\ DOMAIN tokens = Names
  /\ \A n \in Names : /\ tokens[n] # "none" => before[n] # "none"
                      /\ before[n] = "used" => tokens[n] = "used"

LEMMA SpentKept ==
  ASSUME SpentInv, StillMade, Ages(challenges', challenges), Ages(resets', resets),
         user'.codes \subseteq user.codes, spent' = spent
  PROVE  SpentInv'
<1>1. MadeOnce /\ StaysSpent /\ OnceEach
  BY DEF SpentInv
<1>2. MadeOnce'
  BY <1>1 DEF MadeOnce, StillMade, Ages, Names, Creating, CodesOf
<1>3. StaysSpent'
  BY <1>1 DEF StaysSpent, StillMade, Ages, Creating, CodesOf
<1>4. OnceEach'
  BY <1>1 DEF OnceEach
<1> QED
  BY <1>2, <1>3, <1>4 DEF SpentInv

(* What is spent for the first time.                                        *)
LEMMA SpentAdded ==
  ASSUME OnceEach, NEW kind, NEW what, NEW r,
         \A x \in spent : x[1] = kind => x[2] # what,
         spent' = spent \union {<<kind, what, r>>}
  PROVE  OnceEach'
  BY DEF OnceEach

LEMMA TablesUnchanged == UNCHANGED account => (TablesTypeOK => TablesTypeOK')
  BY DEF account, TablesTypeOK

LEMMA ItselfAges ==
  ASSUME TablesTypeOK
  PROVE  /\ challenges' = challenges => Ages(challenges', challenges)
         /\ resets' = resets => Ages(resets', resets)
  BY DEF TablesTypeOK, Ages

(* A call that leaves the account alone.                                    *)
LEMMA AccountAlone ==
  ASSUME IdentityInv, NEW r \in Requests, NEW steps, NEW outcome, GoesOn(r, steps, outcome),
         Head(task[r].steps) \notin Recording, UNCHANGED <<account, audit, spent>>
  PROVE  IdentityInv'
<1>1. TaskTypeOK' /\ ChainInv' /\ WillRecord' /\ StillMade
  BY GoingOnKeeps
<1>2. TablesTypeOK' /\ Ages(challenges', challenges) /\ Ages(resets', resets)
  BY TablesUnchanged, ItselfAges DEF IdentityInv, account
<1>3. SpentInv'
  BY <1>1, <1>2, SpentKept DEF IdentityInv, account
<1> QED
  BY <1>1, <1>2, <1>3 DEF IdentityInv

(* What a handler that has refused or thrown still does.                    *)
Harmless(steps) ==
  steps \in Seq(Steps) /\ \A x \in Creating \union {"consume", "reset"} : ~Has(steps, x)

LEMMA HarmlessEnds ==
  /\ Harmless(<<>>) /\ Harmless(<<"activity">>) /\ Harmless(<<"audit">>) /\ Harmless(<<"count", "audit">>)
  /\ \A steps : Harmless(steps) => Harmless(steps \o <<"activity">>)
  /\ \A steps : Harmless(steps) => NoneTwice(steps)
  /\ \A r \in Requests : Harmless(Thrown(r))
<1>1. /\ Harmless(<<>>) /\ Harmless(<<"activity">>)
      /\ Harmless(<<"audit">>) /\ Harmless(<<"count", "audit">>)
  BY DEF Harmless, Has, Steps, Creating
<1>2. \A steps : Harmless(steps) => Harmless(steps \o <<"activity">>)
  BY <1>1, Joined DEF Harmless
<1>3. \A steps : Harmless(steps) => NoneTwice(steps)
  BY DEF Harmless, Has, NoneTwice
<1> QED
  BY <1>1, <1>2, <1>3 DEF Thrown

LEMMA ProceedGoesOn ==
  ASSUME IdentityInv, NEW r \in Requests, task[r].steps # <<>>, Head(task[r].steps) \notin Recording,
         Proceed(r)
  PROVE  GoesOn(r, Tail(task[r].steps), task[r].outcome)
<1>1. TaskTypeOK /\ task[r].steps \in Seq(Steps) /\ NoneTwice(task[r].steps)
  BY DEF IdentityInv, TaskTypeOK, SpentInv, MadeOnce
<1>2. NothingNew(Tail(task[r].steps), task[r].steps)
  BY <1>1, HeadAndTail DEF NothingNew
<1>3. \A x \in Recording : Has(Tail(task[r].steps), x) <=> Has(task[r].steps, x)
  BY <1>1, HeadAndTail
<1> QED
  BY <1>1, <1>2, <1>3, ProceedGoes DEF GoesOn

LEMMA TurnGoesOn ==
  ASSUME IdentityInv, NEW r \in Requests, task[r].steps # <<>>, NEW outcome \in {"refused", "error"},
         NEW steps, Harmless(steps), Turn(r, outcome, steps)
  PROVE  GoesOn(r, steps, outcome)
  BY TurnGoes, HarmlessEnds DEF GoesOn, IdentityInv, NothingNew, Harmless

LEMMA RefuseGoesOn ==
  ASSUME IdentityInv, NEW r \in Requests, task[r].steps # <<>>,
         NEW steps, Harmless(steps), Refuse(r, steps)
  PROVE  \E s : GoesOn(r, s, "refused")
<1>1. PICK s \in {steps, steps \o <<"activity">>} : Turn(r, "refused", s)
  BY DEF Refuse
<1>2. Harmless(s)
  BY <1>1, HarmlessEnds
<1>3. GoesOn(r, s, "refused")
  BY <1>1, <1>2, TurnGoesOn
<1> QED
  BY <1>3

-----------------------------------------------------------------------------
(* Redis.                                                                   *)

LEMMA RedisStep ==
  ASSUME IdentityInv, NEW r \in Requests,
         \/ SetExpiry(r) \/ ClearFailures(r) \/ CreateSession(r)
         \/ ReadMembers(r) \/ RevokeAllSessions(r) \/ RevokeSession(r)
  PROVE  IdentityInv'
<1> DEFINE steps == task[r].steps
<1>1. /\ steps # <<>>
      /\ Head(steps) \in {"expire", "clear", "session", "members", "revoke", "end"}
      /\ UNCHANGED <<account, audit, spent>>
  BY DEF SetExpiry, ClearFailures, CreateSession, ReadMembers, RevokeAllSessions, RevokeSession, At
<1>2. Head(steps) \notin Recording
  BY <1>1 DEF Recording
<1>3. CASE Proceed(r)
  BY <1>1, <1>2, <1>3, ProceedGoesOn, AccountAlone
<1>4. CASE ReadMembers(r)
  <2>1. task' = [task EXCEPT ![r].steps = Tail(@), ![r].ids = tracked]
    BY <1>4 DEF ReadMembers
  <2>2. Goes(r, Tail(steps), task[r].outcome)
    BY <2>1 DEF IdentityInv, TaskTypeOK, Goes
  <2>3. steps \in Seq(Steps) /\ NoneTwice(steps)
    BY DEF IdentityInv, TaskTypeOK, SpentInv, MadeOnce
  <2>4. NothingNew(Tail(steps), steps)
    BY <1>1, <2>3, HeadAndTail DEF NothingNew
  <2>5. \A x \in Recording : Has(Tail(steps), x) <=> Has(steps, x)
    BY <1>1, <1>2, <2>3, HeadAndTail
  <2>6. GoesOn(r, Tail(steps), task[r].outcome)
    BY <1>1, <2>2, <2>4, <2>5 DEF GoesOn
  <2> QED
    BY <1>1, <1>2, <2>6, AccountAlone
<1> QED
  BY <1>3, <1>4 DEF SetExpiry, ClearFailures, CreateSession, RevokeAllSessions, RevokeSession

LEMMA CountStep ==
  ASSUME IdentityInv, NEW r \in Requests, RecordFailure(r)
  PROVE  IdentityInv'
<1> DEFINE steps == task[r].steps
<1>1. /\ steps # <<>> /\ Head(steps) = "count" /\ UNCHANGED <<account, audit, spent>>
      /\ steps \in Seq(Steps) /\ NoneTwice(steps) /\ TaskTypeOK
  BY DEF RecordFailure, At, IdentityInv, TaskTypeOK, SpentInv, MadeOnce
<1>2. PICK s \in {Tail(steps), <<"expire">> \o Tail(steps)} : Goes(r, s, task[r].outcome)
  <2>1. PICK s \in {Tail(steps), <<"expire">> \o Tail(steps)} : task' = [task EXCEPT ![r].steps = s]
    BY DEF RecordFailure
  <2> QED
    BY <1>1, <2>1 DEF TaskTypeOK, Goes
<1>3. <<"expire">> \in Seq(Steps) /\ NoneTwice(<<"expire">>) /\ \A x : Has(<<"expire">>, x) <=> x = "expire"
  BY DEF Has, NoneTwice, Steps
<1>4. /\ Tail(steps) \in Seq(Steps) /\ NoneTwice(Tail(steps))
      /\ \A x : x # "count" => (Has(Tail(steps), x) <=> Has(steps, x))
  BY <1>1, HeadAndTail
<1>5. /\ s \in Seq(Steps) /\ NoneTwice(s)
      /\ \A x : x \notin {"count", "expire"} => (Has(s, x) <=> Has(steps, x))
  <2>1. CASE s = Tail(steps)
    BY <1>4, <2>1
  <2>2. CASE s = <<"expire">> \o Tail(steps)
    BY <1>3, <1>4, <2>2, Joined DEF Creating
  <2> QED
    BY <1>2, <2>1, <2>2
<1>6. GoesOn(r, s, task[r].outcome)
  BY <1>1, <1>2, <1>5 DEF GoesOn, NothingNew, Creating, Recording
<1>7. Head(steps) \notin Recording
  BY <1>1 DEF Recording
<1> QED
  BY <1>1, <1>6, <1>7, AccountAlone

-----------------------------------------------------------------------------
(* The account.                                                             *)

LEMMA SpentGrows ==
  ASSUME SpentInv, StillMade, Ages(challenges', challenges), Ages(resets', resets),
         user'.codes \subseteq user.codes,
         NEW kind, NEW what, NEW r, spent' = spent \union {<<kind, what, r>>},
         \A x \in spent : x[1] = kind => x[2] # what,
         kind = "challenge" => what \in Names /\ challenges'[what] = "used",
         kind = "token" => what \in Names /\ resets'[what] = "used",
         kind = "code" => /\ what \notin user'.codes
                          /\ \A q \in Requests : what \in CodesOf(q) => Made(q, "configure")
  PROVE  SpentInv'
<1>1. MadeOnce /\ StaysSpent /\ OnceEach
  BY DEF SpentInv
<1>2. MadeOnce'
  BY <1>1 DEF MadeOnce, StillMade, Ages, Names, Creating, CodesOf
<1>3. StaysSpent'
  <2>1. ASSUME NEW x \in spent
        PROVE  /\ x[1] = "challenge" => x[2] \in Names /\ challenges'[x[2]] = "used"
               /\ x[1] = "token" => x[2] \in Names /\ resets'[x[2]] = "used"
               /\ x[1] = "code" => /\ x[2] \notin user'.codes
                                   /\ \A q \in Requests : x[2] \in CodesOf(q) => Made(q, "configure")'
    BY <1>1, <2>1 DEF StaysSpent, StillMade, Ages, Creating, CodesOf
  <2>2. \A q \in Requests : Made(q, "configure") => Made(q, "configure")'
    BY DEF StillMade, Creating
  <2> QED
    BY <2>1, <2>2 DEF StaysSpent, CodesOf
<1>4. OnceEach'
  BY <1>1, SpentAdded
<1> QED
  BY <1>2, <1>3, <1>4 DEF SpentInv

LEMMA CreateChallengeStep ==
  ASSUME IdentityInv, NEW r \in Requests, CreateChallenge(r)
  PROVE  IdentityInv'
<1> DEFINE steps == task[r].steps
<1>1. /\ steps # <<>> /\ Head(steps) = "challenge" /\ Proceed(r)
      /\ challenges' = [challenges EXCEPT ![r] = "open"]
      /\ UNCHANGED <<user, resets, audit, spent>>
      /\ steps \in Seq(Steps) /\ TaskTypeOK /\ TablesTypeOK /\ SpentInv /\ r \in Names
      /\ MadeOnce /\ StaysSpent /\ OnceEach
  BY DEF CreateChallenge, At, IdentityInv, TaskTypeOK, SpentInv, Names
<1>2. Head(steps) \notin Recording
  BY <1>1 DEF Recording
<1>3. GoesOn(r, Tail(steps), task[r].outcome)
  BY <1>1, <1>2, ProceedGoesOn
<1>4. TaskTypeOK' /\ ChainInv' /\ WillRecord' /\ StillMade
  BY <1>1, <1>2, <1>3, GoingOnKeeps
<1>5. Has(steps, "challenge") /\ NoneTwice(steps) /\ ~Has(Tail(steps), "challenge")
  BY <1>1, HeadAndTail DEF Creating, MadeOnce
<1>6. Made(r, "challenge")'
  BY <1>1, <1>3, <1>5 DEF Made, GoesOn, Goes, TaskTypeOK
<1>7. challenges[r] = "none"
  BY <1>1, <1>5 DEF MadeOnce, Made
<1>8. \A n \in Names : challenges'[n] = IF n = r THEN "open" ELSE challenges[n]
  BY <1>1 DEF TablesTypeOK
<1>9. MadeOnce'
  BY <1>1, <1>4, <1>6, <1>8 DEF MadeOnce, StillMade, Names, Creating, CodesOf
<1>10. StaysSpent'
  BY <1>1, <1>4, <1>7, <1>8 DEF StaysSpent, StillMade, Creating, CodesOf
<1>11. OnceEach' /\ TablesTypeOK'
  BY <1>1 DEF OnceEach, TablesTypeOK
<1> QED
  BY <1>4, <1>9, <1>10, <1>11 DEF IdentityInv, SpentInv

LEMMA TokenStep ==
  ASSUME IdentityInv, NEW r \in Requests, CreatePasswordResetToken(r)
  PROVE  IdentityInv'
<1> DEFINE steps == task[r].steps
<1>1. /\ steps # <<>> /\ Head(steps) = "token" /\ Proceed(r)
      /\ resets' = [Closed(resets) EXCEPT ![r] = "open"]
      /\ UNCHANGED <<user, challenges, audit, spent>>
      /\ steps \in Seq(Steps) /\ TaskTypeOK /\ TablesTypeOK /\ SpentInv /\ r \in Names
      /\ MadeOnce /\ StaysSpent /\ OnceEach
  BY DEF CreatePasswordResetToken, At, IdentityInv, TaskTypeOK, SpentInv, Names
<1>2. Head(steps) \notin Recording
  BY <1>1 DEF Recording
<1>3. GoesOn(r, Tail(steps), task[r].outcome)
  BY <1>1, <1>2, ProceedGoesOn
<1>4. TaskTypeOK' /\ ChainInv' /\ WillRecord' /\ StillMade
  BY <1>1, <1>2, <1>3, GoingOnKeeps
<1>5. Has(steps, "token") /\ NoneTwice(steps) /\ ~Has(Tail(steps), "token")
  BY <1>1, HeadAndTail DEF Creating, MadeOnce
<1>6. Made(r, "token")'
  BY <1>1, <1>3, <1>5 DEF Made, GoesOn, Goes, TaskTypeOK
<1>7. resets[r] = "none"
  BY <1>1, <1>5 DEF MadeOnce, Made
<1>8. \A n \in Names : resets'[n] = IF n = r THEN "open"
                                    ELSE IF resets[n] = "open" THEN "used" ELSE resets[n]
  BY <1>1 DEF Closed
<1>9. MadeOnce'
  BY <1>1, <1>4, <1>6, <1>8 DEF MadeOnce, StillMade, Names, Creating, CodesOf
<1>10. StaysSpent'
  BY <1>1, <1>4, <1>7, <1>8 DEF StaysSpent, StillMade, Creating, CodesOf
<1>11. OnceEach' /\ TablesTypeOK'
  BY <1>1 DEF OnceEach, TablesTypeOK, Closed
<1> QED
  BY <1>4, <1>9, <1>10, <1>11 DEF IdentityInv, SpentInv

LEMMA ConfigureStep ==
  ASSUME IdentityInv, NEW r \in Requests, ConfigureMfa(r)
  PROVE  IdentityInv'
<1> DEFINE steps == task[r].steps
<1>1. /\ steps # <<>> /\ Head(steps) = "configure" /\ Proceed(r)
      /\ \E secret, counter :
           user' = [user EXCEPT !.secret = secret, !.codes = CodesOf(r), !.counter = counter]
      /\ UNCHANGED <<challenges, resets, audit, spent>>
      /\ steps \in Seq(Steps) /\ TaskTypeOK /\ TablesTypeOK /\ SpentInv
      /\ MadeOnce /\ StaysSpent /\ OnceEach
  BY DEF ConfigureMfa, At, IdentityInv, TaskTypeOK, SpentInv
<1>2. Head(steps) \notin Recording
  BY <1>1 DEF Recording
<1>3. GoesOn(r, Tail(steps), task[r].outcome)
  BY <1>1, <1>2, ProceedGoesOn
<1>4. TaskTypeOK' /\ ChainInv' /\ WillRecord' /\ StillMade
  BY <1>1, <1>2, <1>3, GoingOnKeeps
<1>5. Has(steps, "configure") /\ NoneTwice(steps) /\ ~Has(Tail(steps), "configure")
  BY <1>1, HeadAndTail DEF Creating, MadeOnce
<1>6. Made(r, "configure")' /\ ~Made(r, "configure")
  BY <1>1, <1>3, <1>5 DEF Made, GoesOn, Goes, TaskTypeOK
<1>7. TablesTypeOK' /\ user'.codes = CodesOf(r)
  BY <1>1 DEF TablesTypeOK
<1>8. \A q \in Requests : \A code \in CodesOf(q) : code \in CodesOf(r) => q = r
  BY DEF CodesOf
<1>9. MadeOnce'
  BY <1>1, <1>4, <1>6, <1>7, <1>8 DEF MadeOnce, StillMade, Creating, CodesOf
<1>10. StaysSpent'
  BY <1>1, <1>4, <1>6, <1>7 DEF StaysSpent, StillMade, Creating, CodesOf
<1>11. OnceEach'
  BY <1>1 DEF OnceEach
<1> QED
  BY <1>4, <1>7, <1>9, <1>10, <1>11 DEF IdentityInv, SpentInv

LEMMA ConsumeChallengeStep ==
  ASSUME IdentityInv, NEW r \in Requests, ConsumeChallenge(r)
  PROVE  IdentityInv'
<1> DEFINE steps == task[r].steps
           of == task[r].arg.challenge
<1>1. /\ steps # <<>> /\ Head(steps) = "consume" /\ UNCHANGED <<user, resets, audit>>
      /\ steps \in Seq(Steps) /\ TablesTypeOK /\ SpentInv /\ MadeOnce /\ StaysSpent
  BY DEF ConsumeChallenge, At, IdentityInv, TaskTypeOK, SpentInv
<1>2. Head(steps) \notin Recording
  BY <1>1 DEF Recording
<1>3. of \in Names
  BY <1>1, HeadAndTail DEF MadeOnce
<1>4. Ages(resets', resets) /\ user'.codes = user.codes
  BY <1>1, ItselfAges
<1>5. CASE /\ challenges[of] = "open"
           /\ challenges' = [challenges EXCEPT ![of] = "used"]
           /\ spent' = spent \union {<<"challenge", of, r>>}
           /\ Proceed(r)
  <2>1. TaskTypeOK' /\ ChainInv' /\ WillRecord' /\ StillMade
    BY <1>1, <1>2, <1>5, ProceedGoesOn, GoingOnKeeps
  <2>2. TablesTypeOK' /\ Ages(challenges', challenges) /\ challenges'[of] = "used"
    BY <1>1, <1>3, <1>5 DEF TablesTypeOK, Ages
  <2>3. \A x \in spent : x[1] = "challenge" => x[2] # of
    BY <1>1, <1>5 DEF StaysSpent
  <2>4. SpentInv'
    BY <1>1, <1>3, <1>4, <1>5, <2>1, <2>2, <2>3, SpentGrows
  <2> QED
    BY <2>1, <2>2, <2>4 DEF IdentityInv
<1>6. CASE /\ challenges' = [challenges EXCEPT ![of] = Late(@)]
           /\ Refuse(r, <<>>)
           /\ UNCHANGED spent
  <2>1. PICK s : GoesOn(r, s, "refused")
    BY <1>1, <1>6, RefuseGoesOn, HarmlessEnds
  <2>2. TaskTypeOK' /\ ChainInv' /\ WillRecord' /\ StillMade
    BY <1>1, <1>2, <2>1, GoingOnKeeps
  <2>3. TablesTypeOK' /\ Ages(challenges', challenges)
    BY <1>1, <1>6 DEF TablesTypeOK, Ages, Late
  <2>4. SpentInv'
    BY <1>1, <1>4, <1>6, <2>2, <2>3, SpentKept
  <2> QED
    BY <2>2, <2>3, <2>4 DEF IdentityInv
<1> QED
  BY <1>5, <1>6 DEF ConsumeChallenge

LEMMA ConsumeFactorStep ==
  ASSUME IdentityInv, NEW r \in Requests, ConsumeFactor(r)
  PROVE  IdentityInv'
<1> DEFINE steps == task[r].steps
           code == task[r].arg.code
           what == <<code.of, code.n>>
<1>1. /\ steps # <<>> /\ Head(steps) = "factor" /\ UNCHANGED <<challenges, resets, audit>>
      /\ TablesTypeOK /\ SpentInv /\ MadeOnce /\ StaysSpent
  BY DEF ConsumeFactor, At, IdentityInv, SpentInv
<1>2. Head(steps) \notin Recording
  BY <1>1 DEF Recording
<1>3. Ages(challenges', challenges) /\ Ages(resets', resets)
  BY <1>1, ItselfAges
<1>4. CASE user' = [user EXCEPT !.counter = code.n] /\ Proceed(r) /\ UNCHANGED spent
  <2>1. TaskTypeOK' /\ ChainInv' /\ WillRecord' /\ StillMade
    BY <1>1, <1>2, <1>4, ProceedGoesOn, GoingOnKeeps
  <2>2. TablesTypeOK' /\ user'.codes = user.codes
    BY <1>1, <1>4 DEF TablesTypeOK
  <2> QED
    BY <1>1, <1>3, <1>4, <2>1, <2>2, SpentKept DEF IdentityInv
<1>5. CASE /\ RecoveryCounts(r)
           /\ user' = [user EXCEPT !.codes = @ \ {what}]
           /\ spent' = spent \union {<<"code", what, r>>}
           /\ Proceed(r)
  <2>1. TaskTypeOK' /\ ChainInv' /\ WillRecord' /\ StillMade
    BY <1>1, <1>2, <1>5, ProceedGoesOn, GoingOnKeeps
  <2>2. TablesTypeOK' /\ user'.codes = user.codes \ {what}
    BY <1>1, <1>5 DEF TablesTypeOK
  <2>3. what \in user.codes
    BY <1>5 DEF RecoveryCounts
  <2>4. \A x \in spent : x[1] = "code" => x[2] # what
    BY <1>1, <2>3 DEF StaysSpent
  <2>5. \A q \in Requests : what \in CodesOf(q) => Made(q, "configure")
    BY <1>1, <2>3 DEF MadeOnce
  <2>6. user'.codes \subseteq user.codes /\ what \notin user'.codes
    BY <2>2
  <2>7. spent' = spent \union {<<"code", what, r>>}
    BY <1>5
  <2>8. SpentInv'
    <3> HIDE DEF what
    <3> QED
      BY <1>1, <1>3, <2>1, <2>4, <2>5, <2>6, <2>7, SpentGrows
  <2> QED
    BY <2>1, <2>2, <2>8 DEF IdentityInv
<1>6. CASE /\ \/ Turn(r, "error", Thrown(r))
              \/ Refuse(r, IF task[r].kind = "verify" THEN <<"count", "audit">> ELSE <<>>)
           /\ UNCHANGED <<user, spent>>
  <2>1. PICK s, outcome : GoesOn(r, s, outcome)
    BY <1>1, <1>6, TurnGoesOn, RefuseGoesOn, HarmlessEnds
  <2> QED
    BY <1>1, <1>2, <1>6, <2>1, AccountAlone DEF account
<1> QED
  BY <1>4, <1>5, <1>6 DEF ConsumeFactor

LEMMA UpdatedCodes ==
  ASSUME TablesTypeOK, NEW kind, NEW change
  PROVE  /\ DOMAIN Updated(kind, change) = DOMAIN user /\ DOMAIN Unenrolled(user) = DOMAIN user
         /\ Updated(kind, change).codes \subseteq user.codes
         /\ Unenrolled(user).codes \subseteq user.codes
  BY DEF TablesTypeOK, Updated, Unenrolled

LEMMA UpdateStep ==
  ASSUME IdentityInv, NEW r \in Requests, Update(r) \/ DisableMfa(r)
  PROVE  IdentityInv'
<1> DEFINE steps == task[r].steps
<1>1. /\ steps # <<>> /\ Head(steps) \in {"update", "unenroll"}
      /\ UNCHANGED <<challenges, resets, audit, spent>>
      /\ TablesTypeOK /\ SpentInv /\ TaskTypeOK /\ steps \in Seq(Steps) /\ NoneTwice(steps)
  BY DEF Update, DisableMfa, At, IdentityInv, SpentInv, MadeOnce, TaskTypeOK
<1>2. Head(steps) \notin Recording
  BY <1>1 DEF Recording
<1>3. Ages(challenges', challenges) /\ Ages(resets', resets)
  BY <1>1, ItselfAges
<1>4. GoesOn(r, Tail(steps), task[r].outcome)
  <2>1. CASE DisableMfa(r)
    BY <1>1, <1>2, <2>1, ProceedGoesOn DEF DisableMfa
  <2>2. CASE Update(r)
    <3>1. \E row : task' = [task EXCEPT ![r].steps = Tail(@), ![r].row = row]
      BY <2>2 DEF Update
    <3>2. Goes(r, Tail(steps), task[r].outcome)
      BY <1>1, <3>1 DEF TaskTypeOK, Goes
    <3>3. NothingNew(Tail(steps), steps)
      BY <1>1, HeadAndTail DEF NothingNew
    <3>4. \A x \in Recording : Has(Tail(steps), x) <=> Has(steps, x)
      BY <1>1, <1>2, HeadAndTail
    <3> QED
      BY <1>1, <3>2, <3>3, <3>4 DEF GoesOn
  <2> QED
    BY <2>1, <2>2
<1>5. TaskTypeOK' /\ ChainInv' /\ WillRecord' /\ StillMade
  BY <1>1, <1>2, <1>4, GoingOnKeeps
<1>6. DOMAIN user' = DOMAIN user /\ user'.codes \subseteq user.codes
  BY <1>1, UpdatedCodes DEF Update, DisableMfa
<1>7. TablesTypeOK'
  BY <1>1, <1>6 DEF TablesTypeOK
<1> QED
  BY <1>1, <1>3, <1>5, <1>6, <1>7, SpentKept DEF IdentityInv

LEMMA ResetStep ==
  ASSUME IdentityInv, NEW r \in Requests, ResetPasswordWithToken(r)
  PROVE  IdentityInv'
<1> DEFINE steps == task[r].steps
           of == task[r].arg.token
           new == task[r].arg.new
<1>1. /\ steps # <<>> /\ Head(steps) = "reset" /\ UNCHANGED audit
      /\ steps \in Seq(Steps) /\ TablesTypeOK /\ SpentInv /\ MadeOnce /\ StaysSpent
  BY DEF ResetPasswordWithToken, At, IdentityInv, TaskTypeOK, SpentInv
<1>2. Head(steps) \notin Recording
  BY <1>1 DEF Recording
<1>3. of \in Names
  BY <1>1, HeadAndTail DEF MadeOnce
<1>4. CASE /\ resets[of] = "open"
           /\ user' = [user EXCEPT !.password = new, !.mustChange = FALSE, !.version = @ + 1]
           /\ resets' = Closed(resets) /\ challenges' = Closed(challenges)
           /\ spent' = spent \union {<<"token", of, r>>}
           /\ Proceed(r)
  <2>1. TaskTypeOK' /\ ChainInv' /\ WillRecord' /\ StillMade
    BY <1>1, <1>2, <1>4, ProceedGoesOn, GoingOnKeeps
  <2>2. TablesTypeOK' /\ user'.codes = user.codes
    BY <1>1, <1>4 DEF TablesTypeOK, Closed
  <2>3. Ages(challenges', challenges) /\ Ages(resets', resets) /\ resets'[of] = "used"
    BY <1>3, <1>4 DEF Ages, Closed
  <2>4. \A x \in spent : x[1] = "token" => x[2] # of
    BY <1>1, <1>4 DEF StaysSpent
  <2>5. SpentInv'
    BY <1>1, <1>3, <1>4, <2>1, <2>2, <2>3, <2>4, SpentGrows
  <2> QED
    BY <2>1, <2>2, <2>5 DEF IdentityInv
<1>5. CASE Refuse(r, <<>>) /\ UNCHANGED <<account, spent>>
  BY <1>1, <1>2, <1>5, RefuseGoesOn, HarmlessEnds, AccountAlone
<1>6. CASE /\ resets' = [resets EXCEPT ![of] = Late(@)]
           /\ Refuse(r, <<"audit">>)
           /\ UNCHANGED <<user, challenges, spent>>
  <2>1. PICK s : GoesOn(r, s, "refused")
    BY <1>1, <1>6, RefuseGoesOn, HarmlessEnds
  <2>2. TaskTypeOK' /\ ChainInv' /\ WillRecord' /\ StillMade
    BY <1>1, <1>2, <2>1, GoingOnKeeps
  <2>3. TablesTypeOK' /\ Ages(resets', resets) /\ Ages(challenges', challenges)
    BY <1>1, <1>6, ItselfAges DEF TablesTypeOK, Ages, Late
  <2>4. SpentInv'
    BY <1>1, <1>6, <2>2, <2>3, SpentKept
  <2> QED
    BY <2>2, <2>3, <2>4 DEF IdentityInv
<1> QED
  BY <1>4, <1>5, <1>6 DEF ResetPasswordWithToken

LEMMA CallFailsStep ==
  ASSUME IdentityInv, NEW r \in Requests, CallFails(r)
  PROVE  IdentityInv'
<1>1. /\ task[r].steps # <<>> /\ Head(task[r].steps) \notin Recording
      /\ Turn(r, "error", Thrown(r)) /\ UNCHANGED <<account, audit, spent>>
  BY DEF CallFails
<1>2. GoesOn(r, Thrown(r), "error")
  BY <1>1, TurnGoesOn, HarmlessEnds
<1> QED
  BY <1>1, <1>2, AccountAlone

-----------------------------------------------------------------------------
(* The audit trail.                                                         *)

(* A record changes nothing of the account.                                 *)
LEMMA AuditKeepsSpent ==
  ASSUME IdentityInv, StillMade, UNCHANGED <<account, spent>>
  PROVE  TablesTypeOK' /\ SpentInv'
  BY TablesUnchanged, ItselfAges, SpentKept DEF IdentityInv, account

LEMMA AuditBeginStep ==
  ASSUME IdentityInv, NEW r \in Requests, AuditBegin(r)
  PROVE  IdentityInv'
<1>1. /\ LogTypeOK /\ OneWriter /\ ChainVerifies
      /\ \A q \in Requests : writer[q] = Idle
      /\ writer' = [writer EXCEPT ![r] = [seq |-> sequence + 1, prev |-> ChainHead]]
      /\ sequence' = sequence + 1
      /\ UNCHANGED <<account, log, task, spent>>
      /\ \E step \in Recording : At(r, step)
  BY DEF IdentityInv, ChainInv, AuditBegin, Free
<1>2. ChainHead' = ChainHead /\ ChainVerifies' /\ (\E step \in Recording : At(r, step)')
  BY <1>1 DEF ChainHead, ChainVerifies, At
<1>3. LogTypeOK'
  BY <1>1 DEF LogTypeOK
<1>4. OneWriter'
  <2>1. \A q \in Requests : writer'[q] = IF q = r THEN [seq |-> sequence + 1, prev |-> ChainHead]
                                         ELSE Idle
    BY <1>1 DEF LogTypeOK
  <2>2. \A q \in Requests : writer'[q] # Idle => q = r
    BY <2>1
  <2>3. writer'[r].seq = sequence' /\ sequence' > 0 /\ writer'[r].prev = ChainHead'
        /\ \A x \in log' : x.seq < sequence'
    BY <1>1, <1>2, <2>1 DEF LogTypeOK
  <2> QED
    BY <1>2, <2>2, <2>3 DEF OneWriter
<1>5. TaskTypeOK' /\ WillRecord' /\ StillMade
  BY <1>1 DEF IdentityInv, TaskTypeOK, WillRecord, Recorded, StillMade, SpentInv, MadeOnce, Made
<1> QED
  BY <1>1, <1>2, <1>3, <1>4, <1>5, AuditKeepsSpent DEF IdentityInv, ChainInv

(* The record that is committed names the one that was the last.             *)
LEMMA ChainGrows ==
  ASSUME ChainVerifies, NEW n, n.prev = ChainHead, \A x \in log : x.seq < n.seq,
         \A x \in log : x.seq \in Nat, n.seq \in Nat
  PROVE  VerifyIntegrity(log \union {n})
<1>1. ASSUME NEW x \in log
      PROVE  {y \in log \union {n} : y.seq < x.seq} = {y \in log : y.seq < x.seq}
  BY <1>1
<1>2. {y \in log \union {n} : y.seq < n.seq} = log
  OBVIOUS
<1>3. ASSUME NEW x \in log
      PROVE  LET before == {y \in log \union {n} : y.seq < x.seq}
             IN x.prev = IF before = {} THEN 0 ELSE Max({y.seq : y \in before})
  BY <1>1, <1>3 DEF ChainVerifies, VerifyIntegrity
<1>4. LET before == {y \in log \union {n} : y.seq < n.seq}
      IN n.prev = IF before = {} THEN 0 ELSE Max({y.seq : y \in before})
  BY <1>2 DEF ChainHead
<1> QED
  BY <1>3, <1>4 DEF VerifyIntegrity

LEMMA AuditCommitStep ==
  ASSUME IdentityInv, NEW r \in Requests, AuditCommit(r)
  PROVE  IdentityInv'
<1> DEFINE steps == task[r].steps
           what == IF At(r, "activity") THEN "activity" ELSE "event"
           n == [seq |-> writer[r].seq, prev |-> writer[r].prev, by |-> r, what |-> what]
<1>1. /\ LogTypeOK /\ OneWriter /\ ChainVerifies /\ WillRecord /\ TaskTypeOK /\ SpentInv
      /\ writer[r] # Idle /\ log' = log \union {n}
      /\ writer' = [writer EXCEPT ![r] = Idle]
      /\ Proceed(r) /\ UNCHANGED <<account, sequence, spent>>
  BY DEF IdentityInv, ChainInv, AuditCommit
<1>2. /\ steps # <<>> /\ Head(steps) \in Recording /\ steps \in Seq(Steps) /\ NoneTwice(steps)
      /\ task[r].kind # "none"
  BY <1>1 DEF OneWriter, At, TaskTypeOK, SpentInv, MadeOnce
<1>3. Goes(r, Tail(steps), task[r].outcome) /\ NothingNew(Tail(steps), steps)
  BY <1>1, <1>2, ProceedGoes, HeadAndTail DEF NothingNew
<1>4. TaskTypeOK' /\ StillMade
  <2>1. Tail(steps) \in Seq(Steps)
    BY <1>3 DEF NothingNew
  <2>2. TaskTypeOK'
    BY <1>1, <1>2, <1>3, <2>1 DEF TaskTypeOK, Goes
  <2> QED
    BY <1>1, <1>3, <2>2, GoingStillMade
<1>5. /\ \A q \in Requests : writer[q] # Idle => q = r
      /\ n.seq = sequence /\ sequence > 0 /\ n.prev = ChainHead
      /\ \A x \in log : x.seq < sequence
  BY <1>1 DEF OneWriter
<1>6. ChainVerifies'
  <2>1. VerifyIntegrity(log \union {n})
    <3>1. n.seq \in Nat /\ \A x \in log : x.seq \in Nat /\ x.seq < n.seq
      BY <1>1, <1>5 DEF LogTypeOK
    <3>2. n.prev = ChainHead
      BY <1>5
    <3> HIDE DEF n
    <3> QED
      BY <1>1, <3>1, <3>2, ChainGrows
  <2>2. VerifyIntegrity(log')
    BY <1>1, <2>1
  <2> QED
    BY <2>2 DEF ChainVerifies, VerifyIntegrity
<1>7. LogTypeOK'
  BY <1>1, <1>5 DEF LogTypeOK
<1>8. OneWriter'
  BY <1>1, <1>5 DEF LogTypeOK, OneWriter
<1>9. WillRecord'
  <2>1. \A q \in Requests, w \in {"event", "activity"} :
          Recorded(q, w)' <=> Recorded(q, w) \/ (q = r /\ w = what)
    <3>1. n.by = r /\ n.what = what
      OBVIOUS
    <3> HIDE DEF n, what
    <3> QED
      BY <1>1, <3>1 DEF Recorded
  <2>2. \A x : Has(steps, x) <=> x = Head(steps) \/ Has(Tail(steps), x)
    BY <1>2, HeadAndTail
  <2>3. what = IF Head(steps) = "activity" THEN "activity" ELSE "event"
    BY <1>2 DEF At
  <2>4. Head(steps) \in {"attempt", "audit", "activity"}
    BY <1>2 DEF Recording
  <2> HIDE DEF what, n
  <2>5. \A q \in Requests : q # r => /\ task'[q].kind = task[q].kind
                                     /\ task'[q].steps = task[q].steps
                                     /\ task'[q].outcome = task[q].outcome
    BY <1>3 DEF Goes
  <2>6. /\ task'[r].kind = task[r].kind /\ task'[r].steps = Tail(steps)
        /\ task'[r].outcome = task[r].outcome
    BY <1>3 DEF Goes
  <2> QED
    BY <1>1, <1>2, <2>1, <2>2, <2>3, <2>4, <2>5, <2>6 DEF WillRecord
<1> QED
  BY <1>1, <1>4, <1>6, <1>7, <1>8, <1>9, AuditKeepsSpent DEF IdentityInv, ChainInv

LEMMA AuditFailsStep ==
  ASSUME IdentityInv, NEW r \in Requests, AuditFails(r)
  PROVE  IdentityInv'
<1> DEFINE steps == task[r].steps
<1>1. /\ LogTypeOK /\ OneWriter /\ ChainVerifies /\ WillRecord /\ TaskTypeOK /\ SpentInv
      /\ writer[r] # Idle /\ writer' = [writer EXCEPT ![r] = Idle]
      /\ UNCHANGED <<account, log, sequence, spent>>
  BY DEF IdentityInv, ChainInv, AuditFails
<1>2. steps # <<>> /\ steps \in Seq(Steps) /\ task[r].kind # "none"
  BY <1>1 DEF OneWriter, At, TaskTypeOK
<1>3. PICK s, outcome : /\ Goes(r, s, outcome) /\ Harmless(s)
                        /\ outcome # "ok" \/ (Head(steps) = "attempt" /\ outcome = task[r].outcome
                                              /\ Has(s, "audit") /\ ~Has(s, "activity"))
                        /\ task[r].outcome # "ok" => outcome # "ok"
  <2>1. Has(<<"audit">>, "audit") /\ ~Has(<<"audit">>, "activity")
    BY DEF Has
  <2>2. CASE At(r, "attempt")
    <3>1. Turn(r, task[r].outcome, <<"audit">>) /\ Head(steps) = "attempt"
      BY <2>2 DEF AuditFails, At
    <3> QED
      BY <1>1, <2>1, <3>1, TurnGoes, HarmlessEnds
  <2>3. CASE ~At(r, "attempt")
    <3>1. Turn(r, "error", Thrown(r))
      BY <2>3 DEF AuditFails
    <3> QED
      BY <1>1, <3>1, TurnGoes, HarmlessEnds
  <2> QED
    BY <2>2, <2>3
<1>4. NothingNew(s, steps) /\ s \in Seq(Steps)
  BY <1>3, HarmlessEnds DEF Harmless, NothingNew
<1>5. TaskTypeOK' /\ StillMade
  <2>1. TaskTypeOK'
    BY <1>1, <1>2, <1>3, <1>4 DEF TaskTypeOK, Goes
  <2> QED
    BY <1>1, <1>3, <1>4, <2>1, GoingStillMade
<1>6. ChainVerifies' /\ LogTypeOK' /\ OneWriter'
  BY <1>1 DEF ChainVerifies, LogTypeOK, OneWriter
<1>7. WillRecord'
  <2>1. \A q \in Requests, w \in {"event", "activity"} : Recorded(q, w)' <=> Recorded(q, w)
    BY <1>1 DEF Recorded
  <2>2. Head(steps) = "attempt" => Has(steps, "attempt")
    BY <1>2, HeadAndTail
  <2>3. \A q \in Requests : q # r => /\ task'[q].kind = task[q].kind
                                     /\ task'[q].steps = task[q].steps
                                     /\ task'[q].outcome = task[q].outcome
    BY <1>3 DEF Goes
  <2>4. /\ task'[r].kind = task[r].kind /\ task'[r].steps = s /\ task'[r].outcome = outcome
    BY <1>3 DEF Goes
  <2>5. ASSUME outcome = "ok"
        PROVE  /\ task[r].kind \in Public /\ task[r].outcome = "ok"
               /\ Has(s, "audit") /\ ~Has(s, "activity") /\ ~Recorded(r, "activity")
    BY <1>1, <1>3, <2>2, <2>5 DEF WillRecord
  <2> QED
    BY <1>1, <1>2, <2>1, <2>3, <2>4, <2>5 DEF WillRecord
<1> QED
  BY <1>1, <1>5, <1>6, <1>7, AuditKeepsSpent DEF IdentityInv, ChainInv

-----------------------------------------------------------------------------
(* Requests that begin.                                                     *)

(* What a handler has to do.                                                *)
Proper(kind, arg, outcome, steps) ==
  /\ kind # "none" /\ outcome \in {"ok", "refused"}
  /\ steps \in Seq(Steps) /\ NoneTwice(steps)
  /\ Has(steps, "consume") => arg.challenge \in Names
  /\ Has(steps, "reset") => arg.token \in Names
  /\ outcome = "ok" =>
       /\ Has(steps, "audit") \/ Has(steps, "attempt")
       /\ Has(steps, "attempt") => kind \in Public
       /\ IF kind \in Public THEN ~Has(steps, "activity") ELSE Has(steps, "activity")

LEMMA ProperStarts ==
  ASSUME IdentityInv, NEW r \in Requests, NEW kind, NEW arg, NEW outcome, NEW steps,
         Proper(kind, arg, outcome, steps), Starts(r, kind, arg, outcome, steps)
  PROVE  IdentityInv'
<1>1. /\ TaskTypeOK /\ TablesTypeOK /\ SpentInv /\ WillRecord /\ LogTypeOK /\ OneWriter /\ ChainVerifies
      /\ task[r].kind = "none" /\ task[r].steps = <<>> /\ UNCHANGED <<account, audit, spent>>
      /\ task' = [task EXCEPT ![r] = [kind |-> kind, steps |-> steps, row |-> user,
                                      ids |-> {}, arg |-> arg, outcome |-> outcome]]
  BY DEF IdentityInv, ChainInv, TaskTypeOK, Starts
<1>2. /\ DOMAIN task' = Requests
      /\ \A q \in Requests : q # r => task'[q] = task[q]
      /\ DOMAIN task'[r] = {"kind", "steps", "row", "ids", "arg", "outcome"}
      /\ task'[r].kind = kind /\ task'[r].steps = steps /\ task'[r].arg = arg
      /\ task'[r].outcome = outcome
  BY <1>1 DEF TaskTypeOK
<1>3. TaskTypeOK'
  BY <1>1, <1>2 DEF TaskTypeOK, Proper
<1>4. ChainInv'
  <2>1. \A q \in Requests : writer[q] # Idle => q # r
    BY <1>1 DEF OneWriter, At
  <2>2. UNCHANGED <<ChainHead, ChainVerifies, log, sequence, writer>>
    BY <1>1 DEF audit, ChainHead, ChainVerifies
  <2>3. \A q \in Requests, step \in Recording : q # r /\ At(q, step) => At(q, step)'
    BY <1>2 DEF At
  <2> QED
    BY <1>1, <2>1, <2>2, <2>3 DEF ChainInv, LogTypeOK, OneWriter
<1>5. StillMade
  BY <1>1, <1>2 DEF StillMade, Made, Proper, SpentInv, MadeOnce
<1>6. WillRecord'
  <2>1. \A q \in Requests, what \in {"event", "activity"} : Recorded(q, what)' <=> Recorded(q, what)
    BY <1>1 DEF Recorded, audit
  <2> QED
    BY <1>1, <1>2, <2>1 DEF WillRecord, Proper
<1> QED
  BY <1>1, <1>3, <1>4, <1>5, <1>6, AuditKeepsSpent DEF IdentityInv

Refusals == {<<>>, <<"activity">>, <<"audit">>, <<"count", "audit">>, <<"count", "activity">>,
             <<"clear", "activity">>, <<"count", "audit", "activity">>}

LEMMA RefusedIsProper ==
  \A kind, arg : kind # "none" =>
    \A steps \in Refusals : Proper(kind, arg, "refused", steps)
<1>1. \A steps \in Refusals : steps \in Seq({"count", "clear", "audit", "activity"})
  <2> DEFINE names == {"count", "clear", "audit", "activity"}
  <2>1. /\ <<>> \in Seq(names) /\ <<"activity">> \in Seq(names) /\ <<"audit">> \in Seq(names)
        /\ <<"count", "audit">> \in Seq(names) /\ <<"count", "activity">> \in Seq(names)
        /\ <<"clear", "activity">> \in Seq(names) /\ <<"count", "audit", "activity">> \in Seq(names)
    OBVIOUS
  <2> HIDE DEF names
  <2>2. \A steps \in Refusals : steps \in Seq(names)
    BY <2>1 DEF Refusals
  <2> QED
    BY <2>2 DEF names
<1>2. \A steps \in Seq({"count", "clear", "audit", "activity"}) :
        steps \in Seq(Steps) /\ \A i \in 1..Len(steps) : steps[i] \in {"count", "clear", "audit", "activity"}
  BY DEF Steps
<1>3. \A steps \in Refusals : Harmless(steps)
  BY <1>1, <1>2 DEF Harmless, Has, Creating
<1> QED
  BY <1>3, HarmlessEnds DEF Proper, Harmless

LEMMA LoginStep ==
  ASSUME IdentityInv, NEW r \in Requests, Login(r)
  PROVE  IdentityInv'
<1>1. Proper("login", Nothing, "ok", <<"clear", "challenge", "audit">>)
  BY DEF Proper, Has, NoneTwice, Steps, Creating, Public
<1>2. Proper("login", Nothing, "ok", <<"clear", "session", "audit">>)
  BY DEF Proper, Has, NoneTwice, Steps, Creating, Public
<1> QED
  BY <1>1, <1>2, RefusedIsProper, ProperStarts DEF Login, Refusals

LEMMA VerifyStep ==
  ASSUME IdentityInv, NEW r \in Requests, VerifyLogin(r)
  PROVE  IdentityInv'
<1>1. PICK of \in Names, code \in CodeInputs, remember \in BOOLEAN :
        \/ Starts(r, "verify", Nothing, "refused", <<>>)
        \/ Starts(r, "verify", [challenge |-> of, code |-> code, remember |-> remember],
                  "ok", <<"factor", "consume", "clear", "session", "audit">>)
  BY DEF VerifyLogin
<1>2. Proper("verify", [challenge |-> of, code |-> code, remember |-> remember],
             "ok", <<"factor", "consume", "clear", "session", "audit">>)
  BY DEF Proper, Has, NoneTwice, Steps, Creating, Public
<1> QED
  BY <1>1, <1>2, RefusedIsProper, ProperStarts DEF Refusals

LEMMA ConfirmedStarts ==
  ASSUME IdentityInv, NEW r \in Requests, NEW kind, NEW password, NEW arg, NEW steps,
         kind # "none", kind \notin Public, steps \in Seq(Steps), NoneTwice(steps),
         ~Has(steps, "consume"), ~Has(steps, "reset"), ~Has(steps, "attempt"), Has(steps, "audit"),
         Confirmed(r, kind, password, arg, steps)
  PROVE  IdentityInv'
<1>1. /\ <<"clear">> \in Seq(Steps) /\ NoneTwice(<<"clear">>) /\ \A x : Has(<<"clear">>, x) <=> x = "clear"
      /\ <<"activity">> \in Seq(Steps) /\ NoneTwice(<<"activity">>)
      /\ \A x : Has(<<"activity">>, x) <=> x = "activity"
  BY DEF Has, NoneTwice, Steps
<1>4. /\ <<"clear">> \o steps \in Seq(Steps) /\ NoneTwice(<<"clear">> \o steps)
      /\ \A x : Has(<<"clear">> \o steps, x) <=> x = "clear" \/ Has(steps, x)
  BY <1>1, Joined DEF Creating
<1>5. LET s == <<"clear">> \o steps \o <<"activity">>
      IN /\ s \in Seq(Steps) /\ NoneTwice(s)
         /\ \A x : Has(s, x) <=> x = "clear" \/ Has(steps, x) \/ x = "activity"
  BY <1>1, <1>4, Joined DEF Creating
<1>6. Proper(kind, arg, "ok", <<"clear">> \o steps \o <<"activity">>)
  BY <1>5 DEF Proper
<1> QED
  BY <1>6, RefusedIsProper, ProperStarts DEF Confirmed, Refusals

LEMMA EnrolmentStep ==
  ASSUME IdentityInv, NEW r \in Requests, StartEnrollment(r) \/ FinishEnrollment(r)
  PROVE  IdentityInv'
<1>1. CASE StartEnrollment(r)
  <2> DEFINE steps == <<"challenge", "audit">>
  <2>1. PICK password \in Passwords : Confirmed(r, "start", password, Nothing, steps)
    BY <1>1 DEF StartEnrollment
  <2>2. steps \in Seq(Steps) /\ NoneTwice(steps) /\ \A x : Has(steps, x) <=> x \in {"challenge", "audit"}
    BY DEF Has, NoneTwice, Steps
  <2>3. "start" # "none" /\ "start" \notin Public
    BY DEF Public
  <2> HIDE DEF steps
  <2>4. /\ ~Has(steps, "consume") /\ ~Has(steps, "reset") /\ ~Has(steps, "attempt") /\ Has(steps, "audit")
    BY <2>2
  <2> QED
    BY <2>1, <2>2, <2>3, <2>4, ConfirmedStarts
<1>2. CASE FinishEnrollment(r)
  <2>1. PICK of \in Requests, code \in CodeInputs :
          \/ Starts(r, "finish", Nothing, "refused", <<"activity">>)
          \/ Starts(r, "finish", [challenge |-> of, code |-> code], "ok",
                    <<"consume", "configure", "audit", "activity">>)
    BY <1>2 DEF FinishEnrollment
  <2>2. Proper("finish", [challenge |-> of, code |-> code], "ok",
               <<"consume", "configure", "audit", "activity">>)
    BY DEF Proper, Has, NoneTwice, Steps, Creating, Public, Names
  <2> QED
    BY <2>1, <2>2, RefusedIsProper, ProperStarts DEF Refusals
<1> QED
  BY <1>1, <1>2

LEMMA SecondFactorStep ==
  ASSUME IdentityInv, NEW r \in Requests, Disable(r) \/ RegenerateRecoveryCodes(r)
  PROVE  IdentityInv'
<1>1. PICK last \in {"unenroll", "configure"}, kind \in {"disable", "regenerate"},
           password \in Passwords, code \in CodeInputs :
        Confirmed(r, kind, password, [code |-> code], <<"factor", last, "audit">>)
  BY DEF Disable, RegenerateRecoveryCodes
<1> DEFINE steps == <<"factor", last, "audit">>
<1>2. steps \in Seq(Steps) /\ NoneTwice(steps) /\ \A x : Has(steps, x) <=> x \in {"factor", last, "audit"}
  BY DEF Has, NoneTwice, Steps, Creating
<1>3. kind # "none" /\ kind \notin Public
  BY DEF Public
<1>4. Confirmed(r, kind, password, [code |-> code], steps)
  BY <1>1
<1> HIDE DEF steps
<1>5. /\ ~Has(steps, "consume") /\ ~Has(steps, "reset") /\ ~Has(steps, "attempt") /\ Has(steps, "audit")
  BY <1>2
<1> QED
  BY <1>2, <1>3, <1>4, <1>5, ConfirmedStarts

LEMMA PasswordStep ==
  ASSUME IdentityInv, NEW r \in Requests, ChangePassword(r) \/ ForgotPassword(r) \/ ResetPassword(r)
  PROVE  IdentityInv'
<1>1. CASE ChangePassword(r)
  <2> DEFINE steps == <<"clear", "members", "revoke", "update", "audit", "session", "activity">>
  <2>1. PICK new \in Passwords :
          \/ Starts(r, "change", [change |-> new], "ok", steps)
          \/ \E s \in Refusals : Starts(r, "change", Nothing, "refused", s)
    BY <1>1 DEF ChangePassword, Refusals
  <2>2. Proper("change", [change |-> new], "ok", steps)
    BY DEF Proper, Has, NoneTwice, Steps, Creating, Public
  <2> QED
    BY <2>1, <2>2, RefusedIsProper, ProperStarts
<1>2. CASE ForgotPassword(r)
  <2>1. Proper("forgot", Nothing, "ok", <<"token", "attempt">>)
    BY DEF Proper, Has, NoneTwice, Steps, Creating, Public
  <2> QED
    BY <1>2, <2>1, RefusedIsProper, ProperStarts DEF ForgotPassword, Refusals
<1>3. CASE ResetPassword(r)
  <2>1. PICK of \in Names, new \in Passwords :
          Starts(r, "reset", [token |-> of, new |-> new], "ok", <<"reset", "audit">>)
    BY <1>3 DEF ResetPassword
  <2>2. Proper("reset", [token |-> of, new |-> new], "ok", <<"reset", "audit">>)
    BY DEF Proper, Has, NoneTwice, Steps, Creating, Public
  <2> QED
    BY <2>1, <2>2, ProperStarts
<1> QED
  BY <1>1, <1>2, <1>3

LEMMA UpdateUserStep ==
  ASSUME IdentityInv, NEW r \in Requests, UpdateUser(r)
  PROVE  IdentityInv'
<1> DEFINE revoking == {<<>>, <<"members", "revoke">>}
           recording == {<<"audit", "audit">>, <<"audit">>}
<1>1. PICK change \in Changes, revokes \in revoking, records \in recording :
        \/ Starts(r, "admin", Nothing, "refused", <<"activity">>)
        \/ Starts(r, "admin", [change |-> change], "ok",
                  revokes \o <<"update">> \o records \o <<"activity">>)
  BY DEF UpdateUser
<1> DEFINE Plain(s) == s \in Seq(Steps) /\ \A x \in Creating \union {"consume", "reset", "attempt"} : ~Has(s, x)
<1>2. \A s \in revoking \union recording \union {<<"update">>, <<"activity">>} : Plain(s)
  <2>1. Plain(<<>>) /\ Plain(<<"members", "revoke">>)
    BY DEF Has, Steps, Creating
  <2>2. Plain(<<"audit", "audit">>) /\ Plain(<<"audit">>)
    BY DEF Has, Steps, Creating
  <2>3. Plain(<<"update">>) /\ Plain(<<"activity">>)
    BY DEF Has, Steps, Creating
  <2> HIDE DEF Plain
  <2> QED
    BY <2>1, <2>2, <2>3
<1>3. \A s \in recording : Has(s, "audit")
  BY DEF Has
<1>4. Has(<<"activity">>, "activity")
  BY DEF Has
<1>5. \A s, t : Plain(s) /\ Plain(t) => Plain(s \o t) /\ \A x : Has(s \o t, x) <=> Has(s, x) \/ Has(t, x)
  BY Joined
<1>6. \A s : Plain(s) => NoneTwice(s)
  BY DEF Has, NoneTwice
<1> DEFINE a == revokes \o <<"update">>
           b == a \o records
           c == b \o <<"activity">>
<1> HIDE DEF Plain, revoking, recording
<1>7. Plain(a)
  BY <1>1, <1>2, <1>5
<1> HIDE DEF a
<1>8. Plain(b) /\ Has(b, "audit")
  BY <1>1, <1>2, <1>3, <1>5, <1>7
<1> HIDE DEF b
<1>9. Plain(c) /\ Has(c, "audit") /\ Has(c, "activity")
  BY <1>2, <1>4, <1>5, <1>8
<1> HIDE DEF c
<1>10. Proper("admin", [change |-> change], "ok", c)
  BY <1>6, <1>9 DEF Proper, Plain, Public
<1>11. \/ Starts(r, "admin", Nothing, "refused", <<"activity">>)
       \/ Starts(r, "admin", [change |-> change], "ok", c)
  BY <1>1 DEF a, b, c
<1> QED
  BY <1>10, <1>11, RefusedIsProper, ProperStarts DEF Refusals

LEMMA SessionsStep ==
  ASSUME IdentityInv, NEW r \in Requests, RevokeSessions(r) \/ Logout(r) \/ Denied(r)
  PROVE  IdentityInv'
<1>1. Proper("revoke", Nothing, "ok", <<"members", "revoke", "audit", "activity">>)
  BY DEF Proper, Has, NoneTwice, Steps, Creating, Public
<1>2. \A arg : Proper("logout", arg, "ok", <<"end", "audit", "activity">>)
  BY DEF Proper, Has, NoneTwice, Steps, Creating, Public
<1>3. CASE Logout(r)
  <2>1. PICK s \in sessions : Starts(r, "logout", [session |-> s.id], "ok", <<"end", "audit", "activity">>)
    BY <1>3 DEF Logout
  <2> QED
    BY <1>2, <2>1, ProperStarts
<1> QED
  BY <1>1, <1>3, RefusedIsProper, ProperStarts DEF RevokeSessions, Denied, Refusals

-----------------------------------------------------------------------------
(* The whole.                                                               *)

LEMMA CrashStep ==
  ASSUME IdentityInv, Crash
  PROVE  IdentityInv'
<1>1. /\ TaskTypeOK /\ SpentInv /\ WillRecord /\ LogTypeOK /\ ChainVerifies
      /\ task' = [r \in Requests |-> IF task[r].steps = <<>> THEN task[r]
                                     ELSE [task[r] EXCEPT !.steps = <<>>, !.outcome = "error"]]
      /\ writer' = [r \in Requests |-> Idle]
      /\ UNCHANGED <<account, log, sequence, spent>>
  BY DEF IdentityInv, ChainInv, Crash
<1>2. /\ DOMAIN task' = Requests
      /\ \A r \in Requests :
           /\ DOMAIN task'[r] = {"kind", "steps", "row", "ids", "arg", "outcome"}
           /\ task'[r].kind = task[r].kind /\ task'[r].arg = task[r].arg /\ task'[r].steps = <<>>
           /\ \/ task[r].steps = <<>> /\ task'[r].outcome = task[r].outcome
              \/ task[r].steps # <<>> /\ task'[r].outcome = "error"
  BY <1>1 DEF TaskTypeOK
<1>3. TaskTypeOK'
  <2>1. <<>> \in Seq(Steps)
    OBVIOUS
  <2>2. \A r \in Requests : task'[r].kind = "none" => task'[r].outcome = "none"
    <3>1. \A r \in Requests : task[r].kind = "none" => task[r].steps = <<>> /\ task[r].outcome = "none"
      BY <1>1 DEF TaskTypeOK
    <3> QED
      BY <1>2, <3>1
  <2> QED
    BY <1>2, <2>1, <2>2 DEF TaskTypeOK
<1>4. ChainInv'
  BY <1>1 DEF ChainInv, LogTypeOK, OneWriter, ChainVerifies
<1>5. \A x : ~Has(<<>>, x)
  BY DEF Has
<1>6. NoneTwice(<<>>)
  BY DEF NoneTwice
<1>7. StillMade
  BY <1>2, <1>5, <1>6 DEF StillMade, Made
<1>8. WillRecord'
  <2>1. \A q \in Requests, what \in {"event", "activity"} : Recorded(q, what)' <=> Recorded(q, what)
    BY <1>1 DEF Recorded
  <2>2. \A q \in Requests : task'[q].outcome = "ok" =>
          task[q].outcome = "ok" /\ task'[q].steps = task[q].steps
    BY <1>2
  <2>3. \A q \in Requests : task'[q].kind = task[q].kind
    BY <1>2
  <2> QED
    BY <1>1, <2>1, <2>2, <2>3 DEF WillRecord
<1> QED
  BY <1>1, <1>3, <1>4, <1>7, <1>8, AuditKeepsSpent DEF IdentityInv

(* What changes nothing but the Redis keys.                                 *)
LEMMA ElsewhereStep ==
  ASSUME IdentityInv, UNCHANGED <<account, audit, task, spent>>
  PROVE  IdentityInv'
<1>1. TaskTypeOK' /\ StillMade
  BY DEF IdentityInv, TaskTypeOK, StillMade, Made, SpentInv, MadeOnce
<1>2. ChainInv'
  <2>1. UNCHANGED <<ChainHead, ChainVerifies, log, sequence, writer>>
    BY DEF audit, ChainHead, ChainVerifies
  <2>2. \A q \in Requests, step \in Recording : At(q, step)' <=> At(q, step)
    BY DEF At
  <2> QED
    BY <2>1, <2>2 DEF IdentityInv, ChainInv, LogTypeOK, OneWriter
<1>3. WillRecord'
  BY DEF IdentityInv, WillRecord, Recorded, audit
<1> QED
  BY <1>1, <1>2, <1>3, AuditKeepsSpent DEF IdentityInv

LEMMA IdentityStep == IdentityInv /\ [Next]_vars => IdentityInv'
<1> SUFFICES ASSUME IdentityInv, [Next]_vars PROVE IdentityInv'
  OBVIOUS
<1>1. ASSUME NEW r \in Requests, Begin(r)
      PROVE  IdentityInv'
  BY <1>1, LoginStep, VerifyStep, EnrolmentStep, SecondFactorStep, PasswordStep, UpdateUserStep,
     SessionsStep DEF Begin
<1>2. ASSUME NEW r \in Requests, Step(r)
      PROVE  IdentityInv'
  BY <1>2, CountStep, RedisStep, CreateChallengeStep, ConsumeChallengeStep, ConsumeFactorStep,
     ConfigureStep, UpdateStep, TokenStep, ResetStep, AuditBeginStep, AuditCommitStep DEF Step
<1>3. ASSUME NEW r \in Requests, AuditFails(r) \/ CallFails(r)
      PROVE  IdentityInv'
  BY <1>3, AuditFailsStep, CallFailsStep
<1>4. CASE UNCHANGED vars \/ \E k \in Kinds : WindowEnds(k)
  BY <1>4, ElsewhereStep DEF WindowEnds, vars
<1> QED
  BY <1>1, <1>2, <1>3, <1>4, CrashStep DEF Next

LEMMA IdentityInit == Init => IdentityInv
<1> SUFFICES ASSUME Init PROVE IdentityInv
  OBVIOUS
<1>1. /\ log = {} /\ sequence = 0 /\ spent = {} /\ writer = [r \in Requests |-> Idle]
      /\ challenges = [r \in Names |-> IF r = First THEN "open" ELSE "none"]
      /\ resets = [r \in Names |-> IF r = First THEN "open" ELSE "none"]
      /\ task = [r \in Requests |-> [kind |-> "none", steps |-> <<>>, row |-> user,
                                     ids |-> {}, arg |-> Nothing, outcome |-> "none"]]
  BY DEF Init
<1>2. /\ DOMAIN user = {"password", "mustChange", "status", "secret", "codes", "counter", "version"}
      /\ user.codes \subseteq CodesOf(First)
  BY DEF Init
<1>3. TaskTypeOK /\ TablesTypeOK
  <2>1. <<>> \in Seq(Steps)
    OBVIOUS
  <2>2. \A r \in Requests :
          /\ DOMAIN task[r] = {"kind", "steps", "row", "ids", "arg", "outcome"}
          /\ task[r].steps = <<>> /\ task[r].outcome = "none"
    BY <1>1
  <2>3. DOMAIN task = Requests
    BY <1>1
  <2>4. TaskTypeOK
    BY <2>1, <2>2, <2>3 DEF TaskTypeOK
  <2> QED
    BY <1>1, <1>2, <2>4 DEF TablesTypeOK
<1>4. ChainInv
  BY <1>1 DEF ChainInv, LogTypeOK, OneWriter, ChainVerifies, VerifyIntegrity
<1>5. \A r \in Requests : task[r].steps = <<>> /\ task[r].kind = "none" /\ task[r].outcome = "none"
  BY <1>1
<1>6. NoneTwice(<<>>) /\ \A x : ~Has(<<>>, x)
  BY DEF NoneTwice, Has
<1>7. \A r \in Requests : challenges[r] = "none" /\ resets[r] = "none" /\ CodesOf(r) \intersect user.codes = {}
  BY <1>1, <1>2, IdentityAssumption DEF Names, CodesOf
<1>8. SpentInv
  BY <1>1, <1>5, <1>6, <1>7 DEF SpentInv, MadeOnce, StaysSpent, OnceEach
<1>9. WillRecord
  BY <1>1, <1>5 DEF WillRecord, Recorded
<1> QED
  BY <1>3, <1>4, <1>8, <1>9 DEF IdentityInv

(* The invariant from which the three theorems below follow.                *)
THEOREM IdentityHolds == Spec => []IdentityInv
  BY IdentityInit, IdentityStep, PTL DEF Spec

(* verifyIntegrity of PostgresAuditLogRepository accepts the trail whatever  *)
(* requests write it at once and whichever of them fail or crash: each record *)
(* names the one before it, though numbers may be missing.                    *)
THEOREM TrailVerifies == Spec => []ChainVerifies
<1>1. IdentityInv => ChainVerifies
  BY DEF IdentityInv, ChainInv
<1> QED
  BY <1>1, IdentityHolds, PTL

(* A challenge, a recovery code and a reset token each serve one request of   *)
(* identity.service.ts, however many present it at once with a copy of the    *)
(* row that is out of date, and no enrolment brings one back.                 *)
THEOREM EachServesOnce == Spec => []OnceEach
<1>1. IdentityInv => OnceEach
  BY DEF IdentityInv, SpentInv
<1> QED
  BY <1>1, IdentityHolds, PTL

(* No request of the identity service is answered as done before its event    *)
(* is in the trail and, for a signed-in caller, its activity: whatever fails  *)
(* or crashes before turns the answer into an error.                          *)
THEOREM DoneMeansRecorded == Spec => []AnsweredMeansRecorded
<1>1. ASSUME IdentityInv, NEW r \in Requests, task[r].outcome = "ok", task[r].steps = <<>>
      PROVE  {x.what : x \in {y \in log : y.by = r}}
               = IF task[r].kind \in Public THEN {"event"} ELSE {"event", "activity"}
  <2>1. \A x : ~Has(task[r].steps, x)
    BY <1>1 DEF Has
  <2>2. Recorded(r, "event") /\ (Recorded(r, "activity") <=> task[r].kind \notin Public)
    BY <1>1, <2>1 DEF IdentityInv, WillRecord
  <2>3. \A x \in log : x.what \in {"event", "activity"}
    BY <1>1 DEF IdentityInv, ChainInv, LogTypeOK
  <2> QED
    BY <2>2, <2>3 DEF Recorded
<1>2. IdentityInv => AnsweredMeansRecorded
  BY <1>1 DEF AnsweredMeansRecorded
<1> QED
  BY <1>2, IdentityHolds, PTL

=============================================================================
