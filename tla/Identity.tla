------------------------------ MODULE Identity ------------------------------
(***************************************************************************)
(* The identity service of apps/api: sign-in with one or two factors,      *)
(* enrolment of an authenticator, recovery codes, change and reset of the  *)
(* password, administration of the account, and the audit trail all of     *)
(* them write.  One account is modelled; every HTTP request about it is a  *)
(* task that advances one awaited call at a time, so that any two requests *)
(* interleave.                                                             *)
(*                                                                         *)
(* `user' is the row of the table users, `challenges' and `resets' are the *)
(* tables mfa_challenges and password_reset_tokens, `sessions', `tracked', *)
(* `failures' and `expiring' are Redis, and `log', `sequence' and `writer' *)
(* are audit_log, the sequence of its column chain_sequence and the        *)
(* records that hold a number and are not committed.  Whatever a request   *)
(* creates (a session, a challenge, a secret, codes, a token) is named by  *)
(* the request, and what was there before (a session, a challenge, a       *)
(* token, an enrolment) First.                                             *)
(***************************************************************************)
EXTENDS Naturals, Sequences, FiniteSets, FiniteSetsExt

CONSTANTS
  Requests,      \* the HTTP requests of a behaviour
  Passwords,     \* the passwords anybody types
  Window,        \* the TOTP counters that verifyTotp accepts
  NumCodes,      \* recovery codes per enrolment (10 in the code)
  MaxAttempts,   \* MAX_ATTEMPTS
  MfaRequired,   \* AUTH_MFA_REQUIRED
  MaxFaults,     \* crashes and failed calls of a behaviour
  First          \* what existed before the first request

ASSUME IdentityAssumption ==
  /\ First \notin Requests
  /\ NumCodes \in Nat \ {0} /\ MaxAttempts \in Nat \ {0} /\ MaxFaults \in Nat
  /\ Window \subseteq Nat \ {0}
  /\ MfaRequired \in BOOLEAN

VARIABLES user, challenges, resets, sessions, tracked, devices, failures,
          expiring, log, sequence, writer, task, faults, spent

account == <<user, challenges, resets>>
redis == <<sessions, tracked, devices, failures, expiring>>
audit == <<log, sequence, writer>>
vars == <<account, redis, audit, task, faults, spent>>

Names == Requests \union {First}
NoSecret == "none"
Nothing == [session |-> First]
Kinds == {"login", "verify", "start", "finish", "disable", "regenerate",
          "change", "forgot", "reset", "admin", "revoke", "logout"}
Public == {"login", "verify", "forgot", "reset"}
CodesOf(name) == {name} \X (1..NumCodes)

Row == [password : Passwords, mustChange : BOOLEAN, status : {"active", "disabled"},
        secret : Names \union {NoSecret}, codes : SUBSET (Names \X (1..NumCodes)),
        counter : Nat, version : Nat \ {0}]
Session == [id : Names, version : Nat \ {0}]
Record == [seq : Nat \ {0}, prev : Nat, by : Requests, what : {"event", "activity"}]

Enrolled(row) == row.secret # NoSecret
Totp(s, c) == [kind |-> "totp", of |-> s, n |-> c]
Recovery(code) == [kind |-> "recovery", of |-> code[1], n |-> code[2]]
CodeInputs == {Totp(s, c) : s \in Names, c \in Window}
                \union {Recovery(code) : code \in user.codes}

(* A record that has no number yet. *)
Idle == [seq |-> 0, prev |-> 0]

Init ==
  /\ \E mustChange \in BOOLEAN, enrolled \in BOOLEAN, password \in Passwords :
       user = [password |-> password, mustChange |-> mustChange, status |-> "active",
               secret |-> IF enrolled THEN First ELSE NoSecret,
               codes |-> IF enrolled THEN CodesOf(First) ELSE {},
               counter |-> 0, version |-> 1]
  /\ challenges = [r \in Names |-> IF r = First THEN "open" ELSE "none"]
  /\ resets = [r \in Names |-> IF r = First THEN "open" ELSE "none"]
  /\ sessions = {[id |-> First, version |-> 1]}
  /\ tracked = {First}
  /\ devices = {}
  /\ failures = [k \in Kinds |-> 0]
  /\ expiring = {}
  /\ log = {}
  /\ sequence = 0
  /\ writer = [r \in Requests |-> Idle]
  /\ task = [r \in Requests |-> [kind |-> "none", steps |-> <<>>, row |-> user,
                                 ids |-> {}, arg |-> Nothing, outcome |-> "none"]]
  /\ faults = 0
  /\ spent = {}

-----------------------------------------------------------------------------
(* Requests: where a handler begins, up to its first call that changes      *)
(* anything.  It reads the row once and works with the copy from then on.   *)

Usable(s) ==
  /\ s \in sessions
  /\ user.status = "active"
  /\ s.version = user.version

(* The guards: a session in Redis, an active account, the version of its row, *)
(* and the confinement of an account that must first change its password or   *)
(* enrol.                                                                     *)
Authenticated(exemptPassword, exemptEnrolment) ==
  \E s \in sessions :
    /\ Usable(s)
    /\ user.mustChange => exemptPassword
    /\ (MfaRequired /\ ~user.mustChange /\ ~Enrolled(user)) => exemptEnrolment

Throttled(k) == failures[k] >= MaxAttempts

Starts(r, kind, arg, outcome, steps) ==
  /\ task[r].kind = "none"
  /\ task' = [task EXCEPT ![r] = [kind |-> kind, steps |-> steps, row |-> user,
                                  ids |-> {}, arg |-> arg, outcome |-> outcome]]
  /\ UNCHANGED <<account, redis, audit, faults, spent>>

Remembered(row) == [secret |-> row.secret, version |-> row.version] \in devices

Login(r) ==
  \E password \in Passwords, cookie \in BOOLEAN :
    IF Throttled("login") THEN Starts(r, "login", Nothing, "refused", <<>>)
    ELSE IF user.status # "active" \/ password # user.password
    THEN Starts(r, "login", Nothing, "refused", <<"count", "audit">>)
    ELSE IF Enrolled(user) /\ ~(cookie /\ Remembered(user))
    THEN Starts(r, "login", Nothing, "ok", <<"clear", "challenge", "audit">>)
    ELSE Starts(r, "login", Nothing, "ok", <<"clear", "session", "audit">>)

VerifyLogin(r) ==
  \E of \in Names, code \in CodeInputs, remember \in BOOLEAN :
    /\ challenges[of] # "none"
    /\ of # First => task[of].kind = "login"
    /\ IF Throttled("verify") \/ user.status # "active" \/ ~Enrolled(user)
       THEN Starts(r, "verify", Nothing, "refused", <<>>)
       ELSE Starts(r, "verify", [challenge |-> of, code |-> code, remember |-> remember],
                   "ok", <<"factor", "consume", "clear", "session", "audit">>)

(* A handler that asks for the current password once more. *)
Confirmed(r, kind, password, arg, steps) ==
  IF Throttled(kind) THEN Starts(r, kind, Nothing, "refused", <<"activity">>)
  ELSE IF password # user.password
  THEN Starts(r, kind, Nothing, "refused", <<"count", "activity">>)
  ELSE Starts(r, kind, arg, "ok", <<"clear">> \o steps \o <<"activity">>)

StartEnrollment(r) ==
  /\ Authenticated(FALSE, TRUE)
  /\ \E password \in Passwords :
       Confirmed(r, "start", password, Nothing, <<"challenge", "audit">>)

FinishEnrollment(r) ==
  /\ Authenticated(FALSE, TRUE)
  /\ \E of \in Requests, code \in CodeInputs :
       /\ task[of].kind = "start" /\ challenges[of] # "none"
       /\ IF code \notin {Totp(of, c) : c \in Window}
          THEN Starts(r, "finish", Nothing, "refused", <<"activity">>)
          ELSE Starts(r, "finish", [challenge |-> of, code |-> code], "ok",
                      <<"consume", "configure", "audit", "activity">>)

Disable(r) ==
  /\ ~MfaRequired
  /\ Authenticated(FALSE, FALSE)
  /\ \E password \in Passwords, code \in CodeInputs :
       Confirmed(r, "disable", password, [code |-> code], <<"factor", "unenroll", "audit">>)

RegenerateRecoveryCodes(r) ==
  /\ Authenticated(FALSE, FALSE)
  /\ \E password \in Passwords, code \in CodeInputs :
       Confirmed(r, "regenerate", password, [code |-> code], <<"factor", "configure", "audit">>)

ChangePassword(r) ==
  /\ Authenticated(TRUE, TRUE)
  /\ \E password \in Passwords, new \in Passwords :
       IF Throttled("change") THEN Starts(r, "change", Nothing, "refused", <<"activity">>)
       ELSE IF password # user.password
       THEN Starts(r, "change", Nothing, "refused", <<"count", "audit", "activity">>)
       ELSE IF new = user.password
       THEN Starts(r, "change", Nothing, "refused", <<"clear", "activity">>)
       ELSE Starts(r, "change", [change |-> new], "ok",
              <<"clear", "members", "revoke", "update", "audit", "session", "activity">>)

ForgotPassword(r) ==
  IF user.status = "active"
  THEN Starts(r, "forgot", Nothing, "ok", <<"token", "attempt">>)
  ELSE Starts(r, "forgot", Nothing, "refused", <<>>)

ResetPassword(r) ==
  \E of \in Names, new \in Passwords :
    /\ resets[of] # "none"
    /\ Starts(r, "reset", [token |-> of, new |-> new], "ok", <<"reset", "audit">>)

Changes == {"disable", "enable", "unenroll"} \union Passwords

(* An administrator's PATCH of one field; the administrator is another user. *)
UpdateUser(r) ==
  \E change \in Changes :
    LET revokes == IF change = "enable" THEN <<>> ELSE <<"members", "revoke">>
        differs == CASE change = "disable" -> user.status = "active"
                     [] change = "enable" -> user.status = "disabled"
                     [] change = "unenroll" -> Enrolled(user)
                     [] OTHER -> TRUE
        records == IF differs THEN <<"audit", "audit">> ELSE <<"audit">>
    IN IF change = user.password
       THEN Starts(r, "admin", Nothing, "refused", <<"activity">>)
       ELSE Starts(r, "admin", [change |-> change], "ok",
                   revokes \o <<"update">> \o records \o <<"activity">>)

RevokeSessions(r) ==
  Starts(r, "revoke", Nothing, "ok", <<"members", "revoke", "audit", "activity">>)

Logout(r) ==
  \E s \in sessions :
    /\ Usable(s)
    /\ Starts(r, "logout", [session |-> s.id], "ok", <<"end", "audit", "activity">>)

(* A session confined to the change of its password, or to enrolment, that    *)
(* asks for anything else: the guard records the refusal, no handler runs.    *)
Denied(r) ==
  /\ ~Authenticated(FALSE, FALSE)
  /\ Authenticated(TRUE, TRUE)
  /\ Starts(r, "denied", Nothing, "refused", <<"audit">>)

-----------------------------------------------------------------------------
(* The awaited calls.                                                       *)

At(r, step) == task[r].steps # <<>> /\ Head(task[r].steps) = step
Proceed(r) == task' = [task EXCEPT ![r].steps = Tail(@)]
Turn(r, outcome, steps) == task' = [task EXCEPT ![r].steps = steps, ![r].outcome = outcome]

(* What is left of a request whose handler has thrown: the interceptor still *)
(* records it, if it was authenticated.                                      *)
Thrown(r) == IF task[r].kind \in Public \/ Tail(task[r].steps) = <<>>
             THEN <<>> ELSE <<"activity">>

(* AuthSecurityStore: the throttle. *)
RecordFailure(r) ==
  LET k == task[r].kind
  IN /\ At(r, "count")
     /\ failures' = [failures EXCEPT ![k] = @ + 1]
     /\ task' = [task EXCEPT ![r].steps =
                   IF failures[k] = 0 THEN <<"expire">> \o Tail(@) ELSE Tail(@)]
     /\ UNCHANGED <<account, sessions, tracked, devices, expiring, audit, faults, spent>>

SetExpiry(r) ==
  /\ At(r, "expire")
  /\ expiring' = IF failures[task[r].kind] > 0 THEN expiring \union {task[r].kind} ELSE expiring
  /\ Proceed(r)
  /\ UNCHANGED <<account, sessions, tracked, devices, failures, audit, faults, spent>>

ClearFailures(r) ==
  /\ At(r, "clear")
  /\ failures' = [failures EXCEPT ![task[r].kind] = 0]
  /\ expiring' = expiring \ {task[r].kind}
  /\ Proceed(r)
  /\ UNCHANGED <<account, sessions, tracked, devices, audit, faults, spent>>

WindowEnds(k) ==
  /\ k \in expiring
  /\ failures' = [failures EXCEPT ![k] = 0]
  /\ expiring' = expiring \ {k}
  /\ UNCHANGED <<account, sessions, tracked, devices, audit, task, faults, spent>>

(* AuthSecurityStore: the sessions. *)
CreateSession(r) ==
  LET row == task[r].row
      remember == task[r].kind = "verify" /\ task[r].arg.remember
  IN /\ At(r, "session")
     /\ sessions' = sessions \union {[id |-> r, version |-> row.version]}
     /\ tracked' = tracked \union {r}
     /\ devices' = IF remember
                   THEN devices \union {[secret |-> row.secret, version |-> row.version]}
                   ELSE devices
     /\ Proceed(r)
     /\ UNCHANGED <<account, failures, expiring, audit, faults, spent>>

ReadMembers(r) ==
  /\ At(r, "members")
  /\ task' = [task EXCEPT ![r].steps = Tail(@), ![r].ids = tracked]
  /\ UNCHANGED <<account, redis, audit, faults, spent>>

RevokeAllSessions(r) ==
  /\ At(r, "revoke")
  /\ sessions' = {s \in sessions : s.id \notin task[r].ids}
  /\ tracked' = {}
  /\ Proceed(r)
  /\ UNCHANGED <<account, devices, failures, expiring, audit, faults, spent>>

RevokeSession(r) ==
  /\ At(r, "end")
  /\ sessions' = {s \in sessions : s.id # task[r].arg.session}
  /\ tracked' = tracked \ {task[r].arg.session}
  /\ Proceed(r)
  /\ UNCHANGED <<account, devices, failures, expiring, audit, faults, spent>>

-----------------------------------------------------------------------------
(* PostgresUserRepository.  A step that finds out that the request cannot go *)
(* on ends the handler; an authenticated one is still recorded.              *)

Refuse(r, steps) ==
  Turn(r, "refused", IF task[r].kind \in Public THEN steps ELSE steps \o <<"activity">>)

CreateChallenge(r) ==
  /\ At(r, "challenge")
  /\ challenges' = [challenges EXCEPT ![r] = "open"]
  /\ Proceed(r)
  /\ UNCHANGED <<user, resets, redis, audit, faults, spent>>

(* A token expires unseen: what shows is that its use comes too late. *)
Late(token) == IF token = "open" THEN "expired" ELSE token

ConsumeChallengeUnread(r) ==
  LET of == task[r].arg.challenge
  IN /\ At(r, "consume")
     /\ challenges' = [challenges EXCEPT ![of] = "used"]
     /\ spent' = spent \union {<<"challenge", of, r>>}
     /\ Proceed(r)
     /\ UNCHANGED <<user, resets, redis, audit, faults>>

ConsumeChallenge(r) ==
  LET of == task[r].arg.challenge
  IN /\ At(r, "consume")
     /\ \/ /\ challenges[of] = "open"
           /\ challenges' = [challenges EXCEPT ![of] = "used"]
           /\ spent' = spent \union {<<"challenge", of, r>>}
           /\ Proceed(r)
        \/ /\ challenges' = [challenges EXCEPT ![of] = Late(@)]
           /\ Refuse(r, <<>>)
           /\ UNCHANGED spent
     /\ UNCHANGED <<user, resets, redis, audit, faults>>

(* verifyAndConsumeFactor: the code is matched against the copy, and spent    *)
(* in the row as it is now.                                                   *)
TotpCounts(r) ==
  LET code == task[r].arg.code
  IN /\ code.kind = "totp" /\ code.of = task[r].row.secret
     /\ Enrolled(user) /\ user.counter < code.n

RecoveryCounts(r) ==
  LET code == task[r].arg.code
  IN /\ code.kind = "recovery"
     /\ Enrolled(task[r].row)
     /\ <<code.of, code.n>> \in task[r].row.codes \intersect user.codes

(* The constraint users_mfa_configuration forbids an enrolled row without     *)
(* recovery codes.                                                            *)
LastCode(r) == Enrolled(user) /\ Cardinality(user.codes) = 1

ConsumeFactor(r) ==
  LET code == task[r].arg.code
  IN /\ At(r, "factor")
     /\ IF TotpCounts(r)
        THEN /\ user' = [user EXCEPT !.counter = code.n]
             /\ Proceed(r)
             /\ UNCHANGED spent
        ELSE IF RecoveryCounts(r) /\ ~LastCode(r)
        THEN /\ user' = [user EXCEPT !.codes = @ \ {<<code.of, code.n>>}]
             /\ spent' = spent \union {<<"code", <<code.of, code.n>>, r>>}
             /\ Proceed(r)
        ELSE /\ IF RecoveryCounts(r)
                THEN Turn(r, "error", Thrown(r))
                ELSE Refuse(r, IF task[r].kind = "verify" THEN <<"count", "audit">> ELSE <<>>)
             /\ UNCHANGED <<user, spent>>
     /\ UNCHANGED <<challenges, resets, redis, audit, faults>>

ConfigureMfa(r) ==
  LET code == task[r].arg.code
      secret == IF task[r].kind = "finish" THEN task[r].arg.challenge ELSE task[r].row.secret
      counter == IF code.kind = "totp" THEN code.n ELSE task[r].row.counter
  IN /\ At(r, "configure")
     /\ user' = [user EXCEPT !.secret = secret, !.codes = CodesOf(r), !.counter = counter]
     /\ Proceed(r)
     /\ UNCHANGED <<challenges, resets, redis, audit, faults, spent>>

Unenrolled(row) == [row EXCEPT !.secret = NoSecret, !.codes = {}, !.counter = 0]

DisableMfa(r) ==
  /\ At(r, "unenroll")
  /\ user' = Unenrolled(user)
  /\ Proceed(r)
  /\ UNCHANGED <<challenges, resets, redis, audit, faults, spent>>

(* update and updateInOrganization: only the columns that are given change.   *)
Updated(kind, change) ==
  IF kind = "change" THEN [user EXCEPT !.password = change, !.mustChange = FALSE]
  ELSE CASE change = "disable" -> [user EXCEPT !.status = "disabled"]
         [] change = "enable" -> [user EXCEPT !.status = "active"]
         [] change = "unenroll" -> Unenrolled(user)
         [] OTHER -> [user EXCEPT !.password = change]

Update(r) ==
  LET row == Updated(task[r].kind, task[r].arg.change)
  IN /\ At(r, "update")
     /\ user' = row
     /\ task' = [task EXCEPT ![r].steps = Tail(@), ![r].row = row]
     /\ UNCHANGED <<challenges, resets, redis, audit, faults, spent>>

Closed(tokens) == [r \in Names |-> IF tokens[r] = "open" THEN "used" ELSE tokens[r]]

CreatePasswordResetToken(r) ==
  /\ At(r, "token")
  /\ resets' = [Closed(resets) EXCEPT ![r] = "open"]
  /\ Proceed(r)
  /\ UNCHANGED <<user, challenges, redis, audit, faults, spent>>

ResetPasswordWithToken(r) ==
  LET of == task[r].arg.token
      new == task[r].arg.new
      valid == resets[of] = "open" /\ user.status = "active"
  IN /\ At(r, "reset")
     /\ \/ /\ valid /\ new # user.password
           /\ user' = [user EXCEPT !.password = new, !.mustChange = FALSE, !.version = @ + 1]
           /\ resets' = Closed(resets)
           /\ challenges' = Closed(challenges)
           /\ spent' = spent \union {<<"token", of, r>>}
           /\ Proceed(r)
        \/ /\ valid /\ new = user.password
           /\ Refuse(r, <<>>)
           /\ UNCHANGED <<account, spent>>
        \/ /\ resets' = [resets EXCEPT ![of] = Late(@)]
           /\ Refuse(r, <<"audit">>)
           /\ UNCHANGED <<user, challenges, spent>>
     /\ UNCHANGED <<redis, audit, faults>>

-----------------------------------------------------------------------------
(* PostgresAuditLogRepository.record: one transaction under an advisory lock. *)

Recording == {"attempt", "audit", "activity"}
Free == \A q \in Requests : writer[q] = Idle
ChainHead == IF log = {} THEN 0 ELSE Max({x.seq : x \in log})

(* verifyIntegrity: walks the records in the order of their numbers. *)
VerifyIntegrity(records) ==
  \A x \in records :
    LET before == {y \in records : y.seq < x.seq}
    IN x.prev = IF before = {} THEN 0 ELSE Max({y.seq : y \in before})

AuditBeginUnlocked(r) ==
  /\ \E step \in Recording : At(r, step)
  /\ writer[r] = Idle
  /\ writer' = [writer EXCEPT ![r] = [seq |-> sequence + 1, prev |-> ChainHead]]
  /\ sequence' = sequence + 1
  /\ UNCHANGED <<account, redis, log, task, faults, spent>>

AuditBegin(r) ==
  /\ \E step \in Recording : At(r, step)
  /\ Free
  /\ writer' = [writer EXCEPT ![r] = [seq |-> sequence + 1, prev |-> ChainHead]]
  /\ sequence' = sequence + 1
  /\ UNCHANGED <<account, redis, log, task, faults, spent>>

AuditCommit(r) ==
  LET what == IF At(r, "activity") THEN "activity" ELSE "event"
  IN /\ writer[r] # Idle
     /\ log' = log \union {[seq |-> writer[r].seq, prev |-> writer[r].prev, by |-> r, what |-> what]}
     /\ writer' = [writer EXCEPT ![r] = Idle]
     /\ Proceed(r)
     /\ UNCHANGED <<account, redis, sequence, faults, spent>>

AuditFailsSilently(r) ==
  /\ writer[r] # Idle /\ faults < MaxFaults
  /\ faults' = faults + 1
  /\ writer' = [writer EXCEPT ![r] = Idle]
  /\ Proceed(r)
  /\ UNCHANGED <<account, redis, log, sequence, spent>>

(* A rollback; the number drawn from the sequence is lost.  Only the request  *)
(* for a reset has another try: it records that it has failed.                *)
AuditFails(r) ==
  /\ writer[r] # Idle /\ faults < MaxFaults
  /\ faults' = faults + 1
  /\ writer' = [writer EXCEPT ![r] = Idle]
  /\ IF At(r, "attempt")
     THEN Turn(r, task[r].outcome, <<"audit">>)
     ELSE Turn(r, "error", Thrown(r))
  /\ UNCHANGED <<account, redis, log, sequence, spent>>

(* Any other call fails before it has an effect. *)
CallFails(r) ==
  /\ task[r].steps # <<>> /\ Head(task[r].steps) \notin Recording
  /\ faults < MaxFaults
  /\ faults' = faults + 1
  /\ Turn(r, "error", Thrown(r))
  /\ UNCHANGED <<account, redis, audit, spent>>

Crash ==
  /\ faults < MaxFaults
  /\ faults' = faults + 1
  /\ task' = [r \in Requests |->
                IF task[r].steps = <<>> THEN task[r]
                ELSE [task[r] EXCEPT !.steps = <<>>, !.outcome = "error"]]
  /\ writer' = [r \in Requests |-> Idle]
  /\ UNCHANGED <<account, redis, log, sequence, spent>>

Begin(r) ==
  \/ Login(r) \/ VerifyLogin(r) \/ StartEnrollment(r) \/ FinishEnrollment(r)
  \/ Disable(r) \/ RegenerateRecoveryCodes(r) \/ ChangePassword(r)
  \/ ForgotPassword(r) \/ ResetPassword(r) \/ UpdateUser(r)
  \/ RevokeSessions(r) \/ Logout(r) \/ Denied(r)

Step(r) ==
  \/ RecordFailure(r) \/ SetExpiry(r) \/ ClearFailures(r) \/ CreateSession(r)
  \/ ReadMembers(r) \/ RevokeAllSessions(r) \/ RevokeSession(r)
  \/ CreateChallenge(r) \/ ConsumeChallenge(r) \/ ConsumeFactor(r)
  \/ ConfigureMfa(r) \/ DisableMfa(r) \/ Update(r)
  \/ CreatePasswordResetToken(r) \/ ResetPasswordWithToken(r)
  \/ AuditBegin(r) \/ AuditCommit(r)

Next ==
  \/ \E r \in Requests : Begin(r) \/ Step(r) \/ AuditFails(r) \/ CallFails(r)
  \/ \E k \in Kinds : WindowEnds(k)
  \/ Crash

Spec == Init /\ [][Next]_vars

-----------------------------------------------------------------------------
(* Every record names its predecessor in the order of the numbers, whoever    *)
(* writes, fails or crashes meanwhile: verifyIntegrity accepts the chain.     *)
ChainVerifies == VerifyIntegrity(log)

(* A challenge, a recovery code and a reset token each serve one request,     *)
(* even when two present it at once with copies of the same row.              *)
OnceEach ==
  \A x, y \in spent : <<x[1], x[2]>> = <<y[1], y[2]>> => x = y

(* A request is answered as done only when the trail says so: its event and,  *)
(* for a signed-in caller, its activity are committed.                        *)
AnsweredMeansRecorded ==
  \A r \in Requests :
    task[r].outcome = "ok" /\ task[r].steps = <<>> =>
      LET kinds == {x.what : x \in {y \in log : y.by = r}}
      IN kinds = IF task[r].kind \in Public THEN {"event"} ELSE {"event", "activity"}

=============================================================================
