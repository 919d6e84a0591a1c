-------------------------- MODULE ProvisioningProofs --------------------------
(***************************************************************************)
(* What Billing guarantees of the credentials it mails, for any number of  *)
(* buyers, payments, sign-ups and commands that are handled at once; what  *)
(* Onboarding guarantees of clusters, for every set of machines,           *)
(* organizations and administrators, whatever the contexts are called, and *)
(* for any number of jobs, requests and failures; and what holds of the    *)
(* catalog of plans, which both are ruled by.                              *)
(***************************************************************************)
EXTENDS Billing, Onboarding, TLAPS

(* Accounts *)

Steps == {"claim", "release", "free", "insert", "purchased", "find", "create", "attach",
          "created", "send", "finish", "recorded", "link", "failed", "email-failed", "refuse",
          "match", "apply", "insert-account", "reissue", "mark"}

Has(steps, x) == \E i \in 1..Len(steps) : steps[i] = x

(* The ways to a mail: of provisioning, and of the operator's command.      *)
ToMail == {Create, <<"attach", "created", "send", "finish", "recorded">>,
           <<"created", "send", "finish", "recorded">>, <<"send", "finish", "recorded">>}
ToResend == {<<"insert-account", "attach", "send", "mark">>, <<"attach", "send", "mark">>,
             <<"reissue", "send", "mark">>, <<"send", "mark">>}

(* Calls that write the row of the subscription, or come after it is there; *)
(* and those for which there is an account.                                 *)
OfRow == {"find", "create", "attach", "created", "send", "finish", "recorded", "link", "failed",
          "email-failed", "apply", "insert-account", "reissue", "mark"}
OfAccount == {"attach", "finish", "link", "reissue", "mark"}
Naming == {"send", "create", "insert-account", "reissue"}

RowFields == {"plan", "status", "provisioning", "user", "since"}
Held == {a \in Emails : accounts[a] # None}
InRows == {k \in Keys : /\ DOMAIN rows[k] = RowFields
                        /\ rows[k].user # None \/ rows[k].provisioning = "provisioned" =>
                             Address(k) \in Held}

Heads(steps, x) == steps # <<>> /\ Head(steps) = x

(* Calls that a handler of a kind may have left for a key, given the rows and *)
(* the accounts that there are.                                               *)
Fits(steps, kind, key, in, have) ==
  /\ steps \in Seq(Steps)
  /\ (\E x \in Naming : Has(steps, x)) => steps \in (IF kind = "resend" THEN ToResend ELSE ToMail)
  /\ kind = "resend" => \A x \in {"claim", "free", "insert", "find"} : ~Has(steps, x)
  /\ (\E x \in OfRow : Has(steps, x)) /\ ~Heads(steps, "insert") /\ ~Heads(steps, "match") =>
       key \in in
  /\ (\E x \in OfAccount : Has(steps, x)) /\ ~Heads(steps, "create") /\ ~Heads(steps, "insert-account") =>
       Address(key) \in have

TaskFields == {"kind", "steps", "key", "event", "copy", "password"}

TaskOK(t) ==
  /\ DOMAIN task[t] = TaskFields
  /\ IF task[t].kind = "idle" THEN task[t].steps = <<>> ELSE task[t].key \in Keys
  /\ Fits(task[t].steps, task[t].kind, task[t].key, InRows, Held)

RowsOK ==
  /\ DOMAIN rows = Keys
  /\ \A k \in Keys : rows[k] # None => k \in InRows

AccountsOK ==
  /\ DOMAIN accounts = Emails /\ DOMAIN mails = Emails
  /\ \A a \in Emails : /\ accounts[a] # None => accounts[a] \in [password : Nat, ours : BOOLEAN]
                       /\ DOMAIN mails[a] = {"sent", "passwords"} /\ mails[a].sent \in Nat

TasksOK == DOMAIN task = Tasks /\ \A t \in Tasks : TaskOK(t)

BillingType == TasksOK /\ RowsOK /\ AccountsOK /\ faults \in Nat

(* A handler that has made a password, or replaced it, and is to mail it.   *)
Mails(steps) == Has(steps, "send") /\ Head(steps) \in {"attach", "created", "send"}
Mailing(t) == Mails(task[t].steps)
Of(t) == Address(task[t].key)

(* Of an address one handler at most, of all that provision it, mails what it *)
(* made; for the account that it made it has found none.                      *)
OneMails ==
  /\ \A t \in Tasks : Mailing(t) /\ task[t].kind # "resend" =>
       accounts[Of(t)] # None /\ mails[Of(t)].sent = 0
  /\ \A t, u \in Tasks :
       /\ Mailing(t) /\ task[t].kind # "resend" /\ Mailing(u) /\ task[u].kind # "resend"
       /\ Of(t) = Of(u)
       => t = u
  /\ \A a \in Emails : accounts[a] = None => mails[a].sent = 0
  /\ MailedOnce

(* A password is mailed or will be.                                         *)
NoneIsLost ==
  faults = 0 =>
    \A a \in Emails : accounts[a] # None /\ accounts[a].ours =>
      \/ accounts[a].password \in mails[a].passwords
      \/ \E t \in Tasks : Mailing(t) /\ Of(t) = a /\ task[t].password = accounts[a].password

BillingInv == BillingType /\ OneMails /\ NoneIsLost

-----------------------------------------------------------------------------
(* Sequences of calls.                                                      *)

LEMMA HeadAndTail ==
  ASSUME NEW steps \in Seq(Steps), steps # <<>>
  PROVE  /\ Head(steps) \in Steps /\ Tail(steps) \in Seq(Steps)
         /\ \A x : Has(steps, x) <=> x = Head(steps) \/ Has(Tail(steps), x)
<1>1. /\ Len(steps) \in Nat \ {0} /\ Len(Tail(steps)) = Len(steps) - 1 /\ Head(steps) = steps[1]
      /\ \A i \in 1..Len(steps) - 1 : Tail(steps)[i] = steps[i + 1]
      /\ Head(steps) \in Steps /\ Tail(steps) \in Seq(Steps)
  OBVIOUS
<1>2. ASSUME NEW x
      PROVE  Has(steps, x) <=> x = Head(steps) \/ Has(Tail(steps), x)
  <2>1. ASSUME NEW i \in 1..Len(steps), steps[i] = x, i # 1
        PROVE  Has(Tail(steps), x)
    <3>1. i - 1 \in 1..Len(Tail(steps)) /\ Tail(steps)[i - 1] = x
      BY <1>1, <2>1
    <3> QED
      BY <3>1 DEF Has
  <2>2. ASSUME NEW i \in 1..Len(Tail(steps)), Tail(steps)[i] = x
        PROVE  Has(steps, x)
    <3>1. i + 1 \in 1..Len(steps) /\ steps[i + 1] = x
      BY <1>1, <2>2
    <3> QED
      BY <3>1 DEF Has
  <2>3. Has(steps, Head(steps))
    BY <1>1 DEF Has
  <2> QED
    BY <1>1, <2>1, <2>2, <2>3 DEF Has
<1> QED
  BY <1>1, <1>2

(* On the way to a mail; what is left when it is sent names nothing.        *)
LEMMA WaysToMail ==
  /\ \A s \in ToMail : /\ Head(s) \in {"create", "attach", "created", "send"} /\ Has(s, "send")
                       /\ Head(s) # "send" => Tail(s) \in ToMail
                       /\ Head(s) = "send" => \A x \in Naming : ~Has(Tail(s), x)
                       /\ Head(s) = "create" => Mails(Tail(s))
                       /\ Head(s) \in {"attach", "created"} => Mails(Tail(s))
  /\ \A s \in ToResend : /\ Head(s) \in {"insert-account", "reissue", "attach", "send"} /\ Has(s, "send")
                         /\ Head(s) # "send" => Tail(s) \in ToResend
                         /\ Head(s) = "send" => \A x \in Naming : ~Has(Tail(s), x)
                         /\ Head(s) # "send" => Mails(Tail(s))
<1>1. \A s \in {<<"send", "finish", "recorded">>, <<"send", "mark">>} :
        /\ Head(s) = "send" /\ Has(s, "send") /\ \A x \in Naming : ~Has(Tail(s), x)
  BY DEF Has, Naming
<1>2. /\ Tail(Create) = <<"attach", "created", "send", "finish", "recorded">> /\ Head(Create) = "create"
      /\ Has(Create, "send")
  BY DEF Create, Has
<1>3. LET s == <<"attach", "created", "send", "finish", "recorded">>
      IN Tail(s) = <<"created", "send", "finish", "recorded">> /\ Head(s) = "attach" /\ Has(s, "send")
  BY DEF Has
<1>4. LET s == <<"created", "send", "finish", "recorded">>
      IN Tail(s) = <<"send", "finish", "recorded">> /\ Head(s) = "created" /\ Has(s, "send")
  BY DEF Has
<1>5. LET s == <<"insert-account", "attach", "send", "mark">>
      IN Tail(s) = <<"attach", "send", "mark">> /\ Head(s) = "insert-account" /\ Has(s, "send")
  BY DEF Has
<1>6. LET s == <<"attach", "send", "mark">>
      IN Tail(s) = <<"send", "mark">> /\ Head(s) = "attach" /\ Has(s, "send")
  BY DEF Has
<1>7. LET s == <<"reissue", "send", "mark">>
      IN Tail(s) = <<"send", "mark">> /\ Head(s) = "reissue" /\ Has(s, "send")
  BY DEF Has
<1> QED
  BY <1>1, <1>2, <1>3, <1>4, <1>5, <1>6, <1>7 DEF ToMail, ToResend, Mails

LEMMA TailFits ==
  ASSUME NEW steps, NEW kind, NEW key, NEW in, NEW have, NEW in2, NEW have2,
         Fits(steps, kind, key, in, have), steps # <<>>, in \subseteq in2, have \subseteq have2,
         Head(steps) \in {"insert", "match"} => key \in in2,
         Head(steps) \in {"create", "insert-account"} => Address(key) \in have2
  PROVE  Fits(Tail(steps), kind, key, in2, have2)
<1>1. /\ steps \in Seq(Steps) /\ Tail(steps) \in Seq(Steps)
      /\ \A x : Has(Tail(steps), x) => Has(steps, x)
  BY HeadAndTail DEF Fits
<1>2. ASSUME NEW x \in Naming, Has(Tail(steps), x)
      PROVE  Tail(steps) \in (IF kind = "resend" THEN ToResend ELSE ToMail)
  <2>1. steps \in (IF kind = "resend" THEN ToResend ELSE ToMail)
    BY <1>1, <1>2 DEF Fits
  <2> QED
    BY <1>2, <2>1, WaysToMail
<1> QED
  BY <1>1, <1>2 DEF Fits, Heads

LEMMA FitsStill ==
  ASSUME NEW steps, NEW kind, NEW key, NEW in, NEW have, NEW in2, NEW have2,
         Fits(steps, kind, key, in, have), in \subseteq in2, have \subseteq have2
  PROVE  Fits(steps, kind, key, in2, have2)
  BY DEF Fits

(* Where a handler stands that is not on the way to a mail.                 *)
LEMMA NotMailing ==
  ASSUME NEW steps, NEW kind, NEW key, NEW in, NEW have, Fits(steps, kind, key, in, have)
  PROVE  /\ Mails(steps) => steps # <<>> /\ Head(steps) \in {"attach", "created", "send"}
         /\ steps # <<>> /\ Head(steps) \notin {"create", "insert-account", "reissue", "attach", "created", "send"}
              => \A x \in Naming : ~Has(steps, x)
         /\ steps # <<>> /\ Head(steps) \notin {"create", "insert-account", "reissue", "send"}
              => (Mails(Tail(steps)) <=> Mails(steps))
<1>1. ~Has(<<>>, "send")
  BY DEF Has
<1>2. Mails(steps) => steps # <<>> /\ Head(steps) \in {"attach", "created", "send"}
  BY <1>1 DEF Mails
<1>3. ASSUME steps # <<>>,
             Head(steps) \notin {"create", "insert-account", "reissue", "attach", "created", "send"},
             NEW x \in Naming, Has(steps, x)
      PROVE  FALSE
  BY <1>3, WaysToMail DEF Fits
<1>4. ASSUME steps # <<>>, Head(steps) \notin {"create", "insert-account", "reissue", "send"}
      PROVE  Mails(Tail(steps)) <=> Mails(steps)
  <2>1. \A x : Has(Tail(steps), x) => Has(steps, x)
    BY <1>4, HeadAndTail DEF Fits
  <2>2. CASE Has(steps, "send")
    BY <1>4, <2>2, WaysToMail DEF Fits, Naming, Mails
  <2>3. CASE ~Has(steps, "send")
    BY <2>1, <2>3 DEF Mails
  <2> QED
    BY <2>2, <2>3
<1> QED
  BY <1>2, <1>3, <1>4

(* What handlers begin with, and what they are sent to.                     *)
LEMMA NoCalls ==
  ASSUME NEW kind, NEW key, NEW in, NEW have
  PROVE  /\ Fits(<<>>, kind, key, in, have) /\ ~Mails(<<>>)
         /\ Fits(<<"refuse">>, kind, key, in, have) /\ ~Mails(<<"refuse">>)
<1>1. \A x : ~Has(<<>>, x) /\ (Has(<<"refuse">>, x) <=> x = "refuse")
  BY DEF Has
<1>2. <<>> \in Seq(Steps) /\ <<"refuse">> \in Seq(Steps)
  BY DEF Steps
<1> QED
  BY <1>1, <1>2 DEF Fits, Mails, Naming, OfRow, OfAccount

LEMMA Openings ==
  ASSUME NEW key, NEW in, NEW have
  PROVE  /\ Fits(<<"claim">>, "webhook", key, in, have) /\ ~Mails(<<"claim">>)
         /\ Fits(<<"free">>, "free", key, in, have) /\ ~Mails(<<"free">>)
         /\ \A kind : Fits(<<"match", "apply">>, kind, key, in, have) /\ ~Mails(<<"match", "apply">>)
         /\ \A kind : kind # "resend" => Fits(Provision, kind, key, in, have) /\ ~Mails(Provision)
         /\ \A kind : Fits(<<"purchased">>, kind, key, in, have) /\ ~Mails(<<"purchased">>)
<1>1. /\ \A x : (Has(<<"claim">>, x) <=> x = "claim") /\ (Has(<<"free">>, x) <=> x = "free")
      /\ \A x : (Has(<<"purchased">>, x) <=> x = "purchased")
  BY DEF Has
<1>2. \A x : Has(<<"match", "apply">>, x) <=> x \in {"match", "apply"}
  BY DEF Has
<1>3. \A x : Has(Provision, x) <=> x \in {"insert", "purchased", "find"}
  BY DEF Has, Provision
<1>4. <<"claim">> \in Seq(Steps) /\ <<"free">> \in Seq(Steps) /\ <<"purchased">> \in Seq(Steps)
  BY DEF Steps
<1>5. <<"match", "apply">> \in Seq(Steps) /\ Provision \in Seq(Steps)
  BY DEF Steps, Provision
<1>6. Heads(<<"match", "apply">>, "match") /\ Heads(Provision, "insert")
  BY DEF Heads, Provision
<1> QED
  BY <1>1, <1>2, <1>3, <1>4, <1>5, <1>6 DEF Fits, Mails, Naming, OfRow, OfAccount

LEMMA Fallbacks ==
  ASSUME NEW kind, NEW key, NEW in, NEW have, key \in in
  PROVE  /\ Fits(<<"email-failed">>, kind, key, in, have) /\ ~Mails(<<"email-failed">>)
         /\ kind # "resend" => Fits(Create, kind, key, in, have) /\ ~Mails(Create)
         /\ Address(key) \in have => Fits(Link, kind, key, in, have)
         /\ ~Mails(Link)
<1>1. \A x : Has(<<"email-failed">>, x) <=> x = "email-failed"
  BY DEF Has
<1>2. \A x : Has(Link, x) <=> x \in {"link", "recorded"}
  BY DEF Has, Link
<1>3. \A x : Has(Create, x) => x \in {"create", "attach", "created", "send", "finish", "recorded"}
  BY DEF Has, Create
<1>4. <<"email-failed">> \in Seq(Steps) /\ Link \in Seq(Steps) /\ Create \in Seq(Steps)
  BY DEF Steps, Link, Create
<1>5. Heads(Create, "create") /\ Create \in ToMail /\ Head(Create) = "create"
  BY DEF Heads, Create, ToMail
<1> QED
  BY <1>1, <1>2, <1>3, <1>4, <1>5 DEF Fits, Mails, Naming, OfRow, OfAccount

LEMMA Commands ==
  ASSUME NEW key, NEW in, NEW have, key \in in
  PROVE  LET make == <<"insert-account", "attach", "send", "mark">>
             renew == <<"reissue", "send", "mark">>
         IN /\ Fits(make, "resend", key, in, have) /\ ~Mails(make)
            /\ Address(key) \in have => Fits(renew, "resend", key, in, have)
            /\ ~Mails(renew)
<1> DEFINE make == <<"insert-account", "attach", "send", "mark">>
           renew == <<"reissue", "send", "mark">>
<1>1. \A x : Has(make, x) => x \in {"insert-account", "attach", "send", "mark"}
  BY DEF Has
<1>2. \A x : Has(renew, x) => x \in {"reissue", "send", "mark"}
  BY DEF Has
<1>3. make \in Seq(Steps) /\ renew \in Seq(Steps)
  BY DEF Steps
<1>4. Head(make) = "insert-account" /\ make # <<>> /\ Head(renew) = "reissue" /\ renew # <<>>
  OBVIOUS
<1>5. make \in ToResend /\ renew \in ToResend
  BY DEF ToResend
<1> HIDE DEF make, renew
<1>6. /\ Fits(make, "resend", key, in, have) /\ ~Mails(make)
      /\ Address(key) \in have => Fits(renew, "resend", key, in, have)
      /\ ~Mails(renew)
  BY <1>1, <1>2, <1>3, <1>4, <1>5 DEF Fits, Mails, Heads, Naming, OfRow, OfAccount
<1> QED
  BY <1>6 DEF make, renew

LEMMA OneAfterTheOther ==
  ASSUME NEW s \in Seq(Steps), NEW u \in Seq(Steps)
  PROVE  s \o u \in Seq(Steps) /\ \A x : Has(s \o u, x) => Has(s, x) \/ Has(u, x)
<1>1. /\ s \o u \in Seq(Steps) /\ Len(s \o u) = Len(s) + Len(u) /\ Len(s) \in Nat /\ Len(u) \in Nat
      /\ \A i \in 1..Len(s) + Len(u) : (s \o u)[i] = IF i <= Len(s) THEN s[i] ELSE u[i - Len(s)]
  OBVIOUS
<1>2. ASSUME NEW x, NEW i \in 1..Len(s) + Len(u), (s \o u)[i] = x
      PROVE  Has(s, x) \/ Has(u, x)
  <2>1. CASE i <= Len(s)
    BY <1>1, <1>2, <2>1 DEF Has
  <2>2. CASE ~(i <= Len(s))
    <3>1. i - Len(s) \in 1..Len(u) /\ u[i - Len(s)] = x
      BY <1>1, <1>2, <2>2
    <3> QED
      BY <3>1 DEF Has
  <2> QED
    BY <2>1, <2>2
<1> QED
  BY <1>1, <1>2 DEF Has

(* What a failure leaves to be done: no mail, and the row is marked only by *)
(* provisioning that has passed its insertion.                              *)
LEMMA Thrown ==
  ASSUME NEW t, Fits(task[t].steps, task[t].kind, task[t].key, InRows, Held), task[t].steps # <<>>
  PROVE  LET left == AfterFailure(t) \o <<"refuse">>
         IN Fits(left, task[t].kind, task[t].key, InRows, Held) /\ ~Mails(left)
<1> DEFINE left == AfterFailure(t) \o <<"refuse">>
           kind == task[t].kind
           key == task[t].key
<1>1. Head(task[t].steps) \in Guarded => key \in InRows
  <2>1. Has(task[t].steps, Head(task[t].steps))
    BY HeadAndTail DEF Fits
  <2> QED
    BY <2>1 DEF Fits, Guarded, OfRow, Heads
<1>2. /\ <<>> \in Seq(Steps) /\ <<"release">> \in Seq(Steps) /\ <<"failed">> \in Seq(Steps)
      /\ <<"refuse">> \in Seq(Steps)
  BY DEF Steps
<1>3. \A x : /\ ~Has(<<>>, x) /\ (Has(<<"release">>, x) => x = "release")
             /\ (Has(<<"failed">>, x) => x = "failed") /\ (Has(<<"refuse">>, x) => x = "refuse")
  BY DEF Has
<1>4. PICK release \in {<<"release">>, <<>>} :
        AfterFailure(t) \in {<<"failed">> \o release, release}
        /\ (AfterFailure(t) # release => Head(task[t].steps) \in Guarded)
  BY Zenon DEF AfterFailure
<1>5. /\ <<"failed">> \o release \in Seq(Steps)
      /\ \A x : Has(<<"failed">> \o release, x) => x \in {"failed", "release"}
  BY <1>2, <1>3, OneAfterTheOther
<1>6. /\ AfterFailure(t) \in Seq(Steps)
      /\ \A x : Has(AfterFailure(t), x) => x \in {"failed", "release"}
      /\ Has(AfterFailure(t), "failed") => key \in InRows
  BY <1>1, <1>2, <1>3, <1>4, <1>5
<1>7. /\ left \in Seq(Steps)
      /\ \A x : Has(left, x) => Has(AfterFailure(t), x) \/ x = "refuse"
  BY <1>2, <1>3, <1>6, OneAfterTheOther
<1> HIDE DEF left
<1>8. Fits(left, kind, key, InRows, Held) /\ ~Mails(left)
  BY <1>6, <1>7 DEF Fits, Mails, Naming, OfRow, OfAccount
<1> QED
  BY <1>8 DEF left

-----------------------------------------------------------------------------
(* The step of a handler, seen from the others.                             *)

Becomes(t, steps, password) ==
  /\ DOMAIN task' = Tasks /\ \A u \in Tasks \ {t} : task'[u] = task[u]
  /\ DOMAIN task'[t] = TaskFields
  /\ task'[t].kind = task[t].kind /\ task'[t].key = task[t].key
  /\ task'[t].steps = steps /\ task'[t].password = password

LEMMA Moves ==
  ASSUME TasksOK, NEW t \in Tasks
  PROVE  /\ \A s : Go(t, s) => Becomes(t, s, task[t].password)
         /\ Proceed(t) => Becomes(t, Tail(task[t].steps), task[t].password)
         /\ Throw(t) => Becomes(t, AfterFailure(t) \o <<"refuse">>, task[t].password)
         /\ \A p : task' = [task EXCEPT ![t].steps = Tail(@), ![t].password = p]
                    => Becomes(t, Tail(task[t].steps), p)
         /\ \A c : task' = [task EXCEPT ![t].steps = Tail(@), ![t].copy = c]
                    => Becomes(t, Tail(task[t].steps), task[t].password)
<1>1. DOMAIN task = Tasks /\ DOMAIN task[t] = TaskFields
  BY DEF TasksOK, TaskOK
<1>2. \A s : Go(t, s) => Becomes(t, s, task[t].password)
  BY <1>1 DEF Go, Becomes, TaskFields
<1>3. Proceed(t) => Becomes(t, Tail(task[t].steps), task[t].password)
  BY <1>1 DEF Proceed, Becomes, TaskFields
<1>4. Throw(t) => Becomes(t, AfterFailure(t) \o <<"refuse">>, task[t].password)
  BY <1>1 DEF Throw, Becomes, TaskFields
<1>5. \A p : task' = [task EXCEPT ![t].steps = Tail(@), ![t].password = p]
             => Becomes(t, Tail(task[t].steps), p)
  BY <1>1 DEF Becomes, TaskFields
<1>6. \A c : task' = [task EXCEPT ![t].steps = Tail(@), ![t].copy = c]
             => Becomes(t, Tail(task[t].steps), task[t].password)
  BY <1>1 DEF Becomes, TaskFields
<1> QED
  BY <1>2, <1>3, <1>4, <1>5, <1>6

LEMMA AddressIsEmail ==
  \A k \in Keys : Address(k) \in Emails
BY BillingAssumption DEF Keys, Address

LEMMA TasksStill ==
  ASSUME TasksOK, NEW t \in Tasks, NEW steps, NEW password, Becomes(t, steps, password),
         task[t].kind # "idle", InRows \subseteq InRows', Held \subseteq Held',
         Fits(steps, task[t].kind, task[t].key, InRows', Held')
  PROVE  TasksOK'
<1>1. \A u \in Tasks \ {t} : TaskOK(u)'
  <2> TAKE u \in Tasks \ {t}
  <2>1. TaskOK(u) /\ task'[u] = task[u]
    BY DEF TasksOK, Becomes
  <2>2. Fits(task[u].steps, task[u].kind, task[u].key, InRows', Held')
    BY <2>1, FitsStill DEF TaskOK
  <2> QED
    BY <2>1, <2>2 DEF TaskOK
<1>2. TaskOK(t)'
  BY DEF Becomes, TasksOK, TaskOK
<1> QED
  BY <1>1, <1>2 DEF TasksOK, Becomes

(* A handler whose mail, if it has one, stays as it is; or is lost, when a  *)
(* call fails.                                                              *)
LEMMA MailsStill ==
  ASSUME BillingInv, NEW t \in Tasks, NEW steps, NEW password, Becomes(t, steps, password),
         UNCHANGED <<accounts, mails>>,
         Mails(steps) => Mailing(t),
         faults' = 0 => /\ faults = 0
                        /\ Mailing(t) => Mails(steps) /\ password = task[t].password
  PROVE  OneMails' /\ NoneIsLost'
<1>1. \A u \in Tasks : /\ task'[u].kind = task[u].kind /\ task'[u].key = task[u].key
                       /\ Of(u)' = Of(u) /\ (Mailing(u)' => Mailing(u))
  BY DEF Becomes, Mailing, Of
<1>2. OneMails'
  BY <1>1 DEF BillingInv, OneMails, MailedOnce
<1>3. ASSUME faults' = 0
      PROVE  \A u \in Tasks : Mailing(u) => Mailing(u)' /\ task'[u].password = task[u].password
  BY <1>3 DEF Becomes, Mailing
<1>4. NoneIsLost'
  BY <1>1, <1>3 DEF BillingInv, NoneIsLost
<1> QED
  BY <1>2, <1>4

(* A step that leaves the tables alone, but for the rows.                   *)
LEMMA StepStill ==
  ASSUME BillingInv, NEW t \in Tasks, NEW steps, Becomes(t, steps, task[t].password),
         UNCHANGED <<accounts, mails, faults>>, task[t].kind # "idle", RowsOK', InRows \subseteq InRows',
         Fits(steps, task[t].kind, task[t].key, InRows', Held'), Mails(steps) <=> Mailing(t)
  PROVE  BillingInv'
<1>1. TasksOK'
  <2>1. TasksOK /\ Held \subseteq Held'
    BY DEF BillingInv, BillingType, Held
  <2> QED
    BY <2>1, TasksStill
<1>2. OneMails' /\ NoneIsLost'
  BY MailsStill
<1> QED
  BY <1>1, <1>2 DEF BillingInv, BillingType, AccountsOK

-----------------------------------------------------------------------------
(* The steps.                                                               *)

(* What is known of a handler that has a call to make.                      *)
LEMMA AtWork ==
  ASSUME BillingInv, NEW t \in Tasks, task[t].steps # <<>>
  PROVE  /\ task[t].kind # "idle" /\ task[t].key \in Keys /\ Of(t) \in Emails
         /\ Fits(task[t].steps, task[t].kind, task[t].key, InRows, Held)
         /\ Has(task[t].steps, Head(task[t].steps))
<1>1. TaskOK(t)
  BY DEF BillingInv, BillingType, TasksOK
<1>2. Has(task[t].steps, Head(task[t].steps))
  BY <1>1, HeadAndTail DEF TaskOK, Fits
<1> QED
  BY <1>1, <1>2, AddressIsEmail DEF TaskOK, Of

(* A call that leaves the tables alone and is followed by the next one.     *)
LEMMA Goes ==
  ASSUME BillingInv, NEW t \in Tasks, NEW steps, Go(t, steps), task[t].steps # <<>>,
         UNCHANGED <<rows, accounts, mails, faults>>,
         Fits(steps, task[t].kind, task[t].key, InRows, Held), Mails(steps) <=> Mailing(t)
  PROVE  BillingInv'
<1>1. Becomes(t, steps, task[t].password)
  BY Moves DEF BillingInv, BillingType
<1>2. RowsOK' /\ InRows' = InRows /\ Held' = Held
  BY DEF BillingInv, BillingType, RowsOK, InRows, Held
<1> QED
  BY <1>1, <1>2, AtWork, StepStill

LEMMA GoesOn ==
  ASSUME BillingInv, NEW t \in Tasks, Proceed(t), task[t].steps # <<>>,
         UNCHANGED <<rows, accounts, mails, faults>>,
         Head(task[t].steps) \in {"release", "purchased", "created", "recorded"}
  PROVE  BillingInv'
<1>1. Becomes(t, Tail(task[t].steps), task[t].password)
  BY Moves DEF BillingInv, BillingType
<1>2. RowsOK' /\ InRows' = InRows /\ Held' = Held
  BY DEF BillingInv, BillingType, RowsOK, InRows, Held
<1>3. /\ Fits(task[t].steps, task[t].kind, task[t].key, InRows, Held)
      /\ Fits(Tail(task[t].steps), task[t].kind, task[t].key, InRows, Held)
  BY AtWork, TailFits
<1>4. Mails(Tail(task[t].steps)) <=> Mailing(t)
  BY <1>3, NotMailing DEF Mailing
<1> QED
  BY <1>1, <1>2, <1>3, <1>4, AtWork, StepStill

LEMMA Throws ==
  ASSUME BillingInv, NEW t \in Tasks, Throw(t), task[t].steps # <<>>, ~Mailing(t),
         UNCHANGED <<rows, accounts, mails, faults>>
  PROVE  BillingInv'
<1> DEFINE left == AfterFailure(t) \o <<"refuse">>
<1>1. Becomes(t, left, task[t].password)
  BY Moves DEF BillingInv, BillingType
<1>2. RowsOK' /\ InRows' = InRows /\ Held' = Held
  BY DEF BillingInv, BillingType, RowsOK, InRows, Held
<1>3. Fits(left, task[t].kind, task[t].key, InRows, Held) /\ ~Mails(left)
  BY AtWork, Thrown
<1> HIDE DEF left
<1> QED
  BY <1>1, <1>2, <1>3, AtWork, StepStill

(* A call other than the ones before a mail is made by a handler that mails *)
(* nothing.                                                                 *)
LEMMA MailsNothing ==
  ASSUME BillingInv, NEW t \in Tasks, task[t].steps # <<>>,
         Head(task[t].steps) \notin {"attach", "created", "send"}
  PROVE  ~Mailing(t)
BY AtWork, NotMailing DEF Mailing

LEMMA ClaimStep ==
  ASSUME BillingInv, NEW t \in Tasks, Claim(t)
  PROVE  BillingInv'
<1>1. task[t].steps # <<>> /\ Head(task[t].steps) = "claim" /\ ~Mailing(t)
  BY MailsNothing DEF Claim, At
<1>2. /\ UNCHANGED <<rows, accounts, mails, faults>>
      /\ \E s \in {<<>>, Provision, <<"match", "apply">>} : Go(t, s)
  BY Zenon DEF Claim, bounds
<1>3. task[t].kind # "resend"
  BY <1>1, AtWork DEF Fits
<1> QED
  BY <1>1, <1>2, <1>3, Goes, NoCalls, Openings

LEMMA CheckFreeStep ==
  ASSUME BillingInv, NEW t \in Tasks, CheckFree(t)
  PROVE  BillingInv'
<1>1. task[t].steps # <<>> /\ Head(task[t].steps) = "free" /\ ~Mailing(t)
  BY MailsNothing DEF CheckFree, At
<1>2. /\ UNCHANGED <<rows, accounts, mails, faults>>
      /\ \E s \in {<<"refuse">>, Provision} : Go(t, s)
  BY Zenon DEF CheckFree, bounds, tables
<1>3. task[t].kind # "resend"
  BY <1>1, AtWork DEF Fits
<1> QED
  BY <1>1, <1>2, <1>3, Goes, NoCalls, Openings

LEMMA FindAccountStep ==
  ASSUME BillingInv, NEW t \in Tasks, FindAccount(t)
  PROVE  BillingInv'
<1>1. task[t].steps # <<>> /\ Head(task[t].steps) = "find" /\ ~Mailing(t)
  BY MailsNothing DEF FindAccount, At
<1>2. /\ task[t].kind # "resend" /\ task[t].key \in InRows
      /\ Of(t) \in Emails
  BY <1>1, AtWork DEF Fits, OfRow, Heads
<1>3. UNCHANGED <<rows, accounts, mails, faults>>
  BY DEF FindAccount, bounds, tables
<1>4. CASE Go(t, Create)
  BY <1>1, <1>2, <1>3, <1>4, Goes, Fallbacks
<1>5. CASE Throw(t)
  BY <1>1, <1>3, <1>5, Throws
<1>6. CASE accounts[Of(t)] # None /\ Go(t, Link)
  <2>1. Address(task[t].key) \in Held
    BY <1>2, <1>6 DEF Held, Of
  <2> QED
    BY <1>1, <1>2, <1>3, <1>6, <2>1, Goes, Fallbacks
<1> QED
  BY <1>4, <1>5, <1>6 DEF FindAccount, Of

LEMMA MatchStep ==
  ASSUME BillingInv, NEW t \in Tasks, Match(t)
  PROVE  BillingInv'
<1> DEFINE row == rows[task[t].key]
<1>1. task[t].steps # <<>> /\ Head(task[t].steps) = "match" /\ ~Mailing(t)
  BY MailsNothing DEF Match, At
<1>2. UNCHANGED <<rows, accounts, mails, faults>>
  BY DEF Match, bounds, tables
<1>3. CASE Throw(t)
  BY <1>1, <1>2, <1>3, Throws
<1>4. CASE row # None /\ task' = [task EXCEPT ![t].steps = Tail(@), ![t].copy = row.status]
  <2>1. Becomes(t, Tail(task[t].steps), task[t].password)
    BY <1>4, Moves DEF BillingInv, BillingType
  <2>2. RowsOK' /\ InRows' = InRows /\ Held' = Held
    BY <1>2 DEF BillingInv, BillingType, RowsOK, InRows, Held
  <2>3. /\ Fits(task[t].steps, task[t].kind, task[t].key, InRows, Held)
        /\ task[t].key \in InRows
    BY <1>1, <1>4, AtWork DEF BillingInv, BillingType, RowsOK
  <2>4. Fits(Tail(task[t].steps), task[t].kind, task[t].key, InRows, Held)
    BY <1>1, <2>3, TailFits
  <2>5. Mails(Tail(task[t].steps)) <=> Mailing(t)
    BY <1>1, <2>3, NotMailing DEF Mailing
  <2> QED
    BY <1>1, <1>2, <2>1, <2>2, <2>4, <2>5, AtWork, StepStill
<1> QED
  BY <1>3, <1>4 DEF Match

LEMMA ReleaseOrRecord ==
  ASSUME BillingInv, NEW t \in Tasks, Release(t) \/ AuditRecord(t)
  PROVE  BillingInv'
<1>1. /\ task[t].steps # <<>> /\ Proceed(t) /\ UNCHANGED <<rows, accounts, mails, faults>>
      /\ Head(task[t].steps) \in {"release", "purchased", "created", "recorded"}
  BY DEF Release, AuditRecord, At, bounds, tables
<1> QED
  BY <1>1, GoesOn

(* The row of a handler that writes to it.                                  *)
LEMMA RowsStill ==
  ASSUME BillingInv, NEW k \in Keys, NEW row, UNCHANGED accounts, rows' = [rows EXCEPT ![k] = row],
         DOMAIN row = RowFields,
         row.user # None \/ row.provisioning = "provisioned" => Address(k) \in Held
  PROVE  RowsOK' /\ InRows \subseteq InRows' /\ k \in InRows'
BY DEF BillingInv, BillingType, RowsOK, InRows, Held

LEMMA InsertRowStep ==
  ASSUME BillingInv, NEW t \in Tasks, InsertRow(t)
  PROVE  BillingInv'
<1> DEFINE k == task[t].key
<1>1. /\ task[t].steps # <<>> /\ Head(task[t].steps) = "insert" /\ ~Mailing(t)
      /\ UNCHANGED <<accounts, mails, faults>>
  BY MailsNothing DEF InsertRow, At, bounds
<1>2. k \in Keys /\ Fits(task[t].steps, task[t].kind, k, InRows, Held) /\ Held' = Held
  BY <1>1, AtWork DEF Held
<1>3. RowsOK' /\ InRows \subseteq InRows' /\ k \in InRows'
  <2>1. CASE rows[k] # None
    BY <1>1, <1>2, <2>1 DEF InsertRow, BillingInv, BillingType, RowsOK, InRows, Held
  <2>2. CASE rows[k] = None
    <3>1. PICK plan, since :
            rows' = [rows EXCEPT ![k] = [plan |-> plan, status |-> "active",
                                         provisioning |-> "pending", user |-> None, since |-> since]]
      BY <2>2, Zenon DEF InsertRow
    <3> QED
      BY <1>1, <1>2, <3>1, RowsStill DEF RowFields
  <2> QED
    BY <2>1, <2>2
<1>4. PICK steps \in {<<"purchased">>, Tail(task[t].steps)} : Becomes(t, steps, task[t].password)
  BY DEF InsertRow, BillingInv, BillingType, TasksOK, TaskOK, TaskFields, Becomes
<1>5. Fits(steps, task[t].kind, k, InRows', Held') /\ ~Mails(steps)
  <2>1. /\ Fits(Tail(task[t].steps), task[t].kind, k, InRows', Held')
        /\ ~Mails(Tail(task[t].steps))
    BY <1>1, <1>2, <1>3, TailFits, NotMailing DEF Mailing
  <2> QED
    BY <1>4, <2>1, Openings
<1> QED
  BY <1>1, <1>3, <1>4, <1>5, AtWork, StepStill

(* The calls that update the row.                                           *)
LEMMA RowStep ==
  ASSUME BillingInv, NEW t \in Tasks, Becomes(t, Tail(task[t].steps), task[t].password),
         task[t].steps # <<>>, UNCHANGED <<accounts, mails, faults>>,
         Head(task[t].steps) \notin {"insert", "match", "create", "insert-account", "reissue", "send"},
         RowsOK', InRows \subseteq InRows'
  PROVE  BillingInv'
<1>1. Fits(task[t].steps, task[t].kind, task[t].key, InRows, Held) /\ Held' = Held
  BY AtWork DEF Held
<1>2. /\ Fits(Tail(task[t].steps), task[t].kind, task[t].key, InRows', Held')
      /\ Mails(Tail(task[t].steps)) <=> Mailing(t)
  BY <1>1, TailFits, NotMailing DEF Mailing
<1> QED
  BY <1>2, AtWork, StepStill

LEMMA UpdateRowStep ==
  ASSUME BillingInv, NEW t \in Tasks, UpdateRow(t) \/ Apply(t)
  PROVE  BillingInv'
<1> DEFINE k == task[t].key
           x == Head(task[t].steps)
<1>1. /\ task[t].steps # <<>> /\ Proceed(t) /\ UNCHANGED <<accounts, mails, faults>>
      /\ x \in {"attach", "finish", "email-failed", "link", "failed", "mark", "apply"}
  BY DEF UpdateRow, Apply, At, bounds
<1>2. /\ k \in Keys /\ k \in InRows
      /\ x \in {"attach", "finish", "link", "mark"} => Address(k) \in Held
  BY <1>1, AtWork DEF Fits, OfRow, OfAccount, Heads
<1>3. DOMAIN rows = Keys /\ DOMAIN rows[k] = RowFields
  BY <1>2 DEF BillingInv, BillingType, RowsOK, InRows
<1>4. RowsOK' /\ InRows \subseteq InRows'
  <2>1. PICK row : /\ rows' = [rows EXCEPT ![k] = row] /\ DOMAIN row = RowFields
                   /\ \/ Address(k) \in Held
                      \/ /\ row.user = rows[k].user
                         /\ row.provisioning \in {rows[k].provisioning, "email_failed", "failed"}
    <3>1. CASE Apply(t)
      <4>1. PICK status, plan : rows' = [rows EXCEPT ![k].status = status, ![k].plan = plan]
        BY <3>1, Zenon DEF Apply
      <4> DEFINE r == [[rows[k] EXCEPT !.status = status] EXCEPT !.plan = plan]
      <4>2. /\ rows' = [rows EXCEPT ![k] = r] /\ DOMAIN r = RowFields
            /\ r.user = rows[k].user /\ r.provisioning = rows[k].provisioning
        BY <1>2, <1>3, <4>1 DEF RowFields
      <4> HIDE DEF r
      <4> QED
        BY <4>2
    <3>2. CASE x = "attach" /\ rows' = [rows EXCEPT ![k].user = Address(k)]
      BY <1>2, <1>3, <3>2 DEF RowFields
    <3>3. CASE x = "finish" /\ rows' = [rows EXCEPT ![k].provisioning = "provisioned"]
      BY <1>2, <1>3, <3>3 DEF RowFields
    <3>4. CASE x = "mark" /\ rows' = [rows EXCEPT ![k].provisioning = "provisioned"]
      BY <1>2, <1>3, <3>4 DEF RowFields
    <3>5. CASE rows' = [rows EXCEPT ![k].provisioning = "email_failed"]
      <4> DEFINE r == [rows[k] EXCEPT !.provisioning = "email_failed"]
      <4>1. /\ rows' = [rows EXCEPT ![k] = r] /\ DOMAIN r = RowFields
            /\ r.user = rows[k].user /\ r.provisioning = "email_failed"
        BY <1>2, <1>3, <3>5 DEF RowFields
      <4> HIDE DEF r
      <4> QED
        BY <4>1
    <3>6. CASE rows' = [rows EXCEPT ![k].provisioning = "failed"]
      <4> DEFINE r == [rows[k] EXCEPT !.provisioning = "failed"]
      <4>1. /\ rows' = [rows EXCEPT ![k] = r] /\ DOMAIN r = RowFields
            /\ r.user = rows[k].user /\ r.provisioning = "failed"
        BY <1>2, <1>3, <3>6 DEF RowFields
      <4> HIDE DEF r
      <4> QED
        BY <4>1
    <3>7. CASE /\ x = "link"
               /\ rows' = [rows EXCEPT ![k] = [rows[k] EXCEPT !.user = Address(k),
                                                              !.provisioning = "provisioned"]]
      BY <1>2, <1>3, <3>7 DEF RowFields
    <3> QED
      BY <3>1, <3>2, <3>3, <3>4, <3>5, <3>6, <3>7 DEF UpdateRow, At
  <2>2. row.user # None \/ row.provisioning = "provisioned" => Address(k) \in Held
    BY <1>2, <2>1 DEF InRows
  <2> QED
    BY <1>1, <1>2, <2>1, <2>2, RowsStill
<1>5. Becomes(t, Tail(task[t].steps), task[t].password)
  BY <1>1, Moves DEF BillingInv, BillingType
<1> QED
  BY <1>1, <1>4, <1>5, RowStep

(* A handler that makes an account of an address has found none: no other   *)
(* has a password to mail to it.                                            *)
LEMMA CreateAccountStep ==
  ASSUME BillingInv, NEW t \in Tasks, CreateAccount(t)
  PROVE  BillingInv'
<1> DEFINE a == Of(t)
           steps == task[t].steps
<1>1. /\ steps # <<>> /\ Head(steps) \in {"create", "insert-account"} /\ ~Mailing(t)
      /\ UNCHANGED <<rows, mails, faults>>
  BY MailsNothing DEF CreateAccount, At, bounds
<1>2. /\ task[t].kind # "idle" /\ task[t].key \in Keys /\ a \in Emails
      /\ Fits(steps, task[t].kind, task[t].key, InRows, Held)
      /\ steps \in ToMail \union ToResend /\ task[t].key \in InRows
  BY <1>1, AtWork DEF Fits, Naming, OfRow, Heads
<1>3. CASE accounts[a] # None /\ UNCHANGED accounts
  <2>1. CASE Throw(t)
    BY <1>1, <1>3, <2>1, Throws
  <2>2. CASE Go(t, Link)
    <3>1. Address(task[t].key) \in Held
      BY <1>2, <1>3 DEF Held, Of
    <3> QED
      BY <1>1, <1>2, <1>3, <2>2, <3>1, Goes, Fallbacks
  <2> QED
    BY <1>1, <1>3, <2>1, <2>2 DEF CreateAccount, Of
<1>4. CASE /\ accounts[a] = None
           /\ accounts' = [accounts EXCEPT ![a] = [password |-> 1, ours |-> TRUE]]
           /\ task' = [task EXCEPT ![t].steps = Tail(@), ![t].password = 1]
  <2>1. Becomes(t, Tail(steps), 1)
    BY <1>4, Moves DEF BillingInv, BillingType
  <2>2. /\ accounts'[a] = [password |-> 1, ours |-> TRUE]
        /\ \A b \in Emails \ {a} : accounts'[b] = accounts[b]
        /\ DOMAIN accounts' = Emails
    BY <1>2, <1>4 DEF BillingInv, BillingType, AccountsOK
  <2>3. [password |-> 1, ours |-> TRUE] \in [password : Nat, ours : BOOLEAN]
    OBVIOUS
  <2>4. accounts'[a] # None
    BY <2>2, <2>3, BillingAssumption
  <2>5. AccountsOK'
    BY <1>1, <2>2, <2>3 DEF BillingInv, BillingType, AccountsOK
  <2>6. Held' = Held \union {a}
    BY <1>2, <2>2, <2>4 DEF Held
  <2>7. RowsOK' /\ InRows \subseteq InRows'
    BY <1>1, <2>6 DEF BillingInv, BillingType, RowsOK, InRows
  <2>8. Fits(Tail(steps), task[t].kind, task[t].key, InRows', Held') /\ Mails(Tail(steps))
    <3>1. Mails(Tail(steps))
      BY <1>1, <1>2, WaysToMail
    <3>2. Address(task[t].key) \in Held'
      BY <2>6 DEF Of
    <3> QED
      BY <1>1, <1>2, <2>6, <2>7, <3>1, <3>2, TailFits
  <2>9. TasksOK'
    BY <1>2, <2>1, <2>6, <2>7, <2>8, TasksStill DEF BillingInv, BillingType
  <2>10. \A u \in Tasks : /\ task'[u].kind = task[u].kind /\ task'[u].key = task[u].key
                          /\ Of(u)' = Of(u)
                          /\ u # t => (Mailing(u)' <=> Mailing(u)) /\ task'[u] = task[u]
    BY <2>1 DEF Becomes, Mailing, Of
  <2>11. \A u \in Tasks \ {t} : Mailing(u) /\ task[u].kind # "resend" => Of(u) # a
    BY <1>4 DEF BillingInv, OneMails
  <2>12. OneMails'
    <3>1. mails[a].sent = 0
      BY <1>2, <1>4 DEF BillingInv, OneMails
    <3>2. ASSUME NEW u \in Tasks, Mailing(u)', task'[u].kind # "resend"
          PROVE  accounts'[Of(u)'] # None /\ mails'[Of(u)'].sent = 0
      <4>1. CASE u = t
        BY <1>1, <2>4, <2>10, <3>1, <4>1
      <4>2. CASE u # t
        <5>1. Mailing(u) /\ task[u].kind # "resend" /\ Of(u) \in Emails
          BY <2>10, <3>2, <4>2, AtWork, AddressIsEmail, NotMailing
             DEF BillingInv, BillingType, TasksOK, TaskOK, Mailing
        <5>2. accounts[Of(u)] # None /\ mails[Of(u)].sent = 0 /\ Of(u) # a
          BY <2>11, <4>2, <5>1 DEF BillingInv, OneMails
        <5> QED
          BY <1>1, <2>2, <2>10, <5>1, <5>2
      <4> QED
        BY <4>1, <4>2
    <3>3. ASSUME NEW u \in Tasks, NEW w \in Tasks, Mailing(u)', task'[u].kind # "resend",
                 Mailing(w)', task'[w].kind # "resend", Of(u)' = Of(w)'
          PROVE  u = w
      BY <2>10, <2>11, <3>3 DEF BillingInv, OneMails
    <3>4. \A b \in Emails : accounts'[b] = None => mails'[b].sent = 0
      BY <1>1, <2>2, <2>4 DEF BillingInv, OneMails
    <3>5. MailedOnce'
      BY <1>1 DEF BillingInv, OneMails, MailedOnce
    <3> QED
      BY <3>2, <3>3, <3>4, <3>5 DEF OneMails
  <2>13. NoneIsLost'
    <3> SUFFICES ASSUME faults' = 0, NEW b \in Emails, accounts'[b] # None, accounts'[b].ours
                 PROVE  \/ accounts'[b].password \in mails'[b].passwords
                        \/ \E u \in Tasks : /\ Mailing(u)' /\ Of(u)' = b
                                             /\ task'[u].password = accounts'[b].password
      BY DEF NoneIsLost
    <3>1. CASE b = a
      <4>1. Mailing(t)' /\ Of(t)' = b /\ task'[t].password = 1
        BY <2>1, <2>8, <2>10, <3>1 DEF Becomes, Mailing
      <4> QED
        BY <2>2, <3>1, <4>1
    <3>2. CASE b # a
      <4>1. \/ accounts[b].password \in mails[b].passwords
            \/ \E u \in Tasks : Mailing(u) /\ Of(u) = b /\ task[u].password = accounts[b].password
        BY <1>1, <2>2, <3>2 DEF BillingInv, NoneIsLost
      <4> QED
        BY <1>1, <2>2, <2>10, <3>2, <4>1
    <3> QED
      BY <3>1, <3>2
  <2> QED
    BY <1>1, <2>5, <2>7, <2>9, <2>12, <2>13 DEF BillingInv, BillingType
<1>5. \/ accounts[a] # None /\ UNCHANGED accounts
      \/ /\ accounts[a] = None
         /\ accounts' = [accounts EXCEPT ![a] = [password |-> 1, ours |-> TRUE]]
         /\ task' = [task EXCEPT ![t].steps = Tail(@), ![t].password = 1]
  BY Zenon DEF CreateAccount, Of
<1> QED
  BY <1>3, <1>4, <1>5

(* The mail of provisioning is the first that the address gets.             *)
LEMMA SendMailStep ==
  ASSUME BillingInv, NEW t \in Tasks, SendMail(t)
  PROVE  BillingInv'
<1> DEFINE a == Of(t)
           steps == task[t].steps
           more == IF task[t].kind = "resend" THEN 0 ELSE 1
<1>1. /\ steps # <<>> /\ Head(steps) = "send" /\ Proceed(t)
      /\ UNCHANGED <<rows, accounts, faults>>
      /\ mails' = [mails EXCEPT ![a] = [sent |-> @.sent + more,
                                        passwords |-> @.passwords \union {task[t].password}]]
  BY DEF SendMail, At, bounds, tables, Of
<1>2. /\ task[t].kind # "idle" /\ task[t].key \in Keys /\ a \in Emails /\ Mailing(t)
      /\ Fits(steps, task[t].kind, task[t].key, InRows, Held)
  BY <1>1, AtWork DEF Mailing, Mails
<1>3. /\ DOMAIN mails' = Emails /\ \A b \in Emails \ {a} : mails'[b] = mails[b]
      /\ mails'[a].sent = mails[a].sent + more
      /\ mails'[a].passwords = mails[a].passwords \union {task[t].password}
      /\ DOMAIN mails'[a] = {"sent", "passwords"}
  BY <1>1, <1>2 DEF BillingInv, BillingType, AccountsOK
<1>4. AccountsOK'
  <2>1. mails[a].sent \in Nat /\ more \in Nat
    BY <1>2 DEF BillingInv, BillingType, AccountsOK
  <2>2. mails'[a].sent \in Nat
    BY <1>3, <2>1
  <2> QED
    BY <1>1, <1>3, <2>2 DEF BillingInv, BillingType, AccountsOK
<1>5. Becomes(t, Tail(steps), task[t].password)
  BY <1>1, Moves DEF BillingInv, BillingType
<1>6. RowsOK' /\ InRows' = InRows /\ Held' = Held
  BY <1>1 DEF BillingInv, BillingType, RowsOK, InRows, Held
<1>7. Fits(Tail(steps), task[t].kind, task[t].key, InRows, Held) /\ ~Mails(Tail(steps))
  <2>1. steps \in ToMail \union ToResend
    BY <1>1, <1>2, AtWork DEF Fits, Naming
  <2>2. ~Has(Tail(steps), "send")
    BY <1>1, <2>1, WaysToMail DEF Naming
  <2> QED
    BY <1>1, <1>2, <2>2, TailFits DEF Mails
<1>8. TasksOK'
  BY <1>2, <1>5, <1>6, <1>7, TasksStill DEF BillingInv, BillingType
<1>9. \A u \in Tasks : /\ task'[u].kind = task[u].kind /\ task'[u].key = task[u].key
                       /\ Of(u)' = Of(u) /\ (Mailing(u)' => Mailing(u) /\ u # t)
                       /\ u # t => (Mailing(u)' <=> Mailing(u)) /\ task'[u] = task[u]
  BY <1>5, <1>7 DEF Becomes, Mailing, Of
<1>10. /\ accounts[a] = None => more = 0
       /\ more = 1 => /\ mails[a].sent = 0
                      /\ \A u \in Tasks \ {t} : Mailing(u) /\ task[u].kind # "resend" => Of(u) # a
  BY <1>2 DEF BillingInv, OneMails
<1>11. mails[a].sent \in Nat /\ mails[a].sent + 0 = mails[a].sent /\ more \in {0, 1}
  BY <1>2 DEF BillingInv, BillingType, AccountsOK
<1>12. OneMails'
  <2>1. ASSUME NEW u \in Tasks, Mailing(u)', task'[u].kind # "resend"
        PROVE  accounts'[Of(u)'] # None /\ mails'[Of(u)'].sent = 0
    <3>1. Mailing(u) /\ task[u].kind # "resend" /\ u # t
      BY <1>9, <2>1
    <3>2. accounts[Of(u)] # None /\ mails[Of(u)].sent = 0 /\ (Of(u) = a => more = 0)
      BY <1>10, <1>11, <3>1 DEF BillingInv, OneMails
    <3>3. Of(u) \in Emails
      BY <3>1, AtWork, NotMailing DEF BillingInv, BillingType, TasksOK, TaskOK, Mailing
    <3> QED
      BY <1>1, <1>3, <1>9, <1>11, <3>2, <3>3
  <2>2. ASSUME NEW u \in Tasks, NEW w \in Tasks, Mailing(u)', task'[u].kind # "resend",
               Mailing(w)', task'[w].kind # "resend", Of(u)' = Of(w)'
        PROVE  u = w
    BY <1>9, <2>2 DEF BillingInv, OneMails
  <2>3. \A b \in Emails : accounts'[b] = None => mails'[b].sent = 0
    BY <1>1, <1>3, <1>10, <1>11 DEF BillingInv, OneMails
  <2>4. MailedOnce'
    <3>1. mails'[a].sent <= 1
      BY <1>2, <1>3, <1>10, <1>11 DEF BillingInv, OneMails, MailedOnce
    <3> QED
      BY <1>3, <3>1 DEF BillingInv, OneMails, MailedOnce
  <2> QED
    BY <2>1, <2>2, <2>3, <2>4 DEF OneMails
<1>13. NoneIsLost'
  <2> SUFFICES ASSUME faults' = 0, NEW b \in Emails, accounts'[b] # None, accounts'[b].ours
               PROVE  \/ accounts'[b].password \in mails'[b].passwords
                      \/ \E u \in Tasks : /\ Mailing(u)' /\ Of(u)' = b
                                           /\ task'[u].password = accounts'[b].password
    BY DEF NoneIsLost
  <2>1. \/ accounts[b].password \in mails[b].passwords
        \/ \E u \in Tasks : Mailing(u) /\ Of(u) = b /\ task[u].password = accounts[b].password
    BY <1>1 DEF BillingInv, NoneIsLost
  <2>2. mails[b].passwords \subseteq mails'[b].passwords
    BY <1>3
  <2>3. ASSUME NEW u \in Tasks, Mailing(u), Of(u) = b, task[u].password = accounts[b].password
        PROVE  \/ accounts'[b].password \in mails'[b].passwords
               \/ Mailing(u)' /\ Of(u)' = b /\ task'[u].password = accounts'[b].password
    BY <1>1, <1>3, <1>9, <2>3
  <2> QED
    BY <1>1, <2>1, <2>2, <2>3
<1> QED
  BY <1>1, <1>4, <1>6, <1>8, <1>12, <1>13 DEF BillingInv, BillingType

(* The operator's command: the handler holds the password that replaces all *)
(* that were mailed.                                                        *)
LEMMA ReissueStep ==
  ASSUME BillingInv, NEW t \in Tasks, Reissue(t)
  PROVE  BillingInv'
<1> DEFINE a == Of(t)
           steps == task[t].steps
           new == accounts[a].password + 1
<1>1. /\ steps # <<>> /\ Head(steps) = "reissue" /\ ~Mailing(t)
      /\ UNCHANGED <<rows, mails, faults>>
      /\ accounts' = [accounts EXCEPT ![a].password = new]
      /\ task' = [task EXCEPT ![t].steps = Tail(@), ![t].password = new]
  BY MailsNothing DEF Reissue, At, bounds, Of
<1>2. /\ task[t].kind # "idle" /\ task[t].key \in Keys /\ a \in Emails
      /\ Fits(steps, task[t].kind, task[t].key, InRows, Held)
      /\ steps \in (IF task[t].kind = "resend" THEN ToResend ELSE ToMail) /\ a \in Held
  BY <1>1, AtWork DEF Fits, Naming, OfAccount, Heads, Of
<1>3. task[t].kind = "resend" /\ Mails(Tail(steps))
  BY <1>1, <1>2, WaysToMail
<1>4. /\ accounts[a] \in [password : Nat, ours : BOOLEAN] /\ DOMAIN accounts = Emails
  BY <1>2 DEF BillingInv, BillingType, AccountsOK, Held
<1>5. /\ \A b \in Emails \ {a} : accounts'[b] = accounts[b]
      /\ DOMAIN accounts' = Emails /\ accounts'[a].password = new
      /\ accounts'[a] \in [password : Nat, ours : BOOLEAN]
  BY <1>1, <1>2, <1>4
<1>6. accounts'[a] # None
  BY <1>5, BillingAssumption
<1>7. AccountsOK'
  BY <1>1, <1>5 DEF BillingInv, BillingType, AccountsOK
<1>8. Held' = Held
  BY <1>2, <1>5, <1>6 DEF Held
<1>9. RowsOK' /\ InRows' = InRows
  BY <1>1, <1>8 DEF BillingInv, BillingType, RowsOK, InRows
<1>10. Becomes(t, Tail(steps), new)
  BY <1>1, Moves DEF BillingInv, BillingType
<1>11. TasksOK'
  <2>1. Fits(Tail(steps), task[t].kind, task[t].key, InRows, Held)
    BY <1>1, <1>2, TailFits
  <2> QED
    BY <1>2, <1>8, <1>9, <1>10, <2>1, TasksStill DEF BillingInv, BillingType
<1>12. \A u \in Tasks : /\ task'[u].kind = task[u].kind /\ task'[u].key = task[u].key
                        /\ Of(u)' = Of(u)
                        /\ u # t => (Mailing(u)' <=> Mailing(u)) /\ task'[u] = task[u]
  BY <1>10 DEF Becomes, Mailing, Of
<1>13. \A b : b \in Emails => (accounts'[b] = None <=> accounts[b] = None)
  BY <1>2, <1>5, <1>6 DEF Held
<1>14. OneMails'
  <2>1. ASSUME NEW u \in Tasks, Mailing(u)', task'[u].kind # "resend"
        PROVE  accounts'[Of(u)'] # None /\ mails'[Of(u)'].sent = 0
    <3>1. Mailing(u) /\ task[u].kind # "resend" /\ Of(u)' = Of(u)
      BY <1>3, <1>12, <2>1
    <3>2. Of(u) \in Emails
      BY <3>1, AtWork, NotMailing DEF BillingInv, BillingType, TasksOK, TaskOK, Mailing
    <3> QED
      BY <1>1, <1>13, <3>1, <3>2 DEF BillingInv, OneMails
  <2>2. ASSUME NEW u \in Tasks, NEW w \in Tasks, Mailing(u)', task'[u].kind # "resend",
               Mailing(w)', task'[w].kind # "resend", Of(u)' = Of(w)'
        PROVE  u = w
    BY <1>3, <1>12, <2>2 DEF BillingInv, OneMails
  <2> QED
    BY <1>1, <1>13, <2>1, <2>2 DEF BillingInv, OneMails, MailedOnce
<1>15. NoneIsLost'
  <2> SUFFICES ASSUME faults' = 0, NEW b \in Emails, accounts'[b] # None, accounts'[b].ours
               PROVE  \/ accounts'[b].password \in mails'[b].passwords
                      \/ \E u \in Tasks : /\ Mailing(u)' /\ Of(u)' = b
                                           /\ task'[u].password = accounts'[b].password
    BY DEF NoneIsLost
  <2>1. CASE b = a
    <3>1. Mailing(t)' /\ Of(t)' = b
      BY <1>3, <1>10, <1>12, <2>1 DEF Becomes, Mailing
    <3>2. task'[t].password = accounts'[b].password
      BY <1>5, <1>10, <2>1 DEF Becomes
    <3> QED
      BY <3>1, <3>2
  <2>2. CASE b # a
    <3>1. \/ accounts[b].password \in mails[b].passwords
          \/ \E u \in Tasks : Mailing(u) /\ Of(u) = b /\ task[u].password = accounts[b].password
      BY <1>1, <1>5, <2>2 DEF BillingInv, NoneIsLost
    <3>2. accounts'[b] = accounts[b] /\ mails' = mails
      BY <1>1, <1>5, <2>2
    <3>3. ASSUME NEW u \in Tasks, Mailing(u), Of(u) = b, task[u].password = accounts[b].password
          PROVE  Mailing(u)' /\ Of(u)' = b /\ task'[u].password = accounts'[b].password
      BY <1>1, <1>12, <3>2, <3>3
    <3> QED
      BY <3>1, <3>2, <3>3
  <2> QED
    BY <2>1, <2>2
<1> QED
  BY <1>1, <1>7, <1>9, <1>11, <1>14, <1>15 DEF BillingInv, BillingType

(* A call that fails: what was to be mailed may be lost, and nothing else   *)
(* is mailed for it.                                                        *)
LEMMA CallFailsStep ==
  ASSUME BillingInv, NEW t \in Tasks, CallFails(t)
  PROVE  BillingInv'
<1>1. /\ task[t].steps # <<>> /\ UNCHANGED <<rows, accounts, mails>> /\ faults' = faults + 1
      /\ \/ Throw(t)
         \/ Head(task[t].steps) = "send" /\ Go(t, <<"email-failed">>)
  BY DEF CallFails, At, tables
<1>2. RowsOK' /\ AccountsOK' /\ InRows' = InRows /\ Held' = Held /\ faults' \in Nat \ {0}
  BY <1>1 DEF BillingInv, BillingType, RowsOK, AccountsOK, InRows, Held
<1>3. PICK steps : /\ Becomes(t, steps, task[t].password)
                   /\ Fits(steps, task[t].kind, task[t].key, InRows, Held) /\ ~Mails(steps)
  <2>1. CASE Throw(t)
    BY <1>1, <2>1, Moves, Thrown, AtWork DEF BillingInv, BillingType
  <2>2. CASE Head(task[t].steps) = "send" /\ Go(t, <<"email-failed">>)
    <3>1. task[t].key \in InRows
      BY <1>1, <2>2, AtWork DEF Fits, OfRow, Heads
    <3>2. Becomes(t, <<"email-failed">>, task[t].password)
      BY <2>2, Moves DEF BillingInv, BillingType
    <3> QED
      BY <3>1, <3>2, Fallbacks
  <2> QED
    BY <1>1, <2>1, <2>2
<1>4. TasksOK'
  BY <1>1, <1>2, <1>3, AtWork, TasksStill DEF BillingInv, BillingType
<1>5. OneMails' /\ NoneIsLost'
  BY <1>1, <1>2, <1>3, MailsStill
<1> QED
  BY <1>2, <1>4, <1>5 DEF BillingInv, BillingType

(* A handler that begins or ends has nothing to mail.                       *)
LEMMA BeginsOrEnds ==
  ASSUME BillingInv, NEW t \in Tasks, ~Mailing(t), UNCHANGED <<rows, accounts, mails, faults>>,
         NEW r, task' = [task EXCEPT ![t] = r], DOMAIN r = TaskFields,
         IF r.kind = "idle" THEN r.steps = <<>> ELSE r.key \in Keys,
         Fits(r.steps, r.kind, r.key, InRows, Held), ~Mails(r.steps)
  PROVE  BillingInv'
<1>1. /\ DOMAIN task' = Tasks /\ \A u \in Tasks \ {t} : task'[u] = task[u]
      /\ task'[t] = r
  BY DEF BillingInv, BillingType, TasksOK
<1>2. RowsOK' /\ AccountsOK' /\ InRows' = InRows /\ Held' = Held
  BY DEF BillingInv, BillingType, RowsOK, AccountsOK, InRows, Held
<1>3. TasksOK'
  <2>1. TaskOK(t)'
    BY <1>1, <1>2 DEF TaskOK
  <2>2. \A u \in Tasks \ {t} : TaskOK(u)'
    BY <1>1, <1>2 DEF BillingInv, BillingType, TasksOK, TaskOK
  <2> QED
    BY <1>1, <2>1, <2>2 DEF TasksOK
<1>4. \A u \in Tasks : /\ Mailing(u)' <=> Mailing(u)
                       /\ u # t => task'[u] = task[u] /\ Of(u)' = Of(u)
  BY <1>1 DEF Mailing, Of
<1>5. OneMails'
  BY <1>4 DEF BillingInv, OneMails, MailedOnce
<1>6. NoneIsLost'
  BY <1>4 DEF BillingInv, NoneIsLost
<1> QED
  BY <1>2, <1>3, <1>5, <1>6 DEF BillingInv, BillingType

LEMMA AnswerStep ==
  ASSUME BillingInv, NEW t \in Tasks, Answer(t)
  PROVE  BillingInv'
<1>1. /\ task' = [task EXCEPT ![t] = Idle] /\ UNCHANGED <<rows, accounts, mails, faults>>
      /\ task[t].steps = <<>> \/ Heads(task[t].steps, "refuse")
  BY DEF Answer, At, Heads, tables, bounds
<1>2. ~Mailing(t)
  BY <1>1, MailsNothing, NoCalls DEF Heads, Mailing
<1>3. DOMAIN Idle = TaskFields /\ Idle.kind = "idle" /\ Idle.steps = <<>>
  BY DEF Idle, TaskFields
<1>4. Fits(Idle.steps, Idle.kind, Idle.key, InRows, Held) /\ ~Mails(Idle.steps)
  BY <1>3, NoCalls
<1> QED
  BY <1>1, <1>2, <1>3, <1>4, BeginsOrEnds

(* Requests: what each begins with.                                         *)
LEMMA RequestStep ==
  ASSUME BillingInv, NEW t \in Tasks,
         (\E n \in 1..MaxEvents : Webhook(t, n)) \/ FreeSignup(t) \/ Sync(t) \/ Resend(t),
         \A e \in events : e.session \in Sessions
  PROVE  BillingInv'
<1>1. PICK kind, key, event, steps :
        /\ Begin(t, kind, key, event, steps) /\ kind # "idle" /\ key \in Keys
        /\ Fits(steps, kind, key, InRows, Held) /\ ~Mails(steps)
  <2>1. CASE \E n \in 1..MaxEvents : Webhook(t, n)
    <3>1. PICK e \in events : Begin(t, "webhook", e.session, e, <<"claim">>)
      BY <2>1 DEF Webhook
    <3>2. e.session \in Keys
      BY DEF Keys
    <3> QED
      BY <3>1, <3>2, Openings
  <2>2. CASE FreeSignup(t)
    <3>1. PICK e \in Emails : Begin(t, "free", e, None, <<"free">>)
      BY <2>2 DEF FreeSignup, Request
    <3> QED
      BY <3>1, Openings DEF Keys
  <2>3. CASE Sync(t)
    <3>1. PICK k \in Sessions : Begin(t, "sync", k, SyncEvent(k), <<"match", "apply">>)
      BY <2>3 DEF Sync, Request
    <3> QED
      BY <3>1, Openings DEF Keys
  <2>4. CASE Resend(t)
    <3>1. PICK k \in Keys :
            /\ rows[k] # None
            /\ Begin(t, "resend", k, None,
                     IF rows[k].user = None THEN <<"insert-account", "attach", "send", "mark">>
                     ELSE <<"reissue", "send", "mark">>)
      BY <2>4 DEF Resend, Request
    <3>2. k \in InRows /\ (rows[k].user # None => Address(k) \in Held)
      BY <3>1 DEF BillingInv, BillingType, RowsOK, InRows
    <3>3. CASE rows[k].user = None
      BY <3>1, <3>2, <3>3, Commands
    <3>4. CASE rows[k].user # None
      BY <3>1, <3>2, <3>4, Commands
    <3> QED
      BY <3>3, <3>4
  <2> QED
    BY <2>1, <2>2, <2>3, <2>4
<1>2. task[t].kind = "idle" /\ ~Mailing(t)
  BY <1>1, NoCalls DEF Begin, BillingInv, BillingType, TasksOK, TaskOK, Mailing
<1> DEFINE r == [Idle EXCEPT !.kind = kind, !.key = key, !.event = event, !.steps = steps]
<1>3. UNCHANGED <<rows, accounts, mails, faults>> /\ task' = [task EXCEPT ![t] = r]
  BY <1>1 DEF Begin, tables
<1>4. DOMAIN r = TaskFields /\ r.kind = kind /\ r.key = key /\ r.steps = steps
  BY DEF Idle, TaskFields
<1> HIDE DEF r
<1>5. Fits(r.steps, r.kind, r.key, InRows, Held) /\ ~Mails(r.steps)
  BY <1>1, <1>4
<1> QED
  BY <1>1, <1>2, <1>3, <1>4, <1>5, BeginsOrEnds

-----------------------------------------------------------------------------
EventsOK == \A e \in events : e.session \in Sessions

LEMMA BillingInit ==
  Init => BillingInv /\ EventsOK
<1> SUFFICES ASSUME Init
             PROVE  BillingInv /\ EventsOK
  OBVIOUS
<1>1. /\ DOMAIN rows = Keys /\ \A k \in Keys : rows[k] = None
      /\ DOMAIN accounts = Emails /\ DOMAIN mails = Emails /\ DOMAIN task = Tasks
      /\ faults = 0 /\ events = {}
  BY DEF Init
<1>2. \A a \in Emails : /\ accounts[a] \in {None, [password |-> 0, ours |-> FALSE]}
                        /\ mails[a] = [sent |-> 0, passwords |-> {}]
  BY DEF Init
<1>3. \A t \in Tasks : task[t] = Idle
  BY DEF Init
<1>4. DOMAIN Idle = TaskFields /\ Idle.kind = "idle" /\ Idle.steps = <<>>
  BY DEF Idle, TaskFields
<1>5. \A t \in Tasks : TaskOK(t) /\ ~Mailing(t)
  BY <1>3, <1>4, NoCalls DEF TaskOK, Mailing
<1>6. BillingType
  <2>1. AccountsOK
    <3>1. [password |-> 0, ours |-> FALSE] \in [password : Nat, ours : BOOLEAN]
      OBVIOUS
    <3>2. \A a \in Emails : DOMAIN mails[a] = {"sent", "passwords"} /\ mails[a].sent = 0
      BY <1>2
    <3> QED
      BY <1>1, <1>2, <3>1, <3>2 DEF AccountsOK
  <2> QED
    BY <1>1, <1>5, <2>1 DEF BillingType, TasksOK, RowsOK
<1>7. OneMails
  BY <1>2, <1>5 DEF OneMails, MailedOnce
<1>8. NoneIsLost
  <2>1. [password |-> 0, ours |-> FALSE].ours = FALSE
    OBVIOUS
  <2> QED
    BY <1>2, <2>1 DEF NoneIsLost
<1> QED
  BY <1>1, <1>6, <1>7, <1>8 DEF BillingInv, EventsOK

LEMMA EventsStay ==
  ASSUME EventsOK, [Next]_vars
  PROVE  EventsOK'
<1>1. CASE Provider
  BY <1>1 DEF Provider, CompleteCheckout, SubscriptionChanges, Send, EventsOK
<1>2. CASE ~Provider
  <2>1. UNCHANGED events
    BY <1>2 DEF Next, vars, provider, Webhook, FreeSignup, Sync, Resend, Request, Begin, Step, Claim,
                Release, CheckFree, InsertRow, FindAccount, CreateAccount, UpdateRow, AuditRecord,
                SendMail, Reissue, Match, Apply, Answer, CallFails
  <2> QED
    BY <2>1 DEF EventsOK
<1> QED
  BY <1>1, <1>2

LEMMA BillingNext ==
  ASSUME BillingInv, EventsOK, [Next]_vars
  PROVE  BillingInv'
<1>1. CASE UNCHANGED <<rows, accounts, mails, task, faults>>
  BY <1>1 DEF BillingInv, BillingType, TasksOK, TaskOK, RowsOK, AccountsOK, InRows, Held, OneMails,
              NoneIsLost, MailedOnce, Mailing, Of
<1>2. CASE Provider \/ UNCHANGED vars
  BY <1>1, <1>2 DEF Provider, vars, tables, bounds
<1>3. ASSUME NEW t \in Tasks, (\E n \in 1..MaxEvents : Webhook(t, n)) \/ FreeSignup(t) \/ Sync(t) \/ Resend(t)
      PROVE  BillingInv'
  BY <1>3, RequestStep DEF EventsOK
<1>4. ASSUME NEW t \in Tasks, Step(t)
      PROVE  BillingInv'
  BY <1>4, ClaimStep, CheckFreeStep, FindAccountStep, MatchStep, ReleaseOrRecord, InsertRowStep,
     UpdateRowStep, CreateAccountStep, SendMailStep, ReissueStep, AnswerStep DEF Step
<1>5. ASSUME NEW t \in Tasks, CallFails(t)
      PROVE  BillingInv'
  BY <1>5, CallFailsStep
<1> QED
  BY <1>2, <1>3, <1>4, <1>5 DEF Next

(* The inductive invariant holds: an address has at most one handler that   *)
(* provisions it with a mail still to come, and the password of an account  *)
(* made by provisioning is mailed or in the hands of a handler that will.   *)
THEOREM BillingHolds ==
  Spec => [](BillingInv /\ EventsOK)
<1>1. BillingInv /\ EventsOK /\ [Next]_vars => (BillingInv /\ EventsOK)'
  BY BillingNext, EventsStay
<1> QED
  BY <1>1, BillingInit, PTL DEF Spec

(* However many payments, repeated events, free sign-ups and commands of    *)
(* the operator meet (BillingService.provision and the insert into users    *)
(* that loses), provisioning mails credentials to an address once.          *)
THEOREM OneMailEach ==
  Spec => []MailedOnce
<1>1. BillingInv => MailedOnce
  BY DEF BillingInv, OneMails
<1> QED
  BY <1>1, BillingHolds, PTL

(* When no call has failed and nothing is under way for an address, the     *)
(* account that provisioning made for it opens with a password that was     *)
(* mailed, though commands that replace it overtake the first mail.         *)
THEOREM MailOpens ==
  Spec => []MailOpensAccount
<1>1. BillingInv => MailOpensAccount
  <2> SUFFICES ASSUME BillingInv, faults = 0, NEW k \in Keys, Provisioned(k),
                      accounts[Address(k)].ours, Quiet(Address(k))
               PROVE  accounts[Address(k)].password \in mails[Address(k)].passwords
    BY DEF MailOpensAccount
  <2>1. Address(k) \in Held
    BY DEF Provisioned, BillingInv, BillingType, RowsOK, InRows
  <2>2. \A t \in Tasks : Mailing(t) => Of(t) # Address(k)
    <3> TAKE t \in Tasks
    <3>1. Mailing(t) => task[t].steps # <<>>
      BY NoCalls DEF Mailing
    <3> QED
      BY <3>1, AtWork DEF Quiet, Of
  <2> QED
    BY <2>1, <2>2 DEF BillingInv, NoneIsLost, Held
<1> QED
  BY <1>1, BillingHolds, PTL

-----------------------------------------------------------------------------
(* Clusters: the inductive invariant Inv is the typing of the parts,       *)
(* that assignments stay inside (InsideInv), that an identifier in use     *)
(* belongs to one machine (IdentityInv), and that what is recorded has its *)
(* row (HistoryInv).                                                       *)

(* Types *)

(* The stages of a command: those at which it knows its machine, and those at *)
(* which it knows its cluster.                                              *)
Bound == {"persist", "adopted", "save", "configure", "install", "verify", "received", "cleanup", "finally"}
Named == Bound \union {"remove-collectors", "unregister"}
Stages == Named \union {"none", "register", "load", "clear", "exit"}

Contexts == {ContextOf[m] : m \in Machines}
Operations ==
  [op : {"onboard", "uninstall"}, id : Ids, owner : Admins, file : Machines \union {Nothing}]
Files == [id : Ids, context : Contexts]
Childs == [at : Stages, machine : Machines \union {Nothing}, id : Ids \union {Nothing},
           context : Contexts \union {Nothing}, ok : BOOLEAN]
Answers == [at : {"none", "onboard", "create", "assign"}, id : Ids \union {Nothing}, file : Machines \union {Nothing}]

DatabaseOK ==
  /\ registry \in [Ids -> Orgs \union {Nothing}] /\ assigned \subseteq Admins \X Ids
  /\ raced \subseteq Admins \X Ids /\ recorded \subseteq Ids /\ reported \subseteq Ids

ClusterOK ==
  /\ connection \in [Machines -> Ids \union {Nothing}]
  /\ exporting \subseteq Machines /\ probe \subseteq Machines

ServerOK ==
  /\ local \in Files \union {Nothing}
  /\ kubeconfig \in [Ids -> Machines \union {Nothing}]

JobOK == started \in 0..MaxJobs /\ job \in Operations \union {Nothing}

ChildOK ==
  /\ child \in Childs
  /\ child.at \in Bound => child.machine \in Machines /\ child.context \in Contexts
  /\ child.at \in Named => child.id \in Ids

RequestOK ==
  /\ request \in [Admins -> Answers]
  /\ \A a \in Admins : request[a].at \in {"create", "assign"} => request[a].id \in Ids

TypeInv == DatabaseOK /\ ClusterOK /\ ServerOK /\ JobOK /\ ChildOK /\ RequestOK

LEMMA TypeInvImpliesTypeOK == TypeInv => TypeOK
  BY DEF TypeInv, TypeOK, DatabaseOK, ClusterOK, ServerOK, JobOK, Files, Contexts, Operations

LEMMA InitType == OnboardingInit => TypeInv
<1> SUFFICES ASSUME OnboardingInit PROVE TypeInv
  OBVIOUS
<1>1. DatabaseOK
  BY DEF OnboardingInit, DatabaseOK
<1>2. ClusterOK /\ ServerOK
  BY DEF OnboardingInit, ClusterOK, ServerOK
<1>3. JobOK
  BY OnboardingAssumption DEF OnboardingInit, JobOK
<1>4. ChildOK
  BY DEF OnboardingInit, ChildOK, Childs, NoChild, Stages, Bound, Named
<1>5. RequestOK
  BY DEF OnboardingInit, RequestOK, Answers, NoRequest
<1> QED
  BY <1>1, <1>2, <1>3, <1>4, <1>5 DEF TypeInv

(* What an action leaves alone keeps its type.                              *)
LEMMA Kept ==
  /\ DatabaseOK /\ UNCHANGED <<registry, assigned, raced, recorded, reported>> => DatabaseOK'
  /\ ClusterOK /\ UNCHANGED <<connection, exporting, probe>> => ClusterOK'
  /\ ServerOK /\ UNCHANGED <<local, kubeconfig>> => ServerOK'
  /\ JobOK /\ UNCHANGED <<started, job>> => JobOK'
  /\ ChildOK /\ UNCHANGED child => ChildOK'
  /\ RequestOK /\ UNCHANGED request => RequestOK'
<1>1. DatabaseOK /\ UNCHANGED <<registry, assigned, raced, recorded, reported>> => DatabaseOK'
  BY DEF DatabaseOK
<1>2. ClusterOK /\ UNCHANGED <<connection, exporting, probe>> => ClusterOK'
  BY DEF ClusterOK
<1>3. ServerOK /\ UNCHANGED <<local, kubeconfig>> => ServerOK'
  BY DEF ServerOK
<1>4. JobOK /\ UNCHANGED <<started, job>> => JobOK'
  BY DEF JobOK
<1>5. ChildOK /\ UNCHANGED child => ChildOK'
  BY DEF ChildOK
<1>6. RequestOK /\ UNCHANGED request => RequestOK'
  BY DEF RequestOK
<1> QED
  BY <1>1, <1>2, <1>3, <1>4, <1>5, <1>6

(* The job as an operation, while there is one.                             *)
LEMMA JobParts ==
  ASSUME JobOK, job # Nothing
  PROVE  /\ job.op \in {"onboard", "uninstall"} /\ job.id \in Ids /\ job.owner \in Admins
         /\ job.file \in Machines \union {Nothing}
         /\ Selected(job.file) \in Machines
  BY OnboardingAssumption DEF JobOK, Operations, Selected

LEMMA ChildParts ==
  ASSUME ChildOK
  PROVE  /\ child.at \in Stages /\ child.machine \in Machines \union {Nothing}
         /\ child.id \in Ids \union {Nothing} /\ child.context \in Contexts \union {Nothing}
         /\ child.ok \in BOOLEAN
  BY DEF ChildOK, Childs

(* A command that goes on to a stage at which it needs no more than before. *)
LEMMA ChildGoes ==
  ASSUME ChildOK, NEW step \in Stages, child' = [child EXCEPT !.at = step],
         step \in Bound => child.at \in Bound, step \in Named => child.at \in Named
  PROVE  ChildOK'
  BY DEF ChildOK, Childs

LEMMA ChildExits ==
  ASSUME ChildOK, NEW ok \in BOOLEAN, child' = [child EXCEPT !.at = "exit", !.ok = ok]
  PROVE  ChildOK'
  BY DEF ChildOK, Childs, Bound, Named, Stages

LEMMA CommandType ==
  ASSUME TypeInv, Command
  PROVE  TypeInv'
<1> USE DEF database, cluster, server, service, Doing, GoTo, Exit
<1>0. DatabaseOK /\ ClusterOK /\ ServerOK /\ JobOK /\ ChildOK /\ RequestOK
  BY DEF TypeInv
<1>1. CASE Register
  <2>1. job # Nothing
    BY <1>1 DEF Register
  <2>2. /\ job.id \in Ids /\ Selected(job.file) \in Machines
        /\ RegisteredId(Selected(job.file)) \in Ids
        /\ ContextOf[Selected(job.file)] \in Contexts
    BY <1>0, <2>1, JobParts DEF RegisteredId, ClusterOK, Contexts
  <2>3. ASSUME NEW id \in Ids,
               child' = [child EXCEPT !.at = "persist", !.machine = Selected(job.file), !.id = id,
                                      !.context = ContextOf[Selected(job.file)]]
        PROVE  ChildOK'
    BY <1>0, <2>2, <2>3 DEF ChildOK, Childs, Stages, Bound, Named
  <2>4. ChildOK'
    BY <1>1, <2>2, <2>3 DEF Register
  <2> QED
    BY <1>0, <1>1, <2>4, Kept DEF Register, TypeInv
<1>13. CASE Adopt
  <2>1. ChildOK'
    BY <1>0, <1>13, ChildGoes DEF Adopt, Stages, Bound, Named
  <2> QED
    BY <1>0, <1>13, <2>1, Kept DEF Adopt, TypeInv
<1>2. CASE Persist
  <2>1. child.id \in Ids /\ job.owner \in Admins /\ OrgOf[job.owner] \in Orgs
    BY <1>0, <1>2, JobParts, OnboardingAssumption DEF Persist, ChildOK, Bound, Named
  <2>2. ChildOK'
    BY <1>0, <1>2, ChildGoes DEF Persist, Stages, Bound, Named
  <2>3. DatabaseOK'
    BY <1>0, <1>2, <2>1 DEF Persist, Commit, DatabaseOK
  <2> QED
    BY <1>0, <1>2, <2>2, <2>3, Kept DEF Persist, TypeInv
<1>3. CASE Save
  <2>1. ChildOK'
    BY <1>0, <1>3, ChildGoes DEF Save, Stages, Bound, Named
  <2>2. local' \in Files
    BY <1>0, <1>3 DEF Save, ChildOK, Bound, Named, Files
  <2>3. ServerOK'
    BY <1>0, <1>3, <2>2 DEF Save, ServerOK
  <2> QED
    BY <1>0, <1>3, <2>1, <2>3, Kept DEF Save, TypeInv
<1>4. CASE Configure
  <2>1. ChildOK'
    BY <1>0, <1>4, ChildGoes DEF Configure, Stages, Bound, Named
  <2>2. ClusterOK'
    BY <1>0, <1>4 DEF Configure, ChildOK, Bound, Named, ClusterOK
  <2> QED
    BY <1>0, <1>4, <2>1, <2>2, Kept DEF Configure, TypeInv
<1>5. CASE Install \/ Verify
  <2>1. ChildOK'
    BY <1>0, <1>5, ChildGoes DEF Install, Verify, Stages, Bound, Named
  <2>2. ClusterOK'
    BY <1>0, <1>5 DEF Install, Verify, ChildOK, Bound, ClusterOK
  <2> QED
    BY <1>0, <1>5, <2>1, <2>2, Kept DEF Install, Verify, TypeInv
<1>6. CASE Received
  <2>1. ChildOK'
    BY <1>0, <1>6, ChildGoes DEF Received, Stages, Bound, Named
  <2> QED
    BY <1>0, <1>6, <2>1, Kept DEF Received, TypeInv
<1>7. CASE CleanUp
  <2>1. child.at \in Bound /\ child.at \in Named
    BY <1>7 DEF CleanUp, Stages, Bound, Named
  <2>2. ChildOK'
    <3>1. CASE GoTo("finally")
      BY <1>0, <2>1, <3>1, ChildGoes DEF Stages, Bound, Named
    <3>2. CASE Exit(FALSE) \/ Exit(TRUE)
      BY <1>0, <3>2, ChildExits
    <3>3. Exit(child.at = "cleanup") => Exit(FALSE) \/ Exit(TRUE)
      OBVIOUS
    <3> QED
      BY <1>7, <3>1, <3>2, <3>3 DEF CleanUp
  <2>3. ClusterOK'
    BY <1>0, <1>7 DEF CleanUp, ClusterOK
  <2> QED
    BY <1>0, <1>7, <2>2, <2>3, Kept DEF CleanUp, TypeInv
<1>8. CASE OnboardFails
  <2>1. ChildOK'
    BY <1>0, <1>8, ChildGoes, ChildExits DEF OnboardFails, Stages, Bound, Named
  <2>2. DatabaseOK'
    BY <1>0, <1>8 DEF OnboardFails, RollBack, DatabaseOK
  <2> QED
    BY <1>0, <1>8, <2>1, <2>2, Kept DEF OnboardFails, TypeInv
<1>9. CASE Load
  <2>1. CASE local # Nothing
    <3>1. local.id \in Ids /\ local.context \in Contexts
      BY <1>0, <2>1 DEF ServerOK, Files
    <3>2. ChildOK'
      BY <1>0, <1>9, <3>1, ChildExits DEF Load, ChildOK, Childs, Stages, Bound, Named
    <3> QED
      BY <1>0, <1>9, <3>2, Kept DEF Load, TypeInv
  <2>2. CASE local = Nothing
    <3>1. ChildOK'
      BY <1>0, <1>9, <2>2, ChildExits DEF Load
    <3> QED
      BY <1>0, <1>9, <3>1, Kept DEF Load, TypeInv
  <2> QED
    BY <2>1, <2>2
<1>10. CASE RemoveCollectors
  <2>1. ChildOK'
    BY <1>0, <1>10, ChildGoes, ChildExits DEF RemoveCollectors, Stages, Bound, Named
  <2>2. ClusterOK'
    BY <1>0, <1>10 DEF RemoveCollectors, ClusterOK, cluster
  <2> QED
    BY <1>0, <1>10, <2>1, <2>2, Kept DEF RemoveCollectors, TypeInv
<1>11. CASE Unregister
  <2>1. ChildOK'
    BY <1>0, <1>11, ChildGoes, ChildExits DEF Unregister, Stages, Bound, Named
  <2>2. DatabaseOK'
    BY <1>0, <1>11 DEF Unregister, Erase, DatabaseOK, database
  <2> QED
    BY <1>0, <1>11, <2>1, <2>2, Kept DEF Unregister, TypeInv
<1>12. CASE ClearLocal
  <2>1. ChildOK'
    BY <1>0, <1>12, ChildExits DEF ClearLocal
  <2>2. ServerOK'
    BY <1>0, <1>12 DEF ClearLocal, ServerOK
  <2> QED
    BY <1>0, <1>12, <2>1, <2>2, Kept DEF ClearLocal, TypeInv
<1> QED
  BY <1>1, <1>2, <1>3, <1>4, <1>5, <1>6, <1>7, <1>8, <1>9, <1>10, <1>11, <1>12, <1>13 DEF Command

LEMMA JobEndsType ==
  ASSUME TypeInv, Finish \/ Crash
  PROVE  TypeInv'
<1> USE DEF database, cluster, server, service
<1>0. DatabaseOK /\ ClusterOK /\ ServerOK /\ JobOK /\ ChildOK /\ RequestOK
  BY DEF TypeInv
<1>1. NoChild \in Childs
  BY DEF NoChild, Childs, Stages
<1>2. child' = NoChild => ChildOK'
  BY <1>1 DEF ChildOK, NoChild, Bound, Named
<1>3. started' = started /\ job' = Nothing => JobOK'
  BY <1>0 DEF JobOK
<1>4. CASE Finish
  <2>1. ServerOK'
    BY <1>0, <1>4 DEF Finish, ServerOK
  <2> QED
    BY <1>0, <1>2, <1>3, <1>4, <2>1, Kept DEF Finish, TypeInv
<1>5. CASE Crash
  <2>1. NoRequest \in Answers
    BY DEF NoRequest, Answers
  <2>2. RequestOK'
    BY <1>5, <2>1 DEF Crash, RequestOK, NoRequest
  <2>3. DatabaseOK'
    BY <1>0, <1>5 DEF Crash, RollBack, DatabaseOK
  <2> QED
    BY <1>0, <1>2, <1>3, <1>5, <2>2, <2>3, Kept DEF Crash, TypeInv
<1> QED
  BY <1>4, <1>5

(* A request that is written down, and one that is answered.                *)
LEMMA RequestWritten ==
  ASSUME RequestOK, NEW a \in Admins, NEW r \in Answers,
         r.at \in {"create", "assign"} => r.id \in Ids, request' = [request EXCEPT ![a] = r]
  PROVE  RequestOK'
  BY DEF RequestOK

LEMMA RequestAnswered ==
  ASSUME RequestOK, NEW a \in Admins, Answered(a)
  PROVE  RequestOK'
<1>1. NoRequest \in Answers /\ NoRequest.at = "none"
  BY DEF NoRequest, Answers
<1> QED
  BY <1>1 DEF RequestOK, Answered

LEMMA SpawnType ==
  ASSUME JobOK, ChildOK, NEW operation \in Operations, Spawn(operation)
  PROVE  JobOK' /\ ChildOK'
<1>1. JobOK'
  BY OnboardingAssumption DEF JobOK, Spawn
<1>2. child'.at \in {"register", "load"} /\ child' = [NoChild EXCEPT !.at = child'.at]
  BY DEF Spawn, NoChild
<1>3. ChildOK'
  BY <1>2 DEF ChildOK, Childs, NoChild, Stages, Bound, Named
<1> QED
  BY <1>1, <1>3

LEMMA RequestsType ==
  ASSUME TypeInv, Requests
  PROVE  TypeInv'
<1> USE DEF database, cluster, server, service
<1>0. DatabaseOK /\ ClusterOK /\ ServerOK /\ JobOK /\ ChildOK /\ RequestOK
  BY DEF TypeInv
<1>k. Known \subseteq Ids
  BY <1>0, OnboardingAssumption DEF Known, Ids, JobOK
<1>1. ASSUME NEW a \in Admins, NEW r \in Answers, Ask(a, r),
             r.at \in {"create", "assign"} => r.id \in Ids
      PROVE  TypeInv'
  <2>1. RequestOK'
    BY <1>0, <1>1, RequestWritten DEF Ask
  <2> QED
    BY <1>0, <1>1, <2>1, Kept DEF Ask, TypeInv
<1>2. ASSUME NEW a \in Admins, AskOnboard(a)
      PROVE  TypeInv'
  BY <1>1, <1>2 DEF AskOnboard, Answers
<1>3. ASSUME NEW a \in Admins, Start(a)
      PROVE  TypeInv'
  <2>1. RequestOK'
    BY <1>0, <1>3, RequestAnswered DEF Start
  <2>2. request[a].file \in Machines \union {Nothing}
    BY <1>0 DEF RequestOK, Answers
  <2>3. CASE UNCHANGED <<service, child, kubeconfig>>
    BY <1>0, <1>3, <2>1, <2>3, Kept DEF Start, TypeInv
  <2>4. CASE /\ Spawn([op |-> "onboard", id |-> started + 1, owner |-> a, file |-> request[a].file])
             /\ kubeconfig' = [kubeconfig EXCEPT ![started + 1] = request[a].file]
    <3>1. started + 1 \in Ids
      BY <1>0, <2>4, OnboardingAssumption DEF Spawn, Ids, JobOK
    <3>2. [op |-> "onboard", id |-> started + 1, owner |-> a, file |-> request[a].file] \in Operations
      BY <2>2, <3>1 DEF Operations
    <3>3. JobOK' /\ ChildOK'
      BY <1>0, <2>4, <3>2, SpawnType
    <3>4. ServerOK'
      BY <1>0, <1>3, <2>2, <2>4, <3>1 DEF ServerOK, Start
    <3> QED
      BY <1>0, <1>3, <2>1, <3>3, <3>4, Kept DEF Start, TypeInv
  <2> QED
    BY <1>3, <2>3, <2>4 DEF Start
<1>4. ASSUME NEW a \in Admins, CreateRow(a)
      PROVE  TypeInv'
  <2>1. request[a].id \in Ids /\ OrgOf[a] \in Orgs /\ request[a] \in Answers
    BY <1>0, <1>4, OnboardingAssumption DEF CreateRow, RequestOK
  <2>2. DatabaseOK'
    BY <1>0, <1>4, <2>1 DEF CreateRow, DatabaseOK
  <2>3. CASE request' = [request EXCEPT ![a].at = "assign"]
    <3>1. RequestOK'
      BY <1>0, <2>1, <2>3 DEF RequestOK, Answers
    <3> QED
      BY <1>0, <1>4, <2>2, <3>1, Kept DEF CreateRow, TypeInv
  <2>4. CASE Answered(a)
    BY <1>0, <1>4, <2>2, <2>4, Kept, RequestAnswered DEF CreateRow, TypeInv
  <2> QED
    BY <1>4, <2>3, <2>4 DEF CreateRow
<1>5. ASSUME NEW a \in Admins, AssignRow(a)
      PROVE  TypeInv'
  <2>1. RequestOK'
    BY <1>0, <1>5, RequestAnswered DEF AssignRow
  <2>2. DatabaseOK'
    BY <1>0, <1>5 DEF AssignRow, DatabaseOK, RequestOK
  <2> QED
    BY <1>0, <1>5, <2>1, <2>2, Kept DEF AssignRow, TypeInv
<1>6. ASSUME NEW a \in Admins, NEW i \in Ids, AskCreate(a, i)
      PROVE  TypeInv'
  BY <1>1, <1>6 DEF AskCreate, Answers
<1>7. ASSUME NEW a \in Admins, NEW i \in Ids, Uninstall(a, i)
      PROVE  TypeInv'
  <2>1. [op |-> "uninstall", id |-> i, owner |-> a, file |-> kubeconfig[i]] \in Operations
    BY <1>0 DEF Operations, ServerOK
  <2>2. JobOK' /\ ChildOK'
    BY <1>0, <1>7, <2>1, SpawnType DEF Uninstall
  <2> QED
    BY <1>0, <1>7, <2>2, Kept DEF Uninstall, TypeInv
<1>8. ASSUME NEW a \in Admins, NEW b \in Admins, NEW i \in Ids, AskAssign(a, b, i)
      PROVE  TypeInv'
  BY <1>1, <1>8 DEF AskAssign, Answers
<1>9. ASSUME NEW a \in Admins, NEW b \in Admins, NEW i \in Ids, Unassign(a, b, i)
      PROVE  TypeInv'
  <2>1. DatabaseOK'
    BY <1>0, <1>9 DEF Unassign, DatabaseOK
  <2> QED
    BY <1>0, <1>9, <2>1, Kept DEF Unassign, TypeInv
<1> QED
  BY <1>k, <1>2, <1>3, <1>4, <1>5, <1>6, <1>7, <1>8, <1>9 DEF Requests

LEMMA TelemetryType ==
  ASSUME TypeInv, (\E m \in Machines : Report(m)) \/ (\E i \in Ids : DeleteCluster(i) \/ Record(i))
  PROVE  TypeInv'
<1> USE DEF database, cluster, server, service
<1>0. DatabaseOK /\ ClusterOK /\ ServerOK /\ JobOK /\ ChildOK /\ RequestOK
  BY DEF TypeInv
<1>1. ASSUME NEW m \in Machines, Report(m)
      PROVE  TypeInv'
  <2>1. DatabaseOK'
    BY <1>0, <1>1 DEF Report, DatabaseOK, ClusterOK
  <2> QED
    BY <1>0, <1>1, <2>1, Kept DEF Report, TypeInv
<1>2. ASSUME NEW i \in Ids, DeleteCluster(i)
      PROVE  TypeInv'
  <2>1. DatabaseOK'
    BY <1>0, <1>2 DEF DeleteCluster, Erase, DatabaseOK
  <2> QED
    BY <1>0, <1>2, <2>1, Kept DEF DeleteCluster, TypeInv
<1>3. ASSUME NEW i \in Ids, Record(i)
      PROVE  TypeInv'
  <2>1. DatabaseOK'
    BY <1>0, <1>3, OnboardingAssumption DEF Record, DatabaseOK
  <2> QED
    BY <1>0, <1>3, <2>1, Kept DEF Record, TypeInv
<1> QED
  BY <1>1, <1>2, <1>3

LEMMA StepType == TypeInv /\ [OnboardingNext]_onboardingVars => TypeInv'
<1>1. TypeInv /\ UNCHANGED onboardingVars => TypeInv'
  BY Kept DEF onboardingVars, database, cluster, server, service, TypeInv
<1> QED
  BY <1>1, CommandType, JobEndsType, RequestsType, TelemetryType DEF OnboardingNext

-----------------------------------------------------------------------------
(* The inductive invariant *)

(* The stages between the choice of an identifier and its ConfigMap.        *)
Choosing == {"register", "persist", "adopted", "save", "configure"}

(* Machines report under identifiers of jobs; the job that is onboarding is *)
(* the last one that was started, and until it configures its machine none  *)
(* reports under its identifier.                                            *)
ConnectedByJobs == \A m \in Machines : connection[m] # Nothing => connection[m] \in 1..started

LastJob == job # Nothing /\ job.op = "onboard" => job.id = started /\ started \in 1..MaxJobs

FreshIdentity ==
  job # Nothing /\ job.op = "onboard" /\ child.at \in Choosing
    => \A m \in Machines : connection[m] # job.id

(* The identifier a command has chosen is its job's, or the machine's own.  *)
ChildIdentity ==
  child.at \in Choosing \ {"register"} => child.id = job.id \/ child.id = connection[child.machine]

IdentityInv == ConnectedByJobs /\ LastJob /\ FreshIdentity /\ ChildIdentity /\ IdentityIsUnique

(* What is recorded is about a row, and a command that uninstalls works on  *)
(* the cluster its job names.                                               *)
RecordedHasRow == \A i \in recorded : registry[i] # Nothing

UninstallsItsOwn ==
  job # Nothing /\ job.op = "uninstall" /\ child.at \in {"remove-collectors", "unregister"} => child.id = job.id

HistoryInv == RecordedHasRow /\ UninstallsItsOwn

(* Beside an adoption there are only assignments to the default             *)
(* organization, all of which were stored meanwhile.                        *)
AdoptionInv ==
  child.at = "adopted" =>
    /\ registry[child.id] = Default
    /\ \A p \in assigned : p[2] = child.id => p \in raced /\ OrgOf[p[1]] = Default

InsideInv == AssignmentsStayInside /\ AdoptionInv

Inv == TypeInv /\ InsideInv /\ IdentityInv /\ HistoryInv

LEMMA InitInv == OnboardingInit => Inv
<1> SUFFICES ASSUME OnboardingInit PROVE Inv
  OBVIOUS
<1>1. TypeInv
  BY InitType
<1>2. InsideInv /\ HistoryInv
  BY DEF OnboardingInit, NoChild, InsideInv, AssignmentsStayInside, AdoptionInv, HistoryInv,
         RecordedHasRow, UninstallsItsOwn
<1>3. IdentityInv
  BY DEF OnboardingInit, NoChild, IdentityInv, ConnectedByJobs, LastJob, FreshIdentity, ChildIdentity,
         Choosing, IdentityIsUnique
<1> QED
  BY <1>1, <1>2, <1>3 DEF Inv

(* A row that is given to the organization of whoever is assigned to it, or *)
(* to nobody's, keeps every assignment inside; so does an adoption but for   *)
(* what was stored beside it.                                               *)
LEMMA InsideStep ==
  ASSUME TypeInv, InsideInv, [OnboardingNext]_onboardingVars
  PROVE  InsideInv'
<1> USE DEF database, cluster, server, service, InsideInv
<1>0. /\ registry \in [Ids -> Orgs \union {Nothing}] /\ assigned \subseteq Admins \X Ids
      /\ Nothing \notin Orgs /\ OrgOf \in [Admins -> Orgs] /\ Default \in Orgs /\ child \in Childs
      /\ child.at \in Bound \/ child.at = "unregister" => child.id \in Ids
  BY OnboardingAssumption DEF TypeInv, DatabaseOK, ChildOK, Named
<1>1. ASSUME UNCHANGED <<registry, assigned, raced>>
      PROVE  AssignmentsStayInside'
  BY <1>1 DEF InsideInv, AssignmentsStayInside
<1>2. ASSUME child'.at # "adopted"
      PROVE  AdoptionInv'
  BY <1>2 DEF AdoptionInv
<1>3. ASSUME UNCHANGED <<registry, assigned, raced>>, child'.at = "adopted" => UNCHANGED child
      PROVE  InsideInv'
  BY <1>1, <1>3 DEF AdoptionInv
<1>4. ASSUME NEW i \in Ids, Erase(i)
      PROVE  AssignmentsStayInside'
  BY <1>0, <1>4 DEF Erase, AssignmentsStayInside
<1>5. ASSUME RollBack, UNCHANGED <<registry, assigned>>
      PROVE  AssignmentsStayInside'
  BY <1>0, <1>5 DEF RollBack, AssignmentsStayInside, AdoptionInv
<1>6. CASE Command
  <2> USE DEF Doing, GoTo, Exit
  <2>1. CASE Adopt
    <3>1. AssignmentsStayInside'
      BY <1>1, <2>1 DEF Adopt
    <3>2. child.id \in Ids /\ child'.id = child.id /\ UNCHANGED <<registry, assigned, raced>>
      BY <1>0, <2>1 DEF Adopt, Bound, Childs
    <3>3. registry[child.id] = Default /\ \A b \in Admins : <<b, child.id>> \notin assigned
      BY <2>1 DEF Adopt, Adopts
    <3>4. \A p \in assigned : p[2] # child.id
      BY <1>0, <3>3
    <3> QED
      BY <3>1, <3>2, <3>3, <3>4 DEF AdoptionInv
  <2>2. CASE Persist
    <3>1. job.owner \in Admins /\ child.id \in Ids /\ OrgOf[job.owner] \in Orgs
      BY <1>0, <2>2, JobParts DEF Persist, TypeInv, Bound
    <3>2. child'.at # "adopted"
      BY <1>0, <2>2 DEF Persist, Childs
    <3>3. /\ registry' = [registry EXCEPT ![child.id] = OrgOf[job.owner]]
          /\ assigned' = assigned \union {<<job.owner, child.id>>}
          /\ raced' = raced
      BY <2>2 DEF Persist, Commit
    <3>4. \A p \in assigned \ raced : p[2] = child.id => registry[child.id] = OrgOf[job.owner]
      BY <1>0, <2>2 DEF Persist, AssignmentsStayInside, AdoptionInv
    <3>5. AssignmentsStayInside'
      BY <1>0, <3>1, <3>3, <3>4 DEF AssignmentsStayInside
    <3> QED
      BY <1>2, <3>2, <3>5
  <2>3. CASE Unregister
    <3>1. child'.at # "adopted" /\ child.id \in Ids
      BY <1>0, <2>3 DEF Unregister, Childs
    <3>2. AssignmentsStayInside'
      BY <1>1, <1>4, <2>3, <3>1 DEF Unregister
    <3> QED
      BY <1>2, <3>1, <3>2
  <2>4. CASE OnboardFails
    <3>1. child'.at # "adopted"
      BY <1>0, <2>4 DEF OnboardFails, Childs
    <3> QED
      BY <1>2, <1>5, <2>4, <3>1 DEF OnboardFails
  <2>5. CASE Register \/ Save \/ Configure \/ Install \/ Verify \/ Received
    <3>1. UNCHANGED <<registry, assigned, raced>> /\ child'.at # "adopted"
      BY <1>0, <2>5 DEF Register, Save, Configure, Install, Verify, Received, Childs
    <3> QED
      BY <1>3, <3>1
  <2>6. CASE CleanUp \/ Load \/ RemoveCollectors \/ ClearLocal
    <3>1. UNCHANGED <<registry, assigned, raced>> /\ child'.at # "adopted"
      BY <1>0, <2>6 DEF CleanUp, Load, RemoveCollectors, ClearLocal, Childs
    <3> QED
      BY <1>3, <3>1
  <2> QED
    BY <1>6, <2>1, <2>2, <2>3, <2>4, <2>5, <2>6 DEF Command
<1>7. CASE Requests
  <2>1. ASSUME NEW a \in Admins, CreateRow(a)
        PROVE  InsideInv'
    <3>1. request[a].id \in Ids
      BY <2>1 DEF CreateRow, TypeInv, RequestOK
    <3>2. AssignmentsStayInside'
      BY <1>0, <2>1, <3>1 DEF CreateRow, AssignmentsStayInside
    <3>3. \A i \in Ids : registry[i] = Default => registry'[i] = Default
      BY <1>0, <2>1, <3>1 DEF CreateRow
    <3>4. AdoptionInv'
      BY <1>0, <2>1, <3>3 DEF CreateRow, AdoptionInv, Bound
    <3> QED
      BY <3>2, <3>4
  <2>2. ASSUME NEW a \in Admins, AssignRow(a)
        PROVE  InsideInv'
    <3> DEFINE i == request[a].id
    <3>1. i \in Ids /\ UNCHANGED <<registry, child>>
      BY <2>2 DEF AssignRow, TypeInv, RequestOK
    <3>2. CASE MayAssign(a, i)
      <4>1. /\ registry[i] = OrgOf[a] /\ assigned' = assigned \union {<<a, i>>}
            /\ raced' = IF Adopting(i) THEN raced \union {<<a, i>>} ELSE raced
        BY <2>2, <3>2 DEF AssignRow, MayAssign
      <4>2. AssignmentsStayInside'
        BY <1>0, <3>1, <4>1 DEF AssignmentsStayInside
      <4>3. AdoptionInv'
        BY <1>0, <3>1, <4>1 DEF AdoptionInv, Adopting
      <4> QED
        BY <4>2, <4>3
    <3>3. CASE UNCHANGED <<assigned, raced>>
      BY <1>3, <3>1, <3>3
    <3> QED
      BY <2>2, <3>2, <3>3 DEF AssignRow
  <2>3. ASSUME NEW a \in Admins, NEW b \in Admins, NEW i \in Known, Unassign(a, b, i)
        PROVE  InsideInv'
    <3>1. /\ UNCHANGED <<registry, child>>
          /\ assigned' = assigned \ {<<b, i>>} /\ raced' = raced \ {<<b, i>>}
      BY <2>3 DEF Unassign
    <3> QED
      BY <3>1 DEF AssignmentsStayInside, AdoptionInv
  <2>4. ASSUME NEW operation, Spawn(operation), UNCHANGED <<registry, assigned, raced>>
        PROVE  InsideInv'
    <3>1. child'.at # "adopted"
      BY <2>4 DEF Spawn, NoChild
    <3> QED
      BY <1>3, <2>4, <3>1
  <2>5. ASSUME NEW a \in Admins, AskOnboard(a) \/ Start(a)
        PROVE  InsideInv'
    BY <1>3, <2>4, <2>5 DEF AskOnboard, Ask, Start
  <2>6. ASSUME NEW a \in Admins, NEW b \in Admins, NEW i \in Known,
               AskCreate(a, i) \/ Uninstall(a, i) \/ AskAssign(a, b, i)
        PROVE  InsideInv'
    BY <1>3, <2>4, <2>6 DEF AskCreate, Ask, Uninstall, AskAssign
  <2> QED
    BY <1>7, <2>1, <2>2, <2>3, <2>5, <2>6 DEF Requests
<1>8. CASE Finish \/ Crash
  <2>1. child'.at # "adopted"
    BY <1>8 DEF Finish, Crash, NoChild
  <2> QED
    BY <1>1, <1>2, <1>5, <1>8, <2>1 DEF Finish, Crash
<1>9. ASSUME NEW i \in Ids, DeleteCluster(i)
      PROVE  InsideInv'
  <2>1. AssignmentsStayInside'
    BY <1>4, <1>9 DEF DeleteCluster
  <2>2. AdoptionInv'
    BY <1>0, <1>9 DEF DeleteCluster, Erase, Adopting, AdoptionInv
  <2> QED
    BY <2>1, <2>2
<1>10. ASSUME NEW i \in Ids, Record(i)
       PROVE  InsideInv'
  <2>1. AssignmentsStayInside'
    BY <1>0, <1>10 DEF Record, AssignmentsStayInside
  <2>2. AdoptionInv'
    BY <1>0, <1>10 DEF Record, AdoptionInv
  <2> QED
    BY <2>1, <2>2
<1>11. CASE UNCHANGED onboardingVars \/ \E m \in Machines : Report(m)
  BY <1>3, <1>11 DEF onboardingVars, Report
<1> QED
  BY <1>6, <1>7, <1>8, <1>9, <1>10, <1>11 DEF OnboardingNext

(* Only Configure gives a machine an identity.                              *)
LEMMA IdentityStep ==
  ASSUME TypeInv, IdentityInv, [OnboardingNext]_onboardingVars
  PROVE  IdentityInv'
<1> USE DEF database, cluster, server, service, IdentityInv
<1>0. /\ connection \in [Machines -> Ids \union {Nothing}] /\ Nothing \notin Machines \union Nat
      /\ started \in 0..MaxJobs /\ MaxJobs \in Nat
  BY OnboardingAssumption DEF TypeInv, ClusterOK, JobOK
<1>1. ASSUME UNCHANGED <<connection, started, job>>, child'.at \in Choosing => UNCHANGED child
      PROVE  IdentityInv'
  BY <1>1 DEF ConnectedByJobs, LastJob, FreshIdentity, ChildIdentity, IdentityIsUnique
<1>2. ASSUME UNCHANGED connection, started' = started, job' = Nothing, child' = NoChild
      PROVE  IdentityInv'
  BY <1>2 DEF NoChild, Choosing, ConnectedByJobs, LastJob, FreshIdentity, ChildIdentity, IdentityIsUnique
<1>3. ASSUME NEW operation \in Operations, Spawn(operation), UNCHANGED connection,
             operation.op = "onboard" => operation.id = started + 1
      PROVE  IdentityInv'
  <2>1. started' = started + 1 /\ started' \in 1..MaxJobs /\ job' = operation
    BY <1>0, <1>3 DEF Spawn
  <2>2. child'.at = "register" \/ child'.at = "load"
    BY <1>3 DEF Spawn, NoChild
  <2>3. ConnectedByJobs' /\ LastJob' /\ IdentityIsUnique'
    BY <1>0, <1>3, <2>1 DEF ConnectedByJobs, LastJob, IdentityIsUnique
  <2>4. FreshIdentity'
    BY <1>0, <1>3, <2>1 DEF FreshIdentity, ConnectedByJobs
  <2>5. ChildIdentity'
    BY <2>2 DEF ChildIdentity, Choosing
  <2> QED
    BY <2>3, <2>4, <2>5
<1>4. CASE Command
  <2> USE DEF Doing, GoTo, Exit
  <2>0. child \in Childs
    BY DEF TypeInv, ChildOK
  <2>1. CASE Register
    <3>1. /\ UNCHANGED <<connection, started, job>> /\ child.at = "register" /\ child'.at = "persist"
          /\ child'.id = RegisteredId(child'.machine) \/ child'.id = job.id
      BY <2>0, <2>1 DEF Register, Childs
    <3>2. child'.id = job.id \/ child'.id = connection[child'.machine]
      BY <3>1 DEF RegisteredId
    <3> QED
      BY <3>1, <3>2 DEF ConnectedByJobs, LastJob, FreshIdentity, ChildIdentity, IdentityIsUnique, Choosing
  <2>2. CASE Adopt \/ Persist \/ Save
    <3>1. /\ UNCHANGED <<connection, started, job>> /\ child.at \in Choosing \ {"register"}
          /\ UNCHANGED <<child.id, child.machine>>
      BY <2>0, <2>2 DEF Adopt, Persist, Save, Choosing, Childs
    <3> QED
      BY <3>1 DEF ConnectedByJobs, LastJob, FreshIdentity, ChildIdentity, IdentityIsUnique
  <2>3. CASE Configure
    <3>1. /\ job # Nothing /\ job.op = "onboard" /\ child.at = "configure" /\ child'.at = "install"
          /\ UNCHANGED <<started, job>> /\ connection' = [connection EXCEPT ![child.machine] = child.id]
      BY <2>0, <2>3 DEF Configure, Childs
    <3>2. child.machine \in Machines /\ child.id \in Ids /\ child.id # Nothing
      BY <3>1, OnboardingAssumption DEF TypeInv, ChildOK, Bound, Named, Ids
    <3>3. /\ child.id = job.id \/ child.id = connection[child.machine]
          /\ \A m \in Machines : connection[m] # job.id
          /\ job.id \in 1..started
      BY <3>1 DEF ChildIdentity, FreshIdentity, LastJob, Choosing
    <3>4. \A m \in Machines : connection'[m] = IF m = child.machine THEN child.id ELSE connection[m]
      BY <1>0, <3>1, <3>2
    <3>5. ConnectedByJobs' /\ IdentityIsUnique'
      BY <3>1, <3>2, <3>3, <3>4 DEF ConnectedByJobs, IdentityIsUnique
    <3>6. LastJob' /\ FreshIdentity' /\ ChildIdentity'
      BY <3>1 DEF LastJob, FreshIdentity, ChildIdentity, Choosing
    <3> QED
      BY <3>5, <3>6
  <2>4. CASE RemoveCollectors
    <3>1. UNCHANGED <<started, job>> /\ child'.at \notin Choosing
      BY <2>0, <2>4 DEF RemoveCollectors, Childs, Choosing
    <3>2. \A m \in Machines : connection'[m] \in {connection[m], Nothing}
      BY <1>0, <2>4 DEF RemoveCollectors
    <3> QED
      BY <3>1, <3>2 DEF ConnectedByJobs, LastJob, FreshIdentity, ChildIdentity, IdentityIsUnique
  <2>5. CASE Install \/ Verify \/ Received \/ CleanUp \/ OnboardFails
    <3>1. UNCHANGED <<connection, started, job>> /\ child'.at \notin Choosing
      BY <2>0, <2>5 DEF Install, Verify, Received, CleanUp, OnboardFails, Childs, Choosing
    <3> QED
      BY <1>1, <3>1
  <2>6. CASE Load \/ Unregister \/ ClearLocal
    <3>1. UNCHANGED <<connection, started, job>> /\ child'.at \notin Choosing
      BY <2>0, <2>6 DEF Load, Unregister, ClearLocal, Childs, Choosing
    <3> QED
      BY <1>1, <3>1
  <2> QED
    BY <1>4, <2>1, <2>2, <2>3, <2>4, <2>5, <2>6 DEF Command
<1>5. CASE Requests
  <2>1. ASSUME NEW a \in Admins, Start(a)
        PROVE  IdentityInv'
    <3>1. CASE UNCHANGED <<service, child>>
      BY <1>1, <2>1, <3>1 DEF Start
    <3>2. CASE Spawn([op |-> "onboard", id |-> started + 1, owner |-> a, file |-> request[a].file])
      <4>1. request[a].file \in Machines \union {Nothing}
        BY DEF TypeInv, RequestOK, Answers
      <4>2. started + 1 \in Ids
        BY <1>0, <3>2 DEF Spawn, Ids
      <4>3. [op |-> "onboard", id |-> started + 1, owner |-> a, file |-> request[a].file] \in Operations
        BY <4>1, <4>2 DEF Operations
      <4> QED
        BY <1>3, <2>1, <3>2, <4>3 DEF Start
    <3> QED
      BY <2>1, <3>1, <3>2 DEF Start
  <2>2. ASSUME NEW a \in Admins, NEW i \in Ids, Uninstall(a, i)
        PROVE  IdentityInv'
    <3>1. [op |-> "uninstall", id |-> i, owner |-> a, file |-> kubeconfig[i]] \in Operations
      BY DEF Operations, TypeInv, ServerOK
    <3> QED
      BY <1>3, <2>2, <3>1 DEF Uninstall
  <2>3. Known \subseteq Ids
    BY <1>0 DEF Known, Ids
  <2>4. ASSUME NEW a \in Admins, AskOnboard(a) \/ CreateRow(a) \/ AssignRow(a)
        PROVE  IdentityInv'
    BY <1>1, <2>4 DEF AskOnboard, Ask, CreateRow, AssignRow
  <2>5. ASSUME NEW a \in Admins, NEW b \in Admins, NEW i \in Known,
               AskCreate(a, i) \/ AskAssign(a, b, i) \/ Unassign(a, b, i)
        PROVE  IdentityInv'
    BY <1>1, <2>5 DEF AskCreate, Ask, AskAssign, Unassign
  <2> QED
    BY <1>5, <2>1, <2>2, <2>3, <2>4, <2>5 DEF Requests
<1> QED
  BY <1>1, <1>2, <1>4, <1>5 DEF OnboardingNext, onboardingVars, Finish, Crash, Report, DeleteCluster, Record

(* A row goes only when nothing is recorded about it, or with the records.  *)
LEMMA HistoryStep ==
  ASSUME TypeInv, HistoryInv, [OnboardingNext]_onboardingVars
  PROVE  /\ HistoryInv'
         /\ \A i \in recorded : i \notin recorded' \/ registry'[i] = Nothing
              => job # Nothing /\ job.op = "uninstall" /\ job.id = i
<1> USE DEF database, cluster, server, service, HistoryInv
<1> DEFINE Lost(i) == i \notin recorded' \/ registry'[i] = Nothing
           Asked(i) == job # Nothing /\ job.op = "uninstall" /\ job.id = i
           OwnNext == UninstallsItsOwn'
<1>0. /\ registry \in [Ids -> Orgs \union {Nothing}] /\ recorded \subseteq Ids
      /\ Nothing \notin Orgs /\ OrgOf \in [Admins -> Orgs] /\ Default \in Orgs /\ child \in Childs
  BY OnboardingAssumption DEF TypeInv, DatabaseOK, ChildOK
<1>1. ASSUME UNCHANGED <<registry, recorded>>
      PROVE  RecordedHasRow' /\ \A i \in recorded : ~Lost(i)
  BY <1>0, <1>1 DEF RecordedHasRow
<1>2. ASSUME NEW i \in Ids, registry' = [registry EXCEPT ![i] = Default] \/ \E o \in Orgs : registry' = [registry EXCEPT ![i] = o],
             recorded' = recorded
      PROVE  RecordedHasRow' /\ \A j \in recorded : ~Lost(j)
  BY <1>0, <1>2 DEF RecordedHasRow
<1>3. ASSUME UNCHANGED job, child'.at \in {"remove-collectors", "unregister"} => UNCHANGED child
      PROVE  OwnNext
  BY <1>3 DEF UninstallsItsOwn
<1>4. ASSUME child'.at \notin {"remove-collectors", "unregister"}
      PROVE  OwnNext
  BY <1>4 DEF UninstallsItsOwn
<1>10. UNCHANGED <<registry, recorded, job, child>>
         => OwnNext /\ RecordedHasRow' /\ \A j \in recorded : ~Lost(j)
  BY <1>1, <1>3
<1>5. CASE Command
  <2> USE DEF Doing, GoTo, Exit
  <2>1. CASE Persist
    <3>1. job.owner \in Admins /\ child.id \in Ids
      BY <2>1, JobParts DEF Persist, TypeInv, ChildOK, Bound, Named
    <3>2. RecordedHasRow' /\ \A j \in recorded : ~Lost(j)
      BY <1>0, <1>2, <2>1, <3>1 DEF Persist, Commit
    <3>3. child'.at = "save"
      BY <1>0, <2>1 DEF Persist, Childs
    <3> QED
      BY <1>4, <3>2, <3>3
  <2>2. CASE Unregister
    <3>1. child.id \in Ids /\ child.id = job.id /\ job # Nothing /\ job.op = "uninstall"
      BY <2>2 DEF Unregister, TypeInv, ChildOK, Named, UninstallsItsOwn
    <3>2. child'.at \notin {"remove-collectors", "unregister"}
      BY <1>0, <2>2 DEF Unregister, Childs
    <3>3. CASE UNCHANGED database
      BY <1>1, <1>4, <3>2, <3>3
    <3>4. CASE Erase(child.id) /\ recorded' = recorded \ {child.id}
      <4>1. RecordedHasRow'
        BY <1>0, <3>1, <3>4 DEF Erase, RecordedHasRow
      <4>2. \A j \in recorded : Lost(j) => j = child.id
        BY <1>0, <3>1, <3>4 DEF Erase, RecordedHasRow
      <4> QED
        BY <1>4, <3>1, <3>2, <4>1, <4>2
    <3> QED
      BY <2>2, <3>3, <3>4 DEF Unregister
  <2>3. CASE Load
    <3>1. UNCHANGED <<job, registry, recorded>>
      BY <2>3 DEF Load
    <3>2. (child'.at = "remove-collectors" /\ child'.id = job.id) \/ child'.at = "exit"
      BY <1>0, <2>3 DEF Load, Childs
    <3>3. OwnNext
      BY <3>1, <3>2 DEF UninstallsItsOwn
    <3> QED
      BY <1>1, <3>1, <3>3
  <2>4. CASE RemoveCollectors
    <3>1. UNCHANGED <<job, registry, recorded>> /\ child.at = "remove-collectors" /\ child'.id = child.id
      BY <1>0, <2>4 DEF RemoveCollectors, Childs
    <3>2. OwnNext
      BY <3>1 DEF UninstallsItsOwn
    <3> QED
      BY <1>1, <3>1, <3>2
  <2>5. CASE Register \/ Adopt \/ Save \/ Configure \/ Install \/ Verify
    <3>1. UNCHANGED <<registry, recorded>> /\ child'.at \notin {"remove-collectors", "unregister"}
      BY <1>0, <2>5 DEF Register, Adopt, Save, Configure, Install, Verify, Childs
    <3> QED
      BY <1>1, <1>4, <3>1
  <2>6. CASE Received \/ CleanUp \/ OnboardFails \/ ClearLocal
    <3>1. UNCHANGED <<registry, recorded>> /\ child'.at \notin {"remove-collectors", "unregister"}
      BY <1>0, <2>6 DEF Received, CleanUp, OnboardFails, ClearLocal, Childs
    <3> QED
      BY <1>1, <1>4, <3>1
  <2> QED
    BY <1>5, <2>1, <2>2, <2>3, <2>4, <2>5, <2>6 DEF Command
<1>6. CASE Requests
  <2>1. ASSUME NEW a \in Admins, CreateRow(a)
        PROVE  OwnNext /\ RecordedHasRow' /\ \A j \in recorded : ~Lost(j)
    <3>1. request[a].id \in Ids /\ OrgOf[a] \in Orgs
      BY <1>0, <2>1 DEF CreateRow, TypeInv, RequestOK
    <3> QED
      BY <1>1, <1>2, <1>3, <2>1, <3>1 DEF CreateRow
  <2>2. ASSUME NEW operation, Spawn(operation), UNCHANGED <<registry, recorded>>
        PROVE  OwnNext /\ RecordedHasRow' /\ \A j \in recorded : ~Lost(j)
    <3>1. child'.at \notin {"remove-collectors", "unregister"}
      BY <2>2 DEF Spawn, NoChild
    <3> QED
      BY <1>1, <1>4, <2>2, <3>1
  <2>3. ASSUME NEW a \in Admins, AskOnboard(a) \/ Start(a) \/ AssignRow(a)
        PROVE  OwnNext /\ RecordedHasRow' /\ \A j \in recorded : ~Lost(j)
    BY <1>10, <2>2, <2>3 DEF AskOnboard, Ask, Start, AssignRow
  <2>4. ASSUME NEW a \in Admins, NEW b \in Admins, NEW i \in Known,
               AskCreate(a, i) \/ Uninstall(a, i) \/ AskAssign(a, b, i) \/ Unassign(a, b, i)
        PROVE  OwnNext /\ RecordedHasRow' /\ \A j \in recorded : ~Lost(j)
    BY <1>10, <2>2, <2>4 DEF AskCreate, Ask, Uninstall, AskAssign, Unassign
  <2> QED
    BY <1>6, <2>1, <2>3, <2>4 DEF Requests
<1>7. CASE Finish \/ Crash
  <2>1. child'.at = "none" /\ UNCHANGED <<registry, recorded>>
    BY <1>7 DEF Finish, Crash, NoChild
  <2> QED
    BY <1>1, <1>4, <2>1
<1>8. ASSUME NEW i \in Ids, DeleteCluster(i)
      PROVE  OwnNext /\ RecordedHasRow' /\ \A j \in recorded : ~Lost(j)
  BY <1>0, <1>3, <1>8 DEF DeleteCluster, MayDelete, Erase, RecordedHasRow
<1>9. ASSUME NEW i \in Ids, Record(i)
      PROVE  OwnNext /\ RecordedHasRow' /\ \A j \in recorded : ~Lost(j)
  BY <1>0, <1>3, <1>9 DEF Record, RecordedHasRow
<1>11. /\ UninstallsItsOwn' /\ RecordedHasRow'
       /\ \A j \in recorded : Lost(j) => Asked(j)
  <2>1. CASE UNCHANGED onboardingVars \/ \E m \in Machines : Report(m)
    BY <1>10, <2>1 DEF onboardingVars, Report
  <2>2. CASE \E i \in Ids : DeleteCluster(i) \/ Record(i)
    BY <1>8, <1>9, <2>2
  <2> QED
    BY <1>5, <1>6, <1>7, <2>1, <2>2 DEF OnboardingNext
<1> QED
  BY <1>11

LEMMA StepInv == Inv /\ [OnboardingNext]_onboardingVars => Inv'
  BY StepType, InsideStep, IdentityStep, HistoryStep DEF Inv

THEOREM SpecInv == OnboardingSpec => []Inv
  BY InitInv, StepInv, PTL DEF OnboardingSpec

-----------------------------------------------------------------------------
(* The parts of the model keep to their types, however many machines,       *)
(* organizations and jobs there are.                                        *)
THEOREM WellTyped == OnboardingSpec => []TypeOK
<1>1. Inv => TypeOK
  BY TypeInvImpliesTypeOK DEF Inv
<1> QED
  BY <1>1, SpecInv, PTL

(* Whoever is assigned to a cluster belongs to the organization that owns   *)
(* it (migration 0025, cluster.cjs persistCluster), in every interleaving   *)
(* of requests, jobs, deletions and rows that come back, unless it was      *)
(* assigned while the cluster was being adopted.                            *)
THEOREM NobodyReachesAcross == OnboardingSpec => []AssignmentsStayInside
<1>1. Inv => AssignmentsStayInside
  BY DEF Inv, InsideInv
<1> QED
  BY <1>1, SpecInv, PTL

(* No two machines report under one identifier (resolveClusterId in         *)
(* cluster.cjs reads the ConfigMap before it takes the job's identifier).   *)
THEOREM OneIdentityEach == OnboardingSpec => []IdentityIsUnique
<1>1. Inv => IdentityIsUnique
  BY DEF Inv, IdentityInv
<1> QED
  BY <1>1, SpecInv, PTL

(* A cluster about which something is recorded goes only with an uninstall  *)
(* that was asked for, of that very cluster.                                *)
THEOREM NoHistoryLostUnasked == OnboardingSpec => HistoryIsKept
<1>1. Inv /\ [OnboardingNext]_onboardingVars
        => [\A i \in recorded : i \notin recorded' \/ registry'[i] = Nothing
              => job # Nothing /\ job.op = "uninstall" /\ job.id = i]_onboardingVars
  BY HistoryStep DEF Inv
<1> QED
  BY <1>1, SpecInv, PTL DEF OnboardingSpec, HistoryIsKept

-----------------------------------------------------------------------------
(* What the catalog (Plans) promises to whoever reads it: the guard, the    *)
(* pricing page, the allowance and a refusal that names the upgrade.        *)

LEMMA RankIsNat == \A plan \in PlanIds : PlanRank[plan] \in Nat
  BY DEF PlanIds, PlanRank

(* A module is introduced by one tier only.                                 *)
LEMMA IntroducedOnce ==
  ASSUME NEW p \in PlanIds, NEW q \in PlanIds,
         NEW feature \in IntroducedBy[p], feature \in IntroducedBy[q]
  PROVE  p = q
  BY DEF PlanIds, IntroducedBy

LEMMA MinimumPlanIntroduces ==
  ASSUME NEW feature \in PlanFeatures
  PROVE  /\ MinimumPlanFor(feature) \in PlanIds
         /\ feature \in IntroducedBy[MinimumPlanFor(feature)]
<1>1. PICK plan \in PlanIds : feature \in IntroducedBy[plan]
  BY DEF PlanFeatures
<1> QED
  BY <1>1 DEF MinimumPlanFor

(* A higher tier reaches whatever a lower one does (entitlements.ts:50:     *)
(* "Higher includes everything lower").                                     *)
THEOREM HigherIncludesLower ==
  ASSUME NEW p \in PlanIds, NEW q \in PlanIds, PlanRank[p] <= PlanRank[q]
  PROVE  FeaturesFor(p) \subseteq FeaturesFor(q)
<1> SUFFICES ASSUME NEW feature \in FeaturesFor(p)
             PROVE  feature \in FeaturesFor(q)
  OBVIOUS
<1>1. PICK r \in PlanIds : PlanRank[r] <= PlanRank[p] /\ feature \in IntroducedBy[r]
  BY DEF FeaturesFor
<1>2. PlanRank[r] <= PlanRank[q]
  BY <1>1, RankIsNat
<1> QED
  BY <1>1, <1>2 DEF FeaturesFor

(* The tier a refusal names opens the module, and no cheaper tier would: the *)
(* guard (planIncludes) and the refusal (minimumPlanFor) agree.              *)
THEOREM RefusalNamesTheUpgrade ==
  ASSUME NEW feature \in PlanFeatures, NEW plan \in PlanIds
  PROVE  PlanIncludes(plan, feature) <=> PlanRank[MinimumPlanFor(feature)] <= PlanRank[plan]
<1> DEFINE minimum == MinimumPlanFor(feature)
<1>1. minimum \in PlanIds /\ feature \in IntroducedBy[minimum]
  BY MinimumPlanIntroduces
<1>2. ASSUME PlanIncludes(plan, feature)
      PROVE  PlanRank[minimum] <= PlanRank[plan]
  <2>1. PICK q \in PlanIds : PlanRank[q] <= PlanRank[plan] /\ feature \in IntroducedBy[q]
    BY <1>2 DEF PlanIncludes, FeaturesFor
  <2>2. q = minimum
    BY <1>1, <2>1, IntroducedOnce
  <2> QED
    BY <2>1, <2>2
<1>3. ASSUME PlanRank[minimum] <= PlanRank[plan]
      PROVE  PlanIncludes(plan, feature)
  BY <1>1, <1>3 DEF PlanIncludes, FeaturesFor
<1> QED
  BY <1>2, <1>3

(* The tier named when an organization is at its limit admits one more       *)
(* cluster, and every cheaper tier refuses it.                               *)
THEOREM LimitRefusalNamesTheUpgrade ==
  ASSUME NEW used \in Nat, NEW unlimited \in Nat, used < unlimited
  PROVE  LET named == PlanAllowingClusters(used, unlimited)
         IN  /\ named \in PlanIds /\ used < ClusterLimit(named, unlimited)
             /\ \A plan \in PlanIds :
                  PlanRank[plan] < PlanRank[named] => ~(used < ClusterLimit(plan, unlimited))
<1> DEFINE allowing == {plan \in PlanIds : ClusterLimit(plan, unlimited) > used}
           cheapest(plan) == plan \in allowing /\ \A p \in allowing : PlanRank[plan] <= PlanRank[p]
           named == PlanAllowingClusters(used, unlimited)
<1>1. {"pro", "enterprise"} \subseteq allowing
  BY DEF PlanIds, ClusterLimit
<1>2. \E plan : cheapest(plan)
  <2>1. CASE "basic" \in allowing
    BY <2>1 DEF PlanIds, PlanRank
  <2>2. CASE "basic" \notin allowing
    BY <1>1, <2>2 DEF PlanIds, PlanRank
  <2> QED
    BY <2>1, <2>2
<1>3. cheapest(named)
  BY <1>1, <1>2 DEF PlanAllowingClusters
<1>4. \A plan \in PlanIds : PlanRank[plan] \in Nat
  BY RankIsNat
<1>5. \A plan \in PlanIds : ClusterLimit(plan, unlimited) \in Nat
  BY DEF ClusterLimit
<1> QED
  BY <1>3, <1>4, <1>5

=============================================================================
