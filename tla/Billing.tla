------------------------------ MODULE Billing -------------------------------
(***************************************************************************)
(* Billing of apps/api: a payment confirmed by Stripe becomes an           *)
(* administrator's account whose credentials are mailed to the buyer, and  *)
(* the later life of the subscription keeps its row up to date.            *)
(*                                                                         *)
(* The handlers are tasks that advance one awaited call at a time.         *)
(* `rows' is the table subscriptions by its unique checkout session; the   *)
(* session of a free sign-up is derived from the e-mail address, so an     *)
(* address is its own session.  `accounts' is the table users by address,  *)
(* `claims' the table processed_payment_events, and `delivered' what the   *)
(* provider knows to be answered with 200.  The passwords an account has   *)
(* had are numbered; `mails' holds those that were mailed to an address,   *)
(* and how often provisioning mailed one.  Of the history there are the    *)
(* events whose claim is `kept' because its release failed.                *)
(***************************************************************************)
EXTENDS Naturals, FiniteSets, Sequences

CONSTANTS
  Emails,      \* addresses of buyers
  Sessions,    \* checkout sessions opened at the provider
  Buyer,       \* the address of a checkout session
  Registered,  \* addresses that have an account already
  Tasks,       \* handlers that may run at the same time
  MaxEvents,   \* events the provider sends in a behaviour
  MaxFaults,   \* failed calls of a behaviour
  MaxIssues,   \* passwords an account gets in a behaviour
  MaxRequests, \* sign-ups, reconciliations and operator's commands in a behaviour
  None

Keys == Sessions \union Emails
Address(k) == IF k \in Emails THEN k ELSE Buyer[k]

ASSUME BillingAssumption ==
  /\ Sessions \intersect Emails = {} /\ Tasks \intersect Keys = {}
  /\ None \notin Keys \union [password : Nat, ours : BOOLEAN]
  /\ Buyer \in [Sessions -> Emails] /\ Registered \subseteq Emails
  /\ MaxEvents \in Nat /\ MaxFaults \in Nat /\ MaxIssues \in Nat /\ MaxRequests \in Nat

VARIABLES stripe, events, delivered, claims, rows, accounts, mails, task, faults,
          requests, kept

provider == <<stripe, events>>
bounds == <<faults, requests>>
tables == <<claims, rows, accounts>>
vars == <<provider, delivered, tables, mails, task, bounds, kept>>

Statuses == {"active", "past_due", "canceled"}
Lifecycle == {"invoice.paid", "invoice.payment_failed", "subscription.updated",
              "subscription.deleted"}
Idle == [kind |-> "idle", steps |-> <<>>, key |-> None, event |-> None, copy |-> None,
         password |-> 0]

Init ==
  /\ stripe = [s \in Sessions |-> "open"]
  /\ events = {} /\ delivered = {} /\ claims = {}
  /\ rows = [k \in Keys |-> None]
  /\ accounts = [e \in Emails |-> IF e \in Registered THEN [password |-> 0, ours |-> FALSE]
                                 ELSE None]
  /\ mails = [e \in Emails |-> [sent |-> 0, passwords |-> {}]]
  /\ task = [t \in Tasks |-> Idle]
  /\ faults = 0 /\ requests = 0
  /\ kept = {}

-----------------------------------------------------------------------------
(* The provider: what happens to a subscription, and the events it sends.   *)

Send(s, type, status) ==
  /\ Cardinality(events) < MaxEvents
  /\ events' = events \union
       {[n |-> Cardinality(events) + 1, session |-> s, type |-> type, status |-> status]}

(* A checkout that settles is sent as confirmed payment; one that completes   *)
(* unpaid is signed too, but confirms nothing.  The open checkouts of a buyer *)
(* are interchangeable.                                                       *)
CompleteCheckout(s) ==
  /\ stripe[s] = "open"
  /\ s = CHOOSE r \in Sessions : stripe[r] = "open" /\ Buyer[r] = Buyer[s]
  /\ \E settled \in BOOLEAN :
       /\ stripe' = [stripe EXCEPT ![s] = IF settled THEN "active" ELSE "canceled"]
       /\ Send(s, IF settled THEN "checkout.completed" ELSE "other", "active")

SubscriptionStatus(type, status) ==
  CASE type = "invoice.paid" -> "active"
    [] type = "invoice.payment_failed" -> "past_due"
    [] type = "subscription.deleted" -> "canceled"
    [] OTHER -> status

SubscriptionChanges(s) ==
  /\ stripe[s] \in {"active", "past_due"}
  /\ \E type \in Lifecycle :
       LET status == SubscriptionStatus(type, stripe[s])
       IN /\ stripe' = [stripe EXCEPT ![s] = status]
          /\ Send(s, type, status)

Provider ==
  /\ \E s \in Sessions : CompleteCheckout(s) \/ SubscriptionChanges(s)
  /\ UNCHANGED <<delivered, tables, mails, task, bounds, kept>>

-----------------------------------------------------------------------------
(* Requests.                                                                *)

(* Slots are interchangeable: a handler takes a free one. *)
Begin(t, kind, key, event, steps) ==
  /\ task[t].kind = "idle" /\ t = CHOOSE u \in Tasks : task[u].kind = "idle"
  /\ task' = [task EXCEPT ![t] = [Idle EXCEPT !.kind = kind, !.key = key, !.event = event,
                                              !.steps = steps]]
  /\ UNCHANGED <<provider, delivered, tables, mails, faults, kept>>

(* BillingController.webhook.  The provider sends an event until it is        *)
(* answered with 200, and may send it again while an attempt is under way.    *)
Webhook(t, n) ==
  \E e \in events :
    /\ e.n = n /\ n \notin delivered
    /\ Begin(t, "webhook", e.session, e, <<"claim">>)
    /\ UNCHANGED requests

Request(t, kind, key, event, steps) ==
  /\ requests < MaxRequests
  /\ requests' = requests + 1
  /\ Begin(t, kind, key, event, steps)

(* BillingController.freeSignup *)
FreeSignup(t) ==
  \E e \in Emails : Request(t, "free", e, None, <<"free">>)

(* BillingPortalController.sync: reads the provider, then applies what it     *)
(* read like an event.                                                        *)
SyncEvent(s) ==
  [n |-> 0, session |-> s, status |-> stripe[s],
   type |-> IF stripe[s] = "canceled" THEN "subscription.deleted" ELSE "subscription.updated"]

Sync(t) ==
  \E s \in Sessions :
    /\ rows[s] # None /\ stripe[s] \in Statuses
    /\ Request(t, "sync", s, SyncEvent(s), <<"match", "apply">>)

(* The operator's command subscriptions:resend. *)
Resend(t) ==
  \E k \in Keys :
    /\ rows[k] # None
    /\ accounts[Address(k)] # None => accounts[Address(k)].password < MaxIssues
    /\ Request(t, "resend", k, None,
               IF rows[k].user = None THEN <<"insert-account", "attach", "send", "mark">>
               ELSE <<"reissue", "send", "mark">>)

-----------------------------------------------------------------------------
(* The awaited calls.                                                       *)

At(t, step) == task[t].steps # <<>> /\ Head(task[t].steps) = step
Proceed(t) == task' = [task EXCEPT ![t].steps = Tail(@)]
Go(t, steps) == task' = [task EXCEPT ![t].steps = steps]

Provision == <<"insert", "purchased", "find">>
Create == <<"create", "attach", "created", "send", "finish", "recorded">>
Link == <<"link", "recorded">>

(* The steps inside the try of provision(). *)
Guarded == {"find", "create", "attach", "created", "finish", "email-failed", "link", "recorded"}

(* What remains to be done when a call fails. *)
AfterFailure(t) ==
  LET claimed == task[t].kind = "webhook" /\ ~At(t, "claim") /\ ~At(t, "release")
      release == IF claimed THEN <<"release">> ELSE <<>>
  IN IF task[t].kind \in {"webhook", "free"} /\ Head(task[t].steps) \in Guarded
     THEN <<"failed">> \o release
     ELSE release

(* A failed provisioning is answered with 200 and left to the operator. *)
ThrowSwallowed(t) == Go(t, <<>>)

Throw(t) == task' = [task EXCEPT ![t].steps = AfterFailure(t) \o <<"refuse">>]

CallFails(t) ==
  /\ task[t].steps # <<>> /\ Head(task[t].steps) # "refuse"
  /\ faults < MaxFaults
  /\ faults' = faults + 1
  /\ kept' = IF At(t, "release") THEN kept \union {task[t].event.n} ELSE kept
  /\ IF task[t].kind # "resend" /\ At(t, "send") THEN Go(t, <<"email-failed">>) ELSE Throw(t)
  /\ UNCHANGED <<provider, delivered, tables, mails, requests>>

(* The answer: 200 once nothing is left to do, 5xx after a failure. *)
Answer(t) ==
  /\ task[t].kind # "idle"
  /\ \/ /\ task[t].steps = <<>>
        /\ delivered' = IF task[t].kind = "webhook" THEN delivered \union {task[t].event.n}
                        ELSE delivered
     \/ At(t, "refuse") /\ UNCHANGED delivered
  /\ task' = [task EXCEPT ![t] = Idle]
  /\ UNCHANGED <<provider, tables, mails, bounds, kept>>

Claim(t) ==
  LET e == task[t].event
  IN /\ At(t, "claim")
     /\ claims' = claims \union {e.n}
     /\ Go(t, IF e.n \in claims THEN <<>>
              ELSE IF e.type = "checkout.completed" THEN Provision
              ELSE IF e.type \in Lifecycle THEN <<"match", "apply">> ELSE <<>>)
     /\ UNCHANGED <<provider, delivered, rows, accounts, mails, bounds, kept>>

Release(t) ==
  /\ At(t, "release")
  /\ claims' = claims \ {task[t].event.n}
  /\ Proceed(t)
  /\ UNCHANGED <<provider, delivered, rows, accounts, mails, bounds, kept>>

(* provisionFreeAccount *)
CheckFree(t) ==
  /\ At(t, "free")
  /\ IF accounts[task[t].key] # None THEN Go(t, <<"refuse">>) ELSE Go(t, Provision)
  /\ UNCHANGED <<provider, delivered, tables, mails, bounds, kept>>

(* createForCheckout: the row that is there wins. *)
InsertRow(t) ==
  LET k == task[t].key
      plan == IF task[t].kind = "free" THEN "basic" ELSE "pro"
  IN /\ At(t, "insert")
     /\ rows' = IF rows[k] # None THEN rows
                ELSE [rows EXCEPT ![k] = [plan |-> plan, status |-> "active",
                                          provisioning |-> "pending", user |-> None,
                                          since |-> Cardinality({j \in Keys : rows[j] # None})]]
     /\ task' = [task EXCEPT ![t].steps =
                   IF rows[k] # None /\ rows[k].provisioning = "provisioned"
                   THEN <<"purchased">> ELSE Tail(@)]
     /\ UNCHANGED <<provider, delivered, claims, accounts, mails, bounds, kept>>

(* findByEmail in createOrLink; a free sign-up never links. *)
FindAccount(t) ==
  /\ At(t, "find")
  /\ IF accounts[Address(task[t].key)] = None THEN Go(t, Create)
     ELSE IF task[t].kind = "free" THEN Throw(t)
     ELSE Go(t, Link)
  /\ UNCHANGED <<provider, delivered, tables, mails, bounds, kept>>

(* The account that lost the race mails its own password all the same. *)
CreateAccountMailsAnyway(t) ==
  LET a == Address(task[t].key)
  IN /\ At(t, "create") \/ At(t, "insert-account")
     /\ accounts' = [accounts EXCEPT ![a] = IF @ = None THEN [password |-> 1, ours |-> TRUE] ELSE @]
     /\ task' = [task EXCEPT ![t].steps = Tail(@), ![t].password = 1]
     /\ UNCHANGED <<provider, delivered, claims, rows, mails, bounds, kept>>

(* The insert into users that loses against another finds the winner. *)
CreateAccount(t) ==
  LET a == Address(task[t].key)
  IN /\ At(t, "create") \/ At(t, "insert-account")
     /\ IF accounts[a] = None
        THEN /\ accounts' = [accounts EXCEPT ![a] = [password |-> 1, ours |-> TRUE]]
             /\ task' = [task EXCEPT ![t].steps = Tail(@), ![t].password = 1]
        ELSE /\ IF task[t].kind = "webhook" THEN Go(t, Link) ELSE Throw(t)
             /\ UNCHANGED accounts
     /\ UNCHANGED <<provider, delivered, claims, rows, mails, bounds, kept>>

(* Calls of SubscriptionRepository.update: only the columns given change. *)
UpdateRow(t) ==
  LET k == task[t].key
      a == Address(k)
      row == rows[k]
  IN /\ \/ At(t, "attach") /\ rows' = [rows EXCEPT ![k].user = a]
        \/ At(t, "finish") /\ rows' = [rows EXCEPT ![k].provisioning = "provisioned"]
        \/ At(t, "email-failed") /\ rows' = [rows EXCEPT ![k].provisioning = "email_failed"]
        \/ At(t, "link") /\ rows' = [rows EXCEPT ![k] = [row EXCEPT !.user = a,
                                                              !.provisioning = "provisioned"]]
        \/ At(t, "failed") /\ rows' = [rows EXCEPT ![k].provisioning = "failed"]
        \/ At(t, "mark") /\ rows' = [rows EXCEPT ![k].provisioning = "provisioned"]
     /\ Proceed(t)
     /\ UNCHANGED <<provider, delivered, claims, accounts, mails, bounds, kept>>

AuditRecord(t) ==
  /\ \E step \in {"purchased", "created", "recorded"} : At(t, step)
  /\ Proceed(t)
  /\ UNCHANGED <<provider, delivered, tables, mails, bounds, kept>>

SendMail(t) ==
  /\ At(t, "send")
  /\ mails' = [mails EXCEPT ![Address(task[t].key)] =
                 [sent |-> @.sent + (IF task[t].kind = "resend" THEN 0 ELSE 1),
                  passwords |-> @.passwords \union {task[t].password}]]
  /\ Proceed(t)
  /\ UNCHANGED <<provider, delivered, tables, bounds, kept>>

(* The operator's command mails before the new password is stored: the old one. *)
ReissueKeepsOld(t) ==
  LET a == Address(task[t].key)
  IN /\ At(t, "reissue")
     /\ accounts' = [accounts EXCEPT ![a].password = @ + 1]
     /\ task' = [task EXCEPT ![t].steps = Tail(@), ![t].password = accounts[a].password]
     /\ UNCHANGED <<provider, delivered, claims, rows, mails, bounds, kept>>

(* The operator's command replaces the password of an account. *)
Reissue(t) ==
  LET a == Address(task[t].key)
  IN /\ At(t, "reissue")
     /\ accounts' = [accounts EXCEPT ![a].password = @ + 1]
     /\ task' = [task EXCEPT ![t].steps = Tail(@), ![t].password = accounts[a].password + 1]
     /\ UNCHANGED <<provider, delivered, claims, rows, mails, bounds, kept>>

(* SubscriptionLifecycleService.apply reads the row and then updates it. *)
Match(t) ==
  LET row == rows[task[t].key]
  IN /\ At(t, "match")
     /\ IF row = None THEN Throw(t)
        ELSE task' = [task EXCEPT ![t].steps = Tail(@), ![t].copy = row.status]
     /\ UNCHANGED <<provider, delivered, tables, mails, bounds, kept>>

Applied(copy, e) ==
  IF copy = "canceled" /\ e.type \in {"invoice.paid", "invoice.payment_failed"}
  THEN "canceled" ELSE e.status

Apply(t) ==
  LET status == Applied(task[t].copy, task[t].event)
  IN /\ At(t, "apply")
     /\ rows' = [rows EXCEPT ![task[t].key].status = status,
                             ![task[t].key].plan = IF status = "active" THEN "pro" ELSE "basic"]
     /\ Proceed(t)
     /\ UNCHANGED <<provider, delivered, claims, accounts, mails, bounds, kept>>

Step(t) ==
  \/ Claim(t) \/ Release(t) \/ CheckFree(t) \/ InsertRow(t) \/ FindAccount(t)
  \/ CreateAccount(t) \/ UpdateRow(t) \/ AuditRecord(t) \/ SendMail(t) \/ Reissue(t)
  \/ Match(t) \/ Apply(t) \/ Answer(t)

Next ==
  \/ Provider
  \/ \E t \in Tasks, n \in 1..MaxEvents : Webhook(t, n)
  \/ \E t \in Tasks : FreeSignup(t) \/ Sync(t) \/ Resend(t) \/ Step(t) \/ CallFails(t)

(* A handler that has begun goes on, and the provider repeats an event that   *)
(* has not been answered with 200.                                            *)
Fairness ==
  /\ \A t \in Tasks : WF_vars(Step(t))
  /\ \A n \in 1..MaxEvents : SF_vars(\E t \in Tasks : Webhook(t, n))

Spec == Init /\ [][Next]_vars /\ Fairness

-----------------------------------------------------------------------------
Provisioned(k) == rows[k] # None /\ rows[k].provisioning = "provisioned"
Quiet(a) == \A t \in Tasks : task[t].kind # "idle" => Address(task[t].key) # a

(* Provisioning mails credentials to an address once, however many payments,  *)
(* sign-ups, repeated events and handlers meet: the second password would be  *)
(* dead on arrival.                                                           *)
MailedOnce == \A a \in Emails : mails[a].sent <= 1

(* When nothing is under way for an address and nothing has failed, a         *)
(* provisioned account that was created for it is opened by a password that   *)
(* was mailed to it, whoever resends credentials meanwhile.                   *)
MailOpensAccount ==
  faults = 0 =>
    \A k \in Keys :
      Provisioned(k) /\ accounts[Address(k)].ours /\ Quiet(Address(k)) =>
        accounts[Address(k)].password \in mails[Address(k)].passwords

(* Every confirmed payment leads to an account, though calls fail, or though  *)
(* its event is sent twice at once.  Both together may lose it, when the event *)
(* is answered as a duplicate of an attempt that fails and releases its claim, *)
(* and so may two failed calls, when the second is that release.              *)
PaidGetsAccount ==
  \A n \in 1..MaxEvents :
    (\E e \in events : e.n = n /\ e.type = "checkout.completed")
      ~> \/ n \in (delivered \ claims) \union kept
         \/ \E e \in events : e.n = n /\ rows[e.session] # None /\ rows[e.session].user # None
=============================================================================
