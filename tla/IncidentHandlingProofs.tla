----------------------- MODULE IncidentHandlingProofs -----------------------
(***************************************************************************)
(* What the parts of IncidentHandling guarantee for any number of events,  *)
(* requests, faults, sockets, editors and entries.                         *)
(***************************************************************************)
EXTENDS IncidentHandling, TLAPS, FiniteSetTheorems, WellFoundedInduction

(***************************************************************************)
(* The ticket.                                                             *)
(***************************************************************************)

Stages == {"idle", "create", "claim", "post", "save", "release",
           "update", "edit", "thread", "replies", "reply", "end"}
Creating == {"create", "claim", "post", "save", "release"}
Holds == {"post", "save", "release"}
Versioned == {"claim", "post", "save", "edit"}

TaskStates == [at : Stages, version : Nat, message : Nat, todo : SUBSET Tickets!Updates,
               reply : Tickets!Updates \union {Tickets!NoUpdate}]

TaskTypeOK == task \in [Tickets!Tasks -> TaskStates]

RowTypeOK ==
  /\ published \in 1..MaxChanges /\ handled \in 0..published
  /\ messages \in Seq([shows : Nat]) /\ ticket \in 0..Len(messages)
  /\ replies \in [Tickets!Updates -> Nat] /\ unanswered \in [Tickets!Updates -> Nat]
  /\ ticketFaults \in Nat

(* What a task knows at each stage; what a message shows, and the version a  *)
(* task has read, are of the row, which has one per event.                   *)
TasksOK ==
  /\ \A m \in DOMAIN messages : messages[m].shows \in 1..published
  /\ \A p \in Tickets!Tasks :
       /\ task[p].at \in Versioned => task[p].version \in 1..published
       /\ task[p].at = "save" => task[p].message \in DOMAIN messages
       /\ task[p].at = "release" => ticket # 0

LifecycleOK ==
  /\ task["lifecycle"].at # "idle" => handled < published
  /\ task["lifecycle"].at \in Creating => handled = 0
  /\ task["lifecycle"].at = "edit" => ticket # 0 /\ task["lifecycle"].version > handled
  /\ task["lifecycle"].at = "reply" => task["lifecycle"].reply \in Tickets!Updates \intersect claims

(* The claim of the ticket is held by one task at most; as long as nobody    *)
(* raced and no answer was lost, what it has not been used for is not done.  *)
ClaimInv ==
  /\ \A p \in Tickets!Tasks : task[p].at \in Holds => Tickets!TicketKey \in claims
  /\ \A p, q \in Tickets!Tasks : task[p].at \in Holds /\ task[q].at \in Holds => p = q
  /\ ~raced /\ ~repeated =>
       /\ Len(messages) <= 1
       /\ Tickets!TicketKey \notin claims /\ ticket = 0 => messages = <<>>
       /\ \A p \in Tickets!Tasks : task[p].at = "post" => messages = <<>>

(* A claim is of what is in the thread by an answered request, or of the     *)
(* reply being sent.                                                         *)
HonestInv ==
  ~broken =>
    /\ Tickets!TicketKey \in claims => \E p \in Tickets!Tasks : task[p].at \in Holds
    /\ \A u \in Tickets!Updates :
         LET sent == u \in claims /\ ~(task["lifecycle"].at = "reply" /\ task["lifecycle"].reply = u)
         IN replies[u] = unanswered[u] + (IF sent THEN 1 ELSE 0)

(* The events the ticket has caught up with: those that are handled, and the *)
(* one being handled when its update is over.                                *)
Done == handled + IF task["lifecycle"].at \in {"thread", "replies", "reply", "end"} THEN 1 ELSE 0

CaughtUp ==
  ticketFaults = 0 /\ ~missed =>
    /\ ticket # 0 => messages[ticket].shows >= Done
    /\ ticket = 0 => \A p \in Tickets!Tasks :
         /\ task[p].at \in {"claim", "post", "save"} => task[p].version >= Done
         /\ task[p].at = "save" => messages[task[p].message].shows = task[p].version

TicketInv == TaskTypeOK /\ RowTypeOK /\ TasksOK /\ LifecycleOK /\ ClaimInv /\ HonestInv /\ CaughtUp

LEMMA UpdatesAreNoTickets ==
  /\ Tickets!TicketKey \notin Tickets!Updates /\ Tickets!NoUpdate \notin Tickets!Updates
  /\ \A k \in 1..MaxChanges : Tickets!UpdatesOf(k) \subseteq Tickets!Updates
<1>1. \A k \in 1..MaxChanges : \A u \in Tickets!UpdatesOf(k) : u[1] \in {"event", "entry"}
  BY DEF Tickets!UpdatesOf
<1>2. Tickets!TicketKey[1] = "incident-ticket" /\ Tickets!NoUpdate[1] = "none"
  BY DEF Tickets!TicketKey, Tickets!NoUpdate
<1> QED
  BY <1>1, <1>2 DEF Tickets!Updates

(* A task that goes on to another stage, and nothing else.                  *)
Becomes(p, stage) ==
  \A q \in Tickets!Tasks :
    /\ task'[q].at = IF q = p THEN stage ELSE task[q].at
    /\ task'[q].version = task[q].version /\ task'[q].message = task[q].message
    /\ task'[q].todo = task[q].todo /\ task'[q].reply = task[q].reply

LEMMA GotoBecomes ==
  ASSUME TaskTypeOK, NEW p \in Tickets!Tasks, NEW stage \in Stages, Tickets!Goto(p, stage)
  PROVE  TaskTypeOK' /\ Becomes(p, stage)
<1>1. \A q \in Tickets!Tasks : task[q] \in TaskStates
  BY DEF TaskTypeOK
<1>2. task' = [task EXCEPT ![p].at = stage]
  BY DEF Tickets!Goto
<1>3. \A q \in Tickets!Tasks : task'[q] = IF q = p THEN [task[p] EXCEPT !.at = stage] ELSE task[q]
  BY <1>2 DEF TaskTypeOK
<1>4. [task[p] EXCEPT !.at = stage] \in TaskStates
  BY <1>1 DEF TaskStates
<1>5. TaskTypeOK'
  BY <1>1, <1>2, <1>4 DEF TaskTypeOK
<1>6. Becomes(p, stage)
  BY <1>1, <1>3 DEF Becomes, TaskStates
<1> QED
  BY <1>5, <1>6

LEMMA CreatedBecomes ==
  ASSUME TaskTypeOK, NEW p \in Tickets!Tasks, Tickets!Created(p)
  PROVE  TaskTypeOK' /\ Becomes(p, IF p = "lifecycle" THEN "thread" ELSE "end")
<1>1. (IF p = "lifecycle" THEN "thread" ELSE "end") \in Stages
  BY DEF Stages
<1> QED
  BY <1>1, GotoBecomes DEF Tickets!Created

(* A task that is replaced by another.                                       *)
LEMMA Replaced ==
  ASSUME TaskTypeOK, NEW p \in Tickets!Tasks, NEW t \in TaskStates, task' = [task EXCEPT ![p] = t]
  PROVE  TaskTypeOK' /\ \A q \in Tickets!Tasks : task'[q] = IF q = p THEN t ELSE task[q]
<1>1. \A q \in Tickets!Tasks : task[q] \in TaskStates
  BY DEF TaskTypeOK
<1>2. \A q \in Tickets!Tasks : task'[q] = IF q = p THEN t ELSE task[q]
  BY DEF TaskTypeOK
<1>3. TaskTypeOK'
  BY <1>1 DEF TaskTypeOK
<1> QED
  BY <1>2, <1>3

(* A message that is posted, and one that is edited.                        *)
LEMMA PostedMessage ==
  ASSUME TaskTypeOK, RowTypeOK, NEW p \in Tickets!Tasks, messages' = Tickets!Posted(p)
  PROVE  /\ messages' \in Seq([shows : Nat]) /\ Len(messages') = Len(messages) + 1
         /\ DOMAIN messages' = 1..Len(messages) + 1 /\ DOMAIN messages = 1..Len(messages)
         /\ messages'[Len(messages) + 1].shows = task[p].version
         /\ \A m \in DOMAIN messages : messages'[m] = messages[m]
<1>1. task[p].version \in Nat
  BY DEF TaskTypeOK, TaskStates
<1>2. [shows |-> task[p].version] \in [shows : Nat]
  BY <1>1
<1>3. messages' = Append(messages, [shows |-> task[p].version])
  BY DEF Tickets!Posted
<1> QED
  BY <1>2, <1>3 DEF RowTypeOK

LEMMA SeqElement ==
  ASSUME NEW S, NEW s \in Seq(S), NEW n \in 1..Len(s)
  PROVE  s[n] \in S
  OBVIOUS

LEMMA EditedMessage ==
  ASSUME RowTypeOK, NEW version \in Nat, ticket # 0, messages' = [messages EXCEPT ![ticket].shows = version]
  PROVE  /\ messages' \in Seq([shows : Nat]) /\ Len(messages') = Len(messages)
         /\ DOMAIN messages' = DOMAIN messages /\ ticket \in DOMAIN messages
         /\ \A m \in DOMAIN messages : messages'[m].shows = IF m = ticket THEN version ELSE messages[m].shows
<1>0. messages \in Seq([shows : Nat]) /\ ticket \in 0..Len(messages)
  BY DEF RowTypeOK
<1>1. /\ ticket \in 1..Len(messages) /\ DOMAIN messages = 1..Len(messages)
      /\ \A m \in 1..Len(messages) : messages[m] \in [shows : Nat]
  <2>1. Len(messages) \in Nat /\ DOMAIN messages = 1..Len(messages)
    BY <1>0
  <2>2. \A m \in 1..Len(messages) : messages[m] \in [shows : Nat]
    BY <1>0, SeqElement
  <2>3. ticket \in 1..Len(messages)
    BY <1>0, <2>1
  <2> QED
    BY <2>1, <2>2, <2>3
<1>2. DOMAIN messages' = 1..Len(messages)
  BY <1>1
<1>3. \A m \in 1..Len(messages) : messages'[m] = IF m = ticket THEN [messages[ticket] EXCEPT !.shows = version] ELSE messages[m]
  BY <1>1
<1>4. \A m \in 1..Len(messages) : messages'[m] \in [shows : Nat] /\ messages'[m].shows = IF m = ticket THEN version ELSE messages[m].shows
  BY <1>1, <1>3
<1>5. messages' \in [1..Len(messages) -> [shows : Nat]]
  BY <1>2, <1>4
<1>6. messages' \in Seq([shows : Nat]) /\ Len(messages') = Len(messages)
  BY <1>2, <1>5 DEF RowTypeOK
<1> QED
  BY <1>1, <1>2, <1>4, <1>6

LEMMA SaveStep ==
  ASSUME TicketInv, NEW p \in Tickets!Tasks, Tickets!Save(p)
  PROVE  TicketInv'
<1> USE HandlingAssumption DEF Tickets!Tasks, Tickets!At, Tickets!queue, Tickets!slack, Tickets!ghosts, Tickets!Faulty
<1>0. TaskTypeOK /\ RowTypeOK /\ TasksOK /\ LifecycleOK /\ ClaimInv /\ HonestInv /\ CaughtUp
  BY DEF TicketInv
<1>1. TaskTypeOK' /\ Becomes(p, "release")
  BY GotoBecomes DEF Tickets!Save, Stages, TicketInv
<1>m. task[p].message \in DOMAIN messages
  BY <1>0 DEF Tickets!Save, TasksOK
<1>n. ticket' # 0
  BY <1>0, <1>m DEF Tickets!Save, RowTypeOK
<1>2. RowTypeOK'
  BY <1>0, <1>m, <1>n DEF Tickets!Save, RowTypeOK
<1>3. TasksOK'
  BY <1>0, <1>1, <1>m, <1>n DEF Tickets!Save, RowTypeOK, TasksOK, Versioned, Becomes
<1>4. LifecycleOK'
  BY <1>0, <1>1, <1>m, <1>n DEF Tickets!Save, RowTypeOK, LifecycleOK, Creating, Becomes
<1>5. ClaimInv'
  BY <1>0, <1>1, <1>m, <1>n DEF Tickets!Save, RowTypeOK, ClaimInv, Holds, Becomes
<1>6. HonestInv'
  BY <1>0, <1>1, <1>m, <1>n DEF Tickets!Save, HonestInv, Holds, Becomes
<1>7. CaughtUp'
  BY <1>0, <1>1, <1>m, <1>n DEF Tickets!Save, RowTypeOK, CaughtUp, Done, TasksOK, LifecycleOK, Creating, Becomes
<1> QED
  BY <1>1, <1>2, <1>3, <1>4, <1>5, <1>6, <1>7 DEF TicketInv

LEMMA ReleaseStep ==
  ASSUME TicketInv, NEW p \in Tickets!Tasks, Tickets!Release(p)
  PROVE  TicketInv'
<1> USE HandlingAssumption DEF Tickets!Tasks, Tickets!At, Tickets!queue, Tickets!slack, Tickets!ghosts, Tickets!Faulty
<1>0. TaskTypeOK /\ RowTypeOK /\ TasksOK /\ LifecycleOK /\ ClaimInv /\ HonestInv /\ CaughtUp
  BY DEF TicketInv
<1>1. TaskTypeOK' /\ Becomes(p, IF p = "lifecycle" THEN "thread" ELSE "end")
  BY CreatedBecomes DEF Tickets!Release, TicketInv
<1>m. ticket # 0
  BY <1>0 DEF Tickets!Release, TasksOK
<1>2. RowTypeOK'
  BY <1>0, <1>m, UpdatesAreNoTickets DEF Tickets!Release, RowTypeOK
<1>3. TasksOK'
  BY <1>0, <1>1, <1>m, UpdatesAreNoTickets DEF Tickets!Release, RowTypeOK, TasksOK, Versioned, Becomes
<1>4. LifecycleOK'
  BY <1>0, <1>1, <1>m, UpdatesAreNoTickets DEF Tickets!Release, RowTypeOK, LifecycleOK, Creating, Becomes
<1>5. ClaimInv'
  BY <1>0, <1>1, <1>m, UpdatesAreNoTickets DEF Tickets!Release, RowTypeOK, ClaimInv, Holds, Becomes
<1>6. HonestInv'
  BY <1>0, <1>1, <1>m, UpdatesAreNoTickets DEF Tickets!Release, HonestInv, Holds, Becomes
<1>7. CaughtUp'
  BY <1>0, <1>1, <1>m, UpdatesAreNoTickets DEF Tickets!Release, RowTypeOK, CaughtUp, Done, TasksOK, LifecycleOK, Creating, Becomes
<1> QED
  BY <1>1, <1>2, <1>3, <1>4, <1>5, <1>6, <1>7 DEF TicketInv

LEMMA SaveFailsStep ==
  ASSUME TicketInv, NEW p \in Tickets!Tasks, Tickets!SaveFails(p)
  PROVE  TicketInv'
<1> USE HandlingAssumption DEF Tickets!Tasks, Tickets!At, Tickets!queue, Tickets!slack, Tickets!ghosts, Tickets!Faulty
<1>0. TaskTypeOK /\ RowTypeOK /\ TasksOK /\ LifecycleOK /\ ClaimInv /\ HonestInv /\ CaughtUp
  BY DEF TicketInv
<1>1. TaskTypeOK' /\ Becomes(p, IF p = "lifecycle" THEN "thread" ELSE "end")
  BY CreatedBecomes DEF Tickets!SaveFails, TicketInv
<1>2. RowTypeOK'
  BY <1>0 DEF Tickets!SaveFails, RowTypeOK
<1>3. TasksOK'
  BY <1>0, <1>1 DEF Tickets!SaveFails, RowTypeOK, TasksOK, Versioned, Becomes
<1>4. LifecycleOK'
  BY <1>0, <1>1 DEF Tickets!SaveFails, RowTypeOK, LifecycleOK, Creating, Becomes
<1>5. ClaimInv'
  BY <1>0, <1>1 DEF Tickets!SaveFails, RowTypeOK, ClaimInv, Holds, Becomes
<1>6. HonestInv'
  BY <1>0, <1>1 DEF Tickets!SaveFails, HonestInv, Holds, Becomes
<1>7. CaughtUp'
  BY <1>0, <1>1 DEF Tickets!SaveFails, RowTypeOK, CaughtUp, Done, TasksOK, LifecycleOK, Creating, Becomes
<1> QED
  BY <1>1, <1>2, <1>3, <1>4, <1>5, <1>6, <1>7 DEF TicketInv

LEMMA PostFailsStep ==
  ASSUME TicketInv, NEW p \in Tickets!Tasks, Tickets!PostFails(p)
  PROVE  TicketInv'
<1> USE HandlingAssumption DEF Tickets!Tasks, Tickets!At, Tickets!queue, Tickets!slack, Tickets!ghosts, Tickets!Faulty
<1>0. TaskTypeOK /\ RowTypeOK /\ TasksOK /\ LifecycleOK /\ ClaimInv /\ HonestInv /\ CaughtUp
  BY DEF TicketInv
<1>1. TaskTypeOK' /\ Becomes(p, IF p = "lifecycle" THEN "thread" ELSE "end")
  BY CreatedBecomes DEF Tickets!PostFails, TicketInv
<1>2. RowTypeOK'
  BY <1>0, UpdatesAreNoTickets DEF Tickets!PostFails, RowTypeOK
<1>3. TasksOK'
  BY <1>0, <1>1, UpdatesAreNoTickets DEF Tickets!PostFails, RowTypeOK, TasksOK, Versioned, Becomes
<1>4. LifecycleOK'
  BY <1>0, <1>1, UpdatesAreNoTickets DEF Tickets!PostFails, RowTypeOK, LifecycleOK, Creating, Becomes
<1>5. ClaimInv'
  BY <1>0, <1>1, UpdatesAreNoTickets DEF Tickets!PostFails, RowTypeOK, ClaimInv, Holds, Becomes
<1>6. HonestInv'
  BY <1>0, <1>1, UpdatesAreNoTickets DEF Tickets!PostFails, HonestInv, Holds, Becomes
<1>7. CaughtUp'
  BY <1>0, <1>1, UpdatesAreNoTickets DEF Tickets!PostFails, RowTypeOK, CaughtUp, Done, TasksOK, LifecycleOK, Creating, Becomes
<1> QED
  BY <1>1, <1>2, <1>3, <1>4, <1>5, <1>6, <1>7 DEF TicketInv

LEMMA PostUnansweredStep ==
  ASSUME TicketInv, NEW p \in Tickets!Tasks, Tickets!PostUnanswered(p)
  PROVE  TicketInv'
<1> USE HandlingAssumption DEF Tickets!Tasks, Tickets!At, Tickets!queue, Tickets!slack, Tickets!ghosts, Tickets!Faulty
<1>0. TaskTypeOK /\ RowTypeOK /\ TasksOK /\ LifecycleOK /\ ClaimInv /\ HonestInv /\ CaughtUp
  BY DEF TicketInv
<1>1. TaskTypeOK' /\ UNCHANGED task
  BY <1>0 DEF Tickets!PostUnanswered, TaskTypeOK
<1>m. messages' = Tickets!Posted(p) /\ task[p].version \in 1..published
  BY <1>0 DEF Tickets!PostUnanswered, TasksOK, Versioned
<1>2. RowTypeOK'
  BY <1>0, <1>m, PostedMessage DEF Tickets!PostUnanswered, RowTypeOK
<1>2a. \A m \in DOMAIN messages' : messages'[m].shows \in 1..published
  <2>1. /\ DOMAIN messages' = 1..Len(messages) + 1 /\ DOMAIN messages = 1..Len(messages)
        /\ messages'[Len(messages) + 1].shows = task[p].version
        /\ \A m \in DOMAIN messages : messages'[m] = messages[m]
    BY <1>0, <1>m, PostedMessage
  <2>2. \A m \in DOMAIN messages : messages[m].shows \in 1..published
    BY <1>0 DEF TasksOK
  <2>3. \A m \in DOMAIN messages' : m = Len(messages) + 1 \/ m \in DOMAIN messages
    BY <1>0, <2>1, Len(messages) \in Nat DEF RowTypeOK
  <2> QED
    BY <1>m, <2>1, <2>2, <2>3
<1>2b. published' = published /\ DOMAIN messages \subseteq DOMAIN messages'
  BY <1>0, <1>m, PostedMessage DEF Tickets!PostUnanswered, RowTypeOK
<1>3. TasksOK'
  BY <1>0, <1>1, <1>2a, <1>2b DEF Tickets!PostUnanswered, TasksOK
<1>4. LifecycleOK'
  BY <1>0, <1>1, <1>m, PostedMessage DEF Tickets!PostUnanswered, RowTypeOK, LifecycleOK, Creating
<1>5. ClaimInv'
  BY <1>0, <1>1, <1>m, PostedMessage DEF Tickets!PostUnanswered, RowTypeOK, ClaimInv, Holds
<1>6. HonestInv'
  BY <1>0, <1>1, <1>m, PostedMessage DEF Tickets!PostUnanswered, HonestInv, Holds
<1>7. CaughtUp'
  BY <1>0, <1>1, <1>m, PostedMessage DEF Tickets!PostUnanswered, RowTypeOK, CaughtUp, Done, TasksOK, LifecycleOK, Creating
<1> QED
  BY <1>1, <1>2, <1>3, <1>4, <1>5, <1>6, <1>7 DEF TicketInv

LEMMA EditStep ==
  ASSUME TicketInv, Tickets!Edit
  PROVE  TicketInv'
<1> USE HandlingAssumption DEF Tickets!Tasks, Tickets!At, Tickets!queue, Tickets!slack, Tickets!ghosts, Tickets!Faulty
<1>0. TaskTypeOK /\ RowTypeOK /\ TasksOK /\ LifecycleOK /\ ClaimInv /\ HonestInv /\ CaughtUp
  BY DEF TicketInv
<1>1. TaskTypeOK' /\ Becomes("lifecycle", "thread")
  BY GotoBecomes DEF Tickets!Edit, Stages, TicketInv
<1>m. /\ ticket # 0 /\ task["lifecycle"].version > handled
      /\ task["lifecycle"].version \in 1..published /\ task["lifecycle"].version \in Nat
  BY <1>0 DEF Tickets!Edit, LifecycleOK, TasksOK, Versioned
<1>n. messages' = [messages EXCEPT ![ticket].shows = task["lifecycle"].version] /\ published \in Nat
  BY <1>0 DEF Tickets!Edit, RowTypeOK
<1>e. /\ messages' \in Seq([shows : Nat]) /\ Len(messages') = Len(messages)
      /\ DOMAIN messages' = DOMAIN messages /\ ticket \in DOMAIN messages
      /\ \A m \in DOMAIN messages : messages'[m].shows = IF m = ticket THEN task["lifecycle"].version ELSE messages[m].shows
  BY <1>0, <1>m, <1>n, EditedMessage
<1>2. RowTypeOK'
  BY <1>0, <1>m, <1>e DEF Tickets!Edit, RowTypeOK
<1>3. TasksOK'
  BY <1>0, <1>1, <1>m, <1>e DEF Tickets!Edit, RowTypeOK, TasksOK, Versioned, Becomes
<1>4. LifecycleOK'
  BY <1>0, <1>1, <1>m, <1>e DEF Tickets!Edit, RowTypeOK, LifecycleOK, Creating, Becomes
<1>5. ClaimInv'
  BY <1>0, <1>1, <1>m, <1>e DEF Tickets!Edit, RowTypeOK, ClaimInv, Holds, Becomes
<1>6. HonestInv'
  BY <1>0, <1>1, <1>m, <1>e DEF Tickets!Edit, HonestInv, Holds, Becomes
<1>7. CaughtUp'
  BY <1>0, <1>1, <1>m, <1>e DEF Tickets!Edit, RowTypeOK, CaughtUp, Done, TasksOK, LifecycleOK, Creating, Becomes
<1> QED
  BY <1>1, <1>2, <1>3, <1>4, <1>5, <1>6, <1>7 DEF TicketInv

LEMMA EditFailsStep ==
  ASSUME TicketInv, Tickets!EditFails
  PROVE  TicketInv'
<1> USE HandlingAssumption DEF Tickets!Tasks, Tickets!At, Tickets!queue, Tickets!slack, Tickets!ghosts, Tickets!Faulty
<1>0. TaskTypeOK /\ RowTypeOK /\ TasksOK /\ LifecycleOK /\ ClaimInv /\ HonestInv /\ CaughtUp
  BY DEF TicketInv
<1>1. TaskTypeOK' /\ Becomes("lifecycle", "thread")
  BY GotoBecomes DEF Tickets!EditFails, Stages, TicketInv
<1>2. RowTypeOK'
  BY <1>0 DEF Tickets!EditFails, RowTypeOK
<1>3. TasksOK'
  BY <1>0, <1>1 DEF Tickets!EditFails, RowTypeOK, TasksOK, Versioned, Becomes
<1>4. LifecycleOK'
  BY <1>0, <1>1 DEF Tickets!EditFails, RowTypeOK, LifecycleOK, Creating, Becomes
<1>5. ClaimInv'
  BY <1>0, <1>1 DEF Tickets!EditFails, RowTypeOK, ClaimInv, Holds, Becomes
<1>6. HonestInv'
  BY <1>0, <1>1 DEF Tickets!EditFails, HonestInv, Holds, Becomes
<1>7. CaughtUp'
  BY <1>0, <1>1 DEF Tickets!EditFails, RowTypeOK, CaughtUp, Done, TasksOK, LifecycleOK, Creating, Becomes
<1> QED
  BY <1>1, <1>2, <1>3, <1>4, <1>5, <1>6, <1>7 DEF TicketInv

LEMMA ReplyStep ==
  ASSUME TicketInv, Tickets!Reply
  PROVE  TicketInv'
<1> USE HandlingAssumption DEF Tickets!Tasks, Tickets!At, Tickets!queue, Tickets!slack, Tickets!ghosts, Tickets!Faulty
<1>0. TaskTypeOK /\ RowTypeOK /\ TasksOK /\ LifecycleOK /\ ClaimInv /\ HonestInv /\ CaughtUp
  BY DEF TicketInv
<1>1. TaskTypeOK' /\ Becomes("lifecycle", "replies")
  BY GotoBecomes DEF Tickets!Reply, Stages, TicketInv
<1>m. task["lifecycle"].reply \in Tickets!Updates \intersect claims
  BY <1>0 DEF Tickets!Reply, LifecycleOK
<1>2. RowTypeOK'
  BY <1>0, <1>m DEF Tickets!Reply, RowTypeOK, RowTypeOK
<1>3. TasksOK'
  BY <1>0, <1>1, <1>m DEF Tickets!Reply, RowTypeOK, TasksOK, Versioned, Becomes, RowTypeOK
<1>4. LifecycleOK'
  BY <1>0, <1>1, <1>m DEF Tickets!Reply, RowTypeOK, LifecycleOK, Creating, Becomes, RowTypeOK
<1>5. ClaimInv'
  BY <1>0, <1>1, <1>m DEF Tickets!Reply, RowTypeOK, ClaimInv, Holds, Becomes, RowTypeOK
<1>6. HonestInv'
  BY <1>0, <1>1, <1>m DEF Tickets!Reply, HonestInv, Holds, Becomes, RowTypeOK
<1>7. CaughtUp'
  BY <1>0, <1>1, <1>m DEF Tickets!Reply, RowTypeOK, CaughtUp, Done, TasksOK, LifecycleOK, Creating, Becomes, RowTypeOK
<1> QED
  BY <1>1, <1>2, <1>3, <1>4, <1>5, <1>6, <1>7 DEF TicketInv

LEMMA ReplyUnansweredStep ==
  ASSUME TicketInv, Tickets!ReplyUnanswered
  PROVE  TicketInv'
<1> USE HandlingAssumption DEF Tickets!Tasks, Tickets!At, Tickets!queue, Tickets!slack, Tickets!ghosts, Tickets!Faulty
<1>0. TaskTypeOK /\ RowTypeOK /\ TasksOK /\ LifecycleOK /\ ClaimInv /\ HonestInv /\ CaughtUp
  BY DEF TicketInv
<1>1. TaskTypeOK' /\ UNCHANGED task
  BY <1>0 DEF Tickets!ReplyUnanswered, TaskTypeOK
<1>m. task["lifecycle"].reply \in Tickets!Updates \intersect claims
  BY <1>0 DEF Tickets!ReplyUnanswered, LifecycleOK
<1>2. RowTypeOK'
  <2>1. replies' \in [Tickets!Updates -> Nat] /\ unanswered' \in [Tickets!Updates -> Nat]
    <3> HIDE DEF Tickets!Tasks, Tickets!Faulty
    <3>1. \A f \in [Tickets!Updates -> Nat], u \in Tickets!Updates :
            [f EXCEPT ![u] = @ + 1] \in [Tickets!Updates -> Nat]
      OBVIOUS
    <3> QED
      BY <1>0, <1>m, <3>1 DEF Tickets!ReplyUnanswered, RowTypeOK
  <2>2. ticketFaults' \in Nat /\ UNCHANGED <<published, handled, messages, ticket>>
    BY <1>0 DEF Tickets!ReplyUnanswered, RowTypeOK
  <2> QED
    BY <1>0, <2>1, <2>2 DEF RowTypeOK
<1>3. TasksOK' /\ LifecycleOK' /\ ClaimInv'
  BY <1>0, <1>1 DEF Tickets!ReplyUnanswered, TasksOK, LifecycleOK, ClaimInv
<1>6. HonestInv'
  <2>1. \A u \in Tickets!Updates : replies'[u] - unanswered'[u] = replies[u] - unanswered[u]
    BY <1>0, <1>m DEF Tickets!ReplyUnanswered, RowTypeOK
  <2>2. \A u \in Tickets!Updates : /\ replies[u] \in Nat /\ unanswered[u] \in Nat
                                   /\ replies'[u] \in Nat /\ unanswered'[u] \in Nat
    BY <1>0, <1>2 DEF RowTypeOK
  <2>3. UNCHANGED <<claims, broken>>
    BY DEF Tickets!ReplyUnanswered
  <2> QED
    BY <1>0, <1>1, <2>1, <2>2, <2>3 DEF HonestInv
<1>7. CaughtUp'
  BY <1>0 DEF Tickets!ReplyUnanswered, RowTypeOK, CaughtUp
<1> QED
  BY <1>1, <1>2, <1>3, <1>6, <1>7 DEF TicketInv

LEMMA ReplyFailsStep ==
  ASSUME TicketInv, Tickets!ReplyFails
  PROVE  TicketInv'
<1> USE HandlingAssumption DEF Tickets!Tasks, Tickets!At, Tickets!queue, Tickets!slack, Tickets!ghosts, Tickets!Faulty
<1>0. TaskTypeOK /\ RowTypeOK /\ TasksOK /\ LifecycleOK /\ ClaimInv /\ HonestInv /\ CaughtUp
  BY DEF TicketInv
<1>1. TaskTypeOK' /\ Becomes("lifecycle", "replies")
  BY GotoBecomes DEF Tickets!ReplyFails, Stages, TicketInv
<1>m. task["lifecycle"].reply \in Tickets!Updates \intersect claims
  BY <1>0 DEF Tickets!ReplyFails, LifecycleOK
<1>2. RowTypeOK'
  BY <1>0, <1>m, UpdatesAreNoTickets DEF Tickets!ReplyFails, RowTypeOK
<1>3. TasksOK'
  BY <1>0, <1>1, <1>m, UpdatesAreNoTickets DEF Tickets!ReplyFails, RowTypeOK, TasksOK, Versioned, Becomes
<1>4. LifecycleOK'
  BY <1>0, <1>1, <1>m, UpdatesAreNoTickets DEF Tickets!ReplyFails, RowTypeOK, LifecycleOK, Creating, Becomes
<1>5. ClaimInv'
  BY <1>0, <1>1, <1>m, UpdatesAreNoTickets DEF Tickets!ReplyFails, RowTypeOK, ClaimInv, Holds, Becomes
<1>6. HonestInv'
  BY <1>0, <1>1, <1>m, UpdatesAreNoTickets DEF Tickets!ReplyFails, HonestInv, Holds, Becomes
<1>7. CaughtUp'
  BY <1>0, <1>1, <1>m, UpdatesAreNoTickets DEF Tickets!ReplyFails, RowTypeOK, CaughtUp, Done, TasksOK, LifecycleOK, Creating, Becomes
<1> QED
  BY <1>1, <1>2, <1>3, <1>4, <1>5, <1>6, <1>7 DEF TicketInv

LEMMA PublishStep ==
  ASSUME TicketInv, Tickets!Publish
  PROVE  TicketInv'
<1> USE HandlingAssumption DEF Tickets!Tasks, Tickets!At, Tickets!queue, Tickets!slack, Tickets!ghosts, Tickets!Faulty
<1>0. TaskTypeOK /\ RowTypeOK /\ TasksOK /\ LifecycleOK /\ ClaimInv /\ HonestInv /\ CaughtUp
  BY DEF TicketInv
<1>1. TaskTypeOK' /\ UNCHANGED task
  BY <1>0 DEF Tickets!Publish, TaskTypeOK
<1>2. RowTypeOK'
  BY <1>0 DEF Tickets!Publish, RowTypeOK
<1>s. published' = published + 1 /\ published \in Nat /\ UNCHANGED <<messages, ticket>>
  BY <1>0 DEF Tickets!Publish, RowTypeOK
<1>3. TasksOK'
  <2>1. \A v \in 1..published : v \in 1..published'
    BY <1>s
  <2> QED
    BY <1>0, <1>1, <1>s, <2>1 DEF TasksOK
<1>4. LifecycleOK'
  BY <1>0, <1>1 DEF Tickets!Publish, RowTypeOK, LifecycleOK, Creating
<1>5. ClaimInv'
  BY <1>0, <1>1 DEF Tickets!Publish, RowTypeOK, ClaimInv, Holds
<1>6. HonestInv'
  BY <1>0, <1>1 DEF Tickets!Publish, HonestInv, Holds
<1>7. CaughtUp'
  BY <1>0, <1>1 DEF Tickets!Publish, RowTypeOK, CaughtUp, Done, TasksOK, LifecycleOK, Creating
<1> QED
  BY <1>1, <1>2, <1>3, <1>4, <1>5, <1>6, <1>7 DEF TicketInv

(* A task that goes on with something it has read or written.               *)
Sets(p, new) ==
  \A q \in Tickets!Tasks :
    /\ task'[q].at = IF q = p THEN new.at ELSE task[q].at
    /\ task'[q].version = IF q = p THEN new.version ELSE task[q].version
    /\ task'[q].message = IF q = p THEN new.message ELSE task[q].message
    /\ task'[q].reply = IF q = p THEN new.reply ELSE task[q].reply

LEMMA ReplacedSets ==
  ASSUME TaskTypeOK, NEW p \in Tickets!Tasks, NEW new \in TaskStates, task' = [task EXCEPT ![p] = new]
  PROVE  TaskTypeOK' /\ Sets(p, new)
<1>1. TaskTypeOK' /\ \A q \in Tickets!Tasks : task'[q] = IF q = p THEN new ELSE task[q]
  BY Replaced
<1> QED
  BY <1>1 DEF Sets

LEMMA TaskParts ==
  ASSUME TaskTypeOK, NEW p \in Tickets!Tasks
  PROVE  /\ task[p] \in TaskStates /\ task[p].at \in Stages /\ task[p].version \in Nat
         /\ task[p].message \in Nat /\ task[p].todo \subseteq Tickets!Updates
         /\ task[p].reply \in Tickets!Updates \union {Tickets!NoUpdate}
<1>1. task[p] \in TaskStates
  BY DEF TaskTypeOK
<1> QED
  BY <1>1 DEF TaskStates

LEMMA TicketKept ==
  ASSUME TicketInv,
         UNCHANGED <<published, handled, task, claims, ticket, messages, replies, ticketFaults,
                     raced, repeated, unanswered, missed, broken>>
  PROVE  TicketInv'
<1>1. TaskTypeOK' /\ RowTypeOK'
  BY DEF TicketInv, TaskTypeOK, RowTypeOK
<1>2. TasksOK' /\ LifecycleOK' /\ ClaimInv'
  BY DEF TicketInv, TasksOK, LifecycleOK, ClaimInv
<1>3. HonestInv' /\ CaughtUp'
  BY DEF TicketInv, HonestInv, CaughtUp, Done
<1> QED
  BY <1>1, <1>2, <1>3 DEF TicketInv

LEMMA BeginStep ==
  ASSUME TicketInv, NEW p \in Tickets!Tasks, Tickets!Begin(p)
  PROVE  TicketInv'
<1> USE HandlingAssumption DEF Tickets!Tasks, Tickets!At, Tickets!queue, Tickets!slack, Tickets!ghosts, Tickets!Faulty
<1>0. TaskTypeOK /\ RowTypeOK /\ TasksOK /\ LifecycleOK /\ ClaimInv /\ HonestInv /\ CaughtUp
  BY DEF TicketInv
<1>1. TaskTypeOK' /\ Becomes(p, IF p = "manual" \/ handled = 0 THEN "create" ELSE "update")
  BY GotoBecomes DEF Tickets!Begin, Stages, TicketInv
<1>2. RowTypeOK'
  BY <1>0 DEF Tickets!Begin, RowTypeOK
<1>3. TasksOK'
  BY <1>0, <1>1 DEF Tickets!Begin, RowTypeOK, TasksOK, Versioned, Becomes
<1>4. LifecycleOK'
  BY <1>0, <1>1 DEF Tickets!Begin, RowTypeOK, LifecycleOK, Creating, Becomes
<1>5. ClaimInv'
  BY <1>0, <1>1 DEF Tickets!Begin, RowTypeOK, ClaimInv, Holds, Becomes
<1>6. HonestInv'
  BY <1>0, <1>1 DEF Tickets!Begin, HonestInv, Holds, Becomes
<1>7. CaughtUp'
  BY <1>0, <1>1 DEF Tickets!Begin, RowTypeOK, CaughtUp, Done, TasksOK, LifecycleOK, Creating, Becomes
<1> QED
  BY <1>1, <1>2, <1>3, <1>4, <1>5, <1>6, <1>7 DEF TicketInv

LEMMA ClaimStep ==
  ASSUME TicketInv, NEW p \in Tickets!Tasks, Tickets!Claim(p)
  PROVE  TicketInv'
<1> USE HandlingAssumption DEF Tickets!Tasks, Tickets!At, Tickets!queue, Tickets!slack, Tickets!ghosts, Tickets!Faulty
<1>0. TaskTypeOK /\ RowTypeOK /\ TasksOK /\ LifecycleOK /\ ClaimInv /\ HonestInv /\ CaughtUp
  BY DEF TicketInv
<1> DEFINE stage == IF Tickets!TicketKey \notin claims THEN "post" ELSE IF p = "lifecycle" THEN "thread" ELSE "end"
<1>s. stage \in Stages
  BY DEF Stages
<1>g. Tickets!Goto(p, stage)
  BY DEF Tickets!Claim, Tickets!Created
<1>1. TaskTypeOK' /\ Becomes(p, stage)
  BY <1>0, <1>s, <1>g, GotoBecomes
<1>2. RowTypeOK'
  BY <1>0, UpdatesAreNoTickets DEF Tickets!Claim, RowTypeOK
<1>3. TasksOK'
  BY <1>0, <1>1, UpdatesAreNoTickets DEF Tickets!Claim, RowTypeOK, TasksOK, Versioned, Becomes
<1>4. LifecycleOK'
  BY <1>0, <1>1, UpdatesAreNoTickets DEF Tickets!Claim, RowTypeOK, LifecycleOK, Creating, Becomes
<1>5. ClaimInv'
  BY <1>0, <1>1, UpdatesAreNoTickets DEF Tickets!Claim, RowTypeOK, ClaimInv, Holds, Becomes
<1>6. HonestInv'
  BY <1>0, <1>1, UpdatesAreNoTickets DEF Tickets!Claim, HonestInv, Holds, Becomes
<1>c. UNCHANGED <<handled, ticket, messages, missed, ticketFaults>>
  BY DEF Tickets!Claim
<1>d. Done' \in {Done, 1} /\ (Done' # Done => Done' = 1)
  BY <1>0, <1>1, <1>c DEF Tickets!Claim, Done, Becomes, LifecycleOK, Creating, RowTypeOK
<1>e. ticket # 0 => messages[ticket].shows >= 1
  BY <1>0 DEF RowTypeOK, TasksOK
<1>f. \A q \in Tickets!Tasks : task[q].at \in {"claim", "post", "save"} => task[q].version >= 1
  BY <1>0 DEF TasksOK, Versioned, RowTypeOK
<1>h. \A q \in Tickets!Tasks :
        /\ task'[q].at \in {"claim", "post", "save"} => task[q].at \in {"claim", "post", "save"}
        /\ task'[q].at = "save" => task[q].at = "save"
        /\ task'[q].version = task[q].version /\ task'[q].message = task[q].message
  BY <1>1 DEF Becomes, Tickets!Claim
<1>7. CaughtUp'
  <2> SUFFICES ASSUME ticketFaults = 0, ~missed
               PROVE  /\ ticket # 0 => messages[ticket].shows >= Done'
                      /\ ticket = 0 => \A q \in Tickets!Tasks :
                           /\ task'[q].at \in {"claim", "post", "save"} => task'[q].version >= Done'
                           /\ task'[q].at = "save" => messages[task'[q].message].shows = task'[q].version
    BY <1>c DEF CaughtUp
  <2>1. /\ ticket # 0 => messages[ticket].shows >= Done
        /\ ticket = 0 => \A q \in Tickets!Tasks :
             /\ task[q].at \in {"claim", "post", "save"} => task[q].version >= Done
             /\ task[q].at = "save" => messages[task[q].message].shows = task[q].version
    BY <1>0 DEF CaughtUp
  <2>2. ticket # 0 => messages[ticket].shows >= Done'
    BY <1>d, <1>e, <2>1
  <2>3. ASSUME ticket = 0, NEW q \in Tickets!Tasks
        PROVE  /\ task'[q].at \in {"claim", "post", "save"} => task'[q].version >= Done'
               /\ task'[q].at = "save" => messages[task'[q].message].shows = task'[q].version
    <3>1. task[q].at \in {"claim", "post", "save"} => task[q].version >= Done'
      BY <1>d, <1>f, <2>1, <2>3
    <3> QED
      BY <1>h, <2>1, <2>3, <3>1
  <2> QED
    BY <2>2, <2>3
<1> QED
  BY <1>1, <1>2, <1>3, <1>4, <1>5, <1>6, <1>7 DEF TicketInv

LEMMA PostStep ==
  ASSUME TicketInv, NEW p \in Tickets!Tasks, Tickets!Post(p)
  PROVE  TicketInv'
<1> USE HandlingAssumption DEF Tickets!Tasks, Tickets!At, Tickets!queue, Tickets!slack, Tickets!ghosts, Tickets!Faulty
<1>0. TaskTypeOK /\ RowTypeOK /\ TasksOK /\ LifecycleOK /\ ClaimInv /\ HonestInv /\ CaughtUp
  BY DEF TicketInv
<1>m. messages' = Tickets!Posted(p) /\ task[p].version \in 1..published
  BY <1>0 DEF Tickets!Post, TasksOK, Versioned
<1>e. /\ messages' \in Seq([shows : Nat]) /\ Len(messages') = Len(messages) + 1 /\ Len(messages) \in Nat
      /\ DOMAIN messages' = 1..Len(messages) + 1 /\ DOMAIN messages = 1..Len(messages)
      /\ messages'[Len(messages) + 1].shows = task[p].version
      /\ \A m \in DOMAIN messages : messages'[m] = messages[m]
  BY <1>0, <1>m, PostedMessage DEF RowTypeOK
<1> DEFINE new == [task[p] EXCEPT !.at = "save", !.message = Len(messages) + 1]
<1>t. new \in TaskStates
  <2>1. task[p] \in TaskStates /\ Len(messages) + 1 \in Nat /\ "save" \in Stages
    BY <1>0, <1>e, TaskParts DEF Stages
  <2> QED
    BY <2>1 DEF TaskStates
<1>u. task' = [task EXCEPT ![p] = new]
  BY <1>0 DEF Tickets!Post
<1>v. TaskTypeOK' /\ Sets(p, new)
  BY <1>0, <1>t, <1>u, ReplacedSets
<1>w. new.at = "save" /\ new.message = Len(messages) + 1 /\ new.version = task[p].version /\ new.reply = task[p].reply
  BY <1>0, TaskParts DEF TaskStates
<1> HIDE DEF new
<1>1. /\ TaskTypeOK'
      /\ \A q \in Tickets!Tasks :
           /\ task'[q].at = IF q = p THEN "save" ELSE task[q].at
           /\ task'[q].version = task[q].version /\ task'[q].reply = task[q].reply
           /\ task'[q].message = IF q = p THEN Len(messages) + 1 ELSE task[q].message
  BY <1>v, <1>w DEF Sets
<1>z. /\ task[p].at = "post"
      /\ UNCHANGED <<published, handled, ticket, claims, replies, ticketFaults, raced, repeated, unanswered, missed, broken>>
  BY DEF Tickets!Post
<1>2. RowTypeOK'
  BY <1>0, <1>m, <1>e DEF Tickets!Post, RowTypeOK
<1>2a. \A m \in DOMAIN messages' : messages'[m].shows \in 1..published
  <2>2. \A m \in DOMAIN messages : messages[m].shows \in 1..published
    BY <1>0 DEF TasksOK
  <2>3. \A m \in DOMAIN messages' : m = Len(messages) + 1 \/ m \in DOMAIN messages
    BY <1>e
  <2> QED
    BY <1>e, <1>m, <2>2, <2>3
<1>2b. published' = published /\ DOMAIN messages \subseteq DOMAIN messages' /\ Len(messages) + 1 \in DOMAIN messages'
  BY <1>e DEF Tickets!Post
<1>3. TasksOK'
  BY <1>0, <1>1, <1>m, <1>2a, <1>2b DEF Tickets!Post, TasksOK, Versioned
<1>4. LifecycleOK'
  BY <1>0, <1>1, <1>m, <1>e, <1>z DEF RowTypeOK, LifecycleOK, Creating
<1>5. ClaimInv'
  <2>1. Tickets!TicketKey \in claims' /\ \A q \in Tickets!Tasks : task[q].at \in Holds => q = p
    BY <1>0, <1>z DEF ClaimInv, Holds
  <2>2. \A q \in Tickets!Tasks : task'[q].at \in Holds <=> q = p
    BY <1>1, <2>1 DEF Holds
  <2>3. ~raced' /\ ~repeated' => Len(messages') <= 1
    BY <1>0, <1>e, <1>z DEF ClaimInv
  <2>4. \A q \in Tickets!Tasks : task'[q].at # "post"
    BY <1>1, <2>2 DEF Holds
  <2> QED
    BY <2>1, <2>2, <2>3, <2>4 DEF ClaimInv
<1>6. HonestInv'
  BY <1>0, <1>1, <1>m, <1>e, <1>z DEF HonestInv, Holds
<1>7. CaughtUp'
  <2>1. Done' = Done
    BY <1>1, <1>z DEF Done
  <2>2. task[p].version # Done => task[p].version \in Nat
    BY <1>0, TaskParts
  <2>3. ticket \in DOMAIN messages \/ ticket = 0
    BY <1>0, <1>e DEF RowTypeOK
  <2>4. \A q \in Tickets!Tasks : task[q].at = "save" => task[q].message \in DOMAIN messages
    BY <1>0 DEF TasksOK
  <2>5. \A q \in Tickets!Tasks : task'[q].at = "save" => messages'[task'[q].message].shows =
          IF q = p THEN task[p].version ELSE messages[task[q].message].shows
    BY <1>1, <1>e, <2>4
  <2>6. ticket # 0 => messages'[ticket].shows = messages[ticket].shows
    BY <1>e, <2>3
  <2> QED
    BY <1>0, <1>1, <1>z, <2>1, <2>5, <2>6 DEF CaughtUp
<1> QED
  BY <1>1, <1>2, <1>3, <1>4, <1>5, <1>6, <1>7 DEF TicketInv

(* The steps at which a task reads what it goes on with.                     *)
LEMMA FindNoneStep ==
  ASSUME TicketInv, NEW p \in Tickets!Tasks, Tickets!Find(p), ticket = 0
  PROVE  TicketInv'
<1> USE HandlingAssumption DEF Tickets!Tasks, Tickets!At, Tickets!queue, Tickets!slack, Tickets!ghosts, Tickets!Faulty
<1>0. TaskTypeOK /\ RowTypeOK /\ TasksOK /\ LifecycleOK /\ ClaimInv /\ HonestInv /\ CaughtUp
  BY DEF TicketInv
<1>z. task[p].at = "create" /\ ticket = 0 /\ UNCHANGED <<published, handled, ticket, messages, replies, ticketFaults, raced, repeated, unanswered, broken, claims, missed>>
  BY DEF Tickets!Find
<1> DEFINE new == [task[p] EXCEPT !.at = "claim", !.version = published]
<1>t. new \in TaskStates
  <2>1. task[p] \in TaskStates /\ published \in Nat /\ "claim" \in Stages
    BY <1>0, TaskParts DEF Stages, RowTypeOK
  <2> QED
    BY <2>1 DEF TaskStates
<1>u. task' = [task EXCEPT ![p] = new]
  BY DEF Tickets!Find
<1>v. TaskTypeOK' /\ Sets(p, new)
  BY <1>0, <1>t, <1>u, ReplacedSets
<1>1. /\ TaskTypeOK'
      /\ \A q \in Tickets!Tasks :
           /\ task'[q].at = IF q = p THEN "claim" ELSE task[q].at
           /\ task'[q].version = IF q = p THEN published ELSE task[q].version
           /\ task'[q].message = task[q].message
           /\ task'[q].reply = task[q].reply
  <2>1. task[p] \in TaskStates
    BY <1>0, TaskParts
  <2> QED
    BY <1>v, <2>1 DEF Sets, TaskStates
<1> HIDE DEF new
<1>2. RowTypeOK'
  BY <1>0, <1>1, <1>z DEF RowTypeOK
<1>3. TasksOK'
  BY <1>0, <1>1, <1>z DEF RowTypeOK, TasksOK, Versioned
<1>4. LifecycleOK'
  BY <1>0, <1>1, <1>z DEF RowTypeOK, LifecycleOK, Creating
<1>5. ClaimInv'
  BY <1>0, <1>1, <1>z DEF ClaimInv, Holds
<1>6. HonestInv'
  BY <1>0, <1>1, <1>z DEF HonestInv, Holds
<1>7. CaughtUp'
  <2>1. handled \in Nat /\ published \in Nat /\ handled' = handled
    BY <1>0, <1>z DEF RowTypeOK
  <2>2. task'["lifecycle"].at \in {"thread", "replies", "reply", "end"}
          <=> task["lifecycle"].at \in {"thread", "replies", "reply", "end"}
    BY <1>1, <1>z
  <2>3. Done' = Done
    BY <2>1, <2>2 DEF Done
  <2>4. Done \in Nat /\ Done <= published
    BY <1>0, <2>1 DEF Done, LifecycleOK, RowTypeOK
  <2> HIDE DEF Done
  <2>5. \A q \in Tickets!Tasks \ {p} :
          task'[q].at = task[q].at /\ task'[q].version = task[q].version /\ task'[q].message = task[q].message
    BY <1>1
  <2>6. task'[p].at = "claim" /\ task'[p].version = published
    BY <1>1
  <2> QED
    BY <1>0, <1>z, <2>1, <2>3, <2>4, <2>5, <2>6 DEF CaughtUp
<1> QED
  BY <1>1, <1>2, <1>3, <1>4, <1>5, <1>6, <1>7 DEF TicketInv

LEMMA FindMadeStep ==
  ASSUME TicketInv, NEW p \in Tickets!Tasks, Tickets!Find(p), ticket # 0
  PROVE  TicketInv'
<1> USE HandlingAssumption DEF Tickets!Tasks, Tickets!At, Tickets!queue, Tickets!slack, Tickets!ghosts, Tickets!Faulty
<1>0. TaskTypeOK /\ RowTypeOK /\ TasksOK /\ LifecycleOK /\ ClaimInv /\ HonestInv /\ CaughtUp
  BY DEF TicketInv
<1>z. task[p].at = "create" /\ ticket # 0 /\ Tickets!Created(p) /\ UNCHANGED <<published, handled, ticket, messages, replies, ticketFaults, raced, repeated, unanswered, broken, claims, missed>>
  BY DEF Tickets!Find
<1>b. TaskTypeOK' /\ Becomes(p, IF p = "lifecycle" THEN "thread" ELSE "end")
  BY <1>0, <1>z, CreatedBecomes
<1>1. /\ TaskTypeOK'
      /\ \A q \in Tickets!Tasks :
           /\ task'[q].at = IF q # p THEN task[q].at ELSE IF p = "lifecycle" THEN "thread" ELSE "end"
           /\ task'[q].version = task[q].version /\ task'[q].message = task[q].message
           /\ task'[q].reply = task[q].reply
  BY <1>b DEF Becomes
<1>m. messages[ticket].shows >= 1
  BY <1>0, <1>z DEF RowTypeOK, TasksOK
<1>2. RowTypeOK'
  BY <1>0, <1>1, <1>z, <1>m DEF RowTypeOK
<1>3. TasksOK'
  BY <1>0, <1>1, <1>z, <1>m DEF RowTypeOK, TasksOK, Versioned
<1>4. LifecycleOK'
  BY <1>0, <1>1, <1>z, <1>m DEF RowTypeOK, LifecycleOK, Creating
<1>5. ClaimInv'
  BY <1>0, <1>1, <1>z, <1>m DEF ClaimInv, Holds
<1>6. HonestInv'
  BY <1>0, <1>1, <1>z, <1>m DEF HonestInv, Holds
<1>7. CaughtUp'
  BY <1>0, <1>1, <1>z, <1>m DEF RowTypeOK, CaughtUp, Done, LifecycleOK, Creating
<1> QED
  BY <1>1, <1>2, <1>3, <1>4, <1>5, <1>6, <1>7 DEF TicketInv

LEMMA FindToUpdateStep ==
  ASSUME TicketInv, Tickets!FindToUpdate
  PROVE  TicketInv'
<1> USE HandlingAssumption DEF Tickets!Tasks, Tickets!At, Tickets!queue, Tickets!slack, Tickets!ghosts, Tickets!Faulty
<1>0. TaskTypeOK /\ RowTypeOK /\ TasksOK /\ LifecycleOK /\ ClaimInv /\ HonestInv /\ CaughtUp
  BY DEF TicketInv
<1>z. /\ task["lifecycle"].at = "update" /\ missed' = (missed \/ ticket = 0)
      /\ UNCHANGED <<published, handled, ticket, messages, replies, ticketFaults, raced, repeated, unanswered, broken, claims>>
  BY DEF Tickets!FindToUpdate
<1> DEFINE new == [task["lifecycle"] EXCEPT !.at = IF ticket = 0 THEN "thread" ELSE "edit", !.version = published]
<1>t. new \in TaskStates
  <2>1. /\ task["lifecycle"] \in TaskStates /\ published \in Nat
        /\ (IF ticket = 0 THEN "thread" ELSE "edit") \in Stages
    BY <1>0, TaskParts DEF Stages, RowTypeOK
  <2> QED
    BY <2>1 DEF TaskStates
<1>u. task' = [task EXCEPT !["lifecycle"] = new]
  BY DEF Tickets!FindToUpdate
<1>v. TaskTypeOK' /\ Sets("lifecycle", new)
  BY <1>0, <1>t, <1>u, ReplacedSets
<1>1. /\ TaskTypeOK'
      /\ \A q \in Tickets!Tasks :
           /\ task'[q].at = IF q # "lifecycle" THEN task[q].at ELSE IF ticket = 0 THEN "thread" ELSE "edit"
           /\ task'[q].version = IF q = "lifecycle" THEN published ELSE task[q].version
           /\ task'[q].message = task[q].message
           /\ task'[q].reply = task[q].reply
  <2>1. task["lifecycle"] \in TaskStates
    BY <1>0, TaskParts
  <2> QED
    BY <1>v, <2>1 DEF Sets, TaskStates
<1> HIDE DEF new
<1>2. RowTypeOK'
  BY <1>0, <1>1, <1>z DEF RowTypeOK
<1>3. TasksOK'
  BY <1>0, <1>1, <1>z DEF RowTypeOK, TasksOK, Versioned
<1>4. LifecycleOK'
  BY <1>0, <1>1, <1>z DEF RowTypeOK, LifecycleOK, Creating
<1>5. ClaimInv'
  BY <1>0, <1>1, <1>z DEF ClaimInv, Holds
<1>6. HonestInv'
  BY <1>0, <1>1, <1>z DEF HonestInv, Holds
<1>7. CaughtUp'
  BY <1>0, <1>1, <1>z DEF RowTypeOK, CaughtUp, Done, LifecycleOK, Creating
<1> QED
  BY <1>1, <1>2, <1>3, <1>4, <1>5, <1>6, <1>7 DEF TicketInv

LEMMA FindThreadStep ==
  ASSUME TicketInv, Tickets!FindThread
  PROVE  TicketInv'
<1> USE HandlingAssumption DEF Tickets!Tasks, Tickets!At, Tickets!queue, Tickets!slack, Tickets!ghosts, Tickets!Faulty
<1>0. TaskTypeOK /\ RowTypeOK /\ TasksOK /\ LifecycleOK /\ ClaimInv /\ HonestInv /\ CaughtUp
  BY DEF TicketInv
<1>z. /\ task["lifecycle"].at = "thread"
      /\ UNCHANGED <<published, handled, ticket, messages, replies, ticketFaults, raced, repeated, unanswered, broken, claims, missed>>
  BY DEF Tickets!FindThread
<1> DEFINE new == [task["lifecycle"] EXCEPT !.at = "replies", !.todo = IF ticket = 0 THEN {} ELSE Tickets!UpdatesOf(handled + 1)]
<1>t. new \in TaskStates
  <2>1. task["lifecycle"] \in TaskStates /\ "replies" \in Stages
    BY <1>0, TaskParts DEF Stages
  <2>2. handled + 1 \in 1..MaxChanges
    BY <1>0, <1>z DEF RowTypeOK, LifecycleOK
  <2>3. (IF ticket = 0 THEN {} ELSE Tickets!UpdatesOf(handled + 1)) \in SUBSET Tickets!Updates
    BY <2>2, UpdatesAreNoTickets
  <2> HIDE DEF Tickets!UpdatesOf
  <2> QED
    BY <2>1, <2>3 DEF TaskStates
<1>u. task' = [task EXCEPT !["lifecycle"] = new]
  BY DEF Tickets!FindThread
<1>v. TaskTypeOK' /\ Sets("lifecycle", new)
  BY <1>0, <1>t, <1>u, ReplacedSets
<1>1. /\ TaskTypeOK'
      /\ \A q \in Tickets!Tasks :
           /\ task'[q].at = IF q = "lifecycle" THEN "replies" ELSE task[q].at
           /\ task'[q].version = task[q].version
           /\ task'[q].message = task[q].message
           /\ task'[q].reply = task[q].reply
  <2>1. task["lifecycle"] \in TaskStates
    BY <1>0, TaskParts
  <2> QED
    BY <1>v, <2>1 DEF Sets, TaskStates
<1> HIDE DEF new
<1>2. RowTypeOK'
  BY <1>0, <1>1, <1>z DEF RowTypeOK
<1>3. TasksOK'
  BY <1>0, <1>1, <1>z DEF RowTypeOK, TasksOK, Versioned
<1>4. LifecycleOK'
  BY <1>0, <1>1, <1>z DEF RowTypeOK, LifecycleOK, Creating
<1>5. ClaimInv'
  BY <1>0, <1>1, <1>z DEF ClaimInv, Holds
<1>6. HonestInv'
  BY <1>0, <1>1, <1>z DEF HonestInv, Holds
<1>7. CaughtUp'
  BY <1>0, <1>1, <1>z DEF RowTypeOK, CaughtUp, Done, LifecycleOK, Creating
<1> QED
  BY <1>1, <1>2, <1>3, <1>4, <1>5, <1>6, <1>7 DEF TicketInv

LEMMA ClaimReplyStep ==
  ASSUME TicketInv, Tickets!ClaimReply
  PROVE  TicketInv'
<1> USE HandlingAssumption DEF Tickets!Tasks, Tickets!At, Tickets!queue, Tickets!slack, Tickets!ghosts, Tickets!Faulty
<1>0. TaskTypeOK /\ RowTypeOK /\ TasksOK /\ LifecycleOK /\ ClaimInv /\ HonestInv /\ CaughtUp
  BY DEF TicketInv
<1> DEFINE stage(u) == IF u \in claims THEN "replies" ELSE "reply"
<1>p. PICK u \in task["lifecycle"].todo :
        /\ claims' = claims \union {u}
        /\ task' = [task EXCEPT !["lifecycle"].at = IF u \in claims THEN "replies" ELSE "reply",
                                !["lifecycle"].todo = @ \ {u}, !["lifecycle"].reply = u]
  BY DEF Tickets!ClaimReply
<1>l. task["lifecycle"] \in TaskStates /\ task["lifecycle"].todo \subseteq Tickets!Updates
  BY <1>0, TaskParts
<1>z. /\ task["lifecycle"].at = "replies" /\ claims' = claims \union {u} /\ u \in Tickets!Updates
      /\ u # Tickets!TicketKey
      /\ UNCHANGED <<published, handled, ticket, messages, replies, ticketFaults, raced, repeated, unanswered, broken, missed>>
  BY <1>p, <1>l, UpdatesAreNoTickets DEF Tickets!ClaimReply
<1> DEFINE new == [task["lifecycle"] EXCEPT !.at = IF u \in claims THEN "replies" ELSE "reply",
                                           !.todo = @ \ {u}, !.reply = u]
<1>t. new \in TaskStates
  <2>1. (IF u \in claims THEN "replies" ELSE "reply") \in Stages
    BY DEF Stages
  <2>2. task["lifecycle"].todo \ {u} \in SUBSET Tickets!Updates
    BY <1>l
  <2> QED
    BY <1>l, <1>z, <2>1, <2>2 DEF TaskStates
<1>u. task' = [task EXCEPT !["lifecycle"] = new]
  BY <1>p
<1>v. TaskTypeOK' /\ Sets("lifecycle", new)
  BY <1>0, <1>t, <1>u, ReplacedSets
<1>1. /\ TaskTypeOK'
      /\ \A q \in Tickets!Tasks :
           /\ task'[q].at = IF q # "lifecycle" THEN task[q].at ELSE IF u \in claims THEN "replies" ELSE "reply"
           /\ task'[q].version = task[q].version /\ task'[q].message = task[q].message
           /\ task'[q].reply = IF q = "lifecycle" THEN u ELSE task[q].reply
  BY <1>v, <1>l DEF Sets, TaskStates
<1> HIDE DEF new
<1>2. RowTypeOK'
  BY <1>0, <1>1, <1>z DEF RowTypeOK
<1>3. TasksOK'
  BY <1>0, <1>1, <1>z DEF RowTypeOK, TasksOK, Versioned
<1>4. LifecycleOK'
  BY <1>0, <1>1, <1>z DEF RowTypeOK, LifecycleOK, Creating
<1>5. ClaimInv'
  BY <1>0, <1>1, <1>z DEF ClaimInv, Holds
<1>6. HonestInv'
  BY <1>0, <1>1, <1>z DEF HonestInv, Holds
<1>7. CaughtUp'
  BY <1>0, <1>1, <1>z DEF RowTypeOK, CaughtUp, Done, LifecycleOK, Creating
<1> QED
  BY <1>1, <1>2, <1>3, <1>4, <1>5, <1>6, <1>7 DEF TicketInv

LEMMA IdleIsAState == Tickets!Idle \in TaskStates /\ Tickets!Idle.at = "idle"
  BY DEF Tickets!Idle, TaskStates, Stages

LEMMA EndStep ==
  ASSUME TicketInv, NEW p \in Tickets!Tasks, Tickets!End(p)
  PROVE  TicketInv'
<1> USE HandlingAssumption DEF Tickets!Tasks, Tickets!At, Tickets!queue, Tickets!slack, Tickets!ghosts, Tickets!Faulty
<1>0. TaskTypeOK /\ RowTypeOK /\ TasksOK /\ LifecycleOK /\ ClaimInv /\ HonestInv /\ CaughtUp
  BY DEF TicketInv
<1>z. /\ task[p].at \in {"end", "replies"}
      /\ handled' = IF p = "lifecycle" THEN handled + 1 ELSE handled
      /\ task' = [task EXCEPT ![p] = Tickets!Idle]
      /\ UNCHANGED <<published, claims, ticket, messages, replies, ticketFaults, raced, repeated, unanswered, missed, broken>>
  BY DEF Tickets!End
<1>v. TaskTypeOK' /\ Sets(p, Tickets!Idle)
  BY <1>0, <1>z, ReplacedSets, IdleIsAState
<1>1. /\ TaskTypeOK' /\ task'[p].at = "idle"
      /\ \A q \in Tickets!Tasks : q # p =>
           /\ task'[q].at = task[q].at
           /\ task'[q].version = task[q].version /\ task'[q].message = task[q].message
           /\ task'[q].reply = task[q].reply
  BY <1>v, IdleIsAState DEF Sets
<1>2. RowTypeOK'
  <2>1. handled' \in 0..published
    BY <1>0, <1>z DEF RowTypeOK, LifecycleOK
  <2> QED
    BY <1>0, <1>z, <2>1 DEF RowTypeOK
<1>3. TasksOK'
  BY <1>0, <1>1, <1>z DEF RowTypeOK, TasksOK, Versioned
<1>4. LifecycleOK'
  BY <1>0, <1>1, <1>z DEF RowTypeOK, LifecycleOK, Creating
<1>5. ClaimInv'
  BY <1>0, <1>1, <1>z DEF ClaimInv, Holds
<1>6. HonestInv'
  BY <1>0, <1>1, <1>z DEF HonestInv, Holds
<1>7. CaughtUp'
  <2>1. Done' = Done
    <3>1. handled \in Nat
      BY <1>0 DEF RowTypeOK
    <3> QED
      BY <3>1, <1>1, <1>z DEF Done
  <2> QED
    BY <1>0, <1>1, <1>z, <2>1 DEF CaughtUp
<1> QED
  BY <1>1, <1>2, <1>3, <1>4, <1>5, <1>6, <1>7 DEF TicketInv

LEMMA CrashStep ==
  ASSUME TicketInv, Tickets!Crash
  PROVE  TicketInv'
<1> USE HandlingAssumption DEF Tickets!Tasks, Tickets!At, Tickets!queue, Tickets!slack, Tickets!ghosts, Tickets!Faulty
<1>0. TaskTypeOK /\ RowTypeOK /\ TasksOK /\ LifecycleOK /\ ClaimInv /\ HonestInv /\ CaughtUp
  BY DEF TicketInv
<1>z. /\ task' = [p \in Tickets!Tasks |-> Tickets!Idle] /\ broken'
      /\ ticketFaults' = ticketFaults + 1
      /\ UNCHANGED <<published, handled, claims, ticket, messages, replies, raced, repeated, unanswered, missed>>
  BY DEF Tickets!Crash
<1>1. TaskTypeOK' /\ \A q \in Tickets!Tasks : task'[q].at = "idle"
  BY <1>z, IdleIsAState DEF TaskTypeOK
<1>2. RowTypeOK'
  BY <1>0, <1>1, <1>z DEF RowTypeOK
<1>3. TasksOK'
  BY <1>0, <1>1, <1>z DEF RowTypeOK, TasksOK, Versioned
<1>4. LifecycleOK'
  BY <1>0, <1>1, <1>z DEF RowTypeOK, LifecycleOK, Creating
<1>5. ClaimInv'
  BY <1>0, <1>1, <1>z DEF ClaimInv, Holds
<1>6. HonestInv'
  BY <1>0, <1>1, <1>z DEF HonestInv, Holds
<1>7. CaughtUp'
  BY <1>0, <1>1, <1>z DEF RowTypeOK, CaughtUp, Done, LifecycleOK, Creating
<1> QED
  BY <1>1, <1>2, <1>3, <1>4, <1>5, <1>6, <1>7 DEF TicketInv

LEMMA TicketStep == TicketInv /\ [Tickets!Next]_ticketVars => TicketInv'
<1> USE DEF Tickets!queue, Tickets!slack, Tickets!ghosts
<1>1. ASSUME TicketInv, UNCHANGED ticketVars \/ Tickets!Look \/ Tickets!Ask
      PROVE  TicketInv'
  BY <1>1, TicketKept DEF ticketVars, Tickets!Look, Tickets!Ask
<1>2. ASSUME TicketInv, NEW p \in Tickets!Tasks, Tickets!Create(p)
      PROVE  TicketInv'
  <2>1. CASE Tickets!Find(p)
    BY <1>2, <2>1, FindNoneStep, FindMadeStep
  <2> QED
    BY <1>2, <2>1, BeginStep, ClaimStep, PostStep, SaveStep, ReleaseStep, EndStep, PostUnansweredStep,
       PostFailsStep, SaveFailsStep DEF Tickets!Create
<1> QED
  BY <1>1, <1>2, PublishStep, FindToUpdateStep, EditStep, EditFailsStep, FindThreadStep, ClaimReplyStep,
     ReplyStep, ReplyUnansweredStep, ReplyFailsStep, CrashStep DEF Tickets!Next

LEMMA TicketInit == Tickets!Init => TicketInv
<1> SUFFICES ASSUME Tickets!Init PROVE TicketInv
  OBVIOUS
<1>1. TaskTypeOK /\ \A q \in Tickets!Tasks : task[q].at = "idle"
  BY IdleIsAState DEF Tickets!Init, TaskTypeOK
<1>2. RowTypeOK
  BY HandlingAssumption DEF Tickets!Init, RowTypeOK
<1>3. TasksOK /\ LifecycleOK
  BY <1>1 DEF Tickets!Init, Tickets!Tasks, TasksOK, LifecycleOK, Versioned, Creating
<1>4. ClaimInv /\ HonestInv
  BY <1>1 DEF Tickets!Init, Tickets!Tasks, ClaimInv, HonestInv, Holds
<1>5. CaughtUp
  BY <1>1 DEF Tickets!Init, Tickets!Tasks, CaughtUp, Done
<1> QED
  BY <1>1, <1>2, <1>3, <1>4, <1>5 DEF TicketInv

LEMMA HandlingTicket ==
  /\ HandlingInit => TicketInv
  /\ TicketInv /\ [HandlingNext]_handlingVars => TicketInv'
<1>1. HandlingInit => TicketInv
  BY TicketInit DEF HandlingInit
<1>2. ASSUME [HandlingNext]_handlingVars
      PROVE  [Tickets!Next]_ticketVars
  BY <1>2 DEF HandlingNext, handlingVars
<1> QED
  BY <1>1, <1>2, TicketStep

(* The incident has one message in the channel of Slack, however its creation *)
(* is repeated by slack-incident-ticket.publisher.ts after crashes and faults *)
(* of Slack and of the database, unless two creations raced or an answer of   *)
(* Slack was lost.                                                            *)
THEOREM OneMessageEach == HandlingSpec => []OneTicketMessage
<1>1. TicketInv => OneTicketMessage
  BY DEF TicketInv, ClaimInv, OneTicketMessage, Tickets!OneTicketMessage
<1> QED
  BY <1>1, HandlingTicket, PTL DEF HandlingSpec

(* When the ticket is left alone, what is claimed in                          *)
(* notification_deliveries is what is in the thread, once each.               *)
THEOREM ClaimsTellTheThread == HandlingSpec => []ClaimsAreHonest
<1>1. ASSUME TicketInv, ~broken, \A p \in Tickets!Tasks : task[p].at = "idle"
      PROVE  /\ Tickets!TicketKey \notin claims
             /\ \A u \in Tickets!Updates : replies[u] = unanswered[u] + (IF u \in claims THEN 1 ELSE 0)
  BY <1>1 DEF TicketInv, HonestInv, Holds, Tickets!Tasks
<1>2. TicketInv => ClaimsAreHonest
  BY <1>1 DEF ClaimsAreHonest, Tickets!ClaimsAreHonest, Tickets!At
<1> QED
  BY <1>2, HandlingTicket, PTL DEF HandlingSpec

(* Once every event of the incident is handled the message of its ticket      *)
(* shows the incident as its row is, though an update may have overtaken the  *)
(* event it was for.                                                          *)
THEOREM TicketEndsAsIncident == HandlingSpec => []TicketShowsTheEnd
<1>1. ASSUME TicketInv, ticketFaults = 0, ~missed, ticket # 0, handled = published,
             \A p \in Tickets!Tasks : task[p].at = "idle"
      PROVE  messages[ticket].shows = published
  <2>1. Done = published /\ messages[ticket].shows >= Done
    BY <1>1 DEF TicketInv, RowTypeOK, CaughtUp, Done, Tickets!Tasks
  <2>2. ticket \in DOMAIN messages
    BY <1>1 DEF TicketInv, RowTypeOK
  <2>3. messages[ticket].shows \in 1..published
    BY <1>1, <2>2 DEF TicketInv, TasksOK
  <2> QED
    BY <1>1, <2>1, <2>3 DEF TicketInv, RowTypeOK
<1>2. TicketInv => TicketShowsTheEnd
  BY <1>1 DEF TicketShowsTheEnd, Tickets!TicketShowsTheEnd, Tickets!At
<1> QED
  BY <1>2, HandlingTicket, PTL DEF HandlingSpec

(***************************************************************************)
(* The socket.                                                             *)
(***************************************************************************)

ServiceTypeOK ==
  /\ connecting \in BOOLEAN /\ reconnectTimer \in BOOLEAN
  /\ ticking \in BOOLEAN /\ stopped \in BOOLEAN
  /\ socket \in Nat
  /\ sockets \in Seq(Socket!States)

(* What the fields of the Socket!service say of each other while it runs: the flag  *)
(* that keeps connect() from being called twice is right only together with  *)
(* the field that holds the socket, and the field of the timer only as long  *)
(* as the timer is really set.                                               *)
FieldsAgree ==
  /\ connecting => socket = 0
  /\ reconnectTimer <=> ticking

SocketInv == ServiceTypeOK /\ (~stopped => FieldsAgree /\ Socket!NeverDeaf)

LEMMA SocketInit == Socket!Init => SocketInv
<1> SUFFICES ASSUME Socket!Init PROVE SocketInv
  OBVIOUS
<1>1. DOMAIN sockets = {} /\ sockets \in Seq(Socket!States)
  BY DEF Socket!Init
<1>2. ServiceTypeOK
  BY <1>1 DEF Socket!Init, ServiceTypeOK
<1>3. FieldsAgree /\ Socket!NeverDeaf
  BY <1>1 DEF Socket!Init, FieldsAgree, Socket!NeverDeaf
<1> QED
  BY <1>2, <1>3 DEF SocketInv

LEMMA ScheduleSetsTheTimer ==
  ASSUME ServiceTypeOK, Socket!ScheduleReconnect
  PROVE  /\ reconnectTimer' \in BOOLEAN /\ ticking' \in BOOLEAN
         /\ ~stopped /\ (reconnectTimer <=> ticking) => reconnectTimer' /\ ticking'
  BY DEF ServiceTypeOK, Socket!ScheduleReconnect

LEMMA SocketTypeStep ==
  ASSUME ServiceTypeOK, [Socket!Next]_socketVars
  PROVE  ServiceTypeOK'
<1> USE DEF ServiceTypeOK
<1>1. CASE Socket!Connected
  <2>1. sockets' = Append(sockets, "CONNECTING") /\ "CONNECTING" \in Socket!States
    BY <1>1 DEF Socket!Connected, Socket!States
  <2>2. sockets' \in Seq(Socket!States) /\ Len(sockets) + 1 \in Nat
    BY <2>1
  <2> QED
    BY <1>1, <2>2 DEF Socket!Connected
<1>2. CASE Socket!ConnectFails
  BY <1>2, ScheduleSetsTheTimer DEF Socket!ConnectFails
<1>3. CASE Socket!TimerFires
  BY <1>3 DEF Socket!TimerFires
<1>4. CASE Socket!Stop
  <2>1. DOMAIN sockets = 1..Len(sockets) /\ \A s \in 1..Len(sockets) : sockets[s] \in Socket!States
    OBVIOUS
  <2>2. sockets' \in [1..Len(sockets) -> Socket!States] /\ Len(sockets) \in Nat
    BY <1>4, <2>1 DEF Socket!Stop, Socket!States
  <2>3. sockets' \in Seq(Socket!States)
    BY <2>2
  <2> QED
    BY <1>4, <2>3 DEF Socket!Stop
<1>5. ASSUME NEW s \in DOMAIN sockets, Socket!Opened(s) \/ Socket!Disconnect(s) \/ Socket!Close(s)
      PROVE  ServiceTypeOK'
  <2>1. CASE Socket!Opened(s)
    BY <2>1 DEF Socket!Opened, Socket!service, Socket!States
  <2>2. CASE Socket!Disconnect(s)
    BY <2>2 DEF Socket!Disconnect, Socket!service, Socket!States
  <2>3. CASE Socket!Close(s)
    BY <2>3, ScheduleSetsTheTimer DEF Socket!Close, Socket!States
  <2> QED
    BY <1>5, <2>1, <2>2, <2>3
<1>6. ASSUME NEW e \in Envelopes,
             Socket!Acknowledge(e) \/ Socket!ProcessFails(e) \/ \E s \in DOMAIN sockets : Socket!Receive(e, s)
      PROVE  ServiceTypeOK'
  BY <1>6 DEF Socket!Acknowledge, Socket!ProcessFails, Socket!Receive, Socket!service
<1>7. CASE UNCHANGED socketVars
  BY <1>7 DEF socketVars
<1> QED
  BY <1>1, <1>2, <1>3, <1>4, <1>5, <1>6, <1>7 DEF Socket!Next

LEMMA SocketStep ==
  ASSUME SocketInv, [Socket!Next]_socketVars
  PROVE  SocketInv'
<1>1. ServiceTypeOK /\ ServiceTypeOK'
  BY SocketTypeStep DEF SocketInv
<1> SUFFICES ASSUME ~stopped'
             PROVE  FieldsAgree' /\ Socket!NeverDeaf'
  BY <1>1 DEF SocketInv
<1> USE DEF FieldsAgree, Socket!NeverDeaf
<1>2. ASSUME ~stopped PROVE FieldsAgree /\ Socket!NeverDeaf
  BY <1>2 DEF SocketInv
<1>3. CASE Socket!Connected
  <2>1. ~stopped /\ connecting /\ socket = 0 /\ socket' = Len(sockets) + 1 /\ ~connecting'
    BY <1>2, <1>3 DEF Socket!Connected
  <2>2. sockets' = Append(sockets, "CONNECTING")
    BY <1>3 DEF Socket!Connected
  <2>3. \A s \in DOMAIN sockets : sockets[s] = "CLOSED"
    BY <1>1, <1>2, <2>1 DEF ServiceTypeOK
  <2>4. /\ DOMAIN sockets' = 1..(Len(sockets) + 1)
        /\ \A s \in DOMAIN sockets' :
             sockets'[s] = IF s = Len(sockets) + 1 THEN "CONNECTING" ELSE sockets[s]
    BY <1>1, <2>2 DEF ServiceTypeOK
  <2>5. \A s \in DOMAIN sockets' : sockets'[s] # "CLOSED" <=> s = socket'
    BY <1>1, <2>1, <2>3, <2>4 DEF ServiceTypeOK
  <2>6. socket' # 0 /\ (reconnectTimer' <=> ticking')
    BY <1>1, <1>2, <1>3, <2>1 DEF Socket!Connected, ServiceTypeOK
  <2> QED
    BY <2>1, <2>5, <2>6
<1>4. CASE Socket!ConnectFails
  BY <1>1, <1>2, <1>4, ScheduleSetsTheTimer DEF Socket!ConnectFails
<1>5. CASE Socket!TimerFires
  BY <1>1, <1>2, <1>5 DEF Socket!TimerFires, ServiceTypeOK
<1>6. CASE Socket!Stop
  BY <1>6 DEF Socket!Stop
<1>7. ASSUME NEW s \in DOMAIN sockets, Socket!Opened(s)
      PROVE  FieldsAgree' /\ Socket!NeverDeaf'
  BY <1>1, <1>2, <1>7 DEF Socket!Opened, Socket!service, ServiceTypeOK
<1>8. ASSUME NEW s \in DOMAIN sockets, Socket!Disconnect(s)
      PROVE  FieldsAgree' /\ Socket!NeverDeaf'
  BY <1>1, <1>2, <1>8 DEF Socket!Disconnect, Socket!service, ServiceTypeOK
<1>9. ASSUME NEW s \in DOMAIN sockets, Socket!Close(s)
      PROVE  FieldsAgree' /\ Socket!NeverDeaf'
  (* Only the socket of the Socket!service was not closed; now none is left, and the *)
  (* timer is set.                                                            *)
  <2>1. ~stopped /\ s = socket /\ socket' = 0
    BY <1>2, <1>9 DEF Socket!Close
  <2>2. reconnectTimer' /\ ticking'
    BY <1>1, <1>2, <1>9, <2>1, ScheduleSetsTheTimer DEF Socket!Close
  <2>3. \A i \in DOMAIN sockets' : sockets'[i] = "CLOSED"
    BY <1>1, <1>2, <1>9, <2>1 DEF Socket!Close, ServiceTypeOK
  <2>4. \A i \in DOMAIN sockets' : i # 0
    BY <1>1 DEF ServiceTypeOK
  <2> QED
    BY <2>1, <2>2, <2>3, <2>4
<1>10. CASE UNCHANGED <<Socket!service, sockets>>
  BY <1>2, <1>10 DEF Socket!service
<1>11. ASSUME NEW e \in Envelopes,
              Socket!Acknowledge(e) \/ Socket!ProcessFails(e) \/ \E s \in DOMAIN sockets : Socket!Receive(e, s)
       PROVE  UNCHANGED <<Socket!service, sockets>>
  BY <1>11 DEF Socket!Acknowledge, Socket!ProcessFails, Socket!Receive
<1> QED
  BY <1>3, <1>4, <1>5, <1>6, <1>7, <1>8, <1>9, <1>10, <1>11 DEF Socket!Next, socketVars, Socket!service

(* Until it is stopped the service of slack-socket-mode.service.ts has one    *)
(* socket that is not closed, or none and an attempt or a timer that will     *)
(* open one: it never goes deaf, and it never listens twice, however often    *)
(* Slack closes the socket, refuses to open one, or is slow to answer.        *)
THEOREM NeverDeafNorTwiceListening == HandlingSpec => []NeverDeaf
<1>1. HandlingInit => SocketInv
  BY SocketInit DEF HandlingInit
<1>2. ASSUME [HandlingNext]_handlingVars
      PROVE  [Socket!Next]_socketVars
  BY <1>2 DEF HandlingNext, handlingVars
<1>3. SocketInv /\ [HandlingNext]_handlingVars => SocketInv'
  BY <1>2, SocketStep
<1>4. SocketInv => NeverDeaf
  BY DEF SocketInv, NeverDeaf, Socket!NeverDeaf
<1> QED
  BY <1>1, <1>3, <1>4, PTL DEF HandlingSpec

(***************************************************************************)
(* The roster.                                                             *)
(***************************************************************************)

EntryOK(e) ==
  /\ e.contact \in Contacts /\ e.start \in Nat /\ e.end \in Nat /\ e.start < e.end

EditStates == {"idle", "check", "insert", "patch"}

RosterTypeOK ==
  /\ enabled \in BOOLEAN
  /\ \A e \in shifts \union overrides : EntryOK(e)
  /\ DOMAIN editor = Editors
  /\ \A x \in Editors : /\ editor[x].at \in {"check", "insert"} => EntryOK(editor[x].entry)
                        /\ editor[x].table \in {"shifts", "overrides"}
                        /\ editor[x].enables \in BOOLEAN

(* Two requests of one table, both of which found their range free.         *)
InsertTogether(x, y) ==
  /\ editor[x].at = "insert" /\ editor[y].at = "insert" /\ editor[x].table = editor[y].table

Apart(table) == \A v, w \in table : Roster!Overlaps(v, w) => v = w

(* As long as none was checked while one that overlaps it was being added,   *)
(* entries of a table do not overlap, and those about to be added overlap    *)
(* neither an entry nor each other.                                          *)
NoOverlaps ==
  ~overlapping =>
    /\ Apart(shifts) /\ Apart(overrides)
    /\ \A x \in Editors : editor[x].at = "insert" =>
         \A v \in Roster!Table(editor[x].table) : ~Roster!Overlaps(v, editor[x].entry)
    /\ \A x, y \in Editors : InsertTogether(x, y) /\ x # y =>
         ~Roster!Overlaps(editor[x].entry, editor[y].entry)

RosterInv == RosterTypeOK /\ NoOverlaps

LEMMA RosterInit == Roster!Init => RosterInv
<1> SUFFICES ASSUME Roster!Init PROVE RosterInv
  OBVIOUS
<1>1. \A x \in Editors : editor[x] = Roster!Idle
  BY DEF Roster!Init
<1>2. RosterTypeOK
  BY <1>1 DEF Roster!Init, Roster!Idle, RosterTypeOK
<1>3. \A x \in Editors : editor[x].at # "insert"
  BY <1>1 DEF Roster!Idle
<1>4. NoOverlaps
  BY <1>3 DEF Roster!Init, NoOverlaps, Apart, InsertTogether
<1> QED
  BY <1>2, <1>4 DEF RosterInv

(* A step that adds no entry and lets no request find its range free.        *)
LEMMA NothingInserted ==
  ASSUME RosterInv, RosterTypeOK', UNCHANGED <<shifts, overrides>>, overlapping => overlapping',
         \A x \in Editors : editor'[x].at = "insert" => editor'[x] = editor[x]
  PROVE  RosterInv'
<1>1. Apart(shifts)' <=> Apart(shifts)
  BY DEF Apart
<1>2. Apart(overrides)' <=> Apart(overrides)
  BY DEF Apart
<1>3. \A name : Roster!Table(name)' = Roster!Table(name)
  BY DEF Roster!Table
<1>4. NoOverlaps'
  BY <1>1, <1>2, <1>3 DEF RosterInv, NoOverlaps, InsertTogether, Roster!Table
<1> QED
  BY <1>4 DEF RosterInv

LEMMA CheckStep ==
  ASSUME RosterInv, NEW x \in Editors, Roster!Check(x)
  PROVE  RosterInv'
<1>1. RosterTypeOK /\ NoOverlaps /\ editor[x].at = "check"
      /\ UNCHANGED <<enabled, shifts, overrides>>
  BY DEF RosterInv, Roster!Check
<1>2. CASE Roster!HasOverlap(Roster!Table(editor[x].table), editor[x].entry)
  <2>1. editor' = [editor EXCEPT ![x] = Roster!Idle]
    BY <1>2 DEF Roster!Check
  <2>2. RosterTypeOK'
    BY <1>1, <2>1 DEF RosterTypeOK, Roster!Idle
  <2>3. \A y \in Editors : editor'[y].at = "insert" => editor'[y] = editor[y]
    BY <1>1, <2>1 DEF RosterTypeOK, Roster!Idle
  <2>4. overlapping => overlapping'
    BY DEF Roster!Check
  <2>5. CASE overlapping'
    BY <2>2, <2>5 DEF RosterInv, NoOverlaps
  <2>6. CASE ~overlapping'
    BY <1>1, <2>2, <2>3, <2>4, <2>6, NothingInserted
  <2> QED
    BY <2>5, <2>6
<1>3. CASE ~Roster!HasOverlap(Roster!Table(editor[x].table), editor[x].entry)
  <2>1. editor' = [editor EXCEPT ![x] = [editor[x] EXCEPT !.at = "insert"]]
    BY <1>3 DEF Roster!Check
  <2>2. RosterTypeOK'
    BY <1>1, <2>1 DEF RosterTypeOK, EntryOK
  <2> SUFFICES ASSUME ~overlapping' PROVE NoOverlaps'
    BY <2>2 DEF RosterInv, NoOverlaps
  <2>3. ~overlapping /\ \A y \in Editors :
          editor[y].at = "insert" /\ editor[y].table = editor[x].table =>
            ~Roster!Overlaps(editor[y].entry, editor[x].entry)
    BY DEF Roster!Check
  <2>4. Apart(shifts)' /\ Apart(overrides)'
    BY <1>1, <2>3 DEF NoOverlaps, Apart
  <2>5. \A v \in Roster!Table(editor[x].table) : ~Roster!Overlaps(v, editor[x].entry)
    BY <1>3 DEF Roster!HasOverlap
  <2>6. \A y \in Editors : /\ editor'[y].entry = editor[y].entry /\ editor'[y].table = editor[y].table
                           /\ y # x => editor'[y].at = editor[y].at
    BY <1>1, <2>1 DEF RosterTypeOK
  <2>7. \A y \in Editors : Roster!Table(editor[y].table)' = Roster!Table(editor[y].table)
    BY <1>1, <2>6 DEF Roster!Table
  <2>8. \A y \in Editors : editor'[y].at = "insert" =>
          \A v \in Roster!Table(editor[y].table)' : ~Roster!Overlaps(v, editor'[y].entry)
    BY <1>1, <2>3, <2>5, <2>6, <2>7 DEF NoOverlaps
  <2>9. \A y, z \in Editors : InsertTogether(y, z)' /\ y # z =>
          ~Roster!Overlaps(editor'[y].entry, editor'[z].entry)
    <3>1. \A y, z \in Editors : y # x /\ z # x /\ InsertTogether(y, z)' => InsertTogether(y, z)
      BY <2>6 DEF InsertTogether
    <3>2. \A v, w : Roster!Overlaps(v, w) <=> Roster!Overlaps(w, v)
      BY DEF Roster!Overlaps
    <3> QED
      BY <1>1, <2>3, <2>6, <3>1, <3>2 DEF NoOverlaps, InsertTogether
  <2> QED
    BY <2>4, <2>8, <2>9 DEF NoOverlaps
<1> QED
  BY <1>2, <1>3

LEMMA InsertStep ==
  ASSUME RosterInv, NEW x \in Editors, Roster!Insert(x)
  PROVE  RosterInv'
<1> DEFINE e == editor[x].entry
           name == editor[x].table
<1>1. /\ RosterTypeOK /\ NoOverlaps /\ editor[x].at = "insert"
      /\ shifts' = (IF name = "shifts" THEN shifts \union {e} ELSE shifts)
      /\ overrides' = (IF name = "shifts" THEN overrides ELSE overrides \union {e})
      /\ editor' = [editor EXCEPT ![x] = Roster!Idle]
      /\ UNCHANGED <<enabled, overlapping>>
  BY DEF RosterInv, Roster!Insert
<1>2. EntryOK(e)
  BY <1>1 DEF RosterTypeOK
<1>3. \A y \in Editors : /\ y # x => editor'[y] = editor[y]
                         /\ y = x => editor'[y].at # "insert"
  BY <1>1 DEF RosterTypeOK, Roster!Idle
<1>4. RosterTypeOK'
  <2>1. \A v \in shifts' \union overrides' : EntryOK(v)
    BY <1>1, <1>2 DEF RosterTypeOK
  <2> QED
    BY <1>1, <2>1 DEF RosterTypeOK, Roster!Idle
<1> SUFFICES ASSUME ~overlapping PROVE NoOverlaps'
  BY <1>1, <1>4 DEF RosterInv, NoOverlaps
<1>5. /\ Apart(shifts) /\ Apart(overrides)
      /\ \A v \in Roster!Table(name) : ~Roster!Overlaps(v, e)
      /\ \A y \in Editors : y # x /\ editor[y].at = "insert" /\ editor[y].table = name =>
           ~Roster!Overlaps(e, editor[y].entry)
  BY <1>1 DEF NoOverlaps, InsertTogether
<1>6. \A v, w : Roster!Overlaps(v, w) <=> Roster!Overlaps(w, v)
  BY DEF Roster!Overlaps
<1>7. ASSUME NEW table, Apart(table), \A v \in table : ~Roster!Overlaps(v, e)
      PROVE  Apart(table \union {e})
  BY <1>6, <1>7 DEF Apart
<1>8. Apart(shifts)' /\ Apart(overrides)'
  <2>1. CASE name = "shifts"
    <3>1. Apart(shifts \union {e})
      BY <1>5, <1>7, <2>1 DEF Roster!Table
    <3> QED
      BY <1>1, <1>5, <2>1, <3>1 DEF Apart
  <2>2. CASE name # "shifts"
    <3>1. Apart(overrides \union {e})
      BY <1>5, <1>7, <2>2 DEF Roster!Table
    <3> QED
      BY <1>1, <1>5, <2>2, <3>1 DEF Apart
  <2> QED
    BY <2>1, <2>2
<1>9. ASSUME NEW y \in Editors, editor'[y].at = "insert",
             NEW v \in Roster!Table(editor[y].table)'
      PROVE  ~Roster!Overlaps(v, editor'[y].entry)
  <2>1. y # x /\ editor'[y] = editor[y]
    BY <1>3, <1>9
  <2>2. CASE v \in Roster!Table(editor[y].table)
    BY <1>1, <1>9, <2>1, <2>2 DEF NoOverlaps
  <2>3. CASE v \notin Roster!Table(editor[y].table)
    <3>1. v = e /\ (editor[y].table = "shifts" <=> name = "shifts")
      BY <1>1, <1>9, <2>1, <2>3 DEF Roster!Table
    <3>2. editor[y].table = name /\ editor[y].at = "insert"
      BY <1>1, <1>9, <2>1, <3>1 DEF RosterTypeOK
    <3> QED
      BY <1>5, <2>1, <3>1, <3>2
  <2> QED
    BY <2>2, <2>3
<1>10. \A y, z \in Editors : InsertTogether(y, z)' => InsertTogether(y, z) /\ y # x /\ z # x
  BY <1>3 DEF InsertTogether
<1>11. \A y, z \in Editors : InsertTogether(y, z)' /\ y # z =>
         ~Roster!Overlaps(editor'[y].entry, editor'[z].entry)
  BY <1>1, <1>3, <1>10 DEF NoOverlaps
<1> QED
  BY <1>8, <1>9, <1>11 DEF NoOverlaps

LEMMA RosterStep == RosterInv /\ [Roster!Next]_rosterVars => RosterInv'
<1> SUFFICES ASSUME RosterInv, [Roster!Next]_rosterVars PROVE RosterInv'
  OBVIOUS
<1>0. RosterTypeOK
  BY DEF RosterInv
<1>1. CASE UNCHANGED rosterVars
  BY <1>0, <1>1, NothingInserted DEF rosterVars, RosterTypeOK
<1>2. ASSUME NEW x \in Editors, Roster!Add(x)
      PROVE  RosterInv'
  <2>1. PICK table \in {"shifts", "overrides"}, c \in Contacts, r \in Ranges :
          editor' = [editor EXCEPT ![x] =
            [at |-> "check", table |-> table, enables |-> FALSE,
             entry |-> [contact |-> c, start |-> r.start, end |-> r.end]]]
    BY <1>2 DEF Roster!Add
  <2>2. UNCHANGED <<enabled, shifts, overrides, overlapping>>
    BY <1>2 DEF Roster!Add
  <2>3. EntryOK([contact |-> c, start |-> r.start, end |-> r.end])
    BY HandlingAssumption DEF EntryOK
  <2>4. RosterTypeOK'
    BY <1>0, <2>1, <2>2, <2>3 DEF RosterTypeOK
  <2>5. \A y \in Editors : editor'[y].at = "insert" => editor'[y] = editor[y]
    BY <1>0, <2>1 DEF RosterTypeOK
  <2> QED
    BY <2>2, <2>4, <2>5, NothingInserted
<1>3. ASSUME NEW x \in Editors, Roster!Patch(x)
      PROVE  RosterInv'
  <2>1. PICK b \in BOOLEAN : editor' = [editor EXCEPT ![x].at = "patch", ![x].enables = b]
    BY <1>3 DEF Roster!Patch
  <2>2. UNCHANGED <<enabled, shifts, overrides, overlapping>> /\ editor[x] = Roster!Idle
    BY <1>3 DEF Roster!Patch
  <2>3. editor'[x].at = "patch" /\ editor'[x].enables = b /\ editor'[x].table = "shifts"
        /\ \A y \in Editors : y # x => editor'[y] = editor[y]
    BY <1>0, <2>1, <2>2 DEF RosterTypeOK, Roster!Idle
  <2>4. RosterTypeOK'
    BY <1>0, <2>1, <2>2, <2>3 DEF RosterTypeOK
  <2> QED
    BY <2>2, <2>3, <2>4, NothingInserted
<1>4. ASSUME NEW x \in Editors, Roster!Write(x)
      PROVE  RosterInv'
  <2>1. /\ editor' = [editor EXCEPT ![x] = Roster!Idle] /\ enabled' = editor[x].enables
        /\ UNCHANGED <<shifts, overrides, overlapping>>
    BY <1>4 DEF Roster!Write
  <2>2. RosterTypeOK'
    BY <1>0, <2>1 DEF RosterTypeOK, Roster!Idle
  <2>3. \A y \in Editors : editor'[y].at = "insert" => editor'[y] = editor[y]
    BY <1>0, <2>1 DEF RosterTypeOK, Roster!Idle
  <2> QED
    BY <2>1, <2>2, <2>3, NothingInserted
<1> QED
  BY <1>1, <1>2, <1>3, <1>4, CheckStep, InsertStep DEF Roster!Next

(* Of a table whose entries do not overlap, findActive() has no choice.      *)
ActiveOf(table, t) == {v \in table : v.start <= t /\ t < v.end}

LEMMA OneIsActive ==
  ASSUME NEW table, Apart(table), \A v \in table : EntryOK(v), NEW t \in Nat
  PROVE  /\ ActiveOf(table, t) = {} => Roster!FindActive(table, t) = Roster!NoEntry
         /\ \A v \in ActiveOf(table, t) : Roster!FindActive(table, t) = v /\ v # Roster!NoEntry
<1>1. \A v, w \in ActiveOf(table, t) : v = w
  BY DEF ActiveOf, Apart, EntryOK, Roster!Overlaps
<1>2. ASSUME NEW v \in ActiveOf(table, t)
      PROVE  Roster!FindActive(table, t) = v
  <2>1. \A x \in ActiveOf(table, t) : \A w \in ActiveOf(table, t) : w.start <= x.start
    BY <1>1 DEF ActiveOf, EntryOK
  <2>2. (CHOOSE x \in ActiveOf(table, t) : \A w \in ActiveOf(table, t) : w.start <= x.start) \in ActiveOf(table, t)
    BY <1>2, <2>1
  <2>3. (CHOOSE x \in ActiveOf(table, t) : \A w \in ActiveOf(table, t) : w.start <= x.start) = v
    BY <1>1, <1>2, <2>2
  <2> QED
    BY <1>2, <2>3 DEF ActiveOf, Roster!FindActive
<1>3. \A v \in ActiveOf(table, t) : v # Roster!NoEntry
  BY HandlingAssumption DEF ActiveOf, EntryOK, Roster!NoEntry
<1>4. ActiveOf(table, t) = {} => Roster!FindActive(table, t) = Roster!NoEntry
  BY DEF ActiveOf, Roster!FindActive
<1> QED
  BY <1>2, <1>3, <1>4

(* Who is said to be on call at an instant, until another, is on call until  *)
(* then, however requests to the API interleave, as long as none was checked *)
(* while one that overlaps it was being added.                               *)
THEOREM OnCallUntilThen == HandlingSpec => []AssignmentLasts
<1>1. HandlingInit => RosterInv
  BY RosterInit DEF HandlingInit
<1>2. ASSUME [HandlingNext]_handlingVars
      PROVE  [Roster!Next]_rosterVars
  BY <1>2 DEF HandlingNext, handlingVars
<1>3. RosterInv /\ [HandlingNext]_handlingVars => RosterInv'
  BY <1>2, RosterStep
<1>4. ASSUME RosterInv, ~overlapping, NEW t \in Roster!Instants, NEW u \in Roster!Instants,
             t <= u, u < Roster!Resolve(t).validUntil,
             \A o \in overrides : ~(t < o.start /\ o.start <= u)
      PROVE  Roster!Resolve(u).contact = Roster!Resolve(t).contact
  <2> DEFINE shift(i) == Roster!FindActive(shifts, i)
             override(i) == Roster!FindActive(overrides, i)
  <2>1. t \in Nat /\ u \in Nat
    BY HandlingAssumption DEF Roster!Instants
  <2>2. /\ Apart(shifts) /\ Apart(overrides)
        /\ \A v \in shifts : EntryOK(v)
        /\ \A v \in overrides : EntryOK(v)
    BY <1>4 DEF RosterInv, RosterTypeOK, NoOverlaps
  <2>3. enabled /\ shift(t) # Roster!NoEntry
    BY <1>4, <2>1 DEF Roster!Resolve
  <2>4. shift(t) \in ActiveOf(shifts, t)
    BY <2>1, <2>2, <2>3, OneIsActive
  <2>5. CASE override(t) = Roster!NoEntry
    <3>1. ActiveOf(overrides, t) = {}
      BY <2>1, <2>2, <2>5, OneIsActive
    <3>2. ActiveOf(overrides, u) = {}
      BY <1>4, <2>1, <2>2, <3>1 DEF ActiveOf, EntryOK
    <3>3. override(u) = Roster!NoEntry
      BY <2>1, <2>2, <3>2, OneIsActive
    <3>4. Roster!Resolve(t) = [contact |-> shift(t).contact, validUntil |-> shift(t).end]
      BY <2>3, <2>5 DEF Roster!Resolve
    <3>5. shift(t) \in ActiveOf(shifts, u)
      BY <1>4, <2>1, <2>2, <2>4, <3>4 DEF ActiveOf, EntryOK
    <3>6. shift(u) = shift(t)
      BY <2>1, <2>2, <3>5, OneIsActive
    <3> QED
      BY <2>3, <3>3, <3>4, <3>6 DEF Roster!Resolve
  <2>6. CASE override(t) # Roster!NoEntry
    <3>1. override(t) \in ActiveOf(overrides, t)
      BY <2>1, <2>2, <2>6, OneIsActive
    <3>2. Roster!Resolve(t) = [contact |-> override(t).contact,
             validUntil |-> IF override(t).end < shift(t).end THEN override(t).end ELSE shift(t).end]
      BY <2>3, <2>6 DEF Roster!Resolve
    <3>3. /\ override(t).end \in Nat /\ override(t).start \in Nat
          /\ shift(t).end \in Nat /\ shift(t).start \in Nat
      BY <2>2, <2>4, <3>1 DEF ActiveOf, EntryOK
    <3>4. u < override(t).end /\ u < shift(t).end
      BY <1>4, <2>1, <3>2, <3>3
    <3>5. override(t) \in ActiveOf(overrides, u) /\ shift(t) \in ActiveOf(shifts, u)
      BY <1>4, <2>1, <2>4, <3>1, <3>3, <3>4 DEF ActiveOf
    <3>6. override(u) = override(t) /\ shift(u) = shift(t)
      BY <2>1, <2>2, <3>5, OneIsActive
    <3>7. Roster!Resolve(u) = Roster!Resolve(t)
      BY <3>6 DEF Roster!Resolve
    <3> QED
      BY <3>7
  <2> QED
    BY <2>5, <2>6
<1>5. RosterInv => AssignmentLasts
  BY <1>4 DEF AssignmentLasts, Roster!AssignmentLasts
<1> QED
  BY <1>1, <1>3, <1>5, PTL DEF HandlingSpec

(***************************************************************************)
(* The incidents.                                                          *)
(***************************************************************************)

Statuses3 == {"OPEN", "ACTIVE", "RESOLVED"}

Aggregates ==
  [status : Statuses3, key : {CorrelationKey(CorrelationResource(r)) : r \in Resources},
   primary : {CorrelationResource(r) : r \in Resources}, namespace : {r.namespace : r \in Resources},
   resources : Seq(Resources), signals : SUBSET Signals,
   evidence : SUBSET [id : Anomalies, at : Nat, log : BOOLEAN],
   timeline : SUBSET (Anomalies \X Statuses3 \X Nat),
   first : Nat, last : Nat, stabilizing : Nat, resolvedAt : Nat, estimate : Nat]

Events == [at : Nat, signal : Signals \union {None}, allow : BOOLEAN]

EnvironmentOK ==
  /\ story \in Stories /\ now \in Nat /\ estimates \in Nat
  /\ told \in [Anomalies -> [status : Statuses3 \union {None}, at : Nat]]
  /\ \A a \in Anomalies : told[a].at <= now

(* The event handled is the last one, and its signal what was last told.     *)
EventOK ==
  /\ event \in Events \union {None}
  /\ event = None => work.phase = "idle"
  /\ event # None =>
       /\ event.at = now
       /\ event.signal # None =>
            /\ told[event.signal.id] = [status |-> event.signal.status, at |-> event.signal.at]
            /\ event.signal.at = now
            /\ FromLog(story[event.signal.id]) \/ event.allow

(* An incident, as it is stored or was read: what it has as resolved has     *)
(* ended, and it stabilizes since the last of its signals was.               *)
SaneFor(tell, aggregate) ==
  /\ aggregate \in Aggregates /\ IsFiniteSet(aggregate.signals) /\ aggregate.signals # {}
  /\ \A s \in aggregate.signals :
       s.status = "RESOLVED" => tell[s.id].status = "RESOLVED" /\ tell[s.id].at = s.at
  /\ aggregate.stabilizing # 0 =>
       \A s \in aggregate.signals : s.status = "RESOLVED" /\ s.at <= aggregate.stabilizing

Sane(aggregate) == SaneFor(told, aggregate)

RowsOK ==
  /\ incidents \in Seq(Aggregates) /\ \A i \in DOMAIN incidents : Sane(incidents[i])
  /\ api.phase = "read" => Sane(api.base) /\ api.incident \in DOMAIN incidents

(* The database finds an anomaly in an incident that has it.                 *)
HeldOK ==
  /\ held \in [Anomalies -> 0..Len(incidents)]
  /\ \A a \in Anomalies : held[a] # 0 => \E s \in incidents[held[a]].signals : s.id = a

Pending(a) ==
  /\ event # None /\ event.signal # None /\ event.signal.id = a
  /\ work.phase \in {"idle", "match", "write"}

(* What a handler knows that is about to write.                              *)
WriteOK ==
  /\ work.phase = "match" => event.signal # None /\ event.signal.status # "RESOLVED"
  /\ work.phase = "match" /\ ~stale => held[event.signal.id] = 0
  /\ work.phase = "write" =>
       /\ event.signal # None /\ Sane(work.aggregate)
       /\ work.incident \in 1..(Len(incidents) + 1)
       /\ IF work.incident <= Len(incidents)
          THEN Sane(work.base) /\ work.aggregate = Rebuilt(work.base, event.signal)
          ELSE work.aggregate = Created(event.signal)
       /\ ~stale => held[event.signal.id] \in {0, work.incident}

IsDue(time, aggregate) ==
  aggregate.stabilizing # 0 /\ time >= aggregate.stabilizing + StabilizationPeriod

DueOK ==
  /\ work.phase \in {"resolve", "resolving"} =>
       /\ work.todo \in Seq(DOMAIN incidents)
       /\ ~stale => \A k \in DOMAIN work.todo : IsDue(event.at, incidents[work.todo[k]])
  /\ work.phase = "resolving" =>
       work.todo # <<>> /\ Sane(work.base) /\ (~stale => IsDue(event.at, work.base))

(* An incident has an anomaly that is found there, as it was last told, but  *)
(* for what the event is about.                                              *)
Current(last, aggregate, a) ==
  /\ \E s \in aggregate.signals : s.id = a /\ s.status = last.status /\ s.at = last.at
  /\ \E e \in aggregate.evidence : e.id = a /\ e.at = last.at

NothingLost ==
  ~stale =>
    /\ \A i \in DOMAIN incidents : \A s \in incidents[i].signals : held[s.id] = i
    /\ ~refused => \A a \in Anomalies :
         ~Pending(a) =>
           /\ held[a] # 0 => Current(told[a], incidents[held[a]], a)
           /\ told[a].status \in {"OPEN", "ACTIVE"} /\ ~FromLog(story[a]) => held[a] # 0

IncidentInv ==
  /\ EnvironmentOK /\ EventOK /\ RowsOK /\ HeldOK /\ WriteOK /\ DueOK
  /\ NothingLost /\ ResolvedIsQuiet

-----------------------------------------------------------------------------
(* Aggregates *)

LEMMA SignalFields ==
  ASSUME NEW s \in Signals
  PROVE  /\ s.id \in Anomalies /\ s.status \in Statuses3 /\ s.at \in Nat
         /\ s.resource \in Resources /\ s.severity \in Severities /\ s.confidence \in 0..100
         /\ s.classification \in STRING
<1> QED
  BY DEF Signals, Statuses3

LEMMA MinMax ==
  ASSUME NEW m \in Nat, NEW n \in Nat
  PROVE  Min({m, n}) \in Nat /\ Max({m, n}) \in Nat
<1>1. /\ \E x \in {m, n} : \A y \in {m, n} : x <= y
      /\ \E x \in {m, n} : \A y \in {m, n} : x >= y
  OBVIOUS
<1>2. Min({m, n}) \in {m, n}
  BY <1>1, Zenon DEF Min
<1>3. Max({m, n}) \in {m, n}
  BY <1>1, Zenon DEF Max
<1> QED
  BY <1>2, <1>3

LEMMA AddedType ==
  ASSUME NEW rs \in Seq(Resources), NEW r \in Resources
  PROVE  Added(rs, r) \in Seq(Resources)
<1> QED
  BY DEF Added

LEMMA EvidenceType ==
  ASSUME NEW s \in Signals
  PROVE  /\ Evidence(s) \in [id : Anomalies, at : Nat, log : BOOLEAN]
         /\ Evidence(s).id = s.id /\ Evidence(s).at = s.at
         /\ Entry(s) \in Anomalies \X Statuses3 \X Nat
<1> QED
  BY SignalFields DEF Evidence, Entry, FromLog

LEMMA StabilizingType ==
  ASSUME NEW i \in Aggregates, NEW s \in Signals, NEW signals
  PROVE  Stabilizing(i, signals, s) \in Nat
<1> QED
  BY SignalFields DEF Stabilizing, Aggregates

LEMMA MakeAggregate ==
  ASSUME NEW i \in Aggregates, NEW n,
         n = [x \in DOMAIN i |-> n[x]],
         n.status \in Statuses3, n.key = i.key,
         n.primary \in {CorrelationResource(r) : r \in Resources},
         n.namespace = i.namespace, n.resources \in Seq(Resources),
         n.signals \subseteq Signals, n.evidence \subseteq [id : Anomalies, at : Nat, log : BOOLEAN],
         n.timeline \subseteq Anomalies \X Statuses3 \X Nat,
         n.first \in Nat, n.last \in Nat, n.stabilizing \in Nat, n.resolvedAt \in Nat, n.estimate \in Nat
  PROVE  n \in Aggregates
<1>1. DOMAIN i = {"status", "key", "primary", "namespace", "resources", "signals", "evidence",
                  "timeline", "first", "last", "stabilizing", "resolvedAt", "estimate"}
  BY DEF Aggregates
<1>2. /\ i.key \in {CorrelationKey(CorrelationResource(r)) : r \in Resources}
      /\ i.namespace \in {r.namespace : r \in Resources}
  BY DEF Aggregates
<1> QED
  BY <1>1, <1>2 DEF Aggregates

LEMMA RebuiltFields ==
  ASSUME NEW i \in Aggregates, NEW s \in Signals
  PROVE  /\ Rebuilt(i, s) \in Aggregates
         /\ Rebuilt(i, s).status = "ACTIVE"
         /\ Rebuilt(i, s).signals = {t \in i.signals : t.id # s.id} \union {s}
         /\ Evidence(s) \in Rebuilt(i, s).evidence
         /\ \A e \in i.evidence : e.id # s.id => e \in Rebuilt(i, s).evidence
         /\ Rebuilt(i, s).stabilizing = Stabilizing(i, Rebuilt(i, s).signals, s)
<1> DEFINE signals == {t \in i.signals : t.id # s.id} \union {s}
           others == {e \in i.evidence : ~(FromLog(s) /\ e.log /\ e.id = s.id)}
           node == {t \in signals : t.classification = "NODE_NOT_READY"}
           primary == IF node = {} THEN i.primary
                      ELSE CorrelationResource((CHOOSE t \in node : TRUE).resource)
           n == Rebuilt(i, s)
<1>1. DOMAIN i = {"status", "key", "primary", "namespace", "resources", "signals", "evidence",
                  "timeline", "first", "last", "stabilizing", "resolvedAt", "estimate"}
  BY DEF Aggregates
<1>2. /\ n = [x \in DOMAIN i |-> n[x]]
      /\ n.status = "ACTIVE" /\ n.resolvedAt = 0 /\ n.signals = signals
      /\ n.resources = Added(i.resources, s.resource)
      /\ n.evidence = others \union {Evidence(s)}
      /\ n.timeline = i.timeline \union {Entry(s)}
      /\ n.primary = primary
      /\ n.first = Min({i.first, s.at}) /\ n.last = Max({i.last, s.at})
      /\ n.stabilizing = Stabilizing(i, signals, s)
      /\ n.key = i.key /\ n.namespace = i.namespace /\ n.estimate = i.estimate
  BY <1>1 DEF Rebuilt
<1>3. /\ i.primary \in {CorrelationResource(r) : r \in Resources} /\ i.resources \in Seq(Resources)
      /\ i.signals \subseteq Signals /\ i.evidence \subseteq [id : Anomalies, at : Nat, log : BOOLEAN]
      /\ i.timeline \subseteq Anomalies \X Statuses3 \X Nat
      /\ i.first \in Nat /\ i.last \in Nat /\ i.estimate \in Nat
  BY DEF Aggregates
<1>4. signals \subseteq Signals
  BY <1>3
<1>5. primary \in {CorrelationResource(r) : r \in Resources}
  <2>1. CASE node = {}
    BY <1>3, <2>1
  <2>2. CASE node # {}
    <3>1. (CHOOSE t \in node : TRUE) \in node
      BY <2>2
    <3>2. (CHOOSE t \in node : TRUE) \in Signals
      BY <1>4, <3>1
    <3> HIDE DEF node
    <3> QED
      BY <2>2, <3>2, SignalFields
  <2> QED
    BY <2>1, <2>2
<1>6. others \subseteq i.evidence /\ \A e \in i.evidence : e.id # s.id => e \in others
  OBVIOUS
<1>7. s.at \in Nat /\ s.resource \in Resources
  BY SignalFields
<1> HIDE DEF n, primary, signals, others
<1>8. n \in Aggregates
  <2>1. n.status \in Statuses3
    BY <1>2 DEF Statuses3
  <2>2. n.evidence \subseteq [id : Anomalies, at : Nat, log : BOOLEAN]
    BY <1>2, <1>3, <1>6, EvidenceType
  <2>3. n.timeline \subseteq Anomalies \X Statuses3 \X Nat
    BY <1>2, <1>3, EvidenceType
  <2>4. n.first \in Nat /\ n.last \in Nat
    BY <1>2, <1>3, <1>7, MinMax
  <2>5. n.resources \in Seq(Resources)
    BY <1>2, <1>3, <1>7, AddedType
  <2>6. n.stabilizing \in Nat /\ n.resolvedAt \in Nat /\ n.estimate \in Nat
    BY <1>2, <1>3, StabilizingType
  <2>7. n.signals \subseteq Signals /\ n.primary \in {CorrelationResource(r) : r \in Resources}
    BY <1>2, <1>4, <1>5
  <2> QED
    BY <1>2, <2>1, <2>2, <2>3, <2>4, <2>5, <2>6, <2>7, MakeAggregate
<1> QED
  BY <1>2, <1>6, <1>8 DEF n, signals

LEMMA CreatedFields ==
  ASSUME NEW s \in Signals
  PROVE  /\ Created(s) \in Aggregates
         /\ Created(s).status = "OPEN" /\ Created(s).signals = {s}
         /\ Evidence(s) \in Created(s).evidence /\ Created(s).stabilizing = 0
<1>1. s.resource \in Resources /\ s.at \in Nat
  BY SignalFields
<1>2. <<s.resource>> \in Seq(Resources)
  BY <1>1
<1>3. Created(s) \in Aggregates
  BY <1>1, <1>2, EvidenceType DEF Created, Aggregates, Statuses3
<1> QED
  BY <1>3 DEF Created

-----------------------------------------------------------------------------
(* What a handler makes of a signal is sane. *)

LEMMA EventSignal ==
  ASSUME EnvironmentOK, EventOK, event # None, event.signal # None
  PROVE  /\ event.signal \in Signals /\ event.signal.id \in Anomalies /\ event.at = now
         /\ told[event.signal.id] = [status |-> event.signal.status, at |-> event.signal.at]
         /\ event.signal.at = now
<1>1. event.signal \in Signals
  BY DEF EventOK, Events
<1> QED
  BY <1>1, SignalFields DEF EventOK

LEMMA CreatedIsSane ==
  ASSUME EnvironmentOK, EventOK, event # None, event.signal # None, event.signal.status # "RESOLVED"
  PROVE  Sane(Created(event.signal))
<1>1. event.signal \in Signals
  BY EventSignal
<1>2. IsFiniteSet({event.signal})
  BY FS_Singleton
<1> QED
  BY <1>1, <1>2, CreatedFields DEF Sane, SaneFor

LEMMA RebuiltIsSane ==
  ASSUME EnvironmentOK, EventOK, event # None, event.signal # None, NEW base, Sane(base),
         event.signal.status = "RESOLVED" => \E t \in base.signals : t.id = event.signal.id
  PROVE  Sane(Rebuilt(base, event.signal))
<1> DEFINE s == event.signal
           old == {t \in base.signals : t.id # s.id}
           signals == old \union {s}
<1>1. s \in Signals /\ s.id \in Anomalies /\ s.at = now /\ told[s.id].status = s.status /\ told[s.id].at = s.at
  BY EventSignal
<1>2. base \in Aggregates /\ IsFiniteSet(base.signals) /\ base.signals \subseteq Signals /\ base.stabilizing \in Nat
  BY DEF Sane, SaneFor, Aggregates
<1>3. /\ Rebuilt(base, s) \in Aggregates /\ Rebuilt(base, s).signals = signals
      /\ Rebuilt(base, s).stabilizing = Stabilizing(base, signals, s)
  BY <1>1, <1>2, RebuiltFields
<1>4. IsFiniteSet(signals)
  <2>1. IsFiniteSet(old)
    BY <1>2, FS_Subset
  <2> QED
    BY <2>1, FS_AddElement
<1>5. \A t \in old : t \in base.signals /\ t \in Signals /\ t.id # s.id
  BY <1>2
<1>6. \A t \in base.signals : t.status = "RESOLVED" => told[t.id].status = "RESOLVED" /\ told[t.id].at = t.at
  BY DEF Sane, SaneFor
<1>7. base.stabilizing # 0 => \A t \in base.signals : t.status = "RESOLVED" /\ t.at <= base.stabilizing
  BY DEF Sane, SaneFor
<1> HIDE DEF s, old
<1>8. \A t \in signals : t.status = "RESOLVED" => told[t.id].status = "RESOLVED" /\ told[t.id].at = t.at
  BY <1>1, <1>5, <1>6
<1>9. ASSUME Stabilizing(base, signals, s) # 0
      PROVE  \A t \in signals : t.status = "RESOLVED" /\ t.at <= Stabilizing(base, signals, s)
  <2>1. \A t \in signals : t.status = "RESOLVED"
    BY <1>9 DEF Stabilizing, Unresolved
  <2>2. Stabilizing(base, signals, s) = IF base.stabilizing # 0 THEN base.stabilizing ELSE s.at
    BY <1>9 DEF Stabilizing
  <2>3. s.at \in Nat /\ \A t \in old : t.at \in Nat /\ t.id \in Anomalies
    BY <1>1, <1>5, SignalFields
  <2>4. CASE base.stabilizing = 0
    <3>1. \A t \in old : told[t.id].at = t.at /\ told[t.id].at <= now
      BY <1>5, <1>6, <2>1, <2>3 DEF EnvironmentOK
    <3> QED
      BY <1>1, <2>1, <2>2, <2>3, <2>4, <3>1
  <2>5. CASE base.stabilizing # 0
    <3>1. PICK t \in base.signals : t.id = s.id
      BY <2>1 DEF s
    <3>2. t.at = s.at /\ t.at <= base.stabilizing
      BY <1>1, <1>6, <1>7, <2>5, <3>1
    <3> QED
      BY <1>5, <1>7, <2>1, <2>2, <2>5, <3>2
  <2> QED
    BY <2>4, <2>5
<1> QED
  BY <1>3, <1>4, <1>8, <1>9 DEF Sane, SaneFor, s

-----------------------------------------------------------------------------
(* A commit *)

LEMMA CommitRows ==
  ASSUME RowsOK, HeldOK, NEW i \in 1..(Len(incidents) + 1), NEW base, NEW aggregate,
         Sane(aggregate), Commit(i, base, aggregate)
  PROVE  /\ incidents' \in Seq(Aggregates)
         /\ DOMAIN incidents' = DOMAIN incidents \union {i} /\ Len(incidents') >= Len(incidents)
         /\ i <= Len(incidents) => Len(incidents') = Len(incidents)
         /\ incidents'[i] = aggregate
         /\ \A j \in DOMAIN incidents \ {i} : incidents'[j] = incidents[j]
         /\ held' \in [Anomalies -> 0..Len(incidents')]
         /\ \A a \in Anomalies : held'[a] # 0 => \E s \in incidents'[held'[a]].signals : s.id = a
<1> DEFINE S == Aggregates
<1>1. incidents \in Seq(S) /\ aggregate \in S /\ Len(incidents) \in Nat
  BY DEF RowsOK, Sane, SaneFor
<1>2. incidents' = IF i > Len(incidents) THEN Append(incidents, aggregate)
                   ELSE [incidents EXCEPT ![i] = aggregate]
  BY DEF Commit
<1> HIDE DEF S
<1>3. /\ incidents' \in Seq(S)
      /\ DOMAIN incidents' = DOMAIN incidents \union {i} /\ Len(incidents') >= Len(incidents)
      /\ i <= Len(incidents) => Len(incidents') = Len(incidents)
      /\ i \in 1..Len(incidents')
      /\ incidents'[i] = aggregate
      /\ \A j \in DOMAIN incidents \ {i} : incidents'[j] = incidents[j]
  <2>1. CASE i > Len(incidents)
    <3>1. incidents' = Append(incidents, aggregate) /\ i = Len(incidents) + 1
      BY <1>1, <1>2, <2>1
    <3> QED
      BY <1>1, <3>1
  <2>2. CASE ~(i > Len(incidents))
    <3>1. incidents' = [incidents EXCEPT ![i] = aggregate] /\ i \in 1..Len(incidents)
      BY <1>1, <1>2, <2>2
    <3>2. incidents' \in Seq(S) /\ Len(incidents') = Len(incidents)
      BY <1>1, <3>1
    <3>3. incidents'[i] = aggregate /\ \A j \in DOMAIN incidents \ {i} : incidents'[j] = incidents[j]
      BY <1>1, <3>1
    <3> QED
      BY <1>1, <3>1, <3>2, <3>3
  <2> QED
    BY <2>1, <2>2
<1>4. \A a \in Anomalies :
        \/ held'[a] = i /\ \E s \in aggregate.signals : s.id = a
        \/ held'[a] = 0
        \/ held'[a] = held[a] /\ held[a] # i
  BY DEF Commit, Holding
<1>5. held' \in [Anomalies -> 0..Len(incidents')]
  <2>1. held' = [a \in Anomalies |-> held'[a]]
    BY DEF Commit, Holding
  <2>2. \A a \in Anomalies : held'[a] \in 0..Len(incidents')
    BY <1>1, <1>3, <1>4 DEF HeldOK
  <2> QED
    BY <2>1, <2>2
<1>6. ASSUME NEW a \in Anomalies, held'[a] # 0
      PROVE  \E s \in incidents'[held'[a]].signals : s.id = a
  <2>1. CASE held'[a] = held[a] /\ held[a] # i
    <3>1. held[a] \in DOMAIN incidents \ {i}
      BY <1>1, <1>6, <2>1 DEF HeldOK
    <3> QED
      BY <1>3, <1>6, <2>1, <3>1 DEF HeldOK
  <2> QED
    BY <1>3, <1>4, <1>6, <2>1
<1> QED
  BY <1>3, <1>5, <1>6 DEF S

\* Writing an incident with the signals it has moves no anomaly, ...
LEMMA CommitSame ==
  ASSUME RowsOK, HeldOK, NEW i \in DOMAIN incidents, NEW base, NEW aggregate,
         Commit(i, base, aggregate), base = incidents[i], aggregate.signals = base.signals,
         \A j \in DOMAIN incidents : \A s \in incidents[j].signals : held[s.id] = j
  PROVE  held' = held
<1>1. \A a \in Anomalies : held[a] = i <=> \E s \in aggregate.signals : s.id = a
  <2>1. i # 0
    BY DEF RowsOK
  <2> QED
    BY <2>1 DEF HeldOK
<1>2. ASSUME NEW a \in Anomalies
      PROVE  Holding(i, aggregate)[a] = held[a]
  BY <1>1 DEF Holding
<1> QED
  BY <1>2 DEF HeldOK, Commit, Holding

\* ... and with a signal more only that of the signal.
LEMMA CommitMore ==
  ASSUME RowsOK, HeldOK, NEW i \in 1..(Len(incidents) + 1), NEW base, NEW aggregate,
         Commit(i, base, aggregate), NEW s \in Signals, held[s.id] \in {0, i},
         \A j \in DOMAIN incidents : \A t \in incidents[j].signals : held[t.id] = j,
         aggregate.signals =
           {t \in (IF i <= Len(incidents) THEN incidents[i].signals ELSE {}) : t.id # s.id} \union {s}
  PROVE  held' = [held EXCEPT ![s.id] = i]
<1>1. s.id \in Anomalies /\ i # 0 /\ Len(incidents) \in Nat
  BY SignalFields DEF RowsOK
<1>2. ASSUME NEW a \in Anomalies, a # s.id
      PROVE  held[a] = i <=> \E t \in aggregate.signals : t.id = a
  <2>1. CASE i <= Len(incidents)
    <3>1. i \in DOMAIN incidents
      BY <1>1, <2>1 DEF RowsOK
    <3> QED
      BY <1>1, <1>2, <2>1, <3>1 DEF HeldOK
  <2>2. CASE ~(i <= Len(incidents))
    <3>1. held[a] # i
      BY <1>1, <1>2, <2>2 DEF HeldOK
    <3> QED
      BY <1>2, <2>2, <3>1
  <2> QED
    BY <2>1, <2>2
<1>3. \E t \in aggregate.signals : t.id = s.id
  OBVIOUS
<1>4. ASSUME NEW a \in Anomalies
      PROVE  Holding(i, aggregate)[a] = IF a = s.id THEN i ELSE held[a]
  BY <1>1, <1>2, <1>3, <1>4 DEF Holding
<1>5. held' = Holding(i, aggregate) /\ Holding(i, aggregate) = [a \in Anomalies |-> Holding(i, aggregate)[a]]
  BY DEF Commit, Holding
<1>6. held = [a \in Anomalies |-> held[a]]
  BY DEF HeldOK
<1> QED
  BY <1>1, <1>4, <1>5, <1>6

-----------------------------------------------------------------------------
(* The steps that write no incident *)

LEMMA SignalledType ==
  ASSUME EnvironmentOK, NEW a \in Anomalies, NEW s \in [status : Statuses3, at : Nat]
  PROVE  /\ Signalled(a, s) \in Signals /\ Signalled(a, s) # None
         /\ Signalled(a, s).id = a /\ Signalled(a, s).status = s.status /\ Signalled(a, s).at = s.at
<1>1. story[a] \in Known
  BY IncidentsAssumption DEF EnvironmentOK
<1> QED
  BY <1>1, IncidentsAssumption DEF Signalled, Known, Signals, Statuses3

LEMMA ArriveStep ==
  ASSUME IncidentInv, Arrive
  PROVE  IncidentInv'
<1> USE DEF IncidentInv
<1>0. PICK a \in Anomalies, allow \in BOOLEAN :
        \E status \in Statuses(a) :
          LET s == [status |-> status, at |-> now + 1]
          IN /\ ~FromLog(story[a]) => allow
             /\ Received(now + 1, Signalled(a, s), allow)
             /\ told' = [told EXCEPT ![a] = s]
  BY DEF Arrive
<1>1. PICK status \in Statuses(a) :
        LET s == [status |-> status, at |-> now + 1]
        IN /\ ~FromLog(story[a]) => allow
           /\ Received(now + 1, Signalled(a, s), allow)
           /\ told' = [told EXCEPT ![a] = s]
  BY <1>0
<1> DEFINE s == [status |-> status, at |-> now + 1]
           signal == Signalled(a, s)
<1>2. /\ told[a].status # "RESOLVED" /\ status \in Statuses3 /\ now + 1 \in Nat
      /\ story \in Stories /\ now \in Nat
  BY DEF Statuses, Statuses3, EnvironmentOK
<1>3. signal \in Signals /\ signal # None /\ signal.id = a /\ signal.status = status /\ signal.at = now + 1
  BY <1>2, SignalledType
<1> HIDE DEF signal
<1>4. /\ event = None /\ event' = [at |-> now + 1, signal |-> signal, allow |-> allow] /\ now' = now + 1
      /\ UNCHANGED <<story, work, incidents, held, api, estimates, stale, refused>>
  BY <1>1 DEF signal, Received, database, operator, history
<1>5. event' \in Events /\ event' # None /\ event'.signal = signal /\ event'.at = now + 1 /\ event'.allow = allow
  BY <1>2, <1>3, <1>4, IncidentsAssumption DEF Events
<1>6. told' = [told EXCEPT ![a] = s] /\ (~FromLog(story[a]) => allow)
  BY <1>1
<1>7. /\ told' \in [Anomalies -> [status : Statuses3 \union {None}, at : Nat]]
      /\ told'[a] = s /\ \A b \in Anomalies \ {a} : told'[b] = told[b]
  BY <1>2, <1>6 DEF EnvironmentOK
<1>8. work.phase = "idle"
  BY <1>4 DEF EventOK
<1>9. EnvironmentOK'
  BY <1>2, <1>4, <1>7 DEF EnvironmentOK
<1>10. EventOK'
  BY <1>3, <1>4, <1>5, <1>6, <1>7 DEF EventOK
<1>11. \A aggregate : Sane(aggregate) => SaneFor(told', aggregate)
  <2> SUFFICES ASSUME NEW aggregate, Sane(aggregate)
               PROVE  SaneFor(told', aggregate)
    OBVIOUS
  <2>1. \A t \in aggregate.signals : t.id \in Anomalies
    BY SignalFields DEF Sane, SaneFor, Aggregates
  <2>2. \A t \in aggregate.signals : t.status = "RESOLVED" => t.id # a
    BY <1>2 DEF Sane, SaneFor
  <2> QED
    BY <1>7, <2>1, <2>2 DEF Sane, SaneFor
<1>12. RowsOK'
  BY <1>4, <1>11 DEF RowsOK, Sane
<1>13. HeldOK'
  BY <1>4 DEF HeldOK
<1>14. WriteOK' /\ DueOK'
  BY <1>4, <1>8 DEF WriteOK, DueOK
<1>15. NothingLost'
  <2>1. \A b \in Anomalies : ~Pending(b)' => b # a
    BY <1>3, <1>4, <1>5, <1>8 DEF Pending
  <2>2. \A b \in Anomalies : ~Pending(b)
    BY <1>4 DEF Pending
  <2> QED
    BY <1>4, <1>7, <2>1, <2>2 DEF NothingLost
<1>16. ResolvedIsQuiet'
  BY <1>4 DEF ResolvedIsQuiet
<1> QED
  BY <1>9, <1>10, <1>12, <1>13, <1>14, <1>15, <1>16

LEMMA ArriveQuietStep ==
  ASSUME IncidentInv, ArriveQuiet
  PROVE  IncidentInv'
<1> USE DEF IncidentInv
<1>1. PICK gap \in 1..MaxGap : Received(now + gap, None, FALSE) /\ UNCHANGED told
  BY DEF ArriveQuiet
<1>2. now \in Nat /\ now + gap \in Nat /\ now + gap >= now
  BY <1>1, IncidentsAssumption DEF EnvironmentOK
<1>3. /\ event = None /\ event' = [at |-> now + gap, signal |-> None, allow |-> FALSE] /\ now' = now + gap
      /\ UNCHANGED <<story, told, work, incidents, held, api, estimates, stale, refused>>
  BY <1>1 DEF Received, database, operator, history
<1>4. event' \in Events /\ event'.signal = None /\ event'.at = now + gap
  BY <1>2, <1>3 DEF Events
<1>5. work.phase = "idle"
  BY <1>3 DEF EventOK
<1>6. EnvironmentOK'
  BY <1>2, <1>3 DEF EnvironmentOK
<1>7. EventOK'
  BY <1>3, <1>4 DEF EventOK
<1>8. RowsOK' /\ HeldOK'
  BY <1>3 DEF RowsOK, Sane, HeldOK
<1>9. WriteOK' /\ DueOK'
  BY <1>3, <1>5 DEF WriteOK, DueOK
<1>10. NothingLost'
  BY <1>3, <1>4 DEF NothingLost, Pending
<1>11. ResolvedIsQuiet'
  BY <1>3 DEF ResolvedIsQuiet
<1> QED
  BY <1>6, <1>7, <1>8, <1>9, <1>10, <1>11

\* What becomes of the rest when only the handler goes on.
LEMMA HandlerFrame ==
  ASSUME IncidentInv, UNCHANGED <<environment, event, database, operator, stale, refused>>,
         event # None, WriteOK', DueOK',
         \A a \in Anomalies : Pending(a) => \/ Pending(a)'
                                            \/ stale
                                            \/ /\ held[a] = 0
                                               /\ told[a].status = "RESOLVED" \/ FromLog(story[a])
  PROVE  IncidentInv'
<1> USE DEF IncidentInv, environment, database, operator
<1>1. EnvironmentOK' /\ RowsOK' /\ HeldOK' /\ ResolvedIsQuiet'
  BY DEF EnvironmentOK, RowsOK, Sane, HeldOK, ResolvedIsQuiet
<1>2. EventOK'
  BY DEF EventOK
<1>3. NothingLost'
  BY DEF NothingLost
<1> QED
  BY <1>1, <1>2, <1>3

LEMMA LookupStep ==
  ASSUME IncidentInv, Lookup
  PROVE  IncidentInv'
<1>1. event # None /\ work.phase = "idle" /\ UNCHANGED <<environment, event, database, operator, history>>
  BY DEF Lookup, Idle
<1> DEFINE s == event.signal
           i == IF s = None THEN 0 ELSE Holder(s.id)
<1>2. CASE s = None
  <2>1. work' = [phase |-> "advance"]
    BY <1>2 DEF Lookup
  <2>2. WriteOK' /\ DueOK'
    BY <2>1 DEF WriteOK, DueOK
  <2>3. \A a \in Anomalies : ~Pending(a)
    BY <1>2 DEF Pending
  <2> QED
    BY <1>1, <2>2, <2>3, HandlerFrame DEF history
<1>3. CASE s # None /\ i # 0
  <2>1. work' = Writing(i, incidents[i], Rebuilt(incidents[i], s)) /\ i = held[s.id]
    BY <1>3 DEF Lookup, Holder
  <2>2. s.id \in Anomalies
    BY <1>1, <1>3, EventSignal DEF IncidentInv
  <2>3. i \in DOMAIN incidents /\ i \in 1..Len(incidents) /\ Sane(incidents[i]) /\ Len(incidents) \in Nat
        /\ \E t \in incidents[i].signals : t.id = s.id
    BY <1>3, <2>1, <2>2 DEF IncidentInv, HeldOK, RowsOK
  <2>4. Sane(Rebuilt(incidents[i], s))
    BY <1>1, <1>3, <2>3, RebuiltIsSane DEF IncidentInv
  <2> HIDE DEF i
  <2>5. /\ work'.phase = "write" /\ work'.incident = i /\ work'.base = incidents[i]
        /\ work'.aggregate = Rebuilt(incidents[i], s)
    BY <2>1 DEF Writing
  <2>6. WriteOK'
    BY <1>1, <1>3, <2>1, <2>3, <2>4, <2>5 DEF WriteOK, Sane, environment, database, history
  <2>7. DueOK'
    BY <2>5 DEF DueOK
  <2>8. \A a \in Anomalies : Pending(a) => Pending(a)'
    BY <1>1, <2>5 DEF Pending
  <2> QED
    BY <1>1, <2>6, <2>7, <2>8, HandlerFrame DEF history
<1>4. CASE s # None /\ i = 0 /\ s.status = "RESOLVED"
  <2>1. work' = [phase |-> "advance"] /\ held[s.id] = 0
    BY <1>4 DEF Lookup, Holder
  <2>2. WriteOK' /\ DueOK'
    BY <2>1 DEF WriteOK, DueOK
  <2>3. told[s.id].status = "RESOLVED"
    BY <1>1, <1>4, EventSignal DEF IncidentInv
  <2>4. \A a \in Anomalies : Pending(a) => a = s.id
    BY DEF Pending
  <2> QED
    BY <1>1, <2>1, <2>2, <2>3, <2>4, HandlerFrame DEF history
<1>5. CASE s # None /\ i = 0 /\ s.status # "RESOLVED"
  <2>1. work' = [phase |-> "match"] /\ held[s.id] = 0
    BY <1>5 DEF Lookup, Holder
  <2>2. WriteOK' /\ DueOK'
    BY <1>1, <1>5, <2>1 DEF WriteOK, DueOK, database
  <2>3. \A a \in Anomalies : Pending(a) => Pending(a)'
    BY <1>1, <2>1 DEF Pending
  <2> QED
    BY <1>1, <2>2, <2>3, HandlerFrame DEF history
<1> QED
  BY <1>2, <1>3, <1>4, <1>5

LEMMA SortedIncidents ==
  ASSUME RowsOK, NEW S \in SUBSET DOMAIN incidents, NEW q \in ByLastSeen(S)
  PROVE  /\ q \in Seq(S) /\ q \in Seq(DOMAIN incidents)
         /\ \A k \in DOMAIN q : q[k] \in S
         /\ q # <<>> => q[1] \in S
<1>1. IsFiniteSet(S)
  <2>1. DOMAIN incidents = 1..Len(incidents) /\ Len(incidents) \in Nat
    BY DEF RowsOK
  <2>2. IsFiniteSet(1..Len(incidents))
    BY <2>1, FS_Interval
  <2> QED
    BY <2>1, <2>2, FS_Subset
<1>2. Cardinality(S) \in Nat
  BY <1>1, FS_CardinalityType
<1>3. q \in [1..Cardinality(S) -> S]
  BY DEF ByLastSeen, SetToSeqs
<1>4. q \in Seq(S)
  BY <1>2, <1>3
<1>5. \A k \in DOMAIN q : q[k] \in S
  BY <1>3
<1>6. q \in Seq(DOMAIN incidents)
  BY <1>2, <1>3
<1> QED
  BY <1>4, <1>5, <1>6

LEMMA MatchStep ==
  ASSUME IncidentInv, Match
  PROVE  IncidentInv'
<1> DEFINE s == event.signal
<1>1. work.phase = "match" /\ UNCHANGED <<environment, event, database, operator, history>>
  BY DEF Match
<1>2. /\ event # None /\ s # None /\ s.status # "RESOLVED" /\ (~stale => held[s.id] = 0)
  BY <1>1 DEF IncidentInv, EventOK, WriteOK
<1>3. PICK newest \in ByLastSeen(Candidates(s)) :
        \/ /\ newest # <<>>
           /\ work' = Writing(newest[1], incidents[newest[1]], Rebuilt(incidents[newest[1]], s))
        \/ /\ newest = <<>> /\ event.allow /\ Len(incidents) < MaxIncidents
           /\ work' = Writing(Len(incidents) + 1, None, Created(s))
        \/ /\ newest = <<>> /\ ~event.allow
           /\ work' = [phase |-> "advance"]
  BY DEF Match
<1>4. Candidates(s) \subseteq DOMAIN incidents
  BY DEF Candidates, Active
<1>5. Len(incidents) \in Nat /\ DOMAIN incidents = 1..Len(incidents)
  BY DEF IncidentInv, RowsOK
<1> HIDE DEF s
<1>6. CASE newest # <<>>
  <2>1. PICK i \in DOMAIN incidents : i = newest[1]
    BY <1>3, <1>4, <1>6, SortedIncidents DEF IncidentInv
  <2>2. /\ work'.phase = "write" /\ work'.incident = i /\ work'.base = incidents[i]
        /\ work'.aggregate = Rebuilt(incidents[i], s)
    BY <1>3, <1>6, <2>1 DEF Writing
  <2>3. Sane(incidents[i])
    BY DEF IncidentInv, RowsOK
  <2>4. Sane(Rebuilt(incidents[i], s))
    BY <1>2, <2>3, RebuiltIsSane DEF IncidentInv, s
  <2>5. WriteOK'
    BY <1>1, <1>2, <1>5, <2>2, <2>3, <2>4 DEF WriteOK, Sane, environment, database, history, s
  <2>6. DueOK' /\ \A a \in Anomalies : Pending(a) => Pending(a)'
    BY <1>1, <2>2 DEF DueOK, Pending
  <2> QED
    BY <1>1, <1>2, <2>5, <2>6, HandlerFrame DEF history
<1>7. CASE newest = <<>> /\ event.allow
  <2>1. /\ work'.phase = "write" /\ work'.incident = Len(incidents) + 1
        /\ work'.aggregate = Created(s)
    BY <1>3, <1>7 DEF Writing
  <2>2. Sane(Created(s))
    BY <1>2, CreatedIsSane DEF IncidentInv, s
  <2>3. WriteOK'
    BY <1>1, <1>2, <1>5, <2>1, <2>2 DEF WriteOK, Sane, environment, database, history, s
  <2>4. DueOK' /\ \A a \in Anomalies : Pending(a) => Pending(a)'
    BY <1>1, <2>1 DEF DueOK, Pending
  <2> QED
    BY <1>1, <1>2, <2>3, <2>4, HandlerFrame DEF history
<1>8. CASE newest = <<>> /\ ~event.allow
  <2>1. work' = [phase |-> "advance"]
    BY <1>3, <1>8
  <2>2. WriteOK' /\ DueOK'
    BY <2>1 DEF WriteOK, DueOK
  <2>3. FromLog(story[s.id])
    BY <1>2, <1>8 DEF IncidentInv, EventOK, s
  <2>4. \A a \in Anomalies : Pending(a) => a = s.id
    BY DEF Pending, s
  <2> QED
    BY <1>1, <1>2, <2>2, <2>3, <2>4, HandlerFrame DEF history
<1> QED
  BY <1>6, <1>7, <1>8

LEMMA AdvanceStep ==
  ASSUME IncidentInv, Advance
  PROVE  IncidentInv'
<1>1. work.phase = "advance" /\ UNCHANGED <<environment, event, database, operator, history>>
  BY DEF Advance
<1> DEFINE due == {i \in Active : /\ incidents[i].stabilizing # 0
                                  /\ event.at >= incidents[i].stabilizing + StabilizationPeriod}
           listed == IF watermark = 0 \/ event.at > watermark THEN due ELSE {}
<1>2. PICK todo \in ByLastSeen(listed) : work' = [phase |-> "resolve", todo |-> todo]
  BY DEF Advance
<1>3. listed \subseteq DOMAIN incidents /\ \A i \in listed : IsDue(event.at, incidents[i])
  BY DEF Active, IsDue
<1> HIDE DEF listed
<1>4. todo \in Seq(DOMAIN incidents) /\ \A k \in DOMAIN todo : todo[k] \in listed
  BY <1>2, <1>3, SortedIncidents DEF IncidentInv
<1>5. WriteOK'
  BY <1>2 DEF WriteOK
<1>6. DueOK'
  BY <1>1, <1>2, <1>3, <1>4 DEF DueOK, database
<1>7. \A a \in Anomalies : ~Pending(a)
  BY <1>1 DEF Pending
<1>8. event # None
  BY <1>1 DEF IncidentInv, EventOK
<1> QED
  BY <1>1, <1>5, <1>6, <1>7, <1>8, HandlerFrame DEF history

LEMMA ResolveReadStep ==
  ASSUME IncidentInv, ResolveRead
  PROVE  IncidentInv'
<1>1. /\ work.phase = "resolve" /\ work.todo # <<>>
      /\ UNCHANGED <<environment, event, database, operator, history>>
      /\ work' = [phase |-> "resolving", todo |-> work.todo, base |-> incidents[Head(work.todo)]]
  BY DEF ResolveRead
<1>2. work.todo \in Seq(DOMAIN incidents)
  BY <1>1 DEF IncidentInv, DueOK
<1>3. Head(work.todo) = work.todo[1] /\ 1 \in DOMAIN work.todo /\ Head(work.todo) \in DOMAIN incidents
  BY <1>1, <1>2
<1>4. Sane(incidents[Head(work.todo)])
  BY <1>3 DEF IncidentInv, RowsOK
<1>5. ~stale => IsDue(event.at, incidents[Head(work.todo)])
  BY <1>1, <1>3 DEF IncidentInv, DueOK
<1>6. WriteOK'
  BY <1>1 DEF WriteOK
<1>7. DueOK'
  BY <1>1, <1>2, <1>4, <1>5 DEF IncidentInv, DueOK, Sane, database, environment, history
<1>8. \A a \in Anomalies : ~Pending(a)
  BY <1>1 DEF Pending
<1>9. event # None
  BY <1>1 DEF IncidentInv, EventOK
<1> QED
  BY <1>1, <1>6, <1>7, <1>8, <1>9, HandlerFrame DEF history

LEMMA FailStep ==
  ASSUME IncidentInv, Fail \/ Crash
  PROVE  IncidentInv'
<1>1. /\ event # None /\ work'.phase = "idle"
      /\ UNCHANGED <<environment, event, database, operator, stale, refused>>
  BY DEF Fail, Crash, Faulty, Idle
<1>2. WriteOK' /\ DueOK'
  BY <1>1 DEF WriteOK, DueOK
<1>3. \A a \in Anomalies : Pending(a) => Pending(a)'
  BY <1>1 DEF Pending
<1> QED
  BY <1>1, <1>2, <1>3, HandlerFrame

LEMMA CompleteStep ==
  ASSUME IncidentInv, Complete \/ WriteRefused
  PROVE  IncidentInv'
<1> USE DEF IncidentInv, environment, database, operator, history
<1>1. /\ event' = None /\ work'.phase = "idle" /\ UNCHANGED <<environment, database, operator, stale>>
      /\ refused' \/ (UNCHANGED refused /\ work.phase = "resolve")
  BY DEF Complete, WriteRefused, Idle
<1>2. EnvironmentOK' /\ RowsOK' /\ HeldOK' /\ ResolvedIsQuiet'
  BY <1>1 DEF EnvironmentOK, RowsOK, Sane, HeldOK, ResolvedIsQuiet
<1>3. EventOK' /\ WriteOK' /\ DueOK'
  BY <1>1 DEF EventOK, WriteOK, DueOK
<1>4. NothingLost'
  BY <1>1 DEF NothingLost, Pending
<1> QED
  BY <1>2, <1>3, <1>4

LEMMA EstimateReadStep ==
  ASSUME IncidentInv, EstimateRead
  PROVE  IncidentInv'
<1> USE DEF IncidentInv, environment, database, history
<1>1. PICK i \in Active : api' = [phase |-> "read", incident |-> i, base |-> incidents[i]]
  BY DEF EstimateRead
<1>2. UNCHANGED <<environment, event, work, database, history>> /\ estimates' = estimates + 1
  BY DEF EstimateRead
<1>3. api'.incident \in DOMAIN incidents /\ api'.base = incidents[i] /\ i \in DOMAIN incidents
  BY <1>1 DEF Active
<1>4. EnvironmentOK' /\ HeldOK' /\ ResolvedIsQuiet' /\ EventOK'
  BY <1>2 DEF EnvironmentOK, HeldOK, ResolvedIsQuiet, EventOK
<1>5. RowsOK'
  BY <1>2, <1>3 DEF RowsOK, Sane
<1>6. WriteOK' /\ DueOK'
  BY <1>2 DEF WriteOK, DueOK, Sane
<1>7. NothingLost'
  BY <1>2 DEF NothingLost, Pending
<1> QED
  BY <1>4, <1>5, <1>6, <1>7

-----------------------------------------------------------------------------
(* The steps that write an incident *)

LEMMA WriteStep ==
  ASSUME IncidentInv, work.phase = "write", Commit(work.incident, work.base, work.aggregate),
         work'.phase \in {"advance", "idle"}, UNCHANGED <<environment, event, operator, refused>>
  PROVE  IncidentInv'
<1> USE DEF IncidentInv, environment, operator
<1>1. /\ event # None /\ event.signal # None /\ event.signal \in Signals /\ event.signal.id \in Anomalies
      /\ told[event.signal.id].status = event.signal.status /\ told[event.signal.id].at = event.signal.at
  BY EventSignal DEF EventOK, WriteOK
<1>2. PICK i \in 1..(Len(incidents) + 1), aggregate \in {work.aggregate} : i = work.incident
  BY DEF WriteOK
<1> DEFINE s == event.signal
           base == work.base
<1>3. /\ Sane(aggregate) /\ Commit(i, base, aggregate) /\ Len(incidents) \in Nat
      /\ DOMAIN incidents = 1..Len(incidents)
      /\ i <= Len(incidents) => Sane(base) /\ aggregate = Rebuilt(base, s)
      /\ i > Len(incidents) => aggregate = Created(s)
      /\ ~stale => held[s.id] \in {0, i}
  BY <1>2 DEF WriteOK, RowsOK
<1>4. /\ incidents' \in Seq(Aggregates) /\ DOMAIN incidents' = DOMAIN incidents \union {i}
      /\ incidents'[i] = aggregate /\ \A j \in DOMAIN incidents \ {i} : incidents'[j] = incidents[j]
      /\ held' \in [Anomalies -> 0..Len(incidents')]
      /\ \A a \in Anomalies : held'[a] # 0 => \E t \in incidents'[held'[a]].signals : t.id = a
  BY <1>3, CommitRows
<1>5. ~stale' => ~stale /\ (i <= Len(incidents) => base = incidents[i])
  BY <1>3 DEF Commit
<1>6. /\ aggregate.status # "RESOLVED" /\ s \in aggregate.signals /\ Evidence(s) \in aggregate.evidence
      /\ i <= Len(incidents) =>
           /\ aggregate.signals = {t \in base.signals : t.id # s.id} \union {s}
           /\ \A e \in base.evidence : e.id # s.id => e \in aggregate.evidence
      /\ i > Len(incidents) => aggregate.signals = {s}
  <2>1. CASE i <= Len(incidents)
    <3>1. base \in Aggregates
      BY <1>3, <2>1 DEF Sane, SaneFor
    <3> QED
      BY <1>1, <1>3, <2>1, <3>1, RebuiltFields
  <2>2. CASE i > Len(incidents)
    BY <1>1, <1>3, <2>2, CreatedFields
  <2> QED
    BY <1>3, <2>1, <2>2
<1>7. Evidence(s).id = s.id /\ Evidence(s).at = s.at
  BY <1>1, EvidenceType
<1> HIDE DEF s, base
<1>8. EnvironmentOK' /\ EventOK'
  BY <1>1 DEF EnvironmentOK, EventOK
<1>9. RowsOK'
  BY <1>3, <1>4 DEF RowsOK, Sane
<1>10. HeldOK'
  BY <1>4 DEF HeldOK
<1>11. WriteOK' /\ DueOK'
  BY DEF WriteOK, DueOK
<1>12. ResolvedIsQuiet'
  BY <1>4, <1>5, <1>6 DEF ResolvedIsQuiet
<1>13. NothingLost'
  <2> SUFFICES ASSUME ~stale'
               PROVE  /\ \A j \in DOMAIN incidents' : \A t \in incidents'[j].signals : held'[t.id] = j
                      /\ ~refused => \A a \in Anomalies :
                           ~Pending(a)' =>
                             /\ held'[a] # 0 => Current(told[a], incidents'[held'[a]], a)
                             /\ told[a].status \in {"OPEN", "ACTIVE"} /\ ~FromLog(story[a]) => held'[a] # 0
    BY DEF NothingLost
  <2>1. /\ ~stale /\ held[s.id] \in {0, i} /\ i # 0
        /\ \A j \in DOMAIN incidents : \A t \in incidents[j].signals : held[t.id] = j
    BY <1>3, <1>5 DEF NothingLost
  <2>2. aggregate.signals =
          {t \in (IF i <= Len(incidents) THEN incidents[i].signals ELSE {}) : t.id # s.id} \union {s}
    BY <1>3, <1>5, <1>6
  <2>3. held' = [held EXCEPT ![s.id] = i]
    BY <1>1, <1>3, <2>1, <2>2, CommitMore DEF s
  <2>4. /\ held'[s.id] = i /\ \A a \in Anomalies \ {s.id} : held'[a] = held[a]
        /\ held \in [Anomalies -> 0..Len(incidents)] /\ s.id \in Anomalies
    BY <1>1, <2>3 DEF HeldOK, s
  <2>5. \A j \in DOMAIN incidents : \A t \in incidents[j].signals : t.id \in Anomalies
    <3>1. \A j \in DOMAIN incidents : incidents[j].signals \subseteq Signals
      BY DEF RowsOK, Sane, SaneFor, Aggregates
    <3> QED
      BY <3>1, SignalFields
  <2>6. ASSUME NEW j \in DOMAIN incidents', NEW t \in incidents'[j].signals
        PROVE  held'[t.id] = j
    <3>1. CASE j # i
      <4>1. j \in DOMAIN incidents /\ t \in incidents[j].signals
        BY <1>4, <2>6, <3>1
      <4>2. held[t.id] = j /\ t.id \in Anomalies /\ j # 0
        BY <1>3, <2>1, <2>5, <4>1
      <4> QED
        BY <2>1, <2>4, <3>1, <4>2
    <3>2. CASE j = i /\ t = s
      BY <2>4, <3>2
    <3>3. CASE j = i /\ t # s
      <4>1. i <= Len(incidents) /\ t \in incidents[i].signals /\ t.id # s.id
        BY <1>4, <2>2, <2>6, <3>3
      <4> QED
        BY <1>3, <2>1, <2>4, <2>5, <3>3, <4>1
    <3> QED
      BY <3>1, <3>2, <3>3
  <2>7. ASSUME ~refused, NEW a \in Anomalies, ~Pending(a)'
        PROVE  /\ held'[a] # 0 => Current(told[a], incidents'[held'[a]], a)
               /\ told[a].status \in {"OPEN", "ACTIVE"} /\ ~FromLog(story[a]) => held'[a] # 0
    <3>1. CASE a = s.id
      <4>1. Current(told[a], aggregate, a)
        BY <1>1, <1>6, <1>7, <3>1 DEF Current, s
      <4> QED
        BY <1>4, <2>1, <2>4, <3>1, <4>1
    <3>2. CASE a # s.id
      <4>1. held'[a] = held[a] /\ ~Pending(a)
        BY <2>4, <3>2 DEF Pending, s
      <4>2. /\ held[a] # 0 => Current(told[a], incidents[held[a]], a)
            /\ told[a].status \in {"OPEN", "ACTIVE"} /\ ~FromLog(story[a]) => held[a] # 0
        BY <2>1, <2>7, <4>1 DEF NothingLost
      <4>3. ASSUME held[a] # 0
            PROVE  Current(told[a], incidents'[held[a]], a)
        <5>1. held[a] \in DOMAIN incidents
          BY <1>3, <2>4, <4>3
        <5>2. CASE held[a] # i
          BY <1>4, <4>2, <4>3, <5>1, <5>2
        <5>3. CASE held[a] = i
          <6>1. i <= Len(incidents) /\ base = incidents[i]
            BY <1>3, <1>5, <5>1, <5>3
          <6>2. Current(told[a], base, a)
            BY <4>2, <4>3, <5>3, <6>1
          <6>3. Current(told[a], aggregate, a)
            BY <1>6, <3>2, <6>1, <6>2 DEF Current
          <6> QED
            BY <1>4, <5>3, <6>3
        <5> QED
          BY <5>2, <5>3
      <4> QED
        BY <4>1, <4>2, <4>3
    <3> QED
      BY <3>1, <3>2
  <2> QED
    BY <2>6, <2>7
<1> QED
  BY <1>8, <1>9, <1>10, <1>11, <1>12, <1>13

\* A write that leaves signals and evidence as they were read.
LEMMA SameSignals ==
  ASSUME IncidentInv, NEW i \in DOMAIN incidents, NEW base, NEW aggregate, Sane(aggregate),
         Commit(i, base, aggregate), aggregate.signals = base.signals, aggregate.evidence = base.evidence,
         UNCHANGED <<story, told, event, refused>>, \A a \in Anomalies : Pending(a) => Pending(a)'
  PROVE  /\ incidents' \in Seq(Aggregates) /\ DOMAIN incidents' = DOMAIN incidents
         /\ Len(incidents') = Len(incidents) /\ incidents'[i] = aggregate
         /\ \A j \in DOMAIN incidents \ {i} : incidents'[j] = incidents[j]
         /\ \A j \in DOMAIN incidents' : SaneFor(told', incidents'[j])
         /\ ~stale' => ~stale /\ base = incidents[i] /\ held' = held
         /\ HeldOK' /\ NothingLost'
<1> USE DEF IncidentInv
<1>1. i \in 1..(Len(incidents) + 1) /\ i <= Len(incidents) /\ DOMAIN incidents = 1..Len(incidents)
  BY DEF RowsOK
<1>2. /\ incidents' \in Seq(Aggregates) /\ DOMAIN incidents' = DOMAIN incidents
      /\ Len(incidents') = Len(incidents) /\ incidents'[i] = aggregate
      /\ \A j \in DOMAIN incidents \ {i} : incidents'[j] = incidents[j]
      /\ HeldOK'
  <2>1. /\ incidents' \in Seq(Aggregates) /\ DOMAIN incidents' = DOMAIN incidents \union {i}
        /\ i <= Len(incidents) => Len(incidents') = Len(incidents)
        /\ incidents'[i] = aggregate
        /\ \A j \in DOMAIN incidents \ {i} : incidents'[j] = incidents[j]
        /\ held' \in [Anomalies -> 0..Len(incidents')]
        /\ \A a \in Anomalies : held'[a] # 0 => \E s \in incidents'[held'[a]].signals : s.id = a
    <3> HIDE DEF IncidentInv
    <3>1. RowsOK /\ HeldOK
      BY DEF IncidentInv
    <3> QED
      BY <1>1, <3>1, CommitRows
  <2>2. HeldOK'
    BY <2>1 DEF HeldOK
  <2>3. DOMAIN incidents \union {i} = DOMAIN incidents
    OBVIOUS
  <2> QED
    BY <1>1, <2>1, <2>2, <2>3
<1>3. \A j \in DOMAIN incidents' : SaneFor(told', incidents'[j])
  BY <1>2 DEF RowsOK, Sane
<1>4. ASSUME ~stale'
      PROVE  ~stale /\ base = incidents[i] /\ held' = held
  <2>1. ~stale /\ base = incidents[i]
    BY <1>1, <1>4 DEF Commit
  <2>2. \A j \in DOMAIN incidents : \A s \in incidents[j].signals : held[s.id] = j
    BY <2>1 DEF NothingLost
  <2> QED
    BY <2>1, <2>2, CommitSame
<1>5. NothingLost'
  <2> SUFFICES ASSUME ~stale'
               PROVE  /\ \A j \in DOMAIN incidents : \A t \in incidents'[j].signals : held[t.id] = j
                      /\ ~refused => \A a \in Anomalies :
                           ~Pending(a)' =>
                             /\ held[a] # 0 => Current(told[a], incidents'[held[a]], a)
                             /\ told[a].status \in {"OPEN", "ACTIVE"} /\ ~FromLog(story[a]) => held[a] # 0
    BY <1>2, <1>4 DEF NothingLost
  <2>1. \A j \in DOMAIN incidents : /\ incidents'[j].signals = incidents[j].signals
                                    /\ incidents'[j].evidence = incidents[j].evidence
    BY <1>2, <1>4
  <2>2. \A a \in Anomalies : held[a] # 0 => held[a] \in DOMAIN incidents
    BY <1>1 DEF HeldOK
  <2>3. \A a \in Anomalies : \A j \in DOMAIN incidents :
          Current(told[a], incidents[j], a) => Current(told[a], incidents'[j], a)
    BY <2>1 DEF Current
  <2> QED
    BY <1>4, <2>1, <2>2, <2>3 DEF NothingLost
<1> QED
  BY <1>2, <1>3, <1>4, <1>5

LEMMA ResolveWriteStep ==
  ASSUME IncidentInv, ResolveWrite
  PROVE  IncidentInv'
<1> USE DEF IncidentInv, environment, operator
<1>1. /\ work.phase = "resolving" /\ work.todo \in Seq(DOMAIN incidents) /\ work.todo # <<>>
      /\ Sane(work.base) /\ (~stale => IsDue(event.at, work.base))
      /\ event # None /\ event.at \in Nat
  BY DEF ResolveWrite, DueOK, EventOK, Events
<1>2. PICK i \in DOMAIN incidents : i = Head(work.todo)
  BY <1>1
<1>3. PICK base : base = work.base
  OBVIOUS
<1> DEFINE aggregate == [base EXCEPT !.status = "RESOLVED", !.resolvedAt = event.at]
<1>4. base \in Aggregates
  BY <1>1, <1>3 DEF Sane, SaneFor
<1>5. /\ aggregate \in Aggregates /\ aggregate.signals = base.signals /\ aggregate.evidence = base.evidence
      /\ aggregate.stabilizing = base.stabilizing /\ aggregate.resolvedAt = event.at
  BY <1>1, <1>4 DEF Aggregates, Statuses3
<1>6. /\ Commit(i, base, aggregate) /\ work' = [phase |-> "resolve", todo |-> Tail(work.todo)]
      /\ UNCHANGED <<environment, event, watermark, operator, faults, refused>>
  BY <1>2, <1>3 DEF ResolveWrite
<1> HIDE DEF aggregate
<1>7. Sane(aggregate)
  BY <1>1, <1>3, <1>5 DEF Sane, SaneFor
<1>8. \A a \in Anomalies : ~Pending(a)
  BY <1>1 DEF Pending
<1>9. /\ incidents' \in Seq(Aggregates) /\ DOMAIN incidents' = DOMAIN incidents
      /\ Len(incidents') = Len(incidents) /\ incidents'[i] = aggregate
      /\ \A j \in DOMAIN incidents \ {i} : incidents'[j] = incidents[j]
      /\ \A j \in DOMAIN incidents' : SaneFor(told', incidents'[j])
      /\ ~stale' => ~stale /\ base = incidents[i] /\ held' = held
      /\ HeldOK' /\ NothingLost'
  BY <1>5, <1>6, <1>7, <1>8, SameSignals
<1>10. EnvironmentOK' /\ EventOK'
  BY <1>1, <1>6 DEF EnvironmentOK, EventOK
<1>11. RowsOK'
  BY <1>6, <1>9 DEF RowsOK, Sane
<1>12. WriteOK'
  BY <1>6 DEF WriteOK
<1>13. DueOK'
  <2>1. work'.phase = "resolve" /\ work'.todo = Tail(work.todo)
    BY <1>6
  <2>2. work'.todo \in Seq(DOMAIN incidents')
    <3>1. PICK D : D = DOMAIN incidents
      OBVIOUS
    <3>2. work.todo \in Seq(D) /\ work.todo # <<>>
      BY <1>1, <3>1
    <3>3. Tail(work.todo) \in Seq(D)
      BY <3>2
    <3> QED
      BY <1>9, <2>1, <3>1, <3>3
  <2>3. ASSUME ~stale', NEW k \in DOMAIN work'.todo
        PROVE  IsDue(event'.at, incidents'[work'.todo[k]])
    <3>1. work'.todo[k] = work.todo[k + 1] /\ k + 1 \in DOMAIN work.todo /\ work.todo[k + 1] \in DOMAIN incidents
      BY <1>1, <2>1, <2>3
    <3>2. IsDue(event.at, incidents[work.todo[k + 1]])
      BY <1>1, <1>9, <2>3, <3>1 DEF DueOK
    <3>3. CASE work.todo[k + 1] = i
      BY <1>5, <1>6, <1>9, <2>3, <3>1, <3>2, <3>3 DEF IsDue
    <3>4. CASE work.todo[k + 1] # i
      BY <1>6, <1>9, <3>1, <3>2, <3>4
    <3> QED
      BY <3>3, <3>4
  <2> QED
    BY <2>1, <2>2, <2>3 DEF DueOK
<1>14. ResolvedIsQuiet'
  <2> SUFFICES ASSUME ~stale', NEW j \in DOMAIN incidents, incidents'[j].status = "RESOLVED",
                      NEW s \in incidents'[j].signals
               PROVE  s.status = "RESOLVED" /\ s.at + StabilizationPeriod <= incidents'[j].resolvedAt
    BY <1>9 DEF ResolvedIsQuiet
  <2>1. CASE j # i
    BY <1>9, <2>1 DEF ResolvedIsQuiet
  <2>2. CASE j = i
    <3>1. s \in base.signals /\ incidents'[j].resolvedAt = event.at /\ IsDue(event.at, base)
      BY <1>1, <1>3, <1>5, <1>9, <2>2
    <3>2. s.status = "RESOLVED" /\ s.at <= base.stabilizing
      BY <1>1, <1>3, <3>1 DEF Sane, SaneFor, IsDue
    <3>3. s.at \in Nat /\ base.stabilizing \in Nat
      BY <1>4, <3>1, SignalFields DEF Aggregates
    <3> QED
      BY <1>1, <3>1, <3>2, <3>3, IncidentsAssumption DEF IsDue
  <2> QED
    BY <2>1, <2>2
<1> QED
  BY <1>9, <1>10, <1>11, <1>12, <1>13, <1>14

LEMMA EstimateWriteStep ==
  ASSUME IncidentInv, EstimateWrite
  PROVE  IncidentInv'
<1> USE DEF IncidentInv, environment
<1>1. api.phase = "read" /\ Sane(api.base)
  BY DEF EstimateWrite, RowsOK
<1>2. PICK i \in DOMAIN incidents : i = api.incident
  BY <1>1 DEF RowsOK
<1>3. PICK base : base = api.base
  OBVIOUS
<1> DEFINE aggregate == [base EXCEPT !.estimate = estimates]
<1>4. base \in Aggregates
  BY <1>1, <1>3 DEF Sane, SaneFor
<1>5. /\ aggregate \in Aggregates /\ aggregate.signals = base.signals /\ aggregate.evidence = base.evidence
      /\ aggregate.stabilizing = base.stabilizing /\ aggregate.resolvedAt = base.resolvedAt
      /\ aggregate.status = base.status
  BY <1>1, <1>4 DEF Aggregates, EnvironmentOK
<1>6. /\ Commit(i, base, aggregate) /\ api' = Idle
      /\ UNCHANGED <<environment, event, work, watermark, estimates, faults, refused>>
  BY <1>2, <1>3 DEF EstimateWrite
<1> HIDE DEF aggregate
<1>7. Sane(aggregate)
  BY <1>1, <1>3, <1>5 DEF Sane, SaneFor
<1>8. \A a \in Anomalies : Pending(a) => Pending(a)'
  BY <1>6 DEF Pending
<1>9. /\ incidents' \in Seq(Aggregates) /\ DOMAIN incidents' = DOMAIN incidents
      /\ Len(incidents') = Len(incidents) /\ incidents'[i] = aggregate
      /\ \A j \in DOMAIN incidents \ {i} : incidents'[j] = incidents[j]
      /\ \A j \in DOMAIN incidents' : SaneFor(told', incidents'[j])
      /\ ~stale' => ~stale /\ base = incidents[i] /\ held' = held
      /\ HeldOK' /\ NothingLost'
  BY <1>5, <1>6, <1>7, <1>8, SameSignals
<1>10. EnvironmentOK' /\ EventOK'
  BY <1>6 DEF EnvironmentOK, EventOK
<1>11. RowsOK'
  BY <1>6, <1>9 DEF RowsOK, Sane, Idle
<1>12. WriteOK'
  BY <1>6, <1>9 DEF WriteOK, Sane
<1>13. DueOK'
  <2>1. ASSUME ~stale', NEW j \in DOMAIN incidents, IsDue(event.at, incidents[j])
        PROVE  IsDue(event.at, incidents'[j])
    BY <1>5, <1>9, <2>1 DEF IsDue
  <2>2. ASSUME work.phase \in {"resolve", "resolving"}, ~stale', NEW k \in DOMAIN work.todo
        PROVE  IsDue(event.at, incidents'[work.todo[k]])
    <3>1. work.todo \in Seq(DOMAIN incidents) /\ IsDue(event.at, incidents[work.todo[k]])
      BY <1>9, <2>2 DEF DueOK
    <3>2. work.todo[k] \in DOMAIN incidents
      BY <2>2, <3>1
    <3> QED
      BY <2>1, <2>2, <3>1, <3>2
  <2> QED
    BY <1>6, <1>9, <2>2 DEF DueOK, Sane
<1>14. ResolvedIsQuiet'
  BY <1>5, <1>9 DEF ResolvedIsQuiet
<1> QED
  BY <1>9, <1>10, <1>11, <1>12, <1>13, <1>14

LEMMA IncidentInit == Init => IncidentInv
<1> SUFFICES ASSUME Init PROVE IncidentInv
  OBVIOUS
<1> USE DEF Init
<1>1. event = None /\ work.phase = "idle" /\ api.phase = "idle" /\ Len(incidents) = 0 /\ DOMAIN incidents = {}
  BY DEF Idle
<1>2. EnvironmentOK
  BY DEF EnvironmentOK
<1>3. EventOK /\ WriteOK /\ DueOK
  BY <1>1 DEF EventOK, WriteOK, DueOK
<1>4. RowsOK /\ HeldOK
  BY <1>1 DEF RowsOK, HeldOK
<1>5. NothingLost /\ ResolvedIsQuiet
  BY <1>1, IncidentsAssumption DEF NothingLost, ResolvedIsQuiet
<1> QED
  BY <1>2, <1>3, <1>4, <1>5 DEF IncidentInv

LEMMA IncidentStep == IncidentInv /\ [Next]_vars => IncidentInv'
<1>1. ASSUME IncidentInv, Next
      PROVE  IncidentInv'
  <2>1. CASE Write \/ WriteUnanswered
    <3>1. /\ work.phase = "write" /\ Commit(work.incident, work.base, work.aggregate)
          /\ work'.phase \in {"advance", "idle"} /\ UNCHANGED <<environment, event, operator, refused>>
      BY <2>1 DEF Write, WriteUnanswered, Idle
    <3> QED
      BY <1>1, <3>1, WriteStep
  <2> QED
    BY <1>1, <2>1, ArriveStep, ArriveQuietStep, LookupStep, MatchStep, AdvanceStep, ResolveReadStep,
       FailStep, CompleteStep, EstimateReadStep, ResolveWriteStep, EstimateWriteStep DEF Next
<1>2. ASSUME IncidentInv, UNCHANGED vars
      PROVE  IncidentInv'
  <2>1. UNCHANGED <<story, told, now, event, work, incidents, held, api, estimates, stale, refused>>
    BY <1>2 DEF vars, environment, database, operator, history
  <2>2. EnvironmentOK' /\ EventOK' /\ RowsOK' /\ HeldOK'
    BY <1>2, <2>1 DEF IncidentInv, EnvironmentOK, EventOK, RowsOK, Sane, HeldOK
  <2>3. WriteOK' /\ DueOK'
    BY <1>2, <2>1 DEF IncidentInv, WriteOK, DueOK, Sane
  <2>4. NothingLost' /\ ResolvedIsQuiet'
    BY <1>2, <2>1 DEF IncidentInv, NothingLost, Pending, ResolvedIsQuiet
  <2> QED
    BY <2>2, <2>3, <2>4 DEF IncidentInv
<1> QED
  BY <1>1, <1>2

LEMMA HandlingIncidents == HandlingSpec => []IncidentInv
<1>1. HandlingInit => IncidentInv
  BY IncidentInit DEF HandlingInit
<1>2. IncidentInv /\ [HandlingNext]_handlingVars => IncidentInv'
  BY IncidentStep DEF HandlingNext, handlingVars
<1> QED
  BY <1>1, <1>2, PTL DEF HandlingSpec

\* An incident is resolved only when every anomaly in it has ended, and had for the
\* period of stabilization: for any anomalies, events, repeated deliveries, crashes
\* and estimates, unless an estimate overlapped another write of the incident.
THEOREM ResolvedWhenQuiet == HandlingSpec => []ResolvedIsQuiet
<1>1. IncidentInv => ResolvedIsQuiet
  BY DEF IncidentInv
<1> QED
  BY <1>1, HandlingIncidents, PTL

\* Between two events every anomaly is in one incident at most, the one it is found
\* by, as it was last told, and one that is not of a log and has not ended is in one:
\* for any number of anomalies and events, however often a handler is repeated, unless
\* an estimate overlapped another write or a key of the database refused one.
THEOREM NoAnomalyForgotten == HandlingSpec => []NothingForgotten
<1>1. IncidentInv => NothingForgotten
  <2> SUFFICES ASSUME IncidentInv, event = None, ~stale, ~refused, NEW a \in Anomalies
               PROVE  /\ \A i \in DOMAIN incidents :
                           (\E s \in incidents[i].signals : s.id = a) <=> held[a] = i
                      /\ held[a] # 0 => Current(told[a], incidents[held[a]], a)
                      /\ told[a].status \in {"OPEN", "ACTIVE"} /\ ~FromLog(story[a]) => held[a] # 0
    BY DEF NothingForgotten, Rested, Current
  <2>1. ~Pending(a)
    BY DEF Pending
  <2>2. \A i \in DOMAIN incidents : i # 0
    BY DEF IncidentInv, RowsOK
  <2> QED
    BY <2>1, <2>2 DEF IncidentInv, NothingLost, HeldOK
<1> QED
  BY <1>1, HandlingIncidents, PTL

-----------------------------------------------------------------------------
(* Severity and confidence *)

LEMMA Ranks ==
  /\ Severities = {"INFO", "WARNING", "HIGH", "CRITICAL"}
  /\ Rank["INFO"] = 0 /\ Rank["WARNING"] = 1 /\ Rank["HIGH"] = 2 /\ Rank["CRITICAL"] = 3
<1> QED
  BY DEF Severities, Rank

LEMMA WorstIsWorst ==
  ASSUME NEW S \in SUBSET Signals, S # {}
  PROVE  /\ Worst(S) \in {s.severity : s \in S} /\ Worst(S) \in Severities
         /\ \A s \in S : Rank[s.severity] <= Rank[Worst(S)]
<1> DEFINE V == {s.severity : s \in S}
<1>1. V \subseteq {"INFO", "WARNING", "HIGH", "CRITICAL"} /\ V # {}
  BY SignalFields, Ranks
<1> HIDE DEF V
<1>2. \E v \in V : \A w \in V : Rank[w] <= Rank[v]
  <2>1. CASE "CRITICAL" \in V
    BY <1>1, <2>1, Ranks
  <2>2. CASE "CRITICAL" \notin V /\ "HIGH" \in V
    BY <1>1, <2>2, Ranks
  <2>3. CASE "CRITICAL" \notin V /\ "HIGH" \notin V /\ "WARNING" \in V
    BY <1>1, <2>3, Ranks
  <2>4. CASE "CRITICAL" \notin V /\ "HIGH" \notin V /\ "WARNING" \notin V
    <3>1. V = {"INFO"}
      BY <1>1, <2>4
    <3> QED
      BY <3>1, Ranks
  <2> QED
    BY <2>1, <2>2, <2>3, <2>4
<1>3. \E v \in {s.severity : s \in S} : \A s \in S : Rank[s.severity] <= Rank[v]
  BY <1>2 DEF V
<1>4. Worst(S) \in {s.severity : s \in S} /\ \A s \in S : Rank[s.severity] <= Rank[Worst(S)]
  BY <1>3, Zenon DEF Worst
<1> QED
  BY <1>1, <1>4, Ranks DEF V

LEMMA WorstGrows ==
  ASSUME NEW T \in SUBSET Signals, NEW S \in SUBSET T, S # {}
  PROVE  /\ Worst(S) \in Severities /\ Worst(T) \in Severities
         /\ Rank[Worst(S)] <= Rank[Worst(T)]
<1>1. T # {} /\ S \in SUBSET Signals
  OBVIOUS
<1>2. PICK s \in S : Worst(S) = s.severity
  BY <1>1, WorstIsWorst
<1> QED
  BY <1>1, <1>2, WorstIsWorst

\* A finite set has finitely many values of a field.
LEMMA ImageFinite ==
  ASSUME NEW S, IsFiniteSet(S), NEW f, DOMAIN f = S, f = [s \in S |-> f[s]]
  PROVE  IsFiniteSet({f[s] : s \in S})
<1> DEFINE T == {f[s] : s \in S}
<1>1. f \in Surjection(S, T)
  BY DEF Surjection
<1> QED
  BY <1>1, FS_Surjection

LEMMA PodsGrow ==
  ASSUME NEW T, IsFiniteSet(T), NEW S \in SUBSET T
  PROVE  /\ Cardinality(PodsOf(S)) \in Nat /\ Cardinality(PodsOf(T)) \in Nat
         /\ Cardinality(PodsOf(S)) <= Cardinality(PodsOf(T))
<1>1. IsFiniteSet({s.resource.pod : s \in T})
  <2> DEFINE f == [s \in T |-> s.resource.pod]
  <2>1. {f[s] : s \in T} = {s.resource.pod : s \in T}
    OBVIOUS
  <2>2. DOMAIN f = T /\ f = [s \in T |-> f[s]]
    OBVIOUS
  <2> HIDE DEF f
  <2> QED
    BY <2>1, <2>2, ImageFinite
<1>2. IsFiniteSet(PodsOf(T))
  BY <1>1, FS_Subset DEF PodsOf
<1>3. PodsOf(S) \in SUBSET PodsOf(T)
  BY DEF PodsOf
<1>4. IsFiniteSet(PodsOf(S)) /\ Cardinality(PodsOf(S)) <= Cardinality(PodsOf(T))
  BY <1>2, <1>3, FS_Subset
<1> QED
  BY <1>2, <1>4, FS_CardinalityType

LEMMA NotReadyGrow ==
  ASSUME NEW T, IsFiniteSet(T), NEW S \in SUBSET T
  PROVE  /\ Cardinality(NotReadyPods(S)) \in Nat /\ Cardinality(NotReadyPods(T)) \in Nat
         /\ Cardinality(NotReadyPods(S)) <= Cardinality(NotReadyPods(T))
<1> DEFINE A == {s \in S : s.classification = "POD_NOT_READY"}
           B == {s \in T : s.classification = "POD_NOT_READY"}
<1>1. A \in SUBSET B /\ IsFiniteSet(B)
  BY FS_Subset
<1>2. NotReadyPods(S) = PodsOf(A) /\ NotReadyPods(T) = PodsOf(B)
  BY DEF NotReadyPods
<1> HIDE DEF A, B
<1> QED
  BY <1>1, <1>2, PodsGrow

LEMMA SubsetCounts ==
  ASSUME NEW B, IsFiniteSet(B), NEW A \in SUBSET B
  PROVE  /\ Cardinality(A) \in Nat /\ Cardinality(B) \in Nat
         /\ Cardinality(A) <= Cardinality(B)
<1> QED
  BY FS_Subset, FS_CardinalityType

LEMMA SeverityGrows ==
  ASSUME NEW T \in SUBSET Signals, IsFiniteSet(T), NEW S \in SUBSET T, S # {},
         Classification(S) = Classification(T)
  PROVE  Rank[Severity(S)] <= Rank[Severity(T)]
<1> DEFINE kinds == DependencyLogs \union ApplicationHealth \union {"POD_NOT_READY"}
           A == {s \in S : s.classification \in kinds}
           B == {s \in T : s.classification \in kinds}
<1>1. PICK kind : kind = Classification(S) /\ kind = Classification(T)
  OBVIOUS
<1>2. PICK m, n, p, q :
        /\ m = Cardinality(NotReadyPods(S)) /\ n = Cardinality(NotReadyPods(T))
        /\ p = Cardinality(A) /\ q = Cardinality(B)
  OBVIOUS
<1>3. m \in Nat /\ n \in Nat /\ m <= n
  BY <1>2, NotReadyGrow
<1>4. p \in Nat /\ q \in Nat /\ p <= q
  <2>1. A \in SUBSET B /\ IsFiniteSet(B)
    BY FS_Subset
  <2> QED
    BY <1>2, <2>1, SubsetCounts
<1>5. PICK x, y : x = Worst(S) /\ y = Worst(T)
  OBVIOUS
<1>6. x \in Severities /\ y \in Severities /\ Rank[x] <= Rank[y]
  BY <1>5, WorstGrows
<1>7. ApplicationHealth \subseteq Classes(S) => ApplicationHealth \subseteq Classes(T)
  BY DEF Classes
<1>8. PICK wide \in BOOLEAN, wider \in BOOLEAN :
        /\ wide = (ApplicationHealth \subseteq Classes(S)) /\ wider = (ApplicationHealth \subseteq Classes(T))
        /\ wide => wider
  BY <1>7
<1>9. Severity(S) =
        IF kind \in {"NODE_FAILURE", "DEPLOYMENT_DEGRADATION"} /\ m > 1 THEN "CRITICAL"
        ELSE IF \/ kind = "APPLICATION_DEGRADATION" /\ wide
                \/ kind = "APPLICATION_DEPENDENCY_FAILURE" /\ p >= 3
             THEN Worse(x, "HIGH") ELSE x
  BY <1>1, <1>2, <1>5, <1>8 DEF Severity
<1>10. Severity(T) =
         IF kind \in {"NODE_FAILURE", "DEPLOYMENT_DEGRADATION"} /\ n > 1 THEN "CRITICAL"
         ELSE IF \/ kind = "APPLICATION_DEGRADATION" /\ wider
                 \/ kind = "APPLICATION_DEPENDENCY_FAILURE" /\ q >= 3
              THEN Worse(y, "HIGH") ELSE y
  BY <1>1, <1>2, <1>5, <1>8 DEF Severity
<1> HIDE DEF kinds, A, B
<1>11. /\ Rank[x] \in 0..3 /\ Rank[y] \in 0..3 /\ Rank["CRITICAL"] = 3
       /\ Rank[Worse(x, "HIGH")] = IF Rank[x] < 2 THEN 2 ELSE Rank[x]
       /\ Rank[Worse(y, "HIGH")] = IF Rank[y] < 2 THEN 2 ELSE Rank[y]
  BY <1>6, Ranks DEF Worse
<1>12. CASE kind \in {"NODE_FAILURE", "DEPLOYMENT_DEGRADATION"}
  <2>1. Severity(S) = IF m > 1 THEN "CRITICAL" ELSE x
    BY <1>9, <1>12
  <2>2. Severity(T) = IF n > 1 THEN "CRITICAL" ELSE y
    BY <1>10, <1>12
  <2> QED
    BY <1>3, <1>6, <1>11, <2>1, <2>2
<1>13. CASE kind \notin {"NODE_FAILURE", "DEPLOYMENT_DEGRADATION"}
  <2>1. PICK up \in BOOLEAN, upper \in BOOLEAN :
          /\ up => upper
          /\ Severity(S) = IF up THEN Worse(x, "HIGH") ELSE x
          /\ Severity(T) = IF upper THEN Worse(y, "HIGH") ELSE y
    <3> DEFINE u == \/ kind = "APPLICATION_DEGRADATION" /\ wide
                    \/ kind = "APPLICATION_DEPENDENCY_FAILURE" /\ p >= 3
               v == \/ kind = "APPLICATION_DEGRADATION" /\ wider
                    \/ kind = "APPLICATION_DEPENDENCY_FAILURE" /\ q >= 3
    <3>1. u \in BOOLEAN /\ v \in BOOLEAN /\ (u => v)
      BY <1>4, <1>8
    <3>2. Severity(S) = IF u THEN Worse(x, "HIGH") ELSE x
      BY <1>9, <1>13
    <3>3. Severity(T) = IF v THEN Worse(y, "HIGH") ELSE y
      BY <1>10, <1>13
    <3> HIDE DEF u, v
    <3> QED
      BY <3>1, <3>2, <3>3
  <2> QED
    BY <1>6, <1>11, <2>1
<1> QED
  BY <1>12, <1>13

LEMMA MostExists ==
  ASSUME NEW T \in SUBSET (0..200), T # {}
  PROVE  \E n \in T : \A m \in T : n >= m
<1>1. PICK U : U = {n \in 0..200 : 200 - n \in T}
  OBVIOUS
<1>2. \A n : n \in U <=> n \in 0..200 /\ 200 - n \in T
  BY <1>1
<1>3. \A m \in T : 200 - m \in U
  <2> TAKE m \in T
  <2>1. m \in 0..200
    OBVIOUS
  <2>2. 200 - m \in 0..200 /\ 200 - (200 - m) = m
    BY <2>1
  <2> QED
    BY <1>2, <2>2
<1>4. U \subseteq Nat /\ U # {}
  <2>1. \A n \in U : n \in Nat
    BY <1>2
  <2>2. PICK m \in T : TRUE
    OBVIOUS
  <2> QED
    BY <1>3, <2>1, <2>2
<1>5. PICK u \in U : \A v \in U : <<v, u>> \notin OpToRel(<, Nat)
  BY <1>4, WFMin, NatLessThanWellFounded
<1>6. \A v \in U : u <= v
  <2> TAKE v \in U
  <2>1. u \in Nat /\ v \in Nat
    BY <1>4
  <2>2. ~(v < u)
    BY <1>5, <2>1 DEF OpToRel
  <2> QED
    BY <2>1, <2>2
<1>7. u \in 0..200 /\ 200 - u \in T
  BY <1>2
<1>8. \A m \in T : 200 - u >= m
  <2> TAKE m \in T
  <2>1. m \in 0..200 /\ u <= 200 - m
    BY <1>3, <1>6
  <2> QED
    BY <1>7, <2>1
<1> QED
  BY <1>7, <1>8

LEMMA MaxGrows ==
  ASSUME NEW T \in SUBSET (0..200), NEW S \in SUBSET T, S # {}
  PROVE  /\ Max(S) \in 0..200 /\ Max(T) \in 0..200 /\ Max(S) <= Max(T)
<1>1. S \in SUBSET (0..200) /\ T # {}
  OBVIOUS
<1>2. \E n \in S : \A m \in S : n >= m
  BY <1>1, MostExists
<1>3. \E n \in T : \A m \in T : n >= m
  BY <1>1, MostExists
<1>4. Max(S) \in S
  BY <1>2, Zenon DEF Max
<1>5. Max(T) \in T /\ \A m \in T : Max(T) >= m
  BY <1>3, Zenon DEF Max
<1> QED
  BY <1>4, <1>5

LEMMA WeighedGrows ==
  ASSUME NEW T \in SUBSET Signals, NEW S \in SUBSET T, NEW share \in {70, 75}
  PROVE  /\ Weighed(S, share) \in 0..200 /\ Weighed(T, share) \in 0..200
         /\ Weighed(S, share) <= Weighed(T, share)
<1> DEFINE A == {50} \union {(s.confidence * share) \div 100 : s \in S}
           B == {50} \union {(s.confidence * share) \div 100 : s \in T}
<1>1. ASSUME NEW c \in 0..100
      PROVE  (c * share) \div 100 \in 0..200
  <2>1. CASE share = 70
    BY <1>1, <2>1
  <2>2. CASE share = 75
    BY <1>1, <2>2
  <2> QED
    BY <2>1, <2>2
<1>2. \A s \in T : s.confidence \in 0..100
  BY SignalFields
<1>3. B \in SUBSET (0..200)
  <2> SUFFICES ASSUME NEW x \in B PROVE x \in 0..200
    OBVIOUS
  <2>1. CASE x = 50
    BY <2>1
  <2>2. CASE x # 50
    <3>1. PICK s \in T : x = (s.confidence * share) \div 100
      BY <2>2
    <3> QED
      BY <1>1, <1>2, <3>1
  <2> QED
    BY <2>1, <2>2
<1>4. A \in SUBSET B /\ A # {}
  OBVIOUS
<1>5. Weighed(S, share) = Max(A) /\ Weighed(T, share) = Max(B)
  BY DEF Weighed
<1> HIDE DEF A, B
<1> QED
  BY <1>3, <1>4, <1>5, MaxGrows

LEMMA MinOf ==
  ASSUME NEW n \in Nat
  PROVE  Min({95, n}) = IF n < 95 THEN n ELSE 95
<1>1. \E x \in {95, n} : \A y \in {95, n} : x <= y
  OBVIOUS
<1>2. Min({95, n}) \in {95, n} /\ \A y \in {95, n} : Min({95, n}) <= y
  BY <1>1, Zenon DEF Min
<1> QED
  BY <1>2

LEMMA DependencyGrows ==
  ASSUME NEW T \in SUBSET Signals, IsFiniteSet(T), NEW S \in SUBSET T
  PROVE  DependencyConfidence(S) <= DependencyConfidence(T)
<1> DEFINE A == {s \in S : s.classification \in DependencyLogs}
           B == {s \in T : s.classification \in DependencyLogs}
           C == Classes(S) \intersect (ApplicationHealth \union {"POD_NOT_READY"})
           D == Classes(T) \intersect (ApplicationHealth \union {"POD_NOT_READY"})
<1>1. /\ Weighed(A, 70) \in 0..200 /\ Weighed(B, 70) \in 0..200
      /\ Weighed(A, 70) <= Weighed(B, 70)
  BY WeighedGrows
<1>2. Cardinality(C) \in Nat /\ Cardinality(D) \in Nat /\ Cardinality(C) <= Cardinality(D)
  <2>1. C \in SUBSET D
    BY DEF Classes
  <2>2. IsFiniteSet({"ERROR_RATE_ANOMALY"})
    BY FS_Singleton
  <2>3. IsFiniteSet({"ERROR_RATE_ANOMALY"} \union {"LATENCY_ANOMALY"})
    BY <2>2, FS_AddElement
  <2>4. IsFiniteSet({"ERROR_RATE_ANOMALY"} \union {"LATENCY_ANOMALY"} \union {"POD_NOT_READY"})
    BY <2>3, FS_AddElement
  <2>5. D \in SUBSET ({"ERROR_RATE_ANOMALY"} \union {"LATENCY_ANOMALY"} \union {"POD_NOT_READY"})
    BY DEF ApplicationHealth
  <2>6. IsFiniteSet(D)
    BY <2>4, <2>5, FS_Subset
  <2> QED
    BY <2>1, <2>6, SubsetCounts
<1>3. PICK v, w, c, d : v = Weighed(A, 70) /\ w = Weighed(B, 70) /\ c = Cardinality(C) /\ d = Cardinality(D)
  OBVIOUS
<1>4. DependencyConfidence(S) = Min({95, v + 12 * c}) /\ DependencyConfidence(T) = Min({95, w + 12 * d})
  BY <1>3 DEF DependencyConfidence
<1> HIDE DEF A, B, C, D
<1>5. v \in Nat /\ w \in Nat /\ c \in Nat /\ d \in Nat /\ v <= w /\ c <= d
  BY <1>1, <1>2, <1>3
<1>6. v + 12 * c \in Nat /\ w + 12 * d \in Nat /\ v + 12 * c <= w + 12 * d
  BY <1>5
<1> QED
  BY <1>4, <1>6, MinOf

LEMMA MemoryIs ==
  ASSUME NEW R
  PROVE  LET high == "HIGH_MEMORY_UTILIZATION" \in Classes(R)
             oom == "OOM_KILLED" \in Classes(R)
             statistical == "MEMORY_GROWTH_ANOMALY" \in Classes(R) \/ "MEMORY_USAGE_ANOMALY" \in Classes(R)
             restarted == \E s \in R : s.restarted
         IN MemoryConfidence(R) =
              IF high /\ oom THEN IF restarted THEN 98 ELSE IF statistical THEN 95 ELSE 90
              ELSE IF oom THEN IF statistical THEN 85 ELSE 80
              ELSE IF high /\ statistical THEN 60 ELSE 45
<1>1. CASE "HIGH_MEMORY_UTILIZATION" \in Classes(R) /\ "OOM_KILLED" \in Classes(R)
  BY <1>1 DEF MemoryConfidence
<1>2. CASE "HIGH_MEMORY_UTILIZATION" \notin Classes(R) /\ "OOM_KILLED" \in Classes(R)
  BY <1>2 DEF MemoryConfidence
<1>3. CASE "OOM_KILLED" \notin Classes(R)
  BY <1>3 DEF MemoryConfidence
<1> QED
  BY <1>1, <1>2, <1>3

LEMMA MemoryGrows ==
  ASSUME NEW T, NEW S \in SUBSET T
  PROVE  MemoryConfidence(S) <= MemoryConfidence(T)
<1>1. \A c : c \in Classes(S) => c \in Classes(T)
  BY DEF Classes
<1>2. (\E s \in S : s.restarted) => \E s \in T : s.restarted
  OBVIOUS
<1>3. CASE "OOM_KILLED" \in Classes(S)
  BY <1>1, <1>2, <1>3, MemoryIs
<1>4. CASE "OOM_KILLED" \notin Classes(S)
  BY <1>1, <1>4, MemoryIs
<1> QED
  BY <1>3, <1>4

LEMMA SeveralGrow ==
  ASSUME NEW S, NEW T, Cardinality(S) \in Nat, Cardinality(T) \in Nat,
         Cardinality(S) <= Cardinality(T),
         NEW many \in Nat, NEW few \in Nat, few <= many
  PROVE  /\ Several(S, many, few) \in Nat /\ Several(T, many, few) \in Nat
         /\ Several(S, many, few) <= Several(T, many, few) /\ Several(T, many, few) <= many
<1> QED
  BY DEF Several

LEMMA ConfidenceGrows ==
  ASSUME NEW T \in SUBSET Signals, IsFiniteSet(T), NEW S \in SUBSET T,
         Classification(S) = Classification(T)
  PROVE  Confidence(S) <= Confidence(T)
<1>1. PICK kind : kind = Classification(S) /\ kind = Classification(T)
  OBVIOUS
<1>2. \A c : c \in Classes(S) => c \in Classes(T)
  BY DEF Classes
<1>3. CASE kind = "MEMORY_EXHAUSTION"
  <2>1. Confidence(S) = MemoryConfidence(S) /\ Confidence(T) = MemoryConfidence(T)
    BY <1>1, <1>3 DEF Confidence
  <2> QED
    BY <2>1, MemoryGrows
<1>4. CASE kind = "APPLICATION_DEGRADATION"
  <2> DEFINE Of(R) == (IF ApplicationHealth \subseteq Classes(R) THEN 85 ELSE 60)
                      + (IF ~(Classes(R) \intersect Saturation # {}) THEN 0
                         ELSE IF ApplicationHealth \subseteq Classes(R) THEN 5 ELSE 10)
  <2>1. Confidence(S) = Of(S) /\ Confidence(T) = Of(T)
    BY <1>1, <1>4 DEF Confidence
  <2>2. ApplicationHealth \subseteq Classes(S) => ApplicationHealth \subseteq Classes(T)
    BY <1>2
  <2>3. Classes(S) \intersect Saturation # {} => Classes(T) \intersect Saturation # {}
    BY <1>2
  <2>4. Of(S) <= Of(T)
    <3>1. CASE ApplicationHealth \subseteq Classes(S)
      BY <2>2, <2>3, <3>1
    <3>2. CASE ~(ApplicationHealth \subseteq Classes(S))
      BY <2>2, <2>3, <3>2
    <3> QED
      BY <3>1, <3>2
  <2> QED
    BY <2>1, <2>4
<1>5. CASE kind = "APPLICATION_DEPENDENCY_FAILURE"
  <2>1. Confidence(S) = DependencyConfidence(S) /\ Confidence(T) = DependencyConfidence(T)
    BY <1>1, <1>5 DEF Confidence
  <2> QED
    BY <2>1, DependencyGrows
<1>6. CASE kind = "WORKLOAD_CRASHING"
  <2> DEFINE Of(R) == IF "CRASH_LOOP" \in Classes(R)
                      THEN IF "POD_NOT_READY" \in Classes(R) THEN 92 ELSE 75
                      ELSE Several(NotReadyPods(R), 75, 55)
  <2>1. Confidence(S) = Of(S) /\ Confidence(T) = Of(T)
    BY <1>1, <1>6 DEF Confidence
  <2>2. PICK m, n : m = Several(NotReadyPods(S), 75, 55) /\ n = Several(NotReadyPods(T), 75, 55)
    OBVIOUS
  <2>3. m \in Nat /\ n \in Nat /\ m <= n /\ m <= 75
    <3>1. /\ Cardinality(NotReadyPods(S)) \in Nat /\ Cardinality(NotReadyPods(T)) \in Nat
          /\ Cardinality(NotReadyPods(S)) <= Cardinality(NotReadyPods(T))
      BY NotReadyGrow
    <3> QED
      BY <2>2, <3>1 DEF Several
  <2> QED
    BY <1>2, <2>1, <2>2, <2>3
<1>7. CASE kind \in {"DEPLOYMENT_DEGRADATION", "NODE_FAILURE", "WORKLOAD_CONFIGURATION_FAILURE"}
  <2>1. /\ Cardinality(NotReadyPods(S)) \in Nat /\ Cardinality(NotReadyPods(T)) \in Nat
        /\ Cardinality(NotReadyPods(S)) <= Cardinality(NotReadyPods(T))
        /\ Cardinality(PodsOf(S)) \in Nat /\ Cardinality(PodsOf(T)) \in Nat
        /\ Cardinality(PodsOf(S)) <= Cardinality(PodsOf(T))
    BY NotReadyGrow, PodsGrow
  <2>2. CASE kind = "DEPLOYMENT_DEGRADATION"
    <3>1. /\ Confidence(S) = Several(NotReadyPods(S), 95, 80)
          /\ Confidence(T) = Several(NotReadyPods(T), 95, 80)
      BY <1>1, <2>2 DEF Confidence
    <3> QED
      BY <2>1, <3>1, SeveralGrow
  <2>3. CASE kind = "NODE_FAILURE"
    <3>1. /\ Confidence(S) = Several(NotReadyPods(S), 97, 85)
          /\ Confidence(T) = Several(NotReadyPods(T), 97, 85)
      BY <1>1, <2>3 DEF Confidence
    <3> QED
      BY <2>1, <3>1, SeveralGrow
  <2>4. CASE kind = "WORKLOAD_CONFIGURATION_FAILURE"
    <3>1. /\ Confidence(S) = Several(PodsOf(S), 95, 80)
          /\ Confidence(T) = Several(PodsOf(T), 95, 80)
      BY <1>1, <2>4 DEF Confidence
    <3> QED
      BY <2>1, <3>1, SeveralGrow
  <2> QED
    BY <1>7, <2>2, <2>3, <2>4
<1>8. CASE kind = "SCHEDULING_FAILURE"
  BY <1>1, <1>8 DEF Confidence
<1>9. CASE kind \notin {"MEMORY_EXHAUSTION", "APPLICATION_DEGRADATION", "APPLICATION_DEPENDENCY_FAILURE",
                        "WORKLOAD_CRASHING", "DEPLOYMENT_DEGRADATION", "NODE_FAILURE",
                        "WORKLOAD_CONFIGURATION_FAILURE", "SCHEDULING_FAILURE"}
  <2>1. Confidence(S) = Weighed(S, 75) /\ Confidence(T) = Weighed(T, 75)
    BY <1>1, <1>9 DEF Confidence
  <2> QED
    BY <2>1, WeighedGrows
<1> QED
  BY <1>3, <1>4, <1>5, <1>6, <1>7, <1>8, <1>9

LEMMA CommitKeeps ==
  ASSUME incidents \in Seq(Aggregates), NEW i, NEW base, NEW aggregate, Commit(i, base, aggregate)
  PROVE  DOMAIN incidents \subseteq DOMAIN incidents'
<1>1. PICK S : S = Aggregates \union {aggregate}
  OBVIOUS
<1>2. incidents \in Seq(S) /\ aggregate \in S
  BY <1>1
<1>3. CASE i > Len(incidents)
  <2>1. incidents' = Append(incidents, aggregate)
    BY <1>3 DEF Commit
  <2> QED
    BY <1>2, <2>1
<1>4. CASE ~(i > Len(incidents))
  BY <1>4 DEF Commit
<1> QED
  BY <1>3, <1>4

LEMMA IncidentsStay ==
  ASSUME IncidentInv, [Next]_vars
  PROVE  DOMAIN incidents \subseteq DOMAIN incidents'
<1>1. incidents \in Seq(Aggregates)
  BY DEF IncidentInv, RowsOK
<1>2. CASE UNCHANGED incidents
  BY <1>2
<1>3. CASE Write \/ WriteUnanswered
  BY <1>1, <1>3, CommitKeeps DEF Write, WriteUnanswered
<1>4. CASE ResolveWrite
  BY <1>1, <1>4, CommitKeeps DEF ResolveWrite
<1>5. CASE EstimateWrite
  BY <1>1, <1>5, CommitKeeps DEF EstimateWrite
<1>6. ASSUME Next, ~(Write \/ WriteUnanswered), ~ResolveWrite, ~EstimateWrite
      PROVE  UNCHANGED incidents
  BY <1>6 DEF Next, database, Arrive, ArriveQuiet, Received, Lookup, Match, WriteRefused, Advance,
     ResolveRead, Complete, Fail, Crash, EstimateRead
<1>7. UNCHANGED vars => UNCHANGED incidents
  BY DEF vars, database
<1> QED
  BY <1>2, <1>3, <1>4, <1>5, <1>6, <1>7

\* A signal that joins an incident and leaves what it is called as it was makes it
\* neither less severe nor less certain, for any anomalies with any severities and
\* confidences: the derived severity and confidence grow with the set of signals.
THEOREM JoiningLowersNothing == HandlingSpec => JoiningNeverLowers
<1>1. IncidentInv /\ IncidentInv' /\ [HandlingNext]_handlingVars => [\A i \in DOMAIN incidents :
       LET before == incidents[i].signals
           after == incidents'[i].signals
       IN before \subseteq after /\ Classification(before) = Classification(after) =>
            /\ Rank[Severity(before)] <= Rank[Severity(after)]
            /\ Confidence(before) <= Confidence(after)]_vars
  <2> SUFFICES ASSUME IncidentInv, IncidentInv', [Next]_vars, NEW i \in DOMAIN incidents,
                      incidents[i].signals \subseteq incidents'[i].signals,
                      Classification(incidents[i].signals) = Classification(incidents'[i].signals)
               PROVE  /\ Rank[Severity(incidents[i].signals)] <= Rank[Severity(incidents'[i].signals)]
                      /\ Confidence(incidents[i].signals) <= Confidence(incidents'[i].signals)
    BY DEF HandlingNext, handlingVars
  <2>1. i \in DOMAIN incidents'
    BY IncidentsStay
  <2>2. Sane(incidents[i]) /\ \A j \in DOMAIN incidents' : SaneFor(told', incidents'[j])
    BY DEF IncidentInv, RowsOK, Sane
  <2>3. SaneFor(told, incidents[i]) /\ SaneFor(told', incidents'[i])
    BY <2>1, <2>2 DEF Sane
  <2>4. /\ incidents[i].signals # {} /\ IsFiniteSet(incidents'[i].signals)
        /\ incidents'[i].signals \in SUBSET Signals
    BY <2>3 DEF SaneFor, Aggregates
  <2>5. PICK S, T : S = incidents[i].signals /\ T = incidents'[i].signals
    OBVIOUS
  <2>6. T \in SUBSET Signals /\ IsFiniteSet(T) /\ S \in SUBSET T /\ S # {} /\ Classification(S) = Classification(T)
    BY <2>4, <2>5
  <2>7. Rank[Severity(S)] <= Rank[Severity(T)] /\ Confidence(S) <= Confidence(T)
    BY <2>6, SeverityGrows, ConfidenceGrows
  <2> QED
    BY <2>5, <2>7
<1> QED
  BY <1>1, HandlingIncidents, PTL DEF HandlingSpec, JoiningNeverLowers

=============================================================================
