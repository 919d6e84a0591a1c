----------------------------- MODULE Onboarding -----------------------------
(***************************************************************************)
(* Clusters as the API registers, onboards and uninstalls them: the job    *)
(* service of apps/api and the command it spawns (scripts/cluster.cjs,     *)
(* onboard and uninstall), the registry in PostgreSQL with its project     *)
(* assignments, and the machines: what is installed on each.               *)
(*                                                                         *)
(* Job n generates the identifier n; `Chosen' are those a client of        *)
(* POST /clusters makes up.  `local' is .local/onboarding.json, of which   *)
(* the server has one, and `kubeconfig' its directory of uploaded files.   *)
(* Of the history, `raced' holds the assignments that were stored beside   *)
(* an adoption which had not been committed.                               *)
(* `job' is the operation that holds the lock and `child' its command.     *)
(* Names, endpoints and tokens are left out, and a request that is refused *)
(* changes nothing, so it is no step.                                      *)
(***************************************************************************)
EXTENDS Naturals, FiniteSets, Plans

CONSTANTS
  Machines, Home,   \* the Kubernetes clusters, and the one the server's own kubectl selects
  ContextOf,        \* the context name of each machine: need not be unique
  Orgs, Default,    \* organizations, and the one rows belong to that nobody registered
  Admins, OrgOf,    \* administrators and their organization
  Tier,             \* the tier of each organization
  Chosen,           \* identifiers a client chooses
  MaxJobs, MaxInFlight, MaxFailures, Nothing   \* MaxInFlight: requests at a time

ASSUME OnboardingAssumption ==
  /\ Home \in Machines /\ Default \in Orgs
  /\ OrgOf \in [Admins -> Orgs] /\ Tier \in [Orgs -> PlanIds]
  /\ MaxJobs \in Nat /\ Chosen \cap Nat = {} /\ Nothing \notin Machines \union Orgs \union Chosen \union Nat

VARIABLES registry, assigned, raced, recorded, reported, connection, exporting, probe, local, kubeconfig,
          started, job, child, request, failures

database == <<registry, assigned, raced, recorded>>
cluster == <<connection, exporting, probe>>
server == <<local, kubeconfig>>
service == <<started, job>>
onboardingVars == <<database, reported, cluster, server, service, child, request, failures>>

Ids == (1..MaxJobs) \union Chosen

NoChild == [at |-> "none", machine |-> Nothing, id |-> Nothing, context |-> Nothing, ok |-> TRUE]
NoRequest == [at |-> "none", id |-> Nothing, file |-> Nothing]

OnboardingInit ==
  /\ registry = [i \in Ids |-> Nothing] /\ assigned = {} /\ raced = {} /\ recorded = {} /\ reported = {}
  /\ connection = [m \in Machines |-> Nothing] /\ exporting = {} /\ probe = {}
  /\ local = Nothing /\ kubeconfig = [i \in Ids |-> Nothing]
  /\ started = 0 /\ job = Nothing /\ child = NoChild
  /\ request = [a \in Admins |-> NoRequest] /\ failures = 0

TypeOK ==
  /\ registry \in [Ids -> Orgs \union {Nothing}] /\ assigned \subseteq Admins \X Ids /\ raced \subseteq Admins \X Ids
  /\ recorded \subseteq Ids /\ reported \subseteq Ids
  /\ connection \in [Machines -> Ids \union {Nothing}] /\ exporting \subseteq Machines /\ probe \subseteq Machines
  /\ local \in [id : Ids, context : {ContextOf[m] : m \in Machines}] \union {Nothing}
  /\ kubeconfig \in [Ids -> Machines \union {Nothing}] /\ started \in 0..MaxJobs
  /\ job \in [op : {"onboard", "uninstall"}, id : Ids, owner : Admins, file : Machines \union {Nothing}] \union {Nothing}

-----------------------------------------------------------------------------
(* The registry. *)

OwnRows(org) == {i \in Ids : registry[i] = org}

(* The allowance of the organization's tier, counted over all its rows. *)
HasCapacity(a) == Cardinality(OwnRows(OrgOf[a])) < ClusterLimit(Tier[OrgOf[a]], Cardinality(Ids) + 1)

(* The trigger and the foreign key of project_users. *)
MayAssign(a, i) == registry[i] = OrgOf[a]

AdoptsAssigned(a, i) == OrgOf[a] # Default /\ registry[i] = Default

(* A row nobody is assigned to is adopted from the default organization. *)
Adopts(a, i) ==
  /\ OrgOf[a] # Default /\ registry[i] = Default
  /\ ~\E b \in Admins : <<b, i>> \in assigned

(* The adoption has updated the row, which others see as it was until the   *)
(* commit, and which stays locked against those who would delete it.        *)
Adopting(i) == child.at = "adopted" /\ child.id = i

(* Once it is rolled back, what was stored beside it is like any other.      *)
RollBack == raced' = IF child.at = "adopted" THEN {p \in raced : p[2] # child.id} ELSE raced

Commit(a, i) ==
  /\ registry' = [registry EXCEPT ![i] = OrgOf[a]]
  /\ assigned' = assigned \union {<<a, i>>}
  /\ UNCHANGED raced

(* Rows with a foreign key to the cluster refuse its deletion. *)
MayDeleteCascading(i) == TRUE

MayDelete(i) == i \notin recorded

Erase(i) ==
  /\ registry' = [registry EXCEPT ![i] = Nothing]
  /\ assigned' = {p \in assigned : p[2] # i}
  /\ raced' = {p \in raced : p[2] # i}

-----------------------------------------------------------------------------
(* Requests.  Each waits between a read and the write that follows it. *)

Ask(a, r) ==
  /\ request[a].at = "none"
  /\ Cardinality({b \in Admins : request[b].at # "none"}) < MaxInFlight
  /\ request' = [request EXCEPT ![a] = r]
  /\ UNCHANGED <<database, reported, cluster, server, service, child, failures>>

(* POST /cluster-onboarding: the allowance is read before the lock.  No *)
(* file is sent for the cluster the server's kubectl selects.  Nobody   *)
(* asks once MaxJobs have been started, which is the bound of this run. *)
AskOnboard(a) ==
  /\ HasCapacity(a) /\ started < MaxJobs
  /\ \E file \in (Machines \ {Home}) \union {Nothing} :
       Ask(a, [at |-> "onboard", id |-> Nothing, file |-> file])

(* The identifiers a client knows: those made up, and those of earlier jobs. *)
Known == Chosen \union 1..started

(* POST /clusters: a row of this organization is registered again. *)
AskCreate(a, i) ==
  \/ registry[i] = OrgOf[a] /\ Ask(a, [at |-> "assign", id |-> i, file |-> Nothing])
  \/ registry[i] # OrgOf[a] /\ HasCapacity(a) /\ Ask(a, [at |-> "create", id |-> i, file |-> Nothing])

Answered(a) == request' = [request EXCEPT ![a] = NoRequest]

(* The insert of a new row, or the unique violation: the row is then this *)
(* organization's after all, or the request is answered with 409.         *)
CreateRow(a) ==
  LET i == request[a].id
  IN /\ request[a].at = "create"
     /\ \/ /\ registry[i] = Nothing
           /\ registry' = [registry EXCEPT ![i] = OrgOf[a]]
           /\ request' = [request EXCEPT ![a].at = "assign"]
        \/ registry[i] = OrgOf[a] /\ request' = [request EXCEPT ![a].at = "assign"] /\ UNCHANGED registry
        \/ registry[i] \notin {Nothing, OrgOf[a]} /\ Answered(a) /\ UNCHANGED registry
     /\ UNCHANGED <<assigned, raced, recorded, reported, cluster, server, service, child, failures>>

(* One statement: its trigger reads the row as it is committed, and its     *)
(* foreign key wants no more than that the row is there.                    *)
AssignRow(a) ==
  LET i == request[a].id
  IN /\ request[a].at = "assign" /\ Answered(a)
     /\ IF MayAssign(a, i)
        THEN /\ assigned' = assigned \union {<<a, i>>}
             /\ raced' = IF Adopting(i) THEN raced \union {<<a, i>>} ELSE raced
        ELSE UNCHANGED <<assigned, raced>>
     /\ UNCHANGED <<registry, recorded, reported, cluster, server, service, child, failures>>

(* PUT users/:id/projects/:projectId, by somebody assigned, to a colleague; *)
(* the look-up of the row has come before.                                  *)
AskAssign(a, b, i) ==
  /\ OrgOf[a] = OrgOf[b] /\ <<a, i>> \in assigned /\ registry[i] = OrgOf[a]
  /\ Ask(b, [at |-> "assign", id |-> i, file |-> Nothing])

(* DELETE users/:id/projects/:projectId. *)
Unassign(a, b, i) ==
  /\ OrgOf[a] = OrgOf[b] /\ {<<a, i>>, <<b, i>>} \subseteq assigned
  /\ assigned' = assigned \ {<<b, i>>} /\ raced' = raced \ {<<b, i>>}
  /\ UNCHANGED <<registry, recorded, reported, cluster, server, service, child, request, failures>>

(* DELETE /clusters/:id. *)
DeleteCluster(i) ==
  /\ registry[i] # Nothing /\ ~Adopting(i) /\ MayDelete(i) /\ Erase(i)
  /\ UNCHANGED <<recorded, reported, cluster, server, service, child, request, failures>>

-----------------------------------------------------------------------------
(* The job service: one operation at a time, whatever it works on. *)

Free == job = Nothing

Spawn(operation) ==
  /\ Free /\ started < MaxJobs /\ started' = started + 1
  /\ job' = operation
  /\ child' = [NoChild EXCEPT !.at = IF operation.op = "onboard" THEN "register" ELSE "load"]

Start(a) ==
  LET id == started + 1
  IN /\ request[a].at = "onboard" /\ Answered(a)
     /\ \/ /\ Spawn([op |-> "onboard", id |-> id, owner |-> a, file |-> request[a].file])
           /\ kubeconfig' = [kubeconfig EXCEPT ![id] = request[a].file]
        \/ ~(Free /\ started < MaxJobs) /\ UNCHANGED <<service, child, kubeconfig>>
     /\ UNCHANGED <<database, reported, cluster, local, failures>>

(* DELETE /cluster-onboarding/clusters/:id: the kubeconfig is the file *)
(* that was stored under the identifier.                               *)
Uninstall(a, i) ==
  /\ <<a, i>> \in assigned
  /\ Spawn([op |-> "uninstall", id |-> i, owner |-> a, file |-> kubeconfig[i]])
  /\ UNCHANGED <<database, reported, cluster, server, request, failures>>

FinishKeepsLock ==
  /\ child.at = "exit"
  /\ job' = (IF child.ok THEN Nothing ELSE job) /\ child' = NoChild
  /\ kubeconfig' = IF job.op = "uninstall" /\ child.ok THEN [kubeconfig EXCEPT ![job.id] = Nothing] ELSE kubeconfig
  /\ UNCHANGED <<database, reported, cluster, local, started, request, failures>>

(* The exit event of the command releases the lock. *)
Finish ==
  /\ child.at = "exit"
  /\ job' = Nothing /\ child' = NoChild
  /\ kubeconfig' = IF job.op = "uninstall" /\ child.ok THEN [kubeconfig EXCEPT ![job.id] = Nothing] ELSE kubeconfig
  /\ UNCHANGED <<database, reported, cluster, local, started, request, failures>>

-----------------------------------------------------------------------------
(* The command.  Whatever throws ends it with exit code 1. *)

Doing(op, step) == job # Nothing /\ job.op = op /\ child.at = step
GoTo(step) == child' = [child EXCEPT !.at = step]
Exit(ok) == child' = [child EXCEPT !.at = "exit", !.ok = ok]

(* The machine kubectl selects: the uploaded file's, or the server's own. *)
Selected(file) == IF file = Nothing THEN Home ELSE file

RegisteredIdFromLocal(m) ==
  IF connection[m] # Nothing THEN connection[m]
  ELSE IF local # Nothing /\ local.context = ContextOf[m] THEN local.id ELSE job.id

(* A machine that was onboarded before keeps the identifier its ConfigMap  *)
(* holds; a ConfigMap that cannot be read counts as one that is not there. *)
RegisteredId(m) == IF connection[m] # Nothing THEN connection[m] ELSE job.id

Register ==
  LET m == Selected(job.file)
  IN /\ Doing("onboard", "register")
     /\ \/ /\ child' = [child EXCEPT !.at = "persist", !.machine = m, !.id = RegisteredId(m), !.context = ContextOf[m]]
           /\ UNCHANGED failures
        \/ /\ failures < MaxFailures /\ failures' = failures + 1
           /\ child' = [child EXCEPT !.at = "persist", !.machine = m, !.id = job.id, !.context = ContextOf[m]]
     /\ UNCHANGED <<database, reported, cluster, server, service, request>>

(* persistCluster is one transaction, which sees what others have committed  *)
(* before each of its statements.  First the adoption, if there is one.     *)
Adopt ==
  /\ Doing("onboard", "persist") /\ Adopts(job.owner, child.id) /\ GoTo("adopted")
  /\ UNCHANGED <<database, reported, cluster, server, service, request, failures>>

(* Then the upsert, which never takes a row over from another organization,  *)
(* the assignment of the owner, and the commit: the row is locked meanwhile. *)
Persist ==
  /\ \/ Doing("onboard", "adopted")
     \/ Doing("onboard", "persist") /\ registry[child.id] \in {Nothing, OrgOf[job.owner]}
  /\ Commit(job.owner, child.id) /\ GoTo("save")
  /\ UNCHANGED <<recorded, reported, cluster, server, service, request, failures>>

Save ==
  /\ Doing("onboard", "save") /\ GoTo("configure")
  /\ local' = [id |-> child.id, context |-> child.context]
  /\ UNCHANGED <<database, reported, cluster, kubeconfig, service, request, failures>>

(* The ConfigMap the collectors take their identity from. *)
Configure ==
  /\ Doing("onboard", "configure") /\ GoTo("install")
  /\ connection' = [connection EXCEPT ![child.machine] = child.id]
  /\ UNCHANGED <<database, reported, exporting, probe, server, service, request, failures>>

(* The collectors; the new identity is theirs once they have restarted. *)
Install ==
  /\ Doing("onboard", "install") /\ GoTo("verify")
  /\ exporting' = exporting \union {child.machine}
  /\ UNCHANGED <<database, reported, connection, probe, server, service, request, failures>>

(* The test workload; the command then waits for its log in ClickHouse. *)
Verify ==
  /\ Doing("onboard", "verify") /\ GoTo("received")
  /\ probe' = probe \union {child.machine}
  /\ UNCHANGED <<database, reported, connection, exporting, server, service, request, failures>>

Received ==
  /\ Doing("onboard", "received") /\ child.id \in reported /\ GoTo("cleanup")
  /\ UNCHANGED <<database, reported, cluster, server, service, request, failures>>

(* The namespace is deleted after the test; when that fails, or the test   *)
(* did, the finally block tries (again), and ignores a failure of its own. *)
CleanUp ==
  /\ Doing("onboard", "cleanup") \/ Doing("onboard", "finally")
  /\ \/ /\ probe' = probe \ {child.machine} /\ Exit(child.at = "cleanup")
        /\ UNCHANGED failures
     \/ /\ failures < MaxFailures /\ failures' = failures + 1 /\ UNCHANGED probe
        /\ IF child.at = "cleanup" THEN GoTo("finally") ELSE Exit(FALSE)
  /\ UNCHANGED <<database, reported, connection, exporting, server, service, request>>

(* kubectl, PostgreSQL or a health check fails, or a wait times out. *)
OnboardFails ==
  /\ job # Nothing /\ job.op = "onboard"
  /\ child.at \in {"register", "persist", "adopted", "configure", "install", "verify", "received"}
  /\ IF child.at \in {"verify", "received"} THEN GoTo("finally") ELSE Exit(FALSE)
  /\ RollBack
  /\ UNCHANGED <<registry, assigned, recorded, reported, cluster, server, service, request, failures>>

(* The local file must be about the cluster that was asked for. *)
Load ==
  /\ Doing("uninstall", "load")
  /\ IF local # Nothing /\ local.id = job.id
       THEN child' = [child EXCEPT !.at = "remove-collectors", !.id = local.id, !.context = local.context]
       ELSE Exit(FALSE)
  /\ UNCHANGED <<database, reported, cluster, server, service, request, failures>>

(* kubectl with the context of the local file.  Where it does not exist, or *)
(* the server is not reached, the command goes on without; another failure  *)
(* ends it.                                                                 *)
Reached == LET m == Selected(job.file) IN IF ContextOf[m] = child.context THEN m ELSE Nothing

RemoveCollectors ==
  /\ Doing("uninstall", "remove-collectors")
  /\ \/ /\ Reached # Nothing /\ GoTo("unregister")
        /\ probe' = probe \ {Reached} /\ exporting' = exporting \ {Reached}
        /\ connection' = [connection EXCEPT ![Reached] = Nothing]
     \/ GoTo("unregister") /\ UNCHANGED cluster
     \/ Reached # Nothing /\ Exit(FALSE) /\ UNCHANGED cluster
  /\ UNCHANGED <<database, reported, server, service, request, failures>>

(* One transaction: what was recorded about the cluster goes with it. *)
Unregister ==
  /\ Doing("uninstall", "unregister")
  /\ \/ Erase(child.id) /\ recorded' = recorded \ {child.id} /\ GoTo("clear")
     \/ Exit(FALSE) /\ UNCHANGED database
  /\ UNCHANGED <<reported, cluster, server, service, request, failures>>

ClearLocal ==
  /\ Doing("uninstall", "clear") /\ Exit(TRUE)
  /\ local' = Nothing
  /\ UNCHANGED <<database, reported, cluster, kubeconfig, service, request, failures>>

-----------------------------------------------------------------------------
(* Telemetry: a collector exports under the identifier of its ConfigMap.   *)
(* What the processor stores about an identifier, then or later, from the  *)
(* telemetry kept in ClickHouse, inserts the row of an unknown cluster.    *)

Report(m) ==
  /\ m \in exporting /\ connection[m] # Nothing /\ connection[m] \notin reported
  /\ reported' = reported \union {connection[m]}
  /\ UNCHANGED <<database, cluster, server, service, child, request, failures>>

Record(i) ==
  /\ i \in reported /\ recorded' = recorded \union {i}
  /\ registry' = IF registry[i] = Nothing THEN [registry EXCEPT ![i] = Default] ELSE registry
  /\ UNCHANGED <<assigned, raced, reported, cluster, server, service, child, request, failures>>

(* The API process ends, and with it its jobs, its requests and its child. *)
Crash ==
  /\ failures < MaxFailures /\ failures' = failures + 1 /\ job # Nothing
  /\ job' = Nothing /\ child' = NoChild /\ request' = [a \in Admins |-> NoRequest]
  /\ RollBack
  /\ UNCHANGED <<registry, assigned, recorded, reported, cluster, server, started>>

-----------------------------------------------------------------------------
Command ==
  \/ Register \/ Adopt \/ Persist \/ Save \/ Configure \/ Install \/ Verify \/ Received \/ CleanUp \/ OnboardFails
  \/ Load \/ RemoveCollectors \/ Unregister \/ ClearLocal

Requests ==
  \E a \in Admins :
    \/ AskOnboard(a) \/ Start(a) \/ CreateRow(a) \/ AssignRow(a)
    \/ \E i \in Known : AskCreate(a, i) \/ Uninstall(a, i) \/ \E b \in Admins : AskAssign(a, b, i) \/ Unassign(a, b, i)

OnboardingNext ==
  \/ Command \/ Finish \/ Requests \/ Crash
  \/ \E m \in Machines : Report(m)
  \/ \E i \in Ids : DeleteCluster(i) \/ Record(i)

(* The command's calls are bounded by timeouts, so it takes its next step, *)
(* and node delivers the exit event of a process that has ended.           *)
OnboardingSpec ==
  /\ OnboardingInit /\ [][OnboardingNext]_onboardingVars
  /\ WF_onboardingVars(Command) /\ WF_onboardingVars(Finish)

-----------------------------------------------------------------------------
(* Whoever is assigned to a cluster belongs to the organization that owns  *)
(* it, through adoption, upsert, deletion and a row that comes back, in    *)
(* any order (migration 0025; cluster.cjs:308-328).  Only an assignment    *)
(* that was stored beside an uncommitted adoption may stay behind: its     *)
(* trigger and the adoption's NOT EXISTS do not see one another.           *)
AssignmentsStayInside == \A p \in assigned \ raced : registry[p[2]] = OrgOf[p[1]]

(* No two machines report under one identifier, also when their contexts   *)
(* have one name and the server has onboarded both ("its globally unique   *)
(* telemetry and registry identity", cluster-onboarding.service.ts:57).    *)
IdentityIsUnique ==
  \A m, n \in Machines : connection[m] # Nothing /\ connection[m] = connection[n] => m = n

(* A registered cluster about which something is recorded disappears only  *)
(* when its uninstall was asked for (clusters.controller.ts:229: losing an *)
(* incident's cluster would destroy the record of it).                     *)
HistoryIsKept ==
  [][\A i \in recorded : i \notin recorded' \/ registry'[i] = Nothing
       => job # Nothing /\ job.op = "uninstall" /\ job.id = i]_onboardingVars

(* Every operation ends and releases the lock, however it goes: another    *)
(* one can be started (cluster-onboarding.service.ts:184).                 *)
EveryOperationEnds == job # Nothing ~> job = Nothing

=============================================================================
