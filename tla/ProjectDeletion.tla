-------------------------- MODULE ProjectDeletion ---------------------------
(* The deletion of one project: its job and phases (projects/repository.py),*)
(* the workers that run them (projects/deletion_worker.py), what they       *)
(* remove (runtime/project_teardown.py, secrets/store.py, the cluster of    *)
(* ProjectDatabase), and everybody who may be at work on the project at the *)
(* same time: requests that provision its database, a thread that saves its *)
(* settings, an operation (a deployment or a reconciliation) and the        *)
(* routing worker.                                                          *)
(*                                                                          *)
(* A transaction, a lock, a command or a file operation is one action. A    *)
(* claim token is the worker that holds it; a job whose lease ran out has   *)
(* no holder. available_at is left out, a job may be claimed at any time.   *)
(* The route is its row with what the Edge serves (module PublicRoutes has  *)
(* the rest), the operation is whether it is open and the runtime it makes  *)
(* (DeploymentJobs, Gateway). The resources of a kind are one resource.     *)
EXTENDS ProjectDatabase

CONSTANTS
    Worker,         \* worker processes
    Settings,       \* the thread of update_settings, as a holder of the secret lock
    MaxAttempts,    \* worker_max_attempts
    MaxRetries      \* bound: retries the administrator asks for

ASSUME DeletionAssumption ==
    /\ None \notin Worker \cup {Settings} /\ Settings \notin Worker
    /\ MaxAttempts \in Nat \ {0} /\ MaxRetries \in Nat

VARIABLES
    state, phase, attempts, purge, holder,   \* project_deletion_jobs
    retries,
    operation,  \* a deployment is open, or a reconciliation PENDING or CLAIMED
    route,      \* project_public_routes with its job, and what the Edge serves
    runtime,    \* what Docker has of the project
    listed,     \* its row of project_runtimes, which names the gateway
    files,      \* its workspaces and gateway configuration
    settings,   \* where the thread of update_settings is
    envSecrets, \* secret files of the settings
    secretLock, \* who holds the lock file of the project's secrets
    at,         \* where a worker is
    job,        \* the phase and attempts of its claim
    todo,       \* the resources teardown() has observed and not yet removed
    may         \* _authorize has passed and what it allows is still to come

jobVars == <<state, phase, attempts, purge, holder>>
othersVars == <<operation, route, settings>>
dataVars == <<runtime, listed, files, envSecrets>>
workerVars == <<at, job, todo, may>>
vars == <<project, databaseVars, faults, jobVars, retries, othersVars, dataVars,
          secretLock, workerVars>>

(* ProjectDeletionPhase *)
Requested == 1
WaitingForOperations == 2
RouteDisabling == 3
RouteIsRemoved == 4
RuntimeCleanup == 5
DatabaseQuiescing == 6
DropDatabasePhase == 7
DropRolePhase == 8
SecretCleanup == 9
MetadataDelete == 10

(* removal_order *)
Removal == <<"gateway", "service", "network", "image">>
Kind == {Removal[n] : n \in 1..4}
FirstOf(kinds) == Removal[CHOOSE n \in 1..4 : /\ Removal[n] \in kinds
                                              /\ \A k \in 1..(n - 1) : Removal[k] \notin kinds]

NoJob == [phase |-> Requested, attempts |-> 0]

Labels == {"idle", "run", "probeSecrets", "probeLock", "disable", "applied", "observe",
           "remove", "removeFiles", "lockDatabase", "database", "lockSecrets",
           "secrets", "verifyRuntime", "verifyDatabase", "verifySecrets", "finalize",
           "advance", "defer", "fail", "failRetryable"}

TypeOK ==
    /\ DatabaseTypeOK
    /\ advisory \in Request \cup Worker \cup {None}
    /\ state \in {"NONE", "PENDING", "CLAIMED", "FAILED"}
    /\ phase \in Requested..MetadataDelete
    /\ attempts \in 0..(MaxAttempts + MaxFaults + 1)
    /\ purge \in BOOLEAN /\ holder \in Worker \cup {None}
    /\ retries \in 0..MaxRetries
    /\ operation \in BOOLEAN
    /\ route \in [status : {"ABSENT", "PENDING", "APPLYING", "ACTIVE", "INACTIVE", "FAILED"},
                  desired : {"ENABLED", "DISABLED"}, served : BOOLEAN]
    /\ runtime \subseteq Kind /\ listed \in BOOLEAN /\ files \in BOOLEAN
    /\ settings \in {"idle", "write", "save", "done"}
    /\ envSecrets \in BOOLEAN
    /\ secretLock \in Worker \cup {Settings, None}
    /\ at \in [Worker -> Labels]
    /\ job \in [Worker -> [phase : Requested..MetadataDelete,
                           attempts : 0..(MaxAttempts + MaxFaults + 1)]]
    /\ todo \in [Worker -> SUBSET Kind]
    /\ may \in [Worker -> BOOLEAN]

Init ==
    /\ DatabaseInit
    /\ state = "NONE" /\ phase = Requested /\ attempts = 0 /\ purge = FALSE /\ holder = None
    /\ retries = 0
    /\ operation = FALSE
    /\ route = [status |-> "ABSENT", desired |-> "DISABLED", served |-> FALSE]
    /\ runtime = {} /\ listed = FALSE /\ files = FALSE
    /\ settings = "idle" /\ envSecrets = TRUE /\ secretLock = None
    /\ at = [w \in Worker |-> "idle"]
    /\ job = [w \in Worker |-> NoJob]
    /\ todo = [w \in Worker |-> {}]
    /\ may = [w \in Worker |-> FALSE]

-----------------------------------------------------------------------------
(* Everybody else *)

Provision == DatabaseNext /\ UNCHANGED <<jobVars, retries, othersVars, dataVars, secretLock, workerVars>>

(* A deployment or a reconciliation: begun only while the project is READY  *)
(* (DeploymentJobs.DrainedStaysDrained), it may make the runtime, and ends. *)
OperationBegins ==
    /\ project = "READY" /\ rowLock = None /\ ~operation
    /\ operation' = TRUE
    /\ UNCHANGED <<project, databaseVars, faults, jobVars, retries, route, settings, dataVars,
                   secretLock, workerVars>>
(* The gateway is started before its row is inserted: a worker that dies    *)
(* between the two leaves a container no row names.                         *)
OperationBuilds ==
    /\ operation
    /\ runtime' = Kind /\ files' = TRUE
    /\ \/ listed' = TRUE /\ UNCHANGED faults
       \/ Fault /\ UNCHANGED listed
    /\ UNCHANGED <<project, databaseVars, jobVars, retries, othersVars, envSecrets,
                   secretLock, workerVars>>
OperationEnds ==
    /\ operation
    /\ operation' = FALSE
    /\ UNCHANGED <<project, databaseVars, faults, jobVars, retries, route, settings, dataVars,
                   secretLock, workerVars>>

RouteChange(new) ==
    /\ route' = new
    /\ UNCHANGED <<project, databaseVars, jobVars, retries, operation, settings, dataVars,
                   secretLock, workerVars>>

(* set_enabled; _lock_project_mutation refuses a project that is being deleted *)
RouteEnable ==
    /\ project = "READY" /\ rowLock = None /\ route.desired = "DISABLED"
    /\ RouteChange([route EXCEPT !.status = "PENDING", !.desired = "ENABLED"])
    /\ UNCHANGED faults
RouteClaim ==
    /\ route.status = "PENDING"
    /\ RouteChange([route EXCEPT !.status = "APPLYING"])
    /\ UNCHANGED faults
RouteComplete ==
    /\ route.status = "APPLYING"
    /\ RouteChange([route EXCEPT !.status = IF route.desired = "ENABLED" THEN "ACTIVE" ELSE "INACTIVE",
                                 !.served = route.desired = "ENABLED"])
    /\ UNCHANGED faults
RouteFail ==
    /\ route.status = "APPLYING"
    /\ Fault
    /\ RouteChange([route EXCEPT !.status = "FAILED"])

SettingsStep(from, to) ==
    /\ settings = from /\ settings' = to
    /\ UNCHANGED <<project, databaseVars, faults, jobVars, retries, operation, route, runtime,
                   listed, files, workerVars>>

(* update_settings: the lock of the secrets and the status, the files, the row *)
SettingsBeginUnlessDeleting ==
    /\ secretLock = None /\ project # "DELETING"
    /\ secretLock' = Settings
    /\ SettingsStep("idle", "write") /\ UNCHANGED envSecrets
SettingsBegin ==
    /\ secretLock = None /\ project = "READY"
    /\ secretLock' = Settings
    /\ SettingsStep("idle", "write") /\ UNCHANGED envSecrets
SettingsWrite ==
    /\ SettingsStep("write", "save")
    /\ envSecrets' = TRUE
    /\ UNCHANGED secretLock
(* The update of the row, or its refusal; a crash ends the thread as well. *)
SettingsSave ==
    /\ rowLock = None
    /\ SettingsStep("save", "done")
    /\ secretLock' = None
    /\ UNCHANGED envSecrets

-----------------------------------------------------------------------------
(* The administrator *)

RequestDeletion ==
    /\ project = "READY" /\ rowLock = None
    /\ project' = "DELETING"
    /\ state' = "PENDING"
    /\ purge' = (row # None)
    /\ UNCHANGED <<databaseVars, faults, phase, attempts, holder, retries, othersVars, dataVars,
                   secretLock, workerVars>>

RetryDeletion ==
    /\ state = "FAILED" /\ rowLock = None /\ retries < MaxRetries
    /\ retries' = retries + 1
    /\ state' = "PENDING" /\ attempts' = 0 /\ holder' = None
    /\ UNCHANGED <<project, databaseVars, faults, phase, purge, othersVars, dataVars,
                   secretLock, workerVars>>

-----------------------------------------------------------------------------
(* The claim *)

Holds(w) == state = "CLAIMED" /\ holder = w
RouteRemoved == route.status \in {"ABSENT", "INACTIVE"}

To(w, label) == at' = [at EXCEPT ![w] = label]

(* A step of w that changes none of the tables but may use `may` up. *)
Quiet(w, label) ==
    /\ To(w, label)
    /\ may' = [may EXCEPT ![w] = FALSE]
    /\ UNCHANGED <<project, faults, jobVars, retries, othersVars, job>>
Plain == UNCHANGED <<databaseVars, dataVars, secretLock, todo>>

(* run_once returns; with blocks release what the worker has locked *)
Leave(w) ==
    /\ To(w, "idle")
    /\ may' = [may EXCEPT ![w] = FALSE]
    /\ todo' = [todo EXCEPT ![w] = {}]
    /\ advisory' = IF advisory = w THEN None ELSE advisory
    /\ secretLock' = IF secretLock = w THEN None ELSE secretLock
    /\ job' = [job EXCEPT ![w] = NoJob]
    /\ UNCHANGED <<project, row, credential, clusterVars, rowLock, pc, mine, othersVars, dataVars>>

ClaimablePending == state = "PENDING"
Claimable == \/ state = "PENDING"
             \/ state = "CLAIMED" /\ holder = None

NextAttempt == attempts + 1

ClaimNextDeletion(w) ==
    /\ at[w] = "idle" /\ Claimable
    /\ state' = "CLAIMED" /\ attempts' = NextAttempt /\ holder' = w
    /\ job' = [job EXCEPT ![w] = [phase |-> phase, attempts |-> attempts']]
    /\ To(w, IF attempts' > MaxAttempts THEN "failRetryable" ELSE "run")
    /\ UNCHANGED <<project, databaseVars, faults, phase, purge, retries, othersVars, dataVars,
                   secretLock, todo, may>>

(* _authorize: the lease is renewed and the claim, the project and, from    *)
(* RUNTIME_CLEANUP on, the route are looked at once more. What is allowed   *)
(* happens later.                                                           *)
Authorized(w, removed) == Holds(w) /\ project = "DELETING" /\ (removed => RouteRemoved)

Mutations == {"disable", "observe", "remove", "removeFiles", "database", "secrets",
              "verifyRuntime", "verifyDatabase", "verifySecrets"}

Authorize(w) ==
    /\ at[w] \in Mutations /\ ~may[w]
    /\ at[w] = "remove" => todo[w] # {}
    /\ Authorized(w, at[w] # "disable")
    /\ may' = [may EXCEPT ![w] = TRUE]
    /\ UNCHANGED <<project, databaseVars, faults, jobVars, retries, othersVars, dataVars,
                   secretLock, at, job, todo>>

(* It does not pass, or the row is not the worker's own: the worker gives   *)
(* up. teardown() raises a RuntimeFailure, the rest a lost claim.           *)
Rejected(w) ==
    /\ ~may[w]
    /\ \/ at[w] \in Mutations /\ ~Authorized(w, at[w] # "disable")
       \/ at[w] \in {"advance", "defer", "fail", "failRetryable", "finalize"} /\ ~Holds(w)
    /\ IF Holds(w) /\ at[w] \in {"remove", "removeFiles", "verifyRuntime"}
       THEN Quiet(w, "failRetryable") /\ Plain
       ELSE Leave(w) /\ UNCHANGED <<faults, jobVars, retries>>

-----------------------------------------------------------------------------
(* _run_claim *)

(* deletion_operations_drained *)
DrainedOfRoutes == route.status # "APPLYING"
Drained == ~operation /\ route.status # "APPLYING"

Run(w) ==
    /\ at[w] = "run"
    /\ LET p == job[w].phase
       IN CASE p = Requested -> Quiet(w, "advance")
            [] p = WaitingForOperations ->
                 Quiet(w, IF Drained THEN "probeSecrets" ELSE "defer")
            [] p = RouteDisabling -> Quiet(w, "disable")
            [] p = RouteIsRemoved -> Quiet(w, "applied")
            [] p = RuntimeCleanup -> Quiet(w, "observe")
            [] p \in DatabaseQuiescing..DropRolePhase -> Quiet(w, "lockDatabase")
            [] p = SecretCleanup -> Quiet(w, "lockSecrets")
            [] p = MetadataDelete -> Quiet(w, "verifyRuntime")
    /\ Plain

(* _operations_drained: the locks are only tried *)
ProbeSecrets(w) ==
    /\ at[w] = "probeSecrets"
    /\ Quiet(w, IF secretLock # None THEN "defer" ELSE IF row = None THEN "advance" ELSE "probeLock")
    /\ Plain
ProbeLock(w) ==
    /\ at[w] = "probeLock"
    /\ Quiet(w, IF advisory # None THEN "defer" ELSE "advance")
    /\ Plain

DisableForDeletion(w) ==
    /\ at[w] = "disable" /\ may[w] /\ rowLock = None /\ project = "DELETING"
    /\ route' = IF route.status = "ABSENT" \/ (route.desired = "DISABLED"
                                               /\ route.status \in {"PENDING", "APPLYING", "INACTIVE"})
                THEN route
                ELSE [route EXCEPT !.status = "PENDING", !.desired = "DISABLED"]
    /\ To(w, "applied")
    /\ may' = [may EXCEPT ![w] = FALSE]
    /\ UNCHANGED <<project, databaseVars, faults, jobVars, retries, operation, settings, dataVars,
                   secretLock, job, todo>>

DeletionIsApplied(w) ==
    /\ at[w] = "applied"
    /\ Quiet(w, IF RouteRemoved THEN "advance" ELSE "defer")
    /\ Plain

(* teardown(): observe what the rows name and refuse what they do not,      *)
(* remove one by one, look again, remove the files                          *)
Expected == IF listed THEN Kind ELSE Kind \ {"gateway"}

Observe(w) ==
    /\ at[w] = "observe" /\ may[w]
    /\ IF runtime \subseteq Expected
       THEN Quiet(w, "remove") /\ todo' = [todo EXCEPT ![w] = runtime]
       ELSE Quiet(w, "fail") /\ UNCHANGED todo
    /\ UNCHANGED <<databaseVars, dataVars, secretLock>>

Remove(w) ==
    /\ at[w] = "remove" /\ may[w]
    /\ LET k == FirstOf(todo[w])
       IN IF k \in runtime
          THEN /\ runtime' = runtime \ {k} /\ todo' = [todo EXCEPT ![w] = @ \ {k}]
               /\ Quiet(w, "remove")
          ELSE /\ Quiet(w, "fail")          \* it was observed and is gone: uncertain
               /\ UNCHANGED <<runtime, todo>>
    /\ UNCHANGED <<databaseVars, listed, files, envSecrets, secretLock>>

Recheck(w) ==
    /\ at[w] = "remove" /\ todo[w] = {}
    /\ Quiet(w, IF runtime = {} THEN "removeFiles" ELSE "fail")
    /\ Plain

RemoveFiles(w) ==
    /\ at[w] = "removeFiles" /\ may[w]
    /\ files' = FALSE
    /\ Quiet(w, IF runtime = {} THEN "advance" ELSE "fail")
    /\ UNCHANGED <<databaseVars, runtime, listed, envSecrets, secretLock, todo>>

(* _run_database_phase *)
LockDatabase(w) ==
    /\ at[w] = "lockDatabase"
    /\ CASE (row # None) # purge -> Quiet(w, "fail") /\ UNCHANGED advisory
         [] row = None /\ ~purge -> Quiet(w, "advance") /\ UNCHANGED advisory
         [] row # None /\ purge /\ advisory # None -> Quiet(w, "failRetryable") /\ UNCHANGED advisory
         [] OTHER -> Quiet(w, "database") /\ advisory' = w
    /\ UNCHANGED <<row, credential, clusterVars, rowLock, pc, mine, dataVars, secretLock, todo>>

Quiesce == /\ role' = IF role = None THEN None ELSE [role EXCEPT !.login = FALSE]
           /\ UNCHANGED <<database, granted>>
DropDatabase == database' = "absent" /\ granted' = FALSE /\ UNCHANGED role
DropRole == role' = None /\ UNCHANGED <<database, granted>>

DatabasePhase(w) ==
    /\ at[w] = "database" /\ may[w]
    /\ IF database = "unmarked" /\ job[w].phase # DropRolePhase
       THEN Quiet(w, "fail") /\ UNCHANGED clusterVars        \* OWNERSHIP_CONFLICT
       ELSE /\ Quiet(w, "advance")
            /\ CASE job[w].phase = DatabaseQuiescing -> Quiesce
                 [] job[w].phase = DropDatabasePhase -> DropDatabase
                 [] job[w].phase = DropRolePhase -> DropRole
    /\ advisory' = None
    /\ UNCHANGED <<row, credential, rowLock, pc, mine, dataVars, secretLock, todo>>

LockSecrets(w) ==
    /\ at[w] = "lockSecrets"
    /\ IF secretLock = None THEN Quiet(w, "secrets") /\ secretLock' = w
                            ELSE Quiet(w, "failRetryable") /\ UNCHANGED secretLock
    /\ UNCHANGED <<databaseVars, dataVars, todo>>

DeleteSecrets(w) ==
    /\ at[w] = "secrets" /\ may[w]
    /\ envSecrets' = FALSE /\ credential' = None
    /\ secretLock' = None
    /\ Quiet(w, "advance")
    /\ UNCHANGED <<row, clusterVars, lockVars, pc, mine, runtime, listed, files, todo>>

(* _verify_final_absence *)
VerifyRuntime(w) ==
    /\ at[w] = "verifyRuntime" /\ may[w]
    /\ Quiet(w, IF runtime # {} \/ files \/ (row # None) # purge THEN "fail"
                ELSE IF row = None THEN "verifySecrets" ELSE "verifyDatabase")
    /\ Plain
VerifyDatabase(w) ==
    /\ at[w] = "verifyDatabase" /\ may[w]
    /\ Quiet(w, IF advisory # None THEN "failRetryable"
                ELSE IF database = "absent" /\ role = None THEN "verifySecrets" ELSE "fail")
    /\ Plain
VerifySecrets(w) ==
    /\ at[w] = "verifySecrets" /\ may[w]
    /\ Quiet(w, IF secretLock # None THEN "failRetryable"
                ELSE IF envSecrets \/ credential # None THEN "fail" ELSE "finalize")
    /\ Plain

FinalizeDeletion(w) ==
    /\ at[w] = "finalize" /\ rowLock = None
    /\ Authorized(w, TRUE) /\ phase = MetadataDelete
    /\ project' = "GONE"
    /\ state' = "NONE" /\ holder' = None
    /\ row' = None /\ listed' = FALSE
    /\ route' = [route EXCEPT !.status = "ABSENT"]
    /\ To(w, "idle") /\ job' = [job EXCEPT ![w] = NoJob]
    /\ UNCHANGED <<credential, clusterVars, lockVars, pc, mine, faults, phase, attempts, purge,
                   retries, operation, settings, runtime, files, envSecrets, secretLock,
                   todo, may>>

(* advance_deletion, by the holder and from the phase it has in hand *)
AdvanceDeletion(w) ==
    /\ at[w] = "advance" /\ Holds(w) /\ phase = job[w].phase
    /\ phase' = phase + 1
    /\ job' = [job EXCEPT ![w].phase = phase']
    /\ To(w, "run")
    /\ UNCHANGED <<project, databaseVars, faults, state, attempts, purge, holder, retries,
                   othersVars, dataVars, secretLock, todo, may>>

(* defer_deletion gives the attempt back *)
DeferDeletion(w) ==
    /\ at[w] = "defer" /\ Holds(w)
    /\ state' = "PENDING" /\ holder' = None /\ attempts' = attempts - 1
    /\ Leave(w)
    /\ UNCHANGED <<faults, phase, purge, retries>>

(* _persist_failure *)
MayReschedule(w) == at[w] = "failRetryable" /\ job[w].attempts < MaxAttempts
HandleFailure(w) ==
    /\ at[w] \in {"fail", "failRetryable"} /\ Holds(w)
    /\ state' = IF MayReschedule(w) THEN "PENDING" ELSE "FAILED"
    /\ holder' = None
    /\ Leave(w)
    /\ UNCHANGED <<faults, phase, attempts, purge, retries>>

-----------------------------------------------------------------------------
(* Failures, crashes, time *)

(* RuntimeFailure: Docker or the cluster does not answer and may be asked   *)
(* again, or a removal is not confirmed and what is left is uncertain.      *)
CommandFails(w) ==
    /\ Fault
    /\ \/ at[w] \in {"probeLock", "observe", "remove", "database", "verifyRuntime", "verifyDatabase"}
          /\ To(w, "failRetryable")
       \/ at[w] \in {"remove", "removeFiles", "secrets", "verifySecrets"} /\ To(w, "fail")
    /\ may' = [may EXCEPT ![w] = FALSE]
    /\ advisory' = IF advisory = w THEN None ELSE advisory
    /\ secretLock' = IF secretLock = w THEN None ELSE secretLock
    /\ UNCHANGED <<project, row, credential, clusterVars, rowLock, pc, mine, jobVars, retries,
                   othersVars, dataVars, job, todo>>

WorkerCrash(w) ==
    /\ at[w] # "idle"
    /\ Fault
    /\ Leave(w)
    /\ UNCHANGED <<jobVars, retries>>

LeaseRunsOut == /\ state = "CLAIMED" /\ holder # None
                /\ holder' = None
                /\ UNCHANGED <<project, databaseVars, state, phase, attempts, purge, retries,
                               othersVars, dataVars, secretLock, workerVars>>
Abandoned == holder # None /\ at[holder] = "idle"
LeaseExpires == Abandoned /\ LeaseRunsOut /\ UNCHANGED faults
LeaseExpiresUnderWorker == ~Abandoned /\ Fault /\ LeaseRunsOut

WorkerStep(w) ==
    \/ Authorize(w) \/ Rejected(w) \/ Run(w) \/ ProbeSecrets(w) \/ ProbeLock(w)
    \/ DisableForDeletion(w) \/ DeletionIsApplied(w) \/ Observe(w) \/ Remove(w) \/ Recheck(w)
    \/ RemoveFiles(w) \/ LockDatabase(w) \/ DatabasePhase(w) \/ LockSecrets(w)
    \/ DeleteSecrets(w) \/ VerifyRuntime(w) \/ VerifyDatabase(w) \/ VerifySecrets(w)
    \/ FinalizeDeletion(w) \/ AdvanceDeletion(w) \/ DeferDeletion(w) \/ HandleFailure(w)

Next ==
    \/ Provision
    \/ OperationBegins \/ OperationBuilds \/ RouteEnable \/ RouteFail \/ SettingsBegin
    \/ OperationEnds \/ RouteClaim \/ RouteComplete \/ SettingsWrite \/ SettingsSave
    \/ RequestDeletion \/ RetryDeletion
    \/ \E w \in Worker : \/ ClaimNextDeletion(w) \/ WorkerStep(w)
                         \/ CommandFails(w) \/ WorkerCrash(w)
    \/ LeaseExpires \/ LeaseExpiresUnderWorker

Spec == Init /\ [][Next]_vars

(* Commands, probes and waits have a timeout, a worker that stops is started *)
(* again, and time passes. Nothing is assumed of the administrator.         *)
FairSpec ==
    /\ Spec
    /\ \A r \in Request : WF_vars(RequestStep(r) /\ Provision)
    /\ WF_vars(OperationEnds) /\ WF_vars(RouteClaim) /\ WF_vars(RouteComplete)
    /\ WF_vars(SettingsWrite) /\ WF_vars(SettingsSave)
    /\ \A w \in Worker : WF_vars(ClaimNextDeletion(w)) /\ WF_vars(WorkerStep(w))
    /\ WF_vars(LeaseExpires)

-----------------------------------------------------------------------------
(* Once the project is gone nothing of it is left: no container, network,   *)
(* image, file, database, role, secret file or published hostname, whatever *)
(* was at work when its deletion was requested. Its rows are the only       *)
(* record of what belongs to it, so nobody could clean up afterwards.       *)
NothingLeftBehind ==
    project = "GONE" => /\ runtime = {} /\ ~files
                        /\ database = "absent" /\ role = None
                        /\ credential = None /\ ~envSecrets
                        /\ ~route.served

(* The hostname is out of service before anything behind it is removed, and *)
(* nothing is removed under somebody who is still at work on it: an open    *)
(* operation, a provisioning request or a save of the settings.             *)
Provisioning == rowLock # None
RemovedOutOfUse ==
    [][/\ ~(runtime \subseteq runtime') => ~route.served /\ ~operation
       /\ database = "marked" /\ database' = "absent" => ~route.served /\ ~operation /\ ~Provisioning
       /\ envSecrets /\ ~envSecrets' => ~route.served /\ settings \notin {"write", "save"}
       /\ credential # None /\ credential' = None => ~Provisioning]_vars

(* The variables have their types. What a phase has removed stays removed,  *)
(* and a phase is passed only when it has: a worker that takes over after a *)
(* crash starts from the phase and does not look back until the end. The    *)
(* application data is purged exactly when the administrator confirmed it:  *)
(* a database cannot be recorded, or its row disappear, after the request.  *)
PhaseIsDone ==
    /\ TypeOK
    /\ project = "DELETING" =>
        /\ phase > RouteIsRemoved => RouteRemoved
        /\ phase > RuntimeCleanup => runtime = {} /\ ~files
        /\ phase > DropDatabasePhase => database = "absent"
        /\ phase > DropRolePhase => role = None
        /\ phase > SecretCleanup => credential = None /\ ~envSecrets
        /\ purge = (row # None)

(* A requested deletion ends: the project is gone or the job has failed and *)
(* waits for the administrator.                                             *)
DeletionEnds == project = "DELETING" ~> (project = "GONE" \/ state = "FAILED")
============================================================================
