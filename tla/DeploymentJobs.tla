--------------------------- MODULE DeploymentJobs ---------------------------
(* The deployment queue of Heimdall: the tables deployments and             *)
(* deployment_jobs (deployments/repository.py), the worker that claims jobs *)
(* from them (deployments/worker.py), and, coarsely, what its runtime       *)
(* processor does to Docker and to project_runtimes between two of its      *)
(* database transactions (runtime/service.py, runtime/docker.py,            *)
(* runtime/gateway.py).                                                     *)
(*                                                                          *)
(* One action is one database transaction, or one stretch of Docker work    *)
(* between two of them. Workers are processes: they interleave, they crash, *)
(* and their lease can run out while they work. Time is left out: a lease   *)
(* is live or expired, and a job waiting for its retry delay is simply      *)
(* claimed later.                                                           *)
EXTENDS Naturals, FiniteSets

CONSTANTS
    Deployment,     \* every deployment that may ever be requested
    Project,        \* the projects
    ProjectOf,      \* the project a deployment belongs to
    Worker,         \* the worker processes
    None,           \* no deployment, no worker, no failure
    MaxAttempts,    \* worker_max_attempts of the settings
    MaxFaults,      \* bound: crashes, and leases that expire under a live worker
    LateErrors      \* whether exceptions also happen once the deployment is active,
                    \* and while an uncertain recovery is recorded

\* RuntimeFailure by what the code tells apart: whether it may be retried, and
\* whether it is the failure the reconciliation looks for. RUNTIME_FATAL also
\* stands for UNEXPECTED_RUNTIME_FAILURE.
Retryable == {"RUNTIME_RETRYABLE", "RECOVERY_STATE_UNCERTAIN", "CANDIDATE_CLEANUP_FAILED"}
Failures == Retryable \cup {"RUNTIME_FATAL", "WORKER_RECOVERY_EXHAUSTED"}

ASSUME JobsAssumption ==
    /\ ProjectOf \in [Deployment -> Project]
    /\ None \notin Deployment \cup Worker \cup Failures
    /\ MaxAttempts \in Nat \ {0}
    /\ MaxFaults \in Nat
    /\ LateErrors \in BOOLEAN

VARIABLES
    projectStatus,  \* projects.status: READY or DELETING
    status,         \* deployments.status, ABSENT before the row exists
    failure,        \* deployments.failure_stage and failure_code
    jobState,       \* deployment_jobs.state
    attempts,       \* deployment_jobs.attempts
    owner,          \* deployment_jobs.lease_owner
    token,          \* deployment_jobs.claim_token
    lease,          \* deployment_jobs.lease_expires_at against the clock
    active,         \* project_runtimes.active_deployment_id
    candidate,      \* whether Docker holds the containers of a deployment
    pc,             \* where each worker is in run_once
    dep,            \* the deployment of its claim
    tok,            \* the token of its claim, also claim.attempts
    fail,           \* the RuntimeFailure it is handling
    prev,           \* the generation activate() returned as previous
    recovery,       \* the failure of a recovery that it handles, inside the try
    faults          \* crashes and early expiries so far

dbVars == <<status, failure, jobState, attempts, owner, token, lease>>
workerVars == <<pc, dep, tok, fail, prev, recovery>>
runtimeVars == <<active, candidate>>
vars == <<projectStatus, dbVars, runtimeVars, workerVars, faults>>

Stages == {"PREPARING", "BUILDING", "STARTING", "HEALTH_CHECKING", "ACTIVATING"}
Terminal == {"SUCCEEDED", "FAILED"}
Statuses == {"ABSENT", "QUEUED"} \cup Stages \cup Terminal

\* A worker preparing a candidate, from process() up to the gateway switch.
Processing == {"preparing", "reset", "building", "starting", "checking", "activating"}
\* Where the worker renews its claim, or writes under it.
Fencing == Processing \cup {"recovering", "finishing", "rollback", "closing"}
Pcs == Fencing \cup {"idle", "activated", "cleanup"}

TypeOK ==
    /\ projectStatus \in [Project -> {"READY", "DELETING"}]
    /\ status \in [Deployment -> Statuses]
    /\ failure \in [Deployment -> Failures \cup {None}]
    /\ jobState \in [Deployment -> {"ABSENT", "PENDING", "CLAIMED", "DONE"}]
    /\ attempts \in [Deployment -> Nat]
    /\ owner \in [Deployment -> Worker \cup {None}]
    /\ token \in [Deployment -> Nat]
    /\ lease \in [Deployment -> {"none", "live", "expired"}]
    /\ active \in [Project -> Deployment \cup {None}]
    /\ candidate \in [Deployment -> BOOLEAN]
    /\ pc \in [Worker -> Pcs]
    /\ dep \in [Worker -> Deployment \cup {None}]
    /\ tok \in [Worker -> Nat]
    /\ fail \in [Worker -> Failures \cup {None}]
    /\ prev \in [Worker -> Deployment \cup {None}]
    /\ recovery \in [Worker -> {"none", "uncertain", "exhausted", "overruled"}]
    /\ faults \in Nat

Init ==
    /\ projectStatus = [p \in Project |-> "READY"]
    /\ status = [d \in Deployment |-> "ABSENT"]
    /\ failure = [d \in Deployment |-> None]
    /\ jobState = [d \in Deployment |-> "ABSENT"]
    /\ attempts = [d \in Deployment |-> 0]
    /\ owner = [d \in Deployment |-> None]
    /\ token = [d \in Deployment |-> 0]
    /\ lease = [d \in Deployment |-> "none"]
    /\ active = [p \in Project |-> None]
    /\ candidate = [d \in Deployment |-> FALSE]
    /\ pc = [w \in Worker |-> "idle"]
    /\ dep = [w \in Worker |-> None]
    /\ tok = [w \in Worker |-> 0]
    /\ fail = [w \in Worker |-> None]
    /\ prev = [w \in Worker |-> None]
    /\ recovery = [w \in Worker |-> "none"]
    /\ faults = 0

-----------------------------------------------------------------------------
\* State functions.

Open(d) == status[d] \in {"QUEUED"} \cup Stages

\* Mutant: any failed deployment may be reconciled.
UncertainAnyFailure(d) == status[d] = "FAILED"

Uncertain(d) == status[d] = "FAILED" /\ failure[d] = "RECOVERY_STATE_UNCERTAIN"

\* Mutant: the row is found by its deployment alone.
FencedByDeployment(w) == dep[w] # None

\* The row test of _lock_claim and renew, the clock apart: the job is claimed
\* by this worker with this token.
Fenced(w) ==
    /\ dep[w] # None
    /\ jobState[dep[w]] = "CLAIMED"
    /\ owner[dep[w]] = w
    /\ token[dep[w]] = tok[w]

\* Both sample the clock before they wait for the row, so a lease that runs out
\* meanwhile may pass (Fenced) or not (Lapsed); a claim that was taken over never does.
Lapsed(w) == ~Fenced(w) \/ lease[dep[w]] = "expired"

Goto(w, label) == pc' = [pc EXCEPT ![w] = label]

\* run_once returns: the worker drops its claim object.
Return(w) ==
    /\ Goto(w, "idle")
    /\ dep' = [dep EXCEPT ![w] = None]
    /\ tok' = [tok EXCEPT ![w] = 0]
    /\ fail' = [fail EXCEPT ![w] = None]
    /\ prev' = [prev EXCEPT ![w] = None]
    /\ recovery' = [recovery EXCEPT ![w] = "none"]

\* Mutant: cleanup_candidate=False is forgotten.
HandleAlwaysCleans(w, code) ==
    /\ Goto(w, "rollback")
    /\ fail' = [fail EXCEPT ![w] = code]
    /\ UNCHANGED <<dep, tok, prev>>

\* Mutant: stage and code are swapped.
HandleSwapped(w, code) ==
    /\ Goto(w, IF code = "RECOVERY_STATE_UNCERTAIN" THEN "closing" ELSE "rollback")
    /\ fail' = [fail EXCEPT ![w] = "RECOVERY"]
    /\ UNCHANGED <<dep, tok, prev>>

\* _handle_failure(failure) starts; only an uncertain recovery skips the cleanup.
Handle(w, code) ==
    /\ Goto(w, IF code = "RECOVERY_STATE_UNCERTAIN" THEN "closing" ELSE "rollback")
    /\ fail' = [fail EXCEPT ![w] = code]
    /\ UNCHANGED <<dep, tok, prev>>

\* The containers of generation e, if there is one, are removed; Docker commands
\* that fail are ignored, so they may also stay.
Remove(e) ==
    \E left \in BOOLEAN :
        candidate' = [d \in Deployment |-> candidate[d] /\ (d = e => left)]

-----------------------------------------------------------------------------
\* The API.

\* Mutants: without the unique index, and without the test of the project.
CreateUnindexed(d) ==
    /\ status[d] = "ABSENT"
    /\ projectStatus[ProjectOf[d]] # "DELETING"
    /\ status' = [status EXCEPT ![d] = "QUEUED"]
    /\ jobState' = [jobState EXCEPT ![d] = "PENDING"]
    /\ UNCHANGED <<projectStatus, failure, attempts, owner, token, lease, runtimeVars,
                   workerVars, faults>>

CreateWhileDeleting(d) ==
    /\ status[d] = "ABSENT"
    /\ \A e \in Deployment : ProjectOf[e] = ProjectOf[d] => ~Open(e)
    /\ status' = [status EXCEPT ![d] = "QUEUED"]
    /\ jobState' = [jobState EXCEPT ![d] = "PENDING"]
    /\ UNCHANGED <<projectStatus, failure, attempts, owner, token, lease, runtimeVars,
                   workerVars, faults>>

\* repository.create: the project row is locked, so that the status test, the
\* unique index one_active_deployment_per_project and the two inserts are one step.
Create(d) ==
    /\ status[d] = "ABSENT"
    /\ projectStatus[ProjectOf[d]] # "DELETING"
    /\ \A e \in Deployment : ProjectOf[e] = ProjectOf[d] => ~Open(e)
    /\ status' = [status EXCEPT ![d] = "QUEUED"]
    /\ jobState' = [jobState EXCEPT ![d] = "PENDING"]
    /\ UNCHANGED <<projectStatus, failure, attempts, owner, token, lease, runtimeVars,
                   workerVars, faults>>

\* projects/repository.request_deletion: no deployment may be created from here on.
RequestDeletion(p) ==
    /\ projectStatus[p] = "READY"
    /\ projectStatus' = [projectStatus EXCEPT ![p] = "DELETING"]
    /\ UNCHANGED <<dbVars, runtimeVars, workerVars, faults>>

-----------------------------------------------------------------------------
\* The worker: claiming and renewing.

\* Mutant: an expired lease is not taken over.
ClaimablePending(d) == jobState[d] = "PENDING" /\ status[d] \notin Terminal

\* A job that is due, or whose lease ran out, of a deployment that is not settled.
Claimable(d) ==
    /\ \/ jobState[d] = "PENDING"
       \/ jobState[d] = "CLAIMED" /\ lease[d] = "expired"
    /\ status[d] \notin Terminal

\* repository.claim_next and the start of run_once. The fresh uuid4 is stood for
\* by the attempt number it is issued with.
ClaimNext(w, d) ==
    /\ pc[w] = "idle"
    /\ Claimable(d)
    /\ jobState' = [jobState EXCEPT ![d] = "CLAIMED"]
    /\ attempts' = [attempts EXCEPT ![d] = @ + 1]
    /\ owner' = [owner EXCEPT ![d] = w]
    /\ token' = [token EXCEPT ![d] = attempts[d] + 1]
    /\ lease' = [lease EXCEPT ![d] = "live"]
    /\ status' = [status EXCEPT ![d] = "PREPARING"]
    /\ failure' = [failure EXCEPT ![d] = None]
    /\ Goto(w, IF attempts[d] + 1 > 1 THEN "recovering" ELSE "preparing")
    /\ dep' = [dep EXCEPT ![w] = d]
    /\ tok' = [tok EXCEPT ![w] = attempts[d] + 1]
    /\ UNCHANGED <<projectStatus, runtimeVars, fail, prev, recovery, faults>>

\* RuntimeProgress.heartbeat: renew.
Heartbeat(w) ==
    /\ pc[w] \in Fencing \ {"closing"}
    /\ Fenced(w)
    /\ lease' = [lease EXCEPT ![dep[w]] = "live"]
    /\ UNCHANGED <<projectStatus, status, failure, jobState, attempts, owner, token,
                   runtimeVars, workerVars, faults>>

\* DeploymentClaimLostError: run_once and _handle_failure return.
ClaimLost(w) ==
    /\ pc[w] \in Fencing
    /\ Lapsed(w)
    /\ Return(w)
    /\ UNCHANGED <<projectStatus, dbVars, runtimeVars, faults>>

\* The same error inside the try block of gateway.activate is caught there by
\* "except Exception" and comes out as GATEWAY_ACTIVATION_FAILED.
ClaimLostInActivate(w) ==
    /\ pc[w] = "activating"
    /\ Lapsed(w)
    /\ Handle(w, "RUNTIME_FATAL")
    /\ UNCHANGED <<projectStatus, dbVars, runtimeVars, recovery, faults>>

-----------------------------------------------------------------------------
\* The worker: recovery of a claim that is not the first.

\* Mutant: the row is returned after the update.
ActivateRowReturnsNew(w) ==
    /\ active' = [active EXCEPT ![ProjectOf[dep[w]]] = dep[w]]
    /\ prev' = [prev EXCEPT ![w] = dep[w]]

\* repository.activate of the runtime: not fenced by the claim.
ActivateRow(w) ==
    /\ active' = [active EXCEPT ![ProjectOf[dep[w]]] = dep[w]]
    /\ prev' = [prev EXCEPT ![w] = active[ProjectOf[dep[w]]]]

\* Mutant: recovery believes the deployment active without looking.
RecoverActiveBlindly(w) ==
    /\ pc[w] = "recovering"
    /\ Goto(w, "finishing")
    /\ UNCHANGED <<projectStatus, dbVars, runtimeVars, dep, tok, fail, prev, recovery, faults>>

\* The database already names this deployment as active.
RecoverActive(w) ==
    /\ pc[w] = "recovering"
    /\ active[ProjectOf[dep[w]]] = dep[w]
    /\ Goto(w, "finishing")
    /\ UNCHANGED <<projectStatus, dbVars, runtimeVars, dep, tok, fail, prev, recovery, faults>>

\* The gateway serves this deployment and its containers are healthy: finish
\* the activation that an earlier attempt began.
RecoverAdopt(w) ==
    /\ pc[w] = "recovering"
    /\ active[ProjectOf[dep[w]]] # dep[w]
    /\ candidate[dep[w]]
    /\ ActivateRow(w)
    /\ Goto(w, "activated")
    /\ UNCHANGED <<projectStatus, dbVars, candidate, dep, tok, fail, recovery, faults>>

\* Docker or the gateway could not be observed, or serve something unexpected.
RecoverUncertain(w) ==
    /\ pc[w] = "recovering"
    /\ active[ProjectOf[dep[w]]] # dep[w]
    /\ Handle(w, "RECOVERY_STATE_UNCERTAIN")
    /\ recovery' = [recovery EXCEPT ![w] = "uncertain"]
    /\ UNCHANGED <<projectStatus, dbVars, runtimeVars, faults>>

\* The previous generation is served: process again, within the budget.
RecoverSafe(w) ==
    /\ pc[w] = "recovering"
    /\ active[ProjectOf[dep[w]]] # dep[w]
    /\ IF tok[w] > MaxAttempts
         THEN /\ Handle(w, "WORKER_RECOVERY_EXHAUSTED")
              /\ recovery' = [recovery EXCEPT ![w] = "exhausted"]
         ELSE Goto(w, "preparing") /\ UNCHANGED <<dep, tok, fail, prev, recovery>>
    /\ UNCHANGED <<projectStatus, dbVars, runtimeVars, faults>>

-----------------------------------------------------------------------------
\* The worker: processing.

\* start_candidate begins by removing what an earlier attempt left behind. No
\* claim is checked between this and the last heartbeat.
ResetCandidate(w) ==
    /\ pc[w] = "preparing"
    /\ active[ProjectOf[dep[w]]] # dep[w]
    /\ candidate' = [candidate EXCEPT ![dep[w]] = FALSE]
    /\ Goto(w, "reset")
    /\ UNCHANGED <<projectStatus, dbVars, active, dep, tok, fail, prev, recovery, faults>>

\* progress.stage(s): renew, then advance, both fenced.
Stage(w, s) ==
    /\ Fenced(w)
    /\ lease' = [lease EXCEPT ![dep[w]] = "live"]
    /\ status[dep[w]] \notin Terminal
    /\ status' = [status EXCEPT ![dep[w]] = s]
    /\ UNCHANGED <<projectStatus, failure, jobState, attempts, owner, token, active, dep, tok,
                   fail, prev, recovery, faults>>

StageBuilding(w) ==
    /\ pc[w] = "reset"
    /\ Goto(w, "building")
    /\ Stage(w, "BUILDING")
    /\ UNCHANGED candidate

\* The containers are created and started once this stage is recorded.
StageStarting(w) ==
    /\ pc[w] = "building"
    /\ Goto(w, "starting")
    /\ Stage(w, "STARTING")
    /\ candidate' = [candidate EXCEPT ![dep[w]] = TRUE]

StageHealthChecking(w) ==
    /\ pc[w] = "starting"
    /\ Goto(w, "checking")
    /\ Stage(w, "HEALTH_CHECKING")
    /\ UNCHANGED candidate

StageActivating(w) ==
    /\ pc[w] = "checking"
    /\ Goto(w, "activating")
    /\ Stage(w, "ACTIVATING")
    /\ UNCHANGED candidate

\* process() finds the deployment active already and returns.
AlreadyActive(w) ==
    /\ pc[w] = "preparing"
    /\ active[ProjectOf[dep[w]]] = dep[w]
    /\ Goto(w, "finishing")
    /\ Stage(w, "ACTIVATING")
    /\ UNCHANGED candidate

\* gateway.activate: the gateway is switched and probed, then the runtime row is.
Activate(w) ==
    /\ pc[w] = "activating"
    /\ IF active[ProjectOf[dep[w]]] = dep[w]
         THEN Goto(w, "finishing") /\ UNCHANGED <<active, prev>>
         ELSE Goto(w, "activated") /\ ActivateRow(w)
    /\ UNCHANGED <<projectStatus, dbVars, candidate, dep, tok, fail, recovery, faults>>

\* promote_candidate and _retire_previous.
RetirePrevious(w) ==
    /\ pc[w] = "activated"
    /\ Remove(prev[w])
    /\ prev' = [prev EXCEPT ![w] = None]
    /\ Goto(w, "finishing")
    /\ UNCHANGED <<projectStatus, dbVars, active, dep, tok, fail, recovery, faults>>

\* A RuntimeFailure while processing, or any other exception on the way to the end
\* of process and succeed. That the deployment is active already makes no
\* difference to the code.
Fail(w, code) ==
    /\ \/ pc[w] \in Processing /\ code = "RUNTIME_RETRYABLE"
       \/ pc[w] \in Processing \cup {"recovering", "activated", "finishing"}
          /\ code = "RUNTIME_FATAL"
    /\ active[ProjectOf[dep[w]]] = dep[w] => LateErrors
    /\ Handle(w, code)
    /\ UNCHANGED <<projectStatus, dbVars, runtimeVars, recovery, faults>>

-----------------------------------------------------------------------------
\* The worker: finishing, and _handle_failure.

\* Mutant: the job always goes back to the queue.
ReleaseJobPending(d, s) ==
    /\ jobState' = [jobState EXCEPT ![d] = "PENDING"]
    /\ owner' = [owner EXCEPT ![d] = None]
    /\ token' = [token EXCEPT ![d] = 0]
    /\ lease' = [lease EXCEPT ![d] = "none"]
    /\ UNCHANGED attempts

\* _complete_job, and the same reset of the claim in retry.
ReleaseJob(d, s) ==
    /\ jobState' = [jobState EXCEPT ![d] = s]
    /\ owner' = [owner EXCEPT ![d] = None]
    /\ token' = [token EXCEPT ![d] = 0]
    /\ lease' = [lease EXCEPT ![d] = "none"]
    /\ UNCHANGED attempts

Succeed(w) ==
    /\ pc[w] = "finishing"
    /\ Fenced(w)
    /\ status[dep[w]] \notin Terminal
    /\ status' = [status EXCEPT ![dep[w]] = "SUCCEEDED"]
    /\ failure' = [failure EXCEPT ![dep[w]] = None]
    /\ ReleaseJob(dep[w], "DONE")
    /\ Return(w)
    /\ UNCHANGED <<projectStatus, runtimeVars, faults>>

\* rollback_candidate, then record_diagnostics under the claim. When the rollback
\* raises, or the capture or the insert does, the claim is not looked at.
RecordDiagnostics(w) ==
    /\ pc[w] = "rollback"
    /\ Fenced(w)
    /\ Goto(w, "cleanup")
    /\ UNCHANGED <<projectStatus, dbVars, runtimeVars, dep, tok, fail, prev, recovery, faults>>

SkipDiagnostics(w) ==
    /\ pc[w] = "rollback"
    /\ Goto(w, "cleanup")
    /\ UNCHANGED <<projectStatus, dbVars, runtimeVars, dep, tok, fail, prev, recovery, faults>>

\* processor.cleanup_candidate: neither the claim nor the active generation is
\* looked at; a failed Docker command is not noticed, an exception is.
CleanupCandidate(w, code) ==
    /\ pc[w] = "cleanup"
    /\ code \in {fail[w], "CANDIDATE_CLEANUP_FAILED"}
    /\ Remove(dep[w])
    /\ fail' = [fail EXCEPT ![w] = code]
    /\ Goto(w, "closing")
    /\ UNCHANGED <<projectStatus, dbVars, active, dep, tok, prev, recovery, faults>>

\* Mutant: one attempt too many.
MayRetryOnceMore(w) == fail[w] \in Retryable /\ tok[w] <= MaxAttempts

MayRetry(w) == fail[w] \in Retryable /\ tok[w] < MaxAttempts

\* repository.retry: back to the queue with the failure recorded.
RetryJob(w) ==
    /\ pc[w] = "closing"
    /\ MayRetry(w)
    /\ Fenced(w)
    /\ status[dep[w]] \notin Terminal
    /\ status' = [status EXCEPT ![dep[w]] = "QUEUED"]
    /\ failure' = [failure EXCEPT ![dep[w]] = fail[w]]
    /\ ReleaseJob(dep[w], "PENDING")
    /\ Return(w)
    /\ UNCHANGED <<projectStatus, runtimeVars, faults>>

\* repository.fail.
FailJob(w) ==
    /\ pc[w] = "closing"
    /\ ~MayRetry(w)
    /\ Fenced(w)
    /\ status[dep[w]] \notin Terminal
    /\ status' = [status EXCEPT ![dep[w]] = "FAILED"]
    /\ failure' = [failure EXCEPT ![dep[w]] = fail[w]]
    /\ ReleaseJob(dep[w], "DONE")
    /\ Return(w)
    /\ UNCHANGED <<projectStatus, runtimeVars, faults>>

\* The failures of a recovery are handled inside the try of run_once: when retry or
\* fail raises, its "except Exception" handles UNEXPECTED_RUNTIME_FAILURE in their
\* place, and that one cleans up.
HandleAgain(w) ==
    /\ pc[w] = "closing"
    /\ recovery[w] \in {"uncertain", "exhausted"}
    /\ recovery[w] = "uncertain" => LateErrors
    /\ Handle(w, "RUNTIME_FATAL")
    /\ recovery' = [recovery EXCEPT ![w] = IF @ = "uncertain" THEN "overruled" ELSE "none"]
    /\ UNCHANGED <<projectStatus, dbVars, runtimeVars, faults>>

-----------------------------------------------------------------------------
\* The reconciliation of uncertain deployments, in the same worker loop: each
\* of its two outcomes that change anything here, as one step of an idle worker.

\* recover() returns ACTIVE and reconcile_succeeded records it.
ReconcileActive(w, d) ==
    /\ pc[w] = "idle"
    /\ Uncertain(d)
    /\ \/ active[ProjectOf[d]] = d /\ UNCHANGED runtimeVars
       \/ /\ active[ProjectOf[d]] # d
          /\ candidate[d]
          /\ active' = [active EXCEPT ![ProjectOf[d]] = d]
          /\ Remove(active[ProjectOf[d]])
    /\ status' = [status EXCEPT ![d] = "SUCCEEDED"]
    /\ failure' = [failure EXCEPT ![d] = None]
    /\ UNCHANGED <<projectStatus, jobState, attempts, owner, token, lease, workerVars, faults>>

\* cleanup_candidate_verified, which refuses the active generation.
ReconcileCleaned(w, d) ==
    /\ pc[w] = "idle"
    /\ Uncertain(d)
    /\ active[ProjectOf[d]] # d
    /\ candidate' = [candidate EXCEPT ![d] = FALSE]
    /\ UNCHANGED <<projectStatus, dbVars, active, workerVars, faults>>

-----------------------------------------------------------------------------
\* The environment.

\* The process dies, or a database error ends it: one in claim_next, or in retry or
\* fail when the failure is handled outside of the try.
Crash(w) ==
    /\ pc[w] # "idle"
    /\ faults < MaxFaults
    /\ faults' = faults + 1
    /\ Return(w)
    /\ UNCHANGED <<projectStatus, dbVars, runtimeVars>>

\* Somebody still works under the claim.
Held(d) == \E w \in Worker : dep[w] = d /\ Fenced(w)

\* Time passes: an abandoned lease runs out; so does, now and then, the lease of
\* a worker that is late with its heartbeat.
LeaseExpires(d) ==
    /\ lease[d] = "live"
    /\ IF Held(d) THEN faults < MaxFaults /\ faults' = faults + 1 ELSE UNCHANGED faults
    /\ lease' = [lease EXCEPT ![d] = "expired"]
    /\ UNCHANGED <<projectStatus, status, failure, jobState, attempts, owner, token,
                   runtimeVars, workerVars>>

-----------------------------------------------------------------------------
WorkerStep(w) ==
    \/ \E d \in Deployment : ClaimNext(w, d)
    \/ Heartbeat(w)
    \/ ClaimLost(w)
    \/ ClaimLostInActivate(w)
    \/ RecoverActive(w)
    \/ RecoverAdopt(w)
    \/ RecoverUncertain(w)
    \/ RecoverSafe(w)
    \/ ResetCandidate(w)
    \/ StageBuilding(w)
    \/ StageStarting(w)
    \/ StageHealthChecking(w)
    \/ StageActivating(w)
    \/ AlreadyActive(w)
    \/ Activate(w)
    \/ RetirePrevious(w)
    \/ \E code \in Failures : Fail(w, code)
    \/ Succeed(w)
    \/ RecordDiagnostics(w)
    \/ SkipDiagnostics(w)
    \/ \E code \in Failures : CleanupCandidate(w, code)
    \/ RetryJob(w)
    \/ FailJob(w)
    \/ HandleAgain(w)

Next ==
    \/ \E d \in Deployment : Create(d)
    \/ \E p \in Project : RequestDeletion(p)
    \/ \E w \in Worker : WorkerStep(w)
    \/ \E w \in Worker, d \in Deployment : ReconcileActive(w, d)
    \/ \E w \in Worker, d \in Deployment : ReconcileCleaned(w, d)
    \/ \E w \in Worker : Crash(w)
    \/ \E d \in Deployment : LeaseExpires(d)

Spec == Init /\ [][Next]_vars

\* Every command and probe a worker waits for has a timeout, a worker process is
\* restarted, and time passes. Nothing obliges an administrator or a fault.
Fairness ==
    /\ \A w \in Worker : WF_vars(WorkerStep(w))
    /\ \A d \in Deployment : WF_vars(~Held(d) /\ LeaseExpires(d))

FairSpec == Spec /\ Fairness

-----------------------------------------------------------------------------
\* Properties.

\* The two tables agree: a job is pending, claimed or done exactly while its
\* deployment is queued, in a stage, or settled. claim_next, retry, succeed and
\* fail write both in one transaction, and claim_next relies on it.
JobAgreesWithStatus ==
    \A d \in Deployment :
        /\ jobState[d] = "ABSENT" <=> status[d] = "ABSENT"
        /\ jobState[d] = "PENDING" <=> status[d] = "QUEUED"
        /\ jobState[d] = "CLAIMED" <=> status[d] \in Stages
        /\ jobState[d] = "DONE" <=> status[d] \in Terminal

\* A project has at most one deployment that is not settled, whatever retries,
\* take-overs and reconciliations do to the settled ones.
OneActivePerProject ==
    \A d, e \in Deployment :
        ProjectOf[d] = ProjectOf[e] /\ Open(d) /\ Open(e) => d = e

\* Only crashes and late heartbeats can push a job beyond its retry budget: each
\* of them costs at most one attempt more than max_attempts.
AttemptsWithinBudget ==
    \A d \in Deployment : attempts[d] <= MaxAttempts + faults

\* A claimed deployment changes its status by a new claim, or by a step of the
\* worker that made the latest claim: an overtaken worker never writes it.
OnlyTheHolderDecides ==
    [][\A d \in Deployment :
          jobState[d] = "CLAIMED" /\ status'[d] # status[d] =>
             \/ attempts'[d] > attempts[d]
             \/ \E w \in Worker : dep[w] = d /\ tok[w] = attempts[d] /\ pc'[w] # pc[w]]_vars

\* A settled deployment stays as it is, except that one left uncertain becomes
\* SUCCEEDED when it turns out to be the active one.
TerminalIsFinal ==
    [][\A d \in Deployment :
          status[d] \in Terminal /\ status'[d] # status[d] =>
             /\ status[d] = "FAILED"
             /\ failure[d] = "RECOVERY_STATE_UNCERTAIN"
             /\ status'[d] = "SUCCEEDED"
             /\ active'[ProjectOf[d]] = d]_vars

\* Once a project is being deleted and has no open deployment, it never has one
\* again: the deletion worker waits for exactly this before it removes anything.
DrainedStaysDrained ==
    [][\A p \in Project :
          /\ projectStatus[p] = "DELETING"
          /\ \A d \in Deployment : ProjectOf[d] = p => ~Open(d)
          => \A d \in Deployment : ProjectOf[d] = p => ~Open(d)']_vars

\* What the queue promises, read off its tables.
Phase(d) ==
    IF Uncertain(d) THEN "uncertain"
    ELSE IF Open(d) THEN IF status[d] = "QUEUED" THEN "queued" ELSE "running"
    ELSE IF status[d] = "ABSENT" THEN "absent"
    ELSE IF status[d] = "SUCCEEDED" THEN "succeeded" ELSE "failed"

PhaseMap == [d \in Deployment |-> Phase(d)]
AcceptingMap == [p \in Project |-> projectStatus[p] = "READY"]

Lifecycle == INSTANCE DeploymentLifecycle WITH phase <- PhaseMap, accepting <- AcceptingMap

\* The queue, its workers and their failures implement the abstract lifecycle.
ImplementsLifecycle == Lifecycle!LifecycleSpec

\* A deployment becomes SUCCEEDED only while project_runtimes names it active.
SuccessIsActive ==
    [][\A d \in Deployment :
          status[d] # "SUCCEEDED" /\ status'[d] = "SUCCEEDED" => active'[ProjectOf[d]] = d]_vars

\* The generation that project_runtimes names active has its containers.
ActiveGenerationExists ==
    \A p \in Project : active[p] # None => candidate[active[p]]

\* Once a deployment of a project has succeeded, some generation of it is there to
\* be served, however the later deployments end.
PreviewSurvivesFailure ==
    \A p \in Project :
        (\E d \in Deployment : ProjectOf[d] = p /\ status[d] = "SUCCEEDED") =>
            \E e \in Deployment : ProjectOf[e] = p /\ candidate[e]

\* From the moment a recovery is found uncertain until the next claim, only a
\* reconciliation, which touches no claim, removes the containers, whatever becomes
\* of the failure that is to be recorded.
UncertainIsPreserved ==
    [][\A d \in Deployment :
          candidate[d] /\ ~candidate'[d] =>
             /\ failure[d] = "RECOVERY_STATE_UNCERTAIN" => UNCHANGED workerVars
             /\ \A w \in Worker : dep[w] = d => recovery[w] \notin {"uncertain", "overruled"}]_vars

\* Every requested deployment is settled, with finitely many faults.
EverySettles ==
    \A d \in Deployment : status[d] = "QUEUED" ~> status[d] \in Terminal
=============================================================================
