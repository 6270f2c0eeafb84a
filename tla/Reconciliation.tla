--------------------------- MODULE Reconciliation ---------------------------
(* The reconciliation of one deployment whose recovery was uncertain, the   *)
(* target: its row of runtime_reconciliations                               *)
(* (runtime/reconciliation_repository.py), the requests of the              *)
(* administrator (reconciliation_service.py), the workers that claim it     *)
(* (reconciliation_worker.py) and what they do to the gateway, to Docker    *)
(* and to the deployment (runtime/gateway.py, runtime/service.py,           *)
(* runtime/docker.py). A newer deployment of the project may be processed   *)
(* at any time, and the project may be deleted.                             *)
(*                                                                          *)
(* One action per transaction, command or group of commands that a lost     *)
(* claim cannot interrupt. A claim token is the worker that holds it; a     *)
(* claim whose lease ran out has no holder. available_at is left out, a     *)
(* pending reconciliation may be claimed at any time. The containers,       *)
(* networks and images of a generation are one thing, the networks of the   *)
(* gateway are left out (module Gateway has them), and the newer deployment *)
(* is processed without a crash (DeploymentJobs and Gateway have those).    *)
EXTENDS Naturals, FiniteSets

CONSTANTS
    Worker,         \* worker processes
    None,           \* no generation (the default configuration), no holder, no result
    Active,         \* the generation that is active at first: "older", or None
    MaxAttempts,    \* worker_max_attempts
    MaxRequests,    \* bound: requests of the administrator
    MaxFaults       \* bound: crashes, late heartbeats, failing commands

VARIABLES
    project,    \* projects.status
    status,     \* of the target: FAILED with RECOVERY_STATE_UNCERTAIN, or SUCCEEDED
    newer,      \* the newer deployment: not there, QUEUED, open or settled
    rec, holder,            \* runtime_reconciliations
    active,                 \* project_runtimes.active_deployment_id
    file, lastGood,         \* current.conf and last-good.config
    gateway, loaded,        \* the gateway container and the configuration it runs, if it is up
    containers,             \* the generations whose containers exist
    admin,      \* where the thread of the administrator's request is
    at,         \* where a worker is
    claim,      \* the reconciliation it has claimed
    previous,   \* the generation that activate() returned to it
    requests, faults,
    overlapped  \* two workers have been at work on the project at the same time

recVars == <<rec, holder>>
gatewayVars == <<file, lastGood, gateway, loaded>>
othersVars == <<project, newer, admin, requests>>
workerVars == <<at, claim, previous>>
vars == <<status, active, containers, recVars, gatewayVars, othersVars, workerVars, faults,
          overlapped>>

Target == "target"
Generation == {"older", Target, "newer"}
Actions == {"RECONCILE", "FORCE_CLEANUP"}
Outcome == {"ACTIVE", "CLEANED", "UNCERTAIN"}
NoClaim == [action |-> "RECONCILE", attempts |-> 0]
Attempts == 0..(MaxAttempts + MaxFaults + 1)

(* Labels at which the next thing is a heartbeat, a command with one, or a  *)
(* write that is fenced by the claim.                                       *)
Fenced == {"recover", "inspect", "observe", "confirm", "succeed", "captured", "rolledBack",
           "resources", "verify", "active", "cleaned", "block", "failed"}
Unfenced == {"restore", "adopt", "files", "retire", "record", "capture", "cleanup", "remove"}
Deploying == {"build", "activate"}

ASSUME ReconciliationAssumption ==
    /\ None \notin Worker \cup Generation \cup Outcome /\ Active \in {"older", None}
    /\ MaxAttempts \in Nat \ {0} /\ MaxRequests \in Nat /\ MaxFaults \in Nat

TypeOK ==
    /\ project \in {"READY", "DELETING"} /\ status \in {"UNCERTAIN", "SUCCEEDED"}
    /\ newer \in {"ABSENT", "QUEUED", "OPEN", "SETTLED"}
    /\ rec \in [state : {"NONE", "PENDING", "CLAIMED", "RESOLVED", "BLOCKED"},
                action : Actions, attempts : Attempts, result : Outcome \cup {None}]
    /\ rec.result # None <=> rec.state \in {"RESOLVED", "BLOCKED"}
    /\ holder \in Worker \cup {None}
    /\ {active, file, lastGood, loaded} \subseteq Generation \cup {None}
    /\ gateway \in {"up", "down", "absent"} /\ (gateway # "up" => loaded = None)
    /\ containers \subseteq Generation
    /\ admin \in {"idle"} \cup Actions
    /\ at \in [Worker -> {"idle"} \cup Fenced \cup Unfenced \cup Deploying]
    /\ claim \in [Worker -> [action : Actions, attempts : Attempts]]
    /\ previous \in [Worker -> Generation \cup {None}]
    /\ requests \in 0..MaxRequests /\ faults \in 0..MaxFaults
    /\ overlapped \in BOOLEAN

(* A recovery was uncertain: the target may have been switched to or not,   *)
(* and the gateway answers, does not, or is gone.                           *)
Init ==
    /\ project = "READY" /\ status = "UNCERTAIN" /\ newer = "ABSENT"
    /\ rec = [state |-> "NONE", action |-> "RECONCILE", attempts |-> 0, result |-> None]
    /\ holder = None
    /\ active = Active
    /\ containers = {Target, active} \ {None}
    /\ lastGood = active
    /\ file \in {active, Target}
    /\ gateway \in {"up", "down", "absent"}
    /\ loaded \in IF gateway = "up" THEN {active, file} ELSE {None}
    /\ admin = "idle"
    /\ at = [w \in Worker |-> "idle"]
    /\ claim = [w \in Worker |-> NoClaim]
    /\ previous = [w \in Worker |-> None]
    /\ requests = 0 /\ faults = 0 /\ overlapped = FALSE

Fault == faults < MaxFaults /\ faults' = faults + 1
To(w, label) == at' = [at EXCEPT ![w] = label]

-----------------------------------------------------------------------------
(* Requests, scheduling and the claim *)

(* The service reads the deployment in one transaction and records the      *)
(* request in another.                                                      *)
RequestChecked ==
    /\ admin = "idle" /\ requests < MaxRequests
    /\ status = "UNCERTAIN"
    /\ requests' = requests + 1
    /\ admin' \in Actions
    /\ UNCHANGED <<status, active, containers, recVars, gatewayVars, project, newer, workerVars, faults>>

RequestRecorded ==
    /\ admin # "idle"
    /\ admin' = "idle"
    /\ IF project = "READY" /\ rec.state # "CLAIMED"
       THEN /\ rec' = [state |-> "PENDING", action |-> admin, attempts |-> 0, result |-> None]
            /\ holder' = None
       ELSE UNCHANGED recVars
    /\ UNCHANGED <<status, active, containers, gatewayVars, project, newer, requests, workerVars, faults>>

(* schedule_automatic, at the beginning of a worker's idle cycle *)
ScheduleAutomaticAnyProject(w) ==
    /\ at[w] = "idle"
    /\ status = "UNCERTAIN" /\ rec.state = "NONE"
    /\ rec' = [rec EXCEPT !.state = "PENDING"]
    /\ UNCHANGED <<status, active, containers, holder, gatewayVars, othersVars, workerVars, faults>>
ScheduleAutomatic(w) ==
    /\ at[w] = "idle"
    /\ status = "UNCERTAIN" /\ rec.state = "NONE" /\ project = "READY"
    /\ rec' = [rec EXCEPT !.state = "PENDING"]
    /\ UNCHANGED <<status, active, containers, holder, gatewayVars, othersVars, workerVars, faults>>

ClaimablePending == rec.state = "PENDING"
Claimable == \/ rec.state = "PENDING"
             \/ rec.state = "CLAIMED" /\ holder = None

(* A worker turns to reconciliations when no deployment can be claimed. *)
ClaimNext(w) ==
    /\ at[w] = "idle" /\ newer # "QUEUED"
    /\ Claimable
    /\ rec' = [rec EXCEPT !.state = "CLAIMED", !.attempts = @ + 1]
    /\ holder' = w
    /\ claim' = [claim EXCEPT ![w] = [action |-> rec.action, attempts |-> rec'.attempts]]
    /\ To(w, IF rec'.attempts > MaxAttempts THEN "block" ELSE "recover")
    /\ UNCHANGED <<status, active, containers, gatewayVars, othersVars, previous, faults>>

HoldsAnyClaim(w) == rec.state = "CLAIMED"
Holds(w) == rec.state = "CLAIMED" /\ holder = w

(* run_once returns *)
Leave(w) ==
    /\ To(w, "idle")
    /\ claim' = [claim EXCEPT ![w] = NoClaim]
    /\ previous' = [previous EXCEPT ![w] = None]
    /\ UNCHANGED <<status, active, containers, gatewayVars, othersVars>>

ClaimLost(w) ==
    /\ at[w] \in Fenced /\ ~Holds(w)
    /\ Leave(w)
    /\ UNCHANGED <<recVars, faults>>

(* resolve, block and retry, each of them fenced *)
Finish(w, state, result) ==
    /\ Holds(w)
    /\ rec' = [rec EXCEPT !.state = state, !.result = result]
    /\ holder' = None
    /\ Leave(w)
    /\ UNCHANGED faults

ResolveActive(w) == at[w] = "active" /\ Finish(w, "RESOLVED", "ACTIVE")
ResolveCleaned(w) == at[w] = "cleaned" /\ Finish(w, "RESOLVED", "CLEANED")
Block(w) == at[w] = "block" /\ Finish(w, "BLOCKED", "UNCERTAIN")
HandleFailure(w) ==
    /\ at[w] = "failed"
    /\ IF claim[w].attempts < MaxAttempts THEN Finish(w, "PENDING", None)
                                          ELSE Finish(w, "BLOCKED", "UNCERTAIN")

-----------------------------------------------------------------------------
(* recover() *)

(* Only where the worker is changes. *)
Only(w, label) ==
    /\ To(w, label)
    /\ UNCHANGED <<status, active, containers, recVars, gatewayVars, othersVars, claim, previous>>

(* SAFE_TO_RETRY goes on to the cleanup, UNCERTAIN only if it is forced *)
Uncertain(w) == IF claim[w].action = "FORCE_CLEANUP" THEN "capture" ELSE "block"

RecoverActiveBlindly(w) == active # None
RecoverActive(w) == active = Target

Recover(w) ==
    /\ at[w] = "recover" /\ Holds(w)
    /\ Only(w, IF RecoverActive(w) THEN "succeed" ELSE "inspect")
    /\ UNCHANGED faults

(* The file names the target: the last good one takes its place. *)
RestoredFile == IF file = Target THEN lastGood ELSE file

(* A return code that is neither zero nor a timeout counts as a gateway     *)
(* that is not there, also if it is Docker that did not answer.             *)
InspectGateway(w) ==
    /\ at[w] = "inspect" /\ Holds(w)
    /\ \/ gateway # "absent" /\ Only(w, "observe") /\ UNCHANGED faults
       \/ Fault /\ Only(w, Uncertain(w))
       \/ /\ \/ gateway = "absent" /\ UNCHANGED faults
             \/ gateway # "absent" /\ Fault
          /\ file' = RestoredFile
          /\ To(w, "capture")
          /\ UNCHANGED <<status, active, containers, recVars, lastGood, gateway, loaded,
                         othersVars, claim, previous>>

(* _matches_previous_generation of an answer that names what is loaded *)
MatchesPrevious == \/ loaded = active
                   \/ loaded = None /\ lastGood = active

(* The port, the answer of the gateway and, if it is the target that        *)
(* answers, its containers, health and routes                               *)
Observe(w) ==
    /\ at[w] = "observe" /\ Holds(w)
    /\ \/ gateway # "up" /\ Only(w, Uncertain(w)) /\ UNCHANGED faults
       \/ gateway = "up" /\ loaded = Target /\ Target \in containers /\ Only(w, "adopt") /\ UNCHANGED faults
       \/ gateway = "up" /\ loaded = Target /\ Target \notin containers /\ Only(w, "restore") /\ UNCHANGED faults
       \/ gateway = "up" /\ loaded = Target /\ Fault /\ Only(w, "restore")
       \/ /\ gateway = "up" /\ loaded # Target
          /\ Only(w, IF MatchesPrevious THEN "restore" ELSE Uncertain(w)) /\ UNCHANGED faults

(* _restore_previous_generation: file, reload, a second look *)
Restore(w) ==
    /\ at[w] = "restore"
    /\ file' = RestoredFile
    /\ \/ /\ loaded' = IF file = Target /\ gateway = "up" THEN lastGood ELSE loaded
          /\ To(w, "confirm") /\ UNCHANGED faults
       \/ file = Target /\ Fault /\ To(w, Uncertain(w)) /\ UNCHANGED loaded
    /\ UNCHANGED <<status, active, containers, recVars, lastGood, gateway, othersVars, claim, previous>>

Confirm(w) ==
    /\ at[w] = "confirm" /\ Holds(w)
    /\ Only(w, IF gateway = "up" /\ MatchesPrevious THEN "capture" ELSE Uncertain(w))
    /\ UNCHANGED faults

(* The target is served: the row, the files, the generation before it *)
AdoptKeeping(w) ==
    /\ at[w] = "adopt"
    /\ active' = Target /\ previous' = [previous EXCEPT ![w] = active']
    /\ To(w, "files")
    /\ UNCHANGED <<status, containers, recVars, gatewayVars, othersVars, claim, faults>>
Adopt(w) ==
    /\ at[w] = "adopt"
    /\ active' = Target /\ previous' = [previous EXCEPT ![w] = active]
    /\ To(w, "files")
    /\ UNCHANGED <<status, containers, recVars, gatewayVars, othersVars, claim, faults>>

AdoptFiles(w) ==
    /\ at[w] = "files"
    /\ file' = Target /\ lastGood' = Target
    /\ To(w, "retire")
    /\ UNCHANGED <<status, active, containers, recVars, gateway, loaded, othersVars, claim,
                   previous, faults>>

Retire(w) ==
    /\ at[w] = "retire"
    /\ containers' = containers \ {previous[w]} /\ previous' = [previous EXCEPT ![w] = None]
    /\ To(w, "succeed")
    /\ UNCHANGED <<status, active, recVars, gatewayVars, othersVars, claim, faults>>

(* The heartbeat, then reconcile_succeeded, which no claim fences *)
Succeed(w) == at[w] = "succeed" /\ Holds(w) /\ Only(w, "record") /\ UNCHANGED faults

ReconcileSucceeded(w) ==
    /\ at[w] = "record"
    /\ status' = "SUCCEEDED"
    /\ To(w, "active")
    /\ UNCHANGED <<active, containers, recVars, gatewayVars, othersVars, claim, previous, faults>>

-----------------------------------------------------------------------------
(* The cleanup *)

(* rollback_candidate: the file, and a reload whose result is ignored *)
Rollback ==
    /\ file' = RestoredFile
    /\ \/ loaded' = (IF file = Target /\ gateway = "up" THEN lastGood ELSE loaded) /\ UNCHANGED faults
       \/ file = Target /\ gateway = "up" /\ Fault /\ UNCHANGED loaded
    /\ UNCHANGED <<lastGood, gateway>>

(* _capture_before_cleanup: prepare_reconciliation_cleanup, the logs. Its   *)
(* refusal of the active generation is one of the errors that are ignored.  *)
Capture(w) ==
    /\ at[w] = "capture"
    /\ IF active = Target THEN To(w, "cleanup") /\ UNCHANGED <<gatewayVars, faults>>
                          ELSE To(w, "captured") /\ Rollback
    /\ UNCHANGED <<status, active, containers, recVars, othersVars, claim, previous>>

Captured(w) == at[w] = "captured" /\ Holds(w) /\ Only(w, "cleanup") /\ UNCHANGED faults

(* cleanup_candidate_verified refuses what the row names active. *)
Cleanup(w) ==
    /\ at[w] = "cleanup"
    /\ IF active = Target THEN To(w, "block") /\ UNCHANGED <<gatewayVars, faults>>
                          ELSE To(w, "rolledBack") /\ Rollback
    /\ UNCHANGED <<status, active, containers, recVars, othersVars, claim, previous>>

RolledBack(w) == at[w] = "rolledBack" /\ Holds(w) /\ Only(w, "resources") /\ UNCHANGED faults

(* What is there is removed, once. A timeout is a failure that is retried;  *)
(* any other return code means that nothing is there.                       *)
Resources(w) ==
    /\ at[w] = "resources" /\ Holds(w)
    /\ \/ Only(w, IF Target \in containers THEN "remove" ELSE "verify") /\ UNCHANGED faults
       \/ Fault /\ (Only(w, "failed") \/ Only(w, "verify"))

Remove(w) ==
    /\ at[w] = "remove"
    /\ \/ containers' = containers \ {Target} /\ UNCHANGED faults
       \/ Fault /\ UNCHANGED containers
    /\ To(w, "verify")
    /\ UNCHANGED <<status, active, recVars, gatewayVars, othersVars, claim, previous>>

Verify(w) ==
    /\ at[w] = "verify" /\ Holds(w)
    /\ \/ Only(w, IF Target \in containers THEN "failed" ELSE "cleaned") /\ UNCHANGED faults
       \/ Fault /\ (Only(w, "failed") \/ Only(w, "cleaned"))

-----------------------------------------------------------------------------
(* The newer deployment, on the same workers *)

CreateNewer ==
    /\ project = "READY" /\ newer = "ABSENT"
    /\ newer' = "QUEUED"
    /\ UNCHANGED <<status, active, containers, recVars, gatewayVars, project, admin, requests,
                   workerVars, faults>>

ClaimNewer(w) ==
    /\ at[w] = "idle" /\ newer = "QUEUED"
    /\ newer' = "OPEN"
    /\ To(w, "build")
    /\ UNCHANGED <<status, active, containers, recVars, gatewayVars, project, admin, requests,
                   claim, previous, faults>>

(* It fails and is cleaned up, or its containers are healthy and the gateway *)
(* serves them.                                                             *)
BuildNewerFails(w) ==
    /\ at[w] = "build"
    /\ newer' = "SETTLED"
    /\ To(w, "idle")
    /\ UNCHANGED <<status, active, containers, recVars, gatewayVars, project, admin, requests,
                   claim, previous, faults>>

SwitchToNewer(w) ==
    /\ at[w] = "build"
    /\ containers' = containers \cup {"newer"}
    /\ gateway' = "up" /\ file' = "newer" /\ loaded' = "newer"
    /\ To(w, "activate")
    /\ UNCHANGED <<status, active, recVars, lastGood, othersVars, claim, previous, faults>>

ActivateNewer(w) ==
    /\ at[w] = "activate"
    /\ active' = "newer" /\ lastGood' = "newer"
    /\ containers' = containers \ {active}
    /\ newer' = "SETTLED"
    /\ To(w, "idle")
    /\ UNCHANGED <<status, recVars, file, gateway, loaded, project, admin, requests, claim,
                   previous, faults>>

-----------------------------------------------------------------------------
(* The environment *)

RequestDeletion ==
    /\ project = "READY"
    /\ project' = "DELETING"
    /\ UNCHANGED <<status, active, containers, recVars, gatewayVars, newer, admin, requests,
                   workerVars, faults>>

(* The gateway stops or is started again, with the file that is there. *)
GatewayStops ==
    /\ gateway = "up" /\ Fault
    /\ gateway' = "down" /\ loaded' = None
    /\ UNCHANGED <<status, active, containers, recVars, file, lastGood, othersVars, workerVars>>
GatewayStarts ==
    /\ gateway = "down"
    /\ gateway' = "up" /\ loaded' = file
    /\ UNCHANGED <<status, active, containers, recVars, file, lastGood, othersVars, workerVars, faults>>

(* except Exception: the database or the file system fails *)
UnexpectedError(w) ==
    /\ at[w] \in (Fenced \ {"block", "failed"}) \cup Unfenced
    /\ Fault
    /\ Only(w, "failed")

Crash(w) ==
    /\ at[w] \in Fenced \cup Unfenced
    /\ Fault
    /\ Leave(w)
    /\ UNCHANGED recVars

LeaseRunsOut ==
    /\ holder # None /\ holder' = None
    /\ UNCHANGED <<status, active, containers, rec, gatewayVars, othersVars, workerVars>>
Abandoned == holder # None /\ at[holder] = "idle"
LeaseExpires == Abandoned /\ LeaseRunsOut /\ UNCHANGED faults
LeaseExpiresUnderWorker == ~Abandoned /\ Fault /\ LeaseRunsOut

WorkerStep(w) ==
    \/ ClaimNext(w) \/ ClaimLost(w)
    \/ Recover(w) \/ InspectGateway(w) \/ Observe(w) \/ Restore(w) \/ Confirm(w)
    \/ Adopt(w) \/ AdoptFiles(w) \/ Retire(w) \/ Succeed(w) \/ ReconcileSucceeded(w)
    \/ Capture(w) \/ Captured(w) \/ Cleanup(w) \/ RolledBack(w) \/ Resources(w) \/ Remove(w) \/ Verify(w)
    \/ ResolveActive(w) \/ ResolveCleaned(w) \/ Block(w) \/ HandleFailure(w)
    \/ ClaimNewer(w) \/ BuildNewerFails(w) \/ SwitchToNewer(w) \/ ActivateNewer(w)

Remember == overlapped' = (overlapped \/ Cardinality({w \in Worker : at'[w] # "idle"}) > 1)

Next ==
    /\ \/ RequestChecked \/ RequestRecorded \/ CreateNewer \/ RequestDeletion
       \/ GatewayStops \/ GatewayStarts
       \/ \E w \in Worker : WorkerStep(w) \/ ScheduleAutomatic(w) \/ UnexpectedError(w) \/ Crash(w)
       \/ LeaseExpires \/ LeaseExpiresUnderWorker
    /\ Remember

Spec == Init /\ [][Next]_vars

(* Commands and probes have a timeout, a worker process is restarted and    *)
(* time passes. Nothing obliges the administrator or an operator.           *)
FairSpec ==
    /\ Spec
    /\ \A w \in Worker : WF_vars(WorkerStep(w) /\ Remember)
    /\ WF_vars(LeaseExpires /\ Remember)

-----------------------------------------------------------------------------
(* As long as one worker at a time is at work on the project, whatever      *)
(* stops it and whoever asks, the generation that the row names active has  *)
(* its containers: the target is not adopted and cleaned up, and no other   *)
(* generation is retired in its place.                                      *)
ActiveGenerationExists == ~overlapped /\ active # None => active \in containers

(* The variables have their types, and the outcome that is recorded is what *)
(* happened: a target that SUCCEEDED was active, and is unless the newer    *)
(* deployment took its place; ACTIVE says that it SUCCEEDED, CLEANED that   *)
(* it is not the active generation.                                         *)
OutcomeIsTrue ==
    /\ TypeOK
    /\ rec.result = "ACTIVE" => status = "SUCCEEDED"
    /\ ~overlapped /\ status = "SUCCEEDED" => active \in {Target, "newer"}
    /\ ~overlapped /\ rec.result = "CLEANED" => active # Target

(* A reconciliation is finished by its latest claim, for the action that is *)
(* requested now: a worker that lost its claim decides nothing, also when   *)
(* the administrator has meanwhile asked for something else.                *)
FinishedByLatestClaim ==
    [][rec.state = "CLAIMED" /\ rec'.state # "CLAIMED"
       => \E w \in Worker : /\ at[w] \in Fenced /\ at'[w] = "idle" /\ holder = w
                            /\ claim[w] = [action |-> rec.action, attempts |-> rec.attempts]]_vars

(* A project that is being deleted and has no reconciliation at work never  *)
(* has one again: the deletion worker looks only once.                      *)
AtWork == rec.state \in {"PENDING", "CLAIMED"}
DrainedStaysDrained == [][project = "DELETING" /\ ~AtWork => ~AtWork']_vars

(* Every requested reconciliation ends, RESOLVED or BLOCKED, in spite of    *)
(* crashes and failing commands.                                            *)
ReconciliationEnds == AtWork ~> ~AtWork
=============================================================================
