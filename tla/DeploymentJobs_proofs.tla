------------------------ MODULE DeploymentJobs_proofs -----------------------
(* What holds of the deployment queue for any number of deployments,        *)
(* projects and workers, any retry budget and any number of faults: its     *)
(* types, the agreement of its two tables, the refinement of                *)
(* DeploymentLifecycle, the claims; and, with one worker, what the row of a *)
(* project says of the containers of its generations.                       *)
EXTENDS DeploymentJobs, TLAPS

-----------------------------------------------------------------------------
\* Types.

\* A worker has a claim object exactly while it is inside run_once.
ClaimHeld == \A w \in Worker : pc[w] # "idle" => dep[w] \in Deployment

\* What the type of every variable rests on.
TypeInv == TypeOK /\ ClaimHeld

-----------------------------------------------------------------------------
\* Init establishes the types.
LEMMA InitTypeInv == Init => TypeInv
BY JobsAssumption DEF Init, TypeInv, TypeOK, ClaimHeld, Statuses, Pcs

\* Handle and Return keep the worker's variables well-typed.
LEMMA HandleType ==
    ASSUME TypeInv, NEW w \in Worker, NEW code \in Failures, pc[w] # "idle", Handle(w, code)
    PROVE  /\ pc' \in [Worker -> Pcs]
           /\ dep' \in [Worker -> Deployment \cup {None}]
           /\ tok' \in [Worker -> Nat]
           /\ fail' \in [Worker -> Failures \cup {None}]
           /\ prev' \in [Worker -> Deployment \cup {None}]
           /\ ClaimHeld'
BY DEF TypeInv, TypeOK, ClaimHeld, Handle, Goto, Pcs, Fencing

LEMMA ReturnType ==
    ASSUME TypeInv, NEW w \in Worker, Return(w)
    PROVE  /\ pc' \in [Worker -> Pcs]
           /\ dep' \in [Worker -> Deployment \cup {None}]
           /\ tok' \in [Worker -> Nat]
           /\ fail' \in [Worker -> Failures \cup {None}]
           /\ prev' \in [Worker -> Deployment \cup {None}]
           /\ recovery' \in [Worker -> {"none", "uncertain", "exhausted", "overruled"}]
           /\ ClaimHeld'
BY DEF TypeInv, TypeOK, ClaimHeld, Return, Goto, Pcs

\* A move to another label inside run_once.
LEMMA GotoType ==
    ASSUME TypeInv, NEW w \in Worker, NEW label \in Pcs, pc[w] # "idle", Goto(w, label),
           UNCHANGED dep
    PROVE  pc' \in [Worker -> Pcs] /\ ClaimHeld'
BY DEF TypeInv, TypeOK, ClaimHeld, Goto

LEMMA StageType ==
    ASSUME TypeInv, NEW w \in Worker, NEW s \in Stages, NEW label \in Pcs, pc[w] # "idle",
           Goto(w, label), Stage(w, s), candidate' \in [Deployment -> BOOLEAN]
    PROVE  TypeInv'
<1>1. dep[w] \in Deployment
  BY DEF TypeInv, ClaimHeld
<1>2. pc' \in [Worker -> Pcs] /\ ClaimHeld'
  BY GotoType DEF Stage
<1>3. status' \in [Deployment -> Statuses] /\ lease' \in [Deployment -> {"none", "live", "expired"}]
  BY <1>1 DEF TypeInv, TypeOK, Stage, Statuses
<1> QED
  BY <1>2, <1>3 DEF TypeInv, TypeOK, Stage

LEMMA ReleaseJobType ==
    ASSUME TypeInv, NEW d \in Deployment, NEW s \in {"PENDING", "DONE"}, ReleaseJob(d, s)
    PROVE  /\ jobState' \in [Deployment -> {"ABSENT", "PENDING", "CLAIMED", "DONE"}]
           /\ attempts' \in [Deployment -> Nat]
           /\ owner' \in [Deployment -> Worker \cup {None}]
           /\ token' \in [Deployment -> Nat]
           /\ lease' \in [Deployment -> {"none", "live", "expired"}]
BY DEF TypeInv, TypeOK, ReleaseJob

LEMMA RemoveType ==
    ASSUME TypeInv, NEW e, Remove(e)
    PROVE  candidate' \in [Deployment -> BOOLEAN]
<1>1. PICK left \in BOOLEAN :
         candidate' = [d \in Deployment |-> candidate[d] /\ (d = e => left)]
  BY DEF Remove
<1> QED
  BY <1>1 DEF TypeInv, TypeOK

-----------------------------------------------------------------------------
\* Every step of a worker keeps the types.
LEMMA WorkerStepTypeInv ==
    ASSUME TypeInv, NEW w \in Worker, WorkerStep(w)
    PROVE  TypeInv'
<1> USE JobsAssumption
<1>0. pc[w] # "idle" => dep[w] \in Deployment
  BY DEF TypeInv, ClaimHeld
<1>1. CASE \E d \in Deployment : ClaimNext(w, d)
  <2>1. PICK d \in Deployment : ClaimNext(w, d)
    BY <1>1
  <2>2. /\ jobState' \in [Deployment -> {"ABSENT", "PENDING", "CLAIMED", "DONE"}]
        /\ attempts' \in [Deployment -> Nat]
        /\ owner' \in [Deployment -> Worker \cup {None}]
        /\ token' \in [Deployment -> Nat]
        /\ lease' \in [Deployment -> {"none", "live", "expired"}]
        /\ status' \in [Deployment -> Statuses]
        /\ failure' \in [Deployment -> Failures \cup {None}]
    BY <2>1 DEF ClaimNext, TypeInv, TypeOK, Statuses, Stages
  <2>3. /\ pc' \in [Worker -> Pcs]
        /\ dep' \in [Worker -> Deployment \cup {None}]
        /\ tok' \in [Worker -> Nat]
        /\ ClaimHeld'
    BY <2>1 DEF ClaimNext, TypeInv, TypeOK, ClaimHeld, Goto, Pcs, Fencing, Processing
  <2> QED
    BY <2>1, <2>2, <2>3 DEF ClaimNext, TypeInv, TypeOK, runtimeVars
<1>2. CASE Heartbeat(w)
  <2>1. pc[w] # "idle"
    BY <1>2 DEF Heartbeat, Fencing, Processing
  <2>2. lease' \in [Deployment -> {"none", "live", "expired"}]
    BY <1>0, <1>2, <2>1 DEF Heartbeat, TypeInv, TypeOK
  <2> QED
    BY <1>2, <2>2 DEF Heartbeat, TypeInv, TypeOK, ClaimHeld, workerVars, runtimeVars
<1>3. CASE ClaimLost(w)
  BY <1>3, ReturnType DEF ClaimLost, TypeInv, TypeOK, dbVars, runtimeVars
<1>4. CASE ClaimLostInActivate(w)
  <2>1. pc[w] # "idle" /\ Handle(w, "RUNTIME_FATAL") /\ "RUNTIME_FATAL" \in Failures
    BY <1>4 DEF ClaimLostInActivate, Failures
  <2> QED
    BY <1>4, <2>1, HandleType DEF ClaimLostInActivate, TypeInv, TypeOK, dbVars, runtimeVars
<1>5. CASE RecoverActive(w)
  <2>1. pc[w] # "idle" /\ Goto(w, "finishing") /\ "finishing" \in Pcs /\ UNCHANGED dep
    BY <1>5 DEF RecoverActive, Pcs, Fencing
  <2> QED
    BY <1>5, <2>1, GotoType DEF RecoverActive, TypeInv, TypeOK, dbVars, runtimeVars
<1>6. CASE RecoverAdopt(w)
  <2>1. pc[w] # "idle" /\ Goto(w, "activated") /\ "activated" \in Pcs /\ UNCHANGED dep
    BY <1>6 DEF RecoverAdopt, Pcs
  <2>2. /\ active' \in [Project -> Deployment \cup {None}]
        /\ prev' \in [Worker -> Deployment \cup {None}]
    BY <1>0, <1>6, <2>1 DEF RecoverAdopt, ActivateRow, TypeInv, TypeOK
  <2> QED
    BY <1>6, <2>1, <2>2, GotoType DEF RecoverAdopt, TypeInv, TypeOK, dbVars
<1>7. CASE RecoverUncertain(w)
  <2>1. /\ pc[w] # "idle" /\ Handle(w, "RECOVERY_STATE_UNCERTAIN")
        /\ "RECOVERY_STATE_UNCERTAIN" \in Failures
    BY <1>7 DEF RecoverUncertain, Failures, Retryable
  <2>2. recovery' \in [Worker -> {"none", "uncertain", "exhausted", "overruled"}]
    BY <1>7 DEF RecoverUncertain, TypeInv, TypeOK
  <2> QED
    BY <1>7, <2>1, <2>2, HandleType DEF RecoverUncertain, TypeInv, TypeOK, dbVars, runtimeVars
<1>8. CASE RecoverSafe(w)
  <2>1. pc[w] # "idle" /\ "preparing" \in Pcs /\ "WORKER_RECOVERY_EXHAUSTED" \in Failures
    BY <1>8 DEF RecoverSafe, Pcs, Fencing, Processing, Failures
  <2>2. CASE tok[w] > MaxAttempts
    <3>1. Handle(w, "WORKER_RECOVERY_EXHAUSTED")
      BY <1>8, <2>2 DEF RecoverSafe
    <3>2. recovery' \in [Worker -> {"none", "uncertain", "exhausted", "overruled"}]
      BY <1>8, <2>2 DEF RecoverSafe, TypeInv, TypeOK
    <3> QED
      BY <1>8, <2>1, <3>1, <3>2, HandleType DEF RecoverSafe, TypeInv, TypeOK, dbVars, runtimeVars
  <2>3. CASE ~(tok[w] > MaxAttempts)
    <3>1. Goto(w, "preparing") /\ UNCHANGED <<dep, tok, fail, prev, recovery>>
      BY <1>8, <2>3 DEF RecoverSafe
    <3> QED
      BY <1>8, <2>1, <3>1, GotoType DEF RecoverSafe, TypeInv, TypeOK, dbVars, runtimeVars
  <2> QED
    BY <2>2, <2>3
<1>9. CASE ResetCandidate(w)
  <2>1. pc[w] # "idle" /\ Goto(w, "reset") /\ "reset" \in Pcs /\ UNCHANGED dep
    BY <1>9 DEF ResetCandidate, Pcs, Fencing, Processing
  <2>2. candidate' \in [Deployment -> BOOLEAN]
    BY <1>0, <1>9, <2>1 DEF ResetCandidate, TypeInv, TypeOK
  <2> QED
    BY <1>9, <2>1, <2>2, GotoType DEF ResetCandidate, TypeInv, TypeOK, dbVars
<1>10. CASE StageBuilding(w)
  <2>1. /\ pc[w] # "idle" /\ "building" \in Pcs /\ "BUILDING" \in Stages
        /\ candidate' \in [Deployment -> BOOLEAN]
    BY <1>10 DEF StageBuilding, Pcs, Fencing, Processing, Stages, TypeInv, TypeOK
  <2> QED
    BY <1>10, <2>1, StageType DEF StageBuilding
<1>11. CASE StageStarting(w)
  <2>1. pc[w] # "idle" /\ "starting" \in Pcs /\ "STARTING" \in Stages
    BY <1>11 DEF StageStarting, Pcs, Fencing, Processing, Stages
  <2>2. candidate' \in [Deployment -> BOOLEAN]
    BY <1>0, <1>11, <2>1 DEF StageStarting, TypeInv, TypeOK
  <2> QED
    BY <1>11, <2>1, <2>2, StageType DEF StageStarting
<1>12. CASE StageHealthChecking(w)
  <2>1. /\ pc[w] # "idle" /\ "checking" \in Pcs /\ "HEALTH_CHECKING" \in Stages
        /\ candidate' \in [Deployment -> BOOLEAN]
    BY <1>12 DEF StageHealthChecking, Pcs, Fencing, Processing, Stages, TypeInv, TypeOK
  <2> QED
    BY <1>12, <2>1, StageType DEF StageHealthChecking
<1>13. CASE StageActivating(w)
  <2>1. /\ pc[w] # "idle" /\ "activating" \in Pcs /\ "ACTIVATING" \in Stages
        /\ candidate' \in [Deployment -> BOOLEAN]
    BY <1>13 DEF StageActivating, Pcs, Fencing, Processing, Stages, TypeInv, TypeOK
  <2> QED
    BY <1>13, <2>1, StageType DEF StageActivating
<1>14. CASE AlreadyActive(w)
  <2>1. /\ pc[w] # "idle" /\ "finishing" \in Pcs /\ "ACTIVATING" \in Stages
        /\ candidate' \in [Deployment -> BOOLEAN]
    BY <1>14 DEF AlreadyActive, Pcs, Fencing, Stages, TypeInv, TypeOK
  <2> QED
    BY <1>14, <2>1, StageType DEF AlreadyActive
<1>15. CASE Activate(w)
  <2>1. /\ pc[w] # "idle" /\ UNCHANGED dep
        /\ "finishing" \in Pcs /\ "activated" \in Pcs
        /\ Goto(w, "finishing") \/ Goto(w, "activated")
    BY <1>15 DEF Activate, Pcs, Fencing
  <2>2. /\ active' \in [Project -> Deployment \cup {None}]
        /\ prev' \in [Worker -> Deployment \cup {None}]
    BY <1>0, <1>15, <2>1 DEF Activate, ActivateRow, TypeInv, TypeOK
  <2> QED
    BY <1>15, <2>1, <2>2, GotoType DEF Activate, TypeInv, TypeOK, dbVars
<1>16. CASE RetirePrevious(w)
  <2>1. pc[w] # "idle" /\ Goto(w, "finishing") /\ "finishing" \in Pcs /\ UNCHANGED dep
    BY <1>16 DEF RetirePrevious, Pcs, Fencing
  <2>2. candidate' \in [Deployment -> BOOLEAN] /\ prev' \in [Worker -> Deployment \cup {None}]
    BY <1>16, RemoveType DEF RetirePrevious, TypeInv, TypeOK
  <2> QED
    BY <1>16, <2>1, <2>2, GotoType DEF RetirePrevious, TypeInv, TypeOK, dbVars
<1>17. CASE \E code \in Failures : Fail(w, code)
  <2>1. PICK code \in Failures : Fail(w, code)
    BY <1>17
  <2>2. pc[w] # "idle"
    BY <2>1 DEF Fail, Processing
  <2> QED
    BY <2>1, <2>2, HandleType DEF Fail, TypeInv, TypeOK, dbVars, runtimeVars
<1>18. CASE Succeed(w)
  <2>1. dep[w] \in Deployment
    BY <1>0, <1>18 DEF Succeed
  <2>2. /\ status' \in [Deployment -> Statuses]
        /\ failure' \in [Deployment -> Failures \cup {None}]
    BY <1>18, <2>1 DEF Succeed, TypeInv, TypeOK, Statuses, Terminal
  <2> QED
    BY <1>18, <2>1, <2>2, ReleaseJobType, ReturnType DEF Succeed, TypeInv, TypeOK, runtimeVars
<1>19. CASE RecordDiagnostics(w) \/ SkipDiagnostics(w)
  <2>1. pc[w] # "idle" /\ Goto(w, "cleanup") /\ "cleanup" \in Pcs /\ UNCHANGED dep
    BY <1>19 DEF RecordDiagnostics, SkipDiagnostics, Pcs
  <2> QED
    BY <1>19, <2>1, GotoType
       DEF RecordDiagnostics, SkipDiagnostics, TypeInv, TypeOK, dbVars, runtimeVars
<1>20. CASE \E code \in Failures : CleanupCandidate(w, code)
  <2>1. PICK code \in Failures : CleanupCandidate(w, code)
    BY <1>20
  <2>2. pc[w] # "idle" /\ Goto(w, "closing") /\ "closing" \in Pcs /\ UNCHANGED dep
    BY <2>1 DEF CleanupCandidate, Pcs, Fencing
  <2>3. candidate' \in [Deployment -> BOOLEAN] /\ fail' \in [Worker -> Failures \cup {None}]
    BY <2>1, RemoveType DEF CleanupCandidate, TypeInv, TypeOK
  <2> QED
    BY <2>1, <2>2, <2>3, GotoType DEF CleanupCandidate, TypeInv, TypeOK, dbVars
<1>21. CASE RetryJob(w) \/ FailJob(w)
  <2>1. dep[w] \in Deployment
    BY <1>0, <1>21 DEF RetryJob, FailJob
  <2>2. /\ status' \in [Deployment -> Statuses]
        /\ failure' \in [Deployment -> Failures \cup {None}]
    BY <1>21, <2>1 DEF RetryJob, FailJob, TypeInv, TypeOK, Statuses, Terminal
  <2> QED
    BY <1>21, <2>1, <2>2, ReleaseJobType, ReturnType
       DEF RetryJob, FailJob, TypeInv, TypeOK, runtimeVars
<1>22. CASE HandleAgain(w)
  <2>1. pc[w] # "idle" /\ Handle(w, "RUNTIME_FATAL") /\ "RUNTIME_FATAL" \in Failures
    BY <1>22 DEF HandleAgain, Failures
  <2>2. recovery' \in [Worker -> {"none", "uncertain", "exhausted", "overruled"}]
    BY <1>22 DEF HandleAgain, TypeInv, TypeOK
  <2> QED
    BY <1>22, <2>1, <2>2, HandleType DEF HandleAgain, TypeInv, TypeOK, dbVars, runtimeVars
<1> QED
  BY <1>1, <1>2, <1>3, <1>4, <1>5, <1>6, <1>7, <1>8, <1>9, <1>10, <1>11, <1>12, <1>13, <1>14,
     <1>15, <1>16, <1>17, <1>18, <1>19, <1>20, <1>21, <1>22 DEF WorkerStep

\* So does every other step.
LEMMA NextTypeInv == TypeInv /\ [Next]_vars => TypeInv'
<1> SUFFICES ASSUME TypeInv, [Next]_vars PROVE TypeInv'
  OBVIOUS
<1> USE JobsAssumption
<1>1. CASE \E d \in Deployment : Create(d)
  <2>1. PICK d \in Deployment : Create(d)
    BY <1>1
  <2>2. /\ status' \in [Deployment -> Statuses]
        /\ jobState' \in [Deployment -> {"ABSENT", "PENDING", "CLAIMED", "DONE"}]
    BY <2>1 DEF Create, TypeInv, TypeOK, Statuses
  <2> QED
    BY <2>1, <2>2 DEF Create, TypeInv, TypeOK, ClaimHeld, runtimeVars, workerVars
<1>2. CASE \E p \in Project : RequestDeletion(p)
  <2>1. PICK p \in Project : RequestDeletion(p)
    BY <1>2
  <2>2. projectStatus' \in [Project -> {"READY", "DELETING"}]
    BY <2>1 DEF RequestDeletion, TypeInv, TypeOK
  <2> QED
    BY <2>1, <2>2 DEF RequestDeletion, TypeInv, TypeOK, ClaimHeld, dbVars, runtimeVars, workerVars
<1>3. CASE \E w \in Worker : WorkerStep(w)
  BY <1>3, WorkerStepTypeInv
<1>4. CASE \E w \in Worker, d \in Deployment : ReconcileActive(w, d)
  <2>1. PICK w \in Worker, d \in Deployment : ReconcileActive(w, d)
    BY <1>4
  <2>2. /\ candidate' \in [Deployment -> BOOLEAN]
        /\ active' \in [Project -> Deployment \cup {None}]
    BY <2>1, RemoveType DEF ReconcileActive, TypeInv, TypeOK, runtimeVars
  <2>3. /\ status' \in [Deployment -> Statuses]
        /\ failure' \in [Deployment -> Failures \cup {None}]
    BY <2>1 DEF ReconcileActive, TypeInv, TypeOK, Statuses, Terminal
  <2> QED
    BY <2>1, <2>2, <2>3 DEF ReconcileActive, TypeInv, TypeOK, ClaimHeld, workerVars
<1>5. CASE \E w \in Worker, d \in Deployment : ReconcileCleaned(w, d)
  <2>1. PICK w \in Worker, d \in Deployment : ReconcileCleaned(w, d)
    BY <1>5
  <2>2. candidate' \in [Deployment -> BOOLEAN]
    BY <2>1 DEF ReconcileCleaned, TypeInv, TypeOK
  <2> QED
    BY <2>1, <2>2 DEF ReconcileCleaned, TypeInv, TypeOK, ClaimHeld, dbVars, workerVars
<1>6. CASE \E w \in Worker : Crash(w)
  BY <1>6, ReturnType DEF Crash, TypeInv, TypeOK, dbVars, runtimeVars
<1>7. CASE \E d \in Deployment : LeaseExpires(d)
  <2>1. PICK d \in Deployment : LeaseExpires(d)
    BY <1>7
  <2>2. lease' \in [Deployment -> {"none", "live", "expired"}] /\ faults' \in Nat
    BY <2>1 DEF LeaseExpires, TypeInv, TypeOK
  <2> QED
    BY <2>1, <2>2 DEF LeaseExpires, TypeInv, TypeOK, ClaimHeld, runtimeVars, workerVars
<1>8. CASE UNCHANGED vars
  BY <1>8 DEF vars, dbVars, runtimeVars, workerVars, TypeInv, TypeOK, ClaimHeld
<1> QED
  BY <1>1, <1>2, <1>3, <1>4, <1>5, <1>6, <1>7, <1>8 DEF Next

\* Every variable keeps its type, and a worker inside run_once has a claim,
\* whatever the workers, the API and the faults do.
THEOREM TypeCorrect == Spec => [](TypeOK /\ ClaimHeld)
<1>1. Init => TypeInv
  BY InitTypeInv
<1>2. TypeInv /\ [Next]_vars => TypeInv'
  BY NextTypeInv
<1> QED
  BY <1>1, <1>2, PTL DEF Spec, TypeInv

-----------------------------------------------------------------------------
\* The two tables. All of it follows from one case analysis, StepEffect: what a
\* step may do to them.

QueueInv == TypeInv /\ JobAgreesWithStatus /\ OneActivePerProject

-----------------------------------------------------------------------------
\* The effects a step can have on projects, deployments and deployment_jobs.

Unmoved == UNCHANGED <<projectStatus, status, failure, jobState>>

Deleting(p) ==
    /\ projectStatus' = [projectStatus EXCEPT ![p] = "DELETING"]
    /\ UNCHANGED <<status, failure, jobState>>

\* A row that was claimable is claimed.
Claimed(d) ==
    /\ Claimable(d)
    /\ status' = [status EXCEPT ![d] = "PREPARING"]
    /\ failure' = [failure EXCEPT ![d] = None]
    /\ jobState' = [jobState EXCEPT ![d] = "CLAIMED"]
    /\ UNCHANGED projectStatus

\* A claimed row moves to stage s, or leaves the claim with status s, job j.
Staged(d, s) ==
    /\ jobState[d] = "CLAIMED"
    /\ s \in Stages
    /\ status' = [status EXCEPT ![d] = s]
    /\ UNCHANGED <<projectStatus, failure, jobState>>

Released(d, s, j, f) ==
    /\ jobState[d] = "CLAIMED"
    /\ \/ s = "QUEUED" /\ j = "PENDING"
       \/ s \in Terminal /\ j = "DONE"
    /\ status' = [status EXCEPT ![d] = s]
    /\ failure' = [failure EXCEPT ![d] = f]
    /\ jobState' = [jobState EXCEPT ![d] = j]
    /\ UNCHANGED projectStatus

\* An uncertain deployment is found to be the active one.
Adopted(d) ==
    /\ Uncertain(d)
    /\ status' = [status EXCEPT ![d] = "SUCCEEDED"]
    /\ failure' = [failure EXCEPT ![d] = None]
    /\ active'[ProjectOf[d]] = d
    /\ UNCHANGED <<projectStatus, jobState>>

Effect ==
    \/ Unmoved
    \/ \E p \in Project : Deleting(p)
    \/ \E d \in Deployment : Create(d)
    \/ \E d \in Deployment : Claimed(d)
    \/ \E d \in Deployment, s \in Stages : Staged(d, s)
    \/ \E d \in Deployment, s \in Statuses, j \in {"PENDING", "DONE"}, f \in Failures \cup {None} :
          Released(d, s, j, f)
    \/ \E d \in Deployment : Adopted(d)

LEMMA StageEffect ==
    ASSUME TypeInv, NEW w \in Worker, NEW s \in Stages, Stage(w, s), pc[w] # "idle"
    PROVE  Effect
<1>1. dep[w] \in Deployment
  BY DEF TypeInv, ClaimHeld
<1>2. Staged(dep[w], s)
  BY DEF Stage, Staged, Fenced
<1> QED
  BY <1>1, <1>2 DEF Effect

\* Only a fenced step of a worker moves a deployment, and only a claimed one.
LEMMA WorkerStepEffect ==
    ASSUME TypeInv, NEW w \in Worker, WorkerStep(w)
    PROVE  Effect
<1>1. CASE \E d \in Deployment : ClaimNext(w, d)
  <2>1. PICK d \in Deployment : ClaimNext(w, d)
    BY <1>1
  <2>2. Claimed(d)
    BY <2>1 DEF ClaimNext, Claimed
  <2> QED
    BY <2>2 DEF Effect
<1>2. CASE StageBuilding(w)
  BY <1>2, StageEffect DEF StageBuilding, Stages
<1>3. CASE StageStarting(w)
  BY <1>3, StageEffect DEF StageStarting, Stages
<1>4. CASE StageHealthChecking(w)
  BY <1>4, StageEffect DEF StageHealthChecking, Stages
<1>5. CASE StageActivating(w)
  BY <1>5, StageEffect DEF StageActivating, Stages
<1>6. CASE AlreadyActive(w)
  BY <1>6, StageEffect DEF AlreadyActive, Stages
<1>7. CASE Succeed(w)
  <2>1. dep[w] \in Deployment /\ "SUCCEEDED" \in Statuses
    BY <1>7 DEF Succeed, TypeInv, ClaimHeld, Statuses, Terminal
  <2>2. Released(dep[w], "SUCCEEDED", "DONE", None)
    BY <1>7 DEF Succeed, ReleaseJob, Fenced, Released, Terminal
  <2> QED
    BY <2>1, <2>2 DEF Effect
<1>8. CASE RetryJob(w)
  <2>1. dep[w] \in Deployment /\ fail[w] \in Failures \cup {None} /\ "QUEUED" \in Statuses
    BY <1>8 DEF RetryJob, TypeInv, TypeOK, ClaimHeld, Statuses
  <2>2. Released(dep[w], "QUEUED", "PENDING", fail[w])
    BY <1>8 DEF RetryJob, ReleaseJob, Fenced, Released
  <2> QED
    BY <2>1, <2>2 DEF Effect
<1>9. CASE FailJob(w)
  <2>1. dep[w] \in Deployment /\ fail[w] \in Failures \cup {None} /\ "FAILED" \in Statuses
    BY <1>9 DEF FailJob, TypeInv, TypeOK, ClaimHeld, Statuses, Terminal
  <2>2. Released(dep[w], "FAILED", "DONE", fail[w])
    BY <1>9 DEF FailJob, ReleaseJob, Fenced, Released, Terminal
  <2> QED
    BY <2>1, <2>2 DEF Effect
<1>10. CASE \/ HandleAgain(w) \/ Heartbeat(w) \/ ClaimLost(w) \/ ClaimLostInActivate(w)
            \/ RecoverActive(w) \/ RecoverAdopt(w) \/ RecoverUncertain(w) \/ RecoverSafe(w)
            \/ ResetCandidate(w)
  <2>1. Unmoved
    BY <1>10 DEF Unmoved, HandleAgain, Heartbeat, ClaimLost, ClaimLostInActivate,
                 RecoverActive, RecoverAdopt, RecoverUncertain, RecoverSafe, ResetCandidate, dbVars
  <2> QED
    BY <2>1 DEF Effect
<1>11. CASE \/ Activate(w) \/ RetirePrevious(w) \/ RecordDiagnostics(w) \/ SkipDiagnostics(w)
            \/ \E code \in Failures : Fail(w, code)
            \/ \E code \in Failures : CleanupCandidate(w, code)
  <2>1. Unmoved
    BY <1>11 DEF Unmoved, Activate, RetirePrevious, RecordDiagnostics, SkipDiagnostics, Fail,
                 CleanupCandidate, dbVars
  <2> QED
    BY <2>1 DEF Effect
<1> QED
  BY <1>1, <1>2, <1>3, <1>4, <1>5, <1>6, <1>7, <1>8, <1>9, <1>10, <1>11 DEF WorkerStep

LEMMA StepEffect ==
    ASSUME TypeInv, [Next]_vars
    PROVE  Effect
<1> USE JobsAssumption
<1>1. CASE \E d \in Deployment : Create(d)
  BY <1>1 DEF Effect
<1>2. CASE \E p \in Project : RequestDeletion(p)
  BY <1>2 DEF Effect, RequestDeletion, Deleting, dbVars
<1>3. CASE \E w \in Worker : WorkerStep(w)
  BY <1>3, WorkerStepEffect
<1>4. CASE \E w \in Worker, d \in Deployment : ReconcileActive(w, d)
  <2>1. PICK w \in Worker, d \in Deployment : ReconcileActive(w, d)
    BY <1>4
  <2>2. active'[ProjectOf[d]] = d
    BY <2>1 DEF ReconcileActive, TypeInv, TypeOK, runtimeVars
  <2>3. Adopted(d)
    BY <2>1, <2>2 DEF ReconcileActive, Adopted
  <2> QED
    BY <2>3 DEF Effect
<1>5. CASE \/ \E w \in Worker, d \in Deployment : ReconcileCleaned(w, d)
           \/ \E w \in Worker : Crash(w)
           \/ \E d \in Deployment : LeaseExpires(d)
           \/ UNCHANGED vars
  <2>1. Unmoved
    BY <1>5 DEF Unmoved, ReconcileCleaned, Crash, LeaseExpires, vars, dbVars
  <2> QED
    BY <2>1 DEF Effect
<1> QED
  BY <1>1, <1>2, <1>3, <1>4, <1>5 DEF Next

-----------------------------------------------------------------------------
LEMMA InitQueueInv == Init => QueueInv
<1> SUFFICES ASSUME Init PROVE QueueInv
  OBVIOUS
<1>1. JobAgreesWithStatus /\ OneActivePerProject
  BY DEF Init, JobAgreesWithStatus, OneActivePerProject, Open, Stages, Terminal
<1> QED
  BY <1>1, InitTypeInv DEF QueueInv

\* Every effect keeps the two tables in agreement and one deployment open.
LEMMA NextQueueInv == QueueInv /\ [Next]_vars => QueueInv'
<1> SUFFICES ASSUME QueueInv, [Next]_vars PROVE QueueInv'
  OBVIOUS
<1> USE JobsAssumption
<1>0. TypeInv'
  BY NextTypeInv DEF QueueInv
<1>1. Effect
  BY StepEffect DEF QueueInv
<1>2. /\ status \in [Deployment -> Statuses]
      /\ jobState \in [Deployment -> {"ABSENT", "PENDING", "CLAIMED", "DONE"}]
      /\ JobAgreesWithStatus /\ OneActivePerProject
  BY DEF QueueInv, TypeInv, TypeOK
<1>3. CASE Unmoved \/ \E p \in Project : Deleting(p)
  BY <1>0, <1>2, <1>3
     DEF Unmoved, Deleting, QueueInv, JobAgreesWithStatus, OneActivePerProject, Open
<1>4. CASE \E d \in Deployment : Create(d)
  <2>1. PICK d \in Deployment : Create(d)
    BY <1>4
  <2>2. JobAgreesWithStatus'
    BY <1>2, <2>1 DEF Create, JobAgreesWithStatus, Statuses, Stages, Terminal
  <2>3. OneActivePerProject'
    BY <1>2, <2>1 DEF Create, OneActivePerProject, Open
  <2> QED
    BY <1>0, <2>2, <2>3 DEF QueueInv
<1>5. CASE \E d \in Deployment : Claimed(d)
  <2>1. PICK d \in Deployment : Claimed(d)
    BY <1>5
  <2>2. JobAgreesWithStatus'
    BY <1>2, <2>1 DEF Claimed, Claimable, JobAgreesWithStatus, Statuses, Stages, Terminal
  <2>3. Open(d)
    BY <1>2, <2>1 DEF Claimed, Claimable, JobAgreesWithStatus, Open
  <2>4. OneActivePerProject'
    BY <1>2, <2>1, <2>3 DEF Claimed, OneActivePerProject, Open
  <2> QED
    BY <1>0, <2>2, <2>4 DEF QueueInv
<1>6. CASE \E d \in Deployment, s \in Stages : Staged(d, s)
  <2>1. PICK d \in Deployment, s \in Stages : Staged(d, s)
    BY <1>6
  <2>2. JobAgreesWithStatus'
    BY <1>2, <2>1 DEF Staged, JobAgreesWithStatus, Statuses, Stages, Terminal
  <2>3. Open(d)
    BY <1>2, <2>1 DEF Staged, JobAgreesWithStatus, Open
  <2>4. OneActivePerProject'
    BY <1>2, <2>1, <2>3 DEF Staged, OneActivePerProject, Open
  <2> QED
    BY <1>0, <2>2, <2>4 DEF QueueInv
<1>7. CASE \E d \in Deployment, s \in Statuses, j \in {"PENDING", "DONE"},
              f \in Failures \cup {None} : Released(d, s, j, f)
  <2>1. PICK d \in Deployment, s \in Statuses, j \in {"PENDING", "DONE"},
             f \in Failures \cup {None} : Released(d, s, j, f)
    BY <1>7
  <2>2. JobAgreesWithStatus'
    BY <1>2, <2>1 DEF Released, JobAgreesWithStatus, Statuses, Stages, Terminal
  <2>3. Open(d)
    BY <1>2, <2>1 DEF Released, JobAgreesWithStatus, Open
  <2>4. OneActivePerProject'
    BY <1>2, <2>1, <2>3 DEF Released, OneActivePerProject, Open
  <2> QED
    BY <1>0, <2>2, <2>4 DEF QueueInv
<1>8. CASE \E d \in Deployment : Adopted(d)
  <2>1. PICK d \in Deployment : Adopted(d)
    BY <1>8
  <2>2. JobAgreesWithStatus'
    BY <1>2, <2>1 DEF Adopted, Uncertain, JobAgreesWithStatus, Statuses, Stages, Terminal
  <2>3. OneActivePerProject'
    BY <1>2, <2>1 DEF Adopted, OneActivePerProject, Open, Stages
  <2> QED
    BY <1>0, <2>2, <2>3 DEF QueueInv
<1> QED
  BY <1>1, <1>3, <1>4, <1>5, <1>6, <1>7, <1>8 DEF Effect

LEMMA QueueInvariant == Spec => []QueueInv
<1>1. Init => QueueInv
  BY InitQueueInv
<1>2. QueueInv /\ [Next]_vars => QueueInv'
  BY NextQueueInv
<1> QED
  BY <1>1, <1>2, PTL DEF Spec

\* deployments and deployment_jobs agree in every reachable state, with any
\* number of workers, crashes and expired leases.
THEOREM TablesAgree == Spec => []JobAgreesWithStatus
<1>1. QueueInv => JobAgreesWithStatus
  BY DEF QueueInv
<1> QED
  BY <1>1, QueueInvariant, PTL

\* A project never has two open deployments: the unique index is needed only
\* where deployments are created.
THEOREM OneOpenDeployment == Spec => []OneActivePerProject
<1>1. QueueInv => OneActivePerProject
  BY DEF QueueInv
<1> QED
  BY <1>1, QueueInvariant, PTL

-----------------------------------------------------------------------------
\* Settled deployments do not change, apart from the uncertain ones that turn
\* out to be active.
THEOREM SettledIsFinal == Spec => TerminalIsFinal
<1>1. ASSUME QueueInv, [Next]_vars, NEW d \in Deployment,
             status[d] \in Terminal, status'[d] # status[d]
      PROVE  /\ status[d] = "FAILED"
             /\ failure[d] = "RECOVERY_STATE_UNCERTAIN"
             /\ status'[d] = "SUCCEEDED"
             /\ active'[ProjectOf[d]] = d
  <2>1. Effect
    BY <1>1, StepEffect DEF QueueInv
  <2>2. status \in [Deployment -> Statuses] /\ jobState[d] = "DONE"
    BY <1>1 DEF QueueInv, TypeInv, TypeOK, JobAgreesWithStatus
  <2>3. ~Unmoved /\ ~\E p \in Project : Deleting(p)
    BY <1>1 DEF Unmoved, Deleting
  <2>4. ~\E e \in Deployment : Create(e)
    BY <1>1, <2>2 DEF Create, Terminal
  <2>5. ~\E e \in Deployment : Claimed(e)
    BY <1>1, <2>2 DEF Claimed, Claimable
  <2>6. ~\E e \in Deployment, s \in Stages : Staged(e, s)
    BY <1>1, <2>2 DEF Staged
  <2>7. ~\E e \in Deployment, s \in Statuses, j \in {"PENDING", "DONE"},
            f \in Failures \cup {None} : Released(e, s, j, f)
    BY <1>1, <2>2 DEF Released
  <2>8. PICK e \in Deployment : Adopted(e)
    BY <2>1, <2>3, <2>4, <2>5, <2>6, <2>7 DEF Effect
  <2> QED
    BY <1>1, <2>2, <2>8 DEF Adopted, Uncertain
<1> DEFINE Step == \A d \in Deployment :
          status[d] \in Terminal /\ status'[d] # status[d] =>
             /\ status[d] = "FAILED"
             /\ failure[d] = "RECOVERY_STATE_UNCERTAIN"
             /\ status'[d] = "SUCCEEDED"
             /\ active'[ProjectOf[d]] = d
<1>2. QueueInv /\ [Next]_vars => Step
  BY <1>1
<1>3. QueueInv /\ [Next]_vars => [Step]_vars
  BY <1>2
<1> QED
  BY <1>3, QueueInvariant, PTL DEF Spec, TerminalIsFinal

\* A project that is being deleted and has drained stays drained.
THEOREM DrainedForGood == Spec => DrainedStaysDrained
<1> DEFINE Drained(p) == \A d \in Deployment : ProjectOf[d] = p => ~Open(d)
<1>1. ASSUME QueueInv, [Next]_vars, NEW p \in Project, projectStatus[p] = "DELETING",
             Drained(p), NEW d \in Deployment, ProjectOf[d] = p
      PROVE  ~Open(d)'
  <2>1. Effect
    BY <1>1, StepEffect DEF QueueInv
  <2>2. /\ status \in [Deployment -> Statuses]
        /\ jobState \in [Deployment -> {"ABSENT", "PENDING", "CLAIMED", "DONE"}]
        /\ jobState[d] \notin {"PENDING", "CLAIMED"}
    BY <1>1 DEF QueueInv, TypeInv, TypeOK, JobAgreesWithStatus, Open
  <2>3. CASE Unmoved \/ \E q \in Project : Deleting(q)
    BY <1>1, <2>3 DEF Unmoved, Deleting, Open
  <2>4. CASE \E e \in Deployment : Create(e)
    BY <1>1, <2>2, <2>4 DEF Create, Open
  <2>5. CASE \E e \in Deployment : Claimed(e)
    BY <1>1, <2>2, <2>5 DEF Claimed, Claimable, Open
  <2>6. CASE \E e \in Deployment, s \in Stages : Staged(e, s)
    BY <1>1, <2>2, <2>6 DEF Staged, Open
  <2>7. CASE \E e \in Deployment, s \in Statuses, j \in {"PENDING", "DONE"},
                f \in Failures \cup {None} : Released(e, s, j, f)
    BY <1>1, <2>2, <2>7 DEF Released, Open
  <2>8. CASE \E e \in Deployment : Adopted(e)
    BY <1>1, <2>2, <2>8 DEF Adopted, Open, Stages
  <2> QED
    BY <2>1, <2>3, <2>4, <2>5, <2>6, <2>7, <2>8 DEF Effect
<1> DEFINE Step == \A p \in Project :
          /\ projectStatus[p] = "DELETING"
          /\ \A d \in Deployment : ProjectOf[d] = p => ~Open(d)
          => \A d \in Deployment : ProjectOf[d] = p => ~Open(d)'
<1>2. QueueInv /\ [Next]_vars => [Step]_vars
  BY <1>1
<1> QED
  BY <1>2, QueueInvariant, PTL DEF Spec, DrainedStaysDrained

-----------------------------------------------------------------------------
\* The refinement. First, what the phase of a deployment says of its row.
LEMMA PhaseCases ==
    ASSUME TypeInv, NEW d \in Deployment
    PROVE  /\ status[d] = "ABSENT" <=> Phase(d) = "absent"
           /\ status[d] = "QUEUED" <=> Phase(d) = "queued"
           /\ status[d] \in Stages <=> Phase(d) = "running"
           /\ status[d] = "SUCCEEDED" <=> Phase(d) = "succeeded"
           /\ Uncertain(d) <=> Phase(d) = "uncertain"
           /\ status[d] = "FAILED" /\ ~Uncertain(d) <=> Phase(d) = "failed"
BY DEF TypeInv, TypeOK, Phase, Open, Uncertain, Statuses, Stages, Terminal

LEMMA InitLifecycle == Init => Lifecycle!LifecycleInit
<1> SUFFICES ASSUME Init PROVE Lifecycle!LifecycleInit
  OBVIOUS
<1>1. \A d \in Deployment : Phase(d) = "absent"
  BY PhaseCases, InitTypeInv DEF Init
<1> QED
  BY <1>1 DEF Lifecycle!LifecycleInit, Init, PhaseMap, AcceptingMap

\* A step that moves deployment d alone changes the phase of d alone.
LEMMA PhaseMoves ==
    ASSUME NEW d \in Deployment,
           \A e \in Deployment \ {d} : status'[e] = status[e] /\ failure'[e] = failure[e]
    PROVE  PhaseMap' = [PhaseMap EXCEPT ![d] = Phase(d)']
<1>1. \A e \in Deployment \ {d} : Phase(e)' = Phase(e)
  BY DEF Phase, Open, Uncertain
<1> QED
  BY <1>1 DEF PhaseMap

\* Every effect is a step of the lifecycle, or none.
LEMMA StepLifecycle ==
    ASSUME QueueInv, QueueInv', [Next]_vars
    PROVE  [Lifecycle!LifecycleNext]_(Lifecycle!lifecycleVars)
<1> USE JobsAssumption
<1>1. Effect
  BY StepEffect DEF QueueInv
<1>2. /\ status \in [Deployment -> Statuses]
      /\ failure \in [Deployment -> Failures \cup {None}]
      /\ projectStatus \in [Project -> {"READY", "DELETING"}]
      /\ TypeInv /\ TypeInv' /\ JobAgreesWithStatus
  BY DEF QueueInv, TypeInv, TypeOK
<1>3. \A d \in Deployment : PhaseMap[d] = Phase(d)
  BY DEF PhaseMap
<1>4. projectStatus' = projectStatus => AcceptingMap' = AcceptingMap
  BY DEF AcceptingMap
<1>5. CASE Unmoved
  <2>1. PhaseMap' = PhaseMap
    BY <1>5 DEF Unmoved, PhaseMap, Phase, Open, Uncertain
  <2> QED
    BY <1>4, <1>5, <2>1 DEF Unmoved, Lifecycle!lifecycleVars
<1>6. CASE \E p \in Project : Deleting(p)
  <2>1. PICK p \in Project : Deleting(p)
    BY <1>6
  <2>2. PhaseMap' = PhaseMap
    BY <2>1 DEF Deleting, PhaseMap, Phase, Open, Uncertain
  <2>3. AcceptingMap' = [AcceptingMap EXCEPT ![p] = FALSE]
    BY <1>2, <2>1 DEF Deleting, AcceptingMap
  <2>4. Lifecycle!StopAccepting(p)
    BY <2>2, <2>3 DEF Lifecycle!StopAccepting
  <2> QED
    BY <2>4 DEF Lifecycle!LifecycleNext
<1>7. CASE \E d \in Deployment : Create(d)
  <2>1. PICK d \in Deployment : Create(d)
    BY <1>7
  <2>2. Phase(d) = "absent" /\ Phase(d)' = "queued"
    BY <1>2, <2>1, PhaseCases DEF Create, Phase, Open, Uncertain
  <2>3. PhaseMap' = [PhaseMap EXCEPT ![d] = "queued"] /\ AcceptingMap' = AcceptingMap
    BY <1>2, <1>4, <2>1, <2>2, PhaseMoves DEF Create
  <2>4. Lifecycle!OpenOf(ProjectOf[d]) = {}
    BY <1>2, <1>3, <2>1, PhaseCases DEF Create, Open, Lifecycle!OpenOf, Lifecycle!OpenPhases
  <2>5. AcceptingMap[ProjectOf[d]]
    BY <1>2, <2>1 DEF Create, AcceptingMap
  <2>6. Lifecycle!Request(d)
    BY <1>3, <2>2, <2>3, <2>4, <2>5 DEF Lifecycle!Request
  <2> QED
    BY <2>6 DEF Lifecycle!LifecycleNext
<1>8. CASE \E d \in Deployment : Claimed(d)
  <2>1. PICK d \in Deployment : Claimed(d)
    BY <1>8
  <2>2. Phase(d) \in {"queued", "running"} /\ Phase(d)' = "running"
    <3>1. status[d] \in Stages \cup {"QUEUED"}
      BY <1>2, <2>1 DEF Claimed, Claimable, JobAgreesWithStatus
    <3> QED
      BY <1>2, <2>1, <3>1, PhaseCases DEF Claimed, Phase, Open, Uncertain, Stages
  <2>3. PhaseMap' = [PhaseMap EXCEPT ![d] = "running"] /\ AcceptingMap' = AcceptingMap
    BY <1>2, <1>4, <2>1, <2>2, PhaseMoves DEF Claimed
  <2>4. CASE Phase(d) = "queued"
    <3>1. Lifecycle!Start(d)
      BY <1>3, <2>3, <2>4 DEF Lifecycle!Start
    <3> QED
      BY <3>1 DEF Lifecycle!LifecycleNext
  <2>5. CASE Phase(d) = "running"
    BY <2>3, <2>5 DEF Lifecycle!lifecycleVars, PhaseMap
  <2> QED
    BY <2>2, <2>4, <2>5
<1>9. CASE \E d \in Deployment, s \in Stages : Staged(d, s)
  <2>1. PICK d \in Deployment, s \in Stages : Staged(d, s)
    BY <1>9
  <2>2. Phase(d) = "running" /\ Phase(d)' = "running"
    BY <1>2, <2>1, PhaseCases
       DEF Staged, JobAgreesWithStatus, Phase, Open, Uncertain, Stages
  <2>3. PhaseMap' = [PhaseMap EXCEPT ![d] = "running"] /\ AcceptingMap' = AcceptingMap
    BY <1>2, <1>4, <2>1, <2>2, PhaseMoves DEF Staged
  <2> QED
    BY <2>2, <2>3 DEF Lifecycle!lifecycleVars, PhaseMap
<1>10. CASE \E d \in Deployment, s \in Statuses, j \in {"PENDING", "DONE"},
               f \in Failures \cup {None} : Released(d, s, j, f)
  <2>1. PICK d \in Deployment, s \in Statuses, j \in {"PENDING", "DONE"},
             f \in Failures \cup {None} : Released(d, s, j, f)
    BY <1>10
  <2>2. Phase(d) = "running"
    BY <1>2, <2>1, PhaseCases DEF Released, JobAgreesWithStatus
  <2>3. Phase(d)' \in {"queued", "succeeded", "failed", "uncertain"}
    BY <1>2, <2>1 DEF Released, Phase, Open, Uncertain, Stages, Terminal
  <2>4. PhaseMap' = [PhaseMap EXCEPT ![d] = Phase(d)'] /\ AcceptingMap' = AcceptingMap
    BY <1>2, <1>4, <2>1, PhaseMoves DEF Released
  <2>5. CASE Phase(d)' = "queued"
    <3>1. Lifecycle!Requeue(d)
      BY <1>3, <2>2, <2>4, <2>5 DEF Lifecycle!Requeue
    <3> QED
      BY <3>1 DEF Lifecycle!LifecycleNext
  <2>6. CASE Phase(d)' \in {"succeeded", "failed", "uncertain"}
    <3>1. PICK outcome \in {"succeeded", "failed", "uncertain"} : outcome = Phase(d)'
      BY <2>6
    <3>2. Lifecycle!Settle(d, outcome)
      BY <1>3, <2>2, <2>4, <3>1 DEF Lifecycle!Settle
    <3> QED
      BY <3>2 DEF Lifecycle!LifecycleNext
  <2> QED
    BY <2>3, <2>5, <2>6
<1>11. CASE \E d \in Deployment : Adopted(d)
  <2>1. PICK d \in Deployment : Adopted(d)
    BY <1>11
  <2>2. Phase(d) = "uncertain" /\ Phase(d)' = "succeeded"
    BY <1>2, <2>1 DEF Adopted, Phase, Open, Uncertain, Stages
  <2>3. PhaseMap' = [PhaseMap EXCEPT ![d] = "succeeded"] /\ AcceptingMap' = AcceptingMap
    BY <1>2, <1>4, <2>1, <2>2, PhaseMoves DEF Adopted
  <2>4. Lifecycle!Adopt(d)
    BY <1>3, <2>2, <2>3 DEF Lifecycle!Adopt
  <2> QED
    BY <2>4 DEF Lifecycle!LifecycleNext
<1> QED
  BY <1>1, <1>5, <1>6, <1>7, <1>8, <1>9, <1>10, <1>11 DEF Effect

\* The queue with its claims, leases, workers and faults implements the
\* lifecycle that knows none of them.
THEOREM QueueImplementsLifecycle == Spec => ImplementsLifecycle
<1>1. Init => Lifecycle!LifecycleInit
  BY InitLifecycle
<1>2. QueueInv /\ QueueInv' /\ [Next]_vars => [Lifecycle!LifecycleNext]_(Lifecycle!lifecycleVars)
  BY StepLifecycle
<1> QED
  BY <1>1, <1>2, QueueInvariant, PTL DEF Spec, ImplementsLifecycle, Lifecycle!LifecycleSpec

-----------------------------------------------------------------------------
\* Claims: the retry budget, and that only the holder of the latest claim decides.

\* A job that some worker may claim without another fault happening.
Loose(d) ==
    \/ jobState[d] = "PENDING"
    \/ jobState[d] = "CLAIMED" /\ (lease[d] = "expired" \/ ~Held(d))

\* The budget is inductive only together with where a claim comes from: its
\* token is the latest attempt, an idle worker holds none, and a job that can be
\* claimed again without a fault still has an attempt left.
TokenIsAttempt == \A d \in Deployment : jobState[d] = "CLAIMED" => token[d] = attempts[d]
IdleHasNoClaim == \A w \in Worker : pc[w] = "idle" => dep[w] = None
AbsentIsFresh == \A d \in Deployment : jobState[d] = "ABSENT" => attempts[d] = 0
LooseHasBudget == \A d \in Deployment : Loose(d) => attempts[d] < MaxAttempts + faults

ClaimInv ==
    /\ QueueInv
    /\ TokenIsAttempt
    /\ IdleHasNoClaim
    /\ AbsentIsFresh
    /\ LooseHasBudget
    /\ AttemptsWithinBudget

-----------------------------------------------------------------------------
\* The effects a step can have on the claims.

StaysInside == \A w \in Worker : pc'[w] = "idle" => pc[w] = "idle"

Quiet ==
    /\ UNCHANGED <<jobState, attempts, owner, token, lease, dep, tok, faults>>
    /\ StaysInside

Renewed(w) ==
    /\ Fenced(w)
    /\ lease' = [lease EXCEPT ![dep[w]] = "live"]
    /\ UNCHANGED <<jobState, attempts, owner, token, dep, tok, faults>>
    /\ StaysInside

Dropped(w) ==
    /\ Lapsed(w)
    /\ Return(w)
    /\ UNCHANGED <<jobState, attempts, owner, token, lease, faults>>

Finished(w, s) ==
    /\ Fenced(w)
    /\ s = "PENDING" => tok[w] < MaxAttempts
    /\ ReleaseJob(dep[w], s)
    /\ Return(w)
    /\ UNCHANGED faults

ClaimEffect ==
    \/ Quiet
    \/ \E d \in Deployment : Create(d)
    \/ \E w \in Worker, d \in Deployment : ClaimNext(w, d)
    \/ \E w \in Worker : Renewed(w) /\ dep[w] \in Deployment
    \/ \E w \in Worker : Dropped(w)
    \/ \E w \in Worker, s \in {"PENDING", "DONE"} : Finished(w, s) /\ dep[w] \in Deployment
    \/ \E w \in Worker : Crash(w) /\ dep[w] \in Deployment
    \/ \E d \in Deployment : LeaseExpires(d)

LEMMA GotoStaysInside ==
    ASSUME TypeInv, NEW w \in Worker, NEW label, label # "idle", Goto(w, label)
    PROVE  StaysInside
BY DEF TypeInv, TypeOK, Goto, StaysInside

LEMMA StageClaimEffect ==
    ASSUME TypeInv, NEW w \in Worker, NEW s, NEW label, label # "idle", pc[w] # "idle",
           Goto(w, label), Stage(w, s)
    PROVE  ClaimEffect
<1>1. StaysInside /\ dep[w] \in Deployment
  BY GotoStaysInside DEF TypeInv, ClaimHeld
<1>2. Renewed(w)
  BY <1>1 DEF Stage, Renewed
<1> QED
  BY <1>1, <1>2 DEF ClaimEffect

LEMMA WorkerClaimEffect ==
    ASSUME TypeInv, NEW w \in Worker, WorkerStep(w)
    PROVE  ClaimEffect
<1>0. pc[w] # "idle" => dep[w] \in Deployment
  BY DEF TypeInv, ClaimHeld
<1>1. CASE \E d \in Deployment : ClaimNext(w, d)
  BY <1>1 DEF ClaimEffect
<1>2. CASE StageBuilding(w)
  BY <1>2, StageClaimEffect DEF StageBuilding
<1>3. CASE StageStarting(w)
  BY <1>3, StageClaimEffect DEF StageStarting
<1>4. CASE StageHealthChecking(w)
  BY <1>4, StageClaimEffect DEF StageHealthChecking
<1>5. CASE StageActivating(w)
  BY <1>5, StageClaimEffect DEF StageActivating
<1>6. CASE AlreadyActive(w)
  BY <1>6, StageClaimEffect DEF AlreadyActive
<1>7. CASE Succeed(w)
  <2>1. Finished(w, "DONE") /\ pc[w] # "idle"
    BY <1>7 DEF Succeed, Finished
  <2> QED
    BY <1>0, <2>1 DEF ClaimEffect
<1>8. CASE RetryJob(w)
  <2>1. Finished(w, "PENDING") /\ pc[w] # "idle"
    BY <1>8 DEF RetryJob, Finished, MayRetry
  <2> QED
    BY <1>0, <2>1 DEF ClaimEffect
<1>9. CASE FailJob(w)
  <2>1. Finished(w, "DONE") /\ pc[w] # "idle"
    BY <1>9 DEF FailJob, Finished
  <2> QED
    BY <1>0, <2>1 DEF ClaimEffect
<1>10. CASE ClaimLost(w)
  BY <1>10 DEF ClaimLost, Dropped, ClaimEffect, dbVars
<1>11. CASE Heartbeat(w)
  <2>1. Renewed(w) /\ pc[w] # "idle"
    BY <1>11 DEF Heartbeat, Renewed, StaysInside, workerVars, Fencing, Processing
  <2> QED
    BY <1>0, <2>1 DEF ClaimEffect
<1>12. CASE \/ HandleAgain(w) \/ ClaimLostInActivate(w) \/ RecoverActive(w) \/ RecoverAdopt(w)
            \/ RecoverUncertain(w) \/ RecoverSafe(w) \/ ResetCandidate(w)
  <2>1. \E label : label # "idle" /\ Goto(w, label)
    BY <1>12 DEF HandleAgain, ClaimLostInActivate, RecoverActive, RecoverAdopt, RecoverUncertain,
                 RecoverSafe, ResetCandidate, Handle
  <2>2. StaysInside
    BY <2>1, GotoStaysInside
  <2>3. Quiet
    BY <1>12, <2>2 DEF Quiet, HandleAgain, ClaimLostInActivate, RecoverActive, RecoverAdopt,
                 RecoverUncertain, RecoverSafe, ResetCandidate, Handle, dbVars
  <2> QED
    BY <2>3 DEF ClaimEffect
<1>13. CASE \/ Activate(w) \/ RetirePrevious(w) \/ RecordDiagnostics(w) \/ SkipDiagnostics(w)
            \/ \E code \in Failures : Fail(w, code)
            \/ \E code \in Failures : CleanupCandidate(w, code)
  <2>1. \E label : label # "idle" /\ Goto(w, label)
    BY <1>13 DEF Activate, RetirePrevious, RecordDiagnostics, SkipDiagnostics, Fail,
                 CleanupCandidate, Handle
  <2>2. StaysInside
    BY <2>1, GotoStaysInside
  <2>3. Quiet
    BY <1>13, <2>2 DEF Quiet, Activate, RetirePrevious, RecordDiagnostics, SkipDiagnostics, Fail,
                 CleanupCandidate, Handle, dbVars
  <2> QED
    BY <2>3 DEF ClaimEffect
<1> QED
  BY <1>1, <1>2, <1>3, <1>4, <1>5, <1>6, <1>7, <1>8, <1>9, <1>10, <1>11, <1>12, <1>13
     DEF WorkerStep

LEMMA StepClaimEffect ==
    ASSUME TypeInv, [Next]_vars
    PROVE  ClaimEffect
<1>1. CASE \E w \in Worker : WorkerStep(w)
  BY <1>1, WorkerClaimEffect
<1>2. CASE \/ \E d \in Deployment : Create(d)
           \/ \E d \in Deployment : LeaseExpires(d)
  BY <1>2 DEF ClaimEffect
<1>3. CASE \E w \in Worker : Crash(w)
  BY <1>3 DEF ClaimEffect, Crash, TypeInv, ClaimHeld
<1>4. CASE \/ \E p \in Project : RequestDeletion(p)
           \/ \E w \in Worker, d \in Deployment : ReconcileActive(w, d)
           \/ \E w \in Worker, d \in Deployment : ReconcileCleaned(w, d)
           \/ UNCHANGED vars
  <2>1. Quiet
    BY <1>4 DEF Quiet, StaysInside, RequestDeletion, ReconcileActive, ReconcileCleaned, vars,
                dbVars, workerVars
  <2> QED
    BY <2>1 DEF ClaimEffect
<1> QED
  BY <1>1, <1>2, <1>3, <1>4 DEF Next

-----------------------------------------------------------------------------
\* A claim object that a worker gives up leaves the other claims held.
LEMMA ReturnKeepsHeld ==
    ASSUME TypeInv, NEW w \in Worker, NEW d \in Deployment, Return(w),
           UNCHANGED <<jobState, owner, token>>, Held(d), ~(dep[w] = d /\ Fenced(w))
    PROVE  Held(d)'
<1>1. PICK v \in Worker : dep[v] = d /\ Fenced(v)
  BY DEF Held
<1>2. v # w
  BY <1>1
<1>3. dep'[v] = dep[v] /\ tok'[v] = tok[v]
  BY <1>2 DEF Return, TypeInv, TypeOK
<1>4. dep'[v] = d /\ Fenced(v)'
  BY <1>1, <1>3 DEF Fenced
<1> QED
  BY <1>4 DEF Held

LEMMA InitClaimInv == Init => ClaimInv
<1> SUFFICES ASSUME Init PROVE ClaimInv
  OBVIOUS
<1>1. QueueInv
  BY InitQueueInv
<1>2. TokenIsAttempt /\ IdleHasNoClaim /\ AbsentIsFresh /\ LooseHasBudget
  BY DEF Init, TokenIsAttempt, IdleHasNoClaim, AbsentIsFresh, LooseHasBudget, Loose
<1>3. AttemptsWithinBudget
  BY JobsAssumption DEF Init, AttemptsWithinBudget
<1> QED
  BY <1>1, <1>2, <1>3 DEF ClaimInv

\* The four supporting conjuncts, and the budget, one effect after the other.
LEMMA NextClaimInv == ClaimInv /\ [Next]_vars => ClaimInv'
<1> SUFFICES ASSUME ClaimInv, [Next]_vars PROVE ClaimInv'
  OBVIOUS
<1> USE JobsAssumption
<1>0. QueueInv'
  BY NextQueueInv DEF ClaimInv
<1>1. ClaimEffect
  BY StepClaimEffect DEF ClaimInv, QueueInv
<1>2. /\ TypeInv /\ JobAgreesWithStatus
      /\ TokenIsAttempt /\ IdleHasNoClaim /\ AbsentIsFresh /\ LooseHasBudget
      /\ AttemptsWithinBudget
  BY DEF ClaimInv, QueueInv
<1>3. /\ jobState \in [Deployment -> {"ABSENT", "PENDING", "CLAIMED", "DONE"}]
      /\ attempts \in [Deployment -> Nat] /\ token \in [Deployment -> Nat]
      /\ owner \in [Deployment -> Worker \cup {None}]
      /\ lease \in [Deployment -> {"none", "live", "expired"}]
      /\ pc \in [Worker -> Pcs] /\ dep \in [Worker -> Deployment \cup {None}]
      /\ tok \in [Worker -> Nat] /\ faults \in Nat /\ faults' \in Nat
      /\ MaxAttempts \in Nat /\ MaxAttempts > 0
  BY <1>0, <1>2 DEF QueueInv, TypeInv, TypeOK
<1>4. CASE Quiet
  <2>1. \A d \in Deployment : Held(d)' <=> Held(d)
    BY <1>4 DEF Quiet, Held, Fenced
  <2>2. TokenIsAttempt' /\ IdleHasNoClaim' /\ AbsentIsFresh'
    BY <1>2, <1>4 DEF Quiet, StaysInside, TokenIsAttempt, IdleHasNoClaim, AbsentIsFresh
  <2>3. LooseHasBudget' /\ AttemptsWithinBudget'
    BY <1>2, <1>4, <2>1 DEF Quiet, LooseHasBudget, Loose, AttemptsWithinBudget
  <2> QED
    BY <1>0, <2>2, <2>3 DEF ClaimInv
<1>5. CASE \E d \in Deployment : Create(d)
  <2>1. PICK d \in Deployment : Create(d)
    BY <1>5
  <2>2. jobState[d] = "ABSENT" /\ attempts[d] = 0
    BY <1>2, <2>1 DEF Create, JobAgreesWithStatus, AbsentIsFresh
  <2>3. \A e \in Deployment \ {d} : Held(e)' <=> Held(e)
    BY <1>3, <2>1 DEF Create, workerVars, Held, Fenced
  <2>4. TokenIsAttempt' /\ IdleHasNoClaim' /\ AbsentIsFresh'
    BY <1>2, <1>3, <2>1 DEF Create, workerVars, TokenIsAttempt, IdleHasNoClaim, AbsentIsFresh
  <2>5. AttemptsWithinBudget'
    BY <1>2, <2>1 DEF Create, AttemptsWithinBudget
  <2>6. LooseHasBudget'
    BY <1>2, <1>3, <2>1, <2>2, <2>3 DEF Create, LooseHasBudget, Loose
  <2> QED
    BY <1>0, <2>4, <2>5, <2>6 DEF ClaimInv
<1>6. CASE \E w \in Worker, d \in Deployment : ClaimNext(w, d)
  <2>1. PICK w \in Worker, d \in Deployment : ClaimNext(w, d)
    BY <1>6
  <2>2. attempts[d] < MaxAttempts + faults /\ dep[w] = None
    BY <1>2, <2>1 DEF ClaimNext, Claimable, LooseHasBudget, Loose, IdleHasNoClaim
  <2>3. TokenIsAttempt' /\ AbsentIsFresh'
    BY <1>2, <1>3, <2>1 DEF ClaimNext, TokenIsAttempt, AbsentIsFresh
  <2>4. IdleHasNoClaim'
    BY <1>2, <1>3, <2>1 DEF ClaimNext, Goto, IdleHasNoClaim
  <2>5. AttemptsWithinBudget'
    BY <1>2, <1>3, <2>1, <2>2 DEF ClaimNext, AttemptsWithinBudget
  <2>6. Held(d)' /\ lease'[d] = "live"
    <3>1. dep'[w] = d /\ Fenced(w)'
      BY <1>3, <2>1 DEF ClaimNext, Fenced
    <3> QED
      BY <1>3, <2>1, <3>1 DEF ClaimNext, Held
  <2>7. ASSUME NEW e \in Deployment \ {d}, Held(e) PROVE Held(e)'
    <3>1. PICK v \in Worker : dep[v] = e /\ Fenced(v)
      BY <2>7 DEF Held
    <3>2. v # w /\ dep'[v] = dep[v] /\ tok'[v] = tok[v]
      BY <1>3, <2>1, <2>2, <3>1 DEF ClaimNext
    <3>3. Fenced(v)'
      BY <1>3, <2>1, <3>1, <3>2 DEF ClaimNext, Fenced
    <3> QED
      BY <3>1, <3>2, <3>3 DEF Held
  <2>8. LooseHasBudget'
    <3> SUFFICES ASSUME NEW e \in Deployment, Loose(e)' PROVE (attempts[e] < MaxAttempts + faults)'
      BY DEF LooseHasBudget
    <3>1. e # d
      BY <1>3, <2>1, <2>6 DEF Loose, ClaimNext
    <3>2. Loose(e)
      BY <1>3, <2>1, <2>7, <3>1 DEF Loose, ClaimNext
    <3> QED
      BY <1>2, <1>3, <2>1, <3>1, <3>2 DEF LooseHasBudget, ClaimNext
  <2> QED
    BY <1>0, <2>3, <2>4, <2>5, <2>8 DEF ClaimInv
<1>7. CASE \E w \in Worker : Renewed(w) /\ dep[w] \in Deployment
  <2>1. PICK w \in Worker : Renewed(w) /\ dep[w] \in Deployment
    BY <1>7
  <2>2. \A d \in Deployment : Held(d)' <=> Held(d)
    BY <2>1 DEF Renewed, Held, Fenced
  <2>3. TokenIsAttempt' /\ IdleHasNoClaim' /\ AbsentIsFresh' /\ AttemptsWithinBudget'
    BY <1>2, <2>1 DEF Renewed, StaysInside, TokenIsAttempt, IdleHasNoClaim, AbsentIsFresh,
                      AttemptsWithinBudget
  <2>4. \A d \in Deployment : Loose(d)' => Loose(d)
    BY <1>3, <2>1, <2>2 DEF Renewed, Loose
  <2>5. LooseHasBudget'
    BY <1>2, <2>1, <2>4 DEF Renewed, LooseHasBudget
  <2> QED
    BY <1>0, <2>3, <2>5 DEF ClaimInv
<1>8. CASE \E w \in Worker : Dropped(w)
  <2>1. PICK w \in Worker : Dropped(w)
    BY <1>8
  <2>2. TokenIsAttempt' /\ IdleHasNoClaim' /\ AbsentIsFresh' /\ AttemptsWithinBudget'
    BY <1>2, <1>3, <2>1 DEF Dropped, Return, Goto, TokenIsAttempt, IdleHasNoClaim, AbsentIsFresh,
                            AttemptsWithinBudget
  <2>3. ASSUME NEW d \in Deployment, Loose(d)' PROVE Loose(d)
    <3>1. CASE dep[w] = d /\ Fenced(w)
      BY <1>3, <2>1, <2>3, <3>1 DEF Dropped, Lapsed, Loose, Fenced
    <3>2. CASE ~(dep[w] = d /\ Fenced(w))
      <4>1. Held(d) => Held(d)'
        BY <1>2, <2>1, <3>2, ReturnKeepsHeld DEF Dropped
      <4> QED
        BY <2>1, <2>3, <4>1 DEF Dropped, Loose
    <3> QED
      BY <3>1, <3>2
  <2>4. LooseHasBudget'
    BY <1>2, <2>1, <2>3 DEF Dropped, LooseHasBudget
  <2> QED
    BY <1>0, <2>2, <2>4 DEF ClaimInv
<1>9. CASE \E w \in Worker, s \in {"PENDING", "DONE"} : Finished(w, s) /\ dep[w] \in Deployment
  <2>1. PICK w \in Worker, s \in {"PENDING", "DONE"} : Finished(w, s) /\ dep[w] \in Deployment
    BY <1>9
  <2>2. tok[w] = attempts[dep[w]]
    BY <1>2, <2>1 DEF Finished, Fenced, TokenIsAttempt
  <2>3. TokenIsAttempt' /\ IdleHasNoClaim' /\ AbsentIsFresh' /\ AttemptsWithinBudget'
    BY <1>2, <1>3, <2>1 DEF Finished, ReleaseJob, Return, Goto, TokenIsAttempt, IdleHasNoClaim,
                            AbsentIsFresh, AttemptsWithinBudget
  <2>4. ASSUME NEW d \in Deployment, d # dep[w], Held(d) PROVE Held(d)'
    <3>1. PICK v \in Worker : dep[v] = d /\ Fenced(v)
      BY <2>4 DEF Held
    <3>2. v # w /\ dep'[v] = dep[v] /\ tok'[v] = tok[v]
      BY <1>3, <2>1, <2>4, <3>1 DEF Finished, Return
    <3>3. Fenced(v)'
      BY <1>3, <2>1, <2>4, <3>1, <3>2 DEF Finished, ReleaseJob, Fenced
    <3> QED
      BY <3>1, <3>2, <3>3 DEF Held
  <2>5. LooseHasBudget'
    <3> SUFFICES ASSUME NEW d \in Deployment, Loose(d)' PROVE (attempts[d] < MaxAttempts + faults)'
      BY DEF LooseHasBudget
    <3>1. CASE d = dep[w]
      BY <1>3, <2>1, <2>2, <3>1 DEF Finished, ReleaseJob, Loose
    <3>2. CASE d # dep[w]
      <4>1. Loose(d)
        BY <1>3, <2>1, <2>4, <3>2 DEF Finished, ReleaseJob, Loose
      <4> QED
        BY <1>2, <2>1, <4>1 DEF Finished, ReleaseJob, LooseHasBudget
    <3> QED
      BY <3>1, <3>2
  <2> QED
    BY <1>0, <2>3, <2>5 DEF ClaimInv
<1>10. CASE \E w \in Worker : Crash(w) /\ dep[w] \in Deployment
  <2>1. PICK w \in Worker : Crash(w) /\ dep[w] \in Deployment
    BY <1>10
  <2>2. TokenIsAttempt' /\ IdleHasNoClaim' /\ AbsentIsFresh'
    BY <1>2, <1>3, <2>1 DEF Crash, dbVars, Return, Goto, TokenIsAttempt, IdleHasNoClaim,
                            AbsentIsFresh
  <2>3. AttemptsWithinBudget' /\ LooseHasBudget'
    BY <1>2, <1>3, <2>1 DEF Crash, dbVars, AttemptsWithinBudget, LooseHasBudget
  <2> QED
    BY <1>0, <2>2, <2>3 DEF ClaimInv
<1>11. CASE \E d \in Deployment : LeaseExpires(d)
  <2>1. PICK d \in Deployment : LeaseExpires(d)
    BY <1>11
  <2>2. \A e \in Deployment : Held(e)' <=> Held(e)
    BY <2>1 DEF LeaseExpires, workerVars, Held, Fenced
  <2>3. TokenIsAttempt' /\ IdleHasNoClaim' /\ AbsentIsFresh'
    BY <1>2, <2>1 DEF LeaseExpires, workerVars, TokenIsAttempt, IdleHasNoClaim, AbsentIsFresh
  <2>4. AttemptsWithinBudget'
    BY <1>2, <1>3, <2>1 DEF LeaseExpires, AttemptsWithinBudget
  <2>5. CASE Held(d)
    BY <1>0, <1>2, <1>3, <2>1, <2>3, <2>4, <2>5
       DEF ClaimInv, LeaseExpires, LooseHasBudget, AttemptsWithinBudget
  <2>6. CASE ~Held(d)
    <3>1. \A e \in Deployment : Loose(e)' => Loose(e)
      BY <1>3, <2>1, <2>2, <2>6 DEF LeaseExpires, Loose
    <3> QED
      BY <1>0, <1>2, <2>1, <2>3, <2>4, <2>6, <3>1 DEF ClaimInv, LeaseExpires, LooseHasBudget
  <2> QED
    BY <2>5, <2>6
<1> QED
  BY <1>1, <1>4, <1>5, <1>6, <1>7, <1>8, <1>9, <1>10, <1>11 DEF ClaimEffect

LEMMA ClaimInvariant == Spec => []ClaimInv
<1>1. Init => ClaimInv
  BY InitClaimInv
<1>2. ClaimInv /\ [Next]_vars => ClaimInv'
  BY NextClaimInv
<1> QED
  BY <1>1, <1>2, PTL DEF Spec

\* A job is attempted at most worker_max_attempts times, plus once for every
\* crash and every lease that ran out under a live worker.
THEOREM BudgetIsKept == Spec => []AttemptsWithinBudget
<1>1. ClaimInv => AttemptsWithinBudget
  BY DEF ClaimInv
<1> QED
  BY <1>1, ClaimInvariant, PTL

-----------------------------------------------------------------------------
\* A step that writes the status of the deployment it holds, and moves on.
HolderWrites(w) ==
    /\ Fenced(w)
    /\ \A d \in Deployment : d # dep[w] => status'[d] = status[d]
    /\ pc'[w] # pc[w]

LEMMA StageIsByHolder ==
    ASSUME TypeInv, NEW w \in Worker, NEW s, NEW label, pc[w] # label, Goto(w, label), Stage(w, s)
    PROVE  HolderWrites(w)
BY DEF Stage, Goto, HolderWrites, TypeInv, TypeOK

LEMMA FinishIsByHolder ==
    ASSUME TypeInv, NEW w \in Worker, Succeed(w) \/ RetryJob(w) \/ FailJob(w)
    PROVE  HolderWrites(w)
BY DEF Succeed, RetryJob, FailJob, Return, Goto, HolderWrites, TypeInv, TypeOK

\* The status of a claimed deployment is changed by a new claim or by the
\* worker that holds the latest one: fencing keeps an overtaken worker out.
THEOREM HolderDecides == Spec => OnlyTheHolderDecides
<1> DEFINE Step(d) ==
       jobState[d] = "CLAIMED" /\ status'[d] # status[d] =>
             \/ attempts'[d] > attempts[d]
             \/ \E w \in Worker : dep[w] = d /\ tok[w] = attempts[d] /\ pc'[w] # pc[w]
<1>1. ASSUME ClaimInv, [Next]_vars, NEW d \in Deployment PROVE Step(d)
  <2>0. TypeInv /\ TokenIsAttempt /\ JobAgreesWithStatus
    BY <1>1 DEF ClaimInv, QueueInv
  <2>1. /\ status \in [Deployment -> Statuses]
        /\ attempts \in [Deployment -> Nat]
    BY <2>0 DEF TypeInv, TypeOK
  <2>2. ASSUME NEW w \in Worker, HolderWrites(w) PROVE Step(d)
    BY <2>0, <2>2 DEF HolderWrites, Fenced, TokenIsAttempt
  <2>3. ASSUME UNCHANGED status PROVE Step(d)
    BY <2>3
  <2>4. CASE \E e \in Deployment : Create(e)
    BY <2>0, <2>1, <2>4 DEF Create, JobAgreesWithStatus, Stages
  <2>5. CASE \E w \in Worker, e \in Deployment : ReconcileActive(w, e)
    BY <2>0, <2>1, <2>5 DEF ReconcileActive, Uncertain, JobAgreesWithStatus, Stages
  <2>6. CASE \E w \in Worker, e \in Deployment : ClaimNext(w, e)
    BY <2>1, <2>6 DEF ClaimNext
  <2>7. CASE \E w \in Worker : \/ StageBuilding(w) \/ StageStarting(w) \/ StageHealthChecking(w)
                              \/ StageActivating(w) \/ AlreadyActive(w)
    <3>1. PICK w \in Worker : \/ StageBuilding(w) \/ StageStarting(w) \/ StageHealthChecking(w)
                              \/ StageActivating(w) \/ AlreadyActive(w)
      BY <2>7
    <3>2. \E s, label : pc[w] # label /\ Goto(w, label) /\ Stage(w, s)
      BY <3>1 DEF StageBuilding, StageStarting, StageHealthChecking, StageActivating,
                  AlreadyActive
    <3> QED
      BY <2>0, <2>2, <3>2, StageIsByHolder
  <2>8. CASE \E w \in Worker : Succeed(w) \/ RetryJob(w) \/ FailJob(w)
    BY <2>0, <2>2, <2>8, FinishIsByHolder
  <2>9. CASE \E w \in Worker :
               \/ Heartbeat(w) \/ ClaimLost(w) \/ ClaimLostInActivate(w) \/ RecoverActive(w)
               \/ RecoverAdopt(w) \/ RecoverUncertain(w) \/ RecoverSafe(w) \/ ResetCandidate(w)
               \/ Activate(w) \/ RetirePrevious(w) \/ RecordDiagnostics(w) \/ SkipDiagnostics(w)
               \/ HandleAgain(w)
               \/ \E code \in Failures : Fail(w, code)
               \/ \E code \in Failures : CleanupCandidate(w, code)
    <3>1. UNCHANGED status
      BY <2>9 DEF Heartbeat, ClaimLost, ClaimLostInActivate, RecoverActive, RecoverAdopt,
                  RecoverUncertain, RecoverSafe, ResetCandidate, Activate, RetirePrevious,
                  RecordDiagnostics, SkipDiagnostics, Fail, CleanupCandidate, HandleAgain, dbVars
    <3> QED
      BY <2>3, <3>1
  <2>10. CASE \/ \E p \in Project : RequestDeletion(p)
              \/ \E w \in Worker, e \in Deployment : ReconcileCleaned(w, e)
              \/ \E w \in Worker : Crash(w)
              \/ \E e \in Deployment : LeaseExpires(e)
              \/ UNCHANGED vars
    <3>1. UNCHANGED status
      BY <2>10 DEF RequestDeletion, ReconcileCleaned, Crash, LeaseExpires, vars, dbVars
    <3> QED
      BY <2>3, <3>1
  <2> QED
    BY <1>1, <2>4, <2>5, <2>6, <2>7, <2>8, <2>9, <2>10 DEF Next, WorkerStep
<1>2. ClaimInv /\ [Next]_vars => [\A d \in Deployment : Step(d)]_vars
  BY <1>1
<1> QED
  BY <1>2, ClaimInvariant, PTL DEF Spec, OnlyTheHolderDecides

-----------------------------------------------------------------------------
\* One worker and the generations of a project. Nobody takes over its claims, so
\* what it finds when it begins a stretch of work still holds when it ends it.

OneWorker == \A v, w \in Worker : v = w

\* The worker's deployment is the active one.
Own(w) == active[ProjectOf[dep[w]]] = dep[w]

\* A worker that found its recovery uncertain is about to record that; unless
\* exceptions come late, nothing keeps it from doing so.
Noted(w) ==
    /\ recovery[w] = "uncertain" => fail[w] = "RECOVERY_STATE_UNCERTAIN"
    /\ ~LateErrors => recovery[w] # "overruled"

\* A worker switches to a generation that is not active yet and has containers;
\* it finishes with the active one; and, unless exceptions come late, what it
\* rolls back and cleans up is not active.
WorkInv(w) ==
    /\ pc[w] = "idle" => dep[w] = None
    /\ pc[w] # "idle" => failure[dep[w]] = None
    /\ pc[w] \in {"reset", "building", "starting", "checking", "activating"} => ~Own(w)
    /\ pc[w] \in {"starting", "checking", "activating"} => candidate[dep[w]]
    /\ pc[w] \in {"activated", "finishing"} => Own(w)
    /\ pc[w] = "activated" /\ prev[w] # None =>
         /\ prev[w] # dep[w]
         /\ ProjectOf[prev[w]] = ProjectOf[dep[w]]
         /\ failure[prev[w]] # "RECOVERY_STATE_UNCERTAIN"
    /\ fail[w] = "RECOVERY_STATE_UNCERTAIN" => pc[w] = "closing" /\ ~Own(w)
    /\ ~LateErrors /\ pc[w] \in {"rollback", "cleanup", "closing"} => ~Own(w)
    /\ Noted(w)

\* The row of a project names one of its own deployments, and none that was left
\* uncertain.
RowsInv ==
    \A p \in Project : active[p] # None =>
        /\ ProjectOf[active[p]] = p
        /\ failure[active[p]] # "RECOVERY_STATE_UNCERTAIN"

PreviewInv ==
    /\ TypeInv
    /\ \A w \in Worker : WorkInv(w)
    /\ RowsInv
    /\ ~LateErrors => ActiveGenerationExists

Kept(w) ==
    /\ WorkInv(w)'
    /\ RowsInv'
    /\ ~LateErrors => ActiveGenerationExists'

\* A worker that moves, or ends its run, and touches neither Docker nor the rows.
LEMMA MoveKept ==
    ASSUME PreviewInv, NEW w \in Worker, NEW label \in Pcs, pc[w] # "idle", Goto(w, label),
           UNCHANGED <<dep, prev, active, candidate, failure>>,
           fail'[w] = "RECOVERY_STATE_UNCERTAIN" => label = "closing" /\ ~Own(w),
           label \in {"reset", "building", "starting", "checking", "activating"} => ~Own(w),
           label \in {"starting", "checking", "activating"} => candidate[dep[w]],
           label \in {"activated", "finishing"} => Own(w),
           label \notin {"idle", "activated"},
           ~LateErrors /\ label \in {"rollback", "cleanup", "closing"} => ~Own(w),
           Noted(w)'
    PROVE  Kept(w)
<1> USE JobsAssumption
<1>0. pc'[w] = label /\ WorkInv(w)
  BY DEF PreviewInv, TypeInv, TypeOK, Goto
<1>1. WorkInv(w)'
  BY <1>0 DEF WorkInv, Own
<1>2. RowsInv' /\ (~LateErrors => ActiveGenerationExists')
  BY DEF PreviewInv, RowsInv, ActiveGenerationExists
<1> QED
  BY <1>1, <1>2 DEF Kept

LEMMA ReturnKept ==
    ASSUME PreviewInv, NEW w \in Worker, Return(w), UNCHANGED <<active, candidate>>,
           \A d \in Deployment : failure'[d] = "RECOVERY_STATE_UNCERTAIN" =>
                failure[d] = "RECOVERY_STATE_UNCERTAIN" \/ active[ProjectOf[d]] # d
    PROVE  Kept(w)
<1> USE JobsAssumption
<1>1. WorkInv(w)'
  <2>1. pc'[w] = "idle" /\ dep'[w] = None /\ fail'[w] = None /\ recovery'[w] = "none"
    BY DEF PreviewInv, TypeInv, TypeOK, Return, Goto
  <2> QED
    BY <2>1 DEF WorkInv, Noted, Failures, Retryable
<1>2. RowsInv'
  <2>1. SUFFICES ASSUME NEW p \in Project, active[p] # None
                 PROVE  /\ ProjectOf[active[p]] = p
                        /\ failure'[active[p]] # "RECOVERY_STATE_UNCERTAIN"
    BY DEF RowsInv
  <2>2. active[p] \in Deployment
    BY <2>1 DEF PreviewInv, TypeInv, TypeOK
  <2> QED
    BY <2>1, <2>2 DEF PreviewInv, RowsInv
<1>3. ~LateErrors => ActiveGenerationExists'
  BY DEF PreviewInv, ActiveGenerationExists
<1> QED
  BY <1>1, <1>2, <1>3 DEF Kept

LEMMA WorkerStepKept ==
    ASSUME PreviewInv, NEW w \in Worker, WorkerStep(w)
    PROVE  Kept(w)
<1> USE JobsAssumption
<1>0. /\ TypeInv /\ WorkInv(w) /\ RowsInv
      /\ pc[w] # "idle" => dep[w] \in Deployment
      /\ ~LateErrors => ActiveGenerationExists
  BY DEF PreviewInv, TypeInv, ClaimHeld
<1>a. ASSUME UNCHANGED recovery, pc[w] # "closing" \/ UNCHANGED fail
      PROVE  Noted(w)'
  BY <1>0, <1>a DEF WorkInv, Noted
<1>1. CASE \E d \in Deployment : ClaimNext(w, d)
  <2>1. PICK d \in Deployment : ClaimNext(w, d)
    BY <1>1
  <2>2. /\ pc'[w] \in {"recovering", "preparing"} /\ dep'[w] = d /\ failure'[d] = None
        /\ fail'[w] = fail[w] /\ fail[w] # "RECOVERY_STATE_UNCERTAIN"
    BY <1>0, <2>1 DEF ClaimNext, Goto, TypeInv, TypeOK, WorkInv
  <2>3. WorkInv(w)'
    BY <1>a, <2>1, <2>2 DEF ClaimNext, WorkInv, Failures, Retryable
  <2>4. /\ UNCHANGED <<active, candidate>>
        /\ \A e \in Deployment : failure'[e] \in {failure[e], None}
    BY <1>0, <2>1 DEF ClaimNext, TypeInv, TypeOK, runtimeVars
  <2>5. RowsInv'
    BY <1>0, <2>4 DEF TypeInv, TypeOK, RowsInv, Failures, Retryable
  <2>6. ~LateErrors => ActiveGenerationExists'
    BY <1>0, <2>4 DEF ActiveGenerationExists
  <2> QED
    BY <2>3, <2>5, <2>6 DEF Kept
<1>2. CASE Heartbeat(w)
  BY <1>0, <1>2
     DEF Heartbeat, WorkInv, Noted, Own, RowsInv, ActiveGenerationExists, Kept, runtimeVars, workerVars
<1>3. CASE ClaimLost(w)
  BY <1>3, ReturnKept DEF ClaimLost, dbVars, runtimeVars
<1>4. CASE ClaimLostInActivate(w)
  <2>1. pc[w] = "activating" /\ Goto(w, "rollback") /\ "rollback" \in Pcs /\ ~Own(w)
    BY <1>0, <1>4 DEF ClaimLostInActivate, Handle, Pcs, Fencing, WorkInv
  <2>2. fail'[w] # "RECOVERY_STATE_UNCERTAIN"
    BY <1>0, <1>4 DEF ClaimLostInActivate, Handle, TypeInv, TypeOK
  <2> QED
    BY <1>a, <1>4, <2>1, <2>2, MoveKept DEF ClaimLostInActivate, Handle, dbVars, runtimeVars
<1>5. CASE RecoverActive(w)
  <2>1. pc[w] = "recovering" /\ "finishing" \in Pcs /\ Own(w) /\ fail[w] # "RECOVERY_STATE_UNCERTAIN"
    BY <1>0, <1>5 DEF RecoverActive, Pcs, Fencing, WorkInv, Own
  <2> QED
    BY <1>a, <1>5, <2>1, MoveKept DEF RecoverActive, dbVars, runtimeVars
<1>6. CASE RecoverAdopt(w) \/ (Activate(w) /\ active[ProjectOf[dep[w]]] # dep[w])
  <2>1. /\ pc[w] \in {"recovering", "activating"} /\ candidate[dep[w]] /\ ~Own(w)
        /\ dep[w] \in Deployment /\ failure[dep[w]] = None
        /\ fail[w] # "RECOVERY_STATE_UNCERTAIN"
    BY <1>0, <1>6 DEF RecoverAdopt, Activate, WorkInv, Own
  <2>2. /\ Goto(w, "activated") /\ ActivateRow(w)
        /\ UNCHANGED <<dep, fail, recovery, candidate, failure>>
    BY <1>6 DEF RecoverAdopt, Activate, dbVars
  <2>3. /\ pc'[w] = "activated" /\ active'[ProjectOf[dep[w]]] = dep[w]
        /\ prev'[w] = active[ProjectOf[dep[w]]]
        /\ \A p \in Project : p # ProjectOf[dep[w]] => active'[p] = active[p]
    BY <1>0, <2>1, <2>2 DEF TypeInv, TypeOK, Goto, ActivateRow
  <2>4. WorkInv(w)'
    BY <1>0, <1>a, <2>1, <2>2, <2>3 DEF WorkInv, Own, RowsInv, Failures, Retryable
  <2>5. RowsInv' /\ (~LateErrors => ActiveGenerationExists')
    BY <1>0, <2>1, <2>2, <2>3 DEF RowsInv, ActiveGenerationExists, Failures, Retryable
  <2> QED
    BY <2>4, <2>5 DEF Kept
<1>7. CASE RecoverUncertain(w)
  <2>1. pc[w] = "recovering" /\ Goto(w, "closing") /\ "closing" \in Pcs /\ ~Own(w)
    BY <1>0, <1>7 DEF RecoverUncertain, Handle, Pcs, Fencing, WorkInv, Own
  <2>2. recovery'[w] = "uncertain" /\ fail'[w] = "RECOVERY_STATE_UNCERTAIN"
    BY <1>0, <1>7 DEF RecoverUncertain, Handle, TypeInv, TypeOK
  <2>3. Noted(w)'
    BY <2>2 DEF Noted
  <2> QED
    BY <1>7, <2>1, <2>3, MoveKept DEF RecoverUncertain, Handle, dbVars, runtimeVars
<1>8. CASE RecoverSafe(w)
  <2>1. /\ pc[w] = "recovering" /\ {"rollback", "preparing"} \subseteq Pcs /\ ~Own(w)
        /\ fail[w] # "RECOVERY_STATE_UNCERTAIN"
    BY <1>0, <1>8 DEF RecoverSafe, Pcs, Fencing, Processing, WorkInv, Own
  <2>2. \/ Goto(w, "rollback") /\ fail' = [fail EXCEPT ![w] = "WORKER_RECOVERY_EXHAUSTED"]
        \/ Goto(w, "preparing") /\ UNCHANGED fail
    BY <1>8 DEF RecoverSafe, Handle
  <2>3. fail'[w] # "RECOVERY_STATE_UNCERTAIN"
    BY <1>0, <2>1, <2>2 DEF TypeInv, TypeOK
  <2>4. recovery'[w] \in {recovery[w], "exhausted"} /\ recovery[w] # "uncertain"
    BY <1>0, <1>8, <2>1 DEF RecoverSafe, WorkInv, Noted, TypeInv, TypeOK
  <2>5. Noted(w)'
    BY <1>0, <2>4 DEF WorkInv, Noted
  <2> QED
    BY <1>8, <2>1, <2>2, <2>3, <2>5, MoveKept DEF RecoverSafe, Handle, dbVars, runtimeVars
<1>9. CASE ResetCandidate(w)
  <2>1. /\ pc[w] = "preparing" /\ dep[w] \in Deployment /\ ~Own(w) /\ pc'[w] = "reset"
        /\ failure[dep[w]] = None /\ fail[w] # "RECOVERY_STATE_UNCERTAIN"
        /\ \A d \in Deployment : d # dep[w] => candidate'[d] = candidate[d]
        /\ UNCHANGED <<active, dep, prev, fail, recovery, failure>>
    BY <1>0, <1>9 DEF ResetCandidate, Goto, TypeInv, TypeOK, WorkInv, Own, dbVars
  <2>2. WorkInv(w)'
    BY <1>a, <2>1 DEF WorkInv, Own, Failures, Retryable
  <2>3. RowsInv' /\ (~LateErrors => ActiveGenerationExists')
    BY <1>0, <2>1 DEF TypeInv, TypeOK, RowsInv, ActiveGenerationExists, Own
  <2> QED
    BY <2>2, <2>3 DEF Kept
<1>10. CASE StageBuilding(w) \/ StageHealthChecking(w) \/ StageActivating(w) \/ AlreadyActive(w)
  <2>1. /\ fail[w] # "RECOVERY_STATE_UNCERTAIN" /\ pc[w] # "idle"
        /\ UNCHANGED <<dep, prev, active, candidate, failure, fail, recovery>>
    BY <1>0, <1>10 DEF StageBuilding, StageHealthChecking, StageActivating, AlreadyActive, Stage, WorkInv
  <2>2. \/ Goto(w, "building") /\ ~Own(w)
        \/ Goto(w, "checking") /\ ~Own(w) /\ candidate[dep[w]]
        \/ Goto(w, "activating") /\ ~Own(w) /\ candidate[dep[w]]
        \/ Goto(w, "finishing") /\ Own(w)
    BY <1>0, <1>10 DEF StageBuilding, StageHealthChecking, StageActivating, AlreadyActive, WorkInv, Own
  <2>3. {"building", "checking", "activating", "finishing"} \subseteq Pcs
    BY DEF Pcs, Fencing, Processing
  <2> QED
    BY <1>a, <2>1, <2>2, <2>3, MoveKept
<1>11. CASE StageStarting(w)
  <2>1. /\ pc[w] = "building" /\ dep[w] \in Deployment /\ ~Own(w) /\ pc'[w] = "starting"
        /\ failure[dep[w]] = None /\ fail[w] # "RECOVERY_STATE_UNCERTAIN"
        /\ candidate' = [candidate EXCEPT ![dep[w]] = TRUE]
        /\ UNCHANGED <<active, dep, prev, fail, recovery, failure>>
    BY <1>0, <1>11 DEF StageStarting, Stage, Goto, TypeInv, TypeOK, WorkInv, Own
  <2>2. candidate'[dep[w]] /\ \A d \in Deployment : candidate[d] => candidate'[d]
    BY <1>0, <2>1 DEF TypeInv, TypeOK
  <2>3. WorkInv(w)'
    BY <1>a, <2>1, <2>2 DEF WorkInv, Own
  <2>4. RowsInv' /\ (~LateErrors => ActiveGenerationExists')
    BY <1>0, <2>1, <2>2 DEF TypeInv, TypeOK, RowsInv, ActiveGenerationExists
  <2> QED
    BY <2>3, <2>4 DEF Kept
<1>12. CASE Activate(w) /\ active[ProjectOf[dep[w]]] = dep[w]
  <2>1. /\ pc[w] = "activating" /\ Goto(w, "finishing") /\ "finishing" \in Pcs /\ Own(w)
        /\ fail[w] # "RECOVERY_STATE_UNCERTAIN"
        /\ UNCHANGED <<dep, prev, active, candidate, failure, fail, recovery>>
    BY <1>0, <1>12 DEF Activate, Pcs, Fencing, WorkInv, Own, dbVars
  <2> QED
    BY <1>a, <2>1, MoveKept
<1>13. CASE RetirePrevious(w)
  <2>1. /\ pc[w] = "activated" /\ Own(w) /\ dep[w] \in Deployment /\ pc'[w] = "finishing"
        /\ failure[dep[w]] = None /\ fail[w] # "RECOVERY_STATE_UNCERTAIN"
        /\ UNCHANGED <<active, dep, fail, recovery, failure>>
    BY <1>0, <1>13 DEF RetirePrevious, Goto, TypeInv, TypeOK, WorkInv, dbVars
  <2>2. \A d \in Deployment : d # prev[w] => candidate'[d] = candidate[d]
    <3>1. PICK left \in BOOLEAN :
            candidate' = [d \in Deployment |-> candidate[d] /\ (d = prev[w] => left)]
      BY <1>13 DEF RetirePrevious, Remove
    <3> QED
      BY <1>0, <3>1 DEF TypeInv, TypeOK
  <2>3. WorkInv(w)'
    BY <1>a, <2>1 DEF WorkInv, Own, Failures, Retryable
  <2>4. \A p \in Project : active[p] # None => active[p] # prev[w]
    BY <1>0, <2>1 DEF TypeInv, TypeOK, WorkInv, Own, RowsInv
  <2>5. RowsInv' /\ (~LateErrors => ActiveGenerationExists')
    BY <1>0, <2>1, <2>2, <2>4 DEF TypeInv, TypeOK, RowsInv, ActiveGenerationExists
  <2> QED
    BY <2>3, <2>5 DEF Kept
<1>14. CASE \E code \in Failures : Fail(w, code)
  <2>1. PICK code \in Failures : Fail(w, code)
    BY <1>14
  <2>2. /\ pc[w] \notin {"idle", "closing"} /\ code # "RECOVERY_STATE_UNCERTAIN"
        /\ Goto(w, "rollback")
        /\ "rollback" \in Pcs /\ (~LateErrors => ~Own(w))
        /\ fail' = [fail EXCEPT ![w] = code]
    BY <2>1 DEF Fail, Handle, Processing, Pcs, Fencing, Own
  <2>3. fail'[w] # "RECOVERY_STATE_UNCERTAIN"
    BY <1>0, <2>2 DEF TypeInv, TypeOK
  <2> QED
    BY <1>a, <2>1, <2>2, <2>3, MoveKept DEF Fail, Handle, dbVars, runtimeVars
<1>15. CASE RecordDiagnostics(w) \/ SkipDiagnostics(w)
  <2>1. /\ pc[w] = "rollback" /\ Goto(w, "cleanup") /\ "cleanup" \in Pcs
        /\ fail[w] # "RECOVERY_STATE_UNCERTAIN" /\ (~LateErrors => ~Own(w))
        /\ UNCHANGED <<dep, prev, active, candidate, failure, fail, recovery>>
    BY <1>0, <1>15 DEF RecordDiagnostics, SkipDiagnostics, Pcs, WorkInv, dbVars, runtimeVars
  <2> QED
    BY <1>a, <2>1, MoveKept
<1>16. CASE \E code \in Failures : CleanupCandidate(w, code)
  <2>1. PICK code \in Failures : CleanupCandidate(w, code)
    BY <1>16
  <2>2. /\ pc[w] = "cleanup" /\ dep[w] \in Deployment /\ pc'[w] = "closing"
        /\ failure[dep[w]] = None /\ fail[w] # "RECOVERY_STATE_UNCERTAIN"
        /\ fail'[w] = code /\ code # "RECOVERY_STATE_UNCERTAIN"
        /\ (~LateErrors => ~Own(w))
        /\ UNCHANGED <<active, dep, prev, recovery, failure>>
    BY <1>0, <2>1 DEF CleanupCandidate, Goto, TypeInv, TypeOK, WorkInv, dbVars
  <2>3. \A d \in Deployment : d # dep[w] => candidate'[d] = candidate[d]
    <3>1. PICK left \in BOOLEAN :
            candidate' = [d \in Deployment |-> candidate[d] /\ (d = dep[w] => left)]
      BY <2>1 DEF CleanupCandidate, Remove
    <3> QED
      BY <1>0, <3>1 DEF TypeInv, TypeOK
  <2>4. WorkInv(w)'
    BY <1>a, <2>2 DEF WorkInv, Own, Failures, Retryable
  <2>5. RowsInv' /\ (~LateErrors => ActiveGenerationExists')
    BY <1>0, <2>2, <2>3 DEF TypeInv, TypeOK, RowsInv, ActiveGenerationExists, Own
  <2> QED
    BY <2>4, <2>5 DEF Kept
<1>17. CASE Succeed(w) \/ RetryJob(w) \/ FailJob(w)
  <2>1. /\ pc[w] # "idle" /\ Return(w) /\ UNCHANGED <<active, candidate>>
        /\ \/ failure' = [failure EXCEPT ![dep[w]] = None]
           \/ failure' = [failure EXCEPT ![dep[w]] = fail[w]]
    BY <1>17 DEF Succeed, RetryJob, FailJob, runtimeVars
  <2>2. \A d \in Deployment : failure'[d] = "RECOVERY_STATE_UNCERTAIN" =>
                failure[d] = "RECOVERY_STATE_UNCERTAIN" \/ active[ProjectOf[d]] # d
    BY <1>0, <2>1 DEF TypeInv, TypeOK, WorkInv, Own
  <2> QED
    BY <2>1, <2>2, ReturnKept
<1>18. CASE HandleAgain(w)
  <2>1. /\ pc[w] = "closing" /\ Goto(w, "rollback") /\ "rollback" \in Pcs
        /\ ~LateErrors => ~Own(w)
        /\ UNCHANGED <<dep, prev, active, candidate, failure>>
    BY <1>0, <1>18 DEF HandleAgain, Handle, Pcs, WorkInv, dbVars, runtimeVars, Fencing
  <2>2. fail'[w] # "RECOVERY_STATE_UNCERTAIN"
    BY <1>0, <1>18 DEF HandleAgain, Handle, TypeInv, TypeOK
  <2>3. /\ recovery'[w] \in {"none", "overruled"}
        /\ ~LateErrors => recovery'[w] # "overruled"
    BY <1>0, <1>18 DEF HandleAgain, TypeInv, TypeOK
  <2>4. Noted(w)'
    BY <2>3 DEF Noted
  <2> QED
    BY <2>1, <2>2, <2>4, MoveKept
<1> QED
  BY <1>1, <1>2, <1>3, <1>4, <1>5, <1>6, <1>7, <1>8, <1>9, <1>10, <1>11, <1>12, <1>13, <1>14,
     <1>15, <1>16, <1>17, <1>18 DEF WorkerStep

\* An idle worker removes the containers of e and changes nothing else of them.
LEMMA RemovedOnly ==
    ASSUME TypeInv, NEW e, Remove(e)
    PROVE  \A d \in Deployment : d # e => candidate'[d] = candidate[d]
<1>1. PICK left \in BOOLEAN :
        candidate' = [d \in Deployment |-> candidate[d] /\ (d = e => left)]
  BY DEF Remove
<1> QED
  BY <1>1 DEF TypeInv, TypeOK

LEMMA ReconcileActiveKept ==
    ASSUME OneWorker, PreviewInv, NEW w \in Worker, NEW d \in Deployment, ReconcileActive(w, d)
    PROVE  (\A v \in Worker : WorkInv(v)') /\ RowsInv' /\ (~LateErrors => ActiveGenerationExists')
<1> USE JobsAssumption
<1>0. /\ TypeInv /\ WorkInv(w) /\ RowsInv
      /\ ~LateErrors => ActiveGenerationExists
      /\ ProjectOf[d] \in Project
  BY DEF PreviewInv
<1>1. /\ pc[w] = "idle" /\ dep[w] = None /\ UNCHANGED workerVars
      /\ failure'[d] = None
      /\ \A e \in Deployment : e # d => failure'[e] = failure[e]
  BY <1>0 DEF ReconcileActive, WorkInv, TypeInv, TypeOK
<1>2. WorkInv(w)'
  BY <1>0, <1>1 DEF WorkInv, Noted, workerVars
<1>3. \A v \in Worker : WorkInv(v)'
  BY <1>2 DEF OneWorker
<1>4. CASE active[ProjectOf[d]] = d
  <2>1. UNCHANGED <<active, candidate>>
    BY <1>4 DEF ReconcileActive, runtimeVars
  <2>2. RowsInv'
    BY <1>0, <1>1, <2>1 DEF TypeInv, TypeOK, RowsInv, Failures, Retryable
  <2> QED
    BY <1>0, <1>3, <2>1, <2>2 DEF ActiveGenerationExists
<1>5. CASE active[ProjectOf[d]] # d
  <2>1. /\ candidate[d]
        /\ active' = [active EXCEPT ![ProjectOf[d]] = d]
        /\ Remove(active[ProjectOf[d]])
    BY <1>5 DEF ReconcileActive
  <2>2. /\ active'[ProjectOf[d]] = d
        /\ \A p \in Project : p # ProjectOf[d] => active'[p] = active[p]
        /\ \A e \in Deployment : e # active[ProjectOf[d]] => candidate'[e] = candidate[e]
    BY <1>0, <2>1, RemovedOnly DEF TypeInv, TypeOK
  <2>3. RowsInv'
    BY <1>0, <1>1, <2>2 DEF TypeInv, TypeOK, RowsInv, Failures, Retryable
  <2>4. ~LateErrors => ActiveGenerationExists'
    <3>1. SUFFICES ASSUME ~LateErrors, NEW p \in Project, active'[p] # None
                   PROVE  candidate'[active'[p]]
      BY DEF ActiveGenerationExists
    <3>2. CASE p = ProjectOf[d]
      BY <1>5, <2>1, <2>2, <3>2
    <3>3. CASE p # ProjectOf[d]
      <4>1. /\ active'[p] = active[p] /\ active[p] \in Deployment
            /\ ProjectOf[active[p]] = p /\ candidate[active[p]]
        BY <1>0, <2>2, <3>1, <3>3 DEF TypeInv, TypeOK, RowsInv, ActiveGenerationExists
      <4>2. active[p] # active[ProjectOf[d]]
        BY <1>0, <3>3, <4>1 DEF RowsInv
      <4> QED
        BY <2>2, <4>1, <4>2
    <3> QED
      BY <3>2, <3>3
  <2> QED
    BY <1>3, <2>3, <2>4
<1> QED
  BY <1>4, <1>5

LEMMA NextPreviewInv ==
    ASSUME OneWorker, PreviewInv, [Next]_vars
    PROVE  PreviewInv'
<1> USE JobsAssumption
<1>0. TypeInv'
  BY NextTypeInv DEF PreviewInv
<1>1. CASE \E d \in Deployment : Create(d)
  <2>1. UNCHANGED <<failure, active, candidate, pc, dep, tok, fail, prev, recovery>>
    BY <1>1 DEF Create, runtimeVars, workerVars
  <2> QED
    BY <1>0, <2>1 DEF PreviewInv, WorkInv, Noted, Own, RowsInv, ActiveGenerationExists
<1>2. CASE \E p \in Project : RequestDeletion(p)
  <2>1. UNCHANGED <<failure, active, candidate, pc, dep, tok, fail, prev, recovery>>
    BY <1>2 DEF RequestDeletion, dbVars, runtimeVars, workerVars
  <2> QED
    BY <1>0, <2>1 DEF PreviewInv, WorkInv, Noted, Own, RowsInv, ActiveGenerationExists
<1>3. CASE \E w \in Worker : WorkerStep(w)
  <2>1. PICK w \in Worker : WorkerStep(w)
    BY <1>3
  <2>2. Kept(w)
    BY <2>1, WorkerStepKept
  <2>3. \A v \in Worker : WorkInv(v)'
    BY <2>2 DEF OneWorker, Kept
  <2> QED
    BY <1>0, <2>2, <2>3 DEF Kept, PreviewInv
<1>4. CASE \E w \in Worker, d \in Deployment : ReconcileActive(w, d)
  BY <1>0, <1>4, ReconcileActiveKept DEF PreviewInv
<1>5. CASE \E w \in Worker, d \in Deployment : ReconcileCleaned(w, d)
  <2>1. PICK w \in Worker, d \in Deployment : ReconcileCleaned(w, d)
    BY <1>5
  <2>2. /\ pc[w] = "idle" /\ active[ProjectOf[d]] # d
        /\ \A e \in Deployment : e # d => candidate'[e] = candidate[e]
        /\ UNCHANGED <<failure, active, pc, dep, tok, fail, prev, recovery>>
    BY <2>1 DEF ReconcileCleaned, PreviewInv, TypeInv, TypeOK, dbVars, workerVars
  <2>3. \A v \in Worker : WorkInv(v)'
    <3>1. WorkInv(w)'
      BY <2>2 DEF PreviewInv, WorkInv, Noted, Own
    <3> QED
      BY <3>1 DEF OneWorker
  <2>4. RowsInv'
    BY <2>2 DEF PreviewInv, RowsInv
  <2>5. ~LateErrors => ActiveGenerationExists'
    BY <2>2 DEF PreviewInv, TypeInv, TypeOK, RowsInv, ActiveGenerationExists
  <2> QED
    BY <1>0, <2>3, <2>4, <2>5 DEF PreviewInv
<1>6. CASE \E w \in Worker : Crash(w)
  <2>1. PICK w \in Worker : Crash(w)
    BY <1>6
  <2>2. Return(w) /\ UNCHANGED <<active, candidate, failure>>
    BY <2>1 DEF Crash, dbVars, runtimeVars
  <2>3. Kept(w)
    BY <2>2, ReturnKept
  <2>4. \A v \in Worker : WorkInv(v)'
    BY <2>3 DEF OneWorker, Kept
  <2> QED
    BY <1>0, <2>3, <2>4 DEF Kept, PreviewInv
<1>7. CASE \E d \in Deployment : LeaseExpires(d)
  <2>1. UNCHANGED <<failure, active, candidate, pc, dep, tok, fail, prev, recovery>>
    BY <1>7 DEF LeaseExpires, runtimeVars, workerVars
  <2> QED
    BY <1>0, <2>1 DEF PreviewInv, WorkInv, Noted, Own, RowsInv, ActiveGenerationExists
<1>8. CASE UNCHANGED vars
  <2>1. UNCHANGED <<failure, active, candidate, pc, dep, tok, fail, prev, recovery>>
    BY <1>8 DEF vars, dbVars, runtimeVars, workerVars
  <2> QED
    BY <1>0, <2>1 DEF PreviewInv, WorkInv, Noted, Own, RowsInv, ActiveGenerationExists
<1> QED
  BY <1>1, <1>2, <1>3, <1>4, <1>5, <1>6, <1>7, <1>8 DEF Next

LEMMA PreviewInvariant ==
    ASSUME OneWorker
    PROVE  Spec => []PreviewInv
<1>1. Init => PreviewInv
  <2>1. SUFFICES ASSUME Init PROVE PreviewInv
    OBVIOUS
  <2>2. \A w \in Worker : WorkInv(w)
    <3>1. SUFFICES ASSUME NEW w \in Worker PROVE WorkInv(w)
      OBVIOUS
    <3>2. pc[w] = "idle" /\ dep[w] = None /\ fail[w] = None /\ recovery[w] = "none"
      BY <2>1 DEF Init
    <3> QED
      BY <3>2, JobsAssumption DEF WorkInv, Noted, Failures, Retryable
  <2>3. \A p \in Project : active[p] = None
    BY <2>1 DEF Init
  <2>4. RowsInv /\ ActiveGenerationExists
    BY <2>3 DEF RowsInv, ActiveGenerationExists
  <2> QED
    BY <2>1, <2>2, <2>4, InitTypeInv DEF PreviewInv
<1>2. PreviewInv /\ [Next]_vars => PreviewInv'
  BY NextPreviewInv
<1> QED
  BY <1>1, <1>2, PTL DEF Spec

\* With one worker, and no exception once the deployment is active, the row of a
\* project never names a generation whose containers were removed.
THEOREM ActiveHasContainers ==
    ASSUME OneWorker, ~LateErrors
    PROVE  Spec => []ActiveGenerationExists
<1>1. PreviewInv => ActiveGenerationExists
  BY DEF PreviewInv
<1> QED
  BY <1>1, PreviewInvariant, PTL

\* No other step records a success,
LEMMA OthersDoNotSucceed ==
    ASSUME TypeInv, [Next]_vars, NEW d \in Deployment, status[d] # "SUCCEEDED",
           ~\E w \in Worker : Succeed(w),
           ~\E w \in Worker, e \in Deployment : ReconcileActive(w, e)
    PROVE  status'[d] # "SUCCEEDED"
<1> USE JobsAssumption
<1>0. \A w \in Worker : pc[w] # "idle" => dep[w] \in Deployment
  BY DEF TypeInv, ClaimHeld
<1>1. CASE \E w \in Worker : WorkerStep(w)
  <2>1. PICK w \in Worker : WorkerStep(w)
    BY <1>1
  <2>2. CASE \E e \in Deployment : ClaimNext(w, e)
    BY <2>2 DEF ClaimNext, TypeInv, TypeOK
  <2>3. CASE \E s \in Stages : Stage(w, s)
    BY <2>3 DEF Stage, Stages, TypeInv, TypeOK
  <2>4. CASE RetryJob(w) \/ FailJob(w)
    BY <2>4 DEF RetryJob, FailJob, TypeInv, TypeOK
  <2>5. CASE UNCHANGED status
    BY <2>5
  <2>6. \/ \E e \in Deployment : ClaimNext(w, e)
        \/ \E s \in Stages : Stage(w, s)
        \/ RetryJob(w) \/ FailJob(w) \/ UNCHANGED status
    BY <2>1 DEF WorkerStep, Heartbeat, ClaimLost, ClaimLostInActivate, RecoverActive, RecoverAdopt,
       RecoverUncertain, RecoverSafe, ResetCandidate, StageBuilding, StageStarting,
       StageHealthChecking, StageActivating, AlreadyActive, Activate, RetirePrevious, Fail,
       RecordDiagnostics, SkipDiagnostics, CleanupCandidate, HandleAgain, Stages, dbVars
  <2> QED
    BY <2>2, <2>3, <2>4, <2>5, <2>6
<1>2. CASE \E e \in Deployment : Create(e)
  BY <1>2 DEF Create, TypeInv, TypeOK
<1>3. CASE ~\E w \in Worker : WorkerStep(w)
  <2>1. (\E e \in Deployment : Create(e)) \/ UNCHANGED status
    BY <1>3 DEF Next, RequestDeletion, ReconcileCleaned, Crash, LeaseExpires, vars, dbVars
  <2> QED
    BY <1>2, <2>1
<1> QED
  BY <1>1, <1>3

\* and no other step removes containers.
LEMMA OthersKeepContainers ==
    ASSUME TypeInv, [Next]_vars, NEW d \in Deployment, candidate[d],
           ~\E w \in Worker : ResetCandidate(w) \/ RetirePrevious(w),
           ~\E w \in Worker, code \in Failures : CleanupCandidate(w, code),
           ~\E w \in Worker, e \in Deployment : ReconcileActive(w, e) \/ ReconcileCleaned(w, e)
    PROVE  candidate'[d]
<1>1. CASE \E w \in Worker : WorkerStep(w)
  <2>1. PICK w \in Worker : WorkerStep(w)
    BY <1>1
  <2>2. CASE StageStarting(w)
    BY <2>2 DEF StageStarting, TypeInv, TypeOK
  <2>3. CASE UNCHANGED candidate
    BY <2>3
  <2>4. StageStarting(w) \/ UNCHANGED candidate
    BY <2>1 DEF WorkerStep, ClaimNext, Heartbeat, ClaimLost, ClaimLostInActivate, RecoverActive,
       RecoverAdopt, RecoverUncertain, RecoverSafe, StageBuilding, StageHealthChecking,
       StageActivating, AlreadyActive, Activate, Fail, Succeed, RecordDiagnostics,
       SkipDiagnostics, RetryJob, FailJob, HandleAgain, runtimeVars
  <2> QED
    BY <2>2, <2>3, <2>4
<1>2. CASE ~\E w \in Worker : WorkerStep(w)
  <2>1. UNCHANGED candidate
    BY <1>2 DEF Next, Create, RequestDeletion, Crash, LeaseExpires, vars, runtimeVars
  <2> QED
    BY <2>1
<1> QED
  BY <1>1, <1>2

\* With one worker a deployment becomes SUCCEEDED only while its project's row
\* names it: nobody switches the row between activate() and succeed().
THEOREM SucceedsActive ==
    ASSUME OneWorker
    PROVE  Spec => SuccessIsActive
<1> DEFINE Step == \A d \in Deployment :
          status[d] # "SUCCEEDED" /\ status'[d] = "SUCCEEDED" => active'[ProjectOf[d]] = d
<1>1. ASSUME PreviewInv, [Next]_vars
      PROVE  Step
  <2> USE JobsAssumption
  <2>1. SUFFICES ASSUME NEW d \in Deployment, status[d] # "SUCCEEDED", status'[d] = "SUCCEEDED"
                 PROVE  active'[ProjectOf[d]] = d
    OBVIOUS
  <2>2. TypeInv /\ Effect
    BY <1>1, StepEffect DEF PreviewInv
  <2>3. CASE \E w \in Worker : Succeed(w)
    <3>1. PICK w \in Worker : Succeed(w)
      BY <2>3
    <3>2. WorkInv(w) /\ pc[w] = "finishing" /\ UNCHANGED active /\ d = dep[w]
      BY <1>1, <2>1, <2>2, <3>1 DEF Succeed, PreviewInv, TypeInv, TypeOK, runtimeVars
    <3> QED
      BY <3>2 DEF WorkInv, Own
  <2>4. CASE \E w \in Worker, e \in Deployment : ReconcileActive(w, e)
    <3>1. PICK w \in Worker, e \in Deployment : ReconcileActive(w, e)
      BY <2>4
    <3>2. e = d
      BY <2>1, <2>2, <3>1 DEF ReconcileActive, TypeInv, TypeOK
    <3> QED
      BY <2>2, <3>1, <3>2 DEF ReconcileActive, TypeInv, TypeOK, runtimeVars
  <2>5. CASE /\ ~\E w \in Worker : Succeed(w)
             /\ ~\E w \in Worker, e \in Deployment : ReconcileActive(w, e)
    <3>1. status'[d] # "SUCCEEDED"
      BY <1>1, <2>1, <2>2, <2>5, OthersDoNotSucceed
    <3> QED
      BY <2>1, <3>1
  <2> QED
    BY <2>3, <2>4, <2>5
<1>2. PreviewInv /\ [Next]_vars => [Step]_vars
  BY <1>1
<1> QED
  BY <1>2, PreviewInvariant, PTL DEF Spec, SuccessIsActive

\* With one worker, and no database error while the failure is recorded, from the
\* moment a recovery is found uncertain until the next claim only a reconciliation
\* removes the containers of a deployment. With such an error they may be gone:
\* run_once then handles a second failure, with the cleanup.
THEOREM UncertainKeepsContainers ==
    ASSUME OneWorker, ~LateErrors
    PROVE  Spec => UncertainIsPreserved
<1> DEFINE Step == \A d \in Deployment :
          candidate[d] /\ ~candidate'[d] =>
             /\ failure[d] = "RECOVERY_STATE_UNCERTAIN" => UNCHANGED workerVars
             /\ \A w \in Worker : dep[w] = d => recovery[w] \notin {"uncertain", "overruled"}
<1>1. ASSUME PreviewInv, [Next]_vars
      PROVE  Step
  <2> USE JobsAssumption
  <2>1. SUFFICES ASSUME NEW d \in Deployment, candidate[d], ~candidate'[d]
                 PROVE  /\ failure[d] = "RECOVERY_STATE_UNCERTAIN" => UNCHANGED workerVars
                        /\ \A w \in Worker : dep[w] = d => recovery[w] \notin {"uncertain", "overruled"}
    OBVIOUS
  <2>2. TypeInv /\ RowsInv /\ \A w \in Worker : WorkInv(w)
    BY <1>1 DEF PreviewInv
  <2>3. ASSUME NEW w \in Worker, pc[w] \in {"preparing", "activated", "cleanup"},
               failure[d] # "RECOVERY_STATE_UNCERTAIN"
        PROVE  /\ failure[d] = "RECOVERY_STATE_UNCERTAIN" => UNCHANGED workerVars
               /\ \A v \in Worker : dep[v] = d => recovery[v] \notin {"uncertain", "overruled"}
    BY <2>2, <2>3 DEF WorkInv, Noted, OneWorker
  <2>4. ASSUME NEW w \in Worker, pc[w] = "idle", UNCHANGED workerVars
        PROVE  /\ failure[d] = "RECOVERY_STATE_UNCERTAIN" => UNCHANGED workerVars
               /\ \A v \in Worker : dep[v] = d => recovery[v] \notin {"uncertain", "overruled"}
    BY <2>2, <2>4 DEF WorkInv, Noted, OneWorker
  <2>5. CASE \E w \in Worker : ResetCandidate(w)
    <3>1. PICK w \in Worker : ResetCandidate(w)
      BY <2>5
    <3>2. pc[w] = "preparing" /\ d = dep[w]
      BY <2>1, <2>2, <3>1 DEF ResetCandidate, TypeInv, TypeOK
    <3> QED
      BY <2>2, <2>3, <3>2 DEF WorkInv, Failures, Retryable
  <2>6. CASE \E w \in Worker : RetirePrevious(w)
    <3>1. PICK w \in Worker : RetirePrevious(w)
      BY <2>6
    <3>2. pc[w] = "activated" /\ Remove(prev[w])
      BY <3>1 DEF RetirePrevious
    <3>3. d = prev[w]
      BY <2>1, <2>2, <3>2, RemovedOnly
    <3> QED
      BY <2>2, <2>3, <3>2, <3>3 DEF WorkInv
  <2>7. CASE \E w \in Worker, code \in Failures : CleanupCandidate(w, code)
    <3>1. PICK w \in Worker, code \in Failures : CleanupCandidate(w, code)
      BY <2>7
    <3>2. pc[w] = "cleanup" /\ Remove(dep[w])
      BY <3>1 DEF CleanupCandidate
    <3>3. d = dep[w]
      BY <2>1, <2>2, <3>2, RemovedOnly
    <3> QED
      BY <2>2, <2>3, <3>2, <3>3 DEF WorkInv, Failures, Retryable
  <2>8. CASE \E w \in Worker, e \in Deployment : ReconcileActive(w, e) \/ ReconcileCleaned(w, e)
    BY <2>4, <2>8 DEF ReconcileActive, ReconcileCleaned
  <2>9. CASE /\ ~\E w \in Worker : ResetCandidate(w) \/ RetirePrevious(w)
             /\ ~\E w \in Worker, code \in Failures : CleanupCandidate(w, code)
             /\ ~\E w \in Worker, e \in Deployment : ReconcileActive(w, e) \/ ReconcileCleaned(w, e)
    <3>1. candidate[d] => candidate'[d]
      BY <1>1, <2>2, <2>9, OthersKeepContainers
    <3> QED
      BY <2>1, <3>1
  <2> QED
    BY <2>5, <2>6, <2>7, <2>8, <2>9
<1>2. PreviewInv /\ [Next]_vars => [Step]_vars
  BY <1>1
<1> QED
  BY <1>2, PreviewInvariant, PTL DEF Spec, UncertainIsPreserved
=============================================================================
