------------------------- MODULE Gateway_proofs -------------------------
(* The gateway keeps the containers of the active generation, no attempt tears *)
(* down what NGINX runs, and without a crash a failing command leaves the      *)
(* preview served: for any deployments and any number of attempts, crashes,    *)
(* failing commands and stops.                                                 *)
EXTENDS Gateway, TLAPS

-----------------------------------------------------------------------------
(* The inductive invariant *)

\* The labels before the commit, where the previous generation is the active one,
\* and those after it, or after the adoption.
Building == {"process", "files", "filesLast", "ensure", "ensureStart", "port", "connect",
             "replace", "reload", "probe", "rebaseRemove", "rebaseStart", "reprobe", "commit"}
Undoing == {"undo", "undoRebase", "undoReload", "undoRemove", "undoStart"}
Rebasing == {"rebaseRemove", "rebaseStart", "reprobe", "undoRebase", "undoRemove", "undoStart"}
Switched == {"probe", "rebaseRemove", "rebaseStart", "reprobe", "commit", "record"}
Behind == Building \cup Undoing \cup {"restoring", "detaching", "rollback", "cleanup", "close"}
Ahead == {"adopting", "record", "promote", "retire", "finish"}

\* What the worker is doing: an open deployment, or the reconciliation of an
\* uncertain one, which never rebuilds; before the switch it is not active, after
\* it is.
WorkInv ==
    /\ At("idle") => dep = None /\ mode = "deploy" /\ ~rebase
    /\ ~At("idle") => /\ dep \in Deployment
                      /\ status[dep] = (IF mode = "deploy" THEN "open" ELSE "UNCERTAIN")
    /\ pc \in Building \cup Undoing => mode = "deploy"
    /\ pc \in Behind => active # dep
    /\ pc \in Ahead => active = dep
    /\ rebase => active \in Deployment
    /\ pc \in Rebasing => rebase

\* A deployment nobody attempted has left no trace, and one project has one open
\* deployment.
AttemptsInv ==
    /\ \A d \in Deployment : attempts[d] = 0 =>
         /\ d \notin {loaded, current, lastGood, active, kept}
         /\ status[d] # "UNCERTAIN"
         /\ ~At("idle") => d # dep
    /\ \A d \in Deployment : status[d] = "new" => attempts[d] = 0
    /\ \A d, e \in Deployment : status[d] = "open" /\ status[e] = "open" => d = e

\* The generation that is built or active has its containers.
UpInv ==
    /\ pc \in Building \ {"process"} => dep \in up
    /\ active # None => active \in up

\* What NGINX runs and would restart with.
ConfigInv ==
    /\ state # "up" => loaded = None
    /\ At("process") => dep \notin {loaded, current}
    /\ pc \in {"restoring", "detaching"} /\ mode = "deploy" => current # dep
    /\ pc \in Switched \cup {"reload"} => current = dep
    /\ pc \in Switched \cup {"adopting"} => loaded \in {dep, None}
    /\ At("adopting") => state = "up"

\* last-good.config is never that of an open deployment, unless it is active: then
\* current.conf is its configuration too, and NGINX runs no other.
LastGoodInv ==
    \A d \in Deployment : status[d] = "open" /\ lastGood = d =>
        active = d /\ current = d /\ loaded \in {d, None}

GatewayInv == TypeOK /\ WorkInv /\ AttemptsInv /\ UpInv /\ ConfigInv /\ LastGoodInv

\* Everywhere: the assumption, the frames and the small actions every step is made of.
USE GatewayAssumption
    DEF At, Goto, Raise, Fails, jobVars, fileVars, gatewayVars, generationVars, localVars, budget,
        Building, Undoing, Rebasing, Switched, Behind, Ahead

LEMMA InitGatewayInv == Init => GatewayInv
<1> SUFFICES ASSUME Init PROVE GatewayInv
  OBVIOUS
<1>1. TypeOK
  <2>1. /\ status \in [Deployment -> {"new", "open", "SUCCEEDED", "FAILED", "UNCERTAIN"}]
        /\ attempts \in [Deployment -> Nat]
    BY DEF Init
  <2>2. crashes \in 0..MaxCrashes /\ failures \in 0..MaxFailures /\ stops \in 0..MaxStops
    BY DEF Init
  <2> QED
    BY <2>1, <2>2 DEF Init, TypeOK, Labels, Config
<1> QED
  BY <1>1 DEF Init, GatewayInv, WorkInv, AttemptsInv, UpInv, ConfigInv, LastGoodInv

-----------------------------------------------------------------------------
(* One lemma for each group of steps *)

\* What recover() does with an active deployment, a missing gateway or one it does not
\* understand.
LEMMA RecoveryKeeps ==
    ASSUME GatewayInv, RecoverActive \/ RecoverAbsent \/ RecoverUnknown \/ RecoverFails
    PROVE  GatewayInv'
<1> USE DEF RecoverActive, RecoverAbsent, RecoverUnknown, RecoverFails, Uncertain,
        SafeToRetry, MatchesPrevious, Reachable
<1>1. TypeOK'
  BY DEF GatewayInv, TypeOK, WorkInv, Labels, Config
<1>2. WorkInv'
  BY DEF GatewayInv, TypeOK, WorkInv, AttemptsInv, UpInv, ConfigInv, LastGoodInv
<1>3. AttemptsInv'
  BY DEF GatewayInv, TypeOK, WorkInv, AttemptsInv, UpInv, ConfigInv, LastGoodInv
<1>4. UpInv'
  BY DEF GatewayInv, TypeOK, WorkInv, AttemptsInv, UpInv, ConfigInv, LastGoodInv
<1>5. ConfigInv'
  BY DEF GatewayInv, TypeOK, WorkInv, AttemptsInv, UpInv, ConfigInv, LastGoodInv
<1>6. LastGoodInv'
  BY DEF GatewayInv, TypeOK, WorkInv, AttemptsInv, UpInv, ConfigInv, LastGoodInv
<1> QED
  BY <1>1, <1>2, <1>3, <1>4, <1>5, <1>6 DEF GatewayInv

\* recover() adopts what the gateway serves: an open deployment that is recorded as last
\* good would be active, so the active one is settled or NGINX runs it.
LEMMA AdoptionKeeps ==
    ASSUME GatewayInv, RecoverAdopt \/ AdoptConfig
    PROVE  GatewayInv'
<1> USE DEF RecoverAdopt, AdoptConfig, Serves, Reachable
<1>1. TypeOK'
  BY DEF GatewayInv, TypeOK, WorkInv, Labels, Config
<1>2. WorkInv'
  BY DEF GatewayInv, TypeOK, WorkInv, AttemptsInv, UpInv, ConfigInv, LastGoodInv
<1>3. AttemptsInv'
  BY DEF GatewayInv, TypeOK, WorkInv, AttemptsInv, UpInv, ConfigInv, LastGoodInv
<1>4. UpInv'
  BY DEF GatewayInv, TypeOK, WorkInv, AttemptsInv, UpInv, ConfigInv, LastGoodInv
<1>5. ConfigInv'
  BY DEF GatewayInv, TypeOK, WorkInv, AttemptsInv, UpInv, ConfigInv, LastGoodInv
<1>6. LastGoodInv'
  BY DEF GatewayInv, TypeOK, WorkInv, AttemptsInv, UpInv, ConfigInv, LastGoodInv
<1> QED
  BY <1>1, <1>2, <1>3, <1>4, <1>5, <1>6 DEF GatewayInv

\* _restore_previous_generation: the file is restored from last-good.config, which is not
\* that of the open deployment.
LEMMA RestoreKeeps ==
    ASSUME GatewayInv, RecoverRestore \/ RestoreReload \/ RestoreDetach
    PROVE  GatewayInv'
<1> USE DEF RecoverRestore, RestoreReload, RestoreDetach, Uncertain, SafeToRetry,
        MatchesPrevious, Reachable, Serves, Reload, CanReload, Resolves
<1>1. TypeOK'
  BY DEF GatewayInv, TypeOK, WorkInv, Labels, Config
<1>2. WorkInv'
  BY DEF GatewayInv, TypeOK, WorkInv, AttemptsInv, UpInv, ConfigInv, LastGoodInv
<1>3. AttemptsInv'
  BY DEF GatewayInv, TypeOK, WorkInv, AttemptsInv, UpInv, ConfigInv, LastGoodInv
<1>4. UpInv'
  BY DEF GatewayInv, TypeOK, WorkInv, AttemptsInv, UpInv, ConfigInv, LastGoodInv
<1>5. ConfigInv'
  BY DEF GatewayInv, TypeOK, WorkInv, AttemptsInv, UpInv, ConfigInv, LastGoodInv
<1>6. LastGoodInv'
  BY DEF GatewayInv, TypeOK, WorkInv, AttemptsInv, UpInv, ConfigInv, LastGoodInv
<1> QED
  BY <1>1, <1>2, <1>3, <1>4, <1>5, <1>6 DEF GatewayInv

\* process() and the first files.
LEMMA PreparationKeeps ==
    ASSUME GatewayInv, StartCandidate \/ DefaultCurrent \/ DefaultLastGood
    PROVE  GatewayInv'
<1> USE DEF StartCandidate, DefaultCurrent, DefaultLastGood
<1>1. TypeOK'
  BY DEF GatewayInv, TypeOK, WorkInv, Labels, Config
<1>2. WorkInv'
  BY DEF GatewayInv, TypeOK, WorkInv, AttemptsInv, UpInv, ConfigInv, LastGoodInv
<1>3. AttemptsInv'
  BY DEF GatewayInv, TypeOK, WorkInv, AttemptsInv, UpInv, ConfigInv, LastGoodInv
<1>4. UpInv'
  BY DEF GatewayInv, TypeOK, WorkInv, AttemptsInv, UpInv, ConfigInv, LastGoodInv
<1>5. ConfigInv'
  BY DEF GatewayInv, TypeOK, WorkInv, AttemptsInv, UpInv, ConfigInv, LastGoodInv
<1>6. LastGoodInv'
  BY DEF GatewayInv, TypeOK, WorkInv, AttemptsInv, UpInv, ConfigInv, LastGoodInv
<1> QED
  BY <1>1, <1>2, <1>3, <1>4, <1>5, <1>6 DEF GatewayInv

\* _ensure_gateway.
LEMMA EnsureKeeps ==
    ASSUME GatewayInv, EnsureGateway \/ EnsureStart \/ PublishedPort
    PROVE  GatewayInv'
<1> USE DEF EnsureGateway, EnsureStart, PublishedPort, RemoveGateway, StartGateway, StartOn,
        EnsureNetwork, Resolves
<1>1. TypeOK'
  <2>1. rebase' \in BOOLEAN
    BY ZenonT(30) DEF GatewayInv, TypeOK
  <2>2. EnsureNetwork \in Deployment \/ ~At("ensureStart")
    BY DEF GatewayInv, TypeOK, WorkInv
  <2> QED
    BY <2>1, <2>2 DEF GatewayInv, TypeOK, Labels, Config
<1>2. WorkInv'
  BY DEF GatewayInv, TypeOK, WorkInv, AttemptsInv, UpInv, ConfigInv, LastGoodInv
<1>3. AttemptsInv'
  BY DEF GatewayInv, TypeOK, WorkInv, AttemptsInv, UpInv, ConfigInv, LastGoodInv
<1>4. UpInv'
  BY DEF GatewayInv, TypeOK, WorkInv, AttemptsInv, UpInv, ConfigInv, LastGoodInv
<1>5. ConfigInv'
  BY DEF GatewayInv, TypeOK, WorkInv, AttemptsInv, UpInv, ConfigInv, LastGoodInv
<1>6. LastGoodInv'
  BY DEF GatewayInv, TypeOK, WorkInv, AttemptsInv, UpInv, ConfigInv, LastGoodInv
<1> QED
  BY <1>1, <1>2, <1>3, <1>4, <1>5, <1>6 DEF GatewayInv

\* The switch of the configuration.
LEMMA SwitchKeeps ==
    ASSUME GatewayInv, ConnectAndTest \/ ReplaceConfig \/ ReloadConfig \/ Probe
    PROVE  GatewayInv'
<1> USE DEF ConnectAndTest, ReplaceConfig, ReloadConfig, Probe, Reload, CanReload, Resolves,
        ProbeRoutes, ProbeOK, Serves, Reachable
<1>1. TypeOK'
  BY DEF GatewayInv, TypeOK, WorkInv, Labels, Config
<1>2. WorkInv'
  BY DEF GatewayInv, TypeOK, WorkInv, AttemptsInv, UpInv, ConfigInv, LastGoodInv
<1>3. AttemptsInv'
  BY DEF GatewayInv, TypeOK, WorkInv, AttemptsInv, UpInv, ConfigInv, LastGoodInv
<1>4. UpInv'
  BY DEF GatewayInv, TypeOK, WorkInv, AttemptsInv, UpInv, ConfigInv, LastGoodInv
<1>5. ConfigInv'
  BY DEF GatewayInv, TypeOK, WorkInv, AttemptsInv, UpInv, ConfigInv, LastGoodInv
<1>6. LastGoodInv'
  BY DEF GatewayInv, TypeOK, WorkInv, AttemptsInv, UpInv, ConfigInv, LastGoodInv
<1> QED
  BY <1>1, <1>2, <1>3, <1>4, <1>5, <1>6 DEF GatewayInv

\* _recreate_gateway_on_network.
LEMMA RebaseKeeps ==
    ASSUME GatewayInv, RebaseRemove \/ RebaseStart \/ Reprobe
    PROVE  GatewayInv'
<1> USE DEF RebaseRemove, RebaseStart, Reprobe, RemoveGateway, StartGateway, StartOn,
        Resolves, ProbeRoutes, ProbeOK, Serves, Reachable
<1>1. TypeOK'
  BY DEF GatewayInv, TypeOK, WorkInv, Labels, Config
<1>2. WorkInv'
  BY DEF GatewayInv, TypeOK, WorkInv, AttemptsInv, UpInv, ConfigInv, LastGoodInv
<1>3. AttemptsInv'
  BY DEF GatewayInv, TypeOK, WorkInv, AttemptsInv, UpInv, ConfigInv, LastGoodInv
<1>4. UpInv'
  BY DEF GatewayInv, TypeOK, WorkInv, AttemptsInv, UpInv, ConfigInv, LastGoodInv
<1>5. ConfigInv'
  BY DEF GatewayInv, TypeOK, WorkInv, AttemptsInv, UpInv, ConfigInv, LastGoodInv
<1>6. LastGoodInv'
  BY DEF GatewayInv, TypeOK, WorkInv, AttemptsInv, UpInv, ConfigInv, LastGoodInv
<1> QED
  BY <1>1, <1>2, <1>3, <1>4, <1>5, <1>6 DEF GatewayInv

\* The commit and what follows it.
LEMMA CommitmentKeeps ==
    ASSUME GatewayInv, Commit \/ RecordLastGood \/ Promote \/ RetirePrevious
    PROVE  GatewayInv'
<1> USE DEF Commit, RecordLastGood, Promote, RetirePrevious
<1>1. TypeOK'
  BY DEF GatewayInv, TypeOK, WorkInv, Labels, Config
<1>2. WorkInv'
  BY DEF GatewayInv, TypeOK, WorkInv, AttemptsInv, UpInv, ConfigInv, LastGoodInv
<1>3. AttemptsInv'
  BY DEF GatewayInv, TypeOK, WorkInv, AttemptsInv, UpInv, ConfigInv, LastGoodInv
<1>4. UpInv'
  BY DEF GatewayInv, TypeOK, WorkInv, AttemptsInv, UpInv, ConfigInv, LastGoodInv
<1>5. ConfigInv'
  BY DEF GatewayInv, TypeOK, WorkInv, AttemptsInv, UpInv, ConfigInv, LastGoodInv
<1>6. LastGoodInv'
  BY DEF GatewayInv, TypeOK, WorkInv, AttemptsInv, UpInv, ConfigInv, LastGoodInv
<1> QED
  BY <1>1, <1>2, <1>3, <1>4, <1>5, <1>6 DEF GatewayInv

\* The except block of activate().
LEMMA UndoKeeps ==
    ASSUME GatewayInv, Undo \/ UndoReload \/ UndoRemove \/ UndoStart
    PROVE  GatewayInv'
<1> USE DEF Undo, UndoReload, UndoRemove, UndoStart, Reload, CanReload, RemoveGateway,
        StartGateway, StartOn, Resolves
<1>1. TypeOK'
  BY DEF GatewayInv, TypeOK, WorkInv, Labels, Config
<1>2. WorkInv'
  BY DEF GatewayInv, TypeOK, WorkInv, AttemptsInv, UpInv, ConfigInv, LastGoodInv
<1>3. AttemptsInv'
  BY DEF GatewayInv, TypeOK, WorkInv, AttemptsInv, UpInv, ConfigInv, LastGoodInv
<1>4. UpInv'
  BY DEF GatewayInv, TypeOK, WorkInv, AttemptsInv, UpInv, ConfigInv, LastGoodInv
<1>5. ConfigInv'
  BY DEF GatewayInv, TypeOK, WorkInv, AttemptsInv, UpInv, ConfigInv, LastGoodInv
<1>6. LastGoodInv'
  BY DEF GatewayInv, TypeOK, WorkInv, AttemptsInv, UpInv, ConfigInv, LastGoodInv
<1> QED
  BY <1>1, <1>2, <1>3, <1>4, <1>5, <1>6 DEF GatewayInv

\* _handle_failure.
LEMMA CleanUpKeeps ==
    ASSUME GatewayInv, RollbackCandidate \/ CleanupCandidate
    PROVE  GatewayInv'
<1> USE DEF RollbackCandidate, CleanupCandidate, Restored, Resolves
<1>1. TypeOK'
  BY DEF GatewayInv, TypeOK, WorkInv, Labels, Config
<1>2. WorkInv'
  BY DEF GatewayInv, TypeOK, WorkInv, AttemptsInv, UpInv, ConfigInv, LastGoodInv
<1>3. AttemptsInv'
  BY DEF GatewayInv, TypeOK, WorkInv, AttemptsInv, UpInv, ConfigInv, LastGoodInv
<1>4. UpInv'
  BY DEF GatewayInv, TypeOK, WorkInv, AttemptsInv, UpInv, ConfigInv, LastGoodInv
<1>5. ConfigInv'
  BY DEF GatewayInv, TypeOK, WorkInv, AttemptsInv, UpInv, ConfigInv, LastGoodInv
<1>6. LastGoodInv'
  BY DEF GatewayInv, TypeOK, WorkInv, AttemptsInv, UpInv, ConfigInv, LastGoodInv
<1> QED
  BY <1>1, <1>2, <1>3, <1>4, <1>5, <1>6 DEF GatewayInv

\* The ends of an attempt.
LEMMA EndKeeps ==
    ASSUME GatewayInv, CloseJob \/ CloseReconciliation \/ Succeed \/ Crash
    PROVE  GatewayInv'
<1> USE DEF CloseJob, CloseReconciliation, Succeed, Crash, Settle, Forget
<1>1. TypeOK'
  <2>1. status' \in [Deployment -> {"new", "open", "SUCCEEDED", "FAILED", "UNCERTAIN"}]
    BY DEF GatewayInv, TypeOK
  <2>2. /\ pc' \in Labels /\ dep' \in Deployment \cup {None}
        /\ kept' \in Config /\ old' \in Deployment \cup {None} /\ rebase' \in BOOLEAN
        /\ mode' \in {"deploy", "safe", "force"}
        /\ failure' \in {"none", "fatal", "retryable", "uncertain"}
    BY DEF Labels, Config
  <2>3. crashes' \in 0..MaxCrashes /\ UNCHANGED <<attempts, active, current, lastGood>>
        /\ UNCHANGED <<state, loaded, base, nets, up, promoted, failures, stops>>
    BY DEF GatewayInv, TypeOK
  <2> QED
    BY <2>1, <2>2, <2>3 DEF GatewayInv, TypeOK
<1>2. WorkInv'
  BY DEF GatewayInv, TypeOK, WorkInv, AttemptsInv, UpInv, ConfigInv, LastGoodInv
<1>3. AttemptsInv'
  BY DEF GatewayInv, TypeOK, WorkInv, AttemptsInv, UpInv, ConfigInv, LastGoodInv
<1>4. UpInv'
  BY DEF GatewayInv, TypeOK, WorkInv, AttemptsInv, UpInv, ConfigInv, LastGoodInv
<1>5. ConfigInv'
  BY DEF GatewayInv, TypeOK, WorkInv, AttemptsInv, UpInv, ConfigInv, LastGoodInv
<1>6. LastGoodInv'
  BY DEF GatewayInv, TypeOK, WorkInv, AttemptsInv, UpInv, ConfigInv, LastGoodInv
<1> QED
  BY <1>1, <1>2, <1>3, <1>4, <1>5, <1>6 DEF GatewayInv

\* Docker and the operator.
LEMMA WorldKeeps ==
    ASSUME GatewayInv, RestartLoop \/ StopGateway
    PROVE  GatewayInv'
<1> USE DEF RestartLoop, StopGateway, Resolves
<1>1. TypeOK'
  BY DEF GatewayInv, TypeOK, WorkInv, Labels, Config
<1>2. WorkInv'
  BY DEF GatewayInv, TypeOK, WorkInv, AttemptsInv, UpInv, ConfigInv, LastGoodInv
<1>3. AttemptsInv'
  BY DEF GatewayInv, TypeOK, WorkInv, AttemptsInv, UpInv, ConfigInv, LastGoodInv
<1>4. UpInv'
  BY DEF GatewayInv, TypeOK, WorkInv, AttemptsInv, UpInv, ConfigInv, LastGoodInv
<1>5. ConfigInv'
  BY DEF GatewayInv, TypeOK, WorkInv, AttemptsInv, UpInv, ConfigInv, LastGoodInv
<1>6. LastGoodInv'
  BY DEF GatewayInv, TypeOK, WorkInv, AttemptsInv, UpInv, ConfigInv, LastGoodInv
<1> QED
  BY <1>1, <1>2, <1>3, <1>4, <1>5, <1>6 DEF GatewayInv

\* A deployment is requested, claimed or reconciled.
LEMMA BeginKeeps ==
    ASSUME GatewayInv, NEW d \in Deployment,
           Request(d) \/ Claim(d) \/ \E action \in {"safe", "force"} : Reconcile(d, action)
    PROVE  GatewayInv'
<1> USE DEF Request, Claim, Reconcile
<1>1. TypeOK'
  BY DEF GatewayInv, TypeOK, WorkInv, Labels, Config
<1>2. WorkInv'
  BY DEF GatewayInv, TypeOK, WorkInv, AttemptsInv, UpInv, ConfigInv, LastGoodInv
<1>3. AttemptsInv'
  BY DEF GatewayInv, TypeOK, WorkInv, AttemptsInv, UpInv, ConfigInv, LastGoodInv
<1>4. UpInv'
  BY DEF GatewayInv, TypeOK, WorkInv, AttemptsInv, UpInv, ConfigInv, LastGoodInv
<1>5. ConfigInv'
  BY DEF GatewayInv, TypeOK, WorkInv, AttemptsInv, UpInv, ConfigInv, LastGoodInv
<1>6. LastGoodInv'
  BY DEF GatewayInv, TypeOK, WorkInv, AttemptsInv, UpInv, ConfigInv, LastGoodInv
<1> QED
  BY <1>1, <1>2, <1>3, <1>4, <1>5, <1>6 DEF GatewayInv

LEMMA NextGatewayInv == ASSUME GatewayInv, [Next]_vars PROVE GatewayInv'
<1>1. CASE UNCHANGED vars
  BY <1>1 DEF vars, GatewayInv, TypeOK, WorkInv, AttemptsInv, UpInv, ConfigInv, LastGoodInv
<1>2. CASE Recover
  BY <1>2, RecoveryKeeps, AdoptionKeeps, RestoreKeeps DEF Recover
<1>3. CASE Activate
  BY <1>3, PreparationKeeps, EnsureKeeps, SwitchKeeps, RebaseKeeps, CommitmentKeeps DEF Activate
<1>4. CASE HandleFailure
  BY <1>4, UndoKeeps, CleanUpKeeps, EndKeeps DEF HandleFailure
<1> QED
  BY <1>1, <1>2, <1>3, <1>4, BeginKeeps, EndKeeps, WorldKeeps DEF Next, Work

LEMMA GatewayInvariant == Spec => []GatewayInv
<1>1. GatewayInv /\ [Next]_vars => GatewayInv'
  BY NextGatewayInv
<1> QED
  BY InitGatewayInv, <1>1, PTL DEF Spec

\* The row never names a generation whose containers were removed: retiring removes the
\* generation the row named before, and a candidate is cleaned up only while it is not
\* the active one, through crashes between any two commands and every reconciliation.
THEOREM ActiveHasContainers == Spec => []ActiveGenerationExists
<1>1. GatewayInv => ActiveGenerationExists
  BY DEF GatewayInv, UpInv, ActiveGenerationExists
<1> QED
  BY <1>1, GatewayInvariant, PTL

\* What an attempt rebuilds is neither active, nor what NGINX runs, nor what it would
\* restart with; and what is rolled back is not active.
THEOREM NothingServedIsRebuilt == Spec => []RebuiltIsNotServed
<1>1. GatewayInv => RebuiltIsNotServed
  BY DEF GatewayInv, WorkInv, ConfigInv, RebuiltIsNotServed
<1> QED
  BY <1>1, GatewayInvariant, PTL

-----------------------------------------------------------------------------
(* Without a crash, and with one failing command: where the files, the row and *)
(* the gateway stand at every label                                            *)

\* No crash, and one failing command at most.
Calm == crashes = 0 /\ failures <= 1

Previous == IF active = None THEN Default ELSE active

\* After the first failure: what recovers, undoes and cleans up.
Failed == {"recover", "detaching", "rollback", "cleanup", "close"} \cup Undoing

\* The labels at which current.conf is the candidate's, and those before and after.
Written == {"reload", "probe", "rebaseRemove", "rebaseStart", "reprobe", "commit",
            "undo", "undoRebase"}
Unwritten == {"ensure", "ensureStart", "port", "connect", "replace",
              "undoReload", "undoRemove", "undoStart"}
Resting == {"idle", "recover", "detaching", "process", "files", "filesLast", "ensure",
            "cleanup", "close"}

CalmJobs ==
    /\ failures = 0 => /\ pc \notin Failed
                       /\ \A d \in Deployment : /\ status[d] # "UNCERTAIN"
                                                /\ status[d] = "open" /\ d # dep => attempts[d] = 0
    /\ pc \notin {"adopting", "restoring"}
    /\ active # None /\ pc \notin Ahead => status[active] = "SUCCEEDED"
    /\ failures = 0 /\ active # None /\ pc \notin {"record", "promote"} => active \in promoted

CalmFiles ==
    /\ pc \in Written => current = dep /\ kept = Previous
    /\ pc \in Unwritten => current = Previous
    /\ pc \notin Written \cup Unwritten \cup Ahead =>
         current = active \/ (active = None /\ current = Default)
    /\ At("filesLast") => active = None /\ current = Default
    /\ pc \in Ahead => current = dep
    /\ active # None /\ ~At("record") => lastGood = active
    /\ active = None => lastGood \in {None, Default}
    /\ active = None /\ current # None /\ ~At("filesLast") => lastGood = Default

\* The gateway is up with the configuration of the active generation, on its network.
Stands ==
    /\ state = "up" /\ loaded = Previous
    /\ IF active = None THEN nets = {} /\ failures = 1 ELSE base = active /\ nets = {active}

\* It is not: before the first deployment, or because an operator stopped it.
Fallen ==
    /\ active = None \/ stops > 0
    /\ \/ state = "absent" /\ nets = {} /\ (active = None \/ failures = 1)
       \/ state = "stopped" /\ nets = {active} \ {None} /\ stops > 0
       \/ state = "looping" /\ nets = {} /\ active # None /\ failures = 1

\* It was started for the first time, or in vain on the network of the candidate.
Started ==
    /\ base = dep /\ nets = {dep}
    /\ \/ active = None /\ state = "up" /\ loaded = Default
       \/ active # None /\ state = "looping" /\ failures = 1 /\ stops > 0

\* It is up, and was connected to the network of the candidate, if that worked.
Connected ==
    /\ state = "up"
    /\ dep \in nets \/ failures = 1
    /\ IF active = None THEN base = dep /\ nets = {dep}
       ELSE rebase /\ base = active /\ nets \in {{active}, {active, dep}}

CalmGateway ==
    /\ pc \in Resting => Stands \/ Fallen
    /\ At("ensureStart") =>
         /\ state = "absent" /\ nets = {}
         /\ active = None \/ stops > 0
         /\ rebase \/ active = None \/ failures = 1
    /\ At("port") =>
         \/ Stands \/ Started
         \/ state = "looping" /\ nets = {} /\ active # None /\ failures = 1 /\ stops > 0
    /\ At("connect") => Stands \/ Started
    /\ pc \in {"port", "connect"} /\ active # None /\ state = "up" => rebase
    /\ pc \in {"connect", "replace", "reload"} => state = "up" /\ loaded = Previous
    /\ pc \in {"replace", "reload", "undo", "undoReload"} => Connected
    /\ pc \in {"undo", "undoReload"} => loaded \in {Previous, dep}
    /\ pc \in {"probe", "rebaseRemove"} => Connected /\ loaded = dep /\ dep \in nets
    /\ pc \in Rebasing => active # None
    /\ pc \in {"rebaseStart", "undoStart"} => state = "absent" /\ nets = {}
    /\ pc \in {"reprobe", "commit"} \cup Ahead =>
         state = "up" /\ loaded = dep /\ base = dep /\ nets = {dep}
    /\ At("commit") => rebase \/ active = None
    /\ At("rollback") =>
         \/ Stands \/ Fallen \/ Started
         \/ active = None /\ state = "up" /\ loaded = Default /\ nets = {dep}
         \/ active # None /\ state = "up" /\ loaded = active /\ base = active
            /\ nets = {active, dep}

CalmInv == Calm => CalmJobs /\ CalmFiles /\ CalmGateway

\* From here on, the parts of the calm too.
USE DEF Calm, Previous, Failed, Written, Unwritten, Resting, Stands, Fallen, Started, Connected

LEMMA InitCalmInv == Init => CalmInv
BY DEF Init, CalmInv, CalmJobs, CalmFiles, CalmGateway


LEMMA RecoveryKeepsCalm ==
    ASSUME GatewayInv, GatewayInv', CalmInv,
           RecoverActive \/ RecoverAbsent \/ RecoverUnknown \/ RecoverFails
    PROVE  CalmInv'
<1> USE DEF RecoverActive, RecoverAbsent, RecoverUnknown, RecoverFails, Uncertain,
        SafeToRetry, MatchesPrevious, Reachable, Serves
<1> SUFFICES ASSUME Calm' PROVE CalmJobs' /\ CalmFiles' /\ CalmGateway'
  BY DEF CalmInv
<1>0. CalmJobs /\ CalmFiles /\ CalmGateway /\ TypeOK'
  BY DEF CalmInv, GatewayInv, TypeOK
<1>1. CalmJobs'
  BY <1>0 DEF GatewayInv, TypeOK, WorkInv, AttemptsInv, UpInv, ConfigInv, LastGoodInv, CalmJobs, CalmFiles, CalmGateway
<1>2. CalmFiles'
  BY <1>0 DEF GatewayInv, TypeOK, WorkInv, AttemptsInv, UpInv, ConfigInv, LastGoodInv, CalmJobs, CalmFiles, CalmGateway
<1>3. CalmGateway'
  BY <1>0 DEF GatewayInv, TypeOK, WorkInv, AttemptsInv, UpInv, ConfigInv, LastGoodInv, CalmJobs, CalmFiles, CalmGateway
<1> QED
  BY <1>1, <1>2, <1>3

LEMMA AdoptionKeepsCalm ==
    ASSUME GatewayInv, GatewayInv', CalmInv,
           RecoverAdopt \/ AdoptConfig
    PROVE  CalmInv'
<1> USE DEF RecoverAdopt, AdoptConfig, Serves, Reachable
<1> SUFFICES ASSUME Calm' PROVE CalmJobs' /\ CalmFiles' /\ CalmGateway'
  BY DEF CalmInv
<1>0. CalmJobs /\ CalmFiles /\ CalmGateway /\ TypeOK'
  BY DEF CalmInv, GatewayInv, TypeOK
<1>1. CalmJobs'
  BY <1>0 DEF GatewayInv, TypeOK, WorkInv, AttemptsInv, UpInv, ConfigInv, LastGoodInv, CalmJobs, CalmFiles, CalmGateway
<1>2. CalmFiles'
  BY <1>0 DEF GatewayInv, TypeOK, WorkInv, AttemptsInv, UpInv, ConfigInv, LastGoodInv, CalmJobs, CalmFiles, CalmGateway
<1>3. CalmGateway'
  BY <1>0 DEF GatewayInv, TypeOK, WorkInv, AttemptsInv, UpInv, ConfigInv, LastGoodInv, CalmJobs, CalmFiles, CalmGateway
<1> QED
  BY <1>1, <1>2, <1>3

LEMMA RestoreKeepsCalm ==
    ASSUME GatewayInv, GatewayInv', CalmInv,
           RecoverRestore \/ RestoreReload \/ RestoreDetach
    PROVE  CalmInv'
<1> USE DEF RecoverRestore, RestoreReload, RestoreDetach, Uncertain, SafeToRetry,
        MatchesPrevious, Reachable, Serves, Reload, CanReload, Resolves
<1> SUFFICES ASSUME Calm' PROVE CalmJobs' /\ CalmFiles' /\ CalmGateway'
  BY DEF CalmInv
<1>0. CalmJobs /\ CalmFiles /\ CalmGateway /\ TypeOK'
  BY DEF CalmInv, GatewayInv, TypeOK
<1>1. CalmJobs'
  BY <1>0 DEF GatewayInv, TypeOK, WorkInv, AttemptsInv, UpInv, ConfigInv, LastGoodInv, CalmJobs, CalmFiles, CalmGateway
<1>2. CalmFiles'
  BY <1>0 DEF GatewayInv, TypeOK, WorkInv, AttemptsInv, UpInv, ConfigInv, LastGoodInv, CalmJobs, CalmFiles, CalmGateway
<1>3. CalmGateway'
  BY <1>0 DEF GatewayInv, TypeOK, WorkInv, AttemptsInv, UpInv, ConfigInv, LastGoodInv, CalmJobs, CalmFiles, CalmGateway
<1> QED
  BY <1>1, <1>2, <1>3

LEMMA PreparationKeepsCalm ==
    ASSUME GatewayInv, GatewayInv', CalmInv,
           StartCandidate \/ DefaultCurrent \/ DefaultLastGood
    PROVE  CalmInv'
<1> USE DEF StartCandidate, DefaultCurrent, DefaultLastGood
<1> SUFFICES ASSUME Calm' PROVE CalmJobs' /\ CalmFiles' /\ CalmGateway'
  BY DEF CalmInv
<1>0. CalmJobs /\ CalmFiles /\ CalmGateway /\ TypeOK'
  BY DEF CalmInv, GatewayInv, TypeOK
<1>1. CalmJobs'
  BY <1>0 DEF GatewayInv, TypeOK, WorkInv, AttemptsInv, UpInv, ConfigInv, LastGoodInv, CalmJobs, CalmFiles, CalmGateway
<1>2. CalmFiles'
  BY <1>0 DEF GatewayInv, TypeOK, WorkInv, AttemptsInv, UpInv, ConfigInv, LastGoodInv, CalmJobs, CalmFiles, CalmGateway
<1>3. CalmGateway'
  BY <1>0 DEF GatewayInv, TypeOK, WorkInv, AttemptsInv, UpInv, ConfigInv, LastGoodInv, CalmJobs, CalmFiles, CalmGateway
<1> QED
  BY <1>1, <1>2, <1>3

LEMMA EnsureKeepsCalm ==
    ASSUME GatewayInv, GatewayInv', CalmInv,
           EnsureGateway \/ EnsureStart \/ PublishedPort
    PROVE  CalmInv'
<1> USE DEF EnsureGateway, EnsureStart, PublishedPort, RemoveGateway, StartGateway, StartOn,
        EnsureNetwork, Resolves
<1> SUFFICES ASSUME Calm' PROVE CalmJobs' /\ CalmFiles' /\ CalmGateway'
  BY DEF CalmInv
<1>0. CalmJobs /\ CalmFiles /\ CalmGateway /\ TypeOK'
  BY DEF CalmInv, GatewayInv, TypeOK
<1>1. CalmJobs'
  BY <1>0 DEF GatewayInv, TypeOK, WorkInv, AttemptsInv, UpInv, ConfigInv, LastGoodInv, CalmJobs, CalmFiles, CalmGateway
<1>2. CalmFiles'
  BY <1>0 DEF GatewayInv, TypeOK, WorkInv, AttemptsInv, UpInv, ConfigInv, LastGoodInv, CalmJobs, CalmFiles, CalmGateway
<1>3. CalmGateway'
  BY <1>0 DEF GatewayInv, TypeOK, WorkInv, AttemptsInv, UpInv, ConfigInv, LastGoodInv, CalmJobs, CalmFiles, CalmGateway
<1> QED
  BY <1>1, <1>2, <1>3

LEMMA SwitchKeepsCalm ==
    ASSUME GatewayInv, GatewayInv', CalmInv,
           ConnectAndTest \/ ReplaceConfig \/ ReloadConfig \/ Probe
    PROVE  CalmInv'
<1> USE DEF ConnectAndTest, ReplaceConfig, ReloadConfig, Probe, Reload, CanReload, Resolves,
        ProbeRoutes, ProbeOK, Serves, Reachable
<1> SUFFICES ASSUME Calm' PROVE CalmJobs' /\ CalmFiles' /\ CalmGateway'
  BY DEF CalmInv
<1>0. CalmJobs /\ CalmFiles /\ CalmGateway /\ TypeOK'
  BY DEF CalmInv, GatewayInv, TypeOK
<1>1. CalmJobs'
  BY <1>0 DEF GatewayInv, TypeOK, WorkInv, AttemptsInv, UpInv, ConfigInv, LastGoodInv, CalmJobs, CalmFiles, CalmGateway
<1>2. CalmFiles'
  BY <1>0 DEF GatewayInv, TypeOK, WorkInv, AttemptsInv, UpInv, ConfigInv, LastGoodInv, CalmJobs, CalmFiles, CalmGateway
<1>3. CalmGateway'
  BY <1>0 DEF GatewayInv, TypeOK, WorkInv, AttemptsInv, UpInv, ConfigInv, LastGoodInv, CalmJobs, CalmFiles, CalmGateway
<1> QED
  BY <1>1, <1>2, <1>3

LEMMA RebaseKeepsCalm ==
    ASSUME GatewayInv, GatewayInv', CalmInv,
           RebaseRemove \/ RebaseStart \/ Reprobe
    PROVE  CalmInv'
<1> USE DEF RebaseRemove, RebaseStart, Reprobe, RemoveGateway, StartGateway, StartOn,
        Resolves, ProbeRoutes, ProbeOK, Serves, Reachable
<1> SUFFICES ASSUME Calm' PROVE CalmJobs' /\ CalmFiles' /\ CalmGateway'
  BY DEF CalmInv
<1>0. CalmJobs /\ CalmFiles /\ CalmGateway /\ TypeOK'
  BY DEF CalmInv, GatewayInv, TypeOK
<1>1. CalmJobs'
  BY <1>0 DEF GatewayInv, TypeOK, WorkInv, AttemptsInv, UpInv, ConfigInv, LastGoodInv, CalmJobs, CalmFiles, CalmGateway
<1>2. CalmFiles'
  BY <1>0 DEF GatewayInv, TypeOK, WorkInv, AttemptsInv, UpInv, ConfigInv, LastGoodInv, CalmJobs, CalmFiles, CalmGateway
<1>3. CalmGateway'
  BY <1>0 DEF GatewayInv, TypeOK, WorkInv, AttemptsInv, UpInv, ConfigInv, LastGoodInv, CalmJobs, CalmFiles, CalmGateway
<1> QED
  BY <1>1, <1>2, <1>3

LEMMA CommitmentKeepsCalm ==
    ASSUME GatewayInv, GatewayInv', CalmInv,
           Commit \/ RecordLastGood \/ Promote \/ RetirePrevious
    PROVE  CalmInv'
<1> USE DEF Commit, RecordLastGood, Promote, RetirePrevious
<1> SUFFICES ASSUME Calm' PROVE CalmJobs' /\ CalmFiles' /\ CalmGateway'
  BY DEF CalmInv
<1>0. CalmJobs /\ CalmFiles /\ CalmGateway /\ TypeOK'
  BY DEF CalmInv, GatewayInv, TypeOK
<1>1. CalmJobs'
  BY <1>0 DEF GatewayInv, TypeOK, WorkInv, AttemptsInv, UpInv, ConfigInv, LastGoodInv, CalmJobs, CalmFiles, CalmGateway
<1>2. CalmFiles'
  BY <1>0 DEF GatewayInv, TypeOK, WorkInv, AttemptsInv, UpInv, ConfigInv, LastGoodInv, CalmJobs, CalmFiles, CalmGateway
<1>3. CalmGateway'
  BY <1>0 DEF GatewayInv, TypeOK, WorkInv, AttemptsInv, UpInv, ConfigInv, LastGoodInv, CalmJobs, CalmFiles, CalmGateway
<1> QED
  BY <1>1, <1>2, <1>3

LEMMA UndoKeepsCalm ==
    ASSUME GatewayInv, GatewayInv', CalmInv,
           Undo \/ UndoReload \/ UndoRemove \/ UndoStart
    PROVE  CalmInv'
<1> USE DEF Undo, UndoReload, UndoRemove, UndoStart, Reload, CanReload, RemoveGateway,
        StartGateway, StartOn, Resolves
<1> SUFFICES ASSUME Calm' PROVE CalmJobs' /\ CalmFiles' /\ CalmGateway'
  BY DEF CalmInv
<1>0. CalmJobs /\ CalmFiles /\ CalmGateway /\ TypeOK'
  BY DEF CalmInv, GatewayInv, TypeOK
<1>1. CalmJobs'
  BY <1>0 DEF GatewayInv, TypeOK, WorkInv, AttemptsInv, UpInv, ConfigInv, LastGoodInv, CalmJobs, CalmFiles, CalmGateway
<1>2. CalmFiles'
  BY <1>0 DEF GatewayInv, TypeOK, WorkInv, AttemptsInv, UpInv, ConfigInv, LastGoodInv, CalmJobs, CalmFiles, CalmGateway
<1>3. CalmGateway'
  BY <1>0 DEF GatewayInv, TypeOK, WorkInv, AttemptsInv, UpInv, ConfigInv, LastGoodInv, CalmJobs, CalmFiles, CalmGateway
<1> QED
  BY <1>1, <1>2, <1>3

LEMMA CleanUpKeepsCalm ==
    ASSUME GatewayInv, GatewayInv', CalmInv,
           RollbackCandidate \/ CleanupCandidate
    PROVE  CalmInv'
<1> USE DEF RollbackCandidate, CleanupCandidate, Restored, Resolves
<1> SUFFICES ASSUME Calm' PROVE CalmJobs' /\ CalmFiles' /\ CalmGateway'
  BY DEF CalmInv
<1>0. CalmJobs /\ CalmFiles /\ CalmGateway /\ TypeOK'
  BY DEF CalmInv, GatewayInv, TypeOK
<1>1. CalmJobs'
  BY <1>0 DEF GatewayInv, TypeOK, WorkInv, AttemptsInv, UpInv, ConfigInv, LastGoodInv, CalmJobs, CalmFiles, CalmGateway
<1>2. CalmFiles'
  BY <1>0 DEF GatewayInv, TypeOK, WorkInv, AttemptsInv, UpInv, ConfigInv, LastGoodInv, CalmJobs, CalmFiles, CalmGateway
<1>3. CalmGateway'
  BY <1>0 DEF GatewayInv, TypeOK, WorkInv, AttemptsInv, UpInv, ConfigInv, LastGoodInv, CalmJobs, CalmFiles, CalmGateway
<1> QED
  BY <1>1, <1>2, <1>3

LEMMA EndKeepsCalm ==
    ASSUME GatewayInv, GatewayInv', CalmInv,
           CloseJob \/ CloseReconciliation \/ Succeed \/ Crash
    PROVE  CalmInv'
<1> USE DEF CloseJob, CloseReconciliation, Succeed, Crash, Settle, Forget
<1> SUFFICES ASSUME Calm' PROVE CalmJobs' /\ CalmFiles' /\ CalmGateway'
  BY DEF CalmInv
<1>0. CalmJobs /\ CalmFiles /\ CalmGateway /\ TypeOK'
  BY DEF CalmInv, GatewayInv, TypeOK
<1>1. CalmJobs'
  BY <1>0 DEF GatewayInv, TypeOK, WorkInv, AttemptsInv, UpInv, ConfigInv, LastGoodInv, CalmJobs, CalmFiles, CalmGateway
<1>2. CalmFiles'
  BY <1>0 DEF GatewayInv, TypeOK, WorkInv, AttemptsInv, UpInv, ConfigInv, LastGoodInv, CalmJobs, CalmFiles, CalmGateway
<1>3. CalmGateway'
  BY <1>0 DEF GatewayInv, TypeOK, WorkInv, AttemptsInv, UpInv, ConfigInv, LastGoodInv, CalmJobs, CalmFiles, CalmGateway
<1> QED
  BY <1>1, <1>2, <1>3

LEMMA WorldKeepsCalm ==
    ASSUME GatewayInv, GatewayInv', CalmInv,
           RestartLoop \/ StopGateway
    PROVE  CalmInv'
<1> USE DEF RestartLoop, StopGateway, Resolves
<1> SUFFICES ASSUME Calm' PROVE CalmJobs' /\ CalmFiles' /\ CalmGateway'
  BY DEF CalmInv
<1>0. CalmJobs /\ CalmFiles /\ CalmGateway /\ TypeOK'
  BY DEF CalmInv, GatewayInv, TypeOK
<1>1. CalmJobs'
  BY <1>0 DEF GatewayInv, TypeOK, WorkInv, AttemptsInv, UpInv, ConfigInv, LastGoodInv, CalmJobs, CalmFiles, CalmGateway
<1>2. CalmFiles'
  BY <1>0 DEF GatewayInv, TypeOK, WorkInv, AttemptsInv, UpInv, ConfigInv, LastGoodInv, CalmJobs, CalmFiles, CalmGateway
<1>3. CalmGateway'
  BY <1>0 DEF GatewayInv, TypeOK, WorkInv, AttemptsInv, UpInv, ConfigInv, LastGoodInv, CalmJobs, CalmFiles, CalmGateway
<1> QED
  BY <1>1, <1>2, <1>3

LEMMA BeginKeepsCalm ==
    ASSUME GatewayInv, GatewayInv', CalmInv, NEW d \in Deployment,
           Request(d) \/ Claim(d) \/ \E action \in {"safe", "force"} : Reconcile(d, action)
    PROVE  CalmInv'
<1> USE DEF Request, Claim, Reconcile
<1> SUFFICES ASSUME Calm' PROVE CalmJobs' /\ CalmFiles' /\ CalmGateway'
  BY DEF CalmInv
<1>0. CalmJobs /\ CalmFiles /\ CalmGateway /\ TypeOK'
  BY DEF CalmInv, GatewayInv, TypeOK
<1>1. CalmJobs'
  BY <1>0 DEF GatewayInv, TypeOK, WorkInv, AttemptsInv, UpInv, ConfigInv, LastGoodInv, CalmJobs, CalmFiles, CalmGateway
<1>2. CalmFiles'
  BY <1>0 DEF GatewayInv, TypeOK, WorkInv, AttemptsInv, UpInv, ConfigInv, LastGoodInv, CalmJobs, CalmFiles, CalmGateway
<1>3. CalmGateway'
  BY <1>0 DEF GatewayInv, TypeOK, WorkInv, AttemptsInv, UpInv, ConfigInv, LastGoodInv, CalmJobs, CalmFiles, CalmGateway
<1> QED
  BY <1>1, <1>2, <1>3

LEMMA NextCalmInv == ASSUME GatewayInv, CalmInv, [Next]_vars PROVE CalmInv'
<1>0. GatewayInv'
  BY NextGatewayInv
<1>1. CASE UNCHANGED vars
  BY <1>1 DEF vars, CalmInv, CalmJobs, CalmFiles, CalmGateway
<1>2. CASE Recover
  BY <1>0, <1>2, RecoveryKeepsCalm, AdoptionKeepsCalm, RestoreKeepsCalm DEF Recover
<1>3. CASE Activate
  BY <1>0, <1>3, PreparationKeepsCalm, EnsureKeepsCalm, SwitchKeepsCalm, RebaseKeepsCalm,
     CommitmentKeepsCalm DEF Activate
<1>4. CASE HandleFailure
  BY <1>0, <1>4, UndoKeepsCalm, CleanUpKeepsCalm, EndKeepsCalm DEF HandleFailure
<1> QED
  BY <1>0, <1>1, <1>2, <1>3, <1>4, BeginKeepsCalm, EndKeepsCalm, WorldKeepsCalm DEF Next, Work

LEMMA CalmInvariant == Spec => []CalmInv
<1>1. GatewayInv /\ CalmInv /\ [Next]_vars => CalmInv'
  BY NextCalmInv
<1> QED
  BY InitCalmInv, <1>1, GatewayInvariant, PTL DEF Spec

\* Without a crash, one failing command at any point of a switch leaves the preview on
\* the active generation; and a deployment about to be recorded as succeeded answers.
THEOREM PreviewStaysServed == Spec => []PreviewIsServed
<1>1. GatewayInv /\ CalmInv => PreviewIsServed
  <2> SUFFICES ASSUME GatewayInv, CalmInv, Calm PROVE
        /\ At("idle") /\ active # None /\ stops = 0
           => /\ Serves(active) /\ current = active /\ lastGood = active
              /\ failures = 0 => active \in promoted
        /\ At("finish") => Serves(dep)
    BY DEF PreviewIsServed
  <2>1. CalmJobs /\ CalmFiles /\ CalmGateway
    BY DEF CalmInv
  <2>2. ASSUME At("idle"), active # None, stops = 0
        PROVE  Serves(active) /\ current = active /\ lastGood = active
               /\ (failures = 0 => active \in promoted)
    BY <2>1, <2>2 DEF CalmJobs, CalmFiles, CalmGateway, Serves, Reachable, GatewayInv, UpInv, TypeOK
  <2>3. ASSUME At("finish")
        PROVE  Serves(dep)
    BY <2>1, <2>3 DEF CalmGateway, Serves, Reachable, GatewayInv, UpInv, WorkInv
  <2> QED
    BY <2>2, <2>3
<1> QED
  BY <1>1, GatewayInvariant, CalmInvariant, PTL
=============================================================================
