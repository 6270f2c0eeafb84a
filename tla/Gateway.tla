------------------------------ MODULE Gateway -------------------------------
(* The stable preview of one project: the NGINX gateway container, its two  *)
(* configuration files, the row of project_runtimes, the containers of each *)
(* generation, and the worker that switches between them and recovers from  *)
(* its own crashes (runtime/gateway.py, driven by deployments/worker.py).   *)
(*                                                                          *)
(* One action is one command to Docker, one file written or one             *)
(* transaction, so that a crash can come between any two. One worker at a   *)
(* time: overtaken claims are the subject of DeploymentJobs. A              *)
(* configuration is the deployment it was rendered for. Docker and NGINX    *)
(* are external; of them the model keeps what the code relies on: NGINX     *)
(* starts or reloads a configuration only when its upstreams resolve, so    *)
(* when their containers are up on an attached network; and the published   *)
(* port answers only while the network the container was created on is      *)
(* attached (a container that lost all its networks publishes through the   *)
(* next one it joins).                                                      *)
EXTENDS Naturals, FiniteSets

CONSTANTS
    Deployment,
    Default,        \* default_nginx_config(): answers 503, marker "none"
    None,           \* no deployment, no file
    MaxAttempts,    \* worker_max_attempts
    MaxCrashes,     \* bound: crashes of the worker
    MaxFailures,    \* bound: commands that fail
    MaxStops        \* bound: how often an operator stops the gateway

ASSUME GatewayAssumption ==
    /\ Default \notin Deployment /\ None \notin Deployment /\ Default # None
    /\ MaxAttempts \in Nat \ {0}
    /\ {MaxCrashes, MaxFailures, MaxStops} \subseteq Nat

VARIABLES
    status,     \* deployments.status: new, open or settled; UNCERTAIN is
                \* FAILED with RECOVERY_STATE_UNCERTAIN
    attempts,   \* deployment_jobs.attempts
    active,     \* project_runtimes.active_deployment_id
    current,    \* current.conf
    lastGood,   \* last-good.config
    state,      \* the gateway container: absent, up, stopped or looping (NGINX dies)
    loaded,     \* the configuration its NGINX runs
    base,       \* the network it was created on
    nets,       \* the generation networks it is attached to
    up,         \* the generations with their containers and network
    promoted,   \* the generations whose containers restart by themselves
    pc,         \* where the worker is
    dep,        \* the deployment it works on
    kept,       \* previous_config of activate()
    rebase,     \* needs_network_rebase
    old,        \* the previous generation, as repository.activate returned it
    failure,    \* the RuntimeFailure being handled: fatal, retryable or uncertain
    mode,       \* deploy, or the action of a reconciliation: safe or force
    crashes, failures, stops

jobVars == <<status, attempts>>
fileVars == <<current, lastGood>>
gatewayVars == <<state, loaded, base, nets>>
generationVars == <<up, promoted>>
localVars == <<kept, rebase, old, mode>>
budget == <<crashes, failures, stops>>
vars == <<jobVars, active, fileVars, gatewayVars, generationVars,
          pc, dep, localVars, failure, budget>>

Config == Deployment \cup {Default, None}
Labels == {"idle", "recover", "restoring", "detaching", "adopting", "process",
           "files", "filesLast", "ensure", "ensureStart", "port", "connect", "replace", "reload",
           "probe", "rebaseRemove", "rebaseStart", "reprobe", "commit", "record",
           "promote", "retire", "finish", "undo", "undoRebase", "undoReload", "undoRemove",
           "undoStart", "rollback", "cleanup", "close"}

TypeOK ==
    /\ status \in [Deployment -> {"new", "open", "SUCCEEDED", "FAILED", "UNCERTAIN"}]
    /\ attempts \in [Deployment -> Nat]
    /\ active \in Deployment \cup {None}
    /\ current \in Config /\ lastGood \in Config
    /\ state \in {"absent", "up", "stopped", "looping"}
    /\ loaded \in Config
    /\ base \in Deployment \cup {None}
    /\ nets \subseteq Deployment /\ up \subseteq Deployment
    /\ promoted \subseteq Deployment
    /\ pc \in Labels
    /\ dep \in Deployment \cup {None}
    /\ kept \in Config /\ old \in Deployment \cup {None}
    /\ rebase \in BOOLEAN /\ mode \in {"deploy", "safe", "force"}
    /\ failure \in {"none", "fatal", "retryable", "uncertain"}
    /\ crashes \in 0..MaxCrashes
    /\ failures \in 0..MaxFailures
    /\ stops \in 0..MaxStops

Init ==
    /\ status = [d \in Deployment |-> "new"]
    /\ attempts = [d \in Deployment |-> 0]
    /\ active = None
    /\ current = None /\ lastGood = None
    /\ state = "absent" /\ loaded = None /\ base = None /\ nets = {}
    /\ up = {} /\ promoted = {}
    /\ pc = "idle" /\ dep = None
    /\ kept = None /\ rebase = FALSE /\ old = None
    /\ failure = "none" /\ mode = "deploy"
    /\ crashes = 0 /\ failures = 0 /\ stops = 0

At(label) == pc = label
Goto(label) == pc' = label /\ UNCHANGED dep
Fails == failures < MaxFailures /\ failures' = failures + 1 /\ UNCHANGED <<crashes, stops>>
Raise(label, kind) == Goto(label) /\ failure' = kind

-----------------------------------------------------------------------------
\* Docker and NGINX.

\* NGINX accepts a configuration: the containers behind its upstreams are up
\* on a network it is attached to.
Resolves(config, networks) == config \in {Default} \cup (networks \cap up)

\* docker run: the container exists; it answers if NGINX accepts current.conf.
StartOn(network) ==
    /\ base' = network /\ nets' = {network}
    /\ IF Resolves(current, {network})
       THEN state' = "up" /\ loaded' = current
       ELSE state' = "looping" /\ loaded' = None

RemoveGateway == state' = "absent" /\ loaded' = None /\ base' = None /\ nets' = {}

\* The restart policy of a gateway whose NGINX found an upstream missing.
RestartLoop ==
    /\ state = "looping" /\ Resolves(current, nets)
    /\ state' = "up" /\ loaded' = current
    /\ UNCHANGED <<jobVars, active, fileVars, base, nets, generationVars,
                   pc, dep, localVars, failure, budget>>

CanReload == state = "up" /\ Resolves(current, nets)

Reload ==
    /\ CanReload
    /\ loaded' = current
    /\ UNCHANGED <<state, base, nets>>

\* The published port answers.
Reachable == state = "up" /\ base \in nets

\* The gateway answers with the pages of a generation.
Serves(d) == Reachable /\ loaded = d /\ d \in up \cap nets

\* A route probe looks for an answer below 500, not for the marker.
ProbeOK == \E d \in Deployment : Serves(d)

-----------------------------------------------------------------------------
\* The job.

\* A project has at most one open deployment.
Request(d) ==
    /\ status[d] = "new"
    /\ \A e \in Deployment : status[e] # "open"
    /\ status' = [status EXCEPT ![d] = "open"]
    /\ UNCHANGED <<attempts, active, fileVars, gatewayVars, generationVars,
                   pc, dep, localVars, failure, budget>>

Claim(d) ==
    /\ At("idle") /\ status[d] = "open"
    /\ attempts' = [attempts EXCEPT ![d] = @ + 1]
    /\ dep' = d
    /\ pc' = IF attempts[d] = 0 THEN "process" ELSE "recover"
    /\ UNCHANGED <<status, active, fileVars, gatewayVars, generationVars,
                   localVars, failure, budget>>

\* The reconciliation of an uncertain deployment, automatic and safe or forced
\* by an administrator. It starts with the same recover().
Reconcile(d, action) ==
    /\ At("idle") /\ status[d] = "UNCERTAIN"
    /\ dep' = d /\ pc' = "recover" /\ mode' = action
    /\ UNCHANGED <<jobVars, active, fileVars, gatewayVars, generationVars,
                   kept, rebase, old, failure, budget>>

\* The worker is idle again and keeps nothing.
Forget ==
    /\ pc' = "idle" /\ dep' = None
    /\ kept' = None /\ rebase' = FALSE /\ old' = None
    /\ failure' = "none" /\ mode' = "deploy"

Crash ==
    /\ ~At("idle") /\ crashes < MaxCrashes
    /\ crashes' = crashes + 1
    /\ Forget
    /\ UNCHANGED <<jobVars, active, fileVars, gatewayVars, generationVars,
                   failures, stops>>

\* An operator stops the container; Docker does not restart it then.
StopGateway ==
    /\ state = "up" /\ stops < MaxStops /\ At("idle")
    /\ stops' = stops + 1
    /\ state' = "stopped" /\ loaded' = None
    /\ UNCHANGED <<jobVars, active, fileVars, base, nets, generationVars,
                   pc, dep, localVars, failure, crashes, failures>>

Settle(outcome) ==
    /\ status' = [status EXCEPT ![dep] = outcome]
    /\ Forget
    /\ UNCHANGED <<attempts, active, fileVars, gatewayVars, generationVars, budget>>

\* succeed, or reconcile_succeeded.
Succeed == At("finish") /\ Settle("SUCCEEDED")

\* Mutant: a failure that may be retried is closed with the last attempt only.
CloseJobLastAttempt ==
    /\ At("close") /\ mode = "deploy"
    /\ failure = "fatal" \/ attempts[dep] >= MaxAttempts
    /\ Settle(IF failure = "uncertain" THEN "UNCERTAIN" ELSE "FAILED")

\* The end of _handle_failure: the job is left for a retry, or failed.
CloseJob ==
    /\ At("close") /\ mode = "deploy"
    /\ \/ /\ failure # "fatal" /\ attempts[dep] < MaxAttempts
          /\ Settle("open")
       \/ /\ failure = "fatal" \/ attempts[dep] >= MaxAttempts
          /\ Settle(IF failure = "uncertain" THEN "UNCERTAIN" ELSE "FAILED")

\* The reconciliation is resolved or blocked; the deployment keeps its status.
CloseReconciliation == At("close") /\ mode # "deploy" /\ Settle(status[dep])

-----------------------------------------------------------------------------
\* recover(). RECOVERY_STATE_UNCERTAIN is retryable and skips the cleanup.

Uncertain == Raise(IF mode = "force" THEN "rollback" ELSE "close", "uncertain")

\* SAFE_TO_RETRY: on to process(), unless the attempts are used up; a
\* reconciliation cleans up.
SafeToRetry ==
    IF mode # "deploy" \/ attempts[dep] > MaxAttempts THEN Raise("rollback", "fatal")
    ELSE Goto("process") /\ UNCHANGED failure

\* _matches_previous_generation, for the configuration the gateway runs.
MatchesPrevious(config) ==
    \/ config = active
    \/ config = Default /\ (active = None \/ lastGood = active)

\* The row names the deployment active: nothing else is looked at.
RecoverActive ==
    /\ At("recover") /\ active = dep
    /\ Goto("finish")
    /\ UNCHANGED <<jobVars, active, fileVars, gatewayVars, generationVars,
                   localVars, failure, budget>>

\* Mutant: without a gateway there is nothing to restore.
RecoverAbsentAsIs ==
    /\ At("recover") /\ active # dep /\ state = "absent"
    /\ SafeToRetry
    /\ UNCHANGED <<jobVars, active, fileVars, gatewayVars, generationVars,
                   localVars, budget>>

\* There is no gateway: the file is restored and read by the next one.
RecoverAbsent ==
    /\ At("recover") /\ active # dep /\ state = "absent"
    /\ IF current = dep /\ lastGood # None THEN current' = lastGood ELSE UNCHANGED current
    /\ IF current = dep /\ lastGood = None THEN Uncertain ELSE SafeToRetry
    /\ UNCHANGED <<jobVars, active, lastGood, gatewayVars, generationVars,
                   localVars, budget>>

\* The gateway does not answer, or answers for a generation nobody expects.
RecoverUnknown ==
    /\ At("recover") /\ active # dep /\ state # "absent"
    /\ \/ ~Reachable
       \/ loaded # dep /\ ~MatchesPrevious(loaded)
    /\ Uncertain
    /\ UNCHANGED <<jobVars, active, fileVars, gatewayVars, generationVars,
                   localVars, budget>>

\* A command of the observation fails.
RecoverFails ==
    /\ At("recover") /\ active # dep /\ Fails
    /\ Uncertain
    /\ UNCHANGED <<jobVars, active, fileVars, gatewayVars, generationVars, localVars>>

\* The gateway serves the deployment and its containers pass: it is adopted.
RecoverAdopt ==
    /\ At("recover") /\ active # dep /\ Serves(dep)
    /\ old' = active /\ active' = dep
    /\ Goto("adopting")
    /\ UNCHANGED <<jobVars, fileVars, gatewayVars, generationVars,
                   kept, rebase, mode, failure, budget>>

AdoptConfig ==
    /\ At("adopting")
    /\ current' = dep
    /\ Goto("record")
    /\ UNCHANGED <<jobVars, active, lastGood, gatewayVars, generationVars,
                   localVars, failure, budget>>

\* _restore_previous_generation, when the previous generation is served, or the
\* candidate is served but incomplete or (a failed probe) unhealthy.
RecoverRestore ==
    /\ At("recover") /\ active # dep /\ Reachable
    /\ \/ loaded # dep /\ MatchesPrevious(loaded) /\ UNCHANGED budget
       \/ loaded = dep /\ ~Serves(dep) /\ UNCHANGED budget
       \/ loaded = dep /\ Fails
    /\ \/ current # dep /\ Goto("detaching") /\ UNCHANGED <<current, failure>>
       \/ /\ current = dep /\ lastGood # None
          /\ current' = lastGood
          /\ Goto("restoring") /\ UNCHANGED failure
       \/ current = dep /\ lastGood = None /\ Uncertain /\ UNCHANGED current
    /\ UNCHANGED <<jobVars, active, lastGood, gatewayVars, generationVars, localVars>>

RestoreReload ==
    /\ At("restoring")
    /\ \/ Reload /\ Goto("detaching") /\ UNCHANGED <<failure, budget>>
       \/ /\ ~CanReload /\ Uncertain
          /\ UNCHANGED <<gatewayVars, budget>>
       \/ Fails /\ Uncertain /\ UNCHANGED gatewayVars
    /\ UNCHANGED <<jobVars, active, fileVars, generationVars, localVars>>

\* The gateway is observed once more and leaves the network of the candidate,
\* if the command succeeds.
RestoreDetach ==
    /\ At("detaching")
    /\ \/ /\ Reachable /\ MatchesPrevious(loaded)
          /\ \/ nets' = nets \ {dep} /\ UNCHANGED budget
             \/ UNCHANGED nets /\ Fails
          /\ SafeToRetry
       \/ /\ ~(Reachable /\ MatchesPrevious(loaded))
          /\ UNCHANGED <<nets, budget>>
          /\ Uncertain
    /\ UNCHANGED <<jobVars, active, fileVars, state, loaded, base, generationVars, localVars>>

-----------------------------------------------------------------------------
\* process() up to the gateway: the old candidate is removed, a new one is
\* built, started and healthy, or the attempt fails. The network of the old one
\* cannot be removed while the gateway is attached to it. An active deployment
\* never comes here (RebuiltIsNotServed).
StartCandidate ==
    /\ At("process") /\ active # dep
    /\ \/ /\ dep \notin nets
          /\ up' = up \cup {dep}
          /\ Goto("files") /\ UNCHANGED <<failure, budget>>
       \/ /\ dep \in nets
          /\ up' = up \ {dep}
          /\ Raise("rollback", "fatal") /\ UNCHANGED budget
       \/ /\ Fails
          /\ up' = up \ {dep}
          /\ \E kind \in {"fatal", "retryable"} : Raise("rollback", kind)
    /\ promoted' = promoted \ {dep}
    /\ UNCHANGED <<jobVars, active, fileVars, gatewayVars, localVars>>

-----------------------------------------------------------------------------
\* activate().

\* The default configuration is written where there is none; only a missing
\* current.conf has last-good.config written too.
DefaultCurrent ==
    /\ At("files")
    /\ \/ current = None /\ current' = Default /\ Goto("filesLast")
       \/ current # None /\ UNCHANGED current /\ Goto("ensure")
    /\ UNCHANGED <<jobVars, active, lastGood, gatewayVars, generationVars,
                   localVars, failure, budget>>

DefaultLastGood ==
    /\ At("filesLast")
    /\ lastGood' = Default
    /\ Goto("ensure")
    /\ UNCHANGED <<jobVars, active, current, gatewayVars, generationVars,
                   localVars, failure, budget>>

\* _ensure_gateway. A gateway that runs is kept, and rebased later when it
\* stands on another network than the candidate's; one that is stopped is
\* removed and started anew. One in a crash loop can be seen as running.
EnsureGateway ==
    /\ At("ensure")
    /\ \/ /\ state \in {"up", "looping"}
          /\ rebase' = (active \notin {None, dep})
          /\ Goto("port") /\ UNCHANGED gatewayVars
       \/ /\ state \in {"stopped", "looping"}
          /\ rebase' = (active \notin {None, dep})
          /\ RemoveGateway
          /\ Goto("ensureStart")
       \/ /\ state = "absent"
          /\ rebase' = FALSE
          /\ Goto("ensureStart") /\ UNCHANGED gatewayVars
    /\ UNCHANGED <<jobVars, active, fileVars, generationVars, kept, old, mode, failure, budget>>

\* A removed gateway starts on the active network, a missing one on the
\* candidate's.
EnsureNetwork == IF rebase THEN active ELSE dep

\* The container does not start, or starts and cannot join the edge network.
StartGateway(network, next, otherwise) ==
    \/ /\ StartOn(network)
       /\ Goto(next) /\ UNCHANGED <<failure, budget>>
    \/ /\ Fails
       /\ StartOn(network) \/ UNCHANGED gatewayVars
       /\ Raise(otherwise, "retryable")

EnsureStart ==
    /\ At("ensureStart")
    /\ StartGateway(EnsureNetwork, "port", "rollback")
    /\ UNCHANGED <<jobVars, active, fileVars, generationVars, localVars>>

\* docker port: a container that does not run publishes nothing.
PublishedPort ==
    /\ At("port")
    /\ \/ state = "up" /\ Goto("connect") /\ UNCHANGED <<failure, budget>>
       \/ state # "up" /\ Raise("rollback", "fatal") /\ UNCHANGED budget
       \/ Fails /\ Raise("rollback", "fatal")
    /\ UNCHANGED <<jobVars, active, fileVars, gatewayVars, generationVars, localVars>>

\* _connect_gateway and _test_config. A refused connection looks like one that
\* is there already; the test runs in a container of its own.
ConnectAndTest ==
    /\ At("connect")
    /\ \/ /\ nets' = nets \cup {dep}
          /\ base' = IF nets = {} THEN dep ELSE base
          /\ \/ Goto("replace") /\ UNCHANGED <<failure, budget>>
             \/ Fails /\ Raise("rollback", "fatal")
       \/ /\ UNCHANGED <<nets, base>> /\ Fails
          /\ Goto("replace") /\ UNCHANGED failure
    /\ UNCHANGED <<jobVars, active, fileVars, state, loaded, generationVars, localVars>>

ReplaceConfig ==
    /\ At("replace")
    /\ kept' = current
    /\ current' = dep
    /\ Goto("reload")
    /\ UNCHANGED <<jobVars, active, lastGood, gatewayVars, generationVars,
                   rebase, old, mode, failure, budget>>

ReloadConfig ==
    /\ At("reload")
    /\ \/ Reload /\ Goto("probe") /\ UNCHANGED <<failure, budget>>
       \/ ~CanReload /\ Raise("undo", "retryable") /\ UNCHANGED <<gatewayVars, budget>>
       \/ Fails /\ Raise("undo", "retryable") /\ UNCHANGED gatewayVars
    /\ UNCHANGED <<jobVars, active, fileVars, generationVars, localVars>>

\* _probe_routes.
ProbeRoutes(next, otherwise) ==
    /\ \/ ProbeOK /\ Goto(next) /\ UNCHANGED <<failure, budget>>
       \/ ~ProbeOK /\ Raise(otherwise, "fatal") /\ UNCHANGED budget
       \/ Fails /\ Raise(otherwise, "fatal")
    /\ UNCHANGED <<jobVars, active, fileVars, gatewayVars, generationVars, localVars>>

\* Mutant: the gateway is never moved to the network of the candidate.
ProbeThenCommit == At("probe") /\ ProbeRoutes("commit", "undo")

Probe == At("probe") /\ ProbeRoutes(IF rebase THEN "rebaseRemove" ELSE "commit", "undo")

Reprobe == At("reprobe") /\ ProbeRoutes("commit", "undoRebase")

\* _recreate_gateway_on_network.
RebaseRemove ==
    /\ At("rebaseRemove")
    /\ \/ RemoveGateway /\ Goto("rebaseStart") /\ UNCHANGED <<failure, budget>>
       \/ Fails /\ Raise("undoRebase", "retryable") /\ UNCHANGED gatewayVars
    /\ UNCHANGED <<jobVars, active, fileVars, generationVars, localVars>>

RebaseStart ==
    /\ At("rebaseStart")
    /\ StartGateway(dep, "reprobe", "undoRebase")
    /\ UNCHANGED <<jobVars, active, fileVars, generationVars, localVars>>

\* Mutant: the update of project_runtimes is lost.
CommitNothing ==
    /\ At("commit")
    /\ old' = active
    /\ Goto("record")
    /\ UNCHANGED <<jobVars, active, fileVars, gatewayVars, generationVars,
                   kept, rebase, mode, failure, budget>>

\* repository.activate, or the database does not answer.
Commit ==
    /\ At("commit")
    /\ \/ /\ old' = active /\ active' = dep
          /\ Goto("record") /\ UNCHANGED <<failure, budget>>
       \/ /\ Fails /\ Raise(IF rebase THEN "undoRebase" ELSE "undo", "fatal")
          /\ UNCHANGED <<old, active>>
    /\ UNCHANGED <<jobVars, fileVars, gatewayVars, generationVars, kept, rebase, mode>>

RecordLastGood ==
    /\ At("record")
    /\ lastGood' = current
    /\ Goto("promote")
    /\ UNCHANGED <<jobVars, active, current, gatewayVars, generationVars,
                   localVars, failure, budget>>

\* promote_candidate; a failed command is ignored.
Promote ==
    /\ At("promote")
    /\ \/ promoted' = promoted \cup {dep} /\ UNCHANGED budget
       \/ UNCHANGED promoted /\ Fails
    /\ Goto("retire")
    /\ UNCHANGED <<jobVars, active, fileVars, gatewayVars, up, localVars, failure>>

\* _retire_previous: the gateway leaves the network of the previous generation,
\* which is removed; failed commands are ignored.
RetirePrevious ==
    /\ At("retire")
    /\ Goto("finish")
    /\ \/ /\ old \in {None, dep}
          /\ UNCHANGED <<nets, up, budget>>
       \/ /\ old \notin {None, dep}
          /\ nets' = nets \ {old} /\ up' = up \ {old} /\ UNCHANGED budget
       \/ /\ old \notin {None, dep} /\ Fails
          /\ \/ nets' = nets \ {old} /\ UNCHANGED up
             \/ up' = up \ {old} /\ UNCHANGED nets
    /\ UNCHANGED <<jobVars, active, fileVars, state, loaded, base, promoted,
                   localVars, failure>>

\* The except block: the file, then the gateway. Once the rebase has started the
\* gateway is created anew on the active network, else it is reloaded.
Undo ==
    /\ At("undo") \/ At("undoRebase")
    /\ current' = kept
    /\ Goto(IF At("undo") THEN "undoReload" ELSE "undoRemove")
    /\ UNCHANGED <<jobVars, active, lastGood, gatewayVars, generationVars,
                   localVars, failure, budget>>

UndoReload ==
    /\ At("undoReload")
    /\ \/ Reload /\ Goto("rollback") /\ UNCHANGED <<failure, budget>>
       \/ ~CanReload /\ Raise("rollback", "retryable") /\ UNCHANGED <<gatewayVars, budget>>
       \/ Fails /\ Raise("rollback", "retryable") /\ UNCHANGED gatewayVars
    /\ UNCHANGED <<jobVars, active, fileVars, generationVars, localVars>>

UndoRemove ==
    /\ At("undoRemove")
    /\ \/ RemoveGateway /\ Goto("undoStart") /\ UNCHANGED <<failure, budget>>
       \/ Fails /\ Raise("rollback", "retryable") /\ UNCHANGED gatewayVars
    /\ UNCHANGED <<jobVars, active, fileVars, generationVars, localVars>>

UndoStart ==
    /\ At("undoStart")
    /\ StartGateway(active, "rollback", "rollback")
    /\ UNCHANGED <<jobVars, active, fileVars, generationVars, localVars>>

-----------------------------------------------------------------------------
\* _handle_failure: rollback_candidate, then cleanup_candidate.

Restored == current = dep /\ lastGood # None

\* The file is restored if it is the candidate's, the gateway reloaded and taken
\* off the network of the candidate; failed commands are ignored.
RollbackCandidate ==
    /\ At("rollback") /\ active # dep
    /\ current' = IF Restored THEN lastGood ELSE current
    /\ \/ /\ loaded' = IF Restored /\ state = "up" /\ Resolves(lastGood, nets)
                      THEN lastGood ELSE loaded
          /\ nets' = nets \ {dep} /\ UNCHANGED budget
       \/ /\ Fails /\ UNCHANGED loaded
          /\ nets' \in {nets, nets \ {dep}}
    /\ Goto("cleanup")
    /\ UNCHANGED <<jobVars, active, lastGood, state, base, generationVars,
                   localVars, failure>>

CleanupCandidate ==
    /\ At("cleanup")
    /\ \/ up' = up \ {dep} /\ UNCHANGED budget
       \/ UNCHANGED up /\ Fails
    /\ Goto("close")
    /\ UNCHANGED <<jobVars, active, fileVars, gatewayVars, promoted, localVars, failure>>

-----------------------------------------------------------------------------
Recover ==
    \/ RecoverActive \/ RecoverAbsent \/ RecoverUnknown \/ RecoverFails
    \/ RecoverAdopt \/ AdoptConfig \/ RecoverRestore \/ RestoreReload \/ RestoreDetach
Activate ==
    \/ StartCandidate \/ DefaultCurrent \/ DefaultLastGood \/ EnsureGateway \/ EnsureStart \/ PublishedPort
    \/ ConnectAndTest \/ ReplaceConfig \/ ReloadConfig \/ Probe
    \/ RebaseRemove \/ RebaseStart \/ Reprobe \/ Commit \/ RecordLastGood \/ Promote
    \/ RetirePrevious
HandleFailure ==
    \/ Undo \/ UndoReload \/ UndoRemove \/ UndoStart
    \/ RollbackCandidate \/ CleanupCandidate \/ CloseJob \/ CloseReconciliation
Work == Recover \/ Activate \/ HandleFailure \/ Succeed \/ \E d \in Deployment : Claim(d)

Next ==
    \/ \E d \in Deployment : Request(d) \/ \E a \in {"safe", "force"} : Reconcile(d, a)
    \/ Work \/ RestartLoop \/ Crash \/ StopGateway

Spec == Init /\ [][Next]_vars

\* Every command the worker runs has a timeout; and its loop asks the queue of
\* the deployments before that of the reconciliations.
FairSpec == Spec /\ WF_vars(Work) /\ \A d \in Deployment : SF_vars(Claim(d))

-----------------------------------------------------------------------------
\* Properties.

\* The variables have their types, and the row never names a generation whose
\* containers were removed, whatever crashes, failing commands and
\* reconciliations the switch went through.
ActiveGenerationExists == TypeOK /\ (active # None => active \in up)

\* recover() lets an attempt tear down and rebuild its candidate only when the
\* gateway neither runs its configuration nor would restart with it; and what
\* the row names active is neither rebuilt nor rolled back.
RebuiltIsNotServed ==
    /\ At("process") => dep \notin {loaded, current, active}
    /\ At("rollback") => active # dep

\* Without a crash, one failing command at any point of a switch leaves the
\* preview on the active generation, with a configuration it can restart from,
\* and with services that restart by themselves if that command was another;
\* and a deployment that is about to be recorded as succeeded answers on the
\* stable port, also after an operator stopped the gateway. (A crash between
\* the reload and the rebase is the exception: recovery adopts what it finds.)
PreviewIsServed ==
    crashes = 0 /\ failures <= 1 =>
        /\ At("idle") /\ active # None /\ stops = 0
           => /\ Serves(active) /\ current = active /\ lastGood = active
              /\ failures = 0 => active \in promoted
        /\ At("finish") => Serves(dep)

\* The open deployment is settled in the end: no crash, failing command, stopped
\* gateway or state the recovery does not understand keeps its project busy for
\* ever.
DeploymentSettles ==
    (\E d \in Deployment : status[d] = "open") ~> (\A d \in Deployment : status[d] # "open")
=============================================================================
