---------------------------- MODULE PublicRoutes ----------------------------
(* The public hostnames of the projects: the rows project_public_routes and *)
(* public_route_jobs, the routing workers that claim them, and the one file *)
(* of routes the Edge NGINX runs, with its lock and transaction journal     *)
(* (public_routes/repository.py, public_routes/worker.py, routing_worker.py,*)
(* runtime/edge.py).                                                        *)
(*                                                                          *)
(* A transaction, a file written or a batch of Docker commands between two  *)
(* of them is one action. A configuration maps each project to the hostname *)
(* its section names; available_at, error codes and the phase of the        *)
(* journal, which nothing reads, are left out. A claim token is the worker  *)
(* that holds it: a worker has one claim at a time, and a row whose lease   *)
(* ran out has no holder. Docker and NGINX are external: a reload that      *)
(* fails may or may not have taken effect.                                  *)
EXTENDS Naturals, FiniteSets

CONSTANTS
    Project, Hostname, Worker,
    None,           \* no hostname, worker, claim, journal or error
    MaxAttempts,    \* routing_worker_max_attempts; the count saturates there
    MaxRevision,    \* bound: desired_revision of a route
    MaxFaults       \* bound: crashes, failing commands, stops, late heartbeats

\* What a worker may raise before it records it.
Errors == {"lost", "snapshot", "defer", "retry", "fail", "uncertain"}

ASSUME RoutesAssumption ==
    /\ None \notin Project \cup Hostname \cup Worker \cup Errors
    /\ MaxAttempts \in Nat \ {0} /\ MaxRevision \in Nat /\ MaxFaults \in Nat

VARIABLES
    desired, host, status, rev, appliedHost, appliedRev,    \* project_public_routes
    jobState, attempts, holder,     \* public_route_jobs, of the same desired_revision
    up,         \* the projects whose gateway is running
    file,       \* public-routes.conf
    loaded,     \* the routes the Edge serves
    journal,    \* .routing-transaction.json
    lock,       \* .routing.lock
    pc,         \* where the worker is, or the error it is about to record
    claim,      \* its PublicRouteJobClaim; None while it reconciles
    snapshot,   \* expected_snapshot
    previous,   \* the configuration apply() goes back to
    after,      \* the error that restoring interrupts
    need,       \* startup_reconciled is false, or _reconciliation_required
    faults

appliedVars == <<appliedHost, appliedRev>>
routeVars == <<desired, host, status, rev, appliedVars>>
jobVars == <<jobState, attempts, holder>>
rowVars == <<routeVars, jobVars>>
edgeVars == <<file, loaded, journal>>
localVars == <<claim, snapshot, previous, after>>
vars == <<rowVars, up, edgeVars, lock, pc, localVars, need, faults>>

Slot == Hostname \cup {None}
Config == [Project -> Slot]
NoRoutes == [p \in Project |-> None]
Labels == {"down", "idle", "attach", "read", "render", "enter", "test", "replace", "reload",
           "probe", "finalize", "commit", "restore", "restoring"} \cup (Errors \ {"lost"})

Statuses == {"ABSENT", "PENDING", "APPLYING", "ACTIVE", "INACTIVE", "FAILED", "UNCERTAIN"}

TypeOK ==
    /\ desired \in [Project -> {"ENABLED", "DISABLED"}]
    /\ status \in [Project -> Statuses]
    /\ host \in Config /\ appliedHost \in Config
    /\ rev \in [Project -> 0..MaxRevision] /\ appliedRev \in [Project -> 0..MaxRevision]
    /\ jobState \in [Project -> {"NONE", "PENDING", "CLAIMED", "SUCCEEDED", "FAILED"}]
    /\ attempts \in [Project -> 0..MaxAttempts]
    /\ holder \in [Project -> Worker \cup {None}]
    /\ up \subseteq Project
    /\ file \in Config /\ loaded \in Config
    /\ journal \in [previous : Config, candidate : Config] \cup {None}
    /\ lock \in Worker \cup {None}
    /\ pc \in [Worker -> Labels]
    /\ claim \in [Worker -> [project : Project, desired : {"ENABLED", "DISABLED"},
                             host : Hostname, applied : Slot] \cup {None}]
    /\ snapshot \in [Worker -> [Project -> [host : Slot, rev : 0..MaxRevision]]]
    /\ previous \in [Worker -> Config]
    /\ after \in [Worker -> Errors \cup {None}]
    /\ need \in [Worker -> BOOLEAN]
    /\ faults \in 0..MaxFaults

(* What list_applied() returns, as _applied_snapshot compares it. *)
Nothing == [p \in Project |-> [host |-> None, rev |-> 0]]
Applied == [p \in Project |->
              IF appliedHost[p] = None THEN Nothing[p]
              ELSE [host |-> appliedHost[p], rev |-> appliedRev[p]]]

Init ==
    /\ desired = [p \in Project |-> "DISABLED"]
    /\ status = [p \in Project |-> "ABSENT"]
    /\ host = NoRoutes /\ appliedHost = NoRoutes
    /\ rev = [p \in Project |-> 0] /\ appliedRev = [p \in Project |-> 0]
    /\ jobState = [p \in Project |-> "NONE"]
    /\ attempts = [p \in Project |-> 0]
    /\ holder = [p \in Project |-> None]
    /\ up = Project
    /\ file = NoRoutes /\ loaded = NoRoutes
    /\ journal = None /\ lock = None
    /\ pc = [w \in Worker |-> "down"]
    /\ claim = [w \in Worker |-> None]
    /\ snapshot = [w \in Worker |-> Nothing]
    /\ previous = [w \in Worker |-> NoRoutes]
    /\ after = [w \in Worker |-> None]
    /\ need = [w \in Worker |-> TRUE]
    /\ faults = 0

Fault == faults < MaxFaults /\ faults' = faults + 1

-----------------------------------------------------------------------------
(* Requests of the API *)

UpsertJob(p) ==
    /\ jobState' = [jobState EXCEPT ![p] = "PENDING"]
    /\ attempts' = [attempts EXCEPT ![p] = 0]
    /\ holder' = [holder EXCEPT ![p] = None]

AvailableDesired(p, h) == \A q \in Project \ {p} : h # host[q]
Available(p, h) == \A q \in Project \ {p} : h \notin {host[q], appliedHost[q]}

(* Setting or disabling asks again for the same revision only after FAILED  *)
(* or UNCERTAIN; while it is open or served the request changes nothing.    *)
Want(p, state, h, served) ==
    LET unchanged == desired[p] = state /\ host[p] = h
        next == IF unchanged THEN rev[p] ELSE rev[p] + 1
    IN /\ ~(unchanged /\ status[p] \in {"PENDING", "APPLYING", served})
       /\ next <= MaxRevision
       /\ desired' = [desired EXCEPT ![p] = state]
       /\ host' = [host EXCEPT ![p] = h]
       /\ status' = [status EXCEPT ![p] = "PENDING"]
       /\ rev' = [rev EXCEPT ![p] = next]
       /\ UpsertJob(p)
       /\ UNCHANGED <<appliedVars, up, edgeVars, lock, pc, localVars, need, faults>>

SetEnabled(p, h) == Available(p, h) /\ Want(p, "ENABLED", h, "ACTIVE")
Disable(p) == status[p] # "ABSENT" /\ Want(p, "DISABLED", host[p], "INACTIVE")

-----------------------------------------------------------------------------
(* The claim *)

Holds(w) == claim[w] # None /\ holder[claim[w].project] = w
Lost(w) == claim[w] # None /\ ~Holds(w)

Goto(w, label) == pc' = [pc EXCEPT ![w] = label]

(* run_once returns *)
Rest(w) ==
    /\ Goto(w, "idle")
    /\ claim' = [claim EXCEPT ![w] = None]
    /\ snapshot' = [snapshot EXCEPT ![w] = Nothing]
    /\ previous' = [previous EXCEPT ![w] = NoRoutes]
    /\ after' = [after EXCEPT ![w] = None]

Unlock(w) == lock' = IF lock = w THEN None ELSE lock

(* An exception leaves apply(), and with it the lock. *)
Raise(w, error) ==
    /\ Unlock(w)
    /\ IF claim[w] = None \/ error = "lost"
       THEN Rest(w)
       ELSE Goto(w, error) /\ UNCHANGED localVars

ClaimablePending(p) == jobState[p] = "PENDING"
Claimable(p) ==
    jobState[p] = "PENDING" \/ (jobState[p] = "CLAIMED" /\ holder[p] = None)

ClaimNext(w, p) ==
    /\ pc[w] = "idle" /\ ~need[w]
    /\ Claimable(p)
    /\ jobState' = [jobState EXCEPT ![p] = "CLAIMED"]
    /\ holder' = [holder EXCEPT ![p] = w]
    /\ attempts' = [attempts EXCEPT ![p] = IF @ = MaxAttempts THEN @ ELSE @ + 1]
    /\ status' = [status EXCEPT ![p] = "APPLYING"]
    /\ claim' = [claim EXCEPT ![w] = [project |-> p, desired |-> desired[p],
                                      host |-> host[p],
                                      applied |-> appliedHost[p]]]
    /\ Goto(w, IF desired[p] = "ENABLED" THEN "attach" ELSE "read")
    /\ UNCHANGED <<desired, host, rev, appliedVars, up, edgeVars, lock, snapshot, previous,
                   after, need, faults>>

CloseJob(p, state) ==
    /\ jobState' = [jobState EXCEPT ![p] = state]
    /\ holder' = [holder EXCEPT ![p] = None]
    /\ UNCHANGED attempts

(* complete(), inside the transaction that checks the claim *)
Complete(w) ==
    LET p == claim[w].project
        on == desired[p] = "ENABLED"
    IN /\ status' = [status EXCEPT ![p] = IF on THEN "ACTIVE" ELSE "INACTIVE"]
       /\ appliedHost' = [appliedHost EXCEPT ![p] = IF on THEN host[p] ELSE None]
       /\ appliedRev' = [appliedRev EXCEPT ![p] = rev[p]]
       /\ CloseJob(p, "SUCCEEDED")
       /\ UNCHANGED <<desired, host, rev>>

(* retry(), defer_not_ready() and fail() *)
Leave(w, routeStatus, state) ==
    /\ status' = [status EXCEPT ![claim[w].project] = routeStatus]
    /\ CloseJob(claim[w].project, state)
    /\ UNCHANGED <<desired, host, rev, appliedVars>>

Again(w) ==
    pc[w] \in {"snapshot", "defer"}
      \/ (pc[w] = "retry" /\ attempts[claim[w].project] < MaxAttempts)

(* The except clauses of run_once and _handle_failure: an overtaken claim   *)
(* records nothing.                                                         *)
Record(w) ==
    /\ pc[w] \in Errors
    /\ \/ ~Holds(w) /\ UNCHANGED rowVars
       \/ Holds(w) /\ Again(w) /\ Leave(w, "PENDING", "PENDING")
       \/ /\ Holds(w) /\ ~Again(w)
          /\ Leave(w, IF pc[w] = "uncertain" THEN "UNCERTAIN" ELSE "FAILED", "FAILED")
    /\ Rest(w)
    /\ UNCHANGED <<up, edgeVars, lock, need, faults>>

-----------------------------------------------------------------------------
(* The worker up to the lock *)

(* _validate_interrupted_locked *)
Explained == journal # None => file \in {journal.previous, journal.candidate}

Start(w) ==
    /\ pc[w] = "down" /\ lock = None
    /\ Explained
    /\ Goto(w, "idle")
    /\ UNCHANGED <<rowVars, up, edgeVars, lock, localVars, need, faults>>

Reconcile(w) ==
    /\ pc[w] = "idle" /\ need[w]
    /\ snapshot' = [snapshot EXCEPT ![w] = Applied]
    /\ Goto(w, "attach")
    /\ UNCHANGED <<rowVars, up, edgeVars, lock, claim, previous, after, need, faults>>

(* The projects whose gateway must run before the Edge is touched *)
Attaches(w) ==
    IF claim[w] = None THEN {p \in Project : snapshot[w][p].host # None}
                       ELSE {claim[w].project}

Attach(w) ==
    /\ pc[w] = "attach"
    /\ UNCHANGED <<rowVars, up, edgeVars, need>>
    /\ \/ /\ Attaches(w) \subseteq up
          /\ Goto(w, IF claim[w] = None THEN "render" ELSE "read")
          /\ UNCHANGED <<lock, localVars, faults>>
       \/ ~(Attaches(w) \subseteq up) /\ Raise(w, "defer") /\ UNCHANGED faults
       \/ Lost(w) /\ Raise(w, "lost") /\ UNCHANGED faults
       \/ Fault /\ \E error \in {"retry", "fail"} : Raise(w, error)

ReadApplied(w) ==
    /\ pc[w] = "read"
    /\ snapshot' = [snapshot EXCEPT ![w] = Applied]
    /\ Goto(w, "render")
    /\ UNCHANGED <<rowVars, up, edgeVars, lock, claim, previous, after, need, faults>>

(* The applied rows, and in the slot of the claimed project its own change *)
Candidate(w) ==
    [p \in Project |->
       IF claim[w] # None /\ p = claim[w].project
       THEN IF claim[w].desired = "ENABLED" THEN claim[w].host ELSE None
       ELSE snapshot[w][p].host]

Distinct(config) ==
    \A p, q \in Project : p # q /\ config[p] # None => config[p] # config[q]

Render(w) ==
    /\ pc[w] = "render"
    /\ IF Distinct(Candidate(w))
       THEN Goto(w, "enter") /\ UNCHANGED <<lock, localVars>>
       ELSE Raise(w, "fail")
    /\ UNCHANGED <<rowVars, up, edgeVars, need, faults>>

-----------------------------------------------------------------------------
(* DockerEdgeConfigManager.apply under the lock *)

(* fence(): renew the claim, then compare the applied rows *)
FenceClaimOnly(w) == IF Lost(w) THEN "lost" ELSE None
Fence(w) == IF Lost(w) THEN "lost" ELSE IF Applied # snapshot[w] THEN "snapshot" ELSE None

Enter(w) ==
    /\ pc[w] = "enter" /\ lock = None
    /\ IF Explained /\ Fence(w) = None
       THEN lock' = w /\ Goto(w, "test") /\ UNCHANGED localVars
       ELSE Raise(w, IF Explained THEN Fence(w) ELSE "uncertain")
    /\ UNCHANGED <<rowVars, up, edgeVars, need, faults>>

(* The configuration an undo goes back to, and the journal that names it *)
CurrentUnread == NoRoutes
Current == file
Transaction(w) == [previous |-> file, candidate |-> Candidate(w)]

(* _verify_edge, nginx -t and the journal *)
Prepare(w) ==
    /\ pc[w] = "test"
    /\ UNCHANGED <<rowVars, up, file, loaded, need>>
    /\ \/ /\ Fence(w) = None
          /\ previous' = [previous EXCEPT ![w] = Current]
          /\ journal' = Transaction(w)
          /\ Goto(w, "replace")
          /\ UNCHANGED <<lock, claim, snapshot, after, faults>>
       \/ Fence(w) # None /\ Raise(w, Fence(w)) /\ UNCHANGED <<journal, faults>>
       \/ /\ Fault
          /\ \E error \in {"retry", "fail"} : Raise(w, error)
          /\ UNCHANGED journal

Replace(w) ==
    /\ pc[w] = "replace"
    /\ file' = Candidate(w)
    /\ Goto(w, "reload")
    /\ UNCHANGED <<rowVars, up, loaded, journal, lock, localVars, need, faults>>

(* An exception after the switch: restore before it goes on *)
Undo(w, error) ==
    /\ Goto(w, "restore")
    /\ after' = [after EXCEPT ![w] = error]
    /\ UNCHANGED <<lock, claim, snapshot, previous>>

Reload(w) ==
    /\ pc[w] = "reload"
    /\ UNCHANGED <<rowVars, up, file, journal, need>>
    /\ \/ /\ loaded' = file
          /\ Goto(w, "probe")
          /\ UNCHANGED <<lock, localVars, faults>>
       \/ Lost(w) /\ loaded' \in {loaded, file} /\ Undo(w, "lost") /\ UNCHANGED faults
       \/ /\ Fault
          /\ loaded' \in {loaded, file}
          /\ \E error \in {"retry", "fail"} : Undo(w, error)

Routed(config, h) == \E p \in up : config[p] = h
NotFound(config, h) == \A p \in Project : config[p] # h

(* _probe_candidate *)
ProbesPass(w) ==
    IF claim[w] = None
    THEN \A p \in Project : snapshot[w][p].host # None => Routed(loaded, snapshot[w][p].host)
    ELSE LET c == claim[w]
         IN IF c.desired = "ENABLED"
            THEN /\ Routed(loaded, c.host)
                 /\ c.applied \notin {None, c.host} => NotFound(loaded, c.applied)
            ELSE NotFound(loaded, IF c.applied = None THEN c.host ELSE c.applied)

Probe(w) ==
    /\ pc[w] = "probe"
    /\ UNCHANGED <<rowVars, up, edgeVars, need>>
    /\ \/ /\ ~Lost(w) /\ ProbesPass(w)
          /\ Goto(w, "finalize")
          /\ UNCHANGED <<lock, localVars, faults>>
       \/ ~Lost(w) /\ ~ProbesPass(w) /\ Undo(w, "retry") /\ UNCHANGED faults
       \/ Lost(w) /\ Undo(w, "lost") /\ UNCHANGED faults
       \/ Fault /\ Undo(w, "retry")

(* The last fence and finalize(); a claim rejected here is undone too. *)
Finalize(w) ==
    /\ pc[w] = "finalize"
    /\ IF Fence(w) # None
       THEN Undo(w, Fence(w)) /\ UNCHANGED rowVars
       ELSE /\ IF claim[w] = None THEN UNCHANGED rowVars ELSE Complete(w)
            /\ Goto(w, "commit")
            /\ UNCHANGED <<lock, localVars>>
    /\ UNCHANGED <<up, edgeVars, need, faults>>

(* EDGE_FINALIZE_UNCERTAIN: the database fails before or after its commit *)
FinalizeUncertain(w) ==
    /\ pc[w] = "finalize" /\ Holds(w) /\ Fault
    /\ Complete(w) \/ UNCHANGED rowVars
    /\ need' = [need EXCEPT ![w] = TRUE]
    /\ Raise(w, "uncertain")
    /\ UNCHANGED <<up, edgeVars>>

Commit(w) ==
    /\ pc[w] = "commit"
    /\ UNCHANGED <<rowVars, up, file, loaded>>
    /\ \/ /\ journal' = None
          /\ need' = [need EXCEPT ![w] = FALSE]
          /\ Unlock(w) /\ Rest(w)
          /\ UNCHANGED faults
       \/ Fault /\ Raise(w, "uncertain") /\ UNCHANGED <<journal, need>>

(* _restore: the file, then the reload, the probes and the journal. An      *)
(* OSError of the write is not an EdgeRuntimeError: UNEXPECTED_ROUTING_FAILURE *)
RestoreFile(w) ==
    /\ pc[w] = "restore"
    /\ UNCHANGED <<rowVars, up, loaded, journal, need>>
    /\ \/ /\ IF file = Candidate(w)
             THEN file' = previous[w] /\ Goto(w, "restoring") /\ UNCHANGED <<lock, localVars>>
             ELSE Raise(w, "uncertain") /\ UNCHANGED file
          /\ UNCHANGED faults
       \/ Fault /\ Raise(w, "fail") /\ UNCHANGED file

RestoredProbesPass(w) ==
    claim[w] # None =>
      LET c == claim[w]
      IN /\ c.applied # None => Routed(file, c.applied)
         /\ c.desired = "ENABLED" /\ c.host # c.applied => NotFound(file, c.host)

RestoreEdge(w) ==
    /\ pc[w] = "restoring"
    /\ UNCHANGED <<rowVars, up, file, need>>
    /\ \/ /\ ~Lost(w)
          /\ loaded' = file
          /\ IF RestoredProbesPass(w)
             THEN journal' = None /\ Raise(w, after[w])
             ELSE Raise(w, "uncertain") /\ UNCHANGED journal
          /\ UNCHANGED faults
       \/ /\ Lost(w)
          /\ loaded' \in {loaded, file}
          /\ Raise(w, "lost")
          /\ UNCHANGED <<journal, faults>>
       \/ /\ Fault
          /\ loaded' \in {loaded, file}
          /\ Raise(w, "uncertain")
          /\ UNCHANGED journal

-----------------------------------------------------------------------------
(* Time, crashes and the containers *)

(* The worker is too slow: nothing renews the lease while it waits for the  *)
(* lock or stalls between two heartbeats.                                   *)
LeaseExpires(p) ==
    /\ \E w \in Worker : Holds(w) /\ claim[w].project = p
    /\ Fault
    /\ holder' = [holder EXCEPT ![p] = None]
    /\ UNCHANGED <<routeVars, jobState, attempts, up, edgeVars, lock, pc, localVars, need>>

(* The lease of a claim nobody works on any more runs out. *)
LeaseLapses(p) ==
    /\ holder[p] # None
    /\ ~ \E w \in Worker : Holds(w) /\ claim[w].project = p
    /\ holder' = [holder EXCEPT ![p] = None]
    /\ UNCHANGED <<routeVars, jobState, attempts, up, edgeVars, lock, pc, localVars, need, faults>>

Crash(w) ==
    /\ pc[w] # "down" /\ Fault
    /\ Goto(w, "down")
    /\ claim' = [claim EXCEPT ![w] = None]
    /\ snapshot' = [snapshot EXCEPT ![w] = Nothing]
    /\ previous' = [previous EXCEPT ![w] = NoRoutes]
    /\ after' = [after EXCEPT ![w] = None]
    /\ need' = [need EXCEPT ![w] = TRUE]
    /\ Unlock(w)
    /\ UNCHANGED <<rowVars, up, edgeVars>>

RestartEdge ==
    /\ loaded # file /\ Fault
    /\ loaded' = file
    /\ UNCHANGED <<rowVars, up, file, journal, lock, pc, localVars, need>>

StopGateway(p) ==
    /\ p \in up /\ Fault
    /\ up' = up \ {p}
    /\ UNCHANGED <<rowVars, edgeVars, lock, pc, localVars, need>>

StartGateway(p) ==
    /\ p \notin up
    /\ up' = up \cup {p}
    /\ UNCHANGED <<rowVars, edgeVars, lock, pc, localVars, need, faults>>

WorkerStep(w) ==
    \/ Start(w) \/ Reconcile(w) \/ (\E p \in Project : ClaimNext(w, p))
    \/ Attach(w) \/ ReadApplied(w) \/ Render(w) \/ Enter(w) \/ Prepare(w) \/ Replace(w)
    \/ Reload(w) \/ Probe(w) \/ Finalize(w) \/ FinalizeUncertain(w) \/ Commit(w)
    \/ RestoreFile(w) \/ RestoreEdge(w) \/ Record(w)

Next ==
    \/ \E p \in Project : \E h \in Hostname : SetEnabled(p, h)
    \/ \E p \in Project : Disable(p)
    \/ \E w \in Worker : WorkerStep(w) \/ Crash(w)
    \/ \E p \in Project : LeaseExpires(p) \/ LeaseLapses(p)
    \/ \E p \in Project : StopGateway(p) \/ StartGateway(p)
    \/ RestartEdge

Spec == Init /\ [][Next]_vars

(* A routing worker that can take a step takes one, and a lease nobody      *)
(* renews runs out.                                                         *)
WorkersRun ==
    /\ \A w \in Worker : WF_vars(WorkerStep(w))
    /\ \A p \in Project : WF_vars(LeaseLapses(p))
FairSpec == Spec /\ WorkersRun

(* Moreover a gateway that stopped comes back (unless-stopped). *)
GatewaysReturn == \A p \in Project : WF_vars(StartGateway(p))
FairGatewaySpec == FairSpec /\ GatewaysReturn
-----------------------------------------------------------------------------
(* A hostname that one project asks for or still has applied belongs to no  *)
(* other project: the conflict check of set_enabled sees every row, and     *)
(* complete() moves a hostname only inside its own row.                     *)
HostnameHasOneOwner ==
    \A p, q \in Project :
      p # q => \A h \in {host[p], appliedHost[p]} \ {None} :
                 h \notin {host[q], appliedHost[q]}

(* A route that is ACTIVE or INACTIVE is what the Edge serves: the file and *)
(* the loaded routes have its hostname in its slot, or nothing, whatever    *)
(* the transactions of other projects switch, undo or leave behind. The     *)
(* deletion of a project relies on it (deletion_is_applied).                *)
SettledIsServed ==
    \A p \in Project :
      status[p] \in {"ACTIVE", "INACTIVE"} =>
        /\ file[p] = appliedHost[p] /\ loaded[p] = appliedHost[p]
        /\ appliedHost[p] = IF status[p] = "ACTIVE" THEN host[p] ELSE None

(* The database records a hostname only once the Edge serves it, under the  *)
(* lock, for the worker that holds the claim and finds the other routes as  *)
(* it read them.                                                            *)
AppliedIsServedFirst ==
    [][\A p \in Project :
         appliedRev'[p] # appliedRev[p] =>
           /\ loaded[p] = appliedHost'[p]
           /\ \A q \in Project \ {p} : loaded[q] = appliedHost[q]]_vars

Open(p) == jobState[p] \in {"PENDING", "CLAIMED"}

(* Every request is answered: a job that is waiting or claimed is finished  *)
(* in spite of crashes, failing commands and lost claims.                   *)
RequestsFinish == \A p \in Project : Open(p) ~> ~Open(p)
=============================================================================
