----------------------- MODULE Reconciliation_proofs ------------------------
(* What is recorded of a reconciliation, and what happens to the            *)
(* generations, for any number of workers, attempts, requests and faults.   *)
EXTENDS Reconciliation, FiniteSetTheorems, TLAPS

Reconciling == Fenced \cup Unfenced
Working == {w \in Worker : at[w] # "idle"}

USE ReconciliationAssumption DEF ReconciliationAssumption, Target, Generation, Actions, Outcome,
    NoClaim, Attempts, Fenced, Unfenced, Deploying, Reconciling

-----------------------------------------------------------------------------
(* Types, in three parts *)

RowType ==
    /\ project \in {"READY", "DELETING"}
    /\ rec \in [state : {"NONE", "PENDING", "CLAIMED", "RESOLVED", "BLOCKED"},
                action : Actions, attempts : Attempts, result : Outcome \cup {None}]
    /\ rec.result # None <=> rec.state \in {"RESOLVED", "BLOCKED"}
    /\ holder \in Worker \cup {None}
    /\ admin \in {"idle"} \cup Actions
    /\ requests \in 0..MaxRequests /\ faults \in 0..MaxFaults

RuntimeType ==
    /\ status \in {"UNCERTAIN", "SUCCEEDED"} /\ newer \in {"ABSENT", "QUEUED", "OPEN", "SETTLED"}
    /\ active \in Generation \cup {None} /\ file \in Generation \cup {None}
    /\ lastGood \in Generation \cup {None} /\ loaded \in Generation \cup {None}
    /\ gateway \in {"up", "down", "absent"} /\ (gateway # "up" => loaded = None)
    /\ containers \subseteq Generation
    /\ overlapped \in BOOLEAN

WorkerType ==
    /\ at \in [Worker -> {"idle"} \cup Fenced \cup Unfenced \cup Deploying]
    /\ claim \in [Worker -> [action : Actions, attempts : Attempts]]
    /\ previous \in [Worker -> Generation \cup {None}]

LEMMA Types == TypeOK <=> RowType /\ RuntimeType /\ WorkerType
<1> USE DEF TypeOK, RowType, RuntimeType, WorkerType
<1>1. TypeOK => RowType /\ RuntimeType /\ WorkerType
  OBVIOUS
<1>2. {active, file, lastGood, loaded} \subseteq Generation \cup {None}
      <=> /\ active \in Generation \cup {None} /\ file \in Generation \cup {None}
          /\ lastGood \in Generation \cup {None} /\ loaded \in Generation \cup {None}
  OBVIOUS
<1>3. RowType /\ RuntimeType /\ WorkerType => TypeOK
  BY <1>2, Zenon
<1> QED BY <1>1, <1>3

\* A claim beyond the budget costs a fault: what may be claimed without another
\* one leaves an attempt.
Budget ==
    /\ rec.state = "NONE" => rec.attempts = 0
    /\ rec.state = "PENDING" => rec.attempts < MaxAttempts
    /\ rec.state = "CLAIMED" =>
        /\ rec.attempts <= MaxAttempts + faults
        /\ \/ holder \in Worker /\ at[holder] \in Reconciling
           \/ rec.attempts < MaxAttempts + faults

\* The row has a holder only while it is claimed, and the holder that is at work
\* knows the action and the attempt.
ClaimInv ==
    /\ holder # None => rec.state = "CLAIMED"
    /\ \A w \in Worker : holder = w /\ at[w] \in Reconciling =>
          claim[w] = [action |-> rec.action, attempts |-> rec.attempts]

RowInv == RowType /\ WorkerType /\ Budget /\ ClaimInv

LEMMA InitRow == Init => RowInv /\ RuntimeType
<1> SUFFICES ASSUME Init PROVE RowInv /\ RuntimeType
  OBVIOUS
<1>1. RowType
  BY DEF Init, RowType
<1>2. WorkerType
  BY DEF Init, WorkerType
<1>3. loaded \in Generation \cup {None} /\ (gateway # "up" => loaded = None)
  <2>1. CASE gateway = "up"
    BY <2>1 DEF Init
  <2>2. CASE gateway # "up"
    BY <2>2 DEF Init
  <2> QED BY <2>1, <2>2
<1>4. active \in {"older", None} /\ containers \subseteq Generation
  BY DEF Init
<1>5. RuntimeType
  BY <1>3, <1>4 DEF Init, RuntimeType
<1> QED BY <1>1, <1>2, <1>5 DEF Init, RowInv, Budget, ClaimInv

\* A worker moves within the reconciliation.
Moves(w, label) ==
    /\ at[w] \in Reconciling /\ label \in Reconciling
    /\ To(w, label) /\ UNCHANGED <<recVars, othersVars, claim>>
    /\ faults' = faults \/ Fault
    /\ previous' \in [Worker -> Generation \cup {None}]

LEMMA MoveRow == ASSUME RowInv, NEW w \in Worker, NEW label, Moves(w, label) PROVE RowInv'
<1> USE DEF Moves
<1>1. faults' \in 0..MaxFaults /\ faults' >= faults
  BY DEF RowInv, RowType, Fault
<1>2. WorkerType'
  BY DEF RowInv, WorkerType, To
<1>3. RowType'
  BY <1>1 DEF RowInv, RowType, recVars, othersVars
<1>4. \A u \in Worker : at[u] \in Reconciling <=> at'[u] \in Reconciling
  BY DEF RowInv, WorkerType, To
<1>5. Budget' /\ ClaimInv'
  <2> HIDE DEF Reconciling
  <2> QED BY <1>1, <1>4 DEF RowInv, RowType, Budget, ClaimInv, recVars
<1> QED BY <1>2, <1>3, <1>5 DEF RowInv

\* A worker that is not, or no longer, the holder leaves, or its crash is a fault.
LEMMA LeaveRow ==
    ASSUME RowInv, NEW w \in Worker, Leave(w), UNCHANGED recVars,
           (faults' = faults /\ holder # w) \/ Fault
    PROVE  RowInv'
<1>1. faults' \in 0..MaxFaults /\ ((faults' = faults /\ holder # w) \/ faults' = faults + 1)
  BY DEF RowInv, RowType, Fault
<1>2. WorkerType'
  BY DEF RowInv, WorkerType, Leave, To
<1>3. RowType'
  BY <1>1 DEF RowInv, RowType, Leave, recVars, othersVars
<1>4. \A u \in Worker : u # w => at'[u] = at[u] /\ claim'[u] = claim[u]
  BY DEF RowInv, WorkerType, Leave, To
<1>5. at'[w] \notin Reconciling
  BY DEF RowInv, WorkerType, Leave, To
<1>6. Budget' /\ ClaimInv'
  <2> HIDE DEF Reconciling
  <2> QED BY <1>1, <1>4, <1>5 DEF RowInv, RowType, Budget, ClaimInv, recVars
<1> QED BY <1>2, <1>3, <1>6 DEF RowInv

\* The holder finishes.
LEMMA FinishRow ==
    ASSUME RowInv, NEW w \in Worker, at[w] \in Reconciling,
           NEW s \in {"PENDING", "RESOLVED", "BLOCKED"}, NEW r \in Outcome \cup {None},
           r # None <=> s # "PENDING", s = "PENDING" => claim[w].attempts < MaxAttempts,
           Finish(w, s, r)
    PROVE  RowInv'
<1>1. /\ rec' = [rec EXCEPT !.state = s, !.result = r] /\ holder' = None /\ faults' = faults
      /\ claim[w].attempts = rec.attempts
  BY DEF RowInv, WorkerType, ClaimInv, Finish, Holds
<1>2. WorkerType'
  BY DEF RowInv, WorkerType, Finish, Leave, To
<1>3. RowType'
  BY <1>1 DEF RowInv, RowType, Finish, Leave, othersVars
<1>4. Budget'
  BY <1>1 DEF RowInv, RowType, Budget
<1>5. ClaimInv'
  BY <1>1 DEF ClaimInv
<1> QED BY <1>2, <1>3, <1>4, <1>5 DEF RowInv

\* A worker does something else: the newer deployment, or nothing.
LEMMA OtherRow ==
    ASSUME RowInv, NEW w \in Worker, NEW label \in {"idle"} \cup Deploying,
           at[w] \notin Reconciling, To(w, label), UNCHANGED <<recVars, project, admin, requests, claim, previous, faults>>
    PROVE  RowInv'
<1>1. WorkerType' /\ RowType'
  BY DEF RowInv, WorkerType, RowType, To, recVars
<1>2. \A u \in Worker : at[u] \in Reconciling <=> at'[u] \in Reconciling
  BY DEF RowInv, WorkerType, To
<1>3. Budget' /\ ClaimInv'
  <2> HIDE DEF Reconciling
  <2> QED BY <1>2 DEF RowInv, RowType, Budget, ClaimInv, recVars
<1> QED BY <1>1, <1>3 DEF RowInv

LEMMA ClaimRow == ASSUME RowInv, NEW w \in Worker, ClaimNext(w) PROVE RowInv'
<1>1. rec.attempts + 1 <= MaxAttempts + faults /\ rec.attempts + 1 \in Attempts
  BY DEF ClaimNext, Claimable, RowInv, RowType, Budget
<1>2. /\ rec' = [rec EXCEPT !.state = "CLAIMED", !.attempts = rec.attempts + 1] /\ holder' = w
      /\ faults' = faults
  BY DEF ClaimNext
<1>3. rec.state \in {"PENDING", "CLAIMED"}
  BY DEF ClaimNext, Claimable
<1>4. RowType'
  BY <1>1, <1>2, <1>3 DEF ClaimNext, RowInv, RowType, othersVars
<1>5. /\ rec'.action = rec.action /\ rec'.attempts = rec.attempts + 1 /\ rec'.state = "CLAIMED"
      /\ rec'.action \in Actions
  BY <1>2, <1>4 DEF RowInv, RowType
<1>6. /\ claim' = [claim EXCEPT ![w] = [action |-> rec'.action, attempts |-> rec'.attempts]]
      /\ \E label \in {"block", "recover"} : at' = [at EXCEPT ![w] = label]
      /\ previous' = previous
  BY <1>5 DEF ClaimNext, To
<1>7. WorkerType'
  BY <1>1, <1>5, <1>6 DEF RowInv, WorkerType
<1>8. Budget' /\ ClaimInv'
  BY <1>1, <1>2, <1>5, <1>6 DEF RowInv, RowType, WorkerType, Budget, ClaimInv
<1> QED BY <1>4, <1>7, <1>8 DEF RowInv

\* recover() and the cleanup move the worker that runs them.
Recovers(w) ==
    \/ Recover(w) \/ InspectGateway(w) \/ Observe(w) \/ Restore(w) \/ Confirm(w)
    \/ Adopt(w) \/ AdoptFiles(w) \/ Retire(w) \/ Succeed(w) \/ ReconcileSucceeded(w)
Cleans(w) ==
    \/ Capture(w) \/ Captured(w) \/ Cleanup(w) \/ RolledBack(w) \/ Resources(w) \/ Remove(w) \/ Verify(w)

LEMMA RecoversMoves ==
    ASSUME RuntimeType, WorkerType, NEW w \in Worker, Recovers(w)
    PROVE  \E label : Moves(w, label)
<1> USE DEF RuntimeType, WorkerType, Moves, Only, Uncertain
<1>1. CASE Recover(w)
  BY <1>1 DEF Recover
<1>2. CASE InspectGateway(w)
  BY <1>2 DEF InspectGateway, recVars, gatewayVars, othersVars
<1>3. CASE Observe(w)
  BY <1>3 DEF Observe
<1>4. CASE Restore(w)
  BY <1>4 DEF Restore
<1>5. CASE Confirm(w)
  BY <1>5 DEF Confirm
<1>6. CASE Adopt(w)
  BY <1>6 DEF Adopt
<1>7. CASE AdoptFiles(w)
  BY <1>7 DEF AdoptFiles
<1>8. CASE Retire(w)
  BY <1>8 DEF Retire
<1>9. CASE Succeed(w)
  BY <1>9 DEF Succeed
<1>10. CASE ReconcileSucceeded(w)
  BY <1>10 DEF ReconcileSucceeded
<1> QED
  BY <1>1, <1>2, <1>3, <1>4, <1>5, <1>6, <1>7, <1>8, <1>9, <1>10 DEF Recovers

LEMMA CleansMoves ==
    ASSUME RuntimeType, WorkerType, NEW w \in Worker, Cleans(w)
    PROVE  \E label : Moves(w, label)
<1> USE DEF RuntimeType, WorkerType, Moves, Only
<1>1. CASE Capture(w)
  BY <1>1 DEF Capture, Rollback
<1>2. CASE Captured(w)
  BY <1>2 DEF Captured
<1>3. CASE Cleanup(w)
  BY <1>3 DEF Cleanup, Rollback
<1>4. CASE RolledBack(w)
  BY <1>4 DEF RolledBack
<1>5. CASE Resources(w)
  BY <1>5 DEF Resources
<1>6. CASE Remove(w)
  BY <1>6 DEF Remove
<1>7. CASE Verify(w)
  BY <1>7 DEF Verify
<1> QED BY <1>1, <1>2, <1>3, <1>4, <1>5, <1>6, <1>7 DEF Cleans

\* The ends of a reconciliation.
Ends(w) == ResolveActive(w) \/ ResolveCleaned(w) \/ Block(w) \/ HandleFailure(w)

LEMMA EndsFinish ==
    ASSUME NEW w \in Worker, Ends(w)
    PROVE  /\ at[w] \in {"active", "cleaned", "block", "failed"}
           /\ \/ at[w] = "active" /\ Finish(w, "RESOLVED", "ACTIVE")
              \/ at[w] = "cleaned" /\ Finish(w, "RESOLVED", "CLEANED")
              \/ Finish(w, "BLOCKED", "UNCERTAIN")
              \/ claim[w].attempts < MaxAttempts /\ Finish(w, "PENDING", None)
BY DEF Ends, ResolveActive, ResolveCleaned, Block, HandleFailure

Deploys(w) == ClaimNewer(w) \/ BuildNewerFails(w) \/ SwitchToNewer(w) \/ ActivateNewer(w)

\* A worker that has a reconciliation dies.
WorkerActs(w) ==
    ClaimNext(w) \/ ClaimLost(w) \/ Recovers(w) \/ Cleans(w) \/ Ends(w) \/ Deploys(w)
    \/ ScheduleAutomatic(w) \/ UnexpectedError(w) \/ Crash(w)

Environment ==
    \/ RequestChecked \/ RequestRecorded \/ CreateNewer \/ RequestDeletion
    \/ GatewayStops \/ GatewayStarts \/ LeaseExpires \/ LeaseExpiresUnderWorker

LEMMA NextActs == Next => Remember /\ (Environment \/ \E w \in Worker : WorkerActs(w))
BY DEF Next, WorkerStep, Environment, WorkerActs, Recovers, Cleans, Ends, Deploys

LEMMA WorkerRow == ASSUME RowInv, RuntimeType, NEW w \in Worker, WorkerActs(w) PROVE RowInv'
<1>1. CASE ClaimNext(w)
  BY <1>1, ClaimRow
<1>2. CASE ClaimLost(w)
  <2>1. holder # w
    BY <1>2 DEF ClaimLost, Holds, RowInv, ClaimInv
  <2> QED BY <1>2, <2>1, LeaveRow DEF ClaimLost
<1>3. CASE Recovers(w) \/ Cleans(w)
  BY <1>3, RecoversMoves, CleansMoves, MoveRow DEF RowInv
<1>4. CASE Ends(w)
  BY <1>4, EndsFinish, FinishRow
<1>5. CASE Deploys(w)
  <2>1. at[w] \notin Reconciling
    BY <1>5 DEF Deploys, ClaimNewer, BuildNewerFails, SwitchToNewer, ActivateNewer
  <2>2. \E label \in {"idle"} \cup Deploying : To(w, label)
    BY <1>5 DEF Deploys, ClaimNewer, BuildNewerFails, SwitchToNewer, ActivateNewer
  <2>3. UNCHANGED <<recVars, project, admin, requests, claim, previous, faults>>
    BY <1>5 DEF Deploys, ClaimNewer, BuildNewerFails, SwitchToNewer, ActivateNewer, othersVars
  <2> QED BY <2>1, <2>2, <2>3, OtherRow
<1>6. CASE ScheduleAutomatic(w)
  BY <1>6 DEF ScheduleAutomatic, RowInv, RowType, WorkerType, Budget, ClaimInv, othersVars, workerVars
<1>7. CASE UnexpectedError(w)
  <2>1. Moves(w, "failed")
    BY <1>7 DEF UnexpectedError, Only, Moves, RowInv, WorkerType
  <2> QED BY <2>1, MoveRow
<1>8. CASE Crash(w)
  BY <1>8, LeaveRow DEF Crash
<1> QED BY <1>1, <1>2, <1>3, <1>4, <1>5, <1>6, <1>7, <1>8 DEF WorkerActs

LEMMA EnvironmentRow == ASSUME RowInv, Environment PROVE RowInv'
<1>1. CASE LeaseExpires \/ LeaseExpiresUnderWorker
  <2>1. /\ holder' = None /\ holder # None
        /\ UNCHANGED <<rec, project, newer, admin, requests, at, claim, previous>>
    BY <1>1 DEF LeaseExpires, LeaseExpiresUnderWorker, LeaseRunsOut, othersVars, workerVars
  <2>2. faults' \in 0..MaxFaults /\ ((at[holder] = "idle" /\ faults' = faults) \/ faults' = faults + 1)
    BY <1>1 DEF LeaseExpires, LeaseExpiresUnderWorker, Abandoned, Fault, RowInv, RowType
  <2>3. RowType' /\ WorkerType'
    BY <2>1, <2>2 DEF RowInv, RowType, WorkerType
  <2>4. Budget' /\ ClaimInv'
    BY <2>1, <2>2 DEF RowInv, RowType, Budget, ClaimInv
  <2> QED BY <2>3, <2>4 DEF RowInv
<1>2. CASE RequestRecorded
  <2> USE <1>2 DEF RequestRecorded, RowInv, RowType, WorkerType, workerVars, recVars
  <2>1. RowType' /\ WorkerType'
    OBVIOUS
  <2>2. Budget' /\ ClaimInv'
    BY DEF Budget, ClaimInv
  <2> QED BY <2>1, <2>2
<1>3. CASE RequestChecked \/ CreateNewer \/ RequestDeletion \/ GatewayStarts \/ GatewayStops
  <2>1. /\ UNCHANGED <<rec, holder, at, claim, previous>>
        /\ project' \in {"READY", "DELETING"} /\ admin' \in {"idle"} \cup Actions
        /\ requests' \in 0..MaxRequests /\ faults' \in 0..MaxFaults /\ faults' >= faults
    BY <1>3 DEF RequestChecked, CreateNewer, RequestDeletion, GatewayStarts, GatewayStops, Fault,
                RowInv, RowType, recVars, othersVars, workerVars
  <2> QED BY <2>1 DEF RowInv, RowType, WorkerType, Budget, ClaimInv
<1> QED BY <1>1, <1>2, <1>3 DEF Environment

\* What a step may do to the generations and the gateway, besides moving a worker.
Quiet == UNCHANGED <<status, active, containers, gatewayVars, newer>>

LEMMA RuntimeStep ==
    ASSUME RuntimeType, WorkerType, Remember, Environment \/ \E w \in Worker : WorkerActs(w)
    PROVE  RuntimeType'
<1> USE DEF RuntimeType, gatewayVars, othersVars
<1>0. overlapped' \in BOOLEAN
  BY DEF Remember
<1>1. CASE Quiet
  BY <1>0, <1>1 DEF Quiet
<1>2. CASE Environment
  <2>1. CASE RequestChecked \/ RequestRecorded \/ RequestDeletion \/ LeaseExpires \/ LeaseExpiresUnderWorker
    BY <2>1, <1>1 DEF RequestChecked, RequestRecorded, RequestDeletion, LeaseExpires,
          LeaseExpiresUnderWorker, LeaseRunsOut, Quiet
  <2>2. CASE CreateNewer
    BY <1>0, <2>2 DEF CreateNewer
  <2>3. CASE GatewayStops
    BY <1>0, <2>3 DEF GatewayStops
  <2>4. CASE GatewayStarts
    BY <1>0, <2>4 DEF GatewayStarts
  <2> QED BY <1>2, <2>1, <2>2, <2>3, <2>4 DEF Environment
<1>3. ASSUME NEW w \in Worker, Recovers(w) PROVE RuntimeType'
  <2> USE DEF Only, RestoredFile
  <2>1. CASE Recover(w) \/ Observe(w) \/ Confirm(w) \/ Succeed(w)
    BY <2>1, <1>1 DEF Recover, Observe, Confirm, Succeed, Quiet
  <2>2. CASE InspectGateway(w) \/ Restore(w)
    <3>1. /\ UNCHANGED <<status, active, containers, newer, lastGood, gateway>>
          /\ file' \in {file, lastGood} /\ loaded' \in {loaded, lastGood}
          /\ (gateway # "up" => loaded' = loaded)
      <4> HIDE DEF RuntimeType
      <4>1. CASE InspectGateway(w)
        BY <4>1 DEF InspectGateway
      <4>2. CASE Restore(w)
        BY <4>2 DEF Restore
      <4> QED BY <2>2, <4>1, <4>2
    <3> QED BY <1>0, <3>1
  <2>3. CASE Adopt(w)
    BY <1>0, <2>3 DEF Adopt
  <2>4. CASE AdoptFiles(w)
    BY <1>0, <2>4 DEF AdoptFiles
  <2>5. CASE Retire(w)
    BY <1>0, <2>5 DEF Retire
  <2>6. CASE ReconcileSucceeded(w)
    BY <1>0, <2>6 DEF ReconcileSucceeded
  <2> QED BY <1>3, <2>1, <2>2, <2>3, <2>4, <2>5, <2>6 DEF Recovers
<1>4. ASSUME NEW w \in Worker, Cleans(w) PROVE RuntimeType'
  <2> USE DEF Only, RestoredFile
  <2>1. CASE Captured(w) \/ RolledBack(w) \/ Resources(w) \/ Verify(w)
    BY <2>1, <1>1 DEF Captured, RolledBack, Resources, Verify, Quiet
  <2>2. CASE Capture(w) \/ Cleanup(w)
    <3>1. /\ UNCHANGED <<status, active, containers, newer, lastGood, gateway>>
          /\ file' \in {file, lastGood} /\ loaded' \in {loaded, lastGood}
          /\ (gateway # "up" => loaded' = loaded)
      <4> HIDE DEF RuntimeType
      <4>1. CASE Capture(w)
        BY <4>1 DEF Capture, Rollback
      <4>2. CASE Cleanup(w)
        BY <4>2 DEF Cleanup, Rollback
      <4> QED BY <2>2, <4>1, <4>2
    <3> QED BY <1>0, <3>1
  <2>3. CASE Remove(w)
    <3>1. /\ containers' \subseteq containers
          /\ UNCHANGED <<status, active, file, lastGood, gateway, loaded, newer>>
      BY <2>3 DEF Remove
    <3> QED BY <1>0, <3>1
  <2> QED BY <1>4, <2>1, <2>2, <2>3 DEF Cleans
<1>5. ASSUME NEW w \in Worker, Deploys(w) PROVE RuntimeType'
  <2>1. CASE ClaimNewer(w) \/ BuildNewerFails(w)
    BY <1>0, <2>1 DEF ClaimNewer, BuildNewerFails
  <2>2. CASE SwitchToNewer(w)
    BY <1>0, <2>2 DEF SwitchToNewer
  <2>3. CASE ActivateNewer(w)
    BY <1>0, <2>3 DEF ActivateNewer
  <2> QED BY <1>5, <2>1, <2>2, <2>3 DEF Deploys
<1>6. ASSUME NEW w \in Worker,
             ClaimNext(w) \/ ClaimLost(w) \/ Ends(w) \/ ScheduleAutomatic(w) \/ UnexpectedError(w) \/ Crash(w)
      PROVE  RuntimeType'
  BY <1>1, <1>6, EndsFinish DEF ClaimNext, ClaimLost, ScheduleAutomatic, UnexpectedError, Crash,
        Finish, Leave, Only, Quiet
<1> QED BY <1>2, <1>3, <1>4, <1>5, <1>6 DEF WorkerActs

-----------------------------------------------------------------------------
(* Who is alone *)

\* Finitely many workers are at work, since each step sets at most one to work;
\* and as long as none overlapped, at most one is.
AloneInv ==
    /\ IsFiniteSet(Working)
    /\ ~overlapped => \A u, v \in Working : u = v

LEMMA MovesOne ==
    ASSUME WorkerType, Environment \/ \E w \in Worker : WorkerActs(w)
    PROVE  at' = at \/ \E w \in Worker : \E label : To(w, label)
<1>1. CASE Environment
  BY <1>1 DEF Environment, RequestChecked, RequestRecorded, CreateNewer, RequestDeletion,
        GatewayStops, GatewayStarts, LeaseExpires, LeaseExpiresUnderWorker, LeaseRunsOut, workerVars
<1>2. ASSUME NEW w \in Worker, Recovers(w) \/ Cleans(w) PROVE \E label : To(w, label)
  BY <1>2 DEF Recovers, Cleans, Recover, InspectGateway, Observe, Restore, Confirm, Adopt, AdoptFiles,
        Retire, Succeed, ReconcileSucceeded, Capture, Captured, Cleanup, RolledBack, Resources,
        Remove, Verify, Only
<1>3. ASSUME NEW w \in Worker, Deploys(w) PROVE \E label : To(w, label)
  BY <1>3 DEF Deploys, ClaimNewer, BuildNewerFails, SwitchToNewer, ActivateNewer
<1>4. ASSUME NEW w \in Worker, ClaimNext(w) \/ ClaimLost(w) \/ Ends(w) \/ UnexpectedError(w) \/ Crash(w)
      PROVE  \E label : To(w, label)
  BY <1>4, EndsFinish DEF ClaimNext, ClaimLost, UnexpectedError, Crash, Finish, Leave, Only
<1>5. ASSUME NEW w \in Worker, ScheduleAutomatic(w) PROVE at' = at
  BY <1>5 DEF ScheduleAutomatic, workerVars
<1> QED BY <1>1, <1>2, <1>3, <1>4, <1>5 DEF WorkerActs

LEMMA Pairs == ASSUME NEW S, IsFiniteSet(S), Cardinality(S) <= 1, NEW u \in S, NEW v \in S PROVE u = v
<1> SUFFICES ASSUME u # v PROVE FALSE
  OBVIOUS
<1>1. IsFiniteSet({u}) /\ Cardinality({u}) = 1
  BY FS_Singleton
<1>2. IsFiniteSet({u} \cup {v}) /\ Cardinality({u} \cup {v}) = 2
  BY <1>1, FS_AddElement
<1>3. {u} \cup {v} \in SUBSET S
  OBVIOUS
<1>4. Cardinality({u} \cup {v}) <= Cardinality(S)
  BY <1>3, FS_Subset
<1>5. Cardinality(S) \in Nat
  BY FS_CardinalityType
<1> QED BY <1>2, <1>4, <1>5

LEMMA AloneStep ==
    ASSUME WorkerType, AloneInv, Remember, at' = at \/ \E w \in Worker : \E label : To(w, label)
    PROVE  AloneInv'
<1>1. IsFiniteSet(Working')
  <2>1. CASE at' = at
    BY <2>1 DEF Working, AloneInv
  <2>2. ASSUME NEW w \in Worker, NEW label, To(w, label) PROVE IsFiniteSet(Working')
    <3>1. IsFiniteSet(Working \cup {w})
      BY FS_AddElement DEF AloneInv
    <3>2. Working' \in SUBSET (Working \cup {w})
      BY <2>2 DEF To, Working, WorkerType
    <3> QED BY <3>1, <3>2, FS_Subset
  <2> QED BY <2>1, <2>2
<1>2. ASSUME ~overlapped', NEW u \in Working', NEW v \in Working' PROVE u = v
  <2>1. ~(Cardinality(Working') > 1)
    BY <1>2 DEF Remember, Working
  <2>2. Cardinality(Working') \in Nat
    BY <1>1, FS_CardinalityType
  <2>3. Cardinality(Working') <= 1
    BY <2>1, <2>2
  <2> QED BY <1>1, <2>3, Pairs
<1> QED BY <1>1, <1>2 DEF AloneInv

\* A worker that moves, or sets to work, while none overlapped, is alone.
LEMMA OthersIdle ==
    ASSUME WorkerType, AloneInv, AloneInv', Remember, ~overlapped', NEW w \in Worker, NEW label,
           To(w, label), at[w] # "idle" \/ label # "idle"
    PROVE  \A u \in Worker : u # w => at[u] = "idle" /\ at'[u] = "idle"
<1> SUFFICES ASSUME NEW u \in Worker, u # w, at[u] # "idle" PROVE FALSE
  BY DEF To, WorkerType
<1>1. ~overlapped
  BY DEF Remember
<1>2. at'[u] = at[u] /\ at'[w] = label
  BY DEF To, WorkerType
<1>3. u \in Working /\ u \in Working'
  BY <1>2 DEF Working
<1>4. w \in Working \/ w \in Working'
  BY <1>2 DEF Working
<1> QED BY <1>1, <1>3, <1>4 DEF AloneInv

-----------------------------------------------------------------------------
(* The generations and the outcome *)

\* The target has succeeded when it is recorded so, also when workers overlap.
StatusInv ==
    /\ rec.result = "ACTIVE" => status = "SUCCEEDED"
    /\ \A w \in Worker : at[w] = "active" => status = "SUCCEEDED"

LEMMA StatusStep ==
    ASSUME RowInv, StatusInv, Environment \/ \E w \in Worker : WorkerActs(w)
    PROVE  StatusInv'
<1> USE DEF StatusInv, RowInv, RowType, WorkerType
<1>1. CASE Environment
  <2>1. /\ UNCHANGED <<status, at>>
        /\ rec' = rec \/ rec'.result = None
    BY <1>1 DEF Environment, RequestChecked, RequestRecorded, CreateNewer, RequestDeletion,
        GatewayStops, GatewayStarts, LeaseExpires, LeaseExpiresUnderWorker, LeaseRunsOut, workerVars, recVars
  <2> QED BY <2>1
<1>2. ASSUME NEW w \in Worker, Recovers(w) \/ Cleans(w) PROVE StatusInv'
  <2>1. /\ rec' = rec /\ (status' = status \/ status' = "SUCCEEDED")
        /\ \E label : To(w, label) /\ (label = "active" => status' = "SUCCEEDED")
    <3> USE DEF Only, Uncertain, recVars
    <3>1. CASE Recovers(w)
      BY <3>1 DEF Recovers, Recover, InspectGateway, Observe, Restore, Confirm, Adopt, AdoptFiles,
            Retire, Succeed, ReconcileSucceeded
    <3>2. CASE Cleans(w)
      BY <3>2 DEF Cleans, Capture, Captured, Cleanup, RolledBack, Resources, Remove, Verify
    <3> QED BY <1>2, <3>1, <3>2
  <2> QED BY <2>1 DEF To
<1>3. ASSUME NEW w \in Worker, Ends(w) PROVE StatusInv'
  <2>1. status' = status /\ To(w, "idle") /\ (rec'.result = "ACTIVE" => at[w] = "active")
    BY <1>3, EndsFinish DEF Finish, Leave
  <2> QED BY <2>1 DEF To
<1>4. ASSUME NEW w \in Worker,
             ClaimNext(w) \/ ClaimLost(w) \/ Deploys(w) \/ UnexpectedError(w) \/ Crash(w)
      PROVE  StatusInv'
  <2>1. /\ status' = status /\ rec'.result = rec.result
        /\ \E label : label # "active" /\ To(w, label)
    BY <1>4 DEF ClaimNext, ClaimLost, Deploys, ClaimNewer, BuildNewerFails, SwitchToNewer, ActivateNewer,
          UnexpectedError, Crash, Leave, Only, recVars
  <2> QED BY <2>1 DEF To
<1>5. ASSUME NEW w \in Worker, ScheduleAutomatic(w) PROVE StatusInv'
  BY <1>5 DEF ScheduleAutomatic, workerVars
<1> QED BY <1>1, <1>2, <1>3, <1>4, <1>5 DEF WorkerActs

\* From the look at the row on, until the target is adopted or gone.
Undecided == {"inspect", "observe", "restore", "confirm", "adopt", "capture", "captured", "cleanup",
              "rolledBack", "resources", "remove", "verify", "cleaned"}

\* What a worker that is alone relies on where it is.
Relies(w) ==
    /\ at[w] \in Reconciling => rec.state = "CLAIMED"
    /\ at[w] \in Undecided => active # Target
    /\ at[w] = "adopt" => Target \in containers
    /\ at[w] \in {"files", "retire", "succeed", "record"} => active = Target
    /\ at[w] \in {"files", "retire"} => previous[w] # Target
    /\ at[w] \in Deploying => newer = "OPEN"
    /\ at[w] = "activate" => "newer" \in containers

Outcomes ==
    /\ active # None => active \in containers
    /\ status = "SUCCEEDED" => active \in {Target, "newer"}
    /\ rec.result = "CLEANED" => active # Target

SoleInv ==
    /\ active = "newer" => newer = "SETTLED"
    /\ ~overlapped => Outcomes /\ \A w \in Worker : Relies(w)

\* It is enough to look at the worker that moves.
LEMMA Moved ==
    ASSUME WorkerType, AloneInv, AloneInv', Remember, ~overlapped', NEW w \in Worker, NEW label,
           To(w, label), at[w] # "idle" \/ label # "idle", Relies(w)'
    PROVE  \A u \in Worker : Relies(u)'
<1>1. \A u \in Worker : u # w => at'[u] = "idle"
  BY OthersIdle
<1> QED BY <1>1 DEF Relies, Undecided

Inv == RowInv /\ RuntimeType /\ AloneInv /\ StatusInv /\ SoleInv

\* A worker goes on without having decided, or it ends.
LEMMA GoesOn ==
    ASSUME WorkerType, NEW w \in Worker, Outcomes, rec.state = "CLAIMED", active # Target,
           NEW label \in (Undecided \ {"adopt"}) \cup {"block", "failed"}, To(w, label),
           UNCHANGED <<status, active, containers, rec, newer>>
    PROVE  Outcomes' /\ Relies(w)'
<1>1. at'[w] = label
  BY DEF To, WorkerType
<1> QED BY <1>1 DEF Outcomes, Relies, Undecided

\* recover() and the cleanup, as what they do to the generations.
LEMMA RecoversSole ==
    ASSUME Inv, AloneInv', Remember, NEW w \in Worker, Recovers(w)
    PROVE  SoleInv'
<1> USE DEF Inv, RowInv, RowType, WorkerType, RuntimeType
<1>0. at \in [Worker -> {"idle"} \cup Reconciling \cup Deploying] /\ previous \in [Worker -> Generation \cup {None}]
  OBVIOUS
<1>1. newer' = newer /\ active' \in {active, Target} /\ rec' = rec
  BY DEF Recovers, Recover, InspectGateway, Observe, Restore, Confirm, Adopt, AdoptFiles, Retire,
         Succeed, ReconcileSucceeded, Only, othersVars, recVars
<1>2. (active = "newer" => newer = "SETTLED")'
  BY <1>1 DEF SoleInv
<1>3. PICK label \in Reconciling : Moves(w, label)
  BY RecoversMoves DEF Moves
<1>4. ASSUME ~overlapped' PROVE Outcomes' /\ \A u \in Worker : Relies(u)'
  <2>1. ~overlapped
    BY <1>4 DEF Remember
  <2>2. Outcomes /\ Relies(w) /\ rec.state = "CLAIMED" /\ rec.result = None
    BY <2>1, <1>3 DEF SoleInv, Relies, Moves
  <2>3. Outcomes' /\ Relies(w)'
    <3> USE <2>2 DEF Only, To, Relies, Outcomes, Undecided, Uncertain
    <3> HIDE DEF Reconciling, Inv
    <3>1. CASE Recover(w)
      BY <3>1 DEF Recover, RecoverActive, recVars, othersVars
    <3>2. CASE InspectGateway(w)
      <4>1. /\ UNCHANGED <<status, active, containers, rec, newer>> /\ at[w] = "inspect"
            /\ \E next \in {"observe", "capture", "block"} : To(w, next)
        BY <3>2 DEF InspectGateway, recVars, othersVars
      <4> QED BY <4>1, GoesOn
    <3>3. CASE Observe(w)
      <4>1. /\ UNCHANGED <<status, active, containers, rec, newer>> /\ at[w] = "observe"
            /\ \/ \E next \in {"restore", "capture", "block"} : To(w, next)
               \/ To(w, "adopt") /\ Target \in containers
        BY <3>3 DEF Observe, recVars, othersVars
      <4>2. CASE To(w, "adopt") /\ Target \in containers
        <5>1. at'[w] = "adopt"
          BY <4>2, <1>0
        <5> QED BY <4>1, <4>2, <5>1
      <4>3. CASE \E next \in {"restore", "capture", "block"} : To(w, next)
        BY <4>1, <4>3, GoesOn
      <4> QED BY <4>1, <4>2, <4>3
    <3>4. CASE Restore(w)
      <4>1. /\ UNCHANGED <<status, active, containers, rec, newer>> /\ at[w] = "restore"
            /\ \E next \in {"confirm", "capture", "block"} : To(w, next)
        BY <3>4 DEF Restore, recVars, othersVars
      <4> QED BY <4>1, GoesOn
    <3>5. CASE Confirm(w)
      BY <3>5 DEF Confirm, recVars, othersVars
    <3>6. CASE Adopt(w)
      <4>1. /\ UNCHANGED <<status, containers, rec, newer>> /\ at[w] = "adopt"
            /\ active' = Target /\ previous'[w] = active /\ at'[w] = "files"
        BY <3>6, <1>0 DEF Adopt, recVars, othersVars
      <4> QED BY <4>1
    <3>7. CASE AdoptFiles(w)
      BY <3>7 DEF AdoptFiles, recVars, othersVars
    <3>8. CASE Retire(w)
      BY <3>8 DEF Retire, recVars, othersVars
    <3>9. CASE Succeed(w)
      BY <3>9 DEF Succeed, recVars, othersVars
    <3>10. CASE ReconcileSucceeded(w)
      BY <3>10 DEF ReconcileSucceeded, recVars, othersVars
    <3> QED
      BY <3>1, <3>2, <3>3, <3>4, <3>5, <3>6, <3>7, <3>8, <3>9, <3>10 DEF Recovers
  <2> QED BY <1>3, <1>4, <2>3, Moved DEF Moves
<1> QED BY <1>2, <1>4 DEF SoleInv

LEMMA CleansSole ==
    ASSUME Inv, AloneInv', Remember, NEW w \in Worker, Cleans(w)
    PROVE  SoleInv'
<1> USE DEF Inv, RowInv, RowType, WorkerType, RuntimeType
<1>1. UNCHANGED <<newer, active, status, rec>>
  BY DEF Cleans, Capture, Captured, Cleanup, RolledBack, Resources, Remove, Verify, Only, othersVars, recVars
<1>2. (active = "newer" => newer = "SETTLED")'
  BY <1>1 DEF SoleInv
<1>3. PICK label \in Reconciling : Moves(w, label)
  BY CleansMoves DEF Moves
<1>4. ASSUME ~overlapped' PROVE Outcomes' /\ \A u \in Worker : Relies(u)'
  <2>1. ~overlapped
    BY <1>4 DEF Remember
  <2>2. Outcomes /\ Relies(w) /\ rec.state = "CLAIMED"
    BY <2>1, <1>3 DEF SoleInv, Relies, Moves
  <2>3. at[w] \in Undecided /\ active # Target
    BY <2>2 DEF Cleans, Capture, Captured, Cleanup, RolledBack, Resources, Remove, Verify, Relies, Undecided
  <2>4. \E next \in (Undecided \ {"adopt"}) \cup {"block", "failed"} : To(w, next)
    BY DEF Cleans, Capture, Captured, Cleanup, RolledBack, Resources, Remove, Verify, Only, Undecided
  <2>5. Outcomes' /\ Relies(w)'
    <3>1. CASE Remove(w)
      <4>1. containers \ {Target} \subseteq containers' /\ at'[w] = "verify"
        BY <3>1 DEF Remove, To
      <4> QED BY <1>1, <2>2, <2>3, <4>1 DEF Outcomes, Relies, Undecided
    <3>2. CASE Capture(w) \/ Captured(w) \/ Cleanup(w) \/ RolledBack(w) \/ Resources(w) \/ Verify(w)
      <4>1. containers' = containers
        BY <3>2 DEF Capture, Captured, Cleanup, RolledBack, Resources, Verify, Only
      <4> QED BY <1>1, <2>2, <2>3, <2>4, <4>1, GoesOn
    <3> QED BY <3>1, <3>2 DEF Cleans
  <2> QED BY <1>3, <1>4, <2>5, Moved DEF Moves
<1> QED BY <1>2, <1>4 DEF SoleInv

LEMMA DeploysSole ==
    ASSUME Inv, AloneInv', Remember, NEW w \in Worker, Deploys(w)
    PROVE  SoleInv'
<1> USE DEF Inv, RowInv, RowType, WorkerType, RuntimeType
<1>1. (active = "newer" => newer = "SETTLED")'
  BY DEF SoleInv, Deploys, ClaimNewer, BuildNewerFails, SwitchToNewer, ActivateNewer, othersVars
<1>2. \E label : To(w, label) /\ (at[w] # "idle" \/ label # "idle")
  BY DEF Deploys, ClaimNewer, BuildNewerFails, SwitchToNewer, ActivateNewer
<1>3. ASSUME ~overlapped' PROVE Outcomes' /\ \A u \in Worker : Relies(u)'
  <2>1. ~overlapped
    BY <1>3 DEF Remember
  <2>2. Outcomes /\ Relies(w) /\ (active = "newer" => newer = "SETTLED")
    BY <2>1 DEF SoleInv
  <2>3. Outcomes' /\ Relies(w)'
    <3>1. CASE ClaimNewer(w)
      <4>1. UNCHANGED <<status, active, containers, rec>> /\ at'[w] = "build" /\ newer' = "OPEN"
        BY <3>1 DEF ClaimNewer, To, recVars
      <4> QED BY <2>2, <4>1 DEF Outcomes, Relies, Undecided
    <3>2. CASE BuildNewerFails(w)
      <4>1. UNCHANGED <<status, active, containers, rec>> /\ at'[w] = "idle"
        BY <3>2 DEF BuildNewerFails, To, recVars
      <4> QED BY <2>2, <4>1 DEF Outcomes, Relies, Undecided
    <3>3. CASE SwitchToNewer(w)
      <4>1. /\ UNCHANGED <<status, active, rec, newer>> /\ at[w] = "build" /\ at'[w] = "activate"
            /\ containers' = containers \cup {"newer"}
        BY <3>3 DEF SwitchToNewer, To, recVars, othersVars
      <4> QED BY <2>2, <4>1 DEF Outcomes, Relies, Undecided
    <3>4. CASE ActivateNewer(w)
      <4>1. /\ UNCHANGED <<status, rec>> /\ at[w] = "activate" /\ at'[w] = "idle"
            /\ active' = "newer" /\ containers' = containers \ {active}
        BY <3>4 DEF ActivateNewer, To, recVars
      <4> QED BY <2>2, <4>1 DEF Outcomes, Relies, Undecided
    <3> QED BY <3>1, <3>2, <3>3, <3>4 DEF Deploys
  <2> QED BY <1>2, <1>3, <2>3, Moved
<1> QED BY <1>1, <1>3 DEF SoleInv

LEMMA RestSole ==
    ASSUME Inv, AloneInv', Remember, NEW w \in Worker,
           ClaimNext(w) \/ ClaimLost(w) \/ Ends(w) \/ UnexpectedError(w) \/ Crash(w)
    PROVE  SoleInv'
<1> USE DEF Inv, RowInv, RowType, WorkerType, RuntimeType
<1>1. UNCHANGED <<status, active, containers, newer>>
  BY EndsFinish DEF ClaimNext, ClaimLost, UnexpectedError, Crash, Finish, Leave, Only, othersVars
<1>2. PICK label \in {"idle", "recover", "block", "failed"} :
        To(w, label) /\ (at[w] # "idle" \/ label # "idle")
  BY EndsFinish DEF ClaimNext, ClaimLost, UnexpectedError, Crash, Finish, Leave, Only
<1>3. ASSUME ~overlapped' PROVE Outcomes' /\ \A u \in Worker : Relies(u)'
  <2>1. ~overlapped
    BY <1>3 DEF Remember
  <2>2. Outcomes /\ Relies(w)
    BY <2>1 DEF SoleInv
  <2>3. rec'.result = "CLEANED" => active # Target
    <3>1. CASE Ends(w)
      <4>1. rec'.result = "CLEANED" => at[w] = "cleaned"
        BY <3>1, EndsFinish DEF Finish
      <4> QED BY <2>2, <4>1 DEF Relies, Undecided
    <3>2. CASE ClaimNext(w) \/ ClaimLost(w) \/ UnexpectedError(w) \/ Crash(w)
      <4>1. rec'.result = rec.result
        BY <3>2 DEF ClaimNext, ClaimLost, UnexpectedError, Crash, Only, recVars
      <4> QED BY <2>2, <4>1 DEF Outcomes
    <3> QED BY <3>1, <3>2
  <2>4. at'[w] = label
    BY <1>2 DEF To
  <2>5. label # "idle" => rec'.state = "CLAIMED"
    <3>1. CASE ClaimNext(w)
      BY <3>1 DEF ClaimNext
    <3>2. CASE UnexpectedError(w)
      BY <2>2, <3>2 DEF UnexpectedError, Only, recVars, Relies
    <3>3. CASE ClaimLost(w) \/ Crash(w) \/ Ends(w)
      <4>1. at'[w] = "idle"
        BY <3>3, EndsFinish DEF ClaimLost, Crash, Finish, Leave, To
      <4> QED BY <2>4, <4>1
    <3> QED BY <3>1, <3>2, <3>3
  <2>6. Outcomes' /\ Relies(w)'
    BY <1>1, <2>2, <2>3, <2>4, <2>5 DEF Outcomes, Relies, Undecided
  <2> QED BY <1>2, <1>3, <2>6, Moved
<1>4. (active = "newer" => newer = "SETTLED")'
  BY <1>1 DEF SoleInv
<1> QED BY <1>3, <1>4 DEF SoleInv

\* What moves no worker.
LEMMA StillSole ==
    ASSUME Inv, Remember, Environment \/ \E w \in Worker : ScheduleAutomatic(w)
    PROVE  SoleInv'
<1> USE DEF Inv, RowInv, RowType, WorkerType, RuntimeType
<1>1. /\ UNCHANGED <<status, active, containers, at, previous>>
      /\ newer' = newer \/ (newer = "ABSENT" /\ newer' = "QUEUED")
      /\ rec' = rec \/ (rec.state # "CLAIMED" /\ rec'.result = None)
  BY DEF Environment, RequestChecked, RequestRecorded, CreateNewer, RequestDeletion, GatewayStops,
        GatewayStarts, LeaseExpires, LeaseExpiresUnderWorker, LeaseRunsOut, ScheduleAutomatic,
        workerVars, recVars, othersVars
<1>2. ~overlapped' => ~overlapped
  BY DEF Remember
<1> QED BY <1>1, <1>2 DEF SoleInv, Outcomes, Relies, Undecided

-----------------------------------------------------------------------------
(* Theorems *)

LEMMA InitInv == Init => Inv
<1> SUFFICES ASSUME Init PROVE Inv
  OBVIOUS
<1>1. RowInv /\ RuntimeType
  BY InitRow
<1>2. Working = {}
  BY DEF Init, Working
<1>3. AloneInv
  BY <1>2, FS_EmptySet DEF AloneInv
<1>4. StatusInv
  BY DEF Init, StatusInv
<1>5. active \in {"older", None} /\ rec.result = None /\ status = "UNCERTAIN"
  BY DEF Init
<1>6. active # None => active \in containers
  BY <1>5 DEF Init
<1>7. SoleInv
  BY <1>5, <1>6 DEF Init, SoleInv, Outcomes, Relies, Undecided
<1> QED BY <1>1, <1>3, <1>4, <1>7 DEF Inv

LEMMA NextInv == Inv /\ [Next]_vars => Inv'
<1> SUFFICES ASSUME Inv, [Next]_vars PROVE Inv'
  OBVIOUS
<1>1. CASE Next
  <2>1. Remember /\ (Environment \/ \E w \in Worker : WorkerActs(w))
    BY <1>1, NextActs
  <2>2. RowInv'
    BY <2>1, WorkerRow, EnvironmentRow DEF Inv
  <2>3. RuntimeType'
    BY <2>1, RuntimeStep DEF Inv, RowInv
  <2>4. AloneInv'
    BY <2>1, MovesOne, AloneStep DEF Inv, RowInv
  <2>5. StatusInv'
    BY <2>1, StatusStep DEF Inv
  <2>6. SoleInv'
    BY <2>1, <2>4, RecoversSole, CleansSole, DeploysSole, RestSole, StillSole DEF WorkerActs
  <2> QED BY <2>2, <2>3, <2>4, <2>5, <2>6 DEF Inv
<1>2. CASE UNCHANGED vars
  BY <1>2 DEF vars, recVars, gatewayVars, othersVars, workerVars, Inv, RowInv, RowType, RuntimeType,
        WorkerType, Budget, ClaimInv, AloneInv, Working, StatusInv, SoleInv, Outcomes, Relies
<1> QED BY <1>1, <1>2

LEMMA Invariance == Spec => []Inv
BY InitInv, NextInv, PTL DEF Spec

(* As long as one worker at a time is at work, the generation that the row  *)
(* names active has its containers: recover(), the cleanup and the newer    *)
(* deployment never remove what project_runtimes names.                     *)
THEOREM ActiveGenerationStays == Spec => []ActiveGenerationExists
<1>1. Inv => ActiveGenerationExists
  BY DEF Inv, SoleInv, Outcomes, ActiveGenerationExists
<1> QED BY <1>1, Invariance, PTL

(* Every variable keeps its type, and what resolve() and                    *)
(* reconcile_succeeded() record of the target is what happened to it.       *)
THEOREM OutcomeIsAlwaysTrue == Spec => []OutcomeIsTrue
<1>1. Inv => OutcomeIsTrue
  BY Types DEF Inv, RowInv, StatusInv, SoleInv, Outcomes, OutcomeIsTrue
<1> QED BY <1>1, Invariance, PTL

(* resolve(), block() and retry() take effect for the latest claim only, and *)
(* for the action that is requested when they do.                           *)
THEOREM LatestClaimFinishes == Spec => FinishedByLatestClaim
<1> DEFINE Finished ==
      rec.state = "CLAIMED" /\ rec'.state # "CLAIMED"
      => \E w \in Worker : /\ at[w] \in Fenced /\ at'[w] = "idle" /\ holder = w
                           /\ claim[w] = [action |-> rec.action, attempts |-> rec.attempts]
<1>1. ASSUME Inv, Next PROVE Finished
  <2> SUFFICES ASSUME rec.state = "CLAIMED", rec'.state # "CLAIMED"
               PROVE  \E w \in Worker : /\ at[w] \in Fenced /\ at'[w] = "idle" /\ holder = w
                           /\ claim[w] = [action |-> rec.action, attempts |-> rec.attempts]
    OBVIOUS
  <2>1. Environment \/ \E w \in Worker : WorkerActs(w)
    BY <1>1, NextActs
  <2>2. CASE Environment
    BY <2>2 DEF Environment, RequestChecked, RequestRecorded, CreateNewer, RequestDeletion, GatewayStops,
          GatewayStarts, LeaseExpires, LeaseExpiresUnderWorker, LeaseRunsOut, recVars
  <2>3. ASSUME NEW w \in Worker, WorkerActs(w) PROVE Ends(w)
    <3>1. Recovers(w) \/ Cleans(w) => rec' = rec
      BY <1>1, RecoversMoves, CleansMoves DEF Inv, RowInv, Moves, recVars
    <3>2. rec' # rec /\ rec'.state # "CLAIMED"
      OBVIOUS
    <3>3. ~(ClaimNext(w) \/ ClaimLost(w) \/ Deploys(w) \/ ScheduleAutomatic(w) \/ UnexpectedError(w) \/ Crash(w))
      BY <1>1, <3>2 DEF ClaimNext, ClaimLost, Deploys, ClaimNewer, BuildNewerFails, SwitchToNewer, ActivateNewer,
            ScheduleAutomatic, UnexpectedError, Crash, Only, recVars, Inv, RowInv, RowType
    <3> QED BY <2>3, <3>1, <3>2, <3>3 DEF WorkerActs
  <2>4. ASSUME NEW w \in Worker, Ends(w)
        PROVE  /\ at[w] \in Fenced /\ at'[w] = "idle" /\ holder = w
               /\ claim[w] = [action |-> rec.action, attempts |-> rec.attempts]
    BY <1>1, <2>4, EndsFinish DEF Finish, Holds, Leave, To, Inv, RowInv, ClaimInv, WorkerType
  <2> QED BY <2>1, <2>2, <2>3, <2>4
<1>2. Inv /\ [Next]_vars => [Finished]_vars
  BY <1>1
<1> QED BY <1>2, Invariance, PTL DEF Spec, FinishedByLatestClaim

(* request() and schedule_automatic() refuse a project that is being        *)
(* deleted, and a finished reconciliation is claimed by nobody.             *)
THEOREM DrainedForGood == Spec => DrainedStaysDrained
<1> DEFINE Stays == project = "DELETING" /\ ~AtWork => ~AtWork'
<1>1. ASSUME Inv, Next PROVE Stays
  <2> SUFFICES ASSUME project = "DELETING", ~AtWork PROVE ~AtWork'
    OBVIOUS
  <2>1. Environment \/ \E w \in Worker : WorkerActs(w)
    BY <1>1, NextActs
  <2>2. CASE Environment
    BY <2>2 DEF Environment, RequestChecked, RequestRecorded, CreateNewer, RequestDeletion, GatewayStops,
          GatewayStarts, LeaseExpires, LeaseExpiresUnderWorker, LeaseRunsOut, recVars, AtWork
  <2>3. ASSUME NEW w \in Worker, WorkerActs(w) PROVE rec' = rec
    <3>1. Recovers(w) \/ Cleans(w) => rec' = rec
      BY <1>1, RecoversMoves, CleansMoves DEF Inv, RowInv, Moves, recVars
    <3>2. ~Ends(w) /\ ~ClaimNext(w) /\ ~ScheduleAutomatic(w)
      BY EndsFinish DEF Finish, Holds, ClaimNext, Claimable, ScheduleAutomatic, AtWork
    <3>3. ClaimLost(w) \/ Deploys(w) \/ UnexpectedError(w) \/ Crash(w) => rec' = rec
      BY DEF ClaimLost, Deploys, ClaimNewer, BuildNewerFails, SwitchToNewer, ActivateNewer,
            UnexpectedError, Crash, Only, recVars
    <3> QED BY <2>3, <3>1, <3>2, <3>3 DEF WorkerActs
  <2> QED BY <2>1, <2>2, <2>3 DEF AtWork
<1>2. Inv /\ [Next]_vars => [Stays]_vars
  BY <1>1
<1> QED BY <1>2, Invariance, PTL DEF Spec, DrainedStaysDrained
=============================================================================
