------------------------- MODULE PublicRoutes_proofs ------------------------
(* A public hostname has one owner, every variable keeps its type, a settled *)
(* route is what the Edge serves, and a hostname is recorded only once it is *)
(* served: for any sets of projects, hostnames and workers, any number of    *)
(* revisions and any number of faults.                                       *)
EXTENDS PublicRoutes, TLAPS

-----------------------------------------------------------------------------
(* One owner *)

\* The hostnames of the rows, and that they are apart.
RowsInv == host \in Config /\ appliedHost \in Config /\ HostnameHasOneOwner

\* A step that leaves the requested hostnames alone: it applies one of them, or
\* removes it, in its own row.
KeepsHosts ==
    /\ host' = host
    /\ \A q \in Project : appliedHost'[q] \in {appliedHost[q], host[q], None}

\* A step that requests the hostname h for p.
Requests(p, h) ==
    /\ Available(p, h)
    /\ appliedHost' = appliedHost
    /\ host' = [host EXCEPT ![p] = h]

RowsEffect ==
    /\ appliedHost' \in Config
    /\ KeepsHosts \/ \E p \in Project, h \in Hostname : Requests(p, h)

-----------------------------------------------------------------------------
LEMMA InitRowsInv == Init => RowsInv
BY DEF Init, RowsInv, Config, Slot, NoRoutes, HostnameHasOneOwner

\* Both effects keep the hostnames apart.
LEMMA EffectKeepsOwner == ASSUME RowsInv, RowsEffect PROVE RowsInv'
<1>1. CASE KeepsHosts
  BY <1>1 DEF RowsInv, RowsEffect, KeepsHosts, HostnameHasOneOwner
<1>2. ASSUME NEW p \in Project, NEW h \in Hostname, Requests(p, h)
      PROVE  RowsInv'
  BY <1>2, RoutesAssumption
  DEF RowsInv, RowsEffect, Requests, Available, HostnameHasOneOwner, Config, Slot
<1> QED
  BY <1>1, <1>2 DEF RowsEffect

LEMMA SameHosts == ASSUME RowsInv, UNCHANGED <<host, appliedHost>> PROVE RowsEffect
BY DEF RowsInv, RowsEffect, KeepsHosts

\* complete() applies the hostname of the row, or none.
LEMMA CompleteEffect ==
    ASSUME RowsInv, NEW w \in Worker, Complete(w)
    PROVE  RowsEffect
BY DEF RowsInv, RowsEffect, KeepsHosts, Config, Slot, Complete

LEMMA RequestEffect ==
    ASSUME RowsInv, NEW p \in Project, NEW h \in Hostname, SetEnabled(p, h)
    PROVE  RowsEffect
BY DEF RowsInv, RowsEffect, Requests, SetEnabled, Want, appliedVars

LEMMA DisableEffect == ASSUME RowsInv, NEW p \in Project, Disable(p) PROVE RowsEffect
BY DEF RowsInv, RowsEffect, KeepsHosts, Config, Disable, Want, appliedVars

-----------------------------------------------------------------------------
(* Every step *)

\* Every step of a worker has the first effect.
LEMMA WorkerStepEffect ==
    ASSUME RowsInv, NEW w \in Worker, WorkerStep(w)
    PROVE  RowsEffect
<1> USE DEF rowVars, routeVars, appliedVars
<1>1. CASE \E p \in Project : ClaimNext(w, p)
  BY <1>1, SameHosts DEF ClaimNext
<1>2. CASE Finalize(w)
  BY <1>2, SameHosts, CompleteEffect DEF Finalize
<1>3. CASE FinalizeUncertain(w)
  BY <1>3, SameHosts, CompleteEffect DEF FinalizeUncertain
<1>4. CASE Record(w)
  BY <1>4, SameHosts DEF Record, Leave
<1>5. CASE Start(w) \/ Reconcile(w) \/ Attach(w) \/ ReadApplied(w) \/ Render(w) \/ Enter(w)
  BY <1>5, SameHosts DEF Start, Reconcile, Attach, ReadApplied, Render, Enter
<1>6. CASE Prepare(w) \/ Replace(w) \/ Reload(w) \/ Probe(w) \/ Commit(w)
  BY <1>6, SameHosts DEF Prepare, Replace, Reload, Probe, Commit
<1>7. CASE RestoreFile(w) \/ RestoreEdge(w)
  BY <1>7, SameHosts DEF RestoreFile, RestoreEdge
<1> QED
  BY <1>1, <1>2, <1>3, <1>4, <1>5, <1>6, <1>7 DEF WorkerStep

\* Every step of the system has one of the two.
LEMMA StepEffect == ASSUME RowsInv, [Next]_vars PROVE RowsEffect
<1> USE DEF rowVars, routeVars, appliedVars
<1>1. CASE UNCHANGED vars
  BY <1>1, SameHosts DEF vars
<1>2. ASSUME NEW p \in Project, NEW h \in Hostname, SetEnabled(p, h)
      PROVE  RowsEffect
  BY <1>2, RequestEffect
<1>3. ASSUME NEW p \in Project, Disable(p)
      PROVE  RowsEffect
  BY <1>3, DisableEffect
<1>4. ASSUME NEW w \in Worker, Crash(w)
      PROVE  RowsEffect
  BY <1>4, SameHosts DEF Crash
<1>5. ASSUME NEW p \in Project,
             LeaseExpires(p) \/ LeaseLapses(p) \/ StopGateway(p) \/ StartGateway(p)
      PROVE  RowsEffect
  BY <1>5, SameHosts DEF LeaseExpires, LeaseLapses, StopGateway, StartGateway
<1>6. CASE RestartEdge
  BY <1>6, SameHosts DEF RestartEdge
<1> QED
  BY <1>1, <1>2, <1>3, <1>4, <1>5, <1>6, WorkerStepEffect DEF Next

\* Two projects never ask for, or have applied, the same hostname: set_enabled looks at
\* the requested and the applied hostname of every other row, and complete() moves a
\* hostname only inside its row, so neither an overtaken worker nor a hostname that is
\* still served after a rename can break it.
THEOREM HostnamesHaveOneOwner == Spec => []HostnameHasOneOwner
<1>1. RowsInv /\ [Next]_vars => RowsInv'
  BY StepEffect, EffectKeepsOwner
<1>2. RowsInv => HostnameHasOneOwner
  BY DEF RowsInv
<1> QED
  BY InitRowsInv, <1>1, <1>2, PTL DEF Spec

-----------------------------------------------------------------------------
(* Types *)

\* An interrupted worker remembers its error.
ErrorKept == \A w \in Worker : pc[w] \in {"restore", "restoring"} => after[w] \in Errors

\* A job that can be claimed has a hostname.
OpenHasHost == \A p \in Project : jobState[p] \in {"PENDING", "CLAIMED"} => host[p] \in Hostname

\* A route that was requested has one.
PresentHasHost == \A p \in Project : status[p] # "ABSENT" => host[p] \in Hostname

\* And so has a route that was claimed.
ClaimHasHost ==
    \A w \in Worker : claim[w] # None => host[claim[w].project] \in Hostname

Claims == [project : Project, desired : {"ENABLED", "DISABLED"},
           host : Hostname, applied : Slot] \cup {None}
Snapshots == [Project -> [host : Slot, rev : 0..MaxRevision]]

\* What is typed of a worker.
WorkerTyped ==
    /\ pc \in [Worker -> Labels]
    /\ claim \in [Worker -> Claims]
    /\ snapshot \in [Worker -> Snapshots]
    /\ previous \in [Worker -> Config]
    /\ after \in [Worker -> Errors \cup {None}]
    /\ ErrorKept

\* What is typed of the rows.
RowsTyped ==
    /\ desired \in [Project -> {"ENABLED", "DISABLED"}]
    /\ status \in [Project -> Statuses]
    /\ host \in Config /\ appliedHost \in Config
    /\ rev \in [Project -> 0..MaxRevision] /\ appliedRev \in [Project -> 0..MaxRevision]
    /\ jobState \in [Project -> {"NONE", "PENDING", "CLAIMED", "SUCCEEDED", "FAILED"}]
    /\ attempts \in [Project -> 0..MaxAttempts]
    /\ holder \in [Project -> Worker \cup {None}]
    /\ OpenHasHost /\ PresentHasHost

\* What is typed of the Edge.
EdgeTyped ==
    /\ up \subseteq Project
    /\ file \in Config /\ loaded \in Config
    /\ journal \in [previous : Config, candidate : Config] \cup {None}
    /\ lock \in Worker \cup {None}

RestTyped == need \in [Worker -> BOOLEAN] /\ faults \in 0..MaxFaults

TypeInv == WorkerTyped /\ RowsTyped /\ EdgeTyped /\ RestTyped /\ ClaimHasHost

LEMMA TypeInvTypes == TypeInv => TypeOK
BY DEF TypeInv, TypeOK, WorkerTyped, RowsTyped, EdgeTyped, RestTyped, Claims, Snapshots

-----------------------------------------------------------------------------
LEMMA NothingTyped == Nothing \in Snapshots /\ NoRoutes \in Config
BY RoutesAssumption DEF Nothing, Snapshots, NoRoutes, Config, Slot

LEMMA InitTypeInv == Init => TypeInv
<1> SUFFICES ASSUME Init PROVE TypeInv
  OBVIOUS
<1>1. WorkerTyped
  BY NothingTyped DEF Init, WorkerTyped, ErrorKept, Labels, Claims
<1>2. RowsTyped
  BY NothingTyped, RoutesAssumption
  DEF Init, RowsTyped, OpenHasHost, PresentHasHost, Statuses
<1>3. EdgeTyped /\ RestTyped /\ ClaimHasHost
  BY NothingTyped, RoutesAssumption DEF Init, EdgeTyped, RestTyped, ClaimHasHost
<1> QED
  BY <1>1, <1>2, <1>3 DEF TypeInv

LEMMA AppliedTyped == ASSUME RowsTyped PROVE Applied \in Snapshots
BY RoutesAssumption DEF RowsTyped, Applied, Nothing, Snapshots, Config, Slot

LEMMA CandidateTyped ==
    ASSUME WorkerTyped, NEW w \in Worker PROVE Candidate(w) \in Config
BY DEF WorkerTyped, Candidate, Config, Claims, Snapshots, Slot

LEMMA RestWorker == ASSUME WorkerTyped, NEW w \in Worker, Rest(w) PROVE WorkerTyped'
BY NothingTyped DEF WorkerTyped, Rest, Goto, ErrorKept, Labels, Claims

LEMMA RaiseWorker ==
    ASSUME WorkerTyped, EdgeTyped, NEW w \in Worker, NEW error \in Errors, Raise(w, error)
    PROVE  WorkerTyped' /\ lock' \in Worker \cup {None}
<1>1. lock' \in Worker \cup {None}
  BY DEF Raise, Unlock, EdgeTyped
<1>2. CASE Rest(w)
  BY <1>1, <1>2, RestWorker
<1>3. CASE error # "lost" /\ Goto(w, error) /\ UNCHANGED localVars
  BY <1>1, <1>3 DEF WorkerTyped, Goto, ErrorKept, Labels, Errors, localVars
<1> QED
  BY <1>2, <1>3 DEF Raise

LEMMA UndoWorker ==
    ASSUME WorkerTyped, NEW w \in Worker, NEW error \in Errors, Undo(w, error)
    PROVE  WorkerTyped'
BY DEF WorkerTyped, Undo, Goto, ErrorKept, Labels

\* A move that disturbs nothing else of the workers.
LEMMA GotoWorker ==
    ASSUME WorkerTyped, NEW w \in Worker, NEW label \in Labels \ {"restore", "restoring"},
           Goto(w, label), UNCHANGED localVars
    PROVE  WorkerTyped'
BY DEF WorkerTyped, Goto, ErrorKept, localVars

LEMMA SameWorker == ASSUME WorkerTyped, UNCHANGED <<pc, localVars>> PROVE WorkerTyped'
BY DEF WorkerTyped, ErrorKept, localVars

LEMMA SameRows == ASSUME RowsTyped, UNCHANGED rowVars PROVE RowsTyped'
BY DEF RowsTyped, OpenHasHost, PresentHasHost, rowVars, routeVars, jobVars, appliedVars

LEMMA SameEdge == ASSUME EdgeTyped, UNCHANGED <<up, edgeVars>>, lock' \in Worker \cup {None}
                  PROVE  EdgeTyped'
BY DEF EdgeTyped, edgeVars

LEMMA FaultTyped == ASSUME RestTyped, Fault, need' \in [Worker -> BOOLEAN] PROVE RestTyped'
BY RoutesAssumption DEF RestTyped, Fault

LEMMA FenceTyped == ASSUME NEW w, Fence(w) # None PROVE Fence(w) \in Errors
BY DEF Fence, Errors

LEMMA ClaimProject ==
    ASSUME WorkerTyped, NEW w \in Worker, claim[w] # None
    PROVE  claim[w].project \in Project
BY DEF WorkerTyped, Claims

\* The transactions on a claimed row.
LEMMA CompleteRows ==
    ASSUME WorkerTyped, RowsTyped, ClaimHasHost, NEW w \in Worker, claim[w] # None, Complete(w)
    PROVE  RowsTyped' /\ host' = host
<1> DEFINE p == claim[w].project
<1>1. p \in Project /\ host[p] \in Hostname
  BY ClaimProject DEF ClaimHasHost
<1>2. status' \in [Project -> Statuses] /\ PresentHasHost'
  BY <1>1 DEF Complete, RowsTyped, PresentHasHost, Statuses
<1>3. /\ jobState' \in [Project -> {"NONE", "PENDING", "CLAIMED", "SUCCEEDED", "FAILED"}]
      /\ holder' \in [Project -> Worker \cup {None}]
      /\ attempts' = attempts /\ OpenHasHost'
  BY <1>1 DEF Complete, RowsTyped, OpenHasHost, CloseJob
<1>4. appliedHost' \in Config /\ appliedRev' \in [Project -> 0..MaxRevision]
  BY <1>1 DEF Complete, RowsTyped, Config, Slot
<1> QED
  BY <1>2, <1>3, <1>4 DEF Complete, RowsTyped

LEMMA LeaveRows ==
    ASSUME WorkerTyped, RowsTyped, ClaimHasHost, NEW w \in Worker, claim[w] # None,
           NEW s \in {"PENDING", "FAILED", "UNCERTAIN"}, NEW j \in {"PENDING", "FAILED"},
           Leave(w, s, j)
    PROVE  RowsTyped' /\ host' = host
<1> DEFINE p == claim[w].project
<1>1. p \in Project /\ host[p] \in Hostname
  BY ClaimProject DEF ClaimHasHost
<1>2. status' \in [Project -> Statuses] /\ PresentHasHost'
  BY <1>1 DEF Leave, RowsTyped, PresentHasHost, Statuses
<1>3. /\ jobState' \in [Project -> {"NONE", "PENDING", "CLAIMED", "SUCCEEDED", "FAILED"}]
      /\ holder' \in [Project -> Worker \cup {None}]
      /\ attempts' = attempts /\ OpenHasHost'
  BY <1>1 DEF Leave, RowsTyped, OpenHasHost, CloseJob
<1> QED
  BY <1>2, <1>3 DEF Leave, RowsTyped, appliedVars

LEMMA WantRows ==
    ASSUME WorkerTyped, RowsTyped, ClaimHasHost, NEW p \in Project, NEW h \in Hostname,
           NEW state \in {"ENABLED", "DISABLED"}, NEW served, Want(p, state, h, served)
    PROVE  RowsTyped' /\ ClaimHasHost'
<1>1. /\ desired' \in [Project -> {"ENABLED", "DISABLED"}]
      /\ status' \in [Project -> Statuses]
      /\ host' \in Config /\ PresentHasHost'
  BY DEF Want, RowsTyped, Config, Slot, Statuses, PresentHasHost
<1>2. rev' \in [Project -> 0..MaxRevision]
  BY RoutesAssumption DEF Want, RowsTyped
<1>3. /\ jobState' \in [Project -> {"NONE", "PENDING", "CLAIMED", "SUCCEEDED", "FAILED"}]
      /\ attempts' \in [Project -> 0..MaxAttempts]
      /\ holder' \in [Project -> Worker \cup {None}]
      /\ OpenHasHost'
  BY RoutesAssumption DEF Want, RowsTyped, UpsertJob, OpenHasHost, Config
<1>4. ClaimHasHost'
  <2> SUFFICES ASSUME NEW w \in Worker, claim[w] # None
               PROVE  host'[claim[w].project] \in Hostname
    BY DEF ClaimHasHost, Want, localVars
  <2> QED
    BY ClaimProject DEF ClaimHasHost, Want, RowsTyped, Config
<1> QED
  BY <1>1, <1>2, <1>3, <1>4 DEF Want, RowsTyped, appliedVars

\* While the hostnames stay, so do those of the claims.
LEMMA ClaimsKeepHost ==
    ASSUME WorkerTyped, ClaimHasHost, NEW w \in Worker, host' = host,
           \/ claim' = claim
           \/ claim' = [claim EXCEPT ![w] = None]
    PROVE  ClaimHasHost'
BY DEF ClaimHasHost, WorkerTyped

LEMMA RaiseClaims ==
    ASSUME NEW w \in Worker, NEW error, Raise(w, error)
    PROVE  claim' = claim \/ claim' = [claim EXCEPT ![w] = None]
BY DEF Raise, Rest, localVars

\* A step that raises or undoes, with the rows as they were.
LEMMA RaiseParts ==
    ASSUME TypeInv, NEW w \in Worker, NEW error \in Errors, Raise(w, error), host' = host
    PROVE  WorkerTyped' /\ ClaimHasHost' /\ lock' \in Worker \cup {None}
BY RaiseWorker, RaiseClaims, ClaimsKeepHost DEF TypeInv

LEMMA UndoParts ==
    ASSUME TypeInv, NEW w \in Worker, NEW error \in Errors, Undo(w, error), host' = host
    PROVE  WorkerTyped' /\ ClaimHasHost' /\ lock' \in Worker \cup {None}
<1>1. claim' = claim /\ lock' = lock
  BY DEF Undo
<1> QED
  BY <1>1, UndoWorker, ClaimsKeepHost DEF TypeInv, EdgeTyped

LEMMA GotoParts ==
    ASSUME TypeInv, NEW w \in Worker, NEW label \in Labels \ {"restore", "restoring"},
           Goto(w, label), UNCHANGED localVars, host' = host
    PROVE  WorkerTyped' /\ ClaimHasHost'
<1>1. claim' = claim
  BY DEF localVars
<1> QED
  BY <1>1, GotoWorker, ClaimsKeepHost DEF TypeInv

-----------------------------------------------------------------------------
(* The steps of a worker *)

LEMMA ClaimNextType ==
    ASSUME TypeInv, NEW w \in Worker, NEW p \in Project, ClaimNext(w, p)
    PROVE  TypeInv'
<1>0. WorkerTyped /\ RowsTyped /\ EdgeTyped /\ RestTyped /\ ClaimHasHost
  BY DEF TypeInv
<1>1. host[p] \in Hostname /\ appliedHost[p] \in Slot /\ desired[p] \in {"ENABLED", "DISABLED"}
  BY <1>0 DEF ClaimNext, Claimable, RowsTyped, OpenHasHost, Config
<1>2. status' \in [Project -> Statuses] /\ PresentHasHost'
  BY <1>0, <1>1 DEF ClaimNext, RowsTyped, Statuses, PresentHasHost
<1>3. /\ jobState' \in [Project -> {"NONE", "PENDING", "CLAIMED", "SUCCEEDED", "FAILED"}]
      /\ holder' \in [Project -> Worker \cup {None}] /\ OpenHasHost'
  BY <1>0, <1>1 DEF ClaimNext, RowsTyped, OpenHasHost
<1>4. attempts' \in [Project -> 0..MaxAttempts]
  BY <1>0, RoutesAssumption DEF ClaimNext, RowsTyped
<1>5. RowsTyped'
  BY <1>0, <1>2, <1>3, <1>4 DEF ClaimNext, RowsTyped, appliedVars
<1>6. claim' \in [Worker -> Claims] /\ ClaimHasHost'
  BY <1>0, <1>1 DEF ClaimNext, WorkerTyped, Claims, ClaimHasHost
<1>7. WorkerTyped'
  BY <1>0, <1>6 DEF ClaimNext, WorkerTyped, Goto, Labels, ErrorKept
<1> QED
  BY <1>0, <1>5, <1>6, <1>7 DEF TypeInv, ClaimNext, EdgeTyped, RestTyped, edgeVars

LEMMA ReadType ==
    ASSUME TypeInv, NEW w \in Worker, Reconcile(w) \/ ReadApplied(w)
    PROVE  TypeInv'
<1>0. WorkerTyped /\ RowsTyped /\ EdgeTyped /\ RestTyped /\ ClaimHasHost
  BY DEF TypeInv
<1>1. UNCHANGED rowVars /\ UNCHANGED <<up, edgeVars, lock, claim, previous, after, need, faults>>
  BY DEF Reconcile, ReadApplied
<1>2. snapshot' \in [Worker -> Snapshots]
  BY <1>0, AppliedTyped DEF Reconcile, ReadApplied, WorkerTyped
<1>3. WorkerTyped'
  BY <1>0, <1>1, <1>2 DEF Reconcile, ReadApplied, WorkerTyped, Goto, Labels, ErrorKept
<1>4. ClaimHasHost' /\ RowsTyped'
  BY <1>0, <1>1, SameRows, ClaimsKeepHost DEF rowVars, routeVars
<1> QED
  BY <1>0, <1>1, <1>3, <1>4, SameEdge DEF TypeInv, EdgeTyped, RestTyped

\* The steps that change neither the rows nor the Edge.
LEMMA QuietType ==
    ASSUME TypeInv, NEW w \in Worker, Start(w) \/ Attach(w) \/ Render(w) \/ Enter(w) \/ Probe(w)
    PROVE  TypeInv'
<1>0. WorkerTyped /\ RowsTyped /\ EdgeTyped /\ RestTyped /\ ClaimHasHost
  BY DEF TypeInv
<1>1. UNCHANGED rowVars /\ UNCHANGED <<up, edgeVars>> /\ UNCHANGED need
  BY DEF Start, Attach, Render, Enter, Probe
<1>2. RowsTyped' /\ host' = host
  BY <1>0, <1>1, SameRows DEF rowVars, routeVars
<1>3. RestTyped'
  BY <1>0, <1>1, FaultTyped DEF Start, Attach, Render, Enter, Probe, RestTyped
<1>4. WorkerTyped' /\ ClaimHasHost' /\ lock' \in Worker \cup {None}
  <2>0. lock \in Worker \cup {None}
    BY <1>0 DEF EdgeTyped
  <2>1. CASE Start(w)
    BY <2>0, <2>1, <1>2, GotoParts DEF Start, Labels
  <2>2. CASE Attach(w)
    BY <2>0, <2>2, <1>2, GotoParts, RaiseParts DEF Attach, Labels, Errors
  <2>3. CASE Render(w)
    BY <2>0, <2>3, <1>2, GotoParts, RaiseParts DEF Render, Labels, Errors
  <2>4. CASE Enter(w)
    <3>1. CASE Explained /\ Fence(w) = None
      BY <2>4, <3>1, <1>2, GotoParts DEF Enter, Labels
    <3>2. CASE ~(Explained /\ Fence(w) = None)
      <4>1. (IF Explained THEN Fence(w) ELSE "uncertain") \in Errors
        BY <3>2, FenceTyped DEF Errors
      <4> QED
        BY <2>4, <3>2, <4>1, <1>2, RaiseParts DEF Enter
    <3> QED
      BY <3>1, <3>2
  <2>5. CASE Probe(w)
    BY <2>0, <2>5, <1>2, GotoParts, UndoParts DEF Probe, Labels, Errors
  <2> QED
    BY <2>1, <2>2, <2>3, <2>4, <2>5
<1> QED
  BY <1>0, <1>1, <1>2, <1>3, <1>4, SameEdge DEF TypeInv

\* The steps under the lock that change the Edge.
LEMMA SwitchType ==
    ASSUME TypeInv, NEW w \in Worker, Prepare(w) \/ Replace(w) \/ Reload(w) \/ Commit(w)
    PROVE  TypeInv'
<1>0. WorkerTyped /\ RowsTyped /\ EdgeTyped /\ RestTyped /\ ClaimHasHost
  BY DEF TypeInv
<1>1. UNCHANGED rowVars /\ UNCHANGED up
  BY DEF Prepare, Replace, Reload, Commit
<1>2. RowsTyped' /\ host' = host
  BY <1>0, <1>1, SameRows DEF rowVars, routeVars
<1>3. RestTyped'
  BY <1>0, FaultTyped DEF Prepare, Replace, Reload, Commit, RestTyped
<1>4. Candidate(w) \in Config /\ lock \in Worker \cup {None}
  BY <1>0, CandidateTyped DEF EdgeTyped
<1>5. WorkerTyped' /\ ClaimHasHost' /\ lock' \in Worker \cup {None}
  <2>1. CASE Prepare(w)
    <3>1. CASE /\ previous' = [previous EXCEPT ![w] = Current]
               /\ Goto(w, "replace")
               /\ UNCHANGED <<lock, claim, snapshot, after, faults>>
      <4>1. WorkerTyped'
        BY <1>0, <3>1 DEF WorkerTyped, EdgeTyped, Current, Goto, Labels, ErrorKept
      <4> QED
        BY <1>0, <1>2, <1>4, <3>1, <4>1, ClaimsKeepHost
    <3>2. CASE Fence(w) # None /\ Raise(w, Fence(w))
      BY <1>2, <3>2, FenceTyped, RaiseParts
    <3>3. CASE \E error \in {"retry", "fail"} : Raise(w, error)
      BY <1>2, <3>3, RaiseParts DEF Errors
    <3> QED
      BY <2>1, <3>1, <3>2, <3>3 DEF Prepare
  <2>2. CASE Replace(w)
    BY <1>2, <1>4, <2>2, GotoParts DEF Replace, Labels
  <2>3. CASE Reload(w)
    BY <1>2, <1>4, <2>3, GotoParts, UndoParts DEF Reload, Labels, Errors
  <2>4. CASE Commit(w)
    <3>1. CASE Unlock(w) /\ Rest(w)
      <4>1. claim' = [claim EXCEPT ![w] = None]
        BY <3>1 DEF Rest
      <4> QED
        BY <1>0, <1>2, <1>4, <3>1, <4>1, RestWorker, ClaimsKeepHost DEF Unlock
    <3>2. CASE Raise(w, "uncertain")
      BY <1>2, <3>2, RaiseParts DEF Errors
    <3> QED
      BY <2>4, <3>1, <3>2 DEF Commit
  <2> QED
    BY <2>1, <2>2, <2>3, <2>4
<1>6. EdgeTyped'
  BY <1>0, <1>1, <1>4, <1>5
  DEF EdgeTyped, Prepare, Replace, Reload, Commit, Transaction, edgeVars
<1> QED
  BY <1>2, <1>3, <1>5, <1>6 DEF TypeInv

LEMMA RestoreType ==
    ASSUME TypeInv, NEW w \in Worker, RestoreFile(w) \/ RestoreEdge(w)
    PROVE  TypeInv'
<1>0. WorkerTyped /\ RowsTyped /\ EdgeTyped /\ RestTyped /\ ClaimHasHost
  BY DEF TypeInv
<1>1. UNCHANGED rowVars /\ UNCHANGED up /\ UNCHANGED need
  BY DEF RestoreFile, RestoreEdge
<1>2. RowsTyped' /\ host' = host
  BY <1>0, <1>1, SameRows DEF rowVars, routeVars
<1>3. RestTyped'
  BY <1>0, <1>1, FaultTyped DEF RestoreFile, RestoreEdge, RestTyped
<1>4. lock \in Worker \cup {None} /\ previous[w] \in Config
  BY <1>0 DEF EdgeTyped, WorkerTyped
<1>5. pc[w] \in {"restore", "restoring"} /\ after[w] \in Errors
  BY <1>0 DEF RestoreFile, RestoreEdge, WorkerTyped, ErrorKept
<1>6. WorkerTyped' /\ ClaimHasHost' /\ lock' \in Worker \cup {None}
  <2>1. CASE RestoreFile(w)
    <3>1. CASE Goto(w, "restoring") /\ UNCHANGED <<lock, localVars>>
      <4>1. WorkerTyped' /\ claim' = claim
        BY <1>0, <1>5, <3>1 DEF WorkerTyped, Goto, Labels, ErrorKept, localVars
      <4> QED
        BY <1>0, <1>2, <1>4, <3>1, <4>1, ClaimsKeepHost
    <3>2. CASE Raise(w, "uncertain") \/ Raise(w, "fail")
      BY <1>2, <3>2, RaiseParts DEF Errors
    <3> QED
      BY <2>1, <3>1, <3>2 DEF RestoreFile
  <2>2. CASE RestoreEdge(w)
    BY <1>2, <1>5, <2>2, RaiseParts DEF RestoreEdge, Errors
  <2> QED
    BY <2>1, <2>2
<1>7. EdgeTyped'
  BY <1>0, <1>1, <1>4, <1>6 DEF EdgeTyped, RestoreFile, RestoreEdge
<1> QED
  BY <1>2, <1>3, <1>6, <1>7 DEF TypeInv

LEMMA FinalizeType ==
    ASSUME TypeInv, NEW w \in Worker, Finalize(w) \/ FinalizeUncertain(w)
    PROVE  TypeInv'
<1>0. WorkerTyped /\ RowsTyped /\ EdgeTyped /\ RestTyped /\ ClaimHasHost
  BY DEF TypeInv
<1>1. UNCHANGED <<up, edgeVars>> /\ lock \in Worker \cup {None}
  BY <1>0 DEF Finalize, FinalizeUncertain, EdgeTyped
<1>2. RowsTyped' /\ host' = host
  <2>1. UNCHANGED rowVars \/ (claim[w] # None /\ Complete(w))
    BY DEF Finalize, FinalizeUncertain, Holds
  <2> QED
    BY <1>0, <2>1, SameRows, CompleteRows DEF rowVars, routeVars
<1>3. RestTyped'
  BY <1>0, FaultTyped DEF Finalize, FinalizeUncertain, RestTyped
<1>4. WorkerTyped' /\ ClaimHasHost' /\ lock' \in Worker \cup {None}
  <2>1. CASE Finalize(w) /\ Fence(w) # None
    BY <1>2, <2>1, FenceTyped, UndoParts DEF Finalize
  <2>2. CASE Finalize(w) /\ Fence(w) = None
    BY <1>1, <1>2, <2>2, GotoParts DEF Finalize, Labels
  <2>3. CASE FinalizeUncertain(w)
    BY <1>2, <2>3, RaiseParts DEF FinalizeUncertain, Errors
  <2> QED
    BY <2>1, <2>2, <2>3
<1> QED
  BY <1>0, <1>1, <1>2, <1>3, <1>4, SameEdge DEF TypeInv

LEMMA RecordType == ASSUME TypeInv, NEW w \in Worker, Record(w) PROVE TypeInv'
<1>0. WorkerTyped /\ RowsTyped /\ EdgeTyped /\ RestTyped /\ ClaimHasHost
  BY DEF TypeInv
<1>1. RowsTyped' /\ host' = host
  <2>1. CASE UNCHANGED rowVars
    BY <1>0, <2>1, SameRows DEF rowVars, routeVars
  <2>2. CASE claim[w] # None /\ Leave(w, "PENDING", "PENDING")
    BY <1>0, <2>2, LeaveRows
  <2>3. CASE /\ claim[w] # None
             /\ Leave(w, IF pc[w] = "uncertain" THEN "UNCERTAIN" ELSE "FAILED", "FAILED")
    BY <1>0, <2>3, LeaveRows
  <2> QED
    BY <2>1, <2>2, <2>3 DEF Record, Holds
<1>2. Rest(w) /\ UNCHANGED <<up, edgeVars, lock, need, faults>>
  BY DEF Record
<1>3. claim' = [claim EXCEPT ![w] = None]
  BY <1>2 DEF Rest
<1>4. WorkerTyped' /\ ClaimHasHost'
  BY <1>0, <1>1, <1>2, <1>3, RestWorker, ClaimsKeepHost
<1> QED
  BY <1>0, <1>1, <1>2, <1>4, SameEdge DEF TypeInv, EdgeTyped, RestTyped

-----------------------------------------------------------------------------
(* The other steps *)

LEMMA RequestType ==
    ASSUME TypeInv, NEW p \in Project,
           Disable(p) \/ \E h \in Hostname : SetEnabled(p, h)
    PROVE  TypeInv'
<1>0. WorkerTyped /\ RowsTyped /\ EdgeTyped /\ RestTyped /\ ClaimHasHost
  BY DEF TypeInv
<1>1. PICK h \in Hostname, state \in {"ENABLED", "DISABLED"},
           served \in {"ACTIVE", "INACTIVE"} : Want(p, state, h, served)
  <2>1. CASE Disable(p)
    BY <1>0, <2>1 DEF Disable, RowsTyped, PresentHasHost
  <2>2. CASE \E h \in Hostname : SetEnabled(p, h)
    BY <2>2 DEF SetEnabled
  <2> QED
    BY <2>1, <2>2
<1>2. RowsTyped' /\ ClaimHasHost'
  BY <1>0, <1>1, WantRows
<1>3. UNCHANGED <<up, edgeVars, lock, pc, localVars, need, faults>>
  BY <1>1 DEF Want
<1> QED
  BY <1>0, <1>2, <1>3, SameWorker, SameEdge DEF TypeInv, EdgeTyped, RestTyped

LEMMA WorldType ==
    ASSUME TypeInv, NEW p \in Project,
           \/ LeaseExpires(p) \/ LeaseLapses(p)
           \/ StopGateway(p) \/ StartGateway(p)
           \/ RestartEdge
    PROVE  TypeInv'
<1>0. WorkerTyped /\ RowsTyped /\ EdgeTyped /\ RestTyped /\ ClaimHasHost
  BY DEF TypeInv
<1> USE DEF LeaseExpires, LeaseLapses, StopGateway, StartGateway, RestartEdge
<1>1. UNCHANGED <<routeVars, jobState, attempts, lock, pc, localVars, need>>
  BY DEF rowVars, jobVars
<1>2. WorkerTyped' /\ ClaimHasHost'
  BY <1>0, <1>1, SameWorker DEF ClaimHasHost, routeVars, localVars
<1>3. RowsTyped'
  <2>1. holder' \in [Project -> Worker \cup {None}]
    BY <1>0 DEF RowsTyped, rowVars, jobVars
  <2> QED
    BY <1>0, <1>1, <2>1
    DEF RowsTyped, OpenHasHost, PresentHasHost, routeVars, appliedVars
<1>4. EdgeTyped'
  BY <1>0, <1>1 DEF EdgeTyped, edgeVars
<1>5. RestTyped'
  BY <1>0, <1>1, FaultTyped DEF RestTyped
<1> QED
  BY <1>2, <1>3, <1>4, <1>5 DEF TypeInv

LEMMA CrashType == ASSUME TypeInv, NEW w \in Worker, Crash(w) PROVE TypeInv'
<1>0. WorkerTyped /\ RowsTyped /\ EdgeTyped /\ RestTyped /\ ClaimHasHost
  BY DEF TypeInv
<1>1. WorkerTyped'
  BY <1>0, NothingTyped DEF Crash, WorkerTyped, Goto, ErrorKept, Labels, Claims
<1>2. RowsTyped' /\ host' = host
  BY <1>0, SameRows DEF Crash, rowVars, routeVars
<1>3. ClaimHasHost'
  BY <1>0, <1>2, ClaimsKeepHost DEF Crash
<1>4. EdgeTyped'
  BY <1>0, SameEdge DEF Crash, Unlock, EdgeTyped
<1>5. RestTyped'
  BY <1>0, FaultTyped DEF Crash, RestTyped
<1> QED
  BY <1>1, <1>2, <1>3, <1>4, <1>5 DEF TypeInv

LEMMA NextTypeInv == ASSUME TypeInv, [Next]_vars PROVE TypeInv'
<1>1. CASE UNCHANGED vars
  <2>1. UNCHANGED <<rowVars, up, edgeVars, lock, pc, localVars, need, faults>>
    BY <1>1 DEF vars
  <2>2. UNCHANGED <<host, claim>>
    BY <2>1 DEF rowVars, routeVars, localVars
  <2> QED
    BY <2>1, <2>2, SameWorker, SameRows, SameEdge
    DEF TypeInv, EdgeTyped, RestTyped, ClaimHasHost
<1>2. ASSUME NEW w \in Worker, WorkerStep(w)
      PROVE  TypeInv'
  BY <1>2, ClaimNextType, ReadType, QuietType, SwitchType, RestoreType, FinalizeType, RecordType
  DEF WorkerStep
<1>3. CASE RestartEdge
  <2>1. CASE Project = {}
    <3>1. UNCHANGED <<rowVars, up, file, journal, lock, pc, localVars, need>>
      BY <1>3 DEF RestartEdge
    <3>2. UNCHANGED <<host, claim>>
      BY <3>1 DEF rowVars, routeVars, localVars
    <3>3. EdgeTyped' /\ RestTyped'
      BY <1>3, <3>1, FaultTyped DEF TypeInv, EdgeTyped, RestTyped, RestartEdge
    <3> QED
      BY <3>1, <3>2, <3>3, SameWorker, SameRows DEF TypeInv, ClaimHasHost
  <2> QED
    BY <1>3, <2>1, WorldType
<1> QED
  BY <1>1, <1>2, <1>3, RequestType, WorldType, CrashType DEF Next

\* Every variable keeps its type: in particular a worker that restores after an exception
\* has an error to go on with, and whoever claims a row finds a hostname in it.
THEOREM TypeCorrect == Spec => []TypeOK
BY InitTypeInv, NextTypeInv, TypeInvTypes, PTL DEF Spec
-----------------------------------------------------------------------------
(* Served routes: what the workers know under the lock *)

\* The labels of the code that runs with the lock, those before finalize() is
\* done, and those from the journal on.
Locked == {"test", "replace", "reload", "probe", "finalize", "commit", "restore", "restoring"}
Switching == Locked \ {"commit"}
Undoable == Switching \ {"test"}

Settled(p) == status[p] \in {"ACTIVE", "INACTIVE"}

LockAgrees == \A w \in Worker : lock = w <=> pc[w] \in Locked

\* Nobody holds, or can claim, the job of a settled route.
SettledIsClosed == \A p \in Project : Settled(p) => jobState[p] = "SUCCEEDED" /\ holder[p] = None

\* A claim that is not lost is what its row asks for.
ClaimIsCurrent ==
    \A w \in Worker : Holds(w) =>
        /\ claim[w].desired = desired[claim[w].project]
        /\ claim[w].host = host[claim[w].project]

\* Of a worker under the lock: the applied rows are those it read, and the route
\* it works on is not settled, also once its claim is lost; what an undo goes
\* back to serves the settled routes; the file is the candidate until it is
\* undone, and what is probed is loaded.
SwitchKnows(w) ==
    /\ pc[w] \in Switching =>
         /\ snapshot[w] = Applied
         /\ claim[w] # None => ~Settled(claim[w].project)
    /\ pc[w] \in Undoable =>
         \A p \in Project : Settled(p) => previous[w][p] = appliedHost[p]
    /\ pc[w] \in {"reload", "probe", "finalize"} => file = Candidate(w)
    /\ pc[w] \in {"probe", "finalize"} => loaded = file

ServedInv ==
    /\ TypeInv
    /\ LockAgrees /\ SettledIsClosed /\ ClaimIsCurrent
    /\ \A w \in Worker : SwitchKnows(w)
    /\ SettledIsServed

LEMMA InitServedInv == Init => ServedInv
BY InitTypeInv, RoutesAssumption
DEF Init, ServedInv, LockAgrees, Locked, SettledIsClosed, Settled, ClaimIsCurrent, Holds,
    SwitchKnows, Switching, Undoable, SettledIsServed

-----------------------------------------------------------------------------
\* A step that settles no route and applies none.
SettlesNone ==
    /\ UNCHANGED appliedVars
    /\ \A p \in Project : Settled(p)' =>
         /\ status'[p] = status[p] /\ host'[p] = host[p]
         /\ jobState'[p] = jobState[p] /\ holder'[p] \in {holder[p], None}

\* A step that hands out no claim: a row that is still held asks for the same.
HandsOutNone ==
    /\ \A w \in Worker : claim'[w] \in {claim[w], None}
    /\ \A p \in Project : holder'[p] # None =>
         holder'[p] = holder[p] /\ desired'[p] = desired[p] /\ host'[p] = host[p]

\* The settled routes stay in the file and in what is loaded.
EdgeServes ==
    \A p \in Project : Settled(p) => file'[p] = appliedHost[p] /\ loaded'[p] = appliedHost[p]

\* A step of w alone.
Alone(w) ==
    \A v \in Worker \ {w} :
      pc'[v] = pc[v] /\ claim'[v] = claim[v] /\ snapshot'[v] = snapshot[v]
                     /\ previous'[v] = previous[v]

LEMMA AppliedHost == \A p \in Project : Applied[p].host = appliedHost[p]
BY DEF Applied, Nothing

LEMMA SameApplied == ASSUME UNCHANGED appliedVars PROVE Applied' = Applied
BY DEF appliedVars, Applied, Nothing

\* The candidate of a worker under the lock serves the settled routes.
LEMMA CandidateServes ==
    ASSUME NEW w \in Worker, SwitchKnows(w), pc[w] \in Switching,
           NEW p \in Project, Settled(p)
    PROVE  Candidate(w)[p] = appliedHost[p]
BY AppliedHost DEF SwitchKnows, Candidate

\* The lock keeps the others out.
LEMMA OthersOutside ==
    ASSUME LockAgrees, NEW w \in Worker, pc[w] \in Locked, NEW v \in Worker \ {w}
    PROVE  pc[v] \notin Locked
BY DEF LockAgrees

LEMMA StaysSettled ==
    ASSUME SettledIsClosed, SettlesNone
    PROVE  SettledIsClosed'
BY DEF SettledIsClosed, SettlesNone, Settled

LEMMA StaysServed ==
    ASSUME SettledIsServed, SettlesNone, EdgeServes
    PROVE  SettledIsServed'
BY DEF SettledIsServed, SettlesNone, EdgeServes, Settled, appliedVars

LEMMA StaysCurrent ==
    ASSUME TypeInv, ClaimIsCurrent, HandsOutNone
    PROVE  ClaimIsCurrent'
<1> SUFFICES ASSUME NEW w \in Worker, Holds(w)'
             PROVE  /\ claim'[w].desired = desired'[claim'[w].project]
                    /\ claim'[w].host = host'[claim'[w].project]
  BY DEF ClaimIsCurrent
<1>1. claim'[w] # None /\ claim'[w] = claim[w] /\ holder'[claim[w].project] = w
  BY DEF Holds, HandsOutNone
<1>2. claim[w].project \in Project /\ w # None
  BY <1>1, ClaimProject, RoutesAssumption DEF TypeInv
<1>3. Holds(w)
  BY <1>1, <1>2 DEF Holds, HandsOutNone
<1> QED
  BY <1>1, <1>2, <1>3 DEF ClaimIsCurrent, HandsOutNone

\* What a worker knows that the step does not move.
LEMMA OthersKnow ==
    ASSUME TypeInv, NEW v \in Worker, SwitchKnows(v), SettlesNone,
           pc'[v] = pc[v], claim'[v] = claim[v], snapshot'[v] = snapshot[v],
           previous'[v] = previous[v],
           pc[v] \notin Locked \/ (file' = file /\ loaded' \in {loaded, file})
    PROVE  SwitchKnows(v)'
<1>1. CASE pc[v] \notin Locked
  BY <1>1 DEF SwitchKnows, Switching, Undoable, Locked
<1>2. CASE file' = file /\ loaded' \in {loaded, file}
  <2>1. Applied' = Applied /\ appliedHost' = appliedHost
    BY SameApplied DEF SettlesNone, appliedVars
  <2>2. Candidate(v)' = Candidate(v)
    BY DEF Candidate
  <2>3. \A p \in Project : Settled(p)' => Settled(p)
    BY DEF SettlesNone, Settled
  <2>4. claim[v] # None => claim[v].project \in Project
    BY ClaimProject DEF TypeInv
  <2> QED
    BY <1>2, <2>1, <2>2, <2>3, <2>4 DEF SwitchKnows
<1> QED
  BY <1>1, <1>2

\* The parts together, for a step of one worker.
LEMMA OneWorkerKnows ==
    ASSUME ServedInv, NEW w \in Worker, Alone(w), SettlesNone, SwitchKnows(w)',
           pc[w] \in Locked \/ (file' = file /\ loaded' \in {loaded, file})
    PROVE  \A v \in Worker : SwitchKnows(v)'
<1> SUFFICES ASSUME NEW v \in Worker \ {w} PROVE SwitchKnows(v)'
  OBVIOUS
<1>1. pc[v] \notin Locked \/ (file' = file /\ loaded' \in {loaded, file})
  BY OthersOutside DEF ServedInv
<1> QED
  BY <1>1, OthersKnow DEF ServedInv, Alone

LEMMA KeepsServed ==
    ASSUME ServedInv, TypeInv', SettlesNone, HandsOutNone, EdgeServes, LockAgrees',
           \A v \in Worker : SwitchKnows(v)'
    PROVE  ServedInv'
BY StaysSettled, StaysServed, StaysCurrent, RoutesAssumption DEF ServedInv

LEMMA SameEdgeServes ==
    ASSUME ServedInv, file' = file, loaded' \in {loaded, file} PROVE EdgeServes
BY DEF ServedInv, SettledIsServed, EdgeServes, Settled

LEMMA SameRowsSettle == ASSUME UNCHANGED rowVars PROVE SettlesNone
BY DEF SettlesNone, Settled, rowVars, routeVars, jobVars

LEMMA SameRowsHand ==
    ASSUME UNCHANGED rowVars, \A w \in Worker : claim'[w] \in {claim[w], None}
    PROVE  HandsOutNone
BY DEF HandsOutNone, rowVars, routeVars, jobVars

\* A worker that rests, raises an error or is about to commit is not switching.
LEMMA OutsideKnows ==
    ASSUME NEW w \in Worker, pc'[w] \notin Switching PROVE SwitchKnows(w)'
BY DEF SwitchKnows, Switching, Undoable, Locked

\* What a step does that leaves the lock, or goes on without it.
LEMMA RestLeaves ==
    ASSUME ServedInv, NEW w \in Worker, Rest(w)
    PROVE  /\ Alone(w) /\ pc'[w] = "idle"
           /\ \A v \in Worker : claim'[v] \in {claim[v], None}
           /\ Unlock(w) \/ (lock' = lock /\ pc[w] \notin Locked) => LockAgrees'
<1>1. Alone(w) /\ pc'[w] = "idle" /\ \A v \in Worker : claim'[v] \in {claim[v], None}
  BY DEF Rest, Goto, Alone, ServedInv, TypeInv, WorkerTyped
<1>2. Unlock(w) \/ (lock' = lock /\ pc[w] \notin Locked) => LockAgrees'
  BY <1>1, RoutesAssumption DEF ServedInv, LockAgrees, Alone, Unlock, Locked
<1> QED
  BY <1>1, <1>2

LEMMA RaiseLeaves ==
    ASSUME ServedInv, NEW w \in Worker, NEW error \in Errors, Raise(w, error)
    PROVE  /\ Alone(w) /\ pc'[w] \notin Locked
           /\ \A v \in Worker : claim'[v] \in {claim[v], None}
           /\ LockAgrees'
<1>1. CASE Rest(w)
  BY <1>1, RestLeaves DEF Raise, Locked
<1>2. CASE error # "lost" /\ Goto(w, error) /\ UNCHANGED localVars
  <2>1. Alone(w) /\ pc'[w] \notin Locked /\ claim' = claim
    BY <1>2 DEF Goto, Alone, ServedInv, TypeInv, WorkerTyped, localVars, Errors, Locked
  <2>2. LockAgrees'
    BY <2>1, RoutesAssumption DEF ServedInv, LockAgrees, Alone, Unlock, Raise
  <2> QED
    BY <2>1, <2>2
<1> QED
  BY <1>1, <1>2 DEF Raise

\* A step that only raises: the rows and the file stay.
LEMMA RaiseServed ==
    ASSUME ServedInv, TypeInv', NEW w \in Worker, NEW error \in Errors, Raise(w, error),
           UNCHANGED rowVars, EdgeServes,
           pc[w] \in Locked \/ (file' = file /\ loaded' \in {loaded, file})
    PROVE  ServedInv'
<1>1. /\ Alone(w) /\ pc'[w] \notin Locked
      /\ \A v \in Worker : claim'[v] \in {claim[v], None}
      /\ LockAgrees'
  BY RaiseLeaves
<1>2. SettlesNone /\ HandsOutNone
  BY <1>1, SameRowsSettle, SameRowsHand
<1>3. SwitchKnows(w)'
  BY <1>1, OutsideKnows DEF Switching
<1>4. \A v \in Worker : SwitchKnows(v)'
  BY <1>1, <1>2, <1>3, OneWorkerKnows
<1> QED
  BY <1>1, <1>2, <1>4, KeepsServed

\* A worker that moves on, with the lock as its label says.
LEMMA GotoServed ==
    ASSUME ServedInv, TypeInv', NEW w \in Worker, NEW label \in Labels, Goto(w, label),
           claim' = claim,
           \A v \in Worker \ {w} : snapshot'[v] = snapshot[v] /\ previous'[v] = previous[v],
           UNCHANGED rowVars, EdgeServes, SwitchKnows(w)',
           \/ lock' = lock /\ (label \in Locked <=> pc[w] \in Locked)
           \/ lock = None /\ lock' = w /\ label \in Locked,
           pc[w] \in Locked \/ (file' = file /\ loaded' \in {loaded, file})
    PROVE  ServedInv'
<1>1. Alone(w) /\ pc'[w] = label /\ \A v \in Worker : claim'[v] \in {claim[v], None}
  BY DEF Goto, Alone, ServedInv, TypeInv, WorkerTyped
<1>2. SettlesNone /\ HandsOutNone
  BY <1>1, SameRowsSettle, SameRowsHand
<1>3. LockAgrees'
  BY <1>1, RoutesAssumption DEF ServedInv, LockAgrees, Alone
<1>4. \A v \in Worker : SwitchKnows(v)'
  BY <1>1, <1>2, OneWorkerKnows
<1> QED
  BY <1>1, <1>2, <1>3, <1>4, KeepsServed

-----------------------------------------------------------------------------
(* The steps of a worker that settle nothing *)

LEMMA ClaimServed ==
    ASSUME ServedInv, TypeInv', NEW w \in Worker, NEW p \in Project, ClaimNext(w, p)
    PROVE  ServedInv'
<1>1. Alone(w) /\ pc'[w] \in {"attach", "read"} /\ pc[w] = "idle"
  BY DEF ClaimNext, Goto, Alone, ServedInv, TypeInv, WorkerTyped
<1>2. SettlesNone
  <2>1. status' = [status EXCEPT ![p] = "APPLYING"] /\ UNCHANGED <<host, appliedVars>>
        /\ jobState' = [jobState EXCEPT ![p] = "CLAIMED"] /\ holder' = [holder EXCEPT ![p] = w]
    BY DEF ClaimNext
  <2> QED
    BY <2>1 DEF SettlesNone, Settled, ServedInv, TypeInv, RowsTyped
<1>3. EdgeServes
  BY SameEdgeServes DEF ClaimNext, edgeVars
<1>4. LockAgrees'
  BY <1>1 DEF ClaimNext, ServedInv, LockAgrees, Alone, Locked
<1>5. \A v \in Worker : SwitchKnows(v)'
  <2>1. SwitchKnows(w)'
    BY <1>1, OutsideKnows DEF Switching, Locked
  <2> QED
    BY <1>1, <1>2, <2>1, OneWorkerKnows DEF ClaimNext, edgeVars
<1>6. ClaimIsCurrent'
  <2> SUFFICES ASSUME NEW v \in Worker, Holds(v)'
               PROVE  /\ claim'[v].desired = desired'[claim'[v].project]
                      /\ claim'[v].host = host'[claim'[v].project]
    BY DEF ClaimIsCurrent
  <2>1. CASE v = w
    BY <2>1 DEF ClaimNext, ServedInv, TypeInv, WorkerTyped
  <2>2. CASE v # w
    <3>1. claim'[v] = claim[v] /\ UNCHANGED <<desired, host>>
      BY <1>1, <2>2 DEF Alone, ClaimNext
    <3>2. holder' = [holder EXCEPT ![p] = w]
      BY DEF ClaimNext
    <3>3. claim[v] # None /\ claim[v].project \in Project /\ holder'[claim[v].project] = v
      BY <3>1, ClaimProject DEF Holds, ServedInv, TypeInv
    <3>4. Holds(v)
      BY <2>2, <3>2, <3>3 DEF Holds, ServedInv, TypeInv, RowsTyped
    <3> QED
      BY <3>1, <3>4 DEF ServedInv, ClaimIsCurrent
  <2> QED
    BY <2>1, <2>2
<1> QED
  BY <1>2, <1>3, <1>4, <1>5, <1>6, StaysSettled, StaysServed DEF ServedInv

LEMMA ReadServed ==
    ASSUME ServedInv, TypeInv', NEW w \in Worker, Reconcile(w) \/ ReadApplied(w)
    PROVE  ServedInv'
<1> DEFINE label == IF pc[w] = "idle" THEN "attach" ELSE "render"
<1>1. /\ UNCHANGED rowVars /\ UNCHANGED edgeVars
      /\ Goto(w, label) /\ claim' = claim /\ lock' = lock
      /\ pc[w] \notin Locked /\ label \in Labels \ Locked
  BY DEF Reconcile, ReadApplied, Locked, Labels, Errors
<1>2. \A v \in Worker \ {w} : snapshot'[v] = snapshot[v] /\ previous'[v] = previous[v]
  BY DEF Reconcile, ReadApplied, ServedInv, TypeInv, WorkerTyped
<1>3. SwitchKnows(w)'
  BY <1>1, OutsideKnows DEF Goto, ServedInv, TypeInv, WorkerTyped, Switching
<1>4. file' = file /\ loaded' = loaded
  BY <1>1 DEF edgeVars
<1>5. EdgeServes
  BY <1>4, SameEdgeServes
<1> HIDE DEF label
<1> QED
  BY <1>1, <1>2, <1>3, <1>4, <1>5, GotoServed

\* A worker that goes on without the lock.
LEMMA QuietGotoServed ==
    ASSUME ServedInv, TypeInv', NEW w \in Worker, NEW label \in Labels \ Locked,
           pc[w] \notin Locked, Goto(w, label), UNCHANGED localVars, lock' = lock,
           UNCHANGED rowVars, UNCHANGED edgeVars
    PROVE  ServedInv'
<1>1. SwitchKnows(w)'
  BY OutsideKnows DEF Goto, ServedInv, TypeInv, WorkerTyped, Switching
<1>2. file' = file /\ loaded' = loaded /\ claim' = claim /\ snapshot' = snapshot
      /\ previous' = previous
  BY DEF edgeVars, localVars
<1>3. EdgeServes
  BY <1>2, SameEdgeServes
<1> QED
  BY <1>1, <1>2, <1>3, GotoServed

LEMMA QuietRaiseServed ==
    ASSUME ServedInv, TypeInv', NEW w \in Worker, NEW error \in Errors, Raise(w, error),
           UNCHANGED rowVars, file' = file, loaded' \in {loaded, file}
    PROVE  ServedInv'
BY SameEdgeServes, RaiseServed

LEMMA QuietServed ==
    ASSUME ServedInv, TypeInv', NEW w \in Worker,
           Start(w) \/ Attach(w) \/ Render(w)
    PROVE  ServedInv'
<1>1. UNCHANGED rowVars /\ UNCHANGED edgeVars /\ file' = file /\ loaded' = loaded
      /\ pc[w] \notin Locked
  BY DEF Start, Attach, Render, edgeVars, Locked
<1>2. CASE Start(w)
  BY <1>1, <1>2, QuietGotoServed DEF Start, Labels, Locked
<1>3. CASE Attach(w)
  BY <1>1, <1>3, QuietGotoServed, QuietRaiseServed DEF Attach, Labels, Locked, Errors
<1>4. CASE Render(w)
  BY <1>1, <1>4, QuietGotoServed, QuietRaiseServed DEF Render, Labels, Locked, Errors
<1> QED
  BY <1>2, <1>3, <1>4

\* fence() passes: the claim is held, and the applied rows are the snapshot.
LEMMA FencePasses ==
    ASSUME NEW w \in Worker, Fence(w) = None
    PROVE  snapshot[w] = Applied /\ (claim[w] # None => Holds(w))
BY RoutesAssumption DEF Fence, Lost, Errors

LEMMA HeldIsNotSettled ==
    ASSUME ServedInv, NEW w \in Worker, Holds(w)
    PROVE  ~Settled(claim[w].project)
BY ClaimProject, RoutesAssumption DEF ServedInv, TypeInv, SettledIsClosed, Holds

-----------------------------------------------------------------------------
(* The steps under the lock *)

LEMMA EnterServed ==
    ASSUME ServedInv, TypeInv', NEW w \in Worker, Enter(w)
    PROVE  ServedInv'
<1>1. UNCHANGED rowVars /\ UNCHANGED edgeVars /\ file' = file /\ loaded' = loaded
      /\ pc[w] \notin Locked /\ lock = None
  BY DEF Enter, edgeVars, Locked
<1>2. CASE Explained /\ Fence(w) = None
  <2>1. lock' = w /\ Goto(w, "test") /\ UNCHANGED localVars
    BY <1>2 DEF Enter
  <2>2. claim' = claim /\ snapshot' = snapshot /\ previous' = previous
    BY <2>1 DEF localVars
  <2>3. pc'[w] = "test" /\ Applied' = Applied /\ status' = status
    BY <1>1, <2>1, SameApplied
    DEF Goto, ServedInv, TypeInv, WorkerTyped, rowVars, routeVars
  <2>4. snapshot[w] = Applied /\ (claim[w] # None => ~Settled(claim[w].project))
    BY <1>2, FencePasses, HeldIsNotSettled
  <2>5. SwitchKnows(w)'
    BY <2>2, <2>3, <2>4 DEF SwitchKnows, Switching, Undoable, Locked, Settled
  <2> QED
    BY <1>1, <2>1, <2>2, <2>5, SameEdgeServes, GotoServed DEF Labels, Locked
<1>3. CASE ~(Explained /\ Fence(w) = None)
  <2>1. (IF Explained THEN Fence(w) ELSE "uncertain") \in Errors
    BY <1>3, FenceTyped DEF Errors
  <2> QED
    BY <1>1, <1>3, <2>1, QuietRaiseServed DEF Enter
<1> QED
  BY <1>2, <1>3

\* A step of the switch that keeps the rows and goes on.
LEMMA SwitchServed ==
    ASSUME ServedInv, TypeInv', NEW w \in Worker, NEW label \in Switching,
           pc[w] \in Switching, Goto(w, label), UNCHANGED <<claim, snapshot, lock>>,
           \A v \in Worker \ {w} : previous'[v] = previous[v],
           UNCHANGED rowVars, EdgeServes,
           label \in Undoable => \A p \in Project : Settled(p) => previous'[w][p] = appliedHost[p],
           label \in {"reload", "probe", "finalize"} => file' = Candidate(w),
           label \in {"probe", "finalize"} => loaded' = file'
    PROVE  ServedInv'
<1>1. pc'[w] = label /\ Applied' = Applied /\ Candidate(w)' = Candidate(w)
      /\ status' = status /\ appliedHost' = appliedHost
  BY SameApplied
  DEF Goto, Candidate, ServedInv, TypeInv, WorkerTyped, rowVars, routeVars, appliedVars
<1>2. SwitchKnows(w)'
  BY <1>1 DEF SwitchKnows, ServedInv, Settled
<1>3. label \in Labels /\ label \in Locked /\ pc[w] \in Locked
  BY DEF Switching, Locked, Labels
<1> QED
  BY <1>2, <1>3, GotoServed

LEMMA UndoServed ==
    ASSUME ServedInv, TypeInv', NEW w \in Worker, NEW error, Undo(w, error),
           pc[w] \in Undoable, UNCHANGED rowVars, file' = file, loaded' \in {loaded, file}
    PROVE  ServedInv'
<1>1. UNCHANGED <<claim, snapshot, previous, lock>> /\ Goto(w, "restore")
  BY DEF Undo
<1>2. \A p \in Project : Settled(p) => previous'[w][p] = appliedHost[p]
  BY <1>1 DEF ServedInv, SwitchKnows
<1>3. "restore" \in Switching /\ pc[w] \in Switching
  BY DEF Switching, Undoable, Locked
<1> QED
  BY <1>1, <1>2, <1>3, SameEdgeServes, SwitchServed

LEMMA PrepareServed ==
    ASSUME ServedInv, TypeInv', NEW w \in Worker, Prepare(w)
    PROVE  ServedInv'
<1>1. UNCHANGED rowVars /\ file' = file /\ loaded' = loaded /\ pc[w] = "test"
  BY DEF Prepare
<1>2. CASE /\ previous' = [previous EXCEPT ![w] = Current]
           /\ Goto(w, "replace")
           /\ UNCHANGED <<lock, claim, snapshot, after, faults>>
  <2>1. previous'[w] = file /\ \A v \in Worker \ {w} : previous'[v] = previous[v]
    BY <1>2 DEF Current, ServedInv, TypeInv, WorkerTyped
  <2>2. \A p \in Project : Settled(p) => previous'[w][p] = appliedHost[p]
    BY <2>1 DEF ServedInv, SettledIsServed, Settled
  <2> QED
    BY <1>1, <1>2, <2>1, <2>2, SameEdgeServes, SwitchServed DEF Switching, Locked
<1>3. CASE Fence(w) # None /\ Raise(w, Fence(w))
  BY <1>1, <1>3, FenceTyped, QuietRaiseServed
<1>4. CASE \E error \in {"retry", "fail"} : Raise(w, error)
  BY <1>1, <1>4, QuietRaiseServed DEF Errors
<1> QED
  BY <1>2, <1>3, <1>4 DEF Prepare

LEMMA ReplaceServed ==
    ASSUME ServedInv, TypeInv', NEW w \in Worker, Replace(w)
    PROVE  ServedInv'
<1>1. /\ UNCHANGED rowVars /\ file' = Candidate(w) /\ loaded' = loaded /\ pc[w] = "replace"
      /\ Goto(w, "reload") /\ UNCHANGED <<claim, snapshot, previous, lock>>
  BY DEF Replace, localVars
<1>2. pc[w] \in Switching /\ "reload" \in Switching /\ pc[w] \in Undoable
  BY <1>1 DEF Switching, Undoable, Locked
<1>3. EdgeServes
  BY <1>1, <1>2, CandidateServes DEF EdgeServes, ServedInv, SettledIsServed, Settled
<1>4. \A p \in Project : Settled(p) => previous'[w][p] = appliedHost[p]
  BY <1>1, <1>2 DEF ServedInv, SwitchKnows
<1> QED
  BY <1>1, <1>2, <1>3, <1>4, SwitchServed

LEMMA ReloadServed ==
    ASSUME ServedInv, TypeInv', NEW w \in Worker, Reload(w)
    PROVE  ServedInv'
<1>1. UNCHANGED rowVars /\ file' = file /\ pc[w] = "reload"
  BY DEF Reload
<1>2. pc[w] \in Switching /\ pc[w] \in Undoable /\ {"probe"} \subseteq Switching
  BY <1>1 DEF Switching, Undoable, Locked
<1>3. CASE loaded' = file /\ Goto(w, "probe") /\ UNCHANGED <<lock, localVars, faults>>
  <2>1. UNCHANGED <<claim, snapshot, previous, lock>>
    BY <1>3 DEF localVars
  <2>2. \A p \in Project : Settled(p) => previous'[w][p] = appliedHost[p]
    BY <1>2, <2>1 DEF ServedInv, SwitchKnows
  <2>3. file' = Candidate(w) /\ loaded' = file'
    BY <1>1, <1>3 DEF ServedInv, SwitchKnows
  <2> QED
    BY <1>1, <1>2, <1>3, <2>1, <2>2, <2>3, SameEdgeServes, SwitchServed
<1>4. CASE loaded' \in {loaded, file} /\ \E error \in Errors : Undo(w, error)
  BY <1>1, <1>2, <1>4, UndoServed
<1> QED
  BY <1>3, <1>4 DEF Reload, Errors

LEMMA ProbeServed ==
    ASSUME ServedInv, TypeInv', NEW w \in Worker, Probe(w)
    PROVE  ServedInv'
<1>1. UNCHANGED rowVars /\ file' = file /\ loaded' = loaded /\ pc[w] = "probe"
  BY DEF Probe, edgeVars
<1>2. pc[w] \in Switching /\ pc[w] \in Undoable /\ {"finalize"} \subseteq Switching
  BY <1>1 DEF Switching, Undoable, Locked
<1>3. CASE Goto(w, "finalize") /\ UNCHANGED <<lock, localVars, faults>>
  <2>1. UNCHANGED <<claim, snapshot, previous, lock>>
    BY <1>3 DEF localVars
  <2>2. \A p \in Project : Settled(p) => previous'[w][p] = appliedHost[p]
    BY <1>2, <2>1 DEF ServedInv, SwitchKnows
  <2>3. file' = Candidate(w) /\ loaded' = file'
    BY <1>1, <1>3 DEF ServedInv, SwitchKnows
  <2> QED
    BY <1>1, <1>2, <1>3, <2>1, <2>2, <2>3, SameEdgeServes, SwitchServed
<1>4. CASE \E error \in Errors : Undo(w, error)
  BY <1>1, <1>2, <1>4, UndoServed
<1> QED
  BY <1>3, <1>4 DEF Probe, Errors

\* complete() under the lock: the route it settles is in the file and loaded.
LEMMA CompleteServes ==
    ASSUME ServedInv, NEW w \in Worker, pc[w] = "finalize", Holds(w), Complete(w),
           UNCHANGED <<file, loaded>>
    PROVE  /\ SettledIsServed' /\ SettledIsClosed'
           /\ \A p \in Project : holder'[p] # None =>
                holder'[p] = holder[p] /\ desired'[p] = desired[p] /\ host'[p] = host[p]
<1> DEFINE c == claim[w].project
           on == desired[c] = "ENABLED"
<1>1. c \in Project /\ RowsTyped
  BY ClaimProject DEF Holds, ServedInv, TypeInv
<1>2. /\ status' = [status EXCEPT ![c] = IF on THEN "ACTIVE" ELSE "INACTIVE"]
      /\ appliedHost' = [appliedHost EXCEPT ![c] = IF on THEN host[c] ELSE None]
      /\ jobState' = [jobState EXCEPT ![c] = "SUCCEEDED"]
      /\ holder' = [holder EXCEPT ![c] = None]
      /\ UNCHANGED <<desired, host>>
  BY DEF Complete, CloseJob
<1>3. file = Candidate(w) /\ loaded = file
  BY DEF ServedInv, SwitchKnows
<1>4. Candidate(w)[c] = IF on THEN host[c] ELSE None
  BY <1>1 DEF Candidate, ServedInv, ClaimIsCurrent, Holds
<1>5. SettledIsServed'
  <2> SUFFICES ASSUME NEW p \in Project, Settled(p)'
               PROVE  /\ file'[p] = appliedHost'[p] /\ loaded'[p] = appliedHost'[p]
                      /\ appliedHost'[p] = IF status'[p] = "ACTIVE" THEN host'[p] ELSE None
    BY DEF SettledIsServed, Settled
  <2>1. CASE p = c
    <3>1. /\ status'[c] = IF on THEN "ACTIVE" ELSE "INACTIVE"
          /\ appliedHost'[c] = IF on THEN host[c] ELSE None
          /\ host'[c] = host[c]
      BY <1>1, <1>2 DEF RowsTyped, Config
    <3>2. file'[c] = Candidate(w)[c] /\ loaded'[c] = Candidate(w)[c]
      BY <1>3
    <3> HIDE DEF c, on
    <3> QED
      BY <1>4, <2>1, <3>1, <3>2
  <2>2. CASE p # c
    <3>1. status'[p] = status[p] /\ appliedHost'[p] = appliedHost[p] /\ host'[p] = host[p]
      BY <1>1, <1>2, <2>2 DEF RowsTyped
    <3> QED
      BY <3>1 DEF ServedInv, SettledIsServed, Settled
  <2> QED
    BY <2>1, <2>2
<1>6. SettledIsClosed'
  BY <1>1, <1>2 DEF SettledIsClosed, Settled, ServedInv, RowsTyped
<1>7. \A p \in Project : holder'[p] # None =>
         holder'[p] = holder[p] /\ desired'[p] = desired[p] /\ host'[p] = host[p]
  BY <1>1, <1>2 DEF RowsTyped
<1> QED
  BY <1>5, <1>6, <1>7

\* The end of the transaction: the lock is kept for the journal, or left.
LEMMA CompletedServed ==
    ASSUME ServedInv, TypeInv', NEW w \in Worker, pc[w] = "finalize", Holds(w), Complete(w),
           UNCHANGED edgeVars, Alone(w), pc'[w] \notin Switching, LockAgrees',
           \A v \in Worker : claim'[v] \in {claim[v], None}
    PROVE  ServedInv'
<1>1. file' = file /\ loaded' = loaded
  BY DEF edgeVars
<1>2. /\ SettledIsServed' /\ SettledIsClosed'
      /\ \A p \in Project : holder'[p] # None =>
           holder'[p] = holder[p] /\ desired'[p] = desired[p] /\ host'[p] = host[p]
  BY <1>1, CompleteServes
<1>3. ClaimIsCurrent'
  BY <1>2, StaysCurrent DEF HandsOutNone, ServedInv
<1>4. ASSUME NEW v \in Worker PROVE SwitchKnows(v)'
  <2>1. CASE v = w
    BY <2>1, OutsideKnows
  <2>2. CASE v # w
    <3>1. pc'[v] = pc[v] /\ pc[v] \notin Locked
      BY <2>2, OthersOutside DEF Alone, ServedInv, Locked
    <3> QED
      BY <3>1, OutsideKnows DEF Switching
  <2> QED
    BY <2>1, <2>2
<1> QED
  BY <1>2, <1>3, <1>4 DEF ServedInv

LEMMA FinalizeServed ==
    ASSUME ServedInv, TypeInv', NEW w \in Worker, Finalize(w)
    PROVE  ServedInv'
<1>1. UNCHANGED edgeVars /\ file' = file /\ loaded' = loaded /\ pc[w] = "finalize"
  BY DEF Finalize, edgeVars
<1>2. pc[w] \in Switching /\ pc[w] \in Undoable /\ pc[w] \in Locked /\ "commit" \in Locked
  BY <1>1 DEF Switching, Undoable, Locked
<1>3. CASE Fence(w) # None
  BY <1>1, <1>2, <1>3, FenceTyped, UndoServed DEF Finalize
<1>4. CASE Fence(w) = None
  <2>1. Goto(w, "commit") /\ UNCHANGED <<lock, localVars>>
    BY <1>4 DEF Finalize
  <2>2. UNCHANGED <<claim, snapshot, previous>>
    BY <2>1 DEF localVars
  <2>3. pc'[w] = "commit" /\ Alone(w)
    BY <2>1, <2>2 DEF Goto, Alone, ServedInv, TypeInv, WorkerTyped
  <2>4. pc'[w] \notin Switching
    BY <2>3 DEF Switching
  <2>5. CASE claim[w] = None
    <3>1. UNCHANGED rowVars
      BY <1>4, <2>5 DEF Finalize
    <3> QED
      BY <1>1, <1>2, <2>1, <2>2, <2>4, <3>1, OutsideKnows, SameEdgeServes, GotoServed
      DEF Labels
  <2>6. CASE claim[w] # None
    <3>1. Holds(w) /\ Complete(w)
      BY <1>4, <2>6, FencePasses DEF Finalize
    <3>2. LockAgrees'
      BY <1>2, <2>1, <2>3 DEF ServedInv, LockAgrees, Alone
    <3> QED
      BY <1>1, <2>2, <2>3, <2>4, <3>1, <3>2, CompletedServed
  <2> QED
    BY <2>5, <2>6
<1> QED
  BY <1>3, <1>4

LEMMA FinalizeUncertainServed ==
    ASSUME ServedInv, TypeInv', NEW w \in Worker, FinalizeUncertain(w)
    PROVE  ServedInv'
<1>1. UNCHANGED edgeVars /\ file' = file /\ loaded' = loaded /\ pc[w] = "finalize"
      /\ Raise(w, "uncertain") /\ Holds(w) /\ "uncertain" \in Errors
  BY DEF FinalizeUncertain, edgeVars, Errors
<1>2. CASE UNCHANGED rowVars
  BY <1>1, <1>2, QuietRaiseServed
<1>3. CASE Complete(w)
  <2>1. /\ Alone(w) /\ pc'[w] \notin Locked
        /\ \A v \in Worker : claim'[v] \in {claim[v], None}
        /\ LockAgrees'
    BY <1>1, RaiseLeaves
  <2> QED
    BY <1>1, <1>3, <2>1, CompletedServed DEF Switching
<1> QED
  BY <1>2, <1>3 DEF FinalizeUncertain

LEMMA CommitServed ==
    ASSUME ServedInv, TypeInv', NEW w \in Worker, Commit(w)
    PROVE  ServedInv'
<1>1. UNCHANGED rowVars /\ file' = file /\ loaded' = loaded /\ pc[w] = "commit"
  BY DEF Commit
<1>2. CASE Unlock(w) /\ Rest(w)
  <2>1. /\ Alone(w) /\ pc'[w] = "idle" /\ LockAgrees'
        /\ \A v \in Worker : claim'[v] \in {claim[v], None}
    BY <1>2, RestLeaves
  <2>2. SettlesNone /\ HandsOutNone
    BY <1>1, <2>1, SameRowsSettle, SameRowsHand
  <2>3. SwitchKnows(w)'
    BY <2>1, OutsideKnows DEF Switching, Locked
  <2> QED
    BY <1>1, <2>1, <2>2, <2>3, SameEdgeServes, OneWorkerKnows, KeepsServed
<1>3. CASE Raise(w, "uncertain")
  BY <1>1, <1>3, QuietRaiseServed DEF Errors
<1> QED
  BY <1>2, <1>3 DEF Commit

LEMMA RestoreFileServed ==
    ASSUME ServedInv, TypeInv', NEW w \in Worker, RestoreFile(w)
    PROVE  ServedInv'
<1>1. UNCHANGED rowVars /\ loaded' = loaded /\ pc[w] = "restore"
  BY DEF RestoreFile
<1>2. pc[w] \in Switching /\ pc[w] \in Undoable /\ "restoring" \in Switching
  BY <1>1 DEF Switching, Undoable, Locked
<1>3. CASE file' = previous[w] /\ Goto(w, "restoring") /\ UNCHANGED <<lock, localVars>>
  <2>1. UNCHANGED <<claim, snapshot, previous, lock>>
    BY <1>3 DEF localVars
  <2>2. \A p \in Project : Settled(p) => previous[w][p] = appliedHost[p]
    BY <1>2 DEF ServedInv, SwitchKnows
  <2>3. EdgeServes
    BY <1>1, <1>3, <2>2 DEF EdgeServes, ServedInv, SettledIsServed, Settled
  <2> QED
    BY <1>1, <1>2, <1>3, <2>1, <2>2, <2>3, SwitchServed
<1>4. CASE file' = file /\ \E error \in Errors : Raise(w, error)
  BY <1>1, <1>4, QuietRaiseServed
<1> QED
  BY <1>3, <1>4 DEF RestoreFile, Errors

LEMMA RestoreEdgeServed ==
    ASSUME ServedInv, TypeInv', NEW w \in Worker, RestoreEdge(w)
    PROVE  ServedInv'
<1>1. UNCHANGED rowVars /\ file' = file /\ loaded' \in {loaded, file} /\ pc[w] = "restoring"
  BY DEF RestoreEdge
<1>2. after[w] \in Errors
  BY <1>1 DEF ServedInv, TypeInv, WorkerTyped, ErrorKept
<1>3. PICK error \in Errors : Raise(w, error)
  BY <1>2 DEF RestoreEdge, Errors
<1> QED
  BY <1>1, <1>3, QuietRaiseServed

\* The error is recorded by the holder of the claim, whose row is not settled.
LEMMA RecordServed ==
    ASSUME ServedInv, TypeInv', NEW w \in Worker, Record(w)
    PROVE  ServedInv'
<1>1. /\ Rest(w) /\ lock' = lock /\ file' = file /\ loaded' = loaded
      /\ pc[w] \in Errors
  BY DEF Record, edgeVars
<1>2. pc[w] \notin Locked
  BY <1>1 DEF Errors, Locked
<1>3. /\ Alone(w) /\ pc'[w] = "idle" /\ LockAgrees'
      /\ \A v \in Worker : claim'[v] \in {claim[v], None}
  BY <1>1, <1>2, RestLeaves
<1>4. SettlesNone /\ HandsOutNone
  <2>1. CASE UNCHANGED rowVars
    BY <1>3, <2>1, SameRowsSettle, SameRowsHand
  <2>2. ASSUME NEW s \in {"PENDING", "FAILED", "UNCERTAIN"}, NEW j,
               claim[w] # None, Leave(w, s, j)
        PROVE  SettlesNone /\ HandsOutNone
    <3> DEFINE c == claim[w].project
    <3>1. c \in Project /\ RowsTyped
      BY <2>2, ClaimProject DEF ServedInv, TypeInv
    <3>2. /\ status' = [status EXCEPT ![c] = s] /\ jobState' = [jobState EXCEPT ![c] = j]
          /\ holder' = [holder EXCEPT ![c] = None]
          /\ UNCHANGED <<desired, host, appliedVars>>
      BY <2>2 DEF Leave, CloseJob
    <3>3. \A p \in Project : Settled(p)' =>
            /\ status'[p] = status[p] /\ host'[p] = host[p]
            /\ jobState'[p] = jobState[p] /\ holder'[p] \in {holder[p], None}
      BY <3>1, <3>2 DEF RowsTyped, Settled
    <3>4. \A p \in Project : holder'[p] # None =>
            holder'[p] = holder[p] /\ desired'[p] = desired[p] /\ host'[p] = host[p]
      BY <3>1, <3>2 DEF RowsTyped
    <3> QED
      BY <1>3, <3>2, <3>3, <3>4 DEF SettlesNone, HandsOutNone
  <2>3. CASE Holds(w) /\ Leave(w, "PENDING", "PENDING")
    BY <2>2, <2>3 DEF Holds
  <2>4. CASE Holds(w) /\ Leave(w, IF pc[w] = "uncertain" THEN "UNCERTAIN" ELSE "FAILED", "FAILED")
    BY <2>2, <2>4 DEF Holds
  <2> QED
    BY <2>1, <2>3, <2>4 DEF Record
<1>5. SwitchKnows(w)'
  BY <1>3, OutsideKnows DEF Switching, Locked
<1> QED
  BY <1>1, <1>3, <1>4, <1>5, SameEdgeServes, OneWorkerKnows, KeepsServed

-----------------------------------------------------------------------------
(* The other steps *)

\* A step of nobody: the workers, the lock and the file stay.
LEMMA WorldKeepsServed ==
    ASSUME ServedInv, TypeInv', UNCHANGED <<pc, localVars, lock, file>>,
           loaded' \in {loaded, file}, SettlesNone, HandsOutNone
    PROVE  ServedInv'
<1>1. UNCHANGED <<claim, snapshot, previous>>
  BY DEF localVars
<1>2. LockAgrees'
  BY DEF ServedInv, LockAgrees
<1>3. ASSUME NEW v \in Worker PROVE SwitchKnows(v)'
  BY <1>1, OthersKnow DEF ServedInv
<1> QED
  BY <1>2, <1>3, SameEdgeServes, KeepsServed

LEMMA RequestServed ==
    ASSUME ServedInv, TypeInv', NEW p \in Project,
           Disable(p) \/ \E h \in Hostname : SetEnabled(p, h)
    PROVE  ServedInv'
<1>1. PICK h, state, served : Want(p, state, h, served)
  BY DEF Disable, SetEnabled
<1>2. /\ UNCHANGED <<appliedVars, edgeVars, lock, pc, localVars>>
      /\ desired' = [desired EXCEPT ![p] = state]
      /\ host' = [host EXCEPT ![p] = h]
      /\ status' = [status EXCEPT ![p] = "PENDING"]
      /\ jobState' = [jobState EXCEPT ![p] = "PENDING"]
      /\ holder' = [holder EXCEPT ![p] = None]
  BY <1>1 DEF Want, UpsertJob
<1>3. SettlesNone
  BY <1>2 DEF SettlesNone, Settled, ServedInv, TypeInv, RowsTyped
<1>4. HandsOutNone
  BY <1>2 DEF HandsOutNone, localVars, ServedInv, TypeInv, RowsTyped
<1> QED
  BY <1>2, <1>3, <1>4, WorldKeepsServed DEF edgeVars

LEMMA WorldServed ==
    ASSUME ServedInv, TypeInv', NEW p \in Project, LeaseExpires(p) \/ LeaseLapses(p)
    PROVE  ServedInv'
<1>1. /\ UNCHANGED <<routeVars, jobState, edgeVars, lock, pc, localVars>>
      /\ holder' = [holder EXCEPT ![p] = None]
  BY DEF LeaseExpires, LeaseLapses
<1>2. UNCHANGED <<appliedVars, status, host, desired, claim>>
  BY <1>1 DEF routeVars, localVars
<1>3. SettlesNone /\ HandsOutNone
  BY <1>1, <1>2 DEF SettlesNone, HandsOutNone, Settled, ServedInv, TypeInv, RowsTyped
<1> QED
  BY <1>1, <1>3, WorldKeepsServed DEF edgeVars

\* The rows stay, and of the Edge only what is loaded may change.
LEMMA EdgeOnlyServed ==
    ASSUME ServedInv, TypeInv', UNCHANGED <<rowVars, pc, localVars, lock, file>>,
           loaded' \in {loaded, file}
    PROVE  ServedInv'
<1>1. claim' = claim
  BY DEF localVars
<1> QED
  BY <1>1, SameRowsSettle, SameRowsHand, WorldKeepsServed

LEMMA CrashServed == ASSUME ServedInv, TypeInv', NEW w \in Worker, Crash(w) PROVE ServedInv'
<1>1. /\ UNCHANGED rowVars /\ file' = file /\ loaded' = loaded
      /\ Unlock(w) /\ Alone(w) /\ pc'[w] = "down"
      /\ \A v \in Worker : claim'[v] \in {claim[v], None}
  BY DEF Crash, Goto, Alone, edgeVars, ServedInv, TypeInv, WorkerTyped
<1>2. SettlesNone /\ HandsOutNone
  BY <1>1, SameRowsSettle, SameRowsHand
<1>3. LockAgrees'
  BY <1>1, RoutesAssumption DEF ServedInv, LockAgrees, Alone, Unlock, Locked
<1>4. SwitchKnows(w)'
  BY <1>1, OutsideKnows DEF Switching, Locked
<1> QED
  BY <1>1, <1>2, <1>3, <1>4, SameEdgeServes, OneWorkerKnows, KeepsServed

LEMMA NextServedInv == ASSUME ServedInv, [Next]_vars PROVE ServedInv'
<1>0. TypeInv'
  BY NextTypeInv DEF ServedInv
<1>1. CASE UNCHANGED vars
  BY <1>0, <1>1, EdgeOnlyServed DEF vars, edgeVars
<1>2. ASSUME NEW w \in Worker, WorkerStep(w)
      PROVE  ServedInv'
  <2>1. CASE \/ Start(w) \/ Reconcile(w) \/ (\E p \in Project : ClaimNext(w, p))
             \/ Attach(w) \/ ReadApplied(w) \/ Render(w) \/ Enter(w)
    BY <1>0, <2>1, ClaimServed, ReadServed, QuietServed, EnterServed
  <2>2. CASE Prepare(w) \/ Replace(w) \/ Reload(w) \/ Probe(w) \/ Commit(w)
    BY <1>0, <2>2, PrepareServed, ReplaceServed, ReloadServed, ProbeServed, CommitServed
  <2>3. CASE Finalize(w) \/ FinalizeUncertain(w) \/ RestoreFile(w) \/ RestoreEdge(w) \/ Record(w)
    BY <1>0, <2>3, FinalizeServed, FinalizeUncertainServed, RestoreFileServed,
       RestoreEdgeServed, RecordServed
  <2> QED
    BY <1>2, <2>1, <2>2, <2>3 DEF WorkerStep
<1>3. ASSUME NEW p \in Project, StopGateway(p) \/ StartGateway(p)
      PROVE  ServedInv'
  BY <1>0, <1>3, EdgeOnlyServed DEF StopGateway, StartGateway, edgeVars
<1>4. CASE RestartEdge
  BY <1>0, <1>4, EdgeOnlyServed DEF RestartEdge
<1> QED
  BY <1>0, <1>1, <1>2, <1>3, <1>4, RequestServed, WorldServed, CrashServed DEF Next

LEMMA ServedInvariant == Spec => []ServedInv
BY InitServedInv, NextServedInv, PTL DEF Spec

\* A route that is ACTIVE or INACTIVE is what the file has and the Edge serves, with
\* any number of workers, lost claims, crashes between any two writes, undone switches
\* and restarts of the Edge: a worker that switches the file knows of every settled
\* route what its row has applied, because the rows change only under its lock.
THEOREM SettledRoutesAreServed == Spec => []SettledIsServed
BY ServedInvariant, PTL DEF ServedInv

-----------------------------------------------------------------------------
(* What is applied is served first *)

\* complete() finds the candidate loaded: its own hostname, and the applied ones of
\* the other rows, although an uncertain finalize() does not compare them again.
LEMMA CompleteAppliesServed ==
    ASSUME ServedInv, NEW w \in Worker, pc[w] = "finalize", Holds(w), Complete(w),
           NEW p \in Project, appliedRev'[p] # appliedRev[p]
    PROVE  /\ loaded[p] = appliedHost'[p]
           /\ \A q \in Project \ {p} : loaded[q] = appliedHost[q]
<1> DEFINE c == claim[w].project
           on == desired[c] = "ENABLED"
<1>1. c \in Project /\ RowsTyped
  BY ClaimProject DEF Holds, ServedInv, TypeInv
<1>2. p = c /\ appliedHost'[c] = IF on THEN host[c] ELSE None
  BY <1>1 DEF Complete, RowsTyped, Config
<1>3. loaded = Candidate(w) /\ snapshot[w] = Applied
  BY DEF ServedInv, SwitchKnows, Switching, Locked
<1>4. Candidate(w)[c] = IF on THEN host[c] ELSE None
  BY <1>1 DEF Candidate, ServedInv, ClaimIsCurrent, Holds
<1>5. \A q \in Project \ {c} : Candidate(w)[q] = appliedHost[q]
  BY <1>3, AppliedHost DEF Candidate
<1> HIDE DEF c, on
<1> QED
  BY <1>2, <1>3, <1>4, <1>5

LEMMA WorkerKeepsApplied ==
    ASSUME NEW w \in Worker, WorkerStep(w), ~Finalize(w), ~FinalizeUncertain(w)
    PROVE  appliedRev' = appliedRev
<1> USE DEF rowVars, routeVars, appliedVars
<1>1. CASE \/ Start(w) \/ Reconcile(w) \/ (\E p \in Project : ClaimNext(w, p))
           \/ Attach(w) \/ ReadApplied(w) \/ Render(w) \/ Enter(w)
  BY <1>1 DEF Start, Reconcile, ClaimNext, Attach, ReadApplied, Render, Enter
<1>2. CASE Prepare(w) \/ Replace(w) \/ Reload(w) \/ Probe(w) \/ Commit(w)
  BY <1>2 DEF Prepare, Replace, Reload, Probe, Commit
<1>3. CASE RestoreFile(w) \/ RestoreEdge(w) \/ Record(w)
  BY <1>3 DEF RestoreFile, RestoreEdge, Record, Leave
<1> QED
  BY <1>1, <1>2, <1>3 DEF WorkerStep

\* A hostname is recorded as applied, or no longer applied, only once the Edge serves
\* just that, by the holder of the claim, with the other applied routes in place.
THEOREM AppliedAfterServed == Spec => AppliedIsServedFirst
<1> DEFINE Step ==
      \A p \in Project :
         appliedRev'[p] # appliedRev[p] =>
           /\ loaded[p] = appliedHost'[p]
           /\ \A q \in Project \ {p} : loaded[q] = appliedHost[q]
<1>1. ASSUME ServedInv, [Next]_vars PROVE Step
  <2>1. CASE appliedRev' = appliedRev
    BY <2>1
  <2>2. ASSUME NEW w \in Worker, Finalize(w) \/ FinalizeUncertain(w)
        PROVE  Step
    <3>1. pc[w] = "finalize"
      BY <2>2 DEF Finalize, FinalizeUncertain
    <3>2. appliedRev' = appliedRev \/ (Holds(w) /\ Complete(w))
      BY <2>2, FencePasses DEF Finalize, FinalizeUncertain, rowVars, routeVars, appliedVars
    <3> QED
      BY <1>1, <3>1, <3>2, <2>1, CompleteAppliesServed
  <2>3. ASSUME NEW w \in Worker, WorkerStep(w)
        PROVE  Step
    BY <2>1, <2>2, <2>3, WorkerKeepsApplied
  <2>4. CASE ~ \E w \in Worker : WorkerStep(w)
    <3>1. appliedRev' = appliedRev
      BY <1>1, <2>4
      DEF Next, vars, rowVars, routeVars, appliedVars, SetEnabled, Disable, Want, Crash,
          LeaseExpires, LeaseLapses, StopGateway, StartGateway, RestartEdge
    <3> QED
      BY <2>1, <3>1
  <2> QED
    BY <2>3, <2>4
<1>2. ServedInv /\ [Next]_vars => [Step]_vars
  BY <1>1
<1> QED
  BY <1>2, ServedInvariant, PTL DEF Spec, AppliedIsServedFirst
=============================================================================
