------------------------ MODULE DeploymentLifecycle ------------------------
(* What the deployment queue promises to its users, without claims, leases, *)
(* workers or containers: a project has at most one open deployment, a      *)
(* deployment is settled once, and the only settled deployment that may     *)
(* change again is one whose outcome was left uncertain.                    *)
EXTENDS FiniteSets

CONSTANTS
    Deployment,     \* every deployment that may ever be requested
    Project,        \* the projects
    ProjectOf       \* the project a deployment belongs to

VARIABLES
    phase,          \* how far each deployment has come
    accepting       \* whether a project still takes deployment requests

lifecycleVars == <<phase, accepting>>

OpenPhases == {"queued", "running"}
Phases == OpenPhases \cup {"absent", "succeeded", "failed", "uncertain"}

\* The deployments of project p that are requested and not settled.
OpenOf(p) == {d \in Deployment : ProjectOf[d] = p /\ phase[d] \in OpenPhases}

LifecycleTypeOK ==
    /\ phase \in [Deployment -> Phases]
    /\ accepting \in [Project -> BOOLEAN]

LifecycleInit ==
    /\ phase = [d \in Deployment |-> "absent"]
    /\ accepting = [p \in Project |-> TRUE]

\* An administrator requests a deployment.
Request(d) ==
    /\ phase[d] = "absent"
    /\ accepting[ProjectOf[d]]
    /\ OpenOf(ProjectOf[d]) = {}
    /\ phase' = [phase EXCEPT ![d] = "queued"]
    /\ UNCHANGED accepting

\* Work on the deployment starts, or goes back to the queue for another try.
Start(d) ==
    /\ phase[d] = "queued"
    /\ phase' = [phase EXCEPT ![d] = "running"]
    /\ UNCHANGED accepting

Requeue(d) ==
    /\ phase[d] = "running"
    /\ phase' = [phase EXCEPT ![d] = "queued"]
    /\ UNCHANGED accepting

\* A running deployment is settled.
Settle(d, outcome) ==
    /\ phase[d] = "running"
    /\ outcome \in {"succeeded", "failed", "uncertain"}
    /\ phase' = [phase EXCEPT ![d] = outcome]
    /\ UNCHANGED accepting

\* A deployment of uncertain outcome turns out to be the one that is served.
Adopt(d) ==
    /\ phase[d] = "uncertain"
    /\ phase' = [phase EXCEPT ![d] = "succeeded"]
    /\ UNCHANGED accepting

\* The project is being deleted.
StopAccepting(p) ==
    /\ accepting' = [accepting EXCEPT ![p] = FALSE]
    /\ UNCHANGED phase

LifecycleNext ==
    \/ \E d \in Deployment :
          \/ Request(d)
          \/ Start(d)
          \/ Requeue(d)
          \/ \E outcome \in {"succeeded", "failed", "uncertain"} : Settle(d, outcome)
          \/ Adopt(d)
    \/ \E p \in Project : StopAccepting(p)

LifecycleSpec == LifecycleInit /\ [][LifecycleNext]_lifecycleVars
=============================================================================
