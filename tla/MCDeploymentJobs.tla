-------------------------- MODULE MCDeploymentJobs --------------------------
(* Small instances of DeploymentJobs: all deployments belong to one project. *)
EXTENDS DeploymentJobs, TLC

OneProject == [d \in Deployment |-> CHOOSE p \in Project : TRUE]
WorkerSymmetry == Permutations(Worker)
=============================================================================
