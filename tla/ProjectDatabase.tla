-------------------------- MODULE ProjectDatabase ---------------------------
(* The managed PostgreSQL database of one project: the requests that        *)
(* provision it (project_database/service.py), the row that records how far *)
(* they came (project_database/repository.py), and what they do to the      *)
(* cluster and to the credential file (provisioner.py, secrets/store.py).   *)
(*                                                                          *)
(* One action per transaction, command to the cluster or file written. A    *)
(* request answers once; a client that tries again is another request. The  *)
(* random password is named after the request that drew it, and its         *)
(* fingerprint is the password itself. Names, schema and search path are    *)
(* left out. A request that ends for a reason the code does not catch (the  *)
(* process dies, the metadata database does not answer) is a crash.         *)
EXTENDS Naturals

CONSTANTS
    Request,        \* calls of provision()
    None,           \* no row, password, role or lock holder
    MaxFaults       \* bound: failing commands and crashes

VARIABLES
    project,    \* projects.status; "GONE" once the row is deleted
    row,        \* project_database_resources
    credential, \* the content of the credential file
    role,       \* the login role
    database,   \* "absent", "unmarked" (no ownership comment yet), "marked"
    granted,    \* the privileges of the role on the database
    advisory,   \* who holds the advisory lock of the resource
    rowLock,    \* the request that holds the project row FOR UPDATE
    pc,         \* where the request is
    mine,       \* the ProjectDatabaseResource it has in hand
    faults

clusterVars == <<role, database, granted>>
lockVars == <<advisory, rowLock>>
databaseVars == <<row, credential, clusterVars, lockVars, pc, mine>>

(* ProjectDatabasePhase, in the order provisioning passes through *)
IntentRecorded == 1
SecretReady == 2
RoleReady == 3
DatabaseReady == 4
PrivilegesReady == 5
Active == 6
Phase == IntentRecorded..Active

Password == Request \cup {None}
Resource == [status : {"PROVISIONING", "ACTIVE", "FAILED"}, phase : Phase,
             version : Nat, credential : Password]
Role == [password : Password, login : BOOLEAN]

ASSUME DatabaseAssumption ==
    /\ None \notin Request \cup Resource \cup Role
    /\ MaxFaults \in Nat

DatabaseTypeOK ==
    /\ project \in {"READY", "DELETING", "GONE"}
    /\ row \in Resource \cup {None}
    /\ credential \in Password
    /\ role \in Role \cup {None}
    /\ database \in {"absent", "unmarked", "marked"}
    /\ granted \in BOOLEAN
    /\ rowLock \in Request \cup {None}
    /\ pc \in [Request -> {"new", "lock", "row", "retry", "credential", "do", "comment",
                           "record", "unlock", "failed", "mark", "done"}]
    /\ mine \in [Request -> Resource \cup {None}]
    /\ faults \in 0..MaxFaults

DatabaseInit ==
    /\ project = "READY"
    /\ row = None /\ credential = None /\ role = None
    /\ database = "absent" /\ granted = FALSE
    /\ advisory = None /\ rowLock = None
    /\ pc = [r \in Request |-> "new"]
    /\ mine = [r \in Request |-> None]
    /\ faults = 0

Fault == faults < MaxFaults /\ faults' = faults + 1

Goto(r, label) == pc' = [pc EXCEPT ![r] = label]

(* The request is answered. *)
Answer(r) ==
    /\ Goto(r, "done")
    /\ mine' = [mine EXCEPT ![r] = None]

(* The end of the two with blocks, whichever of the locks r has. *)
Unlocked(r) ==
    /\ advisory' = IF advisory = r THEN None ELSE advisory
    /\ rowLock' = IF rowLock = r THEN None ELSE rowLock

-----------------------------------------------------------------------------
(* The row *)

Accepts == project = "READY"

EnsureIntent(r) ==
    /\ pc[r] = "new" /\ Accepts /\ rowLock = None
    /\ row' = IF row # None THEN row
              ELSE [status |-> "PROVISIONING", phase |-> IntentRecorded,
                    version |-> 1, credential |-> None]
    /\ mine' = [mine EXCEPT ![r] = row']
    /\ Goto(r, "lock")
    /\ UNCHANGED <<project, credential, clusterVars, lockVars, faults>>

(* _update: the row takes the new values if it still has the version that   *)
(* the request has in hand; otherwise ProjectDatabaseVersionConflict.       *)
Current(r) == row # None /\ row.version = mine[r].version

Update(r, resource) ==
    /\ row' = [resource EXCEPT !.version = row.version + 1]
    /\ mine' = [mine EXCEPT ![r] = row']

-----------------------------------------------------------------------------
(* provision() *)

OperationLock(r) ==
    /\ pc[r] = "lock" /\ advisory = None
    /\ advisory' = r
    /\ Goto(r, "row")
    /\ UNCHANGED <<project, row, credential, clusterVars, rowLock, mine, faults>>

(* lock_timeout: somebody else has the lock for five seconds *)
OperationLockTimeout(r) ==
    /\ pc[r] = "lock" /\ advisory # None
    /\ Goto(r, "failed")
    /\ UNCHANGED <<project, row, credential, clusterVars, lockVars, mine, faults>>

(* After locked_ready the request goes on with the row it read before it    *)
(* waited for the two locks.                                                *)
Resume(r) ==
    CASE mine[r].status = "ACTIVE" -> "unlock"
      [] mine[r].status = "FAILED" -> "retry"
      [] mine[r].phase = IntentRecorded -> "do"
      [] OTHER -> "credential"

LockedReadyUnchecked(r) ==
    /\ pc[r] = "row" /\ rowLock = None
    /\ Goto(r, Resume(r)) /\ rowLock' = r /\ UNCHANGED <<advisory, mine>>
    /\ UNCHANGED <<project, row, credential, clusterVars, faults>>
LockedReady(r) ==
    /\ pc[r] = "row" /\ rowLock = None
    /\ IF project = "READY"
       THEN Goto(r, Resume(r)) /\ rowLock' = r /\ UNCHANGED <<advisory, mine>>
       ELSE Answer(r) /\ Unlocked(r)
    /\ UNCHANGED <<project, row, credential, clusterVars, faults>>

BeginRetry(r) ==
    /\ pc[r] = "retry"
    /\ IF Current(r)
       THEN /\ Update(r, [row EXCEPT !.status = "PROVISIONING"])
            /\ Goto(r, IF mine[r].phase = IntentRecorded THEN "do" ELSE "credential")
            /\ UNCHANGED lockVars
       ELSE Answer(r) /\ Unlocked(r) /\ UNCHANGED row
    /\ UNCHANGED <<project, credential, clusterVars, faults>>

(* _credential: the file must be there with the recorded fingerprint *)
ReadCredential(r) ==
    /\ pc[r] = "credential"
    /\ IF mine[r].credential # None /\ credential = mine[r].credential
       THEN Goto(r, IF mine[r].phase = Active THEN "unlock" ELSE "do") /\ UNCHANGED lockVars
       ELSE Goto(r, "failed") /\ Unlocked(r)
    /\ UNCHANGED <<project, row, credential, clusterVars, mine, faults>>

(* FileSecretStore.create without a value: a file that is there is kept *)
CreateCredentialAnew(r) ==
    /\ credential' = r
    /\ mine' = [mine EXCEPT ![r].credential = r]
CreateCredential(r) ==
    /\ credential' = IF credential = None THEN r ELSE credential
    /\ mine' = [mine EXCEPT ![r].credential = credential']

EnsureSecret(r) ==
    /\ pc[r] = "do" /\ mine[r].phase = IntentRecorded
    /\ CreateCredential(r)
    /\ Goto(r, "record")
    /\ UNCHANGED <<project, row, clusterVars, lockVars, faults>>

(* One transaction; a role that is there has the comment and may log in or not *)
EnsureRole(r) ==
    /\ pc[r] = "do" /\ mine[r].phase = SecretReady
    /\ role' = [password |-> mine[r].credential, login |-> role # None /\ role.login]
    /\ Goto(r, "record")
    /\ UNCHANGED <<project, row, credential, database, granted, lockVars, mine, faults>>

(* CREATE DATABASE cannot be part of a transaction: its ownership comment   *)
(* is a second command. A database without it belongs to somebody else.     *)
EnsureDatabase(r) ==
    /\ pc[r] = "do" /\ mine[r].phase = RoleReady
    /\ CASE database = "absent" -> database' = "unmarked" /\ Goto(r, "comment") /\ UNCHANGED lockVars
         [] database = "marked" -> Goto(r, "record") /\ UNCHANGED <<database, lockVars>>
         [] database = "unmarked" -> Goto(r, "failed") /\ Unlocked(r) /\ UNCHANGED database
    /\ UNCHANGED <<project, row, credential, role, granted, mine, faults>>

CommentOnDatabase(r) ==
    /\ pc[r] = "comment"
    /\ database' = "marked"
    /\ Goto(r, "record")
    /\ UNCHANGED <<project, row, credential, role, granted, lockVars, mine, faults>>

EnsurePrivileges(r) ==
    /\ pc[r] = "do" /\ mine[r].phase = DatabaseReady
    /\ granted' = TRUE
    /\ role' = [role EXCEPT !.login = TRUE]
    /\ Goto(r, "record")
    /\ UNCHANGED <<project, row, credential, database, lockVars, mine, faults>>

LoginWorks(r) == granted /\ role.login /\ role.password = mine[r].credential

VerifyLogin(r) ==
    /\ pc[r] = "do" /\ mine[r].phase = PrivilegesReady
    /\ IF LoginWorks(r) THEN Goto(r, "record") /\ UNCHANGED lockVars
                        ELSE Goto(r, "failed") /\ Unlocked(r)
    /\ UNCHANGED <<project, row, credential, clusterVars, mine, faults>>

(* record_secret and advance *)
Advance(r) ==
    /\ pc[r] = "record"
    /\ IF Current(r)
       THEN LET next == mine[r].phase + 1
            IN /\ Update(r, [mine[r] EXCEPT !.phase = next,
                                            !.status = IF next = Active THEN "ACTIVE" ELSE @])
               /\ Goto(r, CASE next = SecretReady -> "credential"
                            [] next = Active -> "unlock"
                            [] OTHER -> "do")
               /\ UNCHANGED lockVars
       ELSE Answer(r) /\ Unlocked(r) /\ UNCHANGED row
    /\ UNCHANGED <<project, credential, clusterVars, faults>>

Unlock(r) ==
    /\ pc[r] = "unlock"
    /\ Answer(r) /\ Unlocked(r)
    /\ UNCHANGED <<project, row, credential, clusterVars, faults>>

(* ProjectDatabaseProvisioningError or SecretStoreError: the file cannot be *)
(* written, the cluster does not execute the command, or the unlock fails.  *)
(* The locks are released before the failure is recorded.                   *)
ProvisioningError(r) ==
    /\ pc[r] \in {"do", "comment", "unlock"}
    /\ Fault
    /\ Goto(r, "failed")
    /\ Unlocked(r)
    /\ UNCHANGED <<project, row, credential, clusterVars, mine>>

(* The except block: the latest row is read, then marked *)
ReadLatest(r) ==
    /\ pc[r] = "failed"
    /\ mine' = [mine EXCEPT ![r] = IF row = None THEN @ ELSE row]
    /\ Goto(r, "mark")
    /\ UNCHANGED <<project, row, credential, clusterVars, lockVars, faults>>

MarkFailed(r) ==
    /\ pc[r] = "mark"
    /\ row' = IF Current(r) THEN [row EXCEPT !.status = "FAILED", !.version = @ + 1] ELSE row
    /\ Answer(r)
    /\ UNCHANGED <<project, credential, clusterVars, lockVars, faults>>

RequestCrash(r) ==
    /\ pc[r] \notin {"new", "done"}
    /\ Fault
    /\ Answer(r) /\ Unlocked(r)
    /\ UNCHANGED <<project, row, credential, clusterVars>>

RequestStep(r) ==
    \/ OperationLock(r) \/ OperationLockTimeout(r) \/ LockedReady(r) \/ BeginRetry(r)
    \/ ReadCredential(r) \/ EnsureSecret(r) \/ EnsureRole(r) \/ EnsureDatabase(r)
    \/ CommentOnDatabase(r) \/ EnsurePrivileges(r) \/ VerifyLogin(r) \/ Advance(r)
    \/ Unlock(r) \/ ReadLatest(r) \/ MarkFailed(r)

DatabaseNext ==
    \E r \in Request : \/ EnsureIntent(r) \/ RequestStep(r)
                       \/ ProvisioningError(r) \/ RequestCrash(r)

-----------------------------------------------------------------------------
(* A project that is not being deleted can rely on what the row says,       *)
(* whatever the order of the requests and wherever one of them stopped: the *)
(* credential file has the recorded fingerprint, from ROLE_READY on it is   *)
(* the password of the role, and from PRIVILEGES_READY on the login works   *)
(* on the project's own database.                                           *)
RecordedIsUsable ==
    project = "READY" /\ row # None =>
        /\ row.phase >= SecretReady => row.credential # None /\ credential = row.credential
        /\ row.phase >= RoleReady => role # None /\ role.password = row.credential
        /\ row.phase >= DatabaseReady => database = "marked"
        /\ row.phase >= PrivilegesReady => granted /\ role.login
============================================================================
