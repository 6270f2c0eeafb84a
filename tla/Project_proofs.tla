--------------------------- MODULE Project_proofs ----------------------------
(* What lasts of a project and what is left of it when it is gone, for any  *)
(* number of requests, editors, workers, versions, attempts and faults: the *)
(* requests that provision its database (ProjectDatabase), the references   *)
(* of its settings to secrets (ProjectSettings), and its deletion           *)
(* (ProjectDeletion).                                                       *)
EXTENDS ProjectSettings, ProjectDeletion, TLAPS

-----------------------------------------------------------------------------
(* The managed database: what its requests leave behind and may rely on,    *)
(* which the settings and the deletion share                                *)

\* What a request may rely on that has passed phase p with credential c. None
\* of it is ever undone while the project is not deleted.
Passed(p, c) ==
    /\ p >= SecretReady => c # None /\ credential = c
    /\ p >= RoleReady => role # None
    /\ p >= DatabaseReady => database = "marked"
    /\ p >= PrivilegesReady => granted /\ role.login

Resting == {"new", "done"}

\* The file is the password of the role; the row and every request, also one
\* that read it long ago, rely on what is there; and a request that is about to
\* record a phase has done it.
DatabaseInv ==
    /\ DatabaseTypeOK
    /\ role # None => credential # None /\ role.password = credential
    /\ row # None => Passed(row.phase, row.credential)
    /\ \A r \in Request : pc[r] \notin Resting => mine[r] # None
    /\ \A r \in Request : mine[r] # None => Passed(mine[r].phase, mine[r].credential)
    /\ \A r \in Request : pc[r] = "comment" => mine[r].phase = RoleReady
    /\ \A r \in Request : pc[r] = "record" =>
          mine[r].phase < Active /\ Passed(mine[r].phase + 1, mine[r].credential)

USE DatabaseAssumption DEF DatabaseAssumption, IntentRecorded, SecretReady, RoleReady,
    DatabaseReady, PrivilegesReady, Active, Phase

LEMMA DatabaseInitInv == DatabaseInit => DatabaseInv
<1> SUFFICES ASSUME DatabaseInit PROVE DatabaseInv
  OBVIOUS
<1>1. DatabaseTypeOK
  <2>1. /\ row \in Resource \cup {None} /\ mine \in [Request -> Resource \cup {None}]
        /\ credential \in Password /\ role \in Role \cup {None} /\ rowLock \in Request \cup {None}
    BY DEF DatabaseInit, Password
  <2>2. project = "READY" /\ database = "absent" /\ granted = FALSE /\ faults \in 0..MaxFaults
    BY DEF DatabaseInit
  <2>3. pc \in [Request -> {"new", "lock", "row", "retry", "credential", "do", "comment",
                           "record", "unlock", "failed", "mark", "done"}]
    BY DEF DatabaseInit
  <2> QED BY <2>1, <2>2, <2>3 DEF DatabaseTypeOK
<1> QED
  BY <1>1 DEF DatabaseInit, DatabaseInv, Resting

\* The row takes a value that can be relied on, and the request has it in hand.
LEMMA NewRowInv ==
    ASSUME DatabaseInv, NEW r \in Request, NEW new \in Resource, Passed(new.phase, new.credential),
           NEW label \in {"do", "credential", "unlock"},
           row' = new, mine' = [mine EXCEPT ![r] = new], Goto(r, label),
           UNCHANGED <<project, credential, clusterVars, faults, rowLock>>
    PROVE  DatabaseInv'
BY DEF DatabaseInv, DatabaseTypeOK, Passed, Resting, Goto, clusterVars, Resource

\* Only the locks and the place of the request change.
LEMMA MovesInv ==
    ASSUME DatabaseInv, NEW r \in Request, pc[r] # "new" \/ mine'[r] # None,
           NEW label \in {"row", "failed", "unlock", "retry", "do", "credential", "mark"},
           Goto(r, label), rowLock' \in Request \cup {None},
           \/ mine' = mine /\ mine[r] # None
           \/ row # None /\ mine' = [mine EXCEPT ![r] = row],
           faults' \in 0..MaxFaults,
           UNCHANGED <<project, row, credential, clusterVars>>
    PROVE  DatabaseInv'
BY DEF DatabaseInv, DatabaseTypeOK, Passed, Resting, Goto, clusterVars, Resource

\* The request is answered; the row may have taken a new value.
LEMMA AnswerInv ==
    ASSUME DatabaseInv, NEW r \in Request, Answer(r), rowLock' \in Request \cup {None},
           row' # None => row' \in Resource /\ Passed(row'.phase, row'.credential),
           faults' \in 0..MaxFaults,
           UNCHANGED <<project, credential, clusterVars>>
    PROVE  DatabaseInv'
BY DEF DatabaseInv, DatabaseTypeOK, Passed, Resting, Answer, Goto, clusterVars, Resource

LEMMA InHand ==
    ASSUME DatabaseInv, NEW r \in Request, pc[r] \notin Resting
    PROVE  mine[r] \in Resource /\ Passed(mine[r].phase, mine[r].credential)
BY DEF DatabaseInv, DatabaseTypeOK

LEMMA Unlocks ==
    ASSUME DatabaseInv, NEW r \in Request, Unlocked(r) PROVE rowLock' \in Request \cup {None}
BY DEF DatabaseInv, DatabaseTypeOK, Unlocked

LEMMA Stays == ASSUME DatabaseInv PROVE faults \in 0..MaxFaults /\ rowLock \in Request \cup {None}
BY DEF DatabaseInv, DatabaseTypeOK

LEMMA EnsureIntentInv == ASSUME DatabaseInv, NEW r \in Request, EnsureIntent(r) PROVE DatabaseInv'
<1> DEFINE new == [status |-> "PROVISIONING", phase |-> IntentRecorded, version |-> 1,
                   credential |-> None]
<1>1. new \in Resource /\ Passed(new.phase, new.credential)
  BY DEF Resource, Password, Passed
<1>2. row' \in Resource /\ Passed(row'.phase, row'.credential)
  BY <1>1 DEF EnsureIntent, DatabaseInv, DatabaseTypeOK
<1> QED
  BY <1>2 DEF EnsureIntent, DatabaseInv, DatabaseTypeOK, Passed, Resting, Goto, clusterVars,
              lockVars, Resource

LEMMA BeginRetryInv == ASSUME DatabaseInv, NEW r \in Request, BeginRetry(r) PROVE DatabaseInv'
<1>1. CASE Current(r)
  <2> DEFINE opened == [row EXCEPT !.status = "PROVISIONING"]
             new == [opened EXCEPT !.version = row.version + 1]
  <2>1. row \in Resource /\ row # None
    BY <1>1 DEF Current, DatabaseInv, DatabaseTypeOK
  <2>2. new \in Resource /\ new.phase = row.phase /\ new.credential = row.credential
    <3>1. opened \in Resource /\ opened.phase = row.phase /\ opened.credential = row.credential
      BY <2>1 DEF Resource
    <3> HIDE DEF opened
    <3> QED BY <2>1, <3>1 DEF Resource
  <2>3. Passed(new.phase, new.credential)
    BY <2>1, <2>2 DEF DatabaseInv
  <2>4. row' = new /\ mine' = [mine EXCEPT ![r] = new]
    BY <1>1, <2>1 DEF BeginRetry, Update, Resource
  <2>5. UNCHANGED <<project, credential, clusterVars, faults, rowLock>>
    BY <1>1 DEF BeginRetry, lockVars
  <2>6. CASE mine[r].phase = IntentRecorded
    BY <1>1, <2>2, <2>3, <2>4, <2>5, <2>6, NewRowInv DEF BeginRetry
  <2>7. CASE mine[r].phase # IntentRecorded
    BY <1>1, <2>2, <2>3, <2>4, <2>5, <2>7, NewRowInv DEF BeginRetry
  <2> QED BY <2>6, <2>7
<1>2. CASE ~Current(r)
  <2>1. Answer(r) /\ rowLock' \in Request \cup {None}
    BY <1>2, Unlocks DEF BeginRetry
  <2>2. row' # None => row' \in Resource /\ Passed(row'.phase, row'.credential)
    BY <1>2 DEF BeginRetry, DatabaseInv, DatabaseTypeOK
  <2> QED BY <1>2, <2>1, <2>2, AnswerInv, Stays DEF BeginRetry
<1> QED BY <1>1, <1>2

LEMMA AdvanceInv == ASSUME DatabaseInv, NEW r \in Request, Advance(r) PROVE DatabaseInv'
<1>1. mine[r] \in Resource /\ mine[r].phase < Active /\ Passed(mine[r].phase + 1, mine[r].credential)
  BY DEF Advance, DatabaseInv, DatabaseTypeOK, Resting
<1>2. CASE Current(r)
  <2> DEFINE next == mine[r].phase + 1
             passed == [mine[r] EXCEPT !.phase = next]
             done == [passed EXCEPT !.status = IF next = Active THEN "ACTIVE" ELSE @]
             new == [done EXCEPT !.version = row.version + 1]
             label == CASE next = SecretReady -> "credential"
                        [] next = Active -> "unlock"
                        [] OTHER -> "do"
  <2>1. row \in Resource
    BY <1>2 DEF Current, DatabaseInv, DatabaseTypeOK
  <2>2. passed \in Resource /\ passed.phase = next /\ passed.credential = mine[r].credential
    BY <1>1 DEF Resource
  <2>3. new \in Resource /\ new.phase = next /\ new.credential = mine[r].credential
    <3>1. done \in Resource /\ done.phase = next /\ done.credential = mine[r].credential
      <4> HIDE DEF passed
      <4> QED BY <2>2 DEF Resource
    <3> HIDE DEF done
    <3> QED BY <2>1, <3>1 DEF Resource
  <2>4. Passed(new.phase, new.credential)
    BY <1>1, <2>3
  <2>5. row' = new /\ mine' = [mine EXCEPT ![r] = new]
    BY <1>2 DEF Advance, Update
  <2>6. Goto(r, label)
    BY <1>2 DEF Advance
  <2>7. label \in {"do", "credential", "unlock"}
    OBVIOUS
  <2>8. UNCHANGED <<project, credential, clusterVars, faults, rowLock>>
    BY <1>2 DEF Advance, lockVars
  <2> HIDE DEF label, new
  <2> QED BY <2>3, <2>4, <2>5, <2>6, <2>7, <2>8, NewRowInv
<1>3. CASE ~Current(r)
  <2>1. Answer(r) /\ rowLock' \in Request \cup {None}
    BY <1>3, Unlocks DEF Advance
  <2>2. row' # None => row' \in Resource /\ Passed(row'.phase, row'.credential)
    BY <1>3 DEF Advance, DatabaseInv, DatabaseTypeOK
  <2> QED BY <1>3, <2>1, <2>2, AnswerInv, Stays DEF Advance
<1> QED BY <1>2, <1>3

LEMMA MarkFailedInv == ASSUME DatabaseInv, NEW r \in Request, MarkFailed(r) PROVE DatabaseInv'
<1>1. row' # None => row' \in Resource /\ Passed(row'.phase, row'.credential)
  <2>1. CASE Current(r)
    <3> DEFINE failed == [row EXCEPT !.status = "FAILED"]
               new == [failed EXCEPT !.version = @ + 1]
    <3>1. row \in Resource /\ row # None
      BY <2>1 DEF Current, DatabaseInv, DatabaseTypeOK
    <3>2. new \in Resource /\ new.phase = row.phase /\ new.credential = row.credential
      <4>1. failed \in Resource /\ failed.phase = row.phase /\ failed.credential = row.credential
        BY <3>1 DEF Resource
      <4> HIDE DEF failed
      <4> QED BY <3>1, <4>1 DEF Resource
    <3>3. row' = new
      BY <2>1 DEF MarkFailed
    <3>4. UNCHANGED <<credential, role, database, granted>>
      BY DEF MarkFailed, clusterVars
    <3> QED BY <3>1, <3>2, <3>3, <3>4 DEF DatabaseInv, Passed
  <2>2. CASE ~Current(r)
    BY <2>2 DEF MarkFailed, DatabaseInv, DatabaseTypeOK, Passed, clusterVars
  <2> QED BY <2>1, <2>2
<1> QED BY <1>1, AnswerInv, Stays DEF MarkFailed, lockVars

LEMMA LockedReadyInv == ASSUME DatabaseInv, NEW r \in Request, LockedReady(r) PROVE DatabaseInv'
<1>1. CASE project = "READY"
  <2>1. Resume(r) \in {"unlock", "retry", "do", "credential"}
    BY DEF Resume
  <2>2. mine[r] # None
    BY DEF LockedReady, DatabaseInv, Resting
  <2> QED
    BY <1>1, <2>1, <2>2, MovesInv, Stays DEF LockedReady
<1>2. CASE project # "READY"
  BY <1>2, AnswerInv, Unlocks, Stays DEF LockedReady, DatabaseInv, DatabaseTypeOK
<1> QED BY <1>1, <1>2

\* A file that is there is kept, so the credential of a request is that file.
LEMMA EnsureSecretInv == ASSUME DatabaseInv, NEW r \in Request, EnsureSecret(r) PROVE DatabaseInv'
<1> DEFINE new == [mine[r] EXCEPT !.credential = credential']
<1>1. mine[r] \in Resource
  BY InHand DEF EnsureSecret, Resting
<1>2. credential' \in Request /\ (credential # None => credential' = credential)
  BY DEF EnsureSecret, CreateCredential, DatabaseInv, DatabaseTypeOK, Password
<1>3. new \in Resource /\ new.phase = IntentRecorded /\ new.credential = credential'
  BY <1>1, <1>2 DEF Resource, Password, EnsureSecret
<1>4. mine' = [mine EXCEPT ![r] = new]
  BY DEF EnsureSecret, CreateCredential
<1> HIDE DEF new
<1> QED
  BY <1>2, <1>3, <1>4
  DEF EnsureSecret, DatabaseInv, DatabaseTypeOK, Passed, Resting, Goto, clusterVars, lockVars,
      Password, Resource

LEMMA EnsureRoleInv == ASSUME DatabaseInv, NEW r \in Request, EnsureRole(r) PROVE DatabaseInv'
<1>1. mine[r] \in Resource /\ mine[r].phase = SecretReady /\ Passed(SecretReady, mine[r].credential)
  BY InHand DEF EnsureRole, Resting
<1>2. /\ role' \in Role /\ role'.password = credential
      /\ role # None /\ role.login => role'.login
  BY <1>1 DEF EnsureRole, Role, Resource, Passed, DatabaseInv, DatabaseTypeOK
<1> QED
  BY <1>1, <1>2
  DEF EnsureRole, DatabaseInv, DatabaseTypeOK, Passed, Resting, Goto, lockVars, Resource

LEMMA EnsureDatabaseInv == ASSUME DatabaseInv, NEW r \in Request, EnsureDatabase(r) PROVE DatabaseInv'
<1>1. mine[r] \in Resource /\ mine[r].phase = RoleReady /\ Passed(RoleReady, mine[r].credential)
  BY InHand DEF EnsureDatabase, Resting
<1>2. CASE database = "absent"
  BY <1>1, <1>2
  DEF EnsureDatabase, DatabaseInv, DatabaseTypeOK, Passed, Resting, Goto, lockVars, Resource
<1>3. CASE database = "marked"
  BY <1>1, <1>3
  DEF EnsureDatabase, DatabaseInv, DatabaseTypeOK, Passed, Resting, Goto, lockVars, Resource
<1>4. CASE database = "unmarked"
  <2>1. Goto(r, "failed") /\ UNCHANGED <<project, row, credential, clusterVars, mine, faults>>
    BY <1>4 DEF EnsureDatabase, clusterVars
  <2> QED
    BY <1>4, <2>1, MovesInv, Unlocks, Stays DEF EnsureDatabase, DatabaseInv, Resting
<1> QED BY <1>2, <1>3, <1>4 DEF DatabaseInv, DatabaseTypeOK

LEMMA CommentOnDatabaseInv ==
    ASSUME DatabaseInv, NEW r \in Request, CommentOnDatabase(r) PROVE DatabaseInv'
BY DEF CommentOnDatabase, DatabaseInv, DatabaseTypeOK, Passed, Resting, Goto, lockVars, Resource

LEMMA EnsurePrivilegesInv ==
    ASSUME DatabaseInv, NEW r \in Request, EnsurePrivileges(r) PROVE DatabaseInv'
<1>1. mine[r] \in Resource /\ mine[r].phase = DatabaseReady /\ Passed(DatabaseReady, mine[r].credential)
  BY InHand DEF EnsurePrivileges, Resting
<1>2. role \in Role /\ role # None
  BY <1>1 DEF Passed, DatabaseInv, DatabaseTypeOK
<1>3. role' \in Role /\ role'.login /\ role'.password = role.password
  BY <1>2 DEF EnsurePrivileges, Role
<1>4. role' # None
  BY <1>3
<1> QED
  BY <1>1, <1>2, <1>3, <1>4
  DEF EnsurePrivileges, DatabaseInv, DatabaseTypeOK, Passed, Resting, Goto, lockVars, Resource

\* Every other step only moves the request or answers it.
LEMMA ReadCredentialInv ==
    ASSUME DatabaseInv, NEW r \in Request, ReadCredential(r) PROVE DatabaseInv'
BY MovesInv, Unlocks, Stays DEF ReadCredential, DatabaseInv, Resting, lockVars

LEMMA VerifyLoginInv == ASSUME DatabaseInv, NEW r \in Request, VerifyLogin(r) PROVE DatabaseInv'
<1>1. mine[r] \in Resource /\ mine[r].phase = PrivilegesReady
      /\ Passed(PrivilegesReady, mine[r].credential)
  BY InHand DEF VerifyLogin, Resting
<1>2. CASE LoginWorks(r)
  BY <1>1, <1>2
  DEF VerifyLogin, DatabaseInv, DatabaseTypeOK, Passed, Resting, Goto, lockVars, clusterVars, Resource
<1>3. CASE ~LoginWorks(r)
  BY <1>3, MovesInv, Unlocks, Stays DEF VerifyLogin, DatabaseInv, Resting
<1> QED BY <1>2, <1>3

LEMMA RequestStepInv == ASSUME DatabaseInv, NEW r \in Request, RequestStep(r) PROVE DatabaseInv'
<1>1. CASE OperationLock(r)
  BY <1>1, MovesInv, Stays DEF OperationLock, DatabaseInv, Resting
<1>2. CASE OperationLockTimeout(r)
  BY <1>2, MovesInv, Stays DEF OperationLockTimeout, DatabaseInv, Resting, lockVars
<1>3. CASE Unlock(r)
  BY <1>3, AnswerInv, Unlocks, Stays DEF Unlock, DatabaseInv, DatabaseTypeOK
<1>4. CASE ReadLatest(r)
  BY <1>4, MovesInv, Stays DEF ReadLatest, DatabaseInv, DatabaseTypeOK, Resting, lockVars
<1> QED
  BY <1>1, <1>2, <1>3, <1>4, LockedReadyInv, BeginRetryInv, ReadCredentialInv, EnsureSecretInv,
     EnsureRoleInv, EnsureDatabaseInv, CommentOnDatabaseInv, EnsurePrivilegesInv, VerifyLoginInv,
     AdvanceInv, MarkFailedInv
  DEF RequestStep

LEMMA DatabaseStepInv == ASSUME DatabaseInv, DatabaseNext PROVE DatabaseInv'
<1> PICK r \in Request : EnsureIntent(r) \/ RequestStep(r) \/ ProvisioningError(r) \/ RequestCrash(r)
  BY DEF DatabaseNext
<1>1. CASE ProvisioningError(r)
  BY <1>1, MovesInv, Unlocks, Stays DEF ProvisioningError, Fault, DatabaseInv, Resting
<1>2. CASE RequestCrash(r)
  BY <1>2, AnswerInv, Unlocks, Stays DEF RequestCrash, Fault, DatabaseInv, DatabaseTypeOK
<1> QED BY <1>1, <1>2, EnsureIntentInv, RequestStepInv

\* Everybody else leaves the database alone.
LEMMA OthersInv ==
    ASSUME DatabaseInv, UNCHANGED <<project, databaseVars>>, faults' \in 0..MaxFaults
    PROVE  DatabaseInv'
BY DEF DatabaseInv, DatabaseTypeOK, Passed, databaseVars, clusterVars, lockVars

\* A request takes the advisory lock or releases its own.
LEMMA AdvisoryType ==
    ASSUME DatabaseTypeOK, DatabaseNext
    PROVE  advisory' \in Request \cup {advisory, None}
<1> PICK r \in Request : EnsureIntent(r) \/ RequestStep(r) \/ ProvisioningError(r) \/ RequestCrash(r)
  BY DEF DatabaseNext
<1>1. advisory' = advisory \/ advisory' = r \/ Unlocked(r)
  <2>1. CASE EnsureIntent(r) \/ ProvisioningError(r) \/ RequestCrash(r)
    BY <2>1 DEF EnsureIntent, ProvisioningError, RequestCrash, lockVars
  <2>2. CASE OperationLock(r) \/ OperationLockTimeout(r) \/ LockedReady(r) \/ Unlock(r)
             \/ ReadLatest(r) \/ MarkFailed(r)
    BY <2>2 DEF OperationLock, OperationLockTimeout, LockedReady, Unlock, ReadLatest, MarkFailed, lockVars
  <2>3. CASE EnsureSecret(r) \/ EnsureRole(r) \/ CommentOnDatabase(r) \/ EnsurePrivileges(r)
    BY <2>3 DEF EnsureSecret, EnsureRole, CommentOnDatabase, EnsurePrivileges, lockVars
  <2>4. CASE BeginRetry(r) \/ Advance(r)
    BY <2>4 DEF BeginRetry, Advance, lockVars
  <2>5. CASE ReadCredential(r) \/ VerifyLogin(r)
    BY <2>5 DEF ReadCredential, VerifyLogin, lockVars
  <2>6. CASE EnsureDatabase(r)
    <3>1. database \in {"absent", "unmarked", "marked"}
      BY DEF DatabaseTypeOK
    <3>2. CASE database = "absent"
      BY <2>6, <3>2 DEF EnsureDatabase, lockVars
    <3>3. CASE database = "unmarked"
      BY <2>6, <3>3 DEF EnsureDatabase
    <3>4. CASE database = "marked"
      BY <2>6, <3>4 DEF EnsureDatabase, lockVars
    <3> QED BY <3>1, <3>2, <3>3, <3>4
  <2> QED BY <2>1, <2>2, <2>3, <2>4, <2>5, <2>6 DEF RequestStep
<1> QED BY <1>1 DEF Unlocked

-----------------------------------------------------------------------------
(* The settings *)

USE SettingsAssumption DEF SettingsAssumption

StoreTypeOK ==
    /\ config \in 0..MaxConfig
    /\ secret \in [Variable -> Slot]
    /\ file \in [Variable -> [1..MaxVersion -> Value \cup {None}]]
    /\ deployed \subseteq [variable : Variable, reference : Reference]
    /\ storeLock \in Editor \cup {None}
    /\ step \in [Editor -> {"idle", "loaded", "check", "resolve", "write", "save"}]
    /\ expected \in [Editor -> 0..MaxConfig]
    /\ form \in [Editor -> [Variable -> Value \cup {Keep, Omit}]]
    /\ left \in [Editor -> SUBSET Variable]
    /\ resolved \in [Editor -> [Variable -> Slot]]

\* The reference is that of the file that the editor writes next.
Pending(e, v) ==
    /\ step[e] = "write" /\ form[e][v] \in Value
    /\ file[v][resolved[e][v].version] = None
    /\ resolved[e][v].value = form[e][v]

Locked(e) == step[e] \in {"check", "resolve", "write"} => storeLock = e

\* What an editor has resolved resolves, except for the file it writes next; and
\* nobody else writes meanwhile, since it has the lock.
StoreInv ==
    /\ StoreTypeOK
    /\ ReferencesResolve
    /\ \A e \in Editor : Locked(e)
    /\ \A e \in Editor : step[e] # "idle" => expected[e] < MaxConfig
    /\ \A e \in Editor, v \in Variable :
          resolved[e][v] # None => Resolves(v, resolved[e][v]) \/ Pending(e, v)

LEMMA StoreInitInv == SettingsInit => StoreInv
<1> SUFFICES ASSUME SettingsInit PROVE StoreInv
  OBVIOUS
<1>1. /\ secret \in [Variable -> Slot] /\ deployed \subseteq [variable : Variable, reference : Reference]
      /\ resolved \in [Editor -> [Variable -> Slot]]
  BY DEF SettingsInit, NoSecrets, Slot
<1>2. /\ file \in [Variable -> [1..MaxVersion -> Value \cup {None}]]
      /\ form \in [Editor -> [Variable -> Value \cup {Keep, Omit}]]
      /\ left \in [Editor -> SUBSET Variable]
  BY DEF SettingsInit
<1>3. /\ config \in 0..MaxConfig /\ storeLock \in Editor \cup {None}
      /\ step \in [Editor -> {"idle", "loaded", "check", "resolve", "write", "save"}]
      /\ expected \in [Editor -> 0..MaxConfig]
  BY DEF SettingsInit
<1>4. StoreTypeOK
  BY <1>1, <1>2, <1>3 DEF StoreTypeOK
<1> QED
  BY <1>4 DEF SettingsInit, StoreInv, ReferencesResolve, NoSecrets, Locked

\* The request of e ends.
LEMMA EditorEndsInv ==
    ASSUME StoreInv, NEW e \in Editor, Ends(e), UNCHANGED <<file, deployed>>,
           config' \in 0..MaxConfig,
           \/ secret' = secret
           \/ secret' = resolved[e] /\ step[e] = "resolve"
    PROVE  StoreInv'
<1>1. StoreTypeOK'
  BY DEF StoreInv, StoreTypeOK, Ends, EditorTo, NoSecrets, Slot
<1>2. ReferencesResolve'
  <2>1. ASSUME NEW v \in Variable, secret'[v] # None PROVE Resolves(v, secret[v])'
    BY <2>1 DEF StoreInv, ReferencesResolve, Resolves, Pending
  <2>2. ASSUME NEW d \in deployed' PROVE Resolves(d.variable, d.reference)'
    BY <2>2 DEF StoreInv, ReferencesResolve, Resolves
  <2> QED BY <2>1, <2>2 DEF ReferencesResolve
<1>3. \A d \in Editor : Locked(d)'
  BY DEF StoreInv, StoreTypeOK, Ends, EditorTo, Locked
<1>4. \A d \in Editor, v \in Variable :
          (resolved[d][v] # None => Resolves(v, resolved[d][v]) \/ Pending(d, v))'
  BY DEF StoreInv, StoreTypeOK, Ends, EditorTo, Resolves, Pending, NoSecrets
<1>5. \A d \in Editor : (step[d] # "idle" => expected[d] < MaxConfig)'
  BY DEF StoreInv, StoreTypeOK, Ends, EditorTo
<1> QED BY <1>1, <1>2, <1>3, <1>4, <1>5 DEF StoreInv

\* e resolves v to a reference that resolves, or that it writes next.
LEMMA ResolvesInv ==
    ASSUME StoreInv, NEW e \in Editor, NEW v \in Variable, NEW reference \in Reference,
           NEW label \in {"resolve", "write"}, step[e] = "resolve",
           resolved' = [resolved EXCEPT ![e][v] = reference],
           left' = [left EXCEPT ![e] = @ \ {v}], EditorTo(e, label),
           \/ Resolves(v, reference)
           \/ /\ label = "write" /\ form[e][v] \in Value
              /\ file[v][reference.version] = None /\ reference.value = form[e][v],
           UNCHANGED <<config, storeVars, storeLock, expected, form>>
    PROVE  StoreInv'
<1>1. StoreTypeOK'
  <2>1. resolved' \in [Editor -> [Variable -> Slot]]
    BY DEF StoreInv, StoreTypeOK, Slot
  <2> QED BY <2>1 DEF StoreInv, StoreTypeOK, EditorTo, storeVars
<1>2. ReferencesResolve'
  BY DEF StoreInv, ReferencesResolve, Resolves, storeVars
<1>3. \A d \in Editor : Locked(d)'
  BY DEF StoreInv, StoreTypeOK, EditorTo, Locked
<1>4. ASSUME NEW d \in Editor, NEW u \in Variable, resolved'[d][u] # None
      PROVE  Resolves(u, resolved[d][u])' \/ Pending(d, u)'
  <2>1. CASE d = e /\ u = v
    BY <1>4, <2>1 DEF StoreInv, StoreTypeOK, EditorTo, Resolves, Pending, storeVars
  <2>2. CASE d = e /\ u # v
    BY <1>4, <2>2 DEF StoreInv, StoreTypeOK, EditorTo, Resolves, Pending, storeVars
  <2>3. CASE d # e
    BY <1>4, <2>3 DEF StoreInv, StoreTypeOK, EditorTo, Resolves, Pending, storeVars
  <2> QED BY <2>1, <2>2, <2>3
<1>5. \A d \in Editor : (step[d] # "idle" => expected[d] < MaxConfig)'
  BY DEF StoreInv, StoreTypeOK, EditorTo
<1> QED BY <1>1, <1>2, <1>3, <1>4, <1>5 DEF StoreInv

\* A file is written only where there is none, by the editor that has the lock.
LEMMA WriteOnceInv == ASSUME StoreInv, NEW e \in Editor, WriteOnce(e) PROVE StoreInv'
<1>1. StoreTypeOK'
  BY DEF StoreInv, StoreTypeOK, WriteOnce, EditorTo, Written
<1>2. \A v \in Variable, n \in 1..MaxVersion : file[v][n] # None => file'[v][n] = file[v][n]
  BY DEF StoreInv, StoreTypeOK, WriteOnce
<1>3. ASSUME NEW v \in Variable, NEW reference \in Reference, Resolves(v, reference)
      PROVE  Resolves(v, reference)'
  BY <1>2, <1>3 DEF Resolves, Reference
<1>4. ReferencesResolve'
  <2>1. ASSUME NEW v \in Variable, secret'[v] # None PROVE Resolves(v, secret[v])'
    <3>1. secret' = secret /\ secret[v] \in Reference
      BY <2>1 DEF WriteOnce, StoreInv, StoreTypeOK, Slot
    <3> QED BY <2>1, <3>1, <1>3 DEF StoreInv, ReferencesResolve, Resolves
  <2>2. ASSUME NEW d \in deployed' PROVE Resolves(d.variable, d.reference)'
    <3>1. deployed' = deployed /\ d.variable \in Variable /\ d.reference \in Reference
      BY <2>2 DEF WriteOnce, StoreInv, StoreTypeOK
    <3> QED BY <2>2, <3>1, <1>3 DEF StoreInv, ReferencesResolve, Resolves
  <2> QED BY <2>1, <2>2 DEF ReferencesResolve
<1>5. \A d \in Editor : Locked(d)'
  BY DEF StoreInv, StoreTypeOK, WriteOnce, EditorTo, Locked
<1>6. ASSUME NEW d \in Editor, NEW v \in Variable, resolved'[d][v] # None
      PROVE  Resolves(v, resolved[d][v])' \/ Pending(d, v)'
  <2>1. resolved' = resolved /\ resolved[d][v] \in Reference /\ resolved[d][v] # None
    BY <1>6 DEF WriteOnce, StoreInv, StoreTypeOK, Slot
  <2>2. CASE Resolves(v, resolved[d][v])
    BY <2>1, <2>2, <1>3 DEF Resolves
  <2>3. CASE Pending(d, v)
    <3>1. d = e
      BY <2>3 DEF Pending, WriteOnce, StoreInv, Locked
    <3>2. file'[v][resolved[d][v].version] = form[e][v]
      BY <2>1, <2>3, <3>1 DEF Pending, WriteOnce, Written, Reference
    <3> QED BY <2>1, <2>3, <3>1, <3>2 DEF Pending, Resolves
  <2> QED BY <2>1, <2>2, <2>3 DEF StoreInv
<1>7. \A d \in Editor : (step[d] # "idle" => expected[d] < MaxConfig)'
  BY DEF StoreInv, StoreTypeOK, WriteOnce, EditorTo
<1> QED BY <1>1, <1>4, <1>5, <1>6, <1>7 DEF StoreInv

LEMMA StoreStepInv == ASSUME StoreInv, DatabaseInv, SettingsNext PROVE StoreInv'
<1>1. CASE ProvisionBeside
  BY <1>1 DEF ProvisionBeside, StoreInv, StoreTypeOK, ReferencesResolve, Resolves, Locked, Pending,
              storeVars, editorVars
<1>2. ASSUME NEW e \in Editor, Load(e) PROVE StoreInv'
  <2>1. StoreTypeOK'
    BY <1>2 DEF Load, Unstored, EditorTo, StoreInv, StoreTypeOK, storeVars
  <2> QED
    BY <1>2, <2>1 DEF Load, Unstored, EditorTo, StoreInv, StoreTypeOK, ReferencesResolve, Resolves,
                      Locked, Pending, storeVars
<1>3. ASSUME NEW e \in Editor, OperationLockOfSecrets(e) PROVE StoreInv'
  <2>1. PICK f \in [Variable -> Value \cup {Keep, Omit}] : form' = [form EXCEPT ![e] = f]
    BY <1>3 DEF OperationLockOfSecrets
  <2>2. StoreTypeOK'
    BY <1>3, <2>1 DEF OperationLockOfSecrets, Unstored, EditorTo, StoreInv, StoreTypeOK, storeVars
  <2>3. \A d \in Editor : step[d] \notin {"check", "resolve", "write"}
    BY <1>3 DEF OperationLockOfSecrets, Exclusive, StoreInv, Locked
  <2> QED
    BY <1>3, <2>2, <2>3 DEF OperationLockOfSecrets, Unstored, EditorTo, StoreInv, StoreTypeOK,
          ReferencesResolve, Resolves, Locked, Pending, storeVars
<1>4. ASSUME NEW e \in Editor, CheckVersion(e) PROVE StoreInv'
  <2>1. CASE config = expected[e]
    <3>1. StoreTypeOK'
      <4> DEFINE rest == {v \in Variable : form[e][v] # Omit}
      <4>3. rest \in SUBSET Variable
        OBVIOUS
      <4>4. left' = [left EXCEPT ![e] = rest]
        BY <1>4, <2>1 DEF CheckVersion
      <4> HIDE DEF rest
      <4>1. left' \in [Editor -> SUBSET Variable]
        BY <4>3, <4>4 DEF StoreInv, StoreTypeOK
      <4>2. step' \in [Editor -> {"idle", "loaded", "check", "resolve", "write", "save"}]
        BY <1>4, <2>1 DEF CheckVersion, EditorTo, StoreInv, StoreTypeOK
      <4> QED
        BY <1>4, <2>1, <4>1, <4>2 DEF CheckVersion, Unstored, StoreInv, StoreTypeOK, storeVars
    <3> QED
      BY <1>4, <2>1, <3>1 DEF CheckVersion, Unstored, EditorTo, StoreInv, StoreTypeOK,
            ReferencesResolve, Resolves, Locked, Pending, storeVars
  <2>2. CASE config # expected[e]
    BY <1>4, <2>2, EditorEndsInv DEF CheckVersion, Unstored, storeVars, StoreInv, StoreTypeOK
  <2> QED BY <2>1, <2>2
<1>5. ASSUME NEW e \in Editor, Save(e) PROVE StoreInv'
  <2>1. config' \in 0..MaxConfig
    BY <1>5 DEF Save, StoreInv, StoreTypeOK
  <2> QED BY <1>5, <2>1, EditorEndsInv DEF Save
<1>6. ASSUME NEW e \in Editor, EditorCrash(e) PROVE StoreInv'
  BY <1>6, EditorEndsInv DEF EditorCrash, storeVars, StoreInv, StoreTypeOK
<1>7. ASSUME NEW e \in Editor, NEW v \in Variable, KeepSecret(e, v) PROVE StoreInv'
  <2>1. CASE secret[v] = None
    BY <1>7, <2>1, EditorEndsInv DEF KeepSecret, Unstored, storeVars, StoreInv, StoreTypeOK
  <2>2. CASE secret[v] # None
    <3>1. secret[v] \in Reference /\ Resolves(v, secret[v])
      BY <2>2 DEF StoreInv, StoreTypeOK, ReferencesResolve, Slot
    <3> QED
      BY <1>7, <2>2, <3>1, ResolvesInv DEF KeepSecret, Resolve, Unstored, storeVars
  <2> QED BY <2>1, <2>2
<1>8. ASSUME NEW e \in Editor, NEW v \in Variable, ExistingSecret(e, v) PROVE StoreInv'
  <2> DEFINE reference == [version |-> NextVersion(v), value |-> form[e][v]]
  <2>1. reference \in Reference
    BY <1>8 DEF ExistingSecret, NextVersion, Reference, Slot, StoreInv, StoreTypeOK
  <2>2. CASE Conflicts(e, v)
    BY <1>8, <2>2, EditorEndsInv DEF ExistingSecret, Unstored, storeVars, StoreInv, StoreTypeOK
  <2>3. CASE ~Conflicts(e, v)
    <3>1. Resolves(v, reference) /\ Resolve(e, v, reference) /\ step[e] = "resolve"
      BY <1>8, <2>3 DEF ExistingSecret, Conflicts, Resolves
    <3> HIDE DEF reference
    <3> QED BY <1>8, <2>1, <3>1, ResolvesInv DEF ExistingSecret, Resolve, Unstored, storeVars
  <2> QED BY <2>2, <2>3
<1>9. ASSUME NEW e \in Editor, NEW v \in Variable, MissingSecret(e, v) PROVE StoreInv'
  <2> DEFINE reference == [version |-> NextVersion(v), value |-> form[e][v]]
  <2>1. reference \in Reference
    BY <1>9 DEF MissingSecret, NextVersion, Reference, Slot, StoreInv, StoreTypeOK
  <2>2. /\ form[e][v] \in Value /\ file[v][reference.version] = None
        /\ reference.value = form[e][v] /\ step[e] = "resolve"
        /\ resolved' = [resolved EXCEPT ![e][v] = reference]
    BY <1>9 DEF MissingSecret
  <2> HIDE DEF reference
  <2> QED BY <1>9, <2>1, <2>2, ResolvesInv DEF MissingSecret, Unstored, storeVars
<1>10. CASE Deploy
  <2> DEFINE taken == {[variable |-> v, reference |-> secret[v]] : v \in {u \in Variable : secret[u] # None}}
  <2>1. deployed' = deployed \cup taken
    BY <1>10 DEF Deploy
  <2>2. \A d \in taken : /\ d \in [variable : Variable, reference : Reference]
                         /\ Resolves(d.variable, d.reference)
    BY DEF StoreInv, StoreTypeOK, Slot, ReferencesResolve
  <2> HIDE DEF taken
  <2>3. StoreTypeOK' /\ ReferencesResolve'
    BY <1>10, <2>1, <2>2 DEF Deploy, StoreInv, StoreTypeOK, ReferencesResolve, Resolves, editorVars
  <2> QED
    BY <1>10, <2>3 DEF Deploy, StoreInv, Resolves, Locked, Pending, editorVars
<1> QED
  BY <1>1, <1>2, <1>3, <1>4, <1>5, <1>6, <1>7, <1>8, <1>9, <1>10, WriteOnceInv DEF SettingsNext, EditorStep

-----------------------------------------------------------------------------
(* The settings and the requests that provision the database *)

SettingsInv == DatabaseInv /\ StoreInv /\ advisory \in Request \cup {None} /\ project = "READY"

LEMMA SettingsInitInv == SettingsInit => SettingsInv
BY DatabaseInitInv, StoreInitInv DEF SettingsInit, SettingsInv, DatabaseInit

LEMMA SettingsSameInv == ASSUME SettingsInv, UNCHANGED settingsVars PROVE SettingsInv'
<1>1. DatabaseInv'
  BY OthersInv DEF SettingsInv, settingsVars, DatabaseInv, DatabaseTypeOK
<1>2. StoreInv'
  BY DEF SettingsInv, settingsVars, StoreInv, StoreTypeOK, ReferencesResolve, Resolves, Locked, Pending,
         storeVars, editorVars
<1> QED BY <1>1, <1>2 DEF SettingsInv, settingsVars, databaseVars, lockVars

LEMMA SettingsStepInv == ASSUME SettingsInv, SettingsNext PROVE SettingsInv'
<1>1. StoreInv'
  BY StoreStepInv DEF SettingsInv
<1>2. CASE ProvisionBeside
  <2>1. DatabaseInv' /\ advisory' \in Request \cup {None}
    BY <1>2, DatabaseStepInv, AdvisoryType DEF SettingsInv, DatabaseInv, ProvisionBeside
  <2>2. project' = project
    BY <1>2 DEF ProvisionBeside, DatabaseNext, EnsureIntent, RequestStep, OperationLock, OperationLockTimeout,
       LockedReady, BeginRetry, ReadCredential, EnsureSecret, EnsureRole, EnsureDatabase,
       CommentOnDatabase, EnsurePrivileges, VerifyLogin, Advance, Unlock, ReadLatest, MarkFailed,
       ProvisioningError, RequestCrash
  <2> QED BY <1>1, <2>1, <2>2 DEF SettingsInv
<1>3. CASE ~ProvisionBeside
  <2>1. UNCHANGED <<project, databaseVars>> /\ faults' \in 0..MaxFaults
    <3>1. faults \in 0..MaxFaults
      BY DEF SettingsInv, DatabaseInv, DatabaseTypeOK
    <3>2. ASSUME NEW e \in Editor, Load(e) \/ OperationLockOfSecrets(e) \/ CheckVersion(e)
                 \/ \E v \in Variable : KeepSecret(e, v) \/ ExistingSecret(e, v) \/ MissingSecret(e, v)
          PROVE  UNCHANGED <<project, databaseVars, faults>>
      BY <3>2 DEF Load, OperationLockOfSecrets, CheckVersion, KeepSecret, ExistingSecret,
                  MissingSecret, Unstored
    <3>3. ASSUME NEW e \in Editor, WriteOnce(e) \/ Save(e)
          PROVE  UNCHANGED <<project, databaseVars, faults>>
      BY <3>3 DEF WriteOnce, Save
    <3>4. ASSUME NEW e \in Editor, EditorCrash(e)
          PROVE  UNCHANGED <<project, databaseVars>> /\ faults' \in 0..MaxFaults
      BY <3>1, <3>4 DEF EditorCrash, Fault
    <3>5. CASE Deploy
      BY <3>1, <3>5 DEF Deploy
    <3> QED BY <1>3, <3>1, <3>2, <3>3, <3>4, <3>5 DEF SettingsNext, EditorStep
  <2> QED BY <1>1, <2>1, OthersInv DEF SettingsInv, databaseVars, lockVars
<1> QED BY <1>2, <1>3

LEMMA SettingsAlwaysInv == SettingsSpec => []SettingsInv
<1>1. SettingsInv /\ [SettingsNext]_settingsVars => SettingsInv'
  BY SettingsSameInv, SettingsStepInv
<1> QED BY SettingsInitInv, <1>1, PTL DEF SettingsSpec

\* Every variable of the settings, the secret store and the managed database keeps
\* its type: no request works on a row, a role or a reference that is not there.
THEOREM SettingsTypeCorrect == SettingsSpec => []SettingsTypeOK
<1>1. SettingsInv => SettingsTypeOK
  BY DEF SettingsInv, DatabaseInv, StoreInv, StoreTypeOK, SettingsTypeOK
<1> QED BY SettingsAlwaysInv, <1>1, PTL

\* References to secrets resolve for ever to the content they were recorded with
\* (update_settings, FileSecretStore.create): the lock keeps two editors from writing
\* the same version, and a file is written only where there is none.
THEOREM ReferencesAlwaysResolve == SettingsSpec => []ReferencesResolve
<1>1. SettingsInv => ReferencesResolve
  BY DEF SettingsInv, StoreInv
<1> QED BY SettingsAlwaysInv, <1>1, PTL

\* What the row of the managed database records can be used (provision, _reconcile),
\* whatever the order of the requests and wherever one of them stopped or failed.
THEOREM RecordedAlwaysUsable == SettingsSpec => []RecordedIsUsable
<1>1. SettingsInv => RecordedIsUsable
  <2> SUFFICES ASSUME SettingsInv, row # None PROVE RecordedIsUsable
    BY DEF RecordedIsUsable
  <2>1. row.phase \in Phase /\ Passed(row.phase, row.credential)
    BY DEF SettingsInv, DatabaseInv, DatabaseTypeOK, Resource
  <2>2. role # None => role.password = credential
    BY DEF SettingsInv, DatabaseInv
  <2> QED BY <2>1, <2>2 DEF Passed, RecordedIsUsable
<1> QED BY SettingsAlwaysInv, <1>1, PTL

-----------------------------------------------------------------------------
HIDE SettingsAssumption DEF SettingsAssumption
USE DeletionAssumption DEF DeletionAssumption

(* The deletion: the requests that provision the database beside it *)

Inside == {"retry", "credential", "do", "comment", "record", "unlock"}

\* While the project is not deleted, the requests can rely on what they have
\* passed. A request changes the cluster only while it holds the project row,
\* which nobody does once the deletion is requested; and without a row there is
\* nothing of it in the cluster.
RequestsInv ==
    /\ DatabaseTypeOK
    /\ project = "READY" => DatabaseInv
    /\ \A r \in Request : pc[r] \in Inside => rowLock = r
    /\ project # "READY" => rowLock = None
    /\ row = None => database = "absent" /\ role = None
    /\ project = "READY" /\ row = None => \A r \in Request : pc[r] \in Resting

\* What a step of r does to the locks, the row and what is behind it.
RequestEffect(r) ==
    /\ UNCHANGED project
    /\ \A q \in Request : q # r => pc'[q] = pc[q]
    /\ pc[r] # "done" /\ (pc[r] = "new" => project = "READY" /\ row' # None)
    /\ \/ rowLock' = rowLock
       \/ project = "READY" /\ rowLock = None /\ rowLock' = r
       \/ rowLock = r /\ rowLock' = None
    /\ pc'[r] \in Inside => rowLock' = r
    /\ row = None => row' = None \/ project = "READY"
    /\ row # None => row' # None
    /\ pc[r] \in Inside \/ UNCHANGED <<credential, clusterVars>>
    /\ credential # None => credential' = credential
    /\ database = "marked" => database' = "marked"

\* The steps outside the locks are all that is left of provision() once the
\* project is being deleted.
LEMMA EnsureIntentEffect ==
    ASSUME RequestsInv, NEW r \in Request, EnsureIntent(r) PROVE RequestEffect(r)
<1>1. row' # None
  BY DEF EnsureIntent, Resource, Password
<1> QED
  BY <1>1 DEF EnsureIntent, RequestEffect, RequestsInv, DatabaseTypeOK, Inside, Resting, Goto, Accepts,
              lockVars, clusterVars

LEMMA NewRow ==
    ASSUME RequestsInv, NEW r \in Request, NEW resource \in Resource, Current(r), Update(r, resource)
    PROVE  row' # None /\ row' \in Resource /\ mine' = [mine EXCEPT ![r] = row']
<1>1. row \in Resource
  BY DEF Current, RequestsInv, DatabaseTypeOK
<1>2. row' \in Resource
  BY <1>1 DEF Update, Resource
<1> QED BY <1>2 DEF Update

\* The row changes only under its version, and only into another row.
LEMMA RowStays ==
    ASSUME RequestsInv, NEW r \in Request, BeginRetry(r) \/ Advance(r) \/ MarkFailed(r)
    PROVE  row = None <=> row' = None
<1>1. CASE ~Current(r)
  BY <1>1 DEF BeginRetry, Advance, MarkFailed
<1>2. CASE Current(r)
  <2>0. row # None /\ row \in Resource
    BY <1>2 DEF Current, RequestsInv, DatabaseTypeOK
  <2>1. CASE BeginRetry(r)
    <3>1. [row EXCEPT !.status = "PROVISIONING"] \in Resource
      BY <2>0 DEF Resource
    <3> QED BY <1>2, <2>0, <2>1, <3>1, NewRow DEF BeginRetry
  <2>2. CASE Advance(r)
    <3>1. project = "READY" /\ DatabaseInv
      BY <2>2 DEF Advance, RequestsInv, Inside, DatabaseTypeOK
    <3>2. mine'[r] # None
      <4>1. pc'[r] \notin Resting /\ DatabaseInv'
        BY <1>2, <2>2, <3>1, AdvanceInv DEF DatabaseInv, DatabaseTypeOK, Advance, Goto, Resting
      <4> QED BY <4>1 DEF DatabaseInv
    <3>3. mine' = [mine EXCEPT ![r] = row']
      BY <1>2, <2>2 DEF Advance, Update
    <3> QED BY <2>0, <3>2, <3>3 DEF RequestsInv, DatabaseTypeOK
  <2>3. CASE MarkFailed(r)
    <3> DEFINE failed == [row EXCEPT !.status = "FAILED"]
    <3>1. failed \in Resource
      BY <2>0 DEF Resource
    <3>2. row' = [failed EXCEPT !.version = @ + 1]
      BY <1>2, <2>3 DEF MarkFailed
    <3> HIDE DEF failed
    <3>3. row' \in Resource
      BY <3>1, <3>2 DEF Resource
    <3> QED BY <2>0, <3>3
  <2> QED BY <2>1, <2>2, <2>3
<1> QED BY <1>1, <1>2

LEMMA LockedEffect ==
    ASSUME RequestsInv, NEW r \in Request,
           BeginRetry(r) \/ Advance(r) \/ MarkFailed(r) \/ ReadCredential(r) \/ VerifyLogin(r) \/ Unlock(r)
    PROVE  RequestEffect(r)
<1> USE DEF RequestEffect, RequestsInv, DatabaseTypeOK, Inside, Goto, Answer, Unlocked, lockVars, clusterVars
<1>1. CASE BeginRetry(r)
  BY <1>1, RowStays DEF BeginRetry
<1>2. CASE Advance(r)
  BY <1>2, RowStays DEF Advance
<1>3. CASE MarkFailed(r)
  BY <1>3, RowStays DEF MarkFailed
<1>4. CASE ReadCredential(r)
  BY <1>4 DEF ReadCredential
<1>5. CASE VerifyLogin(r)
  BY <1>5 DEF VerifyLogin
<1>6. CASE Unlock(r)
  BY <1>6 DEF Unlock
<1> QED BY <1>1, <1>2, <1>3, <1>4, <1>5, <1>6

LEMMA ClusterEffect ==
    ASSUME RequestsInv, NEW r \in Request,
           EnsureSecret(r) \/ EnsureRole(r) \/ EnsureDatabase(r) \/ CommentOnDatabase(r) \/ EnsurePrivileges(r)
    PROVE  RequestEffect(r)
<1> USE DEF RequestEffect, RequestsInv, DatabaseTypeOK, Inside, Goto, Unlocked, lockVars, clusterVars
<1>1. CASE EnsureSecret(r)
  BY <1>1 DEF EnsureSecret, CreateCredential
<1>2. CASE EnsureRole(r)
  BY <1>2 DEF EnsureRole
<1>3. CASE EnsureDatabase(r)
  BY <1>3 DEF EnsureDatabase
<1>4. CASE CommentOnDatabase(r)
  BY <1>4 DEF CommentOnDatabase
<1>5. CASE EnsurePrivileges(r)
  BY <1>5 DEF EnsurePrivileges
<1> QED BY <1>1, <1>2, <1>3, <1>4, <1>5

LEMMA OutsideEffect ==
    ASSUME RequestsInv, NEW r \in Request,
           OperationLock(r) \/ OperationLockTimeout(r) \/ LockedReady(r) \/ ReadLatest(r)
           \/ ProvisioningError(r) \/ RequestCrash(r)
    PROVE  RequestEffect(r)
<1> USE DEF RequestEffect, RequestsInv, DatabaseTypeOK, Inside, Goto, Answer, Unlocked, lockVars, clusterVars
<1>1. CASE OperationLock(r) \/ OperationLockTimeout(r)
  BY <1>1 DEF OperationLock, OperationLockTimeout
<1>2. CASE LockedReady(r)
  BY <1>2 DEF LockedReady
<1>3. CASE ReadLatest(r)
  BY <1>3 DEF ReadLatest
<1>4. CASE ProvisioningError(r)
  BY <1>4 DEF ProvisioningError
<1>5. CASE RequestCrash(r)
  BY <1>5 DEF RequestCrash
<1> QED BY <1>1, <1>2, <1>3, <1>4, <1>5

LEMMA DatabaseEffect ==
    ASSUME RequestsInv, DatabaseNext PROVE \E r \in Request : RequestEffect(r)
<1> PICK r \in Request : EnsureIntent(r) \/ RequestStep(r) \/ ProvisioningError(r) \/ RequestCrash(r)
  BY DEF DatabaseNext
<1>1. RequestEffect(r)
  BY EnsureIntentEffect, LockedEffect, ClusterEffect, OutsideEffect DEF RequestStep
<1> QED BY <1>1

\* A request that comes too late: it is answered, or its failure is recorded.
LEMMA LateTypes ==
    ASSUME RequestsInv, project # "READY", DatabaseNext PROVE DatabaseTypeOK'
<1> PICK r \in Request : EnsureIntent(r) \/ RequestStep(r) \/ ProvisioningError(r) \/ RequestCrash(r)
  BY DEF DatabaseNext
<1>1. pc[r] \notin Inside /\ pc[r] # "new"
  BY DEF RequestsInv, DatabaseTypeOK, EnsureIntent, Accepts, RequestStep, OperationLock, Inside,
         OperationLockTimeout, LockedReady, BeginRetry, ReadCredential, EnsureSecret, EnsureRole,
         EnsureDatabase, CommentOnDatabase, EnsurePrivileges, VerifyLogin, Advance, Unlock,
         ReadLatest, MarkFailed, ProvisioningError, RequestCrash
<1>2. CASE OperationLock(r) \/ OperationLockTimeout(r) \/ LockedReady(r) \/ ReadLatest(r) \/ RequestCrash(r)
  BY <1>2 DEF RequestsInv, DatabaseTypeOK, OperationLock, OperationLockTimeout, LockedReady, ReadLatest,
              RequestCrash, Fault, Goto, Answer, Unlocked, lockVars, clusterVars
<1>3. CASE MarkFailed(r)
  <2>1. row' \in Resource \cup {None}
    <3>1. CASE Current(r)
      <4> DEFINE failed == [row EXCEPT !.status = "FAILED"]
      <4>1. row \in Resource
        BY <3>1 DEF Current, RequestsInv, DatabaseTypeOK
      <4>2. failed \in Resource
        BY <4>1 DEF Resource
      <4>3. row' = [failed EXCEPT !.version = @ + 1]
        BY <1>3, <3>1 DEF MarkFailed
      <4> HIDE DEF failed
      <4> QED BY <4>2, <4>3 DEF Resource
    <3> QED BY <1>3, <3>1 DEF MarkFailed, RequestsInv, DatabaseTypeOK
  <2> QED BY <1>3, <2>1 DEF RequestsInv, DatabaseTypeOK, MarkFailed, Goto, Answer, lockVars, clusterVars
<1> QED
  BY <1>1, <1>2, <1>3 DEF RequestStep, EnsureIntent, BeginRetry, ReadCredential, EnsureSecret, EnsureRole,
     EnsureDatabase, CommentOnDatabase, EnsurePrivileges, VerifyLogin, Advance, Unlock,
     ProvisioningError, Inside

LEMMA DatabaseNextInv == ASSUME RequestsInv, DatabaseNext PROVE RequestsInv'
<1> PICK r \in Request : RequestEffect(r)
  BY DatabaseEffect
<1>1. DatabaseTypeOK' /\ (project' = "READY" => DatabaseInv')
  BY LateTypes, DatabaseStepInv DEF RequestEffect, RequestsInv, DatabaseInv
<1>2. \A q \in Request : pc'[q] \in Inside => rowLock' = q
  BY DEF RequestEffect, RequestsInv, DatabaseTypeOK, Inside
<1>3. project' # "READY" => rowLock' = None
  BY DEF RequestEffect, RequestsInv
<1>4. row' = None => database' = "absent" /\ role' = None
  <2> SUFFICES ASSUME row' = None PROVE database' = "absent" /\ role' = None
    OBVIOUS
  <2>1. row = None /\ pc[r] \notin Inside
    BY DEF RequestEffect, RequestsInv, Resting, Inside
  <2> QED BY <2>1 DEF RequestEffect, RequestsInv, clusterVars
<1>5. project' = "READY" /\ row' = None => \A q \in Request : pc'[q] \in Resting
  BY DEF RequestEffect, RequestsInv, Resting
<1> QED BY <1>1, <1>2, <1>3, <1>4, <1>5 DEF RequestsInv

\* Everybody else leaves the requests alone; the cluster is touched only once
\* the project is being deleted, and then nothing is added to it.
Untouched == UNCHANGED <<row, pc, mine, rowLock>> /\ faults' \in 0..MaxFaults
ClusterShrinks ==
    /\ credential' \in {credential, None}
    /\ role' = role \/ role' = None \/ (role # None /\ role' \in Role)
    /\ database' \in {database, "absent"} /\ granted' \in {granted, FALSE}

LEMMA UntouchedInv ==
    ASSUME RequestsInv, Untouched, UNCHANGED <<project, credential, clusterVars>>
    PROVE  RequestsInv'
BY DEF RequestsInv, DatabaseInv, DatabaseTypeOK, Passed, Untouched, clusterVars

LEMMA ShrinksInv ==
    ASSUME RequestsInv, Untouched, ClusterShrinks, project # "READY", UNCHANGED project
    PROVE  RequestsInv'
<1>1. DatabaseTypeOK'
  BY DEF RequestsInv, DatabaseTypeOK, Untouched, ClusterShrinks, Password
<1> QED BY <1>1 DEF RequestsInv, Untouched, ClusterShrinks

LEMMA RequestedInv ==
    ASSUME RequestsInv, Untouched, UNCHANGED <<credential, clusterVars>>, rowLock = None,
           project' = "DELETING"
    PROVE  RequestsInv'
<1>1. DatabaseTypeOK'
  BY DEF RequestsInv, DatabaseTypeOK, Untouched, clusterVars
<1> QED BY <1>1 DEF RequestsInv, Untouched, clusterVars

LEMMA GoneInv ==
    ASSUME RequestsInv, UNCHANGED <<pc, mine, rowLock, credential, clusterVars, faults>>,
           rowLock = None, row' = None, project' = "GONE", database = "absent", role = None
    PROVE  RequestsInv'
<1>1. DatabaseTypeOK'
  BY DEF RequestsInv, DatabaseTypeOK, clusterVars
<1> QED BY <1>1 DEF RequestsInv, clusterVars

LEMMA RequestsInit == Init => RequestsInv
<1> SUFFICES ASSUME Init PROVE RequestsInv
  OBVIOUS
<1>1. DatabaseInv
  BY DatabaseInitInv DEF Init
<1> QED BY <1>1 DEF Init, DatabaseInit, RequestsInv, DatabaseInv, Inside, Resting

-----------------------------------------------------------------------------
(* The deletion *)

USE DEF Requested, WaitingForOperations, RouteDisabling, RouteIsRemoved, RuntimeCleanup,
    DatabaseQuiescing, DropDatabasePhase, DropRolePhase, SecretCleanup, MetadataDelete

Attempts == 0..(MaxAttempts + MaxFaults + 1)
Routes == [status : {"ABSENT", "PENDING", "APPLYING", "ACTIVE", "INACTIVE", "FAILED"},
           desired : {"ENABLED", "DISABLED"}, served : BOOLEAN]

JobTypes ==
    /\ state \in {"NONE", "PENDING", "CLAIMED", "FAILED"}
    /\ phase \in Requested..MetadataDelete
    /\ attempts \in Attempts
    /\ purge \in BOOLEAN /\ holder \in Worker \cup {None}
    /\ retries \in 0..MaxRetries

WorldTypes ==
    /\ advisory \in Request \cup Worker \cup {None}
    /\ operation \in BOOLEAN /\ route \in Routes
    /\ runtime \subseteq Kind /\ listed \in BOOLEAN /\ files \in BOOLEAN
    /\ settings \in {"idle", "write", "save", "done"} /\ envSecrets \in BOOLEAN
    /\ secretLock \in Worker \cup {Settings, None}

WorkerTypes ==
    /\ at \in [Worker -> Labels]
    /\ job \in [Worker -> [phase : Requested..MetadataDelete, attempts : Attempts]]
    /\ todo \in [Worker -> SUBSET Kind]
    /\ may \in [Worker -> BOOLEAN]

LEMMA Types == TypeOK <=> DatabaseTypeOK /\ JobTypes /\ WorldTypes /\ WorkerTypes
BY DEF TypeOK, JobTypes, WorldTypes, WorkerTypes, Attempts, Routes

Saving == settings \in {"write", "save"}

\* What has been removed, or has come to an end, when phase p begins.
Facts(p) ==
    /\ p > WaitingForOperations => ~operation /\ ~Saving
    /\ p > RouteIsRemoved => RouteRemoved
    /\ p > RuntimeCleanup => runtime = {} /\ ~files
    /\ p > DropDatabasePhase => database = "absent"
    /\ p > DropRolePhase => role = None
    /\ p > SecretCleanup => credential = None /\ ~envSecrets

\* None of this comes back while the project is being deleted.
Persists ==
    /\ RouteRemoved => RouteRemoved'
    /\ ~operation => ~operation' /\ runtime' \subseteq runtime /\ (files' => files)
    /\ ~Saving => ~Saving' /\ (envSecrets' => envSecrets)
    /\ database = "absent" => database' = "absent"
    /\ role = None => role' = None
    /\ credential = None => credential' = None

\* An attempt beyond the budget costs a fault.
Budget ==
    /\ state = "PENDING" => attempts < MaxAttempts
    /\ state = "CLAIMED" =>
        /\ 1 <= attempts /\ attempts <= MaxAttempts + faults
        /\ \/ holder \in Worker /\ at[holder] # "idle"
           \/ attempts < MaxAttempts + faults

TableInv ==
    /\ JobTypes
    /\ state # "NONE" <=> project = "DELETING"
    /\ project = "READY" => phase = Requested /\ attempts = 0
    /\ project = "GONE" => phase = MetadataDelete
    /\ holder # None => state = "CLAIMED"
    /\ project = "DELETING" => purge = (row # None)

\* A route that is out of service is not served, and the thread that saves the
\* settings has the lock of the secrets.
WorldInv ==
    /\ WorldTypes
    /\ RouteRemoved => ~route.served /\ route.desired = "DISABLED"
    /\ Saving => secretLock = Settings

\* The phase in which a worker can be at a place.
Where(label, p) ==
    /\ label \in {"probeSecrets", "probeLock"} => p = WaitingForOperations
    /\ label = "disable" => p = RouteDisabling
    /\ label = "applied" => p \in {RouteDisabling, RouteIsRemoved}
    /\ label \in {"observe", "remove", "removeFiles"} => p = RuntimeCleanup
    /\ label \in {"lockDatabase", "database"} => p \in DatabaseQuiescing..DropRolePhase
    /\ label \in {"lockSecrets", "secrets"} => p = SecretCleanup
    /\ label \in {"verifyRuntime", "verifyDatabase", "verifySecrets", "finalize"} => p = MetadataDelete
    /\ label = "advance" => p < MetadataDelete

\* What it has found out on the way.
Found(label, p) ==
    /\ label \in {"probeSecrets", "probeLock"} => ~operation
    /\ label = "probeLock" => ~Saving
    /\ label = "advance" => Facts(p + 1)

Place(w) ==
    /\ at[w] # "idle" => project # "READY"
    /\ job[w].phase <= phase
    /\ Where(at[w], job[w].phase) /\ Found(at[w], job[w].phase)
    /\ at[w] \notin {"idle", "failRetryable"} => job[w].attempts <= MaxAttempts
    /\ holder = w /\ at[w] # "idle" => job[w].attempts = attempts

PlaceInv == WorkerTypes /\ \A w \in Worker : Place(w)

PhaseInv == project # "READY" => Facts(phase)

Inv == RequestsInv /\ TableInv /\ Budget /\ WorldInv /\ PlaceInv /\ PhaseInv

LEMMA InitInv == Init => Inv
<1> SUFFICES ASSUME Init PROVE Inv
  OBVIOUS
<1>1. project = "READY" /\ row = None /\ faults = 0 /\ advisory = None
  BY DEF Init, DatabaseInit
<1>2. TableInv /\ Budget
  <2>1. JobTypes
    <3>1. state = "NONE" /\ phase = Requested /\ purge \in BOOLEAN /\ holder = None
      BY DEF Init
    <3>2. attempts \in Attempts /\ retries \in 0..MaxRetries
      BY DEF Init, Attempts
    <3> QED BY <3>1, <3>2 DEF JobTypes
  <2> QED BY <1>1, <2>1 DEF Init, TableInv, Budget
<1>3. WorldInv
  BY <1>1 DEF Init, WorldInv, WorldTypes, Routes, RouteRemoved, Saving
<1>4. PlaceInv
  <2>1. WorkerTypes
    <3>1. NoJob \in [phase : Requested..MetadataDelete, attempts : Attempts]
      BY DEF NoJob, Attempts
    <3> QED BY <3>1 DEF Init, WorkerTypes, Labels
  <2>2. \A w \in Worker : at[w] = "idle" /\ job[w].phase = Requested
    BY DEF Init, NoJob
  <2> QED BY <2>1, <2>2 DEF Init, PlaceInv, Place, Where, Found
<1> QED BY <1>1, <1>2, <1>3, <1>4, RequestsInit DEF Inv, PhaseInv

-----------------------------------------------------------------------------
(* Kinds of steps *)

\* The others do what they do; the job and the workers are left alone.
WorldStep ==
    /\ UNCHANGED <<project, jobVars, retries, workerVars>>
    /\ faults' \in faults..MaxFaults
    /\ project # "READY" => (row = None <=> row' = None)

LEMMA WorldStepInv ==
    ASSUME Inv, WorldStep, RequestsInv', WorldInv', project # "READY" => Persists
    PROVE  Inv'
<1>0. faults \in Nat /\ faults' \in Nat /\ faults' >= faults
  BY DEF Inv, WorldStep, RequestsInv, DatabaseTypeOK
<1>1. TableInv' /\ Budget'
  <2>1. TableInv'
    BY DEF Inv, WorldStep, TableInv, JobTypes, jobVars
  <2>2. Budget'
    BY <1>0 DEF Inv, WorldStep, TableInv, Budget, JobTypes, Attempts, jobVars, workerVars
  <2> QED BY <2>1, <2>2
<1>2. PlaceInv'
  BY DEF Inv, WorldStep, PlaceInv, Place, Where, Found, Facts, Persists, WorkerTypes, jobVars, workerVars
<1>3. PhaseInv'
  BY DEF Inv, WorldStep, PhaseInv, Facts, Persists, jobVars, TableInv, JobTypes
<1> QED BY <1>1, <1>2, <1>3 DEF Inv

LEMMA ProvisionInv == ASSUME Inv, Provision PROVE Inv'
<1> PICK r \in Request : RequestEffect(r)
  BY DatabaseEffect DEF Inv, Provision
<1>1. RequestsInv'
  BY DatabaseNextInv DEF Inv, Provision
<1>2. WorldStep
  <2>1. faults' \in faults..MaxFaults
    <3>1. faults' \in 0..MaxFaults /\ (faults' = faults \/ faults' = faults + 1)
      BY <1>1 DEF RequestsInv, DatabaseTypeOK, Provision, DatabaseNext, EnsureIntent, RequestStep, OperationLock,
         OperationLockTimeout, LockedReady, BeginRetry, ReadCredential, EnsureSecret, EnsureRole,
         EnsureDatabase, CommentOnDatabase, EnsurePrivileges, VerifyLogin, Advance, Unlock,
         ReadLatest, MarkFailed, ProvisioningError, RequestCrash, Fault
    <3> QED BY <3>1 DEF Inv, RequestsInv, DatabaseTypeOK
  <2> QED BY <2>1 DEF Provision, WorldStep, RequestEffect
<1>3. WorldInv'
  <2>1. advisory' \in Request \cup {advisory, None}
    BY AdvisoryType DEF Inv, RequestsInv, Provision
  <2> QED BY <2>1 DEF Inv, WorldInv, WorldTypes, Provision, othersVars, dataVars, RouteRemoved, Saving
<1>4. ASSUME project # "READY" PROVE Persists
  <2>1. UNCHANGED <<credential, clusterVars>>
    BY <1>4 DEF Inv, RequestsInv, DatabaseTypeOK, RequestEffect
  <2> QED BY <2>1 DEF Persists, Provision, othersVars, dataVars, clusterVars, RouteRemoved, Saving
<1> QED BY <1>1, <1>2, <1>3, <1>4, WorldStepInv

\* The steps of the others that leave the requests alone.
LEMMA OthersStepInv ==
    ASSUME Inv, UNCHANGED <<project, databaseVars, jobVars, retries, workerVars>>,
           UNCHANGED faults \/ Fault,
           WorldInv', project # "READY" => Persists
    PROVE  Inv'
<1>1. faults' \in faults..MaxFaults /\ faults' \in 0..MaxFaults
  BY DEF Fault, Inv, RequestsInv, DatabaseTypeOK
<1>2. WorldStep
  BY <1>1 DEF WorldStep, databaseVars
<1>3. RequestsInv'
  BY <1>1, UntouchedInv DEF Inv, Untouched, databaseVars, lockVars
<1> QED BY <1>2, <1>3, WorldStepInv

LEMMA OperationInv ==
    ASSUME Inv, OperationBegins \/ OperationBuilds \/ OperationEnds PROVE Inv'
<1> USE DEF Inv, WorldInv, WorldTypes, Persists, RouteRemoved, Saving, dataVars, databaseVars, lockVars,
            clusterVars, othersVars
<1>1. CASE OperationBegins
  BY <1>1, OthersStepInv DEF OperationBegins
<1>2. CASE OperationBuilds
  BY <1>2, OthersStepInv DEF OperationBuilds
<1>3. CASE OperationEnds
  BY <1>3, OthersStepInv DEF OperationEnds
<1> QED BY <1>1, <1>2, <1>3

\* A route that is removed stays so while the project is deleted, and is not served.
LEMMA RouteChanges ==
    ASSUME Inv, NEW new \in Routes, RouteChange(new), UNCHANGED faults \/ Fault,
           new.status \in {"ABSENT", "INACTIVE"} => ~new.served /\ new.desired = "DISABLED",
           project # "READY" /\ RouteRemoved => new.status \in {"ABSENT", "INACTIVE"}
    PROVE  Inv'
<1>1. route' = new /\ UNCHANGED <<project, databaseVars, jobVars, retries, operation, settings, dataVars,
                                  secretLock, workerVars>>
  BY DEF RouteChange
<1>2. WorldInv'
  BY <1>1 DEF Inv, WorldInv, WorldTypes, RouteRemoved, Saving, dataVars, databaseVars, lockVars
<1>3. project # "READY" => Persists
  BY <1>1 DEF Persists, RouteRemoved, Saving, dataVars, databaseVars, clusterVars
<1> QED BY <1>1, <1>2, <1>3, OthersStepInv

LEMMA RouteInv ==
    ASSUME Inv, RouteEnable \/ RouteClaim \/ RouteComplete \/ RouteFail PROVE Inv'
<1>1. route \in Routes /\ (RouteRemoved => ~route.served /\ route.desired = "DISABLED")
  BY DEF Inv, WorldInv, WorldTypes
<1>2. CASE RouteEnable
  BY <1>1, <1>2, RouteChanges DEF RouteEnable, Routes
<1>3. CASE RouteClaim
  BY <1>1, <1>3, RouteChanges DEF RouteClaim, RouteRemoved, Routes
<1>4. CASE RouteComplete
  <2> DEFINE new == [route EXCEPT !.status = IF route.desired = "ENABLED" THEN "ACTIVE" ELSE "INACTIVE",
                                  !.served = route.desired = "ENABLED"]
  <2>1. RouteChange(new) /\ UNCHANGED faults /\ ~RouteRemoved
    BY <1>4 DEF RouteComplete, RouteRemoved
  <2>2. new \in Routes /\ (new.status = "INACTIVE" => ~new.served /\ new.desired = "DISABLED")
    BY <1>1 DEF Routes
  <2>3. new.status # "ABSENT"
    BY <1>1 DEF Routes
  <2> HIDE DEF new
  <2> QED BY <2>1, <2>2, <2>3, RouteChanges
<1>5. CASE RouteFail
  BY <1>1, <1>5, RouteChanges DEF RouteFail, RouteRemoved, Routes
<1> QED BY <1>2, <1>3, <1>4, <1>5

LEMMA SettingsThreadInv ==
    ASSUME Inv, SettingsBegin \/ SettingsWrite \/ SettingsSave PROVE Inv'
<1> USE DEF Inv, WorldInv, WorldTypes, Persists, RouteRemoved, Saving, databaseVars, lockVars,
            clusterVars, SettingsStep
<1>1. CASE SettingsBegin
  BY <1>1, OthersStepInv DEF SettingsBegin
<1>2. CASE SettingsWrite
  BY <1>2, OthersStepInv DEF SettingsWrite
<1>3. CASE SettingsSave
  BY <1>3, OthersStepInv DEF SettingsSave
<1> QED BY <1>1, <1>2, <1>3

-----------------------------------------------------------------------------
(* The steps of a worker within its claim *)

Moves(w, label) ==
    /\ at[w] \notin {"idle", "failRetryable"} /\ label \in Labels \ {"idle"}
    /\ To(w, label)
    /\ may' \in [Worker -> BOOLEAN] /\ todo' \in [Worker -> SUBSET Kind]
    /\ UNCHANGED <<project, row, jobVars, retries, job>>
    /\ UNCHANGED faults \/ Fault

LEMMA MoveInv ==
    ASSUME Inv, NEW w \in Worker, NEW label, Moves(w, label),
           Where(label, job[w].phase), Found(label, job[w].phase)',
           RequestsInv', WorldInv', Persists
    PROVE  Inv'
<1>0. faults \in Nat /\ faults' \in Nat /\ faults' >= faults
  BY DEF Inv, RequestsInv, DatabaseTypeOK, Moves, Fault
<1>1. TableInv'
  BY DEF Inv, Moves, TableInv, JobTypes, jobVars
<1>2. \A u \in Worker : u # w => at'[u] = at[u]
  BY DEF Moves, To, Inv, PlaceInv, WorkerTypes
<1>3. at'[w] = label /\ label # "idle" /\ at[w] # "idle"
  BY DEF Moves, To, Inv, PlaceInv, WorkerTypes
<1>4. Budget'
  <2>1. UNCHANGED <<state, attempts, holder>> /\ (state = "CLAIMED" => attempts \in Nat)
    BY DEF Inv, Moves, TableInv, JobTypes, Attempts, jobVars
  <2>2. holder \in Worker /\ at[holder] # "idle" => at'[holder] # "idle"
    BY <1>2, <1>3
  <2>3. MaxAttempts \in Nat
    BY DeletionAssumption DEF DeletionAssumption
  <2> QED BY <1>0, <2>1, <2>2, <2>3 DEF Inv, Budget
<1>5. PlaceInv'
  <2>1. WorkerTypes'
    BY DEF Inv, PlaceInv, WorkerTypes, Moves, To
  <2>2. Place(w)'
    <3>1. Found(at[w], job[w].phase)' /\ Where(at[w], job[w].phase)'
      BY <1>3 DEF Moves, Where, Found
    <3> QED BY <1>3, <3>1 DEF Inv, PlaceInv, Place, Moves, jobVars
  <2>3. ASSUME NEW u \in Worker, u # w PROVE Place(u)'
    <3>1. Found(at[u], job[u].phase)'
      <4>1. Found(at[u], job[u].phase) /\ job[u].phase \in Requested..MetadataDelete
        BY DEF Inv, PlaceInv, Place, WorkerTypes
      <4> QED BY <1>2, <2>3, <4>1 DEF Moves, Found, Facts, Persists
    <3> QED BY <1>2, <2>3, <3>1 DEF Inv, PlaceInv, Place, Moves, jobVars, Where
  <2> QED BY <2>1, <2>2, <2>3 DEF PlaceInv
<1>6. PhaseInv'
  BY DEF Inv, Moves, PhaseInv, Facts, Persists, jobVars, TableInv, JobTypes
<1> QED BY <1>1, <1>4, <1>5, <1>6 DEF Inv

\* The step changes nothing but the place of the worker.
Walks(w, label) ==
    /\ Moves(w, label)
    /\ UNCHANGED <<databaseVars, othersVars, dataVars, secretLock, faults>>

LEMMA WalkInv ==
    ASSUME Inv, NEW w \in Worker, NEW label, Walks(w, label),
           Where(label, job[w].phase), Found(label, job[w].phase)
    PROVE  Inv'
<1> USE DEF Walks, databaseVars, othersVars, dataVars, lockVars, clusterVars
<1>1. RequestsInv'
  BY UntouchedInv DEF Inv, RequestsInv, DatabaseTypeOK, Untouched, Moves
<1>2. WorldInv'
  BY DEF Inv, WorldInv, WorldTypes, RouteRemoved, Saving
<1>3. Persists
  BY DEF Persists, RouteRemoved, Saving
<1>4. Found(label, job[w].phase)'
  BY DEF Found, Facts, RouteRemoved, Saving, Moves
<1> QED BY <1>1, <1>2, <1>3, <1>4, MoveInv

LEMMA QuietWalks ==
    ASSUME Inv, NEW w \in Worker, NEW label \in Labels \ {"idle"}, Quiet(w, label), Plain,
           at[w] \notin {"idle", "failRetryable"}
    PROVE  Walks(w, label)
BY DEF Inv, PlaceInv, WorkerTypes, Quiet, Plain, Walks, Moves, databaseVars

LEMMA AuthorizeInv == ASSUME Inv, NEW w \in Worker, Authorize(w) PROVE Inv'
<1>1. Walks(w, at[w])
  BY DEF Inv, PlaceInv, WorkerTypes, Authorize, Mutations, Walks, Moves, To, Labels, databaseVars
<1>2. Where(at[w], job[w].phase) /\ Found(at[w], job[w].phase)
  BY DEF Inv, PlaceInv, Place
<1> QED BY <1>1, <1>2, WalkInv

LEMMA RunInv == ASSUME Inv, NEW w \in Worker, Run(w) PROVE Inv'
<1>0. at[w] = "run" /\ Plain /\ job[w].phase \in Requested..MetadataDelete
  BY DEF Run, Inv, PlaceInv, WorkerTypes
<1>1. PICK label \in Labels \ {"idle"} : /\ Quiet(w, label)
                                         /\ Where(label, job[w].phase) /\ Found(label, job[w].phase)
  <2>1. CASE job[w].phase = Requested
    BY <1>0, <2>1 DEF Run, Labels, Where, Found, Facts
  <2>2. CASE job[w].phase = WaitingForOperations /\ Drained
    BY <1>0, <2>2 DEF Run, Labels, Where, Found, Drained
  <2>3. CASE job[w].phase = WaitingForOperations /\ ~Drained
    BY <1>0, <2>3 DEF Run, Labels, Where, Found
  <2>4. CASE job[w].phase = RouteDisabling
    BY <1>0, <2>4 DEF Run, Labels, Where, Found
  <2>5. CASE job[w].phase = RouteIsRemoved
    BY <1>0, <2>5 DEF Run, Labels, Where, Found
  <2>6. CASE job[w].phase = RuntimeCleanup
    BY <1>0, <2>6 DEF Run, Labels, Where, Found
  <2>7. CASE job[w].phase \in DatabaseQuiescing..DropRolePhase
    <3>1. Quiet(w, "lockDatabase")
      <4>1. CASE job[w].phase = DatabaseQuiescing
        BY <1>0, <4>1 DEF Run
      <4>2. CASE job[w].phase = DropDatabasePhase
        BY <1>0, <4>2 DEF Run
      <4>3. CASE job[w].phase = DropRolePhase
        BY <1>0, <4>3 DEF Run
      <4> QED BY <1>0, <2>7, <4>1, <4>2, <4>3
    <3>2. Where("lockDatabase", job[w].phase) /\ Found("lockDatabase", job[w].phase)
      BY <2>7 DEF Where, Found
    <3> QED BY <3>1, <3>2 DEF Labels
  <2>8. CASE job[w].phase = SecretCleanup
    BY <1>0, <2>8 DEF Run, Labels, Where, Found
  <2>9. CASE job[w].phase = MetadataDelete
    BY <1>0, <2>9 DEF Run, Labels, Where, Found
  <2> QED BY <1>0, <2>1, <2>2, <2>3, <2>4, <2>5, <2>6, <2>7, <2>8, <2>9
<1> QED BY <1>0, <1>1, QuietWalks, WalkInv

\* What is known at a place: its phase has begun.
LEMMA Known ==
    ASSUME Inv, NEW w \in Worker, at[w] # "idle"
    PROVE  /\ project # "READY" /\ rowLock = None
           /\ job[w].phase \in Requested..MetadataDelete /\ Facts(job[w].phase)
           /\ Where(at[w], job[w].phase) /\ Found(at[w], job[w].phase)
           /\ at[w] # "failRetryable" => job[w].attempts <= MaxAttempts
           /\ row = None => database = "absent" /\ role = None
BY DEF Inv, PlaceInv, Place, PhaseInv, Facts, WorkerTypes, TableInv, JobTypes, RequestsInv

LEMMA ProbesInv ==
    ASSUME Inv, NEW w \in Worker, ProbeSecrets(w) \/ ProbeLock(w) \/ DeletionIsApplied(w) PROVE Inv'
<1>0. at[w] \in {"probeSecrets", "probeLock", "applied"} /\ Plain
  BY DEF ProbeSecrets, ProbeLock, DeletionIsApplied
<1>1. PICK label \in Labels \ {"idle"} : /\ Quiet(w, label)
                                         /\ Where(label, job[w].phase) /\ Found(label, job[w].phase)
  <2>0. Facts(job[w].phase) /\ Where(at[w], job[w].phase) /\ Found(at[w], job[w].phase)
    BY <1>0, Known
  <2>1. CASE ProbeSecrets(w)
    <3>1. secretLock = None => ~Saving
      BY DEF Inv, WorldInv
    <3> QED BY <2>0, <2>1, <3>1 DEF ProbeSecrets, Labels, Where, Found, Facts
  <2>2. CASE ProbeLock(w)
    BY <2>0, <2>2 DEF ProbeLock, Labels, Where, Found, Facts
  <2>3. CASE DeletionIsApplied(w)
    BY <2>0, <2>3 DEF DeletionIsApplied, Labels, Where, Found, Facts
  <2> QED BY <2>1, <2>2, <2>3
<1> QED BY <1>0, <1>1, QuietWalks, WalkInv

LEMMA VerifyInv ==
    ASSUME Inv, NEW w \in Worker, VerifyRuntime(w) \/ VerifyDatabase(w) \/ VerifySecrets(w) PROVE Inv'
<1>0. at[w] \in {"verifyRuntime", "verifyDatabase", "verifySecrets"} /\ Plain
  BY DEF VerifyRuntime, VerifyDatabase, VerifySecrets
<1>1. job[w].phase = MetadataDelete
  BY <1>0, Known DEF Where
<1>2. PICK label \in Labels \ {"idle"} : /\ Quiet(w, label)
                                         /\ Where(label, job[w].phase) /\ Found(label, job[w].phase)
  <2>1. CASE VerifyRuntime(w)
    BY <1>1, <2>1 DEF VerifyRuntime, Labels, Where, Found
  <2>2. CASE VerifyDatabase(w)
    BY <1>1, <2>2 DEF VerifyDatabase, Labels, Where, Found
  <2>3. CASE VerifySecrets(w)
    BY <1>1, <2>3 DEF VerifySecrets, Labels, Where, Found
  <2> QED BY <2>1, <2>2, <2>3
<1> QED BY <1>0, <1>2, QuietWalks, WalkInv

LEMMA RecheckInv == ASSUME Inv, NEW w \in Worker, Recheck(w) PROVE Inv'
<1>0. at[w] = "remove" /\ Plain
  BY DEF Recheck
<1>1. job[w].phase = RuntimeCleanup
  BY <1>0, Known DEF Where
<1>2. PICK label \in {"removeFiles", "fail"} : Quiet(w, label)
  BY DEF Recheck
<1>3. label \in Labels \ {"idle"} /\ Where(label, job[w].phase) /\ Found(label, job[w].phase)
  BY <1>1, <1>2 DEF Labels, Where, Found
<1> QED BY <1>0, <1>2, <1>3, QuietWalks, WalkInv

\* The route is asked to go, or is on its way or gone.
LEMMA DisableInv == ASSUME Inv, NEW w \in Worker, DisableForDeletion(w) PROVE Inv'
<1>1. at[w] = "disable" /\ job[w].phase = RouteDisabling
  BY Known DEF DisableForDeletion, Where
<1>2. Moves(w, "applied")
  BY <1>1 DEF DisableForDeletion, Moves, Labels, Inv, PlaceInv, WorkerTypes, databaseVars
<1>3. Where("applied", job[w].phase) /\ Found("applied", job[w].phase)'
  BY <1>1 DEF Where, Found
<1>4. RequestsInv'
  BY UntouchedInv DEF Inv, RequestsInv, DatabaseTypeOK, Untouched, DisableForDeletion, databaseVars, lockVars
<1>5. route' \in Routes /\ (RouteRemoved => route' = route)
      /\ (RouteRemoved' => ~route'.served /\ route'.desired = "DISABLED")
  BY DEF DisableForDeletion, Inv, WorldInv, WorldTypes, Routes, RouteRemoved
<1>6. WorldInv' /\ Persists
  BY <1>5 DEF DisableForDeletion, Inv, WorldInv, WorldTypes, Persists, RouteRemoved, Saving, databaseVars,
              lockVars, clusterVars, dataVars
<1> QED BY <1>2, <1>3, <1>4, <1>6, MoveInv

-----------------------------------------------------------------------------
(* What the phases remove *)

\* The runtime: containers, networks, images and files.
LEMMA TeardownStepInv ==
    ASSUME Inv, NEW w \in Worker, NEW label \in {"remove", "removeFiles", "advance", "fail"},
           at[w] \in {"observe", "remove", "removeFiles"}, Quiet(w, label),
           runtime' \subseteq runtime, files' \in BOOLEAN, files' => files,
           todo' \in [Worker -> SUBSET Kind],
           UNCHANGED <<databaseVars, listed, envSecrets, secretLock>>,
           label = "advance" => runtime' = {} /\ ~files'
    PROVE  Inv'
<1>1. job[w].phase = RuntimeCleanup /\ Facts(job[w].phase) /\ project # "READY"
  BY Known DEF Where
<1>2. Moves(w, label)
  BY DEF Quiet, Moves, Labels, Inv, PlaceInv, WorkerTypes, databaseVars
<1>3. RequestsInv'
  BY UntouchedInv DEF Inv, RequestsInv, DatabaseTypeOK, Untouched, Quiet, databaseVars, lockVars
<1>4. WorldInv' /\ Persists
  <2>2. UNCHANGED <<operation, route, settings, envSecrets, database, role, credential>>
    BY DEF Quiet, othersVars, databaseVars, clusterVars
  <2>3. WorldInv'
    BY <2>2 DEF Inv, WorldInv, WorldTypes, RouteRemoved, Saving, databaseVars, lockVars
  <2>4. Persists
    BY <2>2 DEF Persists, RouteRemoved, Saving
  <2> QED BY <2>3, <2>4
<1>5. Where(label, job[w].phase) /\ Found(label, job[w].phase)'
  BY <1>1, <1>2, <1>4 DEF Where, Found, Facts, Persists, Moves
<1> QED BY <1>2, <1>3, <1>4, <1>5, MoveInv

LEMMA TeardownInv ==
    ASSUME Inv, NEW w \in Worker, Observe(w) \/ Remove(w) \/ RemoveFiles(w) PROVE Inv'
<1>0. todo \in [Worker -> SUBSET Kind] /\ runtime \subseteq Kind /\ files \in BOOLEAN
  BY DEF Inv, PlaceInv, WorkerTypes, WorldInv, WorldTypes
<1>1. CASE Observe(w)
  BY <1>0, <1>1, TeardownStepInv DEF Observe, dataVars
<1>2. CASE Remove(w)
  <2> DEFINE k == FirstOf(todo[w])
  <2>1. CASE k \in runtime
    <3>1. todo' \in [Worker -> SUBSET Kind] /\ runtime' \subseteq runtime
      BY <1>0, <1>2, <2>1 DEF Remove
    <3>2. at[w] = "remove" /\ Quiet(w, "remove")
          /\ UNCHANGED <<databaseVars, listed, files, envSecrets, secretLock>>
      BY <1>2, <2>1 DEF Remove
    <3>3. files' \in BOOLEAN /\ (files' => files)
      BY <1>0, <3>2
    <3> QED BY <3>1, <3>2, <3>3, TeardownStepInv
  <2>2. CASE k \notin runtime
    <3>1. /\ at[w] = "remove" /\ Quiet(w, "fail") /\ UNCHANGED <<runtime, todo>>
          /\ UNCHANGED <<databaseVars, listed, files, envSecrets, secretLock>>
      BY <1>2, <2>2 DEF Remove
    <3> QED BY <1>0, <3>1, TeardownStepInv
  <2> QED BY <2>1, <2>2
<1>3. CASE RemoveFiles(w)
  <2>1. /\ at[w] = "removeFiles" /\ files' \in BOOLEAN /\ ~files'
        /\ UNCHANGED <<databaseVars, runtime, listed, envSecrets, secretLock, todo>>
    BY <1>3 DEF RemoveFiles
  <2>2. CASE runtime = {}
    <3>1. Quiet(w, "advance")
      BY <1>3, <2>2 DEF RemoveFiles
    <3> QED BY <1>0, <2>1, <2>2, <3>1, TeardownStepInv
  <2>3. CASE runtime # {}
    <3>1. Quiet(w, "fail")
      BY <1>3, <2>3 DEF RemoveFiles
    <3> QED BY <1>0, <2>1, <3>1, TeardownStepInv
  <2> QED BY <2>2, <2>3
<1> QED BY <1>1, <1>2, <1>3

\* The cluster and the secret files.
LEMMA CleanStepInv ==
    ASSUME Inv, NEW w \in Worker,
           NEW label \in {"database", "secrets", "advance", "fail", "failRetryable"},
           at[w] \in {"lockDatabase", "database", "lockSecrets", "secrets"}, Quiet(w, label),
           Untouched, ClusterShrinks, UNCHANGED <<runtime, listed, files, todo>>,
           advisory' \in {advisory, None, w}, secretLock' \in {secretLock, None, w},
           envSecrets' \in BOOLEAN, envSecrets' => envSecrets,
           Where(label, job[w].phase), label = "advance" => Facts(job[w].phase + 1)'
    PROVE  Inv'
<1>1. Facts(job[w].phase) /\ project # "READY" /\ job[w].phase \in DatabaseQuiescing..SecretCleanup
  BY Known DEF Where
<1>2. Moves(w, label)
  BY DEF Quiet, Moves, Labels, Inv, PlaceInv, WorkerTypes, Untouched
<1>3. RequestsInv'
  BY <1>1, ShrinksInv DEF Inv, Quiet
<1>4. ~Saving /\ UNCHANGED <<operation, route, settings>>
  BY <1>1 DEF Facts, Quiet, othersVars
<1>5. WorldInv'
  BY <1>4 DEF Inv, WorldInv, WorldTypes, RouteRemoved, Saving
<1>6. Persists
  <2>1. files' => files
    OBVIOUS
  <2> QED BY <1>4, <2>1 DEF Persists, ClusterShrinks, RouteRemoved, Saving
<1>7. Found(label, job[w].phase)'
  BY <1>2 DEF Found, Moves
<1> QED BY <1>2, <1>3, <1>5, <1>6, <1>7, MoveInv

LEMMA LockDatabaseInv == ASSUME Inv, NEW w \in Worker, LockDatabase(w) PROVE Inv'
<1>1. at[w] = "lockDatabase" /\ faults \in 0..MaxFaults /\ envSecrets \in BOOLEAN
  BY DEF LockDatabase, Inv, RequestsInv, DatabaseTypeOK, WorldInv, WorldTypes
<1>2. /\ job[w].phase \in DatabaseQuiescing..DropRolePhase /\ Facts(job[w].phase)
      /\ row = None => database = "absent" /\ role = None
  BY <1>1, Known DEF Where
<1>3. /\ UNCHANGED <<row, credential, clusterVars, rowLock, pc, mine, dataVars, secretLock, todo>>
      /\ UNCHANGED <<operation, route, settings, job, faults>>
      /\ advisory' \in {advisory, w}
      /\ \/ Quiet(w, "fail") \/ Quiet(w, "failRetryable") \/ Quiet(w, "database")
         \/ row = None /\ Quiet(w, "advance")
  BY DEF LockDatabase, Quiet, othersVars
<1>4. /\ Untouched /\ ClusterShrinks /\ UNCHANGED <<runtime, listed, files, todo>>
      /\ envSecrets' \in BOOLEAN /\ (envSecrets' => envSecrets)
  BY <1>1, <1>3 DEF Untouched, ClusterShrinks, clusterVars, dataVars
<1>5. row = None => Facts(job[w].phase + 1)'
  BY <1>2, <1>3 DEF Facts, RouteRemoved, Saving, clusterVars, dataVars
<1>6. Where("fail", job[w].phase) /\ Where("failRetryable", job[w].phase)
      /\ Where("database", job[w].phase) /\ Where("advance", job[w].phase)
  BY <1>2 DEF Where
<1> QED BY <1>1, <1>3, <1>4, <1>5, <1>6, CleanStepInv

LEMMA DatabasePhaseInv == ASSUME Inv, NEW w \in Worker, DatabasePhase(w) PROVE Inv'
<1>1. at[w] = "database" /\ faults \in 0..MaxFaults /\ envSecrets \in BOOLEAN
      /\ role \in Role \cup {None}
  BY DEF DatabasePhase, Inv, RequestsInv, DatabaseTypeOK, WorldInv, WorldTypes
<1>2. job[w].phase \in DatabaseQuiescing..DropRolePhase /\ Facts(job[w].phase)
  BY <1>1, Known DEF Where
<1>3. /\ UNCHANGED <<row, credential, rowLock, pc, mine, dataVars, secretLock, todo>>
      /\ advisory' = None
  BY DEF DatabasePhase
<1>4. Where("fail", job[w].phase) /\ Where("advance", job[w].phase)
  BY <1>2 DEF Where
<1>5. UNCHANGED <<runtime, listed, files, todo, envSecrets, secretLock, credential>>
  BY <1>3 DEF dataVars
<1>6. CASE Quiet(w, "fail") /\ UNCHANGED clusterVars
  <2>1. Untouched /\ ClusterShrinks
    BY <1>1, <1>3, <1>6 DEF Untouched, ClusterShrinks, clusterVars, Quiet
  <2> QED BY <1>1, <1>3, <1>4, <1>5, <1>6, <2>1, CleanStepInv
<1>7. ASSUME Quiet(w, "advance"), ClusterShrinks,
             job[w].phase = DropDatabasePhase => database' = "absent",
             job[w].phase = DropRolePhase => role' = None
      PROVE  Inv'
  <2>1. UNCHANGED <<operation, route, settings, job, faults>>
    BY <1>7 DEF Quiet, othersVars
  <2>2. Facts(job[w].phase + 1)'
    BY <1>2, <1>5, <1>7, <2>1 DEF Facts, RouteRemoved, Saving, ClusterShrinks
  <2>3. Untouched
    BY <1>1, <1>3, <2>1 DEF Untouched
  <2> QED BY <1>1, <1>3, <1>4, <1>5, <1>7, <2>2, <2>3, CleanStepInv
<1>8. CASE job[w].phase = DatabaseQuiescing /\ Quiet(w, "advance") /\ Quiesce
  <2>1. role # None => [role EXCEPT !.login = FALSE] \in Role
    BY <1>1 DEF Role
  <2>2. ClusterShrinks
    BY <1>5, <1>8, <2>1 DEF ClusterShrinks, Quiesce
  <2> QED BY <1>7, <1>8, <2>2
<1>9. CASE job[w].phase = DropDatabasePhase /\ Quiet(w, "advance") /\ DropDatabase
  <2>1. ClusterShrinks
    BY <1>5, <1>9 DEF ClusterShrinks, DropDatabase
  <2> QED BY <1>7, <1>9, <2>1 DEF DropDatabase
<1>10. CASE job[w].phase = DropRolePhase /\ Quiet(w, "advance") /\ DropRole
  <2>1. ClusterShrinks
    BY <1>5, <1>10 DEF ClusterShrinks, DropRole
  <2> QED BY <1>7, <1>10, <2>1 DEF DropRole
<1>11. \/ Quiet(w, "fail") /\ UNCHANGED clusterVars
       \/ job[w].phase = DatabaseQuiescing /\ Quiet(w, "advance") /\ Quiesce
       \/ job[w].phase = DropDatabasePhase /\ Quiet(w, "advance") /\ DropDatabase
       \/ job[w].phase = DropRolePhase /\ Quiet(w, "advance") /\ DropRole
  <2>1. CASE job[w].phase = DatabaseQuiescing
    BY <2>1 DEF DatabasePhase
  <2>2. CASE job[w].phase = DropDatabasePhase
    BY <2>2 DEF DatabasePhase
  <2>3. CASE job[w].phase = DropRolePhase
    BY <2>3 DEF DatabasePhase
  <2> QED BY <1>2, <2>1, <2>2, <2>3
<1> QED BY <1>6, <1>8, <1>9, <1>10, <1>11

LEMMA SecretsInv == ASSUME Inv, NEW w \in Worker, LockSecrets(w) \/ DeleteSecrets(w) PROVE Inv'
<1>1. /\ at[w] \in {"lockSecrets", "secrets"} /\ faults \in 0..MaxFaults
      /\ envSecrets \in BOOLEAN /\ credential \in Password
  BY DEF LockSecrets, DeleteSecrets, Inv, RequestsInv, DatabaseTypeOK, WorldInv, WorldTypes
<1>2. job[w].phase = SecretCleanup /\ Facts(job[w].phase)
  BY <1>1, Known DEF Where
<1>3. CASE LockSecrets(w)
  <2>1. /\ Quiet(w, "secrets") \/ Quiet(w, "failRetryable")
        /\ secretLock' \in {secretLock, w} /\ UNCHANGED <<databaseVars, dataVars, todo>>
    BY <1>3 DEF LockSecrets
  <2>2. Untouched /\ ClusterShrinks
    BY <1>1, <2>1 DEF Untouched, ClusterShrinks, databaseVars, lockVars, clusterVars, Quiet
  <2>3. /\ UNCHANGED <<runtime, listed, files, todo, envSecrets, advisory>>
        /\ envSecrets' \in BOOLEAN
    BY <1>1, <2>1 DEF databaseVars, lockVars, dataVars
  <2>4. Where("secrets", job[w].phase) /\ Where("failRetryable", job[w].phase)
    BY <1>2 DEF Where
  <2> QED BY <1>1, <2>1, <2>2, <2>3, <2>4, CleanStepInv
<1>4. CASE DeleteSecrets(w)
  <2>1. /\ Quiet(w, "advance") /\ envSecrets' = FALSE /\ credential' = None /\ secretLock' = None
        /\ UNCHANGED <<row, clusterVars, lockVars, pc, mine, runtime, listed, files, todo>>
    BY <1>4 DEF DeleteSecrets
  <2>2. Untouched /\ ClusterShrinks /\ advisory' = advisory
    BY <1>1, <2>1 DEF Untouched, ClusterShrinks, lockVars, clusterVars, Quiet
  <2>3. Facts(job[w].phase + 1)'
    BY <1>2, <2>1 DEF Facts, RouteRemoved, Saving, Quiet, othersVars, clusterVars
  <2>4. Where("advance", job[w].phase)
    BY <1>2 DEF Where
  <2>5. envSecrets' \in BOOLEAN /\ (envSecrets' => envSecrets)
    BY <2>1
  <2> QED BY <1>1, <2>1, <2>2, <2>3, <2>4, <2>5, CleanStepInv
<1> QED BY <1>3, <1>4

-----------------------------------------------------------------------------
(* The claim *)

\* A worker that leaves releases its locks and nothing else.
LEMMA LeavePlaces ==
    ASSUME Inv, NEW w \in Worker, at[w] # "idle", Leave(w), UNCHANGED phase,
           holder' = None \/ UNCHANGED <<holder, attempts>>
    PROVE  /\ PlaceInv' /\ WorldInv' /\ PhaseInv' /\ project # "READY"
           /\ at'[w] = "idle" /\ \A u \in Worker : u # w => at'[u] = at[u]
<1>0. project # "READY" /\ job[w].phase <= phase
  BY DEF Inv, PlaceInv, Place
<1>1. /\ at'[w] = "idle" /\ job'[w].phase = Requested
      /\ \A u \in Worker : u # w => at'[u] = at[u] /\ job'[u] = job[u]
  BY DEF Leave, To, NoJob, Inv, PlaceInv, WorkerTypes
<1>2. WorkerTypes'
  <2>1. NoJob \in [phase : Requested..MetadataDelete, attempts : Attempts]
    BY DEF NoJob, Attempts
  <2>2. "idle" \in Labels
    BY DEF Labels
  <2> QED BY <2>1, <2>2 DEF Leave, To, Inv, PlaceInv, WorkerTypes
<1>3. UNCHANGED <<project, row, credential, role, database, operation, route, settings, runtime, listed,
                  files, envSecrets>>
  BY DEF Leave, clusterVars, othersVars, dataVars
<1>4. secretLock' \in Worker \cup {Settings, None} /\ advisory' \in Request \cup Worker \cup {None}
      /\ (secretLock = Settings => secretLock' = Settings)
  BY DEF Leave, Inv, WorldInv, WorldTypes
<1>5. WorldInv'
  BY <1>3, <1>4 DEF Inv, WorldInv, WorldTypes, RouteRemoved, Saving
<1>6. PhaseInv'
  BY <1>3 DEF Inv, PhaseInv, Facts, RouteRemoved, Saving
<1>7. Place(w)'
  <2>1. 1 <= phase
    BY DEF Inv, TableInv, JobTypes
  <2> QED BY <1>1, <2>1 DEF Place, Where, Found
<1>8. ASSUME NEW u \in Worker, u # w PROVE Place(u)'
  <2>1. Found(at[u], job[u].phase)'
    BY <1>1, <1>3, <1>8 DEF Inv, PlaceInv, Place, Found, Facts, RouteRemoved, Saving
  <2> QED BY <1>1, <1>3, <1>8, <2>1 DEF Inv, PlaceInv, Place, Where
<1> QED BY <1>0, <1>1, <1>2, <1>5, <1>6, <1>7, <1>8 DEF PlaceInv

LEMMA LeaveRequests ==
    ASSUME Inv, NEW w \in Worker, Leave(w), UNCHANGED faults \/ Fault PROVE RequestsInv'
<1>1. Untouched
  BY DEF Leave, Untouched, Fault, Inv, RequestsInv, DatabaseTypeOK
<1> QED BY <1>1, UntouchedInv DEF Leave, Inv

\* It gives up: it has lost the claim, or its crash is a fault.
LEMMA GiveUpInv ==
    ASSUME Inv, NEW w \in Worker, at[w] # "idle", Leave(w), UNCHANGED <<jobVars, retries>>,
           Fault \/ (UNCHANGED faults /\ holder # w)
    PROVE  Inv'
<1>1. RequestsInv'
  BY LeaveRequests
<1>2. /\ PlaceInv' /\ WorldInv' /\ PhaseInv'
      /\ at'[w] = "idle" /\ \A u \in Worker : u # w => at'[u] = at[u]
  BY LeavePlaces DEF jobVars
<1>3. TableInv'
  BY DEF Inv, TableInv, JobTypes, jobVars, Leave
<1>4. faults \in Nat /\ (faults' = faults + 1 \/ (faults' = faults /\ holder # w))
  BY DEF Inv, RequestsInv, DatabaseTypeOK, Fault
<1>5. Budget'
  BY <1>2, <1>4 DEF Inv, TableInv, JobTypes, Attempts, Budget, jobVars
<1> QED BY <1>1, <1>2, <1>3, <1>5 DEF Inv

\* Under the claim the authorization is passed: the project is being deleted,
\* and its route is gone from the phase on that removes what it leads to.
LEMMA OnlyTheLostAreRejected ==
    ASSUME Inv, NEW w \in Worker, Rejected(w)
    PROVE  ~Holds(w) /\ at[w] # "idle" /\ Leave(w) /\ UNCHANGED <<faults, jobVars, retries>>
<1>1. at[w] # "idle"
  BY DEF Rejected, Mutations
<1>2. Facts(job[w].phase) /\ Where(at[w], job[w].phase)
  BY <1>1, Known
<1>3. at[w] \in Mutations \ {"disable"} => RouteRemoved
  BY <1>2 DEF Facts, Where, Mutations
<1>4. Holds(w) => project = "DELETING"
  BY DEF Holds, Inv, TableInv
<1>5. ~Holds(w)
  BY <1>3, <1>4 DEF Rejected, Authorized
<1> QED BY <1>1, <1>5 DEF Rejected

LEMMA RejectedInv == ASSUME Inv, NEW w \in Worker, Rejected(w) PROVE Inv'
<1>1. holder # w
  BY OnlyTheLostAreRejected DEF Holds, Inv, TableInv
<1> QED BY <1>1, OnlyTheLostAreRejected, GiveUpInv

LEMMA CrashInv == ASSUME Inv, NEW w \in Worker, WorkerCrash(w) PROVE Inv'
BY GiveUpInv DEF WorkerCrash

\* The holder ends its claim.
LEMMA EndClaimInv ==
    ASSUME Inv, NEW w \in Worker, at[w] # "idle", Holds(w), Leave(w), holder' = None,
           UNCHANGED <<faults, phase, purge, retries>>,
           state' \in {"PENDING", "FAILED"}, attempts' \in Attempts,
           state' = "PENDING" => attempts' < MaxAttempts
    PROVE  Inv'
<1>1. RequestsInv'
  BY LeaveRequests
<1>2. PlaceInv' /\ WorldInv' /\ PhaseInv'
  BY LeavePlaces
<1>3. TableInv' /\ Budget'
  BY DEF Inv, TableInv, JobTypes, Budget, Leave, Holds
<1> QED BY <1>1, <1>2, <1>3 DEF Inv

LEMMA EndsInv ==
    ASSUME Inv, NEW w \in Worker, DeferDeletion(w) \/ HandleFailure(w) PROVE Inv'
<1>1. at[w] \in {"defer", "fail", "failRetryable"} /\ Holds(w) /\ Leave(w)
  BY DEF DeferDeletion, HandleFailure
<1>2. job[w].attempts = attempts /\ (at[w] = "defer" => attempts <= MaxAttempts)
      /\ 1 <= attempts /\ attempts \in Attempts
  BY <1>1 DEF Inv, PlaceInv, Place, Holds, Budget, TableInv, JobTypes
<1>3. CASE DeferDeletion(w)
  <2>1. attempts' \in Attempts /\ attempts' < MaxAttempts
    BY <1>2, <1>3 DEF DeferDeletion, Attempts
  <2> QED BY <1>1, <1>3, <2>1, EndClaimInv DEF DeferDeletion
<1>4. CASE HandleFailure(w)
  <2>1. state' = "PENDING" => attempts' < MaxAttempts
    BY <1>2, <1>4 DEF HandleFailure, MayReschedule
  <2> QED BY <1>1, <1>2, <1>4, <2>1, EndClaimInv DEF HandleFailure
<1> QED BY <1>3, <1>4

LEMMA CommandFailsInv == ASSUME Inv, NEW w \in Worker, CommandFails(w) PROVE Inv'
<1>1. PICK label \in {"fail", "failRetryable"} : To(w, label)
  BY DEF CommandFails
<1>2. at[w] \notin {"idle", "failRetryable"}
  BY DEF CommandFails
<1>3. Moves(w, label)
  BY <1>1, <1>2 DEF CommandFails, Moves, Labels, Inv, PlaceInv, WorkerTypes, dataVars
<1>4. Where(label, job[w].phase) /\ Found(label, job[w].phase)'
  BY <1>1 DEF Where, Found
<1>5. RequestsInv'
  <2>1. Untouched
    BY DEF CommandFails, Untouched, Fault, Inv, RequestsInv, DatabaseTypeOK
  <2> QED BY <2>1, UntouchedInv DEF CommandFails, Inv
<1>6. UNCHANGED <<credential, role, database, operation, route, settings, runtime, listed, files, envSecrets>>
  BY DEF CommandFails, clusterVars, othersVars, dataVars
<1>7. secretLock' \in Worker \cup {Settings, None} /\ advisory' \in Request \cup Worker \cup {None}
      /\ (secretLock = Settings => secretLock' = Settings)
  BY DEF CommandFails, Inv, WorldInv, WorldTypes
<1>8. WorldInv' /\ Persists
  BY <1>6, <1>7 DEF Inv, WorldInv, WorldTypes, Persists, RouteRemoved, Saving
<1> QED BY <1>3, <1>4, <1>5, <1>8, MoveInv

\* The tables of the job change, and at most the place of w.
JobStep(w) ==
    /\ \A u \in Worker : u # w => at'[u] = at[u] /\ job'[u] = job[u]
    /\ UNCHANGED <<databaseVars, faults, othersVars, dataVars, secretLock>>

LEMMA JobStepInv ==
    ASSUME Inv, NEW w \in Worker, JobStep(w), UNCHANGED project, WorkerTypes', TableInv', Budget',
           phase \in 1..phase', holder' \in {holder, None, w}, holder' = holder => attempts' = attempts,
           PhaseInv', Place(w)'
    PROVE  Inv'
<1> USE DEF JobStep, databaseVars, lockVars, clusterVars, othersVars, dataVars
<1>1. RequestsInv'
  BY UntouchedInv DEF Inv, RequestsInv, DatabaseTypeOK, Untouched
<1>2. WorldInv'
  BY DEF Inv, WorldInv, WorldTypes, RouteRemoved, Saving
<1>3. ASSUME NEW u \in Worker, u # w PROVE Place(u)'
  <2>1. at'[u] = at[u] /\ job'[u] = job[u] /\ job[u].phase \in 1..phase'
    BY <1>3 DEF Inv, PlaceInv, Place, WorkerTypes, TableInv, JobTypes
  <2>2. Found(at[u], job[u].phase)'
    BY <1>3, <2>1 DEF Inv, PlaceInv, Place, Found, Facts, RouteRemoved, Saving
  <2> QED BY <1>3, <2>1, <2>2 DEF Inv, PlaceInv, Place, Where
<1> QED BY <1>1, <1>2, <1>3 DEF Inv, PlaceInv

LEMMA ClaimInv == ASSUME Inv, NEW w \in Worker, ClaimNextDeletion(w) PROVE Inv'
<1>0. /\ attempts \in Attempts /\ faults \in 0..MaxFaults /\ phase \in Requested..MetadataDelete
      /\ project = "DELETING" /\ holder # w
  BY DEF Inv, TableInv, JobTypes, RequestsInv, DatabaseTypeOK, ClaimNextDeletion, Claimable
<1>1. attempts' = attempts + 1 /\ attempts' <= MaxAttempts + faults /\ attempts' \in Attempts
  BY <1>0 DEF ClaimNextDeletion, NextAttempt, Claimable, Attempts, Inv, Budget
<1> DEFINE label == IF attempts' > MaxAttempts THEN "failRetryable" ELSE "run"
<1>2. /\ at' = [at EXCEPT ![w] = label]
      /\ job' = [job EXCEPT ![w] = [phase |-> phase, attempts |-> attempts']]
      /\ state' = "CLAIMED" /\ holder' = w
      /\ UNCHANGED <<project, databaseVars, faults, phase, purge, retries, othersVars, dataVars,
                     secretLock, todo, may>>
  BY DEF ClaimNextDeletion, To
<1>3. label \in {"run", "failRetryable"} /\ (label = "run" => attempts' <= MaxAttempts)
  BY <1>0, <1>1 DEF Attempts
<1> HIDE DEF label
<1>4. at \in [Worker -> Labels] /\ job \in [Worker -> [phase : Requested..MetadataDelete, attempts : Attempts]]
  BY DEF Inv, PlaceInv, WorkerTypes
<1>5. WorkerTypes'
  <2>1. [phase |-> phase, attempts |-> attempts'] \in [phase : Requested..MetadataDelete, attempts : Attempts]
    BY <1>0, <1>1
  <2>2. label \in Labels
    BY <1>3 DEF Labels
  <2> QED BY <1>2, <2>1, <2>2 DEF Inv, PlaceInv, WorkerTypes
<1>6. at'[w] = label /\ job'[w] = [phase |-> phase, attempts |-> attempts']
  BY <1>2, <1>4
<1>7. JobStep(w)
  BY <1>2, <1>4 DEF JobStep
<1>8. TableInv'
  BY <1>0, <1>1, <1>2 DEF Inv, TableInv, JobTypes, databaseVars
<1>9. Budget'
  BY <1>0, <1>1, <1>2, <1>3, <1>6 DEF Budget, Inv, TableInv, JobTypes, Attempts
<1>10. PhaseInv'
  BY <1>2 DEF Inv, PhaseInv, Facts, RouteRemoved, Saving, databaseVars, clusterVars, othersVars, dataVars
<1>11. Place(w)'
  BY <1>0, <1>1, <1>2, <1>3, <1>6 DEF Place, Where, Found
<1> QED BY <1>0, <1>2, <1>5, <1>7, <1>8, <1>9, <1>10, <1>11, JobStepInv

LEMMA AdvanceDeletionInv == ASSUME Inv, NEW w \in Worker, AdvanceDeletion(w) PROVE Inv'
<1>0. /\ at[w] = "advance" /\ Holds(w) /\ phase = job[w].phase /\ phase' = phase + 1
      /\ at' = [at EXCEPT ![w] = "run"] /\ job' = [job EXCEPT ![w].phase = phase']
      /\ UNCHANGED <<project, databaseVars, faults, state, attempts, purge, holder, retries,
                     othersVars, dataVars, secretLock, todo, may>>
  BY DEF AdvanceDeletion, To
<1>1. /\ phase \in 1..9 /\ Facts(phase + 1) /\ job[w].attempts <= MaxAttempts /\ project = "DELETING"
      /\ job[w].attempts = attempts
  BY <1>0 DEF Inv, TableInv, JobTypes, PlaceInv, Place, Where, Found, Holds
<1>2. job' \in [Worker -> [phase : Requested..MetadataDelete, attempts : Attempts]]
      /\ job'[w].phase = phase' /\ job'[w].attempts = job[w].attempts
  BY <1>0, <1>1 DEF Inv, PlaceInv, WorkerTypes
<1>3. WorkerTypes' /\ at'[w] = "run"
  BY <1>0, <1>2 DEF Inv, PlaceInv, WorkerTypes, Labels
<1>4. JobStep(w)
  BY <1>0 DEF JobStep, Inv, PlaceInv, WorkerTypes
<1>5. TableInv'
  BY <1>0, <1>1 DEF Inv, TableInv, JobTypes, databaseVars
<1>6. Budget'
  BY <1>0, <1>3, <1>4 DEF Inv, Budget, JobStep
<1>7. PhaseInv'
  BY <1>0, <1>1 DEF PhaseInv, Facts, RouteRemoved, Saving, databaseVars, clusterVars, othersVars, dataVars
<1>8. Place(w)'
  BY <1>0, <1>1, <1>2, <1>3 DEF Place, Where, Found
<1> QED BY <1>0, <1>1, <1>3, <1>4, <1>5, <1>6, <1>7, <1>8, JobStepInv

\* The rows go last, when nothing is left that they name.
LEMMA FinalizeInv == ASSUME Inv, NEW w \in Worker, FinalizeDeletion(w) PROVE Inv'
<1>0. /\ at[w] = "finalize" /\ rowLock = None /\ phase = MetadataDelete
      /\ project = "DELETING" /\ RouteRemoved
  BY DEF FinalizeDeletion, Authorized
<1>1. Facts(MetadataDelete)
  BY <1>0 DEF Inv, PhaseInv
<1>2. RequestsInv'
  BY <1>0, <1>1, GoneInv DEF Inv, FinalizeDeletion, Facts, lockVars, clusterVars
<1>3. WorldInv'
  BY <1>0 DEF FinalizeDeletion, Inv, WorldInv, WorldTypes, Routes, RouteRemoved, Saving, lockVars
<1>4. TableInv' /\ Budget'
  BY <1>0 DEF FinalizeDeletion, Inv, TableInv, JobTypes, Budget
<1>5. PhaseInv'
  BY <1>0, <1>1 DEF FinalizeDeletion, PhaseInv, Facts, RouteRemoved, Saving, clusterVars
<1>6. PlaceInv'
  <2>1. WorkerTypes'
    <3>1. NoJob \in [phase : Requested..MetadataDelete, attempts : Attempts]
      BY DEF NoJob, Attempts
    <3>2. "idle" \in Labels
      BY DEF Labels
    <3> QED BY <3>1, <3>2 DEF FinalizeDeletion, To, Inv, PlaceInv, WorkerTypes
  <2>2. /\ at'[w] = "idle" /\ job'[w].phase = Requested
        /\ \A u \in Worker : u # w => at'[u] = at[u] /\ job'[u] = job[u]
    BY DEF FinalizeDeletion, To, NoJob, Inv, PlaceInv, WorkerTypes
  <2>3. Place(w)'
    BY <1>0, <2>2 DEF FinalizeDeletion, Place, Where, Found
  <2>4. ASSUME NEW u \in Worker, u # w PROVE Place(u)'
    <3>1. Found(at[u], job[u].phase)'
      BY <1>0, <2>2, <2>4 DEF FinalizeDeletion, Inv, PlaceInv, Place, Found, Facts, RouteRemoved, Saving,
         clusterVars
    <3> QED BY <2>2, <2>4, <3>1 DEF FinalizeDeletion, Inv, PlaceInv, Place, Where
  <2> QED BY <2>1, <2>3, <2>4 DEF PlaceInv
<1> QED BY <1>2, <1>3, <1>4, <1>5, <1>6 DEF Inv

\* The administrator and the time change the job under the workers.
LEMMA UnderWorkersInv ==
    ASSUME Inv, UNCHANGED <<databaseVars, othersVars, dataVars, secretLock, workerVars, phase>>,
           RequestsInv', TableInv', Budget', project # "READY" => project' # "READY",
           holder' \in {holder, None}, holder' = holder /\ holder # None => attempts' = attempts,
           PhaseInv'
    PROVE  Inv'
<1> USE DEF databaseVars, lockVars, clusterVars, othersVars, dataVars, workerVars
<1>1. WorldInv'
  BY DEF Inv, WorldInv, WorldTypes, RouteRemoved, Saving
<1>2. WorkerTypes'
  BY DEF Inv, PlaceInv, WorkerTypes
<1>3. ASSUME NEW u \in Worker PROVE Place(u)'
  <2>1. Found(at[u], job[u].phase)'
    BY <1>3 DEF Inv, PlaceInv, Place, Found, Facts, RouteRemoved, Saving
  <2> QED BY <1>3, <2>1 DEF Inv, PlaceInv, Place, Where
<1> QED BY <1>1, <1>2, <1>3 DEF Inv, PlaceInv

LEMMA AdministratorInv == ASSUME Inv, RequestDeletion \/ RetryDeletion PROVE Inv'
<1>0. faults \in 0..MaxFaults
  BY DEF Inv, RequestsInv, DatabaseTypeOK
<1>1. Untouched
  BY <1>0 DEF RequestDeletion, RetryDeletion, Untouched, databaseVars, lockVars
<1>2. CASE RequestDeletion
  <2>1. RequestsInv'
    BY <1>1, <1>2, RequestedInv DEF RequestDeletion, Inv, databaseVars
  <2>2. TableInv' /\ Budget'
    BY <1>2 DEF RequestDeletion, Inv, TableInv, JobTypes, Budget, databaseVars
  <2>3. PhaseInv'
    BY <1>2 DEF RequestDeletion, Inv, TableInv, PhaseInv, Facts
  <2> QED BY <1>2, <2>1, <2>2, <2>3, UnderWorkersInv DEF RequestDeletion
<1>3. CASE RetryDeletion
  <2>1. RequestsInv'
    BY <1>1, <1>3, UntouchedInv DEF RetryDeletion, Inv, databaseVars
  <2>2. TableInv' /\ Budget'
    BY <1>3 DEF RetryDeletion, Inv, TableInv, JobTypes, Budget, Attempts, databaseVars
  <2>3. PhaseInv'
    BY <1>3 DEF RetryDeletion, Inv, PhaseInv, Facts, RouteRemoved, Saving, databaseVars, clusterVars,
       othersVars, dataVars
  <2> QED BY <1>3, <2>1, <2>2, <2>3, UnderWorkersInv DEF RetryDeletion, Inv, TableInv
<1> QED BY <1>2, <1>3

LEMMA LeaseInv == ASSUME Inv, LeaseExpires \/ LeaseExpiresUnderWorker PROVE Inv'
<1>1. LeaseRunsOut /\ ((Abandoned /\ UNCHANGED faults) \/ Fault)
  BY DEF LeaseExpires, LeaseExpiresUnderWorker
<1>2. faults \in Nat /\ faults' \in 0..MaxFaults
      /\ (faults' = faults + 1 \/ (faults' = faults /\ at[holder] = "idle"))
  BY <1>1 DEF Fault, Abandoned, Inv, RequestsInv, DatabaseTypeOK
<1>3. RequestsInv'
  <2>1. Untouched
    BY <1>1, <1>2 DEF LeaseRunsOut, Untouched, databaseVars, lockVars
  <2> QED BY <1>1, <2>1, UntouchedInv DEF LeaseRunsOut, Inv, databaseVars
<1>4. TableInv'
  BY <1>1 DEF LeaseRunsOut, Inv, TableInv, JobTypes, databaseVars
<1>5. Budget'
  <2>1. state' = "CLAIMED" /\ state = "CLAIMED" /\ attempts' = attempts /\ attempts \in Nat
    BY <1>1 DEF LeaseRunsOut, Inv, TableInv, JobTypes, Attempts
  <2>2. /\ 1 <= attempts /\ attempts <= MaxAttempts + faults
        /\ at[holder] = "idle" => attempts < MaxAttempts + faults
    BY <2>1 DEF Inv, Budget
  <2>3. attempts < MaxAttempts + faults' /\ attempts <= MaxAttempts + faults'
    <3>1. CASE faults' = faults + 1
      BY <1>2, <2>1, <2>2, <3>1
    <3>2. CASE faults' = faults /\ at[holder] = "idle"
      BY <2>2, <3>2
    <3> QED BY <1>2, <3>1, <3>2
  <2>4. 1 <= attempts' /\ attempts' <= MaxAttempts + faults' /\ attempts' < MaxAttempts + faults'
    BY <2>1, <2>2, <2>3
  <2> QED BY <2>1, <2>4 DEF Budget
<1>6. PhaseInv'
  BY <1>1 DEF LeaseRunsOut, Inv, PhaseInv, Facts, RouteRemoved, Saving, databaseVars, clusterVars,
     othersVars, dataVars
<1> QED BY <1>1, <1>3, <1>4, <1>5, <1>6, UnderWorkersInv DEF LeaseRunsOut

-----------------------------------------------------------------------------
(* Every step *)

LEMMA WorkerStepInv == ASSUME Inv, NEW w \in Worker, WorkerStep(w) PROVE Inv'
BY AuthorizeInv, RejectedInv, RunInv, ProbesInv, DisableInv, TeardownInv, RecheckInv, LockDatabaseInv,
   DatabasePhaseInv, SecretsInv, VerifyInv, FinalizeInv, AdvanceDeletionInv, EndsInv
DEF WorkerStep

LEMMA NextInv == ASSUME Inv, [Next]_vars PROVE Inv'
<1>1. CASE UNCHANGED vars
  <2>1. Untouched
    BY <1>1 DEF vars, Untouched, databaseVars, lockVars, Inv, RequestsInv, DatabaseTypeOK
  <2>2. RequestsInv'
    BY <1>1, <2>1, UntouchedInv DEF vars, databaseVars, Inv
  <2>3. TableInv' /\ Budget' /\ PhaseInv'
    BY <1>1 DEF vars, Inv, TableInv, JobTypes, Budget, PhaseInv, Facts, RouteRemoved, Saving, databaseVars,
       clusterVars, othersVars, dataVars, jobVars, workerVars
  <2> QED BY <1>1, <2>2, <2>3, UnderWorkersInv DEF vars, jobVars
<1>2. ASSUME NEW w \in Worker,
             ClaimNextDeletion(w) \/ WorkerStep(w) \/ CommandFails(w) \/ WorkerCrash(w)
      PROVE  Inv'
  BY <1>2, ClaimInv, WorkerStepInv, CommandFailsInv, CrashInv
<1> QED
  BY <1>1, <1>2, ProvisionInv, OperationInv, RouteInv, SettingsThreadInv, AdministratorInv, LeaseInv DEF Next

LEMMA Invariance == Spec => []Inv
BY InitInv, NextInv, PTL DEF Spec

(* Once the project is gone nothing of it is left: the phases remove it in  *)
(* order, an overtaken worker removes but never brings back, and whoever    *)
(* could bring something back was waited for or refused.                    *)
THEOREM NothingIsLeftBehind == Spec => []NothingLeftBehind
<1>1. Inv => NothingLeftBehind
  BY DEF Inv, TableInv, PhaseInv, Facts, WorldInv, NothingLeftBehind
<1> QED BY <1>1, Invariance, PTL

(* Every variable keeps its type, a phase is passed only when it has removed *)
(* what it is there for, and the database goes exactly when that was         *)
(* confirmed.                                                                *)
THEOREM PhasesAreDone == Spec => []PhaseIsDone
<1>1. Inv => PhaseIsDone
  BY Types DEF Inv, RequestsInv, TableInv, PhaseInv, Facts, WorldInv, PlaceInv, PhaseIsDone
<1> QED BY <1>1, Invariance, PTL

(* teardown(), the database phases and the removal of the secrets act only   *)
(* when the route is out of service and nobody is at work on what they       *)
(* remove: an operation, a provisioning request or a save of the settings.   *)

\* A step that removes nothing.
Keeps ==
    /\ runtime \subseteq runtime' /\ UNCHANGED <<database, credential>>
    /\ envSecrets => envSecrets'

LEMMA OthersKeep ==
    ASSUME Inv, OperationBegins \/ OperationBuilds \/ OperationEnds \/ RouteEnable \/ RouteClaim
                \/ RouteComplete \/ RouteFail \/ SettingsBegin \/ SettingsWrite \/ SettingsSave
                \/ RequestDeletion \/ RetryDeletion \/ LeaseExpires \/ LeaseExpiresUnderWorker
    PROVE  Keeps
<1> USE DEF Keeps, databaseVars, clusterVars, dataVars
<1>1. CASE OperationBuilds
  BY <1>1 DEF OperationBuilds, Inv, WorldInv, WorldTypes
<1>2. CASE OperationBegins \/ OperationEnds
  BY <1>2 DEF OperationBegins, OperationEnds
<1>3. CASE RouteEnable \/ RouteClaim \/ RouteComplete \/ RouteFail
  BY <1>3 DEF RouteEnable, RouteClaim, RouteComplete, RouteFail, RouteChange
<1>4. CASE SettingsBegin
  BY <1>4 DEF SettingsBegin, SettingsStep
<1>5. CASE SettingsWrite
  BY <1>5 DEF SettingsWrite, SettingsStep
<1>6. CASE SettingsSave
  BY <1>6 DEF SettingsSave, SettingsStep
<1>7. CASE RequestDeletion \/ RetryDeletion
  BY <1>7 DEF RequestDeletion, RetryDeletion
<1>8. CASE LeaseExpires \/ LeaseExpiresUnderWorker
  BY <1>8 DEF LeaseExpires, LeaseExpiresUnderWorker, LeaseRunsOut
<1> QED BY <1>1, <1>2, <1>3, <1>4, <1>5, <1>6, <1>7, <1>8

LEMMA WorkersKeep ==
    ASSUME Inv, NEW w \in Worker,
           ClaimNextDeletion(w) \/ CommandFails(w) \/ WorkerCrash(w)
           \/ (WorkerStep(w) /\ ~Remove(w) /\ ~DatabasePhase(w) /\ ~DeleteSecrets(w))
    PROVE  Keeps
<1>0. ASSUME Plain PROVE Keeps
  BY <1>0 DEF Plain, Keeps, databaseVars, clusterVars, dataVars
<1> USE DEF Keeps, databaseVars, clusterVars, dataVars
<1>1. CASE ClaimNextDeletion(w) \/ CommandFails(w) \/ WorkerCrash(w)
  <2>1. UNCHANGED <<runtime, envSecrets, database, credential>>
    BY <1>1 DEF ClaimNextDeletion, CommandFails, WorkerCrash, Leave
  <2> QED BY <2>1
<1>2. CASE Authorize(w) \/ Rejected(w) \/ Run(w) \/ ProbeSecrets(w) \/ ProbeLock(w)
  <2>1. CASE Authorize(w)
    BY <2>1 DEF Authorize
  <2>2. CASE Rejected(w)
    BY <2>2, OnlyTheLostAreRejected DEF Leave
  <2>3. CASE Run(w) \/ ProbeSecrets(w) \/ ProbeLock(w)
    <3> HIDE DEF Keeps
    <3> QED BY <1>0, <2>3 DEF Run, ProbeSecrets, ProbeLock
  <2> QED BY <1>2, <2>1, <2>2, <2>3
<1>3. CASE DisableForDeletion(w) \/ DeletionIsApplied(w) \/ Observe(w) \/ Recheck(w) \/ RemoveFiles(w)
  <2>1. CASE DisableForDeletion(w) \/ Observe(w)
    BY <2>1 DEF DisableForDeletion, Observe
  <2>2. CASE DeletionIsApplied(w) \/ Recheck(w)
    BY <1>0, <2>2 DEF DeletionIsApplied, Recheck
  <2>3. CASE RemoveFiles(w)
    BY <2>3 DEF RemoveFiles
  <2> QED BY <1>3, <2>1, <2>2, <2>3
<1>4. CASE LockDatabase(w) \/ LockSecrets(w) \/ VerifyRuntime(w) \/ VerifyDatabase(w) \/ VerifySecrets(w)
  <2>1. CASE LockDatabase(w)
    BY <2>1 DEF LockDatabase
  <2>2. CASE LockSecrets(w)
    BY <2>2 DEF LockSecrets
  <2>3. CASE VerifyRuntime(w) \/ VerifyDatabase(w) \/ VerifySecrets(w)
    BY <1>0, <2>3 DEF VerifyRuntime, VerifyDatabase, VerifySecrets
  <2> QED BY <1>4, <2>1, <2>2, <2>3
<1>5. CASE FinalizeDeletion(w) \/ AdvanceDeletion(w) \/ DeferDeletion(w) \/ HandleFailure(w)
  <2>1. UNCHANGED <<runtime, envSecrets, database, credential>>
    BY <1>5 DEF FinalizeDeletion, AdvanceDeletion, DeferDeletion, HandleFailure, Leave
  <2> QED BY <2>1
<1> QED BY <1>1, <1>2, <1>3, <1>4, <1>5 DEF WorkerStep

(* teardown(), the database phases and the removal of the secrets act only   *)
(* when the route is out of service and nobody is at work on what they       *)
(* remove: an operation, a provisioning request or a save of the settings.   *)
THEOREM RemovalIsOutOfUse == Spec => RemovedOutOfUse
<1> DEFINE Removes ==
      /\ ~(runtime \subseteq runtime') => ~route.served /\ ~operation
      /\ database = "marked" /\ database' = "absent" => ~route.served /\ ~operation /\ ~Provisioning
      /\ envSecrets /\ ~envSecrets' => ~route.served /\ settings \notin {"write", "save"}
      /\ credential # None /\ credential' = None => ~Provisioning
<1>1. Keeps => Removes
  BY DEF Keeps
<1>2. ASSUME Inv, Provision PROVE Removes
  <2>1. PICK r \in Request : RequestEffect(r)
    BY <1>2, DatabaseEffect DEF Inv, Provision
  <2>2. UNCHANGED <<runtime, envSecrets>>
    BY <1>2 DEF Provision, dataVars
  <2> QED BY <2>1, <2>2 DEF RequestEffect
<1>3. ASSUME Inv, NEW w \in Worker, Remove(w) \/ DatabasePhase(w) \/ DeleteSecrets(w)
      PROVE  Removes
  <2>1. at[w] # "idle" /\ at[w] \in {"remove", "database", "secrets"}
    BY <1>3 DEF Remove, DatabasePhase, DeleteSecrets
  <2>2. Facts(job[w].phase) /\ job[w].phase \in RuntimeCleanup..SecretCleanup /\ rowLock = None
    BY <1>3, <2>1, Known DEF Where
  <2>3. ~operation /\ ~Saving /\ ~route.served
    BY <1>3, <2>2 DEF Facts, Inv, WorldInv
  <2> QED BY <2>2, <2>3 DEF Provisioning, Saving
<1>4. ASSUME Inv, Next PROVE Removes
  <2>1. ASSUME NEW w \in Worker,
               ClaimNextDeletion(w) \/ WorkerStep(w) \/ CommandFails(w) \/ WorkerCrash(w)
        PROVE  Removes
    <3> HIDE DEF Removes
    <3> QED BY <1>1, <1>3, <1>4, <2>1, WorkersKeep
  <2> HIDE DEF Removes
  <2> QED BY <1>1, <1>2, <1>4, <2>1, OthersKeep DEF Next
<1>5. Inv /\ [Next]_vars => [Removes]_vars
  BY <1>4
<1> QED BY <1>5, Invariance, PTL DEF Spec, RemovedOutOfUse
=============================================================================
