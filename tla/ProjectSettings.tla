-------------------------- MODULE ProjectSettings ---------------------------
(* The settings of one project and their secrets: editors that save         *)
(* (projects/service.py, update_settings), the rows they replace            *)
(* (projects/repository.py), the versioned files of the secret store        *)
(* (secrets/store.py), and the deployments that snapshot references to      *)
(* them. Requests that provision the project's database (ProjectDatabase)   *)
(* run at the same time, wait for the same project row and write to the     *)
(* same store.                                                              *)
(*                                                                          *)
(* One action per transaction or file. A variable is a secret variable of a *)
(* service; plain variables and routes are data of the same row and are     *)
(* left out. A fingerprint is the value. A form gives each variable a new   *)
(* value, keeps the one it has, or leaves the variable out.                 *)
EXTENDS ProjectDatabase

CONSTANTS
    Editor,         \* requests to save settings, one at a time per editor
    Variable, Value,
    Keep, Omit,     \* what a form says of a variable besides a value
    MaxVersion,     \* bound: version of a secret
    MaxConfig       \* bound: config_version

ASSUME SettingsAssumption ==
    /\ None \notin Editor \cup Value /\ {Keep, Omit} \cap Value = {}
    /\ MaxVersion \in Nat \ {0} /\ MaxConfig \in Nat

VARIABLES
    config,     \* config_version
    secret,     \* project_environment_secrets, and the references in deployment_config
    file,       \* v<n>.secret of each variable
    deployed,   \* the references in the snapshots of deployments
    storeLock,  \* the lock file of the project's secrets
    step,       \* where the editor is
    expected,   \* expected_version
    form,
    left,       \* the variables still to resolve
    resolved    \* environment_secrets so far

storeVars == <<secret, file, deployed>>
editorVars == <<step, expected, form, left, resolved>>
settingsVars == <<project, databaseVars, faults, config, storeVars, storeLock, editorVars>>

Reference == [version : 1..MaxVersion, value : Value]
Slot == Reference \cup {None}
NoSecrets == [v \in Variable |-> None]

SettingsTypeOK ==
    /\ DatabaseTypeOK
    /\ advisory \in Request \cup {None}
    /\ config \in 0..MaxConfig
    /\ secret \in [Variable -> Slot]
    /\ file \in [Variable -> [1..MaxVersion -> Value \cup {None}]]
    /\ deployed \subseteq [variable : Variable, reference : Reference]
    /\ storeLock \in Editor \cup {None}
    /\ step \in [Editor -> {"idle", "loaded", "check", "resolve", "write", "save"}]
    /\ expected \in [Editor -> 0..MaxConfig]
    /\ form \in [Editor -> [Variable -> Value \cup {Keep, Omit}]]
    /\ left \in [Editor -> SUBSET Variable]
    /\ resolved \in [Editor -> [Variable -> Slot]]

SettingsInit ==
    /\ DatabaseInit
    /\ config = 0
    /\ secret = NoSecrets
    /\ file = [v \in Variable |-> [n \in 1..MaxVersion |-> None]]
    /\ deployed = {}
    /\ storeLock = None
    /\ step = [e \in Editor |-> "idle"]
    /\ expected = [e \in Editor |-> 0]
    /\ form = [e \in Editor |-> [v \in Variable |-> Omit]]
    /\ left = [e \in Editor |-> {}]
    /\ resolved = [e \in Editor |-> NoSecrets]

ProvisionBeside == DatabaseNext /\ UNCHANGED <<config, storeVars, storeLock, editorVars>>

-----------------------------------------------------------------------------
(* update_settings *)

EditorTo(e, label) == step' = [step EXCEPT ![e] = label]

(* The request ends, answered or not, and the lock file is released. *)
Ends(e) ==
    /\ EditorTo(e, "idle")
    /\ storeLock' = IF storeLock = e THEN None ELSE storeLock
    /\ expected' = [expected EXCEPT ![e] = 0]
    /\ form' = [form EXCEPT ![e] = [v \in Variable |-> Omit]]
    /\ left' = [left EXCEPT ![e] = {}]
    /\ resolved' = [resolved EXCEPT ![e] = NoSecrets]

Unstored == UNCHANGED <<project, databaseVars, faults, config, storeVars>>

(* The editor loads the project, and with it the version it will send. *)
Load(e) ==
    /\ step[e] = "idle" /\ config < MaxConfig
    /\ expected' = [expected EXCEPT ![e] = config]
    /\ EditorTo(e, "loaded")
    /\ UNCHANGED <<storeLock, form, left, resolved>> /\ Unstored

NotExclusive(e) == TRUE
Exclusive(e) == storeLock = None

OperationLockOfSecrets(e) ==
    /\ step[e] = "loaded" /\ Exclusive(e)
    /\ storeLock' = e
    /\ EditorTo(e, "check")
    /\ \E f \in [Variable -> Value \cup {Keep, Omit}] : form' = [form EXCEPT ![e] = f]
    /\ UNCHANGED <<expected, left, resolved>> /\ Unstored

CheckVersion(e) ==
    /\ step[e] = "check"
    /\ IF config = expected[e]
       THEN /\ EditorTo(e, "resolve")
            /\ left' = [left EXCEPT ![e] = {v \in Variable : form[e][v] # Omit}]
            /\ UNCHANGED <<storeLock, expected, form, resolved>>
       ELSE Ends(e)
    /\ Unstored

NextVersion(v) == IF secret[v] = None THEN 1 ELSE secret[v].version + 1

Resolve(e, v, reference) ==
    /\ resolved' = [resolved EXCEPT ![e][v] = reference]
    /\ left' = [left EXCEPT ![e] = @ \ {v}]
    /\ EditorTo(e, "resolve")
    /\ UNCHANGED <<storeLock, expected, form>>

(* No value: the current secret, or SECRET_VALUE_REQUIRED *)
KeepSecret(e, v) ==
    /\ step[e] = "resolve" /\ v \in left[e] /\ form[e][v] = Keep
    /\ IF secret[v] = None THEN Ends(e) ELSE Resolve(e, v, secret[v])
    /\ Unstored

(* create(): a version that is there must have the same content, otherwise  *)
(* SecretStoreError; one that is not there is written next.                 *)
Conflicts(e, v) == file[v][NextVersion(v)] # form[e][v]
ExistingSecret(e, v) ==
    /\ step[e] = "resolve" /\ v \in left[e] /\ form[e][v] \in Value
    /\ NextVersion(v) <= MaxVersion /\ file[v][NextVersion(v)] # None
    /\ IF Conflicts(e, v) THEN Ends(e)
       ELSE Resolve(e, v, [version |-> NextVersion(v), value |-> form[e][v]])
    /\ Unstored
MissingSecret(e, v) ==
    /\ step[e] = "resolve" /\ v \in left[e] /\ form[e][v] \in Value
    /\ NextVersion(v) <= MaxVersion /\ file[v][NextVersion(v)] = None
    /\ left' = [left EXCEPT ![e] = @ \ {v}]
    /\ resolved' = [resolved EXCEPT ![e][v] = [version |-> NextVersion(v), value |-> form[e][v]]]
    /\ EditorTo(e, "write")
    /\ UNCHANGED <<storeLock, expected, form>> /\ Unstored

(* _write_once links the file; one that has appeared meanwhile is kept, and *)
(* the fingerprint of the request's own value is used all the same.         *)
Written(e, v) == resolved[e][v] # None /\ form[e][v] \in Value
WriteOnce(e) ==
    /\ step[e] = "write"
    /\ file' = [v \in Variable |-> [n \in 1..MaxVersion |->
                  IF Written(e, v) /\ resolved[e][v].version = n /\ file[v][n] = None
                  THEN form[e][v] ELSE file[v][n]]]
    /\ EditorTo(e, "resolve")
    /\ UNCHANGED <<project, databaseVars, faults, config, secret, deployed, storeLock,
                   expected, form, left, resolved>>

(* The transaction: one version further, and the rows are those of the form *)
Save(e) ==
    /\ step[e] = "resolve" /\ left[e] = {} /\ rowLock = None
    /\ IF config = expected[e]
       THEN config' = config + 1 /\ secret' = resolved[e]
       ELSE UNCHANGED <<config, secret>>
    /\ Ends(e)
    /\ UNCHANGED <<project, databaseVars, faults, file, deployed>>

EditorCrash(e) ==
    /\ step[e] \notin {"idle", "loaded"}
    /\ Fault
    /\ Ends(e)
    /\ UNCHANGED <<project, databaseVars, config, storeVars>>

(* A request to deploy takes a copy of the saved settings; its deployment   *)
(* is created later, whatever is saved meanwhile.                           *)
Deploy ==
    /\ config > 0
    /\ deployed' = deployed \cup {[variable |-> v, reference |-> secret[v]] :
                                  v \in {u \in Variable : secret[u] # None}}
    /\ deployed' # deployed
    /\ UNCHANGED <<project, databaseVars, faults, config, secret, file, storeLock, editorVars>>

EditorStep(e) ==
    \/ OperationLockOfSecrets(e) \/ CheckVersion(e) \/ WriteOnce(e) \/ Save(e)
    \/ \E v \in Variable : KeepSecret(e, v) \/ ExistingSecret(e, v) \/ MissingSecret(e, v)

SettingsNext ==
    \/ ProvisionBeside
    \/ \E e \in Editor : Load(e) \/ EditorStep(e) \/ EditorCrash(e)
    \/ Deploy

SettingsSpec == SettingsInit /\ [][SettingsNext]_settingsVars

-----------------------------------------------------------------------------
(* A reference that a row, the configuration or a deployment holds resolves *)
(* for ever to the content it was recorded with: later saves, saves that    *)
(* fail half-way, crashes and other editors do not change a version. A      *)
(* deployment that is retried mounts what its snapshot names.               *)
Resolves(v, reference) == file[v][reference.version] = reference.value
ReferencesResolve ==
    /\ \A v \in Variable : secret[v] # None => Resolves(v, secret[v])
    /\ \A d \in deployed : Resolves(d.variable, d.reference)
============================================================================
