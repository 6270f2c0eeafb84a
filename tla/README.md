# Heimdall: verification project

Heimdall deploys the services of a Git repository as a preview: an API records
requests in PostgreSQL, worker processes turn them into Docker containers behind
one NGINX gateway per project, and a second worker publishes host names on an edge
NGINX. This directory holds TLA+ modules that model its core, the TLC runs that
check them on small instances, and theorems that TLAPS proves for every instance.
All paths below are relative to `src/backend/src/heimdall/` unless they start with
`src/`.

## Inventory

| Component | State | Operations | Interacts with | What makes it correct |
|---|---|---|---|---|
| Deployment queue (`deployments/repository.py`) | `deployments`, `deployment_jobs`, `deployment_events` | create, claim_next, renew, advance, succeed, fail, retry, reconcile_succeeded | API (create), workers (the rest), reconciliation, deletion | the two tables agree; one open deployment per project; a settled one stays settled; an overtaken worker writes nothing |
| Deployment worker (`deployments/worker.py`) | a claim, in memory | run_once, _handle_failure | queue, processor | every job is settled within its retry budget; what is served is never cleaned up |
| Processor and Docker (`runtime/service.py`, `runtime/docker.py`) | containers, networks and images of a generation, a workspace directory | process, recover, cleanup_candidate, cleanup_candidate_verified | worker, gateway, Docker | removes only its own generation, and not the active one |
| Project gateway (`runtime/gateway.py`) | `current.conf`, `last-good.config`, the gateway container, `project_runtimes` | activate, recover, rollback_candidate | processor, Docker, NGINX | the active generation is the one that is served, also after a crash at any point |
| Reconciliation (`runtime/reconciliation_*.py`) | `runtime_reconciliations` | request, schedule_automatic, claim_next, resolve, block, retry | queue, processor, gateway, deletion | an uncertain deployment is either adopted or cleaned up, never both; only the latest claim decides |
| Event stream (`deployments/event_stream.py`, `event_sse.py`) | cursor, buffer, a semaphore | open, receive, close | events table, NOTIFY | every event once, in order, and all of them before the end |
| Public routes (`public_routes/*`, `routing_worker.py`) | `project_public_routes`, `public_route_jobs` | set_enabled, disable, claim_next, complete, fail | gateway readiness, edge | applied follows desired; a host name has one owner |
| Edge (`runtime/edge.py`, `edge_network.py`) | edge configuration files, journal | apply, recover_interrupted | routing worker, NGINX | an interrupted apply is finished or undone |
| Project deletion (`projects/deletion_worker.py`, `runtime/project_teardown.py`) | `project_deletion_jobs`, phases | request, run_once, defer, retry, finalize | everything above | nothing is removed while it is in use; a phase is passed only when it is done; nothing is left |
| Settings and secrets (`projects/service.py`, `secrets/store.py`) | `projects`, secret files | update_settings | deployments (snapshot) | whatever the settings or a deployment refer to exists, with its content |
| Managed database (`project_database/*`) | `project_database_resources`, roles, databases, the credential file | provision, retry, deletion | settings, deletion | what is recorded is done and usable, whatever requests overtake each other |
| Live log (`runtime/log_stream_broker.py`, `docker_logs.py`, `process_stream.py`, `deployments/log_stream.py`) | child processes, readers, a queue, permits, sockets | connect, accept, send, close, stop | containers, the API, the browser | every line in order, the end last; children and permits are given back |
| Log snapshots, command runner, diagnostics, auth, git client, configuration, front end | per request or connection | | | see Not modelled |

What is hard here: workers are processes that crash, and whose lease can run out
while they work; what they do to Docker and NGINX is not transactional with what they
write to PostgreSQL; some writes are fenced by a claim token and some are not.
`PROJECT.json` lists these hazards at the lines where they bite.

## Modules

### DeploymentLifecycle

The abstract specification of the queue: a deployment is requested, started, requeued
and settled; a project has one open deployment; an uncertain outcome may turn into a
success; a project that is being deleted takes no requests. It knows no claim, lease
or worker.

### DeploymentJobs

The queue, its workers, and what they do to Docker and to `project_runtimes` between
two transactions.

* State. One variable per column that matters (`status`, `failure`, `jobState`,
  `attempts`, `owner`, `token`, `lease`, `projectStatus`, `active`), one for Docker
  (`candidate[d]`: the containers of `d` exist), and per worker its place in
  `run_once` (`pc`), the claim object (`dep`, `tok`), the `RuntimeFailure` in hand
  (`fail`), the row `activate` returned (`prev`), and which failure of a recovery it
  handles inside the `try` of `run_once` (`recovery`).
* Actions. One per transaction (`Create`, `ClaimNext`, `Heartbeat`, `Stage...`,
  `Succeed`, `RetryJob`, `FailJob`, `RecordDiagnostics`, `RequestDeletion`), or per
  stretch of Docker work (`ResetCandidate`, `Activate`, `RetirePrevious`,
  `CleanupCandidate`), plus the exceptions the code tells apart (`ClaimLost`,
  `ClaimLostInActivate`, `Fail`, `HandleAgain`), crashes and time (`Crash`, `LeaseExpires`).
  `HandleAgain` is a `retry` or `fail` that raises while the failure of a recovery is
  handled: that happens inside the `try` (`deployments/worker.py:112-135`), so the last
  `except` (143) handles an unexpected failure in its place, with the rollback and the
  cleanup. Everywhere else such an error leaves `run_once` and is a `Crash`.
* Abstractions. The `uuid4` claim token is the attempt number it is issued with. Time
  is a lease that is live or expired; the retry delay is left out, so a retry may
  happen at any time. `renew` and `_lock_claim` sample the clock before they wait for
  the row, so a lease that has just run out may still pass (`Fenced`) or not
  (`Lapsed`). What the gateway serves is not in the state: `recover()` may come to any
  of its results, except that it adopts only a deployment whose containers exist. The
  rows of events and diagnostics are left out. A reconciliation is one step here.
  A transaction that raises has not committed.
* `LateErrors` says whether exceptions also happen after the deployment has become
  active, and while an uncertain recovery is recorded. It is FALSE in the run that shows
  what holds without them; two runs show what does not hold with them.

### EventStream

How the rows of one deployment's events reach a page: the subscription of the API
(`deployments/event_stream.py`, `event_sse.py`) and the hook of the front end
(`src/frontend/src/entities/deployment/useDeploymentEvents.ts`).

* State. The events table and the deployment's status; the permits of the semaphore;
  per connection the place in `receive()`, the cursor, the buffer and the messages in
  flight; per page its fetched rows, its live rows, the polled status and whether its
  `EventSource` is open.
* Actions. One per transaction (`InsertEvent`, `Settle`, `Refill`, `CheckStatus`), per
  step of the stream (`Open`, `Listen`, `NextEvent`, `Wait`, `Close`) and their failures,
  per callback of the page (`OnEvent`, `OnEnd`, `OnStreamError`, `PollStatus`,
  `ApplyEvents`), and what happens to connections (`Drop`, `Restart`, `Remount`).
* Abstractions. A row is its id; a notification only ends a wait early, so it is not in
  the state. The browser's `EventSource`, which reconnects with the last id it saw, is
  external. The generator of a response is assumed to be started once it is returned.
  TanStack Query fetches when the page is mounted and when the hook asks for it; that it
  also fetches when the browser is back online (`src/frontend/src/app/App.tsx:8` leaves this
  at its default) is not modelled.

### Gateway

The stable preview of one project: `runtime/gateway.py` command by command, driven by
the deployment worker and by a reconciliation.

* State. The job (`status`, `attempts`), the row (`active`), the two files (`current`,
  `lastGood`), the gateway container (`state`, `loaded`: the configuration its NGINX
  runs, `base`: the network it was created on, `nets`), the generations (`up`,
  `promoted`), and the worker's place (`pc`) with the locals of `activate`.
* Actions. One per command to Docker, file written or transaction: `recover()` is
  `RecoverActive` to `RestoreDetach`, `activate()` is `DefaultCurrent` to `RetirePrevious`,
  its except block `Undo` to `UndoStart`, then `RollbackCandidate`, `CleanupCandidate` and
  the settling of the job. `Crash` may come between any two.
* Abstractions. A configuration is the deployment it was rendered for. Building and
  starting the containers of a candidate is one step; labels, the edge network and the
  number of the port are left out. A failing command has no effect, except that a
  container may have been started. Exceptions after the row was switched are the subject
  of `LateErrors` in `DeploymentJobs`, overtaken workers too. An operator stops the
  gateway between two attempts.
* External. NGINX starts or reloads a configuration only when its upstreams resolve on a
  network of its container. The published port answers only while the network the
  container was created on is attached: the repository observed this
  (`src/project-docs/plans/2026-08-11-running-gateway-network-rebase.md:16-19`), and it is
  why the code recreates the gateway. A container that was detached from all of its
  networks is assumed to publish through the next one it joins, the case that favours
  the code.

### PublicRoutes

The rows of the public hostnames, the routing workers and the one file of routes the Edge
runs.

* State. The columns of `project_public_routes` and `public_route_jobs` that matter; the
  Edge: `file`, `loaded`, `journal`, `lock`; per worker its place in `run_once` and
  `apply` (`pc`), its claim, the snapshot of the applied rows, the configuration to go
  back to, the error that a restoration interrupts, and whether it has to reconcile
  first.
* Actions. The requests (`SetEnabled`, `Disable`, which is also what a deletion does), one
  per transaction (`ClaimNext`, `ReadApplied`, `Finalize`, `Record`), one per file written
  (`Prepare`, `Replace`, `Commit`, `RestoreFile`) and per stretch of commands to Docker
  (`Attach`, `Reload`, `Probe`, `RestoreEdge`), each with its exceptions; `Reconcile` and
  `Start` for `reconcile_startup` and `recover_interrupted`; crashes, leases that run out
  under a live worker, restarts of the Edge, gateways that stop and come back. A claim
  that is lost is noticed where the code calls `heartbeat`, always by a probe, only by a
  command that takes long.
* Abstractions. A configuration maps each project to the hostname of its section. A token
  is the worker that holds it, and the revision of a job is that of its row, since both
  are written together. `available_at` is left out: a job may be claimed at any time, so
  `wake_pending` has nothing to do. The phase of the journal is left out, nothing reads
  it. `attempts` saturates at the budget. A fence and the write that follows it under
  the lock are one step, since the applied rows change under that lock only.
* External. A reload is effective when the command ends; one that fails may or may not
  have been. Probes see the routes that are loaded, of projects whose gateway runs.

### ProjectDatabase

The managed PostgreSQL database of a project: the requests that provision it.

* State. The row (`row`: status, phase, version, credential), the credential file, the
  cluster (`role`, `database`, `granted`), the row lock that `operation_lock` and
  `_locked_ready` come to (`rowLock`), and per request its place in `provision()` (`pc`)
  and the row it has in hand (`mine`).
* Actions. One per transaction (`EnsureIntent`, `BeginRetry`, `Advance`, `MarkFailed`), file
  (`CreateCredential`, `ReadCredential`) or command to the cluster (`EnsureRole`,
  `EnsureDatabase`, `CommentOnDatabase`, `EnsurePrivileges`, `VerifyLogin`), each with its
  failures; a request that waits too long for the lock, and one that dies.
* Abstractions. The random password is named after the request that drew it; its fingerprint
  is itself. Names, the schema and the search path are left out. A request answers once:
  a client that tries again is another request.
* External. The cluster: `CREATE DATABASE` and its comment are two commands, the rest of a
  command's statements commit together.

The module has no run of its own: `ProjectSettings` and `ProjectDeletion` extend it and take
its `DatabaseNext` as one of their disjuncts.

### ProjectSettings

Editors that save the settings of one project, the versioned secret files, the deployments
that refer to them, beside requests that provision its database.

* State. `config` (`config_version`), `secret` (the references in the settings), `file` (the
  versions on disk), `deployed` (the references that deployments took), `storeLock`, and
  per editor its place in `update_settings` (`step`), the version it loaded (`expected`),
  its form, what it has resolved and what is left.
* Actions. `Load`, `OperationLockOfSecrets`, `CheckVersion`, one secret after the other
  (`KeepSecret`, `ExistingSecret`, `MissingSecret`, `WriteOnce`), the transaction (`Save`),
  `EditorCrash`, and `Deploy`, the snapshot of a deployment.
* Abstractions. A variable is a secret variable of a service; plain variables, names and
  routes are data of the same rows. A fingerprint is the value.

### ProjectDeletion

The deletion of one project against everybody who may be at work on it.

* State. The job (`state`, `phase`, `attempts`, `holder`, and `job[w]` as a worker claimed
  it), the things to remove (`runtime`, `files`, `envSecrets`, `route` and the database of
  `ProjectDatabase`), `listed` (the row of `project_runtimes`), an `operation` (a deployment
  or reconciliation), a thread that saves `settings`, and per worker its place (`at`) and
  what it has yet to remove (`todo`).
* Actions. The request and the administrator's retry; `ClaimNextDeletion`, `Authorize`,
  `Run`, one group per phase (`DisableForDeletion` and `DeletionIsApplied`; `Observe`,
  `Remove`, `Recheck`, `RemoveFiles`; `LockDatabase`, `DatabasePhase`; `LockSecrets`,
  `DeleteSecrets`; the three verifications and `FinalizeDeletion`), `AdvanceDeletion`,
  `DeferDeletion`, `HandleFailure`, failing commands, crashes, leases that run out; and
  the others: `Operation...`, `Route...`, `Settings...` and the provisioning requests.
* Abstractions. A claim token is the worker that holds it, `available_at` is left out. The
  resources of a kind are one resource. The route is its row with what the Edge serves
  (`PublicRoutes` has the rest), the operation is whether it is open and the runtime it
  makes (`DeploymentJobs`, `Gateway`).

### Reconciliation

The reconciliation of one deployment whose recovery was uncertain (the target), with an
older generation that is active and a newer deployment of the project.

* State. The row of `runtime_reconciliations` (`rec`) and who holds its claim (`holder`),
  the target's `status`, the `newer` deployment, `active` (`project_runtimes`), the
  `containers`, the gateway (`running`, `loaded`), its files (`file`, `lastGood`), the
  `project`, and per worker its place (`at`) and the claim it has in hand.
* Actions. Requests in their two steps (`RequestChecked`, `RequestRecorded`),
  `ScheduleAutomatic`, `ClaimNext`, `recover()` command by command (`Recover` to `Retire`),
  the cleanup (`Capture` to `Verify`), the ends (`ResolveActive`, `ResolveCleaned`, `Block`,
  `HandleFailure`), `ReconcileSucceeded`; the newer deployment; a gateway that stops or
  comes back; deletion; unexpected errors, crashes, leases that run out.
* Abstractions. A token is the worker that holds it, `available_at` is left out. Containers,
  networks and images of a generation are one thing; the networks of the gateway are the
  subject of `Gateway`. The newer deployment is processed without a crash.
* `overlapped` remembers that two workers were at work at once, which happens when a claim
  runs out under a live one. The repository's plans put several worker processes for one
  project out of scope, so what is said of the containers (`ActiveGenerationExists`, parts
  of `OutcomeIsTrue`) is said as long as this did not happen. What is said of the row
  (`FinishedByLatestClaim`, `DrainedStaysDrained`, `ReconciliationEnds`) needs no such
  condition. Known gaps says what happens otherwise.

### LogStream

The live log of a service from the container to the browser.

* State. Per connection the ends of it (`client`, `server`), the `wire` between them, what
  the browser was sent (`got`), the event the handler has in hand, the child process, its
  two readers, what it wrote and they read, and the queue between readers and handler;
  for the broker its `phase`, accept thread and permits.
* Actions. `Connect`, `ReceiveFrame`, `ReceiveEof`, `HandshakeTimeout`, `Stall`, `Leave` of the
  API and its browser; `Accept`, `AcceptFails`, `Stop`, `CancelFuture`, `Stopped` of the broker;
  `Open`, `Send`, `SendTimeout`, `ReceiveItem`, `ReceiveEnd`, `ReceiveNothing`, `Close`,
  `JoinAndRelease` of a handler; `ReadLine`, `OfferDone`, `ReaderStops` of a reader; and the
  child, which writes and exits.
* Abstractions. A line is the pipe it came from and its number; framing, redaction and
  truncation act on one line. A line without a timestamp would be dropped
  (`runtime/docker_logs.py:281-287`), but `docker logs --timestamps` writes none. A
  connection is used once.
* A browser that stalls. The API reads the next frame only when the browser has taken
  the last one (`deployments/log_stream.py:28-47`), so a browser that takes nothing any
  more, and does not go away either, fills the socket and leaves the handler in `sendall`.
  `Stall` is that browser, from the moment this can be told from a slow one: the handler
  has a frame and the socket is full. One that goes on after all is a slow one. The write
  timeout (`runtime/log_stream_broker.py:179`, caught at 196) is what frees the handler:
  `SendTimeout` is then a step of the handler, which must happen and costs no fault; for
  a browser that is only slow it is a fault that may happen. A stalled browser keeps its
  response, and is not counted among the closed ones.

### Instances

`MCDeploymentJobs`, `MCEventStream`, `MCPublicRoutes` and `MCProjectSettings` hold the
definitions that runs need besides the constants; the other modules are instantiated by
their configurations alone. In `MCDeploymentJobs` all deployments belong to one project, since projects
only interact through the workers they share. Deployments, workers, projects, host names,
requests, editors and values are symmetric in runs without liveness where nothing orders them.

## Runs

| Run | Question | Bounds | Result |
|---|---|---|---|
| `jobs_two_workers` | Do claims and transactions keep the tables right whatever the order of two workers? | 2 deployments, 2 workers, 2 attempts, 1 fault, late errors | pass |
| `jobs_one_worker` | Is the runtime right when a single worker crashes and resumes, and is every deployment settled? | 2 deployments, 1 worker, 2 attempts, 3 faults, no late errors | pass |
| `jobs_uncertain_error` | Are the containers of an uncertain recovery preserved when the database fails? | 1 deployment, 1 worker, 2 attempts, 1 fault, late errors | violated |
| `jobs_late_error` | Does an exception after the switch leave the preview alone? | 2 deployments, 1 worker, late errors | violated |
| `stream_one_page` | Does a page converge to the rows and the outcome over lost connections, failed reads, remounts and a restart, and does every row reach it? | 1 page, 3 rows, read and shown 2 at a time, 1 permit, 2 faults | pass |
| `gateway` | Does a failing command, a crash or a stopped gateway leave the preview right, and is every deployment settled? | 3 deployments, 2 attempts, 2 crashes, 1 failure, 1 stop | pass |
| `routes_two_workers` | Do the rows and the Edge stay in agreement whatever two workers, crashes and failures do? | 2 projects, 2 hostnames, 2 revisions each, 2 workers, 1 attempt, 2 faults | pass |
| `routes_one_worker` | Is every request for a hostname answered? | 2 projects, 2 hostnames, 2 revisions each, 1 worker, 2 attempts, 2 faults | pass |
| `deletion` | Does a deletion end with nothing left, and without removing what is in use? | 2 workers, 2 attempts, 1 retry, 1 provisioning request, 1 save, 1 operation and route at a time, 1 fault | pass |
| `settings` | Do references to secrets always resolve, and is what the database row says usable? | 2 editors, 1 variable, 2 values, 2 versions of a secret, 3 of the settings, 2 provisioning requests, 1 fault | pass |
| `reconciliation` | Is the outcome that is recorded what happened, and decided by the latest claim? | 2 workers, an older active and a newer generation, 2 attempts, 1 request of the administrator, 2 faults | pass |
| `logs` | Do all lines arrive, and is everything given back? | 2 connections, 1 permit, a queue and a socket of 1, 2 lines, 1 fault, 1 stop | pass |

Bounds. Two deployments are needed for a previous generation, and for one that was left
uncertain beside an active one; what `jobs_one_worker` says of the containers is also
proved for any number. There three faults leave room for a crash, an expired lease under
the restarted worker and another crash. Two workers suffice for a take-over; `MaxAttempts = 2` gives a first
attempt, a retry, and, with a fault, an attempt beyond the budget. `MaxFaults` counts
crashes and leases that expire under a live worker; in `deletion`, `settings` and
`reconciliation` also commands and transactions that fail. In `gateway` two crashes allow
one in the recovery from the other; one failure is what the code undertakes to handle:
with a second one in the undo itself the preview may stay down, which is why
`PreviewIsServed` also says `failures <= 1`, should the bound be raised. In the runs about
routes two revisions are an enabled route and its rename or removal, with the other
project taking the hostname that becomes free; `MaxFaults` counts crashes, failing
commands, late heartbeats, stopped gateways and restarts of the Edge. In `deletion` the
one provisioning request, save and operation may each begin and end before, during and
after the request for the deletion. In `settings` two editors give a lost update, two
requests a provision that overtakes another, and three versions a save after a save. In
`logs` a queue and a socket of one element are full at once with two lines and their
marks, and the second connection finds the only permit taken. `CHECK_DEADLOCK FALSE` is set
because the systems may rest: all deployments are settled, no worker has work, the page is
closed.

Type invariants. `TypeOK` is a conjunct of `PermitsConserved`, `ActiveGenerationExists`
of `Gateway`, `PhaseIsDone`, `OutcomeIsTrue` and `WithinBounds`, and a property of
`jobs_two_workers`; it is proved for all modules.

Fairness. Every command, probe and query of a worker has a timeout and a worker process is
restarted by its supervisor, so runs about liveness assume weak fairness of a worker's
steps; time passes, so the lease of a claim that nobody works on expires.

* `jobs_one_worker`: these two. Its worker takes over its own claims after a restart. A
  second worker would not keep a deployment open: `OnlyTheHolderDecides` holds for any
  number of them, and a lease that somebody lost expires like that of a dead worker.
* `gateway`: weak fairness of the worker's commands, and strong fairness of its claims:
  `worker.py` asks the queue of the deployments before that of the reconciliations.
* `stream_one_page`: weak fairness of the threads of the API, whose wait has a timeout, and
  of the callbacks of the browser.
* `routes_one_worker`: the worker, the lease, and gateways that come back (their restart
  policy).
* `deletion`: the worker and the lease; that a request inside `provision()`, the open
  operation, the routing worker and a save each get to their end, by their own timeouts;
  a request that nobody has sent yet may never be sent.
* `reconciliation`: the workers and the lease.
* `logs`: the handler and reader threads and their write timeout, the accept thread, the
  API's reads of the socket as long as its browser has not stalled, and the end of
  `stop()`. So `LinesArrive` speaks of a browser that takes what it is sent; `StopReturns`
  and `ClosedIsReleased` of all of them. Without the write timeout a browser that stalls
  would keep `stop()` waiting, which is the mutant of `StopReturns`.

Nothing is assumed of administrators, operators, containers, browsers or faults.

The two violated runs state sentences of the repository's documents; `PROJECT.json`
quotes them under "findings". `PreviewIsServed` is conditioned on `crashes = 0`: the gaps about
the gateway below say what a crash can break.

### Known gaps

What the models also show of the code, where no run of its own keeps it.

Deployments and gateway:

* The containers of a deployment whose recovery is uncertain are to be preserved, but a
  database error in the transaction that records this, with one worker and nothing else
  wrong, removes them: `except Exception` (`deployments/worker.py:143`) handles it as an
  unexpected failure, with the cleanup, and the deployment is `FAILED` with a failure no
  reconciliation looks for. `jobs_uncertain_error` is the run; `UncertainIsPreserved` passes
  in `jobs_one_worker`, where this error does not happen.
* An overtaken worker may still switch `project_runtimes` (`runtime/repository.py:109`
  updates it without the claim token), and may still remove containers when its rollback
  or its diagnostics fail before the claim is looked at (`deployments/worker.py:188`),
  although `src/project-docs/plans/2026-08-12-deployment-diagnostic-log-retention.md:256`
  says that fencing keeps a worker without its claim from deleting the runtime.
* A worker that dies between the removal and the start of the gateway: the next attempt
  starts it on the network of the candidate (`runtime/gateway.py:312`) with the
  configuration of the previous generation, and fails without a preview, against
  `src/README.md:100-101`.
* A worker that dies between the switch of the row and the write of `last-good.config`
  leaves the file stale; `recover` reports the deployment active without writing it
  (`runtime/gateway.py:70`), and the recovery of a later crash reloads it and takes the
  active generation out of service, against `src/project-docs/architecture.md:701-702`.
* A worker that dies between the reload and the rebase: `recover` adopts the generation
  (`runtime/gateway.py:131`) without recreating the gateway on its network, so a deployment
  can succeed without answering on the stable port, against
  `src/project-docs/plans/2026-08-11-running-gateway-network-rebase.md:31-32`.
* A worker that dies between the switch and `_retire_previous` (`runtime/gateway.py:222`)
  leaves the containers of the previous generation behind, and between the switch and
  `promote_candidate` (`:221`) services without a restart policy; the next attempt reports
  the deployment active and looks no further (`:70`).

Event stream:

* `receive()` reads the events and then the status in another transaction
  (`deployments/event_stream.py:111`): the end may be sent before the last row, against
  `src/project-docs/architecture.md:818`. `PageConverges` holds because the page fetches the
  rows again at the end.
* A page whose status poll sees the outcome before the stream does closes the stream and
  does not read the events again (`useDeploymentEvents.ts:31`).

Routes:

* A route can be `FAILED` although the Edge does not serve its `applied_hostname`: the
  file could not be restored (`runtime/edge.py:488`; an `OSError` is not turned into
  `UNCERTAIN`), or what was restored is the leftover of a transaction that another worker
  died in. `SettledIsServed` holds because it speaks of `ACTIVE` and `INACTIVE` only.
* After a restart of the worker, the request to disable a route is not claimed as long as
  the gateway of an applied route is stopped, since `reconcile_startup` fails
  (`public_routes/worker.py:84`), against `src/project-docs/architecture.md:607-608`.

Reconciliation:

* Two worker processes (a lease that ran out under a live one): one observes the target as
  the running generation, a newer deployment switches, and the first adopts the target,
  overwrites the row and retires the newer generation; or it removes the containers of a
  target that another has adopted meanwhile.
* An outage of Docker is read as the absence of the gateway (`runtime/docker.py:417`,
  `runtime/gateway.py:79-82`), so a target that may be running counts as safe to retry or to
  clean up, against
  `src/project-docs/plans/2026-08-05-runtime-retention-and-reconciliation.md:70` and `:103-104`.

Settings and database:

* A secret variable that was removed and is added again, or one whose first save failed
  after it was written, restarts at a version whose file exists with other content: the save
  answers `SECRET_STORAGE_FAILED` for ever (`projects/service.py:217`, `secrets/store.py:67`).
* A request that fails after the last phase records `FAILED` with the phase `ACTIVE`; the
  retry finds nothing to do and leaves the row `PROVISIONING`
  (`project_database/service.py:97-98`), against
  `src/project-docs/plans/2026-08-03-managed-database-and-environment.md:57`.
* A request that dies between `CREATE DATABASE` and its comment leaves a database without
  its mark, which every later request refuses as `OWNERSHIP_CONFLICT`.

Deletion:

* A gateway container that was created before its row of `project_runtimes`
  (`runtime/gateway.py:176-183`), whose deployment then failed, is not expected by the
  teardown: the deletion is `FAILED` with `PROJECT_RESOURCES_UNCERTAIN`, also after every
  retry (`listed` is the variable that tells).
* A worker that takes over while the other is inside `docker rm` may find less than it
  recorded and fail for good, until the administrator retries. A worker of a deployment
  that was overtaken before the drain may still issue a late Docker command after it; the
  model's operation ends before the drain does. An `OSError` in the helpers of the teardown
  is caught by nobody and ends the worker process.

Live log:

* An `OSError` of `accept` ends the accept thread and with it the broker, until the worker
  process is restarted (`runtime/log_stream_broker.py:148`); `LinesArrive` speaks of
  connections that were accepted.
* Connections whose future was cancelled by `stop()` keep their permit and socket until the
  process exits; a worker that is killed leaves its `docker logs` children running.

## Theorems

TLAPS proves what follows for every value of the constants that the named assumption of the
module allows; the assumptions type the constants (sizes and budgets are positive), keep the
absent value `None` apart and say
nothing else of the instance. An inductive invariant was model-checked on the instances of
the runs, and some larger ones, before it was proved. What stands with TLC alone is at the end.

For any sets of deployments, projects and workers, any retry budget and any number of faults,
from `JobsAssumption`:

* `DeploymentJobs_proofs`, types: `TypeCorrect`. The invariant is `TypeOK` with `ClaimHeld`: a
  worker inside `run_once` has a claim. Without it the rows a worker writes would not
  be known to be rows.
* `DeploymentJobs_proofs`, the two tables: `StepEffect` shows that every step has one of seven
  effects on the tables. From it: `TablesAgree` and `OneOpenDeployment` (inductive
  together: a claim or a stage never opens a settled deployment because the tables
  agree), `SettledIsFinal`, `DrainedForGood`, and the refinement
  `QueueImplementsLifecycle`.
* `DeploymentJobs_proofs`, the claims: `BudgetIsKept`, by an invariant that ties a claim's
  token to the attempt, an idle worker to no claim, and a job that can be claimed without a
  further fault to an attempt that is left; and `HolderDecides`.
* `DeploymentJobs_proofs`, the preview: `ActiveHasContainers`, `SucceedsActive` and
  `UncertainKeepsContainers`, under the hypothesis `OneWorker` (at most one worker), the
  first and the last also under `~LateErrors`; these are the conditions of `jobs_one_worker`, and Known gaps,
  `jobs_late_error` and `jobs_uncertain_error` say what happens without them. `PreviewInv` says what the single
  worker relies on: before the switch its deployment is not the active one, from `starting`
  on it has containers, after the switch it is the active one and the deployment it is
  about to retire is another of the same project, whose recovery was not uncertain; what
  it rolls back is not active; and once a recovery is found uncertain that is the failure it
  has in hand (`Noted`), which is what keeps it away from the cleanup.

For any sets of pages and subscriptions (a finite number of subscriptions), any number of
permits, any page size and window, and any bounds on events and faults, from
`StreamAssumption`:

* `EventStream_proofs`: `Permits`, `Contiguous` and `Converges`. `PermitInv` counts the
  subscriptions between `open()` and the end of `close()`. `WireInv` is the heart of the
  second: the first messages on the wire of a page are the rows after the one it read last,
  up to the cursor of its subscription, and nothing but the end or an error follows them.
  It needs `SubInv` (a subscription reads ahead without a gap) and `LinkInv` (a subscription
  serves one page, and only a page whose effect wants it).
* The last needs in addition what the queries returned (`QueryOf`: the data are the newest
  rows of some moment, for a page that was told the end of a moment not before the outcome)
  and what the live items are (`LiveOf`): the data and the live items together have the
  newest `Window` rows up to the one that was read. That alone is not inductive, because
  the 101st item pushes out the first in order of arrival, not of age. While the first fetch
  of a mount is under way the live items are the last rows up to the one read (`Fresh`). Its
  response may be older than they are; the page then goes back and reads rows it has, which
  are ignored, and the items stay in increasing order with what follows them (`Ordered`); or
  it goes back behind a full window and reads rows it has no longer, each of which pushes
  out an item it will read again later (`Rotated`). `OldestIsPushedOut` shows that in each
  case what is pushed out is not among the newest rows. An order that none of these covers
  would need a second fetch that changes the data of a mounted page; only the one after the
  end does, and it closes the source.

For any set of deployments and any bounds on crashes, failing commands, stops and attempts,
from `GatewayAssumption`:

* `Gateway_proofs`: `ActiveHasContainers`, `NothingServedIsRebuilt` and `PreviewStaysServed`.
  `GatewayInv` holds through any crashes. It says which side of the commit each place of the
  worker is on (`WorkInv`), that a deployment nobody attempted has left no trace
  (`AttemptsInv`), which containers exist (`UpInv`), and what the file and NGINX have where the
  next command depends on it (`ConfigInv`, `LastGoodInv`: the last good configuration of an
  open deployment is only there if it is active, which is why `recover()` may rebuild what it
  does not find there).
* `CalmInv` is about states without a crash and with at most one failing command: for every
  place of the worker, which configuration is written and loaded and on which networks the
  gateway is, with the one failure spent or not. The undo restores the previous generation
  because at each of its places the networks still tell whether the container was recreated.

For any sets of projects, hostnames and workers, from `RoutesAssumption`:

* `PublicRoutes_proofs`: `HostnamesHaveOneOwner`. `StepEffect` shows that a step either
  leaves the requested hostnames alone and applies or removes one inside its row, or
  requests one that no other row asks for or has applied; both keep the hostnames apart,
  so the invariant is inductive with the types of the two columns.
* `PublicRoutes_proofs`: `TypeCorrect`. `TypeOK` alone is not inductive: `TypeInv` adds
  that a worker that restores the Edge has the error it goes on with, and that a claimed
  row has a hostname, without which the candidate a worker writes would not be known to be
  a configuration.
* `PublicRoutes_proofs`: `SettledRoutesAreServed` and `AppliedAfterServed`. `ServedInv` says what
  the worker with the lock knows (`SwitchKnows`): the applied rows are still those it read,
  the route it works on is not settled, even if its claim was lost since, what an undo
  goes back to has every settled route, and the file and the loaded routes are its candidate
  where it counts on it. It is stable because only the holder of the lock changes the file,
  the loaded routes and the applied columns (`LockAgrees`), and a settled route has no claim
  (`SettledIsClosed`).

For any sets of requests, editors, variables and values, and any bounds, from
`DatabaseAssumption` and `SettingsAssumption` (the absent value is none of the rows, roles,
holders or values, and what a form says besides a value is no value):

* `Project_proofs`, its first two parts (the lemmas about the database that the settings and
  the deletion share, and the settings): `SettingsTypeCorrect`, `RecordedAlwaysUsable` and
  `ReferencesAlwaysResolve`.
  `DatabaseInv` says that what the row, and every request that read it however long ago,
  has passed is there in the cluster: nothing of it is ever undone while the project
  lives. It does not mention the locks, so the locks are not what makes the row true. For
  the references they are: `SettingsInv` says that one editor at a time is between the
  lock and the end, that what it has resolved resolves (a file is written once and never
  changed), except for the one file it is about to write, which does not exist yet.

For any sets of requests and workers and any bounds, from `DatabaseAssumption` and
`DeletionAssumption` (the thread of the settings is no worker, the absent value is neither):

* `Project_proofs`, its last part: `NothingIsLeftBehind`, `PhasesAreDone` and `RemovalIsOutOfUse`.
  `Facts` says what has come to an end when a phase begins; the invariant is that it holds
  for the recorded phase and, for a worker about to advance, for the next (`Found`), and
  that no worker is ahead of the record. It is stable because none of it comes back while
  the project is being deleted (`Persists`): an overtaken worker removes what belongs to
  its phase and adds nothing, and everybody else is refused by the status of the project
  or has been waited for. For the database this needs `RequestsInv`: a request changes the
  cluster only while it holds the project row, which the deletion request waits for; a row
  never disappears before the end; and without one there is nothing in the cluster, so the
  phases that skip a project without a row skip nothing. The bound on the attempts, and
  that a claim is never given up without a fault, come from the same invariant: under the
  claim no authorization fails (`OnlyTheLostAreRejected`).

For any set of workers and any bounds on attempts, requests and faults, from
`ReconciliationAssumption` (the absent value is no worker, generation or outcome):

* `Reconciliation_proofs`: `ActiveGenerationStays`, `OutcomeIsAlwaysTrue`,
  `LatestClaimFinishes` and `DrainedForGood`. The part of the invariant about the row
  (`RowInv`) holds whoever overtakes whom: a claimed row leaves an attempt or has cost a
  fault (`Budget`), and the holder at work knows the action and the attempt of the row
  (`ClaimInv`), which is why a finish under the claim is for the action that is requested.
  The part about the containers is conditional on one worker at a time: `AloneInv` says
  that this is what `overlapped` remembers, and `Relies` what that worker has read and
  nobody has changed since, from place to place of `recover()`, the cleanup and the newer
  deployment; without it a restored file or a removal would not be known to concern a
  generation the row does not name.

For any number of connections, permits, lines and faults and any capacity of the queue and
the socket, from `LogStreamAssumption`:

* `LogStream_proofs`: `Faithful`. `Lines(frames, o, n, m)` says by positions that the lines of a
  pipe among some frames are those after the first `n`, up to the `m`-th, each once and in
  order. Its lemmas are what a queue does: a line that is appended extends the stretch
  (`AppendLine`), one that is taken shortens it (`HeadLine`), other frames leave it alone, and two
  adjacent stretches make one (`Concatenated`). `FlowOf` states the whole way in these terms:
  for each pipe the lines up to some `a` arrived, those up to some `b` are on the wire, the
  next is in the handler's hands or not, and the rest, up to what the reader has read, is in
  the queue. The queue is shared by two readers, so each pipe has its own `a` and `b`. What is
  in the queue counts only as long as the handler takes from it and there is a browser to
  send to. That "end" comes last is `EndOf`: a reader is gone only when the child is and it
  has read all, its mark is behind its lines in the queue, and the handler ends after both
  marks and an empty queue.
* `LogStream_proofs`: `Bounded`. `PermitInv` counts a permit for every connection that has a
  handler or had one cancelled, and says that the accept thread only runs while the broker
  is up; a child belongs to a connection that has a permit (`PlaceOf`).

Model-checked only:

* liveness: `EverySettles`, `RequestsFinish`, `EveryRowIsShown`, `DeploymentSettles`,
  `DeletionEnds`, `ReconciliationEnds`, `ClosedIsReleased`, `StopReturns`, `LinesArrive`. Weak
  and strong fairness rest on ENABLED, which the installed provers do not handle.

Every property is shown to depend on the code by a mutant: an operator defined next to
the one it replaces, named for the mistake it makes (`CreateUnindexed`,
`FencedByDeployment`, ...).

## Not modelled

* The broker of log snapshots (`runtime/log_broker.py`): it has the accept thread, pool and
  permits of the live broker and answers once.
* Command runner, git client, diagnostics collector: one call each; their outcomes are the
  nondeterminism of the modelled commands.
* Authentication, configuration, the connection pool, the HTTP application, the rest of
  the front end: no state that a second actor changes, or wiring. That provisioning
  requests hold connections of the pool while they wait for a lock is not modelled.
* Redaction, validation and rendering of configurations: functions of one input, whose
  results are abstracted to what the properties tell apart.
* Ports, labels, disk usage and image sharing: two services with the same image count as
  two images in the code's teardown, as one kind in the model.

## Plan

1. The broker of log snapshots, with the part of `LogStream` it shares.
