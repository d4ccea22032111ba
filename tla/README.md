# Porter: verification models

TLA+ models of the parts of Porter whose correctness depends on the order of
concurrent steps, the TLC configurations that check them on small instances, and
TLAPS proofs of their safety properties for any size.

    tlc -config WorkerPool.cfg MCWorkerPool       # or any other cfg, see "Runs"
    tlapm WorkerPoolProofs.tla                    # or any other *Proofs module

Paths below are relative to the repository.

## 1. The system

Porter deploys applications to the Kubernetes clusters of its users and
provisions the clusters, databases and registries themselves. It consists of

- the **API server** (`api/server`, `cmd/app`): HTTP and websocket handlers over a
  SQL database, clusters (through `internal/kubernetes` and `internal/helm`) and
  the provisioner. Handlers run concurrently, in as many processes as are
  deployed, and hardly ever in a transaction;
- the **provisioner** (`provisioner`): a second HTTP and gRPC server on the same
  database. It adds operations to infrastructures, spawns a Kubernetes job for
  each, answers the callbacks of those jobs, relays their logs through Redis
  streams, and moves finished streams to storage;
- the **worker** (`workers`, `internal/worker`): a process that accepts background
  jobs by HTTP and runs them on a pool of goroutines;
- the **clients**: the dashboard, the command line (`cli`), GitHub workflows and
  webhooks.

### Components with a model

| component | state | operations | interacts with | what is hard | correct means |
|---|---|---|---|---|---|
| worker pool (`workers/main.go`, `internal/worker`) | the buffered job channel, the pool of workers' channels, one goroutine per accepted job, one per worker, the dispatcher | enqueue, dispatch, hand over, run, register again, shut down | the HTTP server's `Shutdown`, `main()` | every goroutine interleaves with every other; a shutdown meets jobs in each of their places | no accepted job is lost or run twice; no worker blocks on the pool; a shutdown ends |
| infrastructure provisioning (`api/server/handlers/infra`, `provisioner/server/handlers/{provision,state}`, `provisioner/integrations/provisioner/k8s`) | the infra row and its status, its operations and their status, the row of the cluster, database or registry, the messages pushed to Redis | create, update, retry, delete; apply and destroy; the three callbacks; replacement of a pod | API server → provisioner by HTTP, provisioner → Kubernetes job, job → provisioner by HTTP, provisioner → Redis | check and act are in two processes; writes in sequence without a transaction; the job controller retries | one operation at a time, an operation that ended stays so, rows and status follow the latest operation |
| stream cleanup (`provisioner/integrations/redis_stream/global.go`, `provisioner/server/grpc/store_log.go`) | a state and a log stream per operation, the global stream, the files in storage | push lines and updates; read, store and remove the streams of an operation that ended | pods by gRPC, callbacks through the global stream, storage | reading loops over streams that still grow; crashes between store and remove; messages delivered once | nothing is removed before it is stored; what is announced is cleaned up |
| operation streams (`api/server/handlers/infra/stream_*.go`, `provisioner/server/grpc/get_{log,state}.go`, `redis_stream/operation.go`) | three goroutines, three contexts and a channel in the provisioner; two goroutines, a context and a channel in the API server | watch logs, watch state | client by websocket, gRPC call, Redis | every goroutine must be woken by whichever ends first; a channel closed while others send to it | no send on a closed channel, no goroutine left behind, both sides end |
| stacks (`api/server/handlers/stack`, `internal/stacks`) | the revisions of a group of releases and an environment group, each with a number, a status and the Helm revision of every release | create, add and remove an application or a group, change the image, roll back, rename, delete; the hooks that a release upgrade and a group update end with | Helm, environment groups, the release handlers | every change reads the latest revision and appends a copy with the next number; Helm's revisions are counted, not read | revisions are kept and numbered without a gap; the latest one is what runs; a rollback brings back what ran |
| environment groups (`internal/kubernetes/envgroup`, `api/server/handlers/namespace`, `v1/env_group`) | a configmap and a secret per version, the applications listed in an annotation, the old form without versions | update, convert, delete, attach, detach, roll out to the listed releases | Kubernetes, Helm, the dashboard's sequences of calls | a version is made by two calls; the list is read and written back; conversions race with updates | a version is never rewritten, its two halves agree, no value and no list entry is lost, applications are synced to the latest version |
| preview environments (`api/server/handlers/environment`, `webhook/github_incoming.go`, `cli/cmd/apply.go`) | the row of the deployment of a pull request, its namespace, the runs of its workflow | webhooks opened/closed, enable, reenable, trigger, delete, and what a run calls: create, update, finalize | GitHub, the workflow, Kubernetes | row, namespace and run are made by three calls in another order by each handler; a queued run starts after a delete | a namespace belongs to an active deployment; a closed pull request stays torn down |
| helm releases (`internal/helm`, `api/server/handlers/release`) | Helm's record of each revision: status, values, manifest | install, upgrade, deploy by webhook or batch, roll back, uninstall; forcing a way past a stuck operation or a removed API | Helm, the cluster | records are written over by hand; stuck and slow operations look the same | one operation at a time, one revision deployed, and it is the one that runs; a record is of its own revision |
| helm revision tracker (`workers/jobs/helm_revisions_count_tracker.go`) | a bucket of backed-up revisions | list, back up, delete | Helm's records under the requests above, the worker pool | list, backup and deletion are apart, with requests, failures and crashes between | nothing recent and nothing without a backup is deleted |

Of the Kubernetes agent, the command line, the dashboard and the repositories the
parts that the table's components call are in their models.

### Components without a model

| component | what it does, and the state it keeps | why it has no model |
|---|---|---|
| authorization policy (`api/server/authz`) | none: a check of a request against a policy document | a pure function of one request; a candidate for operators against a reference definition |
| usage and limits (`internal/usage`, `ee/usage`) | a cache of the counts of a project | refreshed as it is read, nothing is decided on it that a later read does not correct |
| recommender job (`workers/jobs/recommender.go`, `internal/opa`) | results of policies, each written by itself | nothing in its order matters; how it is enqueued and run is in `WorkerPool` |
| terraform state (`state/get_raw.go`, `state/update_raw.go`) | one encrypted file per infra | one read or one write; terraform's lock is outside the repository |
| sessions, tokens, invites, roles | rows read or written by one statement | no order of steps to go wrong beyond the database's |
| registries, integrations | kept by the other services | clients of external systems |
| encryption, key rotation | migrations run by hand | run alone |
| notifications, billing, analytics, routing, images; the rest of the command line and the dashboard | nothing that the others depend on | I/O and presentation |

`PROJECT.json` lists them with their sources, and lists the hazards of the code,
each at its line, with the properties that cover it, and a note on the cases that they exclude
or, where none covers it, on why. It has the ones that weigh
most; section 7 has others.

## 2. The modules

    JobLifecycle  <--refines--  WorkerPool         <--  WorkerPoolProofs
                                InfraProvisioning  <--  InfraProvisioningProofs
                                GlobalStream       <--  GlobalStreamProofs
                                OperationStream    <--  OperationStreamProofs
                                StackRevisions     <--  StackRevisionsProofs
                                EnvGroups          <--  EnvGroupsProofs
                                PreviewDeployments <--  PreviewDeploymentsProofs
                                HelmReleases       <--  HelmReleasesProofs

Each `MC*` module extends its component for TLC. Each component module has a
section of *faulty variants*: what a plausible mistake would make of a definition.
They are no part of the specification; each one, put in the place of the definition
it varies, makes a property of the runs fail, which shows that the property depends
on the code.

### WorkerPool, JobLifecycle

Every goroutine is a program counter, every channel operation one action; an
unbuffered channel is a joint step of its two ends.

| variables | code |
|---|---|
| `request` | the POST handlers of `workers/main.go`, which send to `jobQueue` |
| `jobQueue` | `make(chan worker.Job, envDecoder.MaxQueue)` |
| `dispatcher`, `created`, `stopped` | `Dispatcher.Run`: creating workers, its `select`, stopping them one after the other |
| `handoff`, `target` | the goroutine `Run` starts per job: receive a worker's channel, send the job to it |
| `pool` | `d.WorkerPool`, of capacity `maxWorkers` |
| `worker`, `running` | `Worker.Start`: register, `select` on its channel and `quit`, run |
| `runs` | how often a job's `Run` was called (history) |
| `main` | serving, `server.Shutdown`, `d.Exit()`, return |

`StopWorker` is the send on `quit`, which a worker receives only in its `select`, so
that the dispatcher waits for a running job. `UUIDFails` is the error return of
`Dispatcher.Run`. `ShutdownTimesOut` is the 30 s of `shutdownCtx`.

`JobLifecycle` is what callers may rely on: each job goes new, accepted, running,
done; at most `MaxWorkers` run; nothing moves after the process has ended.
`WorkerPool` implements it with `status` read off the places of a job
(`jobStatus`) and `up` off `main`.

### InfraProvisioning

One infrastructure. A request makes at most one operation, which has one job, which
has at most two pods (`BackoffLimit` = 1), so that a request names all of them.

| actions | code |
|---|---|
| `CreateInfra`, `Receive`, `CheckLatest`, `MarkDestroying` | `create.go`, `update.go`, `retry_create.go`, `delete.go`, `retry_delete.go` of the API server |
| `AddOperation`, `PushStarted`, `Spawn`, `SaveStatus` | `apply.go`, `destroy.go` of the provisioner, and the job they create |
| `Report`, `SaveOperation`, `PushOperation`, `PushGlobal`, `SaveInfra`, `FindRow`, `WriteRow`, `SaveInfraAgain` | `create_resource.go`, `delete_resource.go`, `report_error.go` |
| `PodExits`, `PodDies`, `RestartPod` | the Kubernetes job controller, external |
| `HandlerFails`, `ReportFails` | the error returns of all of these |

Every write is a step: no handler opens a transaction. The order of the writes
differs between `report_error` and the other callbacks, as in the code. The status
is all that is kept of the infra row: each handler assigns it and saves the whole
row, so that a write sets it whatever was read before. A Redis push is an append.
The shape of the infra (`Resource`) decides whether a row is looked for
before one is created (not for a registry) and whether the infra is saved a second
time (a database). `nextRow` is the auto-increment of the row ids.

`Hazard` says what the environment may do:

- `overlap`: a request is made while the handlers of another one run;
- `impatient`: a request is made while another's job is not over;
- `slowSave`: a job reports before the handler that spawned it has saved the infra;
- `failure`: a call returns an error, and the handler with it;
- `podDeath`: a pod dies before it reports or before it exits.

The API server's documentation forbids none of them. They are a constant so that
a property can be checked, and proved, under exactly the hazards it survives, and
shown to fail with the one it does not. Outside the model: S3 and environment-group
infras (no row, or a configmap), credentials, the terraform state, a pod that dies
while its callback is being handled (the callback goes on and is followed by a second
pod; `ReportFails` and `PodDies` give its effects but not the overlap of the two).

### GlobalStream

A Redis stream is `pushed` less the first `removed` entries: entries leave it only
all at once, with its key. The pods push through `StoreLog` (`StoreLine`,
`StoreUpdate`), report (`SaveOperation`, `SendOperationCompleted`,
`PushToGlobalStream`) and may be replaced (`Restart`). The listener is a program
counter over `cleanupOperation`: `Load` the state file, `ReadLength` (XLEN),
`Read` (XREAD, at most `ReadCount` entries, blocking if there is none), `Write`,
`Delete`, first for the state, then for the logs. `CleanupFails` is an error return
of `cleanupOperation`, `XReadGroupFails` one of the listener, `Crash` a restart:
a new listener asks for new messages only, and what the old one had been given is
never given again.

`StoreUpdate` pushes any update of a resource to any status, or nothing: what
`StoreLog` makes of a line of terraform's is abstracted. `Read` applies the updates
of one XREAD together, the last one of each resource winning, which is what applying
them in order comes to. Log lines are numbered. A `Mark` is a message that says
nothing of a resource.

Assumptions: the operations of an infra follow each other, the next one after the
one before was announced (what happens otherwise is `InfraProvisioning`'s subject);
the consumer group exists (`InitGlobalStream` creates it with the id `>`, a matter of
the Redis server, see section 7); there is one provisioner; `getOperationStatus`,
which derives a status for the alert and the file from the resources, is left out.

### OperationStream

One client that watches one operation, `Kind` = logs or state. In the provisioner:
`Watch` (waits for the call's context), `Ping` (every five seconds, gives up at the
second miss in a row) and the reader (`CheckRedisCtx`, `XRead`, `XReadCanceled`,
`XReadFails`, `SendEntry`); each sends to a channel of errors when it ends, a
goroutine closes that channel when all have ended (`CloseErrors`), the function
receives until then and cancels everything each time (`ReceiveError`). The API
server has the same shape with two goroutines (`SocketCloses`; `RelayEntry` and
`RecvFails`), `RelayError`, `CloseRelay` and `HandlerReturns`. The differences
between logs and state are those of the code: which context XREAD is given
(`redisCtx` or `ctx`), whether a failing write to the socket ends the receiver, and
that the log call returns at once for a completed operation. `ContextEnds` carries a
cancellation or an ended call from one process to the other.

### StackRevisions

One stack. `rows` are its revisions in the order of their rows; each has a number, a
status and, per application, the Helm revision it lists (`apps`, 0 for none).
`history` is what Helm has: the content of each revision of each application.

| actions | code |
|---|---|
| `CreateStack`, `AddApplication`, `RemoveApplication`, `PutSourceConfig`, `RollbackStack`, `AddEnvGroup`, `RemoveEnvGroup`, `DeleteResources`, `DropStack` | the handlers of `api/server/handlers/stack` up to the revision they append |
| `LoadStack`, `ReadLatest`, `ReadTarget` | the middleware that loads the stack, and the reads of a revision |
| `Install`, `Uninstall`, `UpdateTag`, `RollbackApp`, `ApplyGroup`, `DeleteGroup`, `HelmFails`, `GroupFails` | `helpers.go`: the work in the cluster, one application at a time, each of which may fail |
| `Save`, `LinkReleases` | the outcome, saved in the revision that was appended, and the database rows of new releases |
| `UpgradeRelease`, `HookReads`, `HelmHookAppends` | an upgrade of one release and `UpdateHelmRevision` of `internal/stacks/hooks.go` |
| `UpdateGroup`, `RolloutApp`, `RolledOut`, `GroupHookAppends` | an update of the group, its rollout and `UpdateEnvGroupVersion` |
| `RenameReads`, `RenameSaves` | `update_stack.go`, which saves all revisions as it has read them |
| `HandlerFails` | a database error |

`Copied` and `Appends` are the copy of a revision and `AppendNewRevision`. `happened`
notes what has disturbed the stack so far (an overlap, a rollback, a failure, a
rename, a removal); `ran` in a revision is what ran when it was deployed. Both are
history variables: no action looks at them, the properties do.

### EnvGroups

One group with one secret variable. A configmap is the version its placeholder names
(`ref`), the applications of its annotation, and who wrote it last (its
`resourceVersion`); a secret is a value. Version 0 is the old form.

| actions | code |
|---|---|
| `Update`, `ReadMap`, `ReadSecret`, `CreateMap`, `CreateSecret`, `AlreadyExists` | `CreateEnvGroup`: the next number, what the latest secret has, then two creations that do not overwrite |
| `ListReleases`, `Rollout`, `RolloutFails`, `RolledOut` | `GetSyncedReleases` and `rolloutApplications` |
| `PatchSecret`, `PatchMap`, `ReadOldForm`, `DeleteOldMap`, `OldFormGone` | `update_configmap.go` and `ConvertV1ToV2EnvGroup` |
| `Delete`, `DeleteSecrets`, `DeleteMaps`, `NotThere` | `delete_env_group.go` |
| `Attach`, `Detach`, `Uninstall`, `Upgrade` | the sequences of calls of `useChart.ts` |
| `Install`, `Deploying`, `InstallChart`, `InstallFails` | `handleSubmitAddon` of `LaunchFlow.tsx`, which does not wait for the deploy before it adds the add-on to the group, and the install of `release/create.go`, which may fail; also `create.go`'s own order, the install and then the group |
| `ReadMembers`, `WriteMembers`, `EditFails`, `CheckRevision`, `UpgradeChart`, `UninstallChart` | the handlers they call |

### PreviewDeployments

One pull request of one environment. `rows` are its deployments (more than one can
come to be), each a status and a commit; `due` the webhooks GitHub has still to send.
A handler is a `Plan`, a sequence of `insert`, `makeNamespace`, `dispatch`, steps that
save the row (`saveCreating`, `saveCommit` ...), `cancel`, `dropNamespace`,
`dropEnvironment` and `comment`, which `Admit` starts with what the handler has read and
whose steps `Insert`, `MakeNamespace`, `Dispatch`, `Save`, `Cancel`, `DropNamespace`,
`DropEnvironment` and `Comment` take one by one, while `Passes`, `Stops` and `CallFails`
leave some out as the code does when a call fails. A run (`StartRun`, `StopRun`,
`Apply`, `RunFails`) makes the calls of `cli/cmd/apply.go` to the handlers
(`GetDeployment`, `CreateDeployment`, `UpdateDeployment`, `UpdateStatus`,
`FinalizeDeployment`, `FinalizeWithErrors`). A save writes the whole row as it was read.
`torn` and `happened` are history.

### HelmReleases

One release. A record is kept under its revision and says itself which revision it
is, since the agent may write one over another (`TakeOver`, `RemapAPIs`). Helm is
external and modelled by what its actions do to the records and to what the cluster
`runs`: a pending record (`Makes`), the change (`Apply`, `ApplyFails`), the outcome
(`Supersede`, `RecordDeployed`). `Prepare` and `Refused` are the calls of
`cmd.Run` in `UpgradeReleaseByValues`; `Upgrade` with `CheckRevision`, `Deploy`
(`upgrade_webhook.go`), `DeployBatch` (`update_image_batch.go`), `Rollback`, `Install` and
`Uninstall` are the handlers. The tracker is `List` (`ListReleases`, which shows a release
for any of its records with one of the statuses asked for), `ReadHistory` (a later call, for
what is `Exceeding`), `BackUp`, `DeleteRevision`, `MoveFails`, `JobEnds`. A configuration is
`settings`, an `image` and whether the jobs are `paused`, which is what the properties tell
apart: a deploy changes the image alone, one of a batch pauses the jobs as well. The release
is one of the chart "job", the only one of which a batch deploys.
The model starts with any history, the last operation of which may have failed or be
pending.

## 3. Runs

A property is checked together with the hazards it is claimed for. In the four
models of section 2 with a `happened`, the property names the disturbances that it
does not survive, and is checked with all of them possible.

| run | what is explored | shown | states |
|---|---|---|---|
| `worker_pool` | 3 jobs, 2 workers, queue of 1, `NewUUID` may fail, a signal at any time | `JobInOnePlace`, `PoolNeverBlocks`; `AcceptedJobRuns`, `ShutdownEnds`; the refinement `ImplementsLifecycle` | seconds |
| `infra_sequential` | 2 requests on a cluster, all hazards but `overlap` | `OneOperationInProgress` | seconds |
| `infra_patient` | 3 requests on a database, pods die, clients wait for the job | `InfraShowsLatestOperation`, `RowsFollowStatus` | seconds |
| `infra_live` | 2 overlapping, impatient requests, fair | `OperationsEnd`, `EndsAreAnnounced` | seconds |
| `global_stream` | 2 operations, 1 resource, 1 fault of any kind, fair listener | `LogsKept`, `StateKept`; `AnnouncedIsCleanedUp` | under a minute |
| `operation_stream_logs` | 3 entries, Redis may fail, fair | `NeverSendsOnClosed`; `HandlerEnds`, `CallEnds`, `EntriesAreShown` | seconds |
| `stacks` | 3 changes of any of 11 operations, 2 under way at a time, 2 applications and a group, any call may fail | `NumbersWithoutGap`, `LatestIsWhatRuns`, `RecordsWhatRan`, `DeployingIsUnderWay`, `DeletedLeavesNothing`, `RevisionsStay` | 3.9 million |
| `env_groups` | 3 requests of 8 operations, all at a time, 2 applications, any call may fail | `SecretMatchesMap`, `SecretKept`, `MembersKept`, `SyncedToLatest`, `OneForm`, `VersionsStay` | 0.6 million |
| `preview_environments` | 3 calls of 9 operations and 2 runs, 2 of them under way at a time, any step may fail | `ClosedStaysTornDown`, `NamespaceIsOwned`, `ActiveHasNamespace`, `CommentNamesCommit`, `OnlyReenableRevives` | 2.6 million |
| `helm_releases` | 2 requests and a tracker job, 2 under way at a time, `Keep` = 2, up to 3 revisions to begin with, failures, crashes, removed APIs | `OneAtATime`, `DeployedIsWhatRuns`, `RecordsOwn`, `UpgradesFromView`, `DeployKeepsSettings`, `KeptOrBackedUp` | 5.4 million |

The other two runs check a property that a message or a comment of the code states and
that TLC finds violated; section 6 tells what they show: `global_stream_late` and
`stack_rollback` (4 changes one after the other, one application).

Deadlock is checked where the system has no reason to stop. It is not in
`worker_pool` (when the dispatcher has given up, handlers and `main()` stay
blocked: a known FIXME of `dispatcher.go`, which the liveness properties name as
`DispatcherGaveUp`), nor in `global_stream` and `global_stream_late` (a listener
that has nothing more to read rests), nor in the runs of stacks, groups, preview
environments and releases (clients need not ask for anything more).

### Why these bounds are enough

- **worker_pool.** Two workers compete for hand-offs and are stopped one after the
  other; three jobs fill a queue of one, both workers and still leave one waiting. A
  job in each place at once is reached. More of either repeats what two show; the
  safety properties are proved for any numbers.
- **infra_sequential, infra_live.** A hazard is between two operations: the
  check of one against the state of the other. Each operation has up to two pods.
  The safety properties are proved for any number of requests.
- **infra_patient.** Three requests: create, delete, create again, or create,
  failing update, retry. A database because it has all the steps (a row looked for,
  and a second save of the infra).
- **global_stream.** Two operations: the state of the second is built upon the
  first's. `ReadCount` = 2 with up to three entries on a stream (a first message, an
  update, the completion) gives loops of one and of two XREADs; `MaxLines` = 1 per pod,
  and a second pod doubles it. `Kept` has one status beside "deleted", which is what
  the file distinguishes: a resource is there or it is not. One fault, at every point;
  the proofs of the safety of the logs have no such bound.
- **operation_stream_logs.** Three entries: one shown, one sent, one being read.
- **stacks.** Two changes overlap, and a third finds what they have left, or prepares
  what they meet. `web` is linked to the group and `job` is not. All 11 operations are
  allowed in each place, so that every pair overlaps. `stack_rollback` needs four
  changes: create, change, roll back, roll back again; none overlaps and nothing fails.
- **env_groups.** Three requests: one makes the group, two race; or three race for a
  group in its old form. One secret variable: others share its configmap and secret.
- **preview_environments.** A pull request that is enabled, closed and reopened, with a
  run queued before and after; two runs because the second can overtake the first.
- **helm_releases.** Two requests race for a release that has a stuck operation already
  (from `Init`), with the tracker between. `Keep` = 2 in place of 100: the tracker
  compares positions with it and nothing else. `Pausing` = {FALSE}: upgrades let the jobs
run, so that the pausing of a batch deploy shows. An operation that a request is at work
  on is taken to last less than a minute (`Ages`): a slower one cannot be told from a
  stuck one, and section 7 says what happens then.

Bounds on counters are `MaxLines`, `MaxFaults`, `MaxEntries`, the sizes of `Job`,
`Request`, `Operation`, `Change`, `Call` and `Run`, and `MaxInFlight`; no other counter
needs one. Symmetry is used for safety runs only.

### Fairness

Weak fairness of every step of a goroutine or process that is ready to take it:
the Go scheduler runs every runnable goroutine, HTTP and database calls return (a
failure being a return), terraform ends, the job controller does its work. Strong
fairness is used nowhere. In `WorkerPool` it is per job and per worker: hand-offs
that wait for the same pool can be overtaken, but only by as many jobs as there are,
since each is handed over once. None is
assumed of what need not happen: requests, signals, time-outs, failures, faults,
deaths of pods, the client leaving, the removal of a stream, entries being pushed,
a pod's progress in `GlobalStream`. There, the listener is one
goroutine, so its steps are fair as a whole. `RestartPod` is fair in `infra_live`:
the job controller always replaces a failed pod while the limit allows it. The
models of stacks, groups, preview environments and releases state no liveness:
their handlers run from request to answer without waiting for one another, and what
a failure leaves undone nothing takes up again, apart from the tracker.

## 4. Proofs

All are of `Spec` (no fairness), for any values of the constants that satisfy the
module's `ASSUME`s. No theorem assumes that a set is finite, or bounds it, unless said.

**WorkerPoolProofs.** `PoolInvariant` is inductive: types, `StartedInOrder` (the
workers are an initial segment of the slice), `JobInOnePlace` and
`OneTokenPerWorker`. The last two need each other's company: a hand-off sends to a
worker that is not in the pool only because its channel was taken out of it once.
`JobNeverLostNorRunTwice` and `TokenNeverDuplicated` are parts of it.
`WorkersNeverStuck` follows by pigeonhole: the channels in the pool are distinct and
none is that of the worker registering, so there are fewer than `MaxWorkers`.
`PoolImplementsLifecycle`: every step of the pool is a step of `JobLifecycle` or none,
under the mapping that the module gives. It needs `RunningInvariant`, that exactly the
workers "running" have a job, which was handed over and which no other has: so a worker
about to be given one leaves a slot free, which is the bound of the abstract `Start`.
Assumptions: `MaxWorkers`, `MaxQueue` positive, `NoJob` not a job.

**InfraProvisioningProofs.** `InfraInvariant` (types, `StepsInOrder`,
`CleanedUpOnlyWhenOver`) is inductive whatever `Hazard` is. `StepsInOrder` says that
the counters of a request, its operation and its job agree; without it a push to the
global stream could precede the save. From it also `EndedOperationsStayOver`: only
`AddOperation` makes an operation "starting", and its handler then has none.
`OneOperationUnlessOverlap` assumes `"overlap" \notin Hazard`: `OneAtATime` adds that
one handler runs at a time and that, between its check and its `AddOperation`, no
operation is "starting". A job cannot reopen one, so nothing else disturbs that.
`LatestOperationIsShown` and `RowsDoFollowStatus` are for patient clients,
`Hazard \subseteq {"podDeath"}` (the second also for `Resource # "registry"`: each update of
a registry adds a row). `PatientInvariant` says that one request at a time is busy, with its
handler or its job, and that its operation is the latest one; how far the job can be while
the handler is where it is (`HandlerMeetsJob`); and what the callback handler has saved at
each of its steps (`SavedBy`). Neither property is inductive without the last: it is in the
middle of a callback that row, operation and infra disagree. A job that goes back to
"terraform", its pod replaced after it reported, finds what it saved itself, which is why
the second report changes nothing. `RowsInvariant` adds that
there is one row at most, that whoever writes it has looked it up, and that there is one or
none as the status says, but while a job is between saving the status and writing the row.

**GlobalStreamProofs.** `StreamInvariant`: types; what was removed had been pushed;
`QueueInvariant` (an operation whose pod was not replaced is in the global stream or
the batch at most once, and only if its pod has announced it); nothing has been removed
of an operation that was not given to the listener; `ReadingInvariant` (while
the first message is dealt with, `lines` are the lines up to `lastID`, `length` is that of the
stream, and what is about to be removed is in the file); and `LogsKept`. The argument: the loop
ends with every line in `lines`, `Write` stores them, and only then `Delete` removes
them, with no second visit to overwrite the file, since the message is not there
twice. `TypeCorrect` covers a stream that grows or vanishes under the loop.
`StateIsKept` adds `StateInvariant`, for operations with one pod each: pods follow one
another, so messages and the removals of state streams are in the order of the operations
(`InOrder`); and the state being put together `Reflects` the part of the stream that has
been read, and still has what was removed of earlier ones (`KeptIn`). `After` sets a
resource to what the last entry on it says, wherever the batches of XRead end.

**OperationStreamProofs.** `ChannelInvariant`: a channel is closed only when all its
senders have ended, and a function has returned only after that (a log call that
returned at once never started any). `SendsAreSafe` and `GoroutinesEnd`
follow, for logs and state alike. `TypeCorrect` needs that the pinger never goes on
past its second miss.

**StackRevisionsProofs.** `RowsInvariant`: the row of each working handler is there and
holds what the handler saves (`OwnRow`, and `CopyKept` for a rename), and every number
that was read is one that a row has, which stays true since rows only `Grow`. From it
`StackTypeCorrect`, `RevisionsAreKept` (nobody drops, renumbers or re-lists a revision,
however handlers, hooks, renames and errors interleave) and `NoGapInNumbers` (each
number but 1 follows one before it). `OrderedNumbers` adds `AloneInvariant`: until two
have overlapped at most one is in flight, and each number is the position of its row.
`DeployingHasItsHandler` holds whatever overlaps: `UnderWayInvariant` names, for each row
that is deploying, a handler whose own row it is (`WorksOn`), and a step may leave its own
row only by saving the outcome. The other three are about a stack whose requests follow one
another (no overlap, rollback or error). `LatestIsWhatRuns` and `DeletedLeavesNothing` speak of
rest only; `OrderlyInvariant` says what holds on the way there (`Doing`): what a handler has
still to do is not done, and what is done is counted, for the revision that it is to save
(`Makes`), for what it uninstalls (`Deletes`), and for what an upgrade or the rollout of the
group adds to the latest revision before the hook copies it (`Upgrades`, `Rolls`). That each
release names a resource of the stack (`LinkedBut`) is part of it: else the hook of an
upgrade would be left out. `RevisionsRecordWhatRan` follows from `RecordsInvariant`: as long as
nothing is removed, a Helm history only grows (`Extends`), and a revision notes what runs just
when it lists it.

**EnvGroupsProofs.** `GroupInvariant` is inductive for any set of requests. `Types`
adds to the types that there is a greatest version. `Alone` (a request that makes or
deletes versions is by itself until `happened` says that it overlapped), `OpOf` and
`Fresh` (whoever has still to write a configmap has not written it) hold always;
`SecretsInvariant` holds until a delete overlaps, `MembersInvariant` until anything that
makes or deletes versions does. `SecretsMatch` does not lean on numbers being read in
order: whoever finds the number of its version taken ends (`AlreadyExists`), so that
both halves of a version have one maker. `MembersAreKept` rests on the `resourceVersion`:
a list that is read stays that of the latest version, or the write that follows is
refused (`Unwritten`). `VersionsAreKept` needs `Makes` (an update never makes version 0)
and `OpOf`. A second invariant, `KeptInvariant`, has the other three. `FormIsOne`: when the
group has both forms, someone who converts it has still to delete the old one, and whoever
updates a group with an old form has found versions (`FormOf`); failures and overlapping deletes
are excluded. `SecretIsKept`: whoever has
written the configmap of a version, and not its secret, has the value given last, and all
other versions have both (`ValueOf`), also while edits of the list overlap. `ReleasesAreSynced`:
with requests one after another and none failing, a release that is not synced is among those
that the request under way has still to upgrade (`SyncOf`).

**PreviewDeploymentsProofs.** `PreviewInvariant` is inductive for any number of webhooks,
requests and runs. `Shape` ties a handler at work to what is `Left` of its plan and to
the row that it saves; the lemmas on `Rest` say once, for every plan, what may come
next, and the steps of Next are sorted by what they share (`StepKinds`: admissions, the
beginning of a run, a run's calls, handlers' steps and their ends). `OneRun` is what the
concurrency group of the workflow gives, `Alone` what `happened` means. Then: `Dropped`
(a namespace is gone before its row is saved as inactive), `Owned` (and whoever saves a
row as inactive again has found it so), `TornDown` (all that is admitted after a close
is deletions), `Committed` (from create or update to finalize the latest row has the
commit of the run), `Lively` (undisturbed, the row of a handler at work is active) and
`Paired` (undisturbed, an active row without its namespace has a handler that is to make the
namespace or to delete the row; a namespace is under an active row always). Each gives one
theorem; `ActiveNamespace`, of the last, is an equivalence only when nothing is under way.
`ClosedTornDown` is of the closing of a pull request's only row, with no deletion having
overlapped with anything, and excludes an "opened" or an enabling that makes a second row.
`CommentCommit` excludes creations, deletions and saves by webhooks and requests that overlap
with anything; calls may fail. `PreviewTypeCorrect` also says that no plan mixes two handlers.

**HelmReleasesProofs.** All six properties of the run, each as far as its hypothesis on
`happened` reaches. `Shapes` (types; what is at work tells its operation) holds always;
that there is a newest record, which every action asks for, is that a bounded set of
numbers has a greatest one, from the well-foundedness of Nat (`GreatestExists`).

- `RecordsInvariant`, while no request overlaps with an upgrade or a deploy, and nothing with
  an uninstall, jobs included: what an upgrade has read is still the newest record, so that
  writing it back is harmless. It gives `RecordsAreOwn` and `UpgradesFollowView`. A job that
  overlaps with an uninstall is excluded since it may delete the newest record of the next
  release of the name.
- `ExclusionInvariant`, while nothing overlaps with a rollback or an uninstall and no
  record is overwritten with another release: a pending record keeps others out as long as
  its operation is at work, which by the bound of `Ages` is less than a minute.
  `OneUpgradeAtATime` follows.
- `RunsInvariant`, when in addition nothing failed or crashed: what an agent may write back
  as deployed is what the cluster runs (`DeployedRuns`).
- `SettingsInvariant`, with nothing overlapping or failed: the newest record is what runs
  and a deploy has its settings, with the jobs paused by one of a batch
  (`DeploysKeepSettings`). It rests on the three before it.
- `KeepsInvariant`, while nothing overlaps with an uninstall, jobs included, and no record is
  overwritten with another release: what a job lists, it lists with the values it was made with, and for each
  revision gone there is a backup and the newer ones that are to stay. `DeletedIsBackedUp`
  assumes `KeepAssumption`, that the number of revisions kept is positive.

**Only model-checked:** all liveness (`AcceptedJobRuns`, `ShutdownEnds`, `OperationsEnd`,
`EndsAreAnnounced`, `AnnouncedIsCleanedUp`, `HandlerEnds`, `CallEnds`, `EntriesAreShown`):
fairness and ENABLED are beyond the prover. Every invariant and every action property of a
passing run is stated by a theorem above, under the hypotheses on the history that the
property itself has. Where a type invariant is proved no run checks it again.

## 5. What the properties leave open, on purpose

- `AcceptedJobRuns` and `ShutdownEnds` except a dispatcher that gave up (the FIXME).
- `OperationsEnd` is stated without failures and deaths. With two dead pods, or a job
  token older than six hours, nothing ends an operation; section 7 has the
  shortest way to it.
- `LogsKept` is of operations whose pod was not replaced. A second pod logs to the
  same streams and its report replaces the logs file; nothing promises otherwise.
- `AnnouncedIsCleanedUp` holds until the first fault: messages are not acknowledged
  and not read again, so one that a fault interrupts is never cleaned up. `LogsKept`
  and `StateKept` show that its data then still is on its streams.
- `EntriesAreShown` allows for a reader that a failing XREAD has ended.
- The properties of stacks, groups, preview environments and releases name what they do
  not survive, mostly an overlap of certain requests or a failed call. Each exception was
  needed: TLC has a counterexample without it, and section 7 tells the ones of interest.

## 6. Findings

Each is a run in which TLC finds the property violated.

1. **The listener blocks for good** (`global_stream_late`). The reading loops of
   `global.go` end when `processed` equals a `length` asked for once. An entry more
   (of a second pod, between XLEN and XREAD) takes `processed` past it: the next
   XREAD blocks, and nothing of any infra is cleaned up any more.
2. **A rollback to something else** (`stack_rollback`). `update_source_put.go:128` adds
   one to the Helm revision of each application instead of reading it from the
   release, as the other handlers do. A rollback makes Helm revisions that it does not
   save either, so that after one the count is behind: a later rollback to such a
   revision brings back other values and is reported with "The stack was rolled back
   to version %d" (`rollback.go:130`).

## 7. Observed, and not the subject of a run

Most of these were met as counterexamples while properties were being stated.

Provisioning and streams:

- Two operations in progress. `update.go:73` blocks a request "if the last operation is
  in a "starting" state". The check is in the API server, the addition in the
  provisioner, nothing is held in between: with `"overlap"` in `Hazard`,
  `OneOperationInProgress` fails with three requests.
- Two terraforms at a time, without any overlap: `create_resource.go` saves the
  operation as completed before its other writes. When a later one fails, the pod is
  replaced, while the next request is accepted ("Operation currently in progress"
  notwithstanding) and runs its own.
- Operations that never end. `delete.go:60` asks to "try again when latest operation has
  completed". When the provisioner's handler fails after `AddOperation`, no job exists,
  and the operation is "starting" for good: with `"failure"` in `Hazard`,
  `OperationsEnd` fails.
- A late status. `apply.go` saves "creating" after it has spawned the job; a job that
  reports at once has its status overwritten: with `"slowSave"` in `Hazard`,
  `InfraShowsLatestOperation` fails.
- A state call that never returns. The reader of the state gives XREAD `ctx`
  (`operation.go:302`), the reader of the logs `redisCtx`. When the stream is removed the
  function cancels `redisCtx`, which the former does not look at: with `Kind` = "state",
  `CallEnds` fails.
- `InitGlobalStream` creates the group of a stream that does not exist with the id
  `>`, which `XGROUP CREATE` does not document, and `main()` ignores its error. An error
  of XREADGROUP is sent to a channel that nobody reads: the listener stops.
- A second report of an operation runs its cleanup again and replaces the logs file.
- `Ping` looks at no context: after the client has left, the call lives on until the
  stream is removed. `GetLog` ends with the operation, before the logs file is there.
- An infra whose first `apply` call failed has no operation; every later request for
  it is refused for want of a latest one (`Accepted` in the model).
- Every update of a registry infra adds a registry row, and a delete removes the first.
  Credentials that an update changes are never saved.
- A job's name ends in the time in seconds; two of a kind within one collide. Its token
  expires after six hours.
- `MAX_QUEUE` bounds the channel, not the jobs that wait: the dispatcher starts a
  goroutine for each.

Stacks:

- Changes that overlap give two revisions the same number (`OrderedNumbers` without
  its premise), and nothing in the database keeps them apart. A rollback to the number
  takes the first of them.
- A rename saves all revisions as it has read them, and one that was saved meanwhile
  goes back to "deploying".
- A rollback does not uninstall what its target did not have; such an application keeps
  running, unlisted, and stays when the stack is deleted.
- The Helm revision a stack wants to go back to may have been moved to the bucket by the
  tracker.

Environment groups:

- The comment at `envgroup/create.go:122` says that the secret is created first; the
  configmap is. When the secret then fails, the latest configmap names one that is not
  there, and the next update starts from an older secret.
- An update that sends back the placeholder of an older version (the command line can
  name one) for a variable that the latest secret lacks leaves the placeholder dangling.
  One that reads between another's configmap and secret takes the previous value along.
- A rollout writes back the configuration it has listed: an upgrade made meanwhile is
  undone. An application that is attached while an update reads the list is missing from
  the next version.
- The dashboard goes on to upgrade the chart when the edit of the group failed. It adds an
  add-on to the group whether or not its deploy succeeds: after a failed one the group lists a
  name that no release has.
- When a conversion's last call fails, the old form is back after the group is deleted.

Preview environments:

- An inactive deployment becomes "failed" or "created" when a run that was queued before
  it was deleted ends, though `update_deployment_status.go:94` says "a deployment from
  "inactive" state can only transition to "creating"": the handlers that finalize do not
  look. After a closed pull request this leaves a deployment active without a namespace.
- Enable dispatches the workflow before it inserts its row, and the run may insert
  another; "opened" may do so when it comes late, even for a closed pull request. Webhooks
  then follow the first row and runs the last: the other stays active.
- A user's delete does not cancel the runs. Trigger saves the row as it has read it,
  before a call of GitHub. "creating" and "updating" stay for good when a run dies:
  "timed_out" is never set.
- Deleting the environment ignores the errors of deleting namespaces.

Releases:

- An upgrade or rollback that takes longer than a minute is declared failed by the next
  upgrade, and both go on: two revisions are "deployed", and the record is not of what
  runs. A rollback looks at nothing pending.
- The release that `UpgradeReleaseByValues` has read at its start is written over
  whichever record is the latest, or pending, by then: with a rollback, an uninstall or
  another upgrade in between, that of another revision, whose values are lost.
- A deploy after a failed upgrade takes the failed upgrade's settings along. One of a batch
  pauses the jobs (`update_image_batch.go:95`), which run no more until an upgrade says so.
- The tracker keeps the newest hundred: after a hundred failed upgrades the revision that
  is deployed is moved to the bucket. After an uninstall and a new install its listing is of
  the old release: it deletes records of the new one, and writes backups over old ones. A job
  may also begin during the uninstall: `ListReleases` shows the release for any older record
  that is "deployed" or "failed", while the newest is "uninstalling".
- It pages over clusters by offset while rows are added and removed.

## 8. What remains

Done, in this order of importance: the worker pool with its abstract specification;
provisioning; the cleanup of streams; the operation streams; stacks; environment
groups; preview environments; releases and their tracker; safety proofs.

Next, in the same order:

1. Composition: `StackRevisions` with `HelmReleases` and `EnvGroups`, of which it now
   has the parts that it needs; `OperationStream` with `GlobalStream` (what a client is
   given between the end of an operation and its cleanup). A registry run of
   `InfraProvisioning`. The pod that dies during its callback.
2. Proofs: of what the compositions of item 1 add; that `StackRevisions` and `EnvGroups`
   agree on the versions of a group; which of the hypotheses on `happened` can be weaker.
3. The policy check of `api/server/authz` and the usage cache, as operators against a
   reference definition.

### Not modelled

Most of the repository's lines are handlers that read or write one row, clients of
cloud providers, form definitions, generated code and the user interface. They keep no
state across steps and have no order to go wrong: a model of them would restate them.
