# A TLA+ model of the AI Infra Console

The AI Infra Console manages GPU servers: a Central API (FastAPI, PostgreSQL,
Redis) keeps the desired and the observed state of servers, models,
deployments and third-party API accounts; an Agent on every server polls
Central over HTTP, executes what Central has queued (Docker containers, model
downloads and deletions) and reports; a Next.js console shows it all to
administrators. This directory models the parts of it where state is shared
between processes that fail and overlap, checks them with TLC and proves
theorems about them with TLAPS.

Paths below are relative to `src/`; `API` is `apps/api/src/ai_infra_api`,
`Agent` is `apps/agent/src/ai_infra_agent`.

## Inventory

| Component | State | Operations | What makes it hard | What makes it correct |
|---|---|---|---|---|
| Deployment service (`API/services/deployments.py`, routes `api/deployments.py`, `api/agent.py`) | tables `deployments`, `deployment_gpus`, `deployment_operations`, `deployment_logs` | create, start, stop, restart, retry, delete; claim, renew, complete; runtime report, expectations | READ COMMITTED transactions without locks; leases; observations out of step with operations | one active operation, no more live leases than claims were given up, settled is final, deleted is gone, status follows operation and container, GPUs exclusive |
| Deployment supervisor and runtime (`Agent/deployment_supervisor.py`, `deployment_runtime.py`) | the active command, containers, log fingerprints | tick, execute (several Docker calls), report, reconcile | crash between calls, lost answers, re-execution, observation during execution | executes only open work; re-execution ends in the same state; no orphan container |
| Central model tasks (`API/services/model_tasks.py`, `api/downloads.py`) | tables of download and deletion tasks | create, cancel, retry, claim, progress, complete | cancellation against completion, lease expiry during a long transfer, deletion against deployment | a task always reaches a settled state; a cancelled one stays so; files of deployed models stay |
| Model task supervisor and executor (`Agent/task_supervisor.py`, `model_tasks.py`) | active task, cancel event, progress, partial and published directories | tick, run, cancel, publish, delete | crash before and after publication, refused progress reports | publication is atomic and recognised again; a partial download is never published |
| Model inventory (`API/services/model_inventory.py`, `Agent/collectors/models.py`) | `models`, `model_files`, `server_model_directories` | scan, merge | scans that are older than deletions | a model shown as present lies in a directory that is advertised and readable; a choice of default is not undone; the lists come to show the disk |
| Telemetry, presence, tokens (`API/services/agent_telemetry.py`, `agent_tokens.py`) | servers, metrics, GPUs, tokens | snapshot, stale sweep, enrol, rotate, revoke | sweep against heartbeat | a server that reports is online again and again; one that does not is offline; a GPU row never comes to stand for a GPU that has a row, nor two rows for one GPU or one index |
| API resources (`API/services/api_resources/`, `worker.py`) | accounts, credentials, models, usage, sync runs | validate, synchronise models and usage, archive | provider calls between read and write, concurrent runs | keys clash, or come apart from their fingerprints, by one known overlap only; a broken run blocks nothing; manual entries stay |
| Infrastructure events (`API/services/infrastructure_events.py`) | Redis channel, SSE streams | publish, stream | subscription against snapshot | a change is seen by every open stream in the end |
| Model catalog search (`API/services/model_catalog.py`) | bounded cache | search | expiry, eviction | bound, freshness |
| Agent process (`Agent/runner.py`, `client.py`) | backoff, supervisors | poll | timeouts, shutdown | it polls for as long as it runs |
| Authentication, settings, audit; Web console | sessions, settings, audit rows; query caches | single-row reads and writes; views | little | - |

How they interact: administrators call Central through the Web proxy; Central
writes operation and task rows; the Agent claims them (`FOR UPDATE SKIP
LOCKED`), gets a random lease token, renews the lease every few seconds while
it executes, and completes with the token. Independently the Agent asks which
deployments Central expects, looks at their containers and reports what it
saw. The model inventory feeds model files that deployments reference;
telemetry feeds the GPUs and the online status that creation requires. The API
resources stand apart: administrators and Central's worker keep third-party
accounts, and Central calls their providers in the middle of a request.

`PROJECT.json` lists every hazard found, at its line, with the properties that
cover it or the reason why none does.

## Modules

| Module | Models |
|---|---|
| `DeploymentBase` | the rows and reports that Central and the Agent share: types, initial values, the queries both sides rely on |
| `DeploymentCentral` | the Central API's deployment service: one action for each half of each handler |
| `DeploymentAgent` | the Agent's supervisor and Docker runtime, and the containers |
| `DeploymentSystem` | the composition: `Init`, `Next`, messages, faults, time, fairness, the properties |
| `MCDeployments` | model values and symmetry for TLC |
| `ModelTaskBase` | the download and deletion rows, model files, the server's disk, and the reports between Central and the Agent |
| `ModelTaskCentral` | Central's model tasks, and what deployments and the inventory do to the model files they work on |
| `ModelTaskAgent` | the Agent's loop, task supervisor and executor |
| `ModelTaskSystem` | their composition, faults, time, fairness, the properties |
| `MCModelTasks` | model values for TLC |
| `LeasedWork` | the abstract specification that operations and tasks implement: work handed out under leases, one item at a time |
| `ReportBase` | what Central stores from an Agent's reports (presence, token, GPUs, directories, model files), and how a report is merged into each |
| `ReportCentral` | Central's handling of reports, the stale sweep, tokens, the choice of a default directory |
| `ReportViews` | what Central lists and summarises, and the targets it accepts for deployments and downloads |
| `ReportSystem` | the server, its Agent's reporting loop and Central: faults, time, fairness, the properties |
| `MCReports` | worlds and model values for TLC |
| `ApiResourceBase` | the tables behind one third-party account |
| `ApiResourceCatalog` | providers, accounts, credentials: each request split at its reads, at the provider's answer and at its commit |
| `ApiResourceSync` | synchronisation of models and usage, entries by hand |
| `ApiResources` | their composition with overlapping requests, silent providers and days that pass; the properties |
| `MCApiResources` | model values and symmetry for TLC |
| `DeploymentProofs` | theorems on deployments, whatever overlaps: types, references, recoverability, the number of live leases |
| `DeploymentSerialProofs` | the overlap that two active operations take, and the invariant of a Central that serves one request at a time |
| `DeploymentRefinementProofs` | deployments implement `LeasedWork` |
| `DeploymentStatusProofs` | statuses, desired states and settled operations |
| `DeploymentAgentProofs` | what the Agent executes, and the containers it leaves |
| `ModelTaskProofs` | theorems on the model tasks: types and the overlap that endangers deployed models, whatever else overlaps; completions and refinement with one request at a time |
| `ReportProofs` | theorems on the reports, whatever overlaps |
| `ApiResourceProofs` | theorems on the API resources |

### State and code

- `dep[d]` is a row of `deployments` with its `deployment_gpus`: `status`,
  `desired` (`desired_state`) and `gpus`. `absent` and `gone` mean no row. The
  column `generation` is 1 in every row and no statement changes it, so it is
  left out, and with it the guards that compare generations.
- `ops[o]` is a row of `deployment_operations`. Operations are numbered in the
  order in which their transactions commit; the code orders by `created_at`,
  the time their transactions began. `attempt` is `attempt_count` and stands for
  the lease token too, which is drawn afresh at each claim. `lease` is the
  column `lease_expires_at` as it compares with the present.
- `txn[t]` is an open transaction. Central handles each HTTP request in one
  transaction at READ COMMITTED; only the claim takes a row lock. So every
  handler that reads before it writes is two or three actions (`RequestLoad`,
  `RequestCheck`, `RequestCommit`, for instance), between which anything else
  may commit. The session writes only columns whose value differs from the one
  it loaded; `Stored` says what that does to a concurrent write. The claim
  checks for a live lease in one statement (`ClaimLoad`) and locks, leases and
  commits in another (`ClaimCommit`); `SKIP LOCKED` matters only between two
  `ClaimCommit`s, which are atomic here.
- `Txns` is how many transactions may overlap. With one slot Central serves
  one request at a time.
- `phase`, `cmd` are the supervisor: idle, claiming, or executing with the
  Docker call that is due; the process may be down. `container[d]` is what
  Docker has for the deployment. A restart is a stop and a start. A Docker call
  may fail for reasons of its own when `DockerMayFail`, before it has an effect.
- `reports` are completion reports on their way, `observed[d]` the observation
  of `d`: asked for, taken, or on its way. The code sends one report for all
  expected deployments; here every deployment's observation travels alone.
- `faults` counts crashes, timeouts and losses, up to `MaxFaults`.

Handlers' guards that depend on other components (is the server online, is the
model file there, is the port or the name taken) refuse requests for reasons
the model does not know: `RequestEnds` lets any administrator's request end
without effect. Health, latency, log lines and error texts are not modelled.
Two statements of one half of a handler are taken together (the row and its
operations in `RuntimeLoad`, for instance). The branches of the claim for a
missing deployment cannot be taken, because deleting a deployment deletes its
operations. One server is modelled, since every query filters by server.

A Docker call that the daemon finishes after the Agent's process died is, to
everybody else, an executed call whose report is lost; the two faults are
modelled by one.

For the model tasks (`ModelTask*`):

- `tasks[i]` is a row of `model_download_tasks` or `model_delete_tasks`; `kind`
  tells which. Rows of both tables are numbered in the order of their
  commits, as the claim orders them by creation. `attempt` and `lease` are as
  above, `asked` says whether `cancel_requested_at` is set, `size` is
  `downloaded_size`.
- A target is a path: the destination of a download, and the model file that
  the inventory finds there. `file[t]` is the status of its `model_files` row,
  `deployed[t]` whether a deployment refers to the row, `disk[t]` what the
  server has: nothing, a published model, or what a removal that broke off
  left, with the manifest (`hollow`) or without it (`debris`). The partial
  directory is not modelled, as it belongs to one task and nobody else looks
  at it.
- `phase` is the main loop and the supervisor: a heartbeat, then a claim, then
  the thread's execution, which ends with the report. `cancel` is the cancel
  event, `failures` the progress reports that failed in a row; at three the
  supervisor cancels the task itself, and a refused report counts. `progress`
  counts bytes up to `Size`.
- `seen[t]` is what a heartbeat under way says of the target.
- `faults` counts crashes, stops, timeouts, losses, leases that run out in
  spite of their holder, removals that break off, and directories withdrawn.

For reports (`Report*`), one server again:

- `server` is the row of `servers`: `status`, and `last_seen_at` as it compares
  with the age at which a server counts as offline. `token` is the Agent's
  token; rotating it issues the next version. `gpu[r]` are the `gpus` rows in
  the order of their primary keys, `dir[d]` the `server_model_directories`,
  `file[d]` the status of the one model a directory may hold.
- `report[x]` is a report under way: sent, authenticated, read, or committed by
  `ReportCommit`. The row lock that the first flush takes on the server
  serialises merges; what was read before it (the default directories, the
  server's status) may be out of date. `sweep` and `choice` are the stale sweep
  and an administrator's choice of a default, each split at its read.
- `world` is what the server consists of, `agent` the loop with the token it was
  started with, `cache` the directory scan it may still reuse. A report is a
  `Snapshot`: GPUs by index, and a scan that may be older than they are.
- A merge moves the index of every row up by `Offset` (10000 in the code) and
  writes the reported ones back, so that rows which are not reported grow with
  every report; `IndexLimit` stands for the largest value of the column. A
  report that would pass it fails, and every later one (`Renumberable`). Two
  rows may also collide under the unique index; which one is written first
  follows the primary keys, drawn at random, so the model lets rows have any
  order. The liveness properties leave these states out (`Wedged`).
- `UuidAssumption` says that a server never has one GPU twice. A report that
  named a UUID twice would leave out one of its places.
- `events` counts what changes the server, faults and the steps of
  administrators, up to `MaxEvents`.

For API resources (`ApiResource*`), one account:

- `provider`, `account`, `cred[c]`, `models[m]` are rows; `usage[r]` counts the
  snapshots with a provider's record identifier; `run[ty]` is the latest
  committed run of a kind; `history` is which credentials health checks and
  usage entries refer to.
- `req[x]` is a request under way with what it has read: it may wait for a
  provider, which answers, refuses or stays silent, and writes at its commit.
  The session writes only what differs from what it loaded, and the unique
  constraints and foreign keys may refuse the commit.
- A run's row is only flushed until the end of the request, so nobody else sees
  it as running. A key's ciphertext and fingerprint are separate fields of
  `cred[c]`.

## What is checked

`tasks` and `tasks_*` use `MCModelTasks`, `reports` uses `MCReports`, `accounts`
and `accounts_keys` use `MCApiResources`, the others `MCDeployments`. Deadlock is
checked in all but the two of accounts, where behaviours end when `MaxRequests`
requests are done.

| Run | Instance | Checks | Shows |
|---|---|---|---|
| `serial` | 1 deployment, 1 slot, 3 operations, 1 fault, every action | `TypeOK`, `OneActiveOperation`, `DesiredIsCurrent`, `TransitionIsDriven`, `NoOrphanContainer`, `ExecutesOpenWork`, `SettledIsFinal`, `StatusMovesWithOperation`, `IsLeasedWork` | with one request at a time, rows, operations, Agent and container agree, whatever is lost or repeated, and operations are leased work |
| `overlap` | 1 deployment, 2 slots, 3 operations, 1 fault; deletions and retries | `Referential`, `RunningIsRecoverable`, `LeasesNeedFaults`, `GoneIsGone` | overlapping transactions keep references whole, running operations claimable, deleted rows gone, and live leases within one and the claims given up |
| `liveness` | 1 deployment, 1 slot, 2 operations, 1 fault, fair | `OperationSettles`, `StatusConverges` | every operation settles; the status shown converges to the container |
| `gpu` | 2 deployments on 1 GPU, no fault | `GpuExclusive` is violated | see below |
| `false_running` | 1 deployment, deletions, 1 fault, fair | `NoLastingFalseRunning` is violated | see below |
| `two_active` | 1 deployment, 2 slots | `OneActiveOperation` is violated | see below |
| `tasks` | 1 target, 1 slot, 2 tasks, 1 attempt, sizes 0 and 1, 1 fault, fair | `TypeOK`, `OneTaskLeased`, `CompletionIsTrue`, `IsLeasedWork`, `TaskSettles` | with one request at a time one task is leased, a task completes only while what it did stands, tasks are leased work, and every accepted task is settled through crashes, losses, refused progress and cancellations |
| `tasks_deployed` | 1 target, 2 slots, no fault | `DeployedIsNotDeleted` is violated | see below |
| `tasks_wedged` | 1 download, 2 slots, no fault, fair | `TaskSettles` is violated | see below |
| `reports` | 3 GPUs, 2 indexes, 2 directories, 5 worlds, 2 reports, 2 events, fair | `TypeOK`, `DiscoveredIsServed`, `GpuRowsAreDistinct`, `RowKeepsDevice`, `ReportIsMirrored`, `DefaultStays`, `ReportingIsOnline`, `SilentIsOffline`, `WorldIsShown` | rows keep their GPU and stay distinct, presence follows the Agent, and the lists come to show the server, though reports are late and sweeps and choices cross them |
| `accounts` | 2 keys, 1 model, 2 credentials, 1 day, 2 slots, 3 requests | `TypeOK`, `KeysClashOnlyWhenMixed`, `ManualModelStays`, `IdleIsNotBlocked`, `KeysMixOnlyByReentry`, `CompletedSyncIsTrue`, `HistoryIsKept` | what it takes for two credentials to hold one key, and that models and history stay consistent, however requests overlap or break off |
| `accounts_keys` | as before, no day | `KeysDistinct` is violated | see below |

`LeasedWork` promises that items are handed out one at a time, under a lease and
in the order of submission, and that only the answer of whoever holds the last
claim settles an item, late or not, unless it was handed out again. Answers may
be lost; an answer may take its own and settled items away (a deployment's
deletion does); settled tasks may be submitted again (`MayRequeue`), operations
may not. `WorkOf`, `WorkHeld` and `WorkAnswers` in `DeploymentSystem` and in
`ModelTaskSystem` are the refinement mappings: the state of an item is the
row's status and lease, the held claim is the Agent's command, the answers are
reports in flight and those whose completion is under way. The runs check it
(`serial`, `tasks`) with one transaction at a time; overlapping ones break it, as
`two_active` and `tasks_wedged` show.

With two slots, live leases do add up. The claim looks for a live lease in one
statement and locks a row in another, and `SKIP LOCKED` lets two claims lock
different rows; so a claim that the Agent gave up and the next one may both
lease an operation, and the Agent knows of one. `LeasesNeedFaults` says what is
left of the single lease: as many live leases as claims were given up, and one.

Six of the documents' promises do not hold of the code. Three are of
`docs/phases/PHASE_6_DEPLOYMENT.md`:

- *GPUs are not overcommitted* (line 30). An observation taken while a
  deployment was being created is applied after the creation completed; the
  deployment becomes `failed`, which holds no GPUs, while its container runs.
  The next creation is planned onto the same GPU, and the Agent checks the
  port, not the device.
- *No false running state is left* (line 168). After a deletion that failed
  the desired state stays `deleted`, so the Agent is never asked about the
  deployment again, and a delayed `running` observation is final.
- *One active operation per deployment* (lines 44 and 71). The check and the
  insertion are not atomic and no index forbids the second row. That nothing
  but this overlap breaks the property is proved (`SingleOperation`).

Two are of `docs/phases/PHASE_5_MODEL_DOWNLOAD.md`, one of
`docs/API_RESOURCE_MANAGEMENT.md`:

- *Deployed files are not deleted* (lines 24, 64 and 157). A creation looks for
  an open deletion and a deletion for a deployment, each before it inserts;
  overlapping, both pass. Nothing else breaks it (`DeployedStays`).
- *Cancellation ends in `cancelled`* (lines 21 and 155). A
  cancellation that loaded a running download and commits after its completion
  sets the settled row to `cancelling`, whose lease columns are NULL. No claim
  takes it, retry and new downloads of the destination are refused: it stays so.
- *The fingerprint detects duplicate credentials* (lines 316 and 544). A rotation may enter
  the key that the row has, for its own row is left out of the search. If
  another rotation commits in between, the unit of work writes the ciphertext
  and leaves out the fingerprint, which it takes for unchanged: the row has the
  old key under the new one's fingerprint, and the old key may be created once
  more. Nothing else makes two keys equal (`KeysStayDistinct`).

Three more things the model shows of downloads, though no run is about them:
the size of a row is not reset when a task is claimed again, so that an Agent
that starts again from nothing has its reports refused and cancels the task
itself; a retry does not look for another active download of the destination,
so that two rows may be active at once; and a removal that breaks off may leave
the manifest, which the next download takes for the model (`CompletionIsTrue`
therefore asks for the manifest only).

The reports show more, though nothing in the documents contradicts it and no
run is about it. A server whose GPU is replaced has a row that grows with each
report; after some 214,748 of them the column overflows and every report of the
server fails. A new GPU at the index of one that moved takes its row, and the
deployments that refer to it. A heartbeat that read the server as online and
commits after a sweep leaves it offline until the next one
(`ReportingIsOnline` therefore says again and again). With three directories a
choice that overlaps a report which changes defaults may leave two defaults, or
none, until the next report; `DefaultStays` leaves overlapped commits out.
Creation reads the server's status without sweeping first, and its list of
allocating statuses has `unknown` where the one of the overview has not.

So do the API resources. That one synchronisation of a kind runs at a time
(`docs/API_RESOURCE_MANAGEMENT.md:739`) does not hold, since a run is committed
only at its end; archived accounts still synchronise (line 923), and a
validation or a failed synchronisation may rewrite the status `archived` or
`disabled`. And usage is counted twice, contrary to line 1021: a record's
identifier contains the place of its bucket in the answer, which moves with the
week, so a synchronisation on the next day inserts the same day again. The model
has this (`Week`), but no run is about it, and no property says that usage is
counted once: of identifiers it is the unique constraint, of days it is false.

### Bounds

Three operations are the shortest histories in which a deployment is created,
acted upon, and acted upon again while reports of both are about (a creation,
a failed deletion, its retry; a creation, a stop, a start). One fault reaches
every single recovery path: a lost claim, a lost or late report, an expired
lease under a working Agent, a crash at any Docker call. Lease expiry without a
holder is no fault and costs nothing, so a lost claim followed by
re-execution and a further claim is inside the bound. Two deployments matter
only where they meet, which is the server's lease and the GPUs; two slots are
what a race needs. In `overlap` administrators only delete and retry, since these
are the requests that race with rows that disappear; two retries that overlap
leave two operations, which overlapping claims may lease together.

For model tasks, two rows on one target are a download and its deletion, two
downloads of one destination, or two deletions in a row; `Size` 1 is enough
for a counter to be ahead of a second attempt. `MaxAttempts` bounds retries
only, never the claims that recovery needs: at 1, a queued task is claimed, and
claimed again after every loss, and a task cancelled before its first claim may
be retried. Retries after a claim are covered by the proofs.

For reports, three GPUs at two indexes make a GPU new, moved and gone; the five
worlds of `MCReports` are a healthy server, one that lost a GPU and a directory,
one whose GPUs are renumbered and whose model is removed, one where a GPU is
replaced and the others renumbered, and one whose settings name the other
directory. `Offset` 2 and `IndexLimit` 5
let a missing row overflow after a few reports. Two reports are one in time and
one late; two events are a change and a fault, or a fault and a choice. For
accounts, two overlapping requests and a third before or after them are what
every hazard listed takes; two keys make a rotation collide with a creation.

### Fairness

`FairSpec` assumes what the code's loops do. The Agent's process is restarted
(a service manager runs it) and its loop ticks (`AgentRestarts`, claims,
`AgentAsks`, `AgentObserves`), its thread finishes (`AgentExecutes`), Central
ends the transactions it began (`TransactionEnds`) and serves the reports that
arrive (`ReportIsServed`, `ObservationIsServed`), and time passes, so a lease
nobody renews expires. Strong fairness is used where a step waits for a free
slot, a restriction of the model that a connection pool lifts. The polling
loop claims before it reconciles and waits for both, which is why a claim
with a report unanswered needs a fault (`Reconciled`). Nothing obliges
administrators to act or containers to exit. Faults are bounded, so liveness is
promised once they cease. `ModelTaskSystem` assumes the same of its loop; the
lease of a task that is executed or reported runs out only by a fault, for
progress renews the lease of a download and a deletion is expected to be
shorter than its lease. `ReportSystem` assumes that the loop goes on while the
Agent runs (`AgentStep`), that its scan expires, that Central handles every
report it has, that time passes and that somebody sweeps (the console lists the
servers every 30 seconds, and every listing sweeps). It does not assume that a
stopped Agent is started again: `ReportingIsOnline` and `WorldIsShown` speak of
behaviours in which it stays up. `ApiResources` has no fairness.

## What is proved

Theorems hold for every value of the constants (every set of deployments, GPUs,
keys, models and slots, all bounds), from the named assumptions on constants
only, unless an assumption is given.

`DeploymentProofs`: `TypeCorrectness`, `ReferentialIntegrity`, `Recoverability`
(`TypeOK`, `Referential`, `RunningIsRecoverable`), from one inductive invariant,
`Inv`. Types alone are not inductive: the command the Agent receives has its
deployment and action from an operation row, so rows must refer to deployments
and name actions; a completion that deletes a deployment purges that
deployment's operations, so it must have loaded the deployment of the operation
it settles, or one that is gone already (`CompletionIsOfDeployment`); a creation
inserts a row that must not exist (`CreationIsFresh`). There is a lemma for each
action, and `StepInv` puts them together.

`LeasesAreFew` (`LeasesNeedFaults`), also in `DeploymentProofs` and for any
number of slots, counts what may yet become a live lease: the live leases and
the claims that have found none and have not committed (`Budget`). The Agent
begins a claim only when its last one is answered or given up, and giving up
is a fault.

Four theorems say which overlap a violation takes:

- `SingleOperation` (`DeploymentSerialProofs`), `Spec => ([]ChecksApart =>
  []OneActiveOperation)`: no two requests on one deployment are between their
  check and their insertion. Retries, creations, completions, deletions and
  reports may overlap as they will. `OrderInv` has that operations are numbered
  without gaps and only the latest is active (a retry looks at no other), and
  that what a check has found still holds when it commits.
- `DeployedStays` (`ModelTaskProofs`), with `DeploysApart`: no creation is open
  beside a deletion of its model.
- `KeysStayDistinct` and `KeysMixByReentry` (`ApiResourceProofs`), below.

Behaviours of `Spec` may stutter for ever, so a behaviour that violates the
property can be cut where it does: the premise must have failed before. The
runs `two_active`, `tasks_deployed` and `accounts_keys` show that the premises
are needed, and that the code does not give them.

The following assume `OneAtATime` (any two transaction slots are equal), but for
`GoneStaysGone`. The runs `two_active`, `gpu` and `false_running` show what
overlaps and late observations do. They rest on `SerialInv`, in which at most one
lease is live and a claim that found none still finds none.

- `DeploymentRefinementProofs`: `OperationsAreLeasedWork`, `Spec =>
  IsLeasedWork`. Initial states map to initial states and every step to a step
  of `LeasedWork` or a stutter. It needs that a completion under way is of the
  last claim of a running operation (`CompletionIsOfLastClaim`), so that the
  answer it settles by still counts; `RefInv` is all of these together.
- `DeploymentStatusProofs`: `GoneStaysGone`, from `Inv` alone and so for any
  overlap; `DesiredStaysCurrent`, `TransitionsAreDriven`, `SettledStaysSettled`,
  `StatusMovesWithItsOperation`. `RowSteps` says which commits write rows.
  `FreshReads` says that what an open transaction read is still so, and that an
  observation will move the row only when no operation is active; with it each
  commit leaves the row in the status and desired state of its operation.
- `DeploymentAgentProofs`: `WorkStaysOpen` and `NoContainerIsOrphaned`.
  `AgentInv` relates what is in flight to what is executed: every report answers
  a claim that was made (`AnswersAreOfClaims`) and an earlier one than the Agent
  works under (`AnswersPrecede`), so what a completion settles is not being
  executed (`SettlesNoWork`); and when a report says that a deletion of the last
  claim is done, the container is gone and nothing can bring it back
  (`DeletionsAreDone`, `WorksAlone`).

`ApiResourceProofs`, whatever overlaps: `TypesHold`, `ManualModelsStay`,
`IdleIsNeverBlocked`, `CompletedSyncHolds`, `HistoryStays`, and for the keys:

- `KeysClashWhenMixed`: two credentials hold one key only while the fingerprint
  of one of them belongs to another key. `KeyInv` has that fingerprints are
  distinct, which the unique constraint keeps, and that nothing exists without
  the account.
- `KeysMixByReentry`, an action property: a ciphertext and its fingerprint come
  apart only at the commit of a rotation that re-enters the key it has loaded
  and finds another fingerprint there.
- `KeysStayDistinct`, `Spec => ([]ReentriesApart => []KeysDistinct)`: keys are
  distinct as long as no rotation is open beside one that re-enters the key of
  the same credential. `ReentriesAreCurrent` has that such a rotation then finds
  at its commit the fingerprint that it has loaded.

Types need that a request to change a status names one (`StatusRequestsName`).
`ModelInv` has that a model row that a request found keeps its source, so that
no synchronisation marks a manual one.

`ModelTaskProofs`: `TypesAreKept` (`TypeOK`), whatever overlaps. Types are not
inductive alone: the Agent's command names a task and an attempt that a row has
had (`CommandFits`), reports carry an attempt and a size that fit their row
(`ReportsFit`), and what a transaction has read was a row (`ReadsFit`).
`DeployedStays`, also for any number of slots, is from `DeployInv`: a transaction
about to insert a deletion is of a model that no deployment refers to
(`DeletesUndeployed`), one about to deploy is of a model no open deletion is of
(`DeploysUndeleted`).

The rest assumes `OneAtATime`, which `tasks_wedged` shows to be needed, and rests
on `SerialInv`: one live lease, a task that is handed out has a lease,
live or expired (`HandedOutHasLease`), a claim that found no live lease still
finds none when it commits (`ClaimSeesNoLease`), a change writes the row it
read (`MutationIsCurrent`), a completion is of the last claim
(`CompletionIsOfLastClaim`), and while the Agent executes no other lease is
live and it has not reported yet (`ExecutingHoldsLease`, `OneReportPerClaim`).

- `CompletionHolds` (`CompletionIsTrue`), from `TruthInv`: once the Agent has
  published, the manifest of its target is there (`PublishedIsThere`), and
  reports under way and completions that have read them are true as long as
  their attempt is the last (`ReportsAreTrue`, `CompletionsAreTrue`). One active task per target and
  one lease keep the other tasks from undoing it.
- `TasksAreLeasedWork`, `Spec => IsLeasedWork`: as for deployments, with
  resubmission (`Requeue`) and answers to cancelled tasks besides.

`ReportProofs`, whatever overlaps and however late reports come: `TypesStay`,
`RowsStayDistinct` (`GpuRowsAreDistinct`), `RowsKeepTheirDevice`,
`ReportsAreMirrored`, `DiscoveredStaysServed`, `DefaultsStay`. They rest on
`MergedRow`, which says what a merge makes of a row: it is taken by a reported
GPU, missed, new, or not there (`RowBecomes`). `Inv` joins the types with
`GpuRowsAreDistinct` and with `SnapshotsAreDistinct` (no report under way carries
a GPU twice, by `UuidAssumption`): a GPU takes one row only because no two rows
share its UUID or its index, and two merged rows differ only because no GPU
takes two. `LastIsThere` shows that the last of several takers exists. `RowsSuffice`
is about the model: with as many rows as GPUs `ReportCommit` always has a row
for a new GPU, so a report fails only where the code's does.

Every safety invariant and every action property of a passing run is a theorem,
for `serial` and `tasks` under `OneAtATime`, but for `OneActiveOperation`, which is
proved under the weaker `ChecksApart`, and `OneTaskLeased`, which is a conjunct of
`SerialInv` and not stated as a theorem of its own. Only model-checked are the
liveness properties (`OperationSettles`, `StatusConverges`, `TaskSettles`,
`ReportingIsOnline`, `SilentIsOffline`, `WorldIsShown`), which need fairness and
`ENABLED` and are beyond the prover.

## Not modelled

`PROJECT.json` gives the reason for each component. Infrastructure events (a
notification that polling repairs), the catalog search cache (displayed, never
written), authentication, settings, audit and activity (single rows), and the
console have no modules. Within the modelled components these are left out:
retained container logs, the endpoint test, health probes, GPU ranking, the
providers of downloads, metrics and samples with their retention, GPU processes
and load, host names, Ollama and nested directories, balances, sums and listings
of API resources, encryption, and wording everywhere.

## Plan

1. Container logs: sequence numbers, retention and Agent restarts.
2. The planner's ranking of GPUs as an operator against a reference definition.
3. The remaining serial theorems (refinement, desired states, settled
   operations, completions) under a premise on overlaps like `ChecksApart`
   instead of `OneAtATime`.
4. Usage by day instead of by identifier, with a run for the day that is
   counted twice.
