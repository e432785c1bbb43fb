# Verification of cloud-lab-gateway

TLA+ models of the gateway's core: how a student's lab comes to rent a cloud
project, how it is deployed, used and cleaned, how the project returns to the
pool, how the events of all that reach their listeners, and around it the checks
of a lab, the quota guard, the OpenStack provider, and the launch that opens a
session. Paths below are relative to `src/`; `internal/` is left out where it is
clear.

The interesting part of this system is not in any one function. Two processes
share a database, a Redis queue and a cloud; every use case reads a row, thinks,
and writes the whole row back; every task may be delivered again. The models
keep exactly that.

## 1. Inventory

### Processes and shared state

* **gateway** (`cmd/gateway`): the HTTP API and its use cases, the outbox
  publisher, the SSE broker. Several gateways may run.
* **worker** (`cmd/worker`): asynq handlers, eight at a time, for the tasks
  `deploy_lab`, `cleanup_lab`, `run_check` and `refresh_quota`.
* **Postgres**: labs, projects, deploy steps, outbox, check runs, secrets, quota
  snapshots. **Redis**: asynq tasks and the published events. **Cloud**: servers,
  keypairs, networks, addresses, through an in-memory or an OpenStack provider.

There is no reconciler: `ListPendingCleanup`, `ListPendingUnfreeze` and
`Queue.Cancel` have no caller, and `unfreeze_lab_expired` has no handler.

### Components

| component | state | operations | what makes it correct |
|---|---|---|---|
| LabInstance (`domain/lab`) | state, project, handles, timers | Transition, AssignProject, MarkReady, Freeze, Unfreeze, ExtendCleanup | only edges of the table are taken; done and rejected are final |
| Project and pool (`domain/pool`, `pgxrepo/pool.go`) | state, tenant, failure count | AllocateOneFree, Release, MarkClean, RecordCleanupFailure, QuarantineNow, ManualResolve | one tenant at a time; free means clean; three failures mean quarantine; no project is lost |
| Create (`app/lab/create.go`) | — | CreateLab | at most one active lab per student and course; lab and lease commit together |
| Deploy saga (`app/deploy`) | `lab_deploy_steps` | Run, five steps, succeed, fail | restarts replay what was done; everything made is on record; it ends |
| Cleanup saga (`app/cleanup`) | — | Run | idempotent; the project is freed only when it is empty; it ends |
| Lifecycle requests (`app/lab/ops.go`) | — | Stop, Freeze, Unfreeze, Extend | no request undoes what happened after it read |
| Administration (`app/admin`) | — | QuarantineProject, ReleaseProject | same, for projects |
| Task queue (`adapters/queue/asynq`) | tasks | Enqueue, EnqueueAt | at least once, one task per key |
| Outbox (`app/outbox`, `pgxrepo/outbox.go`) | rows, attempts | insert, Tick | nothing lost, nothing invented, few repeats, order per lab |
| Check runs (`app/verify`, `adapters/checker/ansible`) | run state, steps, task | RunCheck, ExecuteCheck, GetCheckRun | a pass was earned on the lab's own machine; a verdict is final and shown with its own steps; a check ends |
| Quota (`domain/quota`, `app/quotarefresh`) | one snapshot | Evaluate, HandleTask, cache Read and Write | unless labs could not see each other, the threshold is passed by no more than one lab takes beyond its estimate; no decision on a measurement older than its bound; a stale cache is refreshed |
| Access policy (`domain/identity`) | — | Can | who reaches another's lab teaches its course |
| Event bus and SSE broker (`adapters/sse`, `adapters/queue/asynq/eventbus.go`) | clients, clients per audience, buffers | Subscribe, Publish, drop, Start | the broker adds no gap to those of the bus, and tells nobody an event of another audience; a slow client harms nobody |
| LTI launch (`adapters/lms/lti13`, `app/moodle`, `adapters/httpapi/auth.go`) | keys, nonces, users, identities, enrolments, sessions | VerifyLaunch, HandleLaunch, RequireAuth | a token that its nonce outlives opens one session; a user has one account; a post is answered |
| OpenStack provider (`adapters/cloud/openstack`) | what exists in the project | the calls of every deploy step and of the teardown | nothing is made twice; ready means reachable; gone means empty |
| Secrets (`adapters/secrets/envkek`) | encrypted rows | Put, Get, Delete | a key is returned only for the lab and the KEK it was stored with |

### How they interact, and what is hard

* **Read, then write later.** `GetByID` is a plain SELECT; `Save` writes the whole
  row in another transaction. The UPDATE is guarded by
  `updated_at <= $new`, the clock of the *writer*: it refuses a writer that
  started early, not one whose read is old.
* **Commit, then enqueue from memory.** Create, the two ends of the deploy saga
  and Stop commit to Postgres and then call Redis. A death in between loses the
  follow-up, and the code only logs it.
* **At least once.** asynq runs a task again after an error or a dead worker, five
  times, and then archives it. Every handler must survive its own repetition after
  any of its statements.
* **Three cleanups per lab.** Timer, Stop and compensation have different keys
  (`cleanup:<lab>:timer`, `:manual`, `:compensate`), so they run concurrently.
* **The project outlives the lab.** Between two runs of one cleanup the project may
  have gone to the next student.
* **Polling publishers** share a table that they do not lock.
* **Send after unlock.** The broker copies its targets under a lock and sends without
  it; three parties may drop the same client.
* **Decide on a copy.** A create decides on a cached measurement and on a fixed estimate of what
  a lab takes, a session acts with the roles of its launch, a check runs at the address its lab had.
* **Look, then create.** The OpenStack provider finds resources by name after a lost
  reply, and takes a half-made one for done.
* **Two gateways, one token.** The nonce is claimed in the Redis they share, before the
  launch is stored, and expires after ten minutes, however long the token lives.

The list of hazards, each at its line, is in `PROJECT.json`.

## 2. The modules

| module | models | with |
|---|---|---|
| `LabDomain` | the two aggregates: states, transition table, commands as operators on rows | `domain/lab`, `domain/pool`, the two tables |
| `Storage` | `labs`, `projects`, the clock; what one repository call does | `pgxrepo`, `queries/*.sql`, `0001_init.sql` |
| `TaskQueue` | `tasks`, and the bounded `faults` | `adapters/queue/asynq`; asynq is external |
| `Cloud` | `exists[l]`: what there is at the provider for a lab | provider and secret store, external |
| `CleanupSaga` | `cleaner[t]`: the call of `cleanup.Run` for task t, one action per statement | `app/cleanup/saga.go` |
| `Provisioning` | CreateLab, the enqueue, the two ends of the deploy | `app/lab/create.go`, `app/deploy/saga.go` |
| `LabOps` | `requests[r]`: a user's or administrator's request, one action per statement | `app/lab/ops.go`, `app/admin/admin.go` |
| `LabRental` | all of them interleaved; the properties | `cmd/gateway`, `cmd/worker` |
| `DeploySaga` | `deploy.Run` for one lab, step by step and call by call | `app/deploy` |
| `DeployContract` | what the deploy promises the others | abstract |
| `Outbox` | transactions that insert, publishers that poll | `app/outbox`, `pgxrepo/outbox.go` |
| `EventDelivery` | at-least-once delivery of committed events | abstract |
| `SSEBroker` | the topics' goroutines, the maps under the lock, the clients' handlers | `adapters/sse`, `eventbus.go` |
| `Ansible` | what a playbook's outcome becomes: verdict and steps | `adapters/checker/ansible` |
| `Secrets` | rows, their binding to kind and lab, the three refusals of Get | `adapters/secrets/envkek` |
| `CheckRuns` | runs, tasks, executions statement by statement, the lab that changes meanwhile | `app/verify`, `pgxrepo/check_run.go` |
| `OpenStack` | every API call of a deploy and of a teardown of one lab | `adapters/cloud/openstack` |
| `QuotaGuard` | the cached snapshot, its refreshes, creates that decide on it | `domain/quota`, `app/quotarefresh`, `create.go` |
| `Policy` | the decision table, as operators | `domain/identity/policy.go` |
| `Launch` | posts of a launch form, nonces, the transaction, sessions | `adapters/lms/lti13`, `app/moodle`, `httpapi/auth.go` |
| `MCLabRental`, `MCOutbox`, `MCSSEBroker`, `MCCheckRuns`, `MCQuotaGuard`, `MCLaunch` | instances for TLC | |
| `LabRental_proofs`, `DeploySaga_proofs`, `Outbox_proofs`, `SSEBroker_proofs`, `CheckRuns_proofs`, `OpenStack_proofs`, `QuotaGuard_proofs`, `Launch_proofs` | theorems | |

### State and actions against the code

*LabRental.* A lab row keeps `state`, `project`, the handles it records (`known`)
and `updated_at`; a project row keeps `state`, the tenant, `state_changed_at` and
the failure count. Handles are `servers`, `keypair`, `network` and `secret`, the
units that the code records and deletes together. Local variables of a running
call are in `cleaner[t]`, `requests[r]`, and `verdict[l]` and `handoff[l]` (what a
create or a deploy is about to save, and the enqueue it still owes); they vanish
when the process dies.

The clock is logical. `Clock.Now()` returns a new value each time it is called,
at the point of the code where it is called, so a save carries the stamp of the
moment its call *started*. This is what the timestamp guards see. Postgres'
`now()` and the processes' clocks are taken as one clock.

*Cleanup.* `CleanupStart` (clock), `CleanupLoad` (GetByID and its early returns),
`CleanupMark` (lab → cleaning), `CleanupLoadProject`, `CleanupRelease`,
`CleanupTeardown` / `CleanupTeardownFails` (any prefix deleted), `CleanupFailure`,
`CleanupClean`, `CleanupSecret`, `CleanupFinish`. `CleanupCrash` may fall before
any of them; it stands for the death of the worker and for a failing database
call, which end the call in the same way: asynq takes the task back.

*Provisioning.* `AdmitLab` ends at the BEGIN of the transaction, where the clock
has been read; `CreateLab` is its COMMIT. The five deploy steps are one choice
here: any prefix of the resources, and success or failure. That this choice is
the right summary is what `DeploySaga` implementing `DeployContract` says.

*DeploySaga.* `Start`, then for each step `LoadStep` (GetOrInit and the replay of
a result), `BeginStep` (attempt + 1, saved), one `CallReturns` per provider or
secret-store call, `StepReturns`, `RecordSuccess` or `RecordFailure`; then
`Succeed` or `FailLab`, and `HandOff`. `CallFails` allows that the call took
effect before its error.

*Outbox.* `Insert` draws an id in an open transaction, `Ends` commits it or rolls it
back, so ids commit out of order. Events of one lab are drawn in commit order,
because the UPDATE that precedes the INSERT holds the lab's row. `Fetch`,
`Publish` / `Refused`, `MarkPublished` are the statements of `Tick`, and
`Interrupted` a shutdown, a death or a failed mark. A publish that returns an error may have been
delivered, with its reply lost: `Refused` leaves that open. `Resent` is the same lost reply inside
the Redis client, which sends the command again and reports success.

*SSEBroker.* `Emit` is a publish in Redis, which a full subscription loses. `Project` is
`handleMessage` up to the copy of the targets under the lock, `Push` one send, and `Drop` the
operator that `Push` and a returning handler share. `Write` may be picked after `done` is
closed, as Go's `select` may. `Stop` and `Leave` are the cancelled context. Resolving the
owner of a lab is part of `Project`; `Misread` is its failure. `emitted` and `lost` are history:
what was published in Redis, and what of that a full subscription or a `Misread` dropped.

*CheckRuns.* `Admit`, `Create` and `EnqueueCheck` are `RunCheck`; `LoadRun`, `Load`, `GetKey`,
`Start`, `Play`, `SaveVerdict` and `Returns` are `ExecuteCheck`, one action per statement that
another process can fall between. `AskRun` and `ShowRun` are the two SELECTs of `GetByID`. The
lab's own life is reduced to what a check sees of it: state, address, machine, key; two labs
take the address in turn. `LeaseExpires` gives a task to a second worker while the first goes
on. `Ansible` maps an outcome (timeout, exit code, JSON, task flags, statistics) to a verdict,
and `Secrets` decides whether the key can be read, also after the KEK was changed.

*OpenStack.* The program counter is the next API call; `StepStart` says where a step that failed
starts again. A call that creates or deletes may be done and its reply lost. `Built` and
`Deleted` are Nova's, and conflicts of Neutron (a port on a network, an address behind a
router) are as its API defines them: that part is external.

*QuotaGuard.* `Decide` is the read of the cache and the evaluation; `AskRefresh`, `Commit`,
`Built`, `TearDown`, `TornDown` are what follows for that lab. `Dequeue`, `Fetch` and `Write` are
the refresh task, of which several may run. `decided[c]` keeps the measurement a decision used.
The guard reckons with `Footprint`, the constant of `resourceRequestFor` (2 vCPUs, 4096 MB, 20 GB,
`app/lab/create.go:182`); a lab takes `Takes`, the five servers of `topologyFor`
(`app/deploy/topology.go:42`: 9 vCPUs, 16 GB, 160 GB). The two are independent constants. A
measurement counts each lab that is being built or torn down with all of its servers or with none;
the cache may be filled at the start.

*Launch.* `Verify`, `Fetch`, `ClaimNonce` are `VerifyLaunch`; `Roles` to `Commit` are
`HandleLaunch`, with the locks that READ COMMITTED gives its statements (`Holds`, and the guard
of `Link`); `Issue` reads the roles and signs the session. Rows become visible in `Commit`.
`ForgetNonce` is the end of the nonce after ten minutes. The verifier asks for no `exp` and bounds
none, so the tokens in `LongLived` may lose their nonce while they are valid; the others, which is
what the platform of `docs/SECURITY.md` issues, expire first. A request is not held for ten minutes
between its check of the token and its claim. A `Restart` refuses the posts at a gateway and unlearns
its keys. `Policy` is applied to the session, which no server can take back.

Operators named `Wrong...` are deliberately broken versions of the definition that
follows them: a forgotten release, a dropped guard, a lost mark. The specifications
do not use them. Each one has been put in place of the real definition to see that
the property listed with it in `PROJECT.json` fails: the property is about that line.

## 3. What the runs check

### Runs that pass

| run | instance | shows |
|---|---|---|
| `rental_one_lab` | 1 lab, 2 projects, 1 request of any command, teardowns that fail, 2 retries, 2 failures, 2 faults | `RentIsBacked`: an allocated project has a lab behind it; the inductive `IInv`; `FreeProjectIsClean` and `DoneLabIsTornDown`: a project goes back, and a lab is done, with nothing on record left |
| `rental_sagas` | 2 labs of two students, 1 project, teardowns that fail, 5 retries, 3 failures | `LiveLabHasRent`: no cleanup takes or frees what another lab rents; `QuarantineIsSticky`; `EveryLabEnds`, `EveryRentEnds` |
| `rental_recovery` | 2 labs of one student, 1 project, 2 retries, 2 faults | `OnlyLegalTransitions`: no stale save of a saga leaves the transition table; `CleaningIsNotForgotten`: a cleanup that began ends or is archived |
| `deploy_restarts` | 2 machines, 3 attempts, 5 retries, 2 faults | `ReadyKnowsAll`, `ReadyHasUsableKey`, `FailedAfterBudget`, `ImplementsContract`; `DeployIsNotForgotten`: a lab that deploys has a task, or an archived one |
| `outbox_outage` | 3 events of 2 labs, 2 publishers, batches of 2, a poison limit of 2, 3 refusals, 1 fault | `FirstInOrder`, `PublishedWasDelivered`, `FewDuplicates`, `ImplementsDelivery`, `EveryEventIsPublished` |
| `sse_fanout` | 2 topics, a client of each of 2 users, buffers of 1 | `BrokerSkipsNothing`: after its first event a client misses only what the bus lost or nobody could read, and, once dropped, the end; `DoneIsClosedOnce`, `MapsAgree`; `BusIsDrained`, `DroppedClientLeaves` |
| `checks_run` | 1 check, 2 labs at one address, 2 workers, 1 retry, 1 fault, 1 expired lease | `PassedIsEarned`, `ShownIsConsistent`, `VerdictIsFinal`, `NoCheckIsForgotten` |
| `openstack_calls` | 1 lab, 3 broken calls, 3 failed teardowns | `ReadyIsReachable`, `NothingTwice`, `TornDownIsEmpty`, `TeardownEnds` |
| `quota_snapshots` | 3 creates, 2 workers, a cluster with room for one lab, 2 ticks, 1 fault | `OvercommitIsBlind`, `DecidedOnRecentMeasure`, `StaleIsRefreshed` |
| `launch_races` | 2 posts, 3 tokens of which one outlives its nonce, 2 gateways, 2 users with one e-mail, 1 fault | `TokenOpensOnce`, `OneAccount`, `OnlyTeachersReachOthers`, `PostsAreAnswered` |

Every module with a specification has a type invariant. It is part of an inductive invariant that
is proved (section 4); that of the rental is also part of `IInv` in `rental_one_lab`. The other
inductive invariants can be added to the INVARIANTS of their runs, and hold there: `LegalIInv` in
`rental_recovery`, `RentIInv` and `CleanIInv` in `rental_sagas`, `UserIInv` with `rental_users.cfg`
(below), `IInv` and its companions elsewhere.

Some of these say less than one would wish, and on purpose:

* `LiveLabHasRent` and `QuarantineIsSticky` hold for the sagas unless a cleanup dies in one
  window, after it freed its project (section 4). Then they do not: see `rental_double_rent`.
* `FreeProjectIsClean` and `DoneLabIsTornDown` are promised only while requests are `Orderly`: nobody
  has sent `unfreeze`, which makes a deploying lab ready, or `release`, which frees a project with
  what is in it. The second also supposes that nothing was lost once a request was sent (below).
  They speak of resources *on record*: what a failed deploy leaves unrecorded is
  `rental_partial_deploy`.
* `FirstInOrder` holds until Redis refuses an event. A refused row is skipped and tried in
  the next tick, after its successors; no text promises otherwise.
* `DeployIsNotForgotten` accepts an archived task for an end. That every deploy ends ready or failed
  is violated with the retries the code asks for: see `deploy_budget` below.
* `FewDuplicates` charges a copy to an attempt that was counted against the row, too: a publish whose
  reply was lost has delivered, and is tried again.
* `BrokerSkipsNothing` is about the broker. A message that a full subscription lost, or whose lab
  could not be read, leaves a gap in the stream of a client that stays connected and is not told.
* `EveryEventIsPublished` excepts a row that Redis refused as often as the poison limit allows.
* `VerdictIsFinal` and the steps in `ShownIsConsistent` except runs after an expired lease: two
  executions then save one row, and no version stops the later one.
* `OvercommitIsBlind` lets one lab pass the threshold, by what it takes beyond its estimate: with the
  numbers of the code 7 vCPUs and 12 GB. That a lab decided with full sight stays below it is false
  (`quota_estimate.cfg` below). The property is about vCPUs and memory. The disk of a snapshot may be the limit of one
  Cinder project (`provider.go` of the OpenStack adapter), which says nothing of the cluster.
* `TokenOpensOnce` is about tokens that their nonce outlives. Nothing in the verifier stops a token
  that lives longer from opening a second session after ten minutes.
* `OneAccount` supposes that a user's launches carry one e-mail. Without one, two first launches
  at once do make two accounts, of which the later keeps the identity.
* `TornDownIsEmpty` excepts an address or a router whose own call failed: the error is ignored,
  and a repeated teardown finds them no more.

### Where the code and its documents part

`rental_double_rent` is a run that fails: `RentIsUnique`, "at any moment a project is free or
belongs to exactly one lab" (`docs/STATE_MACHINES.md:26`), is violated when a cleanup is retried
after it freed the project and the next student has rented it. It needs a third lab, a crash
and a retry.

`deploy_budget` is another: `DeployEnds`, "transient failure: asynq retries; budget exhausted:
compensate" (comment at `app/deploy/saga.go:49`), is violated with the numbers of the code and no
crash. Five retries (`app/lab/create.go:165`) are shared by four steps of three attempts each: two
failures of each of three steps spend them, no step is beyond its budget, the task is archived and
the lab stays in deploying. `deploy_restarts` has the same numbers and checks what is left of the
promise.

Four more configurations stay beside them and show a violation when they are run by hand
(`tlc -config <name>.cfg <module>`):

| configuration | module, property | the code | the text |
|---|---|---|---|
| `rental_partial_deploy.cfg` | `MCLabRental`, `FreeProjectIsEmpty` | a failed deploy records no handle, so nothing is torn down | comment at `app/deploy/saga.go:176` |
| `rental_second_lab.cfg` | `MCLabRental`, `FailedIsCleaned` | the unique index refuses failed → cleaning when the student has another lab | `docs/STATE_MACHINES.md:89` |
| `rental_late_request.cfg` | `MCLabRental`, `DoneIsFinal` | a request saves its old copy over a done lab | `docs/STATE_MACHINES.md:126` |
| `quota_estimate.cfg` | `MCQuotaGuard`, `GuardKeepsThreshold` | the guard counts 2 vCPUs for a lab that boots five servers of 9 | "enough for the quota guard to be meaningful", comment at `app/lab/create.go:181` |

`rental_users.cfg` (`MCLabRental`) is one more to run by hand, and it passes: two requests against the
timer, for `FreeProjectIsClean` and `DoneLabIsTornDown`. It adds a second request to what
`rental_one_lab` checks of them.

The models also show the following, as behaviours of small instances:

* `Unfreeze` (`domain/lab/instance.go:92`) asks only whether the state may move to ready, so
  it makes a lab ready that is still deploying, with nothing on record.
* The timer of a frozen lab still fires (`app/lab/ops.go:140`; `docs/ARCHITECTURE.md:246`
  says it is cancelled), and `cleanup.Run` cleans it.
* A timer whose enqueue fails is never set again (`app/deploy/saga.go:165`): there is no
  reconciler.
* A teardown failure is counted only while the project is in cleaning
  (`app/cleanup/saga.go:113`). After a crash that followed the freeing, failures are not
  counted and the lab ends in cleaning with an archived task.
* After a double rent, two cleanups work on one project, and one may save its copy over the
  other's quarantine (`app/cleanup/saga.go:133`). One lab is enough when a user's stop, the timer and
  a crash meet: the retry of one cleanup reads the project before the other puts it in quarantine and
  saves its lower failure count after, and the lab ends done with its resources there and its project
  in cleaning. So `DoneLabIsTornDown` promises nothing once there were both.
* An administrator's quarantine that was stamped before a cleanup read its lab, and saved after that
  cleanup loaded the project, is overwritten by its release (`app/cleanup/saga.go:105`,
  `app/admin/admin.go:66`): `QuarantineIsSticky` holds without administrators only.
* With `KeyIsReturned = FALSE`, which is the OpenStack provider, a retried keypair step stores
  an empty private key (`app/deploy/steps.go:74`).
* An outage of Redis counts as attempts of a row until the row is left alone
  (`app/outbox/publisher.go:128`).
* A playbook without tasks that ends well passes, with no steps (`checker/ansible/parse.go:59`).
* A host that cannot be reached is FAILED, not ERRORED (`parse.go:76`;
  `docs/STATE_MACHINES.md:156` has no SSH under ERRORED).
* READY → CHECKING and back (`docs/STATE_MACHINES.md:113`) never happens: a check leaves the lab
  as it is, so a lab may be cleaned under its check.
* A quota snapshot is refreshed only by a request that was refused for its age
  (`app/lab/create.go:60`), not by a tick or a deploy (`docs/ARCHITECTURE.md:272`).
* `Subscribe`'s cancel closes the subscription and does not drain it
  (`adapters/queue/asynq/eventbus.go`, its comment): the goroutine behind it may stay blocked.
* The gateway's write timeout of 60 s (`cmd/gateway/main.go:271`) ends every SSE stream, which
  the model has as a disconnect.
* A launch replaces the user's global role by that of its token, so a teacher who launches a
  course as a learner is a student everywhere; sessions already issued keep theirs.
* A launch that fails after its nonce was claimed cannot be posted again.

### Bounds, and why they are enough

* *Labs and projects.* The hazards are between a lab and the next tenant of its
  project: two labs and one project. `rental_double_rent` has a third lab, which takes the
  project when it is freed under the second. One lab and two projects tell apart "its"
  project from another. The proofs need no bound on
  either.
* *Retries and failures.* One or two retries reach every "again after statement k"; the
  numbers of the code (5 and 3) are used where no fault multiplies the states
  (`rental_sagas`) and throughout the deploy (`deploy_restarts`, `deploy_budget`: five retries, three
  attempts).
* *Faults.* Each fault is a crash at any statement, or a lost enqueue; two reach a crash
  during the recovery from a crash.
* *Requests.* One request of each command against the sagas and the timer; two by hand
  (`rental_users.cfg`), and any number in the theorems.
* *Timers* fire at any moment after they are set: the model has no durations, so
  every order of timers, requests and deploys is covered, the early ones included.
* *Outbox.* Two publishers race over rows of two labs, one of which has two, in batches of
  two; the poison limit is two, so three refusals reach it for one row and go on with another.
* *Broker.* One place in a buffer makes a second event overflow it; three events of a lab leave
  a gap to be seen between the first and the last; two topics are two publishers.
* *Checks.* One check, for checks of different runs share no row; a second worker for the
  expired lease, a second lab for the address, one retry to run it again.
* *OpenStack.* Three broken calls are a deploy that is repeated and a teardown that is, and its
  three failures.
* *Quota.* A cluster of ten vCPUs of which a lab takes nine, a threshold of 90 %: with the estimate of
  two, the first lab is allowed, fills it to the threshold or, beside another tenant, passes it, and
  the second is one too many. Three creates race. Two ticks are one beyond the maximal age.
* *Launches.* Two posts race each other at every statement; the tokens make them the same user
  in two courses, the same token twice, or two users with one e-mail. One of the three outlives its nonce.
* Symmetry (labs, projects, requests; publishers) is used in runs without liveness only.

Deadlock is not checked: the system comes to rest when all requests are served, all
tasks are done and no bound leaves another fault.

### Fairness

`FairSpec` in `LabRental` asks that a worker keeps executing each handler, that
the queue fires the timers that are due, that a deploy which keeps running comes to
success or failure, and that an accepted request goes on. This is what asynq's
processor and Go's scheduler give (`Registry.Run`, worker concurrency 8). It does
not ask that a user sends anything, that a teardown fails or succeeds, that a
create is admitted, or that a crash happens. A teardown that fails for ever is thus
allowed, and `EveryRentEnds` relies on the failure count, not on luck. `DeploySaga`
and `Outbox` ask the same of their one handler and of each publisher's `Tick`.

The other specifications ask as little. `SSEBroker`: the goroutine of each topic runs, and so does
the handler of a client that was dropped; a client need not read. `CheckRuns` and `QuotaGuard`: each
worker goes on with its task. `OpenStack`: the worker goes on with a teardown, and Nova deletes
what it accepted to delete. `Launch`: a gateway goes on with each post it has. Users, Moodle, other
tenants, the clock and faults may all do nothing.

## 4. What is proved

TLAPS checks these for all values of the constants, under the assumptions named in the
modules (`DomainAssumption`, `QueueAssumption`, `LabOpsAssumption`, `DeployAssumption`,
`OutboxAssumption`, `SSEAssumption`, `CheckAssumption`, `OpenStackAssumption`, `QuotaAssumption`,
`LaunchAssumption`: limits are natural numbers; buffers, the teardown budget, the machines and the
attempts of a deploy are not zero; the absent value is none of the present ones; publishers and
creates are finite). Where a theorem needs more, it says so as its hypothesis.

* **`LabRental_proofs`**, for any commands and faults — `InvariantHolds` (`Spec => []IInv`),
  `TypeCorrect`, `RentAlwaysBacked`. `RentIsBacked` alone is not inductive: nothing in it stops a
  cleanup from finishing a lab whose project is still allocated to it, or a stale copy from
  being saved as allocated. `IInv` adds what the code really relies on:
  `CleanerReleases` (a cleanup works on its own lab's project; from its release on that
  project is not allocated to its lab; no copy it is about to save is allocated),
  `RequestKeepsProject` (the same of requests: a copy keeps the project its lab was
  given), `LabsKeepProject` (a lab's project never changes once given) and `DeployIsRented`
  (a deploy task exists only for a lab that was given a project). The proof has one lemma per
  action, `...Keeps`, and one per aggregate command, `...Type`.
* The same module, for any faults and administrators but `NoLifecycleRequests` (the set of commands
  has no stop, freeze, unfreeze or extend) — `SagasMoveLegally` (`OnlyLegalTransitions`), from
  `OrderHolds`. A save of the whole row is legal when the copy is not stale. `LegalIInv` says why it
  never is: what a deploy owes agrees with what it saved (`DeployInOrder`), the cleanup is enqueued
  once and after the deploy ended (`CleanupFollows`), and one that runs finds the lab as it loaded or
  left it (`CleanerIsAlone`). A user's request breaks the second and the third: that is
  `rental_late_request`.
* The same module, for `NoRequests` (no user, no administrator) and runs that are `Steadily` —
  `LiveLabKeepsRent`, `RentsAreUnique`, `QuarantineIsLeftAlone`, `DoneLabsAreTornDown`,
  `FreeProjectsAreClean`, from `RentHolds` and `TeardownHolds`. `Steadily` spares one window only: no
  cleanup dies after it freed its project and before its lab is done. Everywhere else processes may
  die, calls be refused and teardowns fail, as often as the queue retries. `rental_sagas`, which has no
  faults, satisfies it, and `rental_double_rent` shows that it is needed: `RentsAreUnique` is the
  property that run violates, by a death in that window.
  `RentIInv` adds that a lab in cleaning has its project (`RentIsKept`) until its cleanup is past its
  last word on it (`HandedOver`) or has put it in quarantine (`SetAside`); that a cleanup's copy of the
  project is that of its lab and in the state its step needs (`CleanerIsCurrent`); and that no stamp is
  of the future (`StampsArePast`), so that the guard `updated_at <= $new` refuses no last save and
  none is repeated after the project went to the next lab. `CleanIInv` adds that what is torn down is
  what the row records (`CleanerTears`). Without an administrator `QuarantineIsSticky` says that
  quarantine is for ever.
* The same module, for any faults and any commands — `UsersLeaveFreeProjectsClean`
  (`FreeProjectIsClean`), from `UserHolds`. The property itself is conditional on `Orderly`: it ends with
  the first unfreeze, which may hit a lab that is deploying, or release by hand; stop, freeze, extend
  and quarantine come at any moment. A request's command stays on record, so what was once disorderly
  stays so, and the proof may take each step from an orderly state. Cleanups of one lab may
  overlap, save stale copies over each other and be retried; `UserIInv` says why what they free is
  empty all the same. Once the deploy is over (`DeployIsAhead`) the record of a lab does not change
  and its resources only go, every copy of the row names the same ones (`CleanerIsBehind`,
  `RequestIsBehind`), and only a cleanup behind its teardown writes "free". The hypothesis is `InTurn`:
  a free project is rented again only when its last tenant is done and no call that began before
  remains. The code does not see to that (`rental_late_request`: a late save brings a lab back from
  done, and its cleanup frees the next tenant's project); `OneLabIsInTurn` shows that one lab always
  satisfies it, so for one lab, as in `rental_one_lab`, the property holds for any number of requests,
  retries and faults. TLC checked `UserIInv` under `InTurn` for two labs, one project, one
  request and one fault (5 million states) before it was proved.
* **`DeploySaga_proofs`** — `ReadyLabKnowsAll`, `ReadyLabHasUsableKey` (hypothesis `KeyIsReturned`:
  the in-memory provider), `FailureIsEarned`, and `ContractIsImplemented`, step by step: every step
  of the saga is one of `DeployContract` or a stutter, so the rental may take a deploy for a choice
  of its outcome. `IInv` follows the state that the saga hands from step to step: before the i-th
  step it holds all of the steps before it and nothing else (`SagaIsComplete`), which is what the
  recorded result of a step gives a later run (`ResultsAreComplete`); attempts, retries and faults
  account for each other (`BudgetIsKept`).
* **`Outbox_proofs`** — `PublishedIsDelivered`; `DeliveryIsImplemented`: every step of the
  outbox is a `Commit`, a `Hear` or a stutter of `EventDelivery`; `DeliveredInOrder`: until a
  refusal the first deliveries of one lab's events are in order; `DuplicatesAreFew`. The first two
  rest on `IInv` (publishers hold committed rows, and mark only what they forwarded), the third on
  `OrderIInv`: the transactions of one subject are serial, and a batch that holds a row
  holds, or follows, all its predecessors. `CopiesIInv` charges each copy of an unmarked row to a
  publisher that has still to mark it, to an attempt counted against the row, or to a fault, which is
  a counter that failed or a command sent again; after the mark only those that hold it add one. An
  error that follows a delivery is charged like one that does not.
* **`SSEBroker_proofs`** — `NeverClosedTwice`, `MapsAlwaysAgree`, `BrokerNeverSkips`. `MapsAgree`
  itself is nearly inductive: a client is in the map exactly while its handler runs and nobody has
  closed its channel, so whoever finds it there, under the lock, is the first to close it.
  `StreamIInv` says where every message is that was ever published — on the bus, lost, handled or being
  handled (`SentIsAccounted`) —, that what a client was told is a run of what its topic handled, that
  nothing for it lies between two of these, and that what came since the last is still in the hands
  of the publishing goroutine, unless the client was dropped.
* **`CheckRuns_proofs`** — `PassesAreAlwaysEarned` and `ShownIsAlwaysConsistent`, the first through
  any repeated delivery and late save; `VerdictsAreFinal`, from `OneWorkerEach`: until a lease
  expires a run has one execution, and it starts from the row as it is. `PassesAreEarned` carries a
  pass from the playbook on the lab's own machine through the worker's memory into the row, for the
  address may be another lab's by then.
* **`OpenStack_proofs`** — `NothingIsMadeTwice`, `ReadyIsAlwaysReachable`, `GoneIsEmpty`. The
  invariant says what is there by the time a call is made: `CreateFindsNothing` (a create follows
  a look-up that found nothing, and nobody else creates), `DeployBuilds` (a server cannot exist
  without a subnet, nor an associated address without a router's interface, so what was half-made
  and then taken for done cannot become ready), `TeardownClears` (what each call of a teardown
  leaves, unless it failed).
* **`QuotaGuard_proofs`** — `DecisionsAreRecent`, for any number of refreshes that overtake each
  other; `OvercommitNeedsBlindness`, for any estimate and whatever a lab really takes. The second is an
  argument over a set of labs: of any that were admitted, one is seen by no other's measurement
  (`OneIsLast`); were the rest all seen by it, its own decision would have counted what they really
  take and its own estimate, and stayed under the threshold. So no relation between estimate and
  take is needed, and nothing is said of what the last lab takes beyond its estimate.
* **`Launch_proofs`** — `TokenAlwaysOpensOnce`, `OthersAreTaught`, `AlwaysOneAccount`. That two
  accepted posts never have one token is not inductive, as nonces are forgotten. `TokensStayClosed`
  adds why that does no harm to a token that is not in `LongLived`: once accepted it has its nonce in
  Redis, or has expired with no post between its check and its claim. `TeachersWereEnrolled` carries the roles from the table
  into sessions. `AccountIInv` extends the uniqueness of e-mails and of identities from the
  committed rows to the open transactions, which hold the locks of what they insert.

Left to TLC: liveness, which is beyond the prover (`EveryLabEnds`, `EveryRentEnds`,
`CleaningIsNotForgotten`, `DeployIsNotForgotten`, `EveryEventIsPublished`, `BusIsDrained`, `DroppedClientLeaves`,
`NoCheckIsForgotten`, `TeardownEnds`, `StaleIsRefreshed`, `PostsAreAnswered`); and
`DoneLabIsTornDown` when requests race the timer. That one holds for one lab (`rental_one_lab`, and
`rental_users.cfg` with two requests) because the failures two cleanups count add up to a quarantine,
and only without faults (section 3); it was also checked once with the limits of the code, three failures and five retries, for two
requests (stop, freeze; 11.5 million states).

## 5. What is not modelled

* HTTP decoding, OpenAPI types and the generated code, the Moodle emulator, seeding, migration,
  configuration and the web client: no state of the system, or test doubles.
* Settings and audit: single-row writes and an append-only log; listings read only.
* Cryptography of secrets and tokens; the formats of claims; the development principal.
* In the rental: the quota decision before a create (any request may be admitted) and the access
  rules (any request may be sent). Both only widen what the model allows; `QuotaGuard` and
  `Policy` have them.
* The capacity and the address counter of the in-memory provider, labels and images.
* Durations: timers, leases, tokens and nonces may expire at any moment that the order of events
  allows. Extend and unfreeze move `cleanup_at` and leave the scheduled task, which the models
  cannot tell from an early timer.
* A failing database call is a crash of its call; a lease that expires while its handler
  still runs ends that handler.
* A step error of the deploy that is retried is, in `LabRental`, a fault; its budget is the
  subject of `DeploySaga`.

## 6. Plan

1. Proofs: `DoneLabIsTornDown` with requests and without faults, for one lab, which needs an account
   of the failures that overlapping cleanups have counted.
2. Composition: the broker behind the outbox, so that order and repeats are followed to the client.
3. Timers with time: extend, freeze and unfreeze against the scheduled task.
4. The in-memory provider's capacity and its addresses, which wrap around.
