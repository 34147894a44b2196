# NexusPaas: TLA+ verification

NexusPaas is a Go backend that runs GPU jobs for projects on Kubernetes.  It is
one code base with 15 logical services, deployed as 8 processes.  This directory
holds TLA+ models of the parts whose correctness depends on the order in which
processes, requests and failures meet, TLC configurations that check them on
small instances, and TLAPS proofs of the results that matter most.

## The system

| part | code (`src/backend/internal/`) | model |
|---|---|---|
| quota reservations | `platform/reservation.go` | `Reservation`, `QuotaLedger` |
| life of a job: submission, dispatcher, reconciler, reapers, eviction, preemption, release | `services/workload/`, `services/schedulerquota/` | `JobLifecycle`, `JobStatus`, `JobContract` |
| admission review; queues, plans, bindings | `services/schedulerquota/admission*.go`, `handler.go`, `plan_window_reaper.go`, `services/orgproject/plan_binding_contracts.go` | `Admission`, `SubmitSaga` |
| manifests of a job | `services/workload/dispatcher*.go`, `platform/cluster/apply.go` | `DispatchManifests` |
| preemption record and victims | `services/schedulerquota/preemption*.go` | `Preemption` |
| GPU telemetry, resource hours | `services/gpuusage/`, `services/resourcehours/` | `GPUUsage`, `ResourceHours` |
| record store, outbox, relay, lease | `platform/store_postgres.go`, `crud.go`, `events_postgres.go`, `lease_redis.go` | `RecordStore`, `EventRelay` |
| read models of all services | `platform/projection*.go` and the consumers | `Projection`, `ReadModels` |
| migrations | `platform/migrate.go` | `Migrations` |
| identity and its LDAP mirror | `services/identity/` | `Identity` |
| groups, projects, roles | `services/orgproject/`, and nine resolutions of a role | `Organisation`, `ProjectAccess` |
| requests, announcements, notifications | `services/requestnotification/` | `RequestForms` |
| image builds and catalogue | `services/imageregistry/` | `ImageBuilds`, `ImageCatalog` |
| storage: volumes, mounts, transfers | `services/storage/`, `platform/cluster/` | `StorageMounts`, `FastTransfer` |
| config files, cancel commands | `services/workload/handler.go`, `job_access_handlers.go` | `ConfigFiles` |
| proxy policies | `services/authorizationpolicy/` | `ProxyPolicies` |

`PROJECT.json` lists every part with its files and what is left out and why, and
maps every definition to the lines it models.

How the parts interact.  A submission is reviewed by the scheduler service against
plans, queues and the usage of the moment; it then reserves and commits quota and
creates a job record.  The maintenance goroutine of a workload replica lists the
records, asks the storage service what to mount, creates Kubernetes objects,
watches them, and marks jobs failed or completed.  The scheduler evicts jobs of
closed plan windows and preempts victims through two contracts of the workload
service.  Whoever marks a job terminal sends one release request for its quota.
Collectors sum up what jobs used.  Every write leaves an event in the outbox of
its transaction; the relay publishes it, and other services build their read
models from it.  Services are different processes: a request can be lost, served
late, or served without its answer arriving.  The store merges a patch into a
record without looking at what the writer had read, and a maintenance lease can
run out under its task.  Most of the properties here are about what these last
two facts do and do not break.

## Modules

In every module one step is one access to the record store, to Kubernetes, to the
directory, or to another service, or one transaction.  What a handler has read it
keeps in a variable of its own (`loc`, `creating`, `orgreq`, `preq`, ...), and
may write after others have changed it.  Data is reduced to what the checks tell
apart.  Variables marked as history are read by properties and bounds only.

### A job and its quota

**`JobStatus`** is the vocabulary both services share: the sets of statuses each
handler tests for, `transitionAllowed` of the reservation state machine, and what
`NativeJobLifecycle` reports for the objects of a job.

**`Reservation`** models the three reservation handlers run by any number of
requests.  A transition is two steps, as in `handleReservationTransition`: `Read`
takes the early returns (404, 200 for the state already reached, 409), `Update`
writes record, version and outbox row in one transaction.  `UpdateError` is the
transaction that is rolled back, or committed without the caller learning of it.
`Overlap` is the set of reservations whose requests may overlap in time; for the
others a request is read and written before the next one is read.
**`QuotaLedger`** is the abstract reservation: reserved, perhaps committed,
released once, nothing after that.

**`JobLifecycle`** models everything that writes a job record or its Kubernetes
objects.  The variables:

- `status`, `retry`, `due`, `aged`: the job record;
- `objects`: the Kubernetes objects of a job taken together (none, an object
  without a pod, pods queued, running, finished or failed, everything
  terminating);
- `res`, `inflight`: the reservation, and release requests on their way;
- `sub`, `loc`: where each submit handler and each process is, and what it has
  read;
- `ended`, `rolledBack`, `lost`, `faults`: history.

Kubernetes itself is external: `ObjectProgress` lets it schedule, run, end,
restart or lose objects by itself, which is how the code in `src/` treats it.
Failures are actions of their own: reads and writes of the store that fail, a write
that is committed without the process learning of it (`AcknowledgementLost`, after
which the process takes the job for not marked and sends no release), requests
without an answer, and crashes.
**`JobContract`** is what a user may expect of a job and its quota.
`MCJobLifecycle` instantiates the model and states the refinement mapping.

### Into the cluster

**`Admission`** is the scheduler's review as operators: resources summed over
containers and replicas, quota of plan and user, caps, queue, image rules, MPS
sharing, accelerator, network, placement and streaming profiles, and the weekly
windows of a plan with their wrap at the end of the week.  **`SubmitSaga`** puts
the review into `submitJob` (idempotency lookup, listing of usage that may come
back empty, review, automatic preemption and a second review, reservation,
create), beside the handlers that change queues, plans and bindings and cascade
to projects, and the pass of the plan-window reaper, which lists the bindings once
and reads each plan later.  `width` is how many handlers a behaviour lets overlap.
A list gives no error: it is cut short without the handler knowing, and a plan that
cannot be read looks like one that is gone.

**`DispatchManifests`** follows a job's resources through the dispatcher: storage,
data plane, placement, accelerator, network, streaming, GPU claims, limits and
labels; through Volcano or as plain objects; creation one by one, fallback to pods
when a VCJob is refused, roll-back by label.

**`Preemption`** has the search for the fewest victims, the second look at them,
deletion, mark by mark in the workload service, and the record under an
idempotency key, with failing calls, jobs that end meanwhile and a process that
stops.  **`GPUUsage`** is the collector's pass: snapshots, summaries, drift with its
alerts and their events, retention.  **`ResourceHours`** is the other collector's:
one record per pod, started and ended by what the status of its containers says,
ended by the pass when the pod is missing, and summed up.

### Platform

**`RecordStore`**: numbered ids, merges, two-statement upserts, deletes and cascades,
in transactions that hold the rows they wrote until they commit or are rolled back,
and the event written with them.  **`EventRelay`**: the lease that expires under its
task, and the relay that publishes and then marks.  **`Projection`**: runs that may
overlap, inbox, dead letters, replay, drift measurement and rebuild, over the events
and consumers that **`ReadModels`** lists: what each service makes of each event of
each owner, and which changes of its rows an owner publishes no event for.
**`Migrations`**: runners of several releases with the advisory lock, checksums and
the dirty mark.

### Services

**`Identity`**: accounts and directory, sessions, refresh and API tokens, lockout.  A
session and its refresh token are two writes, and the second one may fail.
**`Organisation`**: groups, memberships, projects, members, quotas and GPU claims,
each handler a check and a later transaction.  **`ProjectAccess`**: the ten
resolutions of who may use a project, over the same rows.  **`RequestForms`**,
**`ImageBuilds`** and **`ImageCatalog`** (which extends it: sync with Harbor,
publishing behind the provenance gate, rules, image requests), **`FastTransfer`**
(records, movers, callbacks), **`StorageMounts`** (rows, plans, claims and volumes,
share-manager repair; one dispatcher is followed, and others make claims, volumes
and pods under it, because its lease can run out while it waits), **`ConfigFiles`**,
**`ProxyPolicies`** (with reads that fail silently and defaults that are created
partly).

### Composition

`MCRuntime` and `MCSubmit`, `MCPlatform`, and `MCStorage` and `MCServices` put
components together that share no state: `focus`, chosen initially, says which one
a behaviour moves, so that state spaces add up instead of multiplying.  Where a
component is large, `focus` also selects the kinds of request that are served;
each combination of kinds that the properties are about is some focus.  Components
that do interact are composed inside their modules: `SubmitSaga` with `Admission`,
`ImageCatalog` with `ImageBuilds`, `ProjectAccess` with `Organisation`, `Projection`
with `ReadModels`, `JobLifecycle` with the reservation and Kubernetes.

### Abstractions

- The store is Postgres (transactional); the in-memory stores are not modelled.
- Amounts are a few units; GPUs are counted in hundredths, as MPS percentages are.
- A week is `Week` ticks, and the grace period `Grace` of them.
- In `JobLifecycle` a job has one reservation, as `submitJob` makes it, and the two
  reads of `markJobFailed` and `MarkFailedIfActive` are one step, since only the
  second one decides.  Manifests are whether they can be prepared and created
  there; `DispatchManifests` has their content.
- `SubmitSaga` takes reserve and commit as one step, and what happens to a job
  later as what usage counts.
- `ProjectAccess` takes the copies of rows to be current; how they are kept so is
  `Projection`.  Of the projects above it has the users of their groups and members,
  which only the cluster view looks at.
- `RecordStore` takes the clocks of the replicas to agree: the outbox is read in the
  order of a time that the writing process sets.
- `ImageBuilds` takes every replica to have a docker daemon of its own: push, inspect,
  syft and trivy resolve the tag there, and the tasks of a replica run one after
  another, so what is scanned and signed is what was built.

## Runs

| run | module | result |
|---|---|---|
| `reservation` | `Reservation` | holds |
| `reservation_race` | `Reservation` | `ReleasedOnce` violated |
| `job_concurrent` | `MCJobLifecycle` | holds |
| `job_serial` | `MCJobLifecycle` | holds |
| `job_eviction_race` | `MCJobLifecycle` | `EvictionKeepsTerminal` violated |
| `submit` | `MCSubmit` | holds |
| `submit_race` | `MCSubmit` | `QuotaAlwaysKept` violated |
| `plan_window` | `MCSubmit` | `ActivePlanNotEvicted` violated |
| `platform` | `MCPlatform` | holds |
| `services` | `MCServices` | holds |
| `last_admin` | `MCServices` | `AdminRemains` violated |
| `build_cancel` | `MCServices` | `CancelFinal` violated |

`reservation` shows that record and outbox never disagree, that an "ok" can be
relied on, and that without overlap the handlers implement `QuotaLedger`.
`reservation_race` shows where that ends: two releases that both read the
reservation as committed both announce `QuotaReleased`, while QUEUE-017
(`docs/acceptance/plan-queue-quota.md:117`) says that preempted quota is released
exactly once.

`job_concurrent` asks what survives every interleaving and any single fault:
objects only after quota (`ReservedBeforeApply`, QUEUE-007), release only after
an end or a rollback (`ReleasedOnlyAfterEnd`), no quota forgotten unless a crash,
a failed access or a lost message cost its release (`QuotaAccounted`), and the retry
limit (`RetryBudget`).

`job_serial` asks what a job may rely on when nobody but the maintenance goroutine
of one replica touches it: a terminal status is final, every submitted job leaves
the queue, and the quota of an ended job comes back (`ImplementsContract`, with the
weak fairness of `JobContract`).  With a plan-window reaper beside the replica TLC
finds the first and the last violated: the dispatcher and the reconciler write
from listings, and the eviction contract checks before it writes.
`job_eviction_race` is one such case, against the comment at
`eviction_contracts.go:23` that an eviction never overwrites a terminal status.

`submit`:

- `SerialSubmissions`, `QuotaKept`: submissions that do not overlap, after complete
  listings, keep the plan's quota, the meaning of an idempotency key and the
  permission to share GPUs, however the catalog changes between them.  A lookup that
  is cut short creates the job of a key again.
- `CatalogConsistent`: the cascades of deleted queues and plans are complete.
- `EvictionEarned`: a pass of the reaper evicts no project whose binding stood and
  whose plan was open, by admission's rule and for the whole grace period, from the
  listing on; unless the plan could not be read.
- `DispatchedWhole`: a job is marked running only with all its pods in some form,
  with everything it was admitted with, and with the labels by which it is found
  again.
- `PreemptionHonest`: a completed preemption record tells the truth, and its choice
  of victims is a smallest one (compared with a definition over all subsets).
- `TelemetryHonest`: summaries are complete, alerts last as long as their reasons.
- `HoursHonest`: after a complete pass that nothing overlapped, a pod counts at least
  until it or one of its containers ended, and at most until the first complete pass
  after its end; a pod with a restarted container may count for less.  Whatever
  overlaps, no more is reported than could have been used.

`submit_race` is the overlap: two reviews count the same usage, against "every
resource consumption must reserve before dispatch, eliminating TOCTOU"
(`backend/docs/services/scheduler-quota-service.md:7`).  `plan_window` shows that for
the grace period after a window opens, the reaper evicts what admission lets in,
although the plan is active (`plan_window_reaper.go:77`).

`platform`: what an event goes through.  `EventsExplainRows` (the event about an id
that the outbox lists last says what its row holds; rows that a cascade takes along
have none), `IdsNeverReused`, `RelayHonest` and `Delivered` (in the stream, or a
dead letter after all its attempts), `ConsumedAccounted` (applied, being applied, or
replayable; lost only by a crash between consuming and applying, by a delete that
fails, or where the dead letter cannot be written either), `ReadsCurrent` and
`Converges` (a read model catches up with the rows whose last change had an event,
by reads and by ticks alone), `RebuildRestores` (of the same rows) and
`RebuildsEnd`.  `Mirrored`: an account without directory entry gets one.

The read models do not follow everything, and the properties say so.  Owners change
rows without an event: cascades take rows along, and some handlers write around the
event.  `ReadModels` lists those changes per owner as `SilentChanges`; such a row is
wrong in every read model until its next event, and a rebuild does not help, since
it replays the events.  Beyond that, a deleted user stays in the read models that
upsert on `UserDisabled`, a deleted plan in the one that unwraps its nested payload,
no queue event a consumer waits for is published, and of a job only its submission
is.  With these exceptions `ReadsCurrent` and `Converges` are checked for every pair
of consumer and resource the services register.

`services`: `PublishedVerified`, `CancelKept` (images), `RefreshOnce`, `LockEarned`
(identity), `OrphansOnlyByRace`, `RolesAgree` (organisation), `RequestsKept`,
`TransferHonest`, `MountedAsPlanned`, `MigrationsHonest`, `ConfigHistoryKept`,
`PoliciesAsGiven`.  Several of them name the overlaps and failures after which they
no longer hold (two requests that both passed a check, a create that was answered
with AlreadyExists and took the claim it met, a list that the store cut short,
defaults created by two processes at once).  A history variable records each of
them when it happens, so that everything else stays covered.  `RolesAgree` states
one difference between the services: the cluster view also lets in the users of a
project above.  `ConfigHistoryKept` states one that an update makes: a blank
`project_id` passes the check that the field is immutable, and leaves the file in no
project.
`last_admin` shows that the last enabled administrator can be deleted, disabled or
demoted (`docs/acceptance/rbac.md:28` forbids it), and `build_cancel` that a build
cancelled while it runs goes on and overwrites its cancellation
(`docs/acceptance/image-build.md:78`, IMG-012).

### Instances and bounds

Every bound is a constant in the configuration and a guard in the module.  An MC
module narrows them further for a focus, with a comment that says how, so that two
kinds of trouble are not multiplied where each meets the property alone.

- `reservation`: 2 reservations, 3 requests, overlap on one of them: the third
  request is what meets a reservation after two have raced.
- `job_*`: one job.  Jobs interact only through the dispatcher's cap and order, so
  one job meets every interleaving of the processes that touch it.  Two attempts
  (`RetryMax`) give one retry before the limit, three a retry of a retry.  One
  fault is enough for each place where the code gives up a release.
- `submit*`: 2 handlers, up to 2 overlapping, 2 projects, queues and plans, 2 jobs,
  2 catalog changes, one empty listing or failed call; a week of 4 ticks with
  windows that wrap.  Two jobs fill a plan, two projects meet on a device.  One
  handler at a time meets two catalog changes, or one and a failure; overlapping
  ones make two submissions, or one beside a catalog change (`SubmitBound`).
  Manifests: 2 jobs whose names collide, in shapes that take every path of the
  preparation.  Preemption: 2 callers, 3 victims of different size and age, replay
  of a key.  Telemetry: 2 jobs, 3 ticks, 1 fault, retention of 1.  Hours: 2 pods,
  2 collectors, 3 hours, 1 fault; a second pod or a second collector comes before
  the last hour.
- `platform`: 3 published writes of one row (create, change, delete) and silent ones
  between them, 2 replicas, 2 events, 2 attempts, 3 failures; 2 clients, 3 ids (one
  named by its client, one the clock can show), 3 events (`MaxEvents`); the directory
  with 1 name, 2 requests and 2 outages.
- `services`: two callers everywhere (every check-then-write race needs two), two
  of whatever can be confused (groups, projects, policies, pods, releases), limits
  of 1 where the code has 3 or more, so that they are met.  Tags deleted past the
  platform meet one build; volumes with permissions are created, not running, which
  the mounts do not tell apart; of the policies one thing at a time is upset.

Deadlock is checked in the `reservation` and `job` runs.  In the others the bounds
on requests end a behaviour, and nothing in those components waits for another.

The type invariants of the modules (`TypeOK`, `StoreTypeOK`, `IdentityTypeOK`, ...)
hold on the same instances but are not listed as results of the runs.  Those of
`JobLifecycle` and `Reservation` are proved; the other proofs carry the types they
need in their invariants.

### Fairness

`job_serial` (`FairSpec`).  A replica that has begun a task goes on with it (weak
fairness of `Step`): `StartMaintenance` runs one goroutine that does nothing else.
It comes to the dispatcher again and again (strong fairness of `StartDispatcher`,
because the other tasks disable it while they run): `runMaintenance` goes through
all tasks in each tick.  Requests sent are served and retry times pass (weak
fairness).  Nothing is assumed of Kubernetes, of submissions, or of the reapers.

`platform` (`Spec` of `MCPlatform`).  Maintenance ticks come again and again (strong
fairness of `ProjectionTick`, which a running projection disables), a run that has
begun goes on (weak fairness of `ProjectionRun`), each replica's relay is started
by the same ticks (weak fairness of `RelayStep`), and so is the mirror task
(`MirrorStep`).  Reads, writes of owners, requests and failures are not fair, and
failures are bounded: without an end to them nothing is delivered.

## Proofs

Every theorem holds for every value of the constants that satisfies the named
assumptions: any sets of jobs, replicas, callers, users, groups, rows, releases,
any limits, any number of faults.  What a theorem states is the property that a run
checks, word for word, of the component's own specification (`Spec`, `RelaySpec`,
`ProjectionSpec`, ...).  Composition only selects which component moves, so it adds
nothing to prove.

| module | theorem | property |
|---|---|---|
| `JobLifecycleProofs` | `TypeCorrect`, `QuotaBeforeApply`, `ReleaseAfterEnd`, `QuotaNotForgotten`, `RetriesBounded` | `TypeOK`, `ReservedBeforeApply`, `ReleasedOnlyAfterEnd`, `QuotaAccounted`, `RetryBudget` |
| `WorkloadProofs` | `CatalogStaysConsistent`, `EvictionsAreEarned`, `SubmissionsAreSerial` | `CatalogConsistent`, `EvictionEarned`, `SerialSubmissions` |
| `PlatformProofs` | `RelayKeepsItsWord`, `NoIdTwice`, `RowsExplained`; `MigrationsAreHonest` | `RelayHonest`, `IdsNeverReused`, `EventsExplainRows`; `MigrationsHonest` |
| `ProjectionProofs` | `NoEventForgotten`, `ReadsAreCurrent`, `RebuildsRestore` | `ConsumedAccounted`, `ReadsCurrent`, `RebuildRestores` |
| `IdentityProofs` | `RefreshBuysOnce`, `LocksAreEarned` | `RefreshOnce`, `LockEarned` |
| `ServiceProofs` | `DeletesCascade`, `ServicesAgreeOnRoles`; `PublishedIsVerified`, `CancelledIsKept`; `ReservationTypes`, `RecordsAgree`, `AnswersHold`, `Refinement` | `OrphansOnlyByRace`, `RolesAgree`; `PublishedVerified`, `CancelKept`; `TypeOK`, `LedgerFollowsEvents`, `OkIsAnnounced`, `ImplementsLedger` |
| `RequestProofs` | `ConfigHistoryIsKept`; `RequestsAreKept` | `ConfigHistoryKept`; `RequestsKept` |
| `StorageProofs` | `TransfersAreHonest`; `MountsAsPlanned` | `TransferHonest`; `MountedAsPlanned` |

Every proof has the same plan: an inductive invariant, checked by TLC on the
instance of the run before it was proved; one lemma for the initial states; one
lemma or case per action; and a last step that combines them.  Few of the
properties are inductive by themselves, because a handler writes what it read
some steps before.  The strengthenings say what such a handler may still rely on.
A leaf is tried with Zenon, and where that fails with the SMT solver.

### Jobs and reservations

`JobLifecycleProofs` proves `Spec => []IInv`, where `IInv` says:

- `SubmitInv`: until a submission is over, its reservation follows the handler and
  nothing has been ended, rolled back or released;
- `JobInv`: a job with a record or with objects is *accepted*, that is, its
  submission is over and quota was committed for it; a release on its way is for
  an ended or rolled-back job;
- `LocalInv`: every job that a process has listed or has in hand is accepted, and
  a process about to release has ended the job in hand.

The last point is what makes stale listings harmless for these properties: being
accepted and having ended are never undone, whatever happens to the record
meanwhile.  Most steps only move a process and change objects of accepted jobs;
`QuietStep` proves those once.  `MarkStep` and its two corollaries prove the
writes of a status.  The rest is one lemma per process and one case per action.

In `ServiceProofs` the strengthening `SerialInv` says that a reservation without
overlap has at most one request between its two steps, and that this request's
move is still allowed; it is what fails for reservations with overlap.  The
refinement `Spec => ImplementsLedger` is proved step by step from it.

`WorkloadProofs` is about `SubmitSaga`.  Handlers that do not overlap are busy one at
a time (`OneBusy`; `FreeAlone` counts them, so they must be finitely many).
`CatalogInv` says for them that the queues a plan is about to be written with exist,
that the lists a deletion of a queue is about to write are the plans' own without
that queue, and that a project is bound to a plan that is gone only while the
handler that deleted the plan clears the bindings.  `SubmitInv` says that job ids
count the jobs, that past a complete lookup no job has the key of the submission, and
that past a review of all jobs none of another project shares its GPU class, unless
plan and queue permit that.  `ReviewPassedMPS` takes the rule on MPS out of the nine
that a submission is reviewed by.  `ReapInv` says what a pass of the reaper knows of
the projects it has still to look at: each is bound as it was listed and its plan is
open, or it is excused, because that changed since the listing.  From this the
reaper's predicate, on the plan read later, finds no reason against a project that is
not excused.

`ConfigInv`, in `RequestProofs`, is about config files and cancel commands.
`ConfigKnows`: a request that is to write a version has a content that the file held,
and an update whose check named a project names the one its file was created in, or a
blank one, unless requests crossed.  `AnswersTrue`: an answer to a cancellation is
the command of its key and body.  `KeysOnce`: a key that was neither raced nor missed
by a listing has one command, or one request that is about to create it, and never
both.

### Platform

`RelayInv`.  A replica works through rows that it selected earlier, and its lease may
have passed to another replica meanwhile, which works through the same rows.
`RelayHolds` says what survives that: a row in hand had room for one more attempt,
every attempt it was read with had failed, and what the replica is about to write
of the row (published, failed) is already true.  `failed`, the failures there were,
only grows, so a late mark never claims more than happened.

`StoreInv`.  For the ids: one which was counted is not above the high-water mark.  An
id that was read off the clock, when the transaction failed, may be above it, and
is above all ids there were.  For the events: no two transactions hold a row, so the
event of one that is about to commit is younger than every event that the outbox has
about its row (`RowsHeldOnce`, `YoungestEvent`).  Without the row lock the
transaction that took its time first could commit last: the row would be its own,
and the last event the other one's.

`RunsInv` (for `ConsumedAccounted`) says that a run resolves only what it has
applied, and that the run of a tick belongs to the reconciler.  `RowsInv` (for the
other two) has the order of events in it.  `OwnerFollows`: a row of the owner that
did not last change in silence is what the last event about it says.  `AllFollowed`
shows, consumer by consumer and resource by resource, that the last event about a row
determines what the consumer makes of the row.  `Quiet`: without overlap and faults
the inbox is an initial segment of the outbox, and a row of the read model is what
the last event of that segment says.  `Rebuilding`: a rebuild without overlap and
faults applies the whole outbox once more and in order, whatever a replay takes out
of the inbox at the same time.

### Services

`IdentityInv`.  `TokensSpent`: a refresh token that has bought a session, or is held
by a request on its way to buy one, is deleted, and no two requests hold the same
one; the conditional delete in `ConsumeRefreshToken` decides.  A request that has
written its session and not yet the refresh token has spent its own already.
`CountsBehind`: a request that read a failure count writes it back plus one later,
when others have done the same, so counts can fall behind but not run ahead.  The
count and the failed logins that are still unrecorded are together at most the failed
logins there were.  This is a statement about cardinalities, for which the callers
must be finitely many.

`OrgInv`.  `Unraced`: as long as no delete has been served beside another request,
what the checks of a request found still holds when it writes.  `RolesAgree` needs
no invariant beyond types: it compares ten resolutions over the same rows.  The
users of a project above are one set there, the same for all resolutions.

`ImageInv`.  `SignedBefore` and `GatedSigned`: what a runner is about to record as
passed, what a record calls succeeded, what the gate has let through and what a
rule was made from are all signed, whatever happened to the tag since.
`CancelledIsKept` is an action property.

`FormInv` and `PinsPromised`.  A request that is about to write a form writes a status
that is a transition from the one it read; so as long as nobody overtook it, it
does not write to a completed form.  Announcements are pinned after a count, or
without one when the announcement was pinned as it was read: the pins there are and
the pins that administrators have been promised together stay below the limit and
the number of administrators.  This is again about cardinalities, with finitely
many administrators.

`TransferInv`.  `RequestKnows`, `MoverKnows`: a Job belongs to a row of its own name,
the script copies nothing more after an rsync that ended well, it reports a failure
only after a failed one, and it has seen 100% only after its own success.

`MountInv`.  `MounterKnows`: from the step that makes a share to the creation of the
objects, the claim is of the volume of the group that the plan named, and the
scratch claim has the access mode of the plan, or a create of this dispatcher met
one that was there (`adopted`).  No dispatcher takes a claim or a volume away:
`Grows` is all that is needed of the steps of the others.

`MigrationInv`.  `LedgerSeen` and `RowTold`: one runner at a time is past the lock, at
most one row is dirty, and a row says of its unit's SQL whether it has been
committed, once, with the row's checksum; a dirty row leaves open which.

### Assumptions

The assumptions on constants are in the modules that declare them, and TLC
evaluates them in the runs.  Most say that a mark such as `NoJob`, `NoTransfer` or
`NoMigrator` is not a value, that a bound is a number, or that sets of actors are
disjoint.  The others: `RelayAssumption`, at least one attempt (the code has 5);
`IdentityAssumption`, finitely many callers and usernames; `FormsAssumption`, finitely
many administrators and at least one pin (the code has 3); `ShapesAssumption`, the
pairs of consumer and resource are ones the services register;
`MigrationsAssumption`, a release has finitely many files, with checksums;
`HandlersAssumption`, finitely many handlers; `RecordsAssumption`, a decoded request
has every field, and a plan is a record of the plan's fields; `CatalogAssumption`, the
catalog at the start is consistent.

### Only model-checked

- Liveness (`SubmittedLeavesQueue`, `Delivered`, `Mirrored`, `Converges`, `RebuildsEnd` and
  the fairness of `ImplementsContract`): fairness is beyond the proof system.
- `TerminalIsFinal` and the safety part of `ImplementsContract`: they hold for one
  replica that nobody disturbs, not for every value of the constants.
- `QuotaKept`, `PreemptionHonest`, `TelemetryHonest`, `DispatchedWhole`, `HoursHonest`: they
  sum over finite sets, fold sequences or search through subsets, which needs
  induction over data.
- `PoliciesAsGiven`: not attempted.

## Hazards

`PROJECT.json` lists, with the line where each bites, what is hard to test in this
code, and the properties that would catch it.  Two have no property: a preemption
key that stays refused after a crash, which is what the code means to do, and
starvation by the dispatcher's cap and strict priority.

Met on the way, without a document that says otherwise and therefore without a
run: a build that a crash leaves "building" is not picked up again; logging in or
out overwrites a status an administrator set; marking all notifications read while
they are cleared brings some back; jobs that were preempted or evicted get no GPU
summary; a dirty migration row stops every later run until it is repaired by hand;
and no part of the repository consumes the events that cancel a job or command a
config instance.

## Not modelled

- **Circuit breaker, rate limiter, revocation cache** (`platform/adapter.go`,
  `ratelimit*.go`, `revocation.go`): the breaker only adds refusals where the models
  already have failures; the limiter's concurrency is one atomic script; the cache
  depends on clocks the processes do not share.
- **Authentication, gateway, proxy, routing, OpenAPI, configuration, telemetry,
  process start**: no state, or wiring.  OIDC and captchas are conversations with
  remote systems.
- **Raw permissions, grouping policies and their bootstrap, the proxy services
  list** (`authorizationpolicy/permissions.go`, `seed.go`): what replicas with
  different configuration make of the bootstrap depends on deployment.
- **Drift detectors of the scheduler, priority classes, resource quota sync, image
  cleanup, job logs, media upload, object store, VPN counters**: they read and
  report, or write one remote object from current data.
- **In-memory store and event bus**: used without a database only.
- **Batch handlers** that repeat a single one, and list handlers.

## Plan

Theorems next, for every value of the constants: `PoliciesAsGiven`, whose module is
small, and `TerminalIsFinal` under the assumption of one replica alone.  Then
`DispatchQueue`: more jobs than the cap, arriving for ever, and what strict priority
does to the last.
