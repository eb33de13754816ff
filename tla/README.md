# LeapView in TLA+

LeapView serves governed dashboards out of immutable analytical snapshots. Its
server keeps runtimes of several workspaces in memory, replaces them while
requests are running, refreshes data in the background through a durable job
queue, and admits all of this work through one node-wide controller. This
directory models those parts in TLA+, checks them with TLC on small instances,
and proves the central facts with TLAPS. `PROJECT.json` maps each definition
to the source lines it translates, and lists runs, hazards, findings and
theorems.

Paths below are relative to `src/`.

## 1. The system

### Components, their state and their operations

| Component | State | Operations | Module |
|---|---|---|---|
| Durable job queue and runner, `internal/platform/jobs` | table `api_async_jobs` (status, owner, lease generation, expiry); goroutines of each process | enqueue, list candidates, claim, renew, complete, fail, cancel; poll, admit, dispatch; crash, restart | `JobQueue` |
| Workload admission, `internal/workload` | running counters by node, class and workspace; per-class queues with a workspace order and cursor; the class cursor | `Acquire`, `Release`, `cancelWaiter`, `scheduleLocked`, `Close` | `Workload` |
| Runtime host, `internal/runtimehost` | per workspace: current generation, tombstones, reference counts, cleanup state, the snapshot-lease release queue; the registry's cutover lock | prepare, seal, activate, publish, acquire, release, clean up, renew, reload, close | `RuntimeHost` |
| Activation, `internal/deployment`, `internal/refresh/run`, `internal/refresh/sqlite/publication.go` | serving-state pointers and statuses, deployments with the pointers they were planned against | create, cancel, verify and activate a deployment; queue and publish a refresh | `Cutover` |
| Refresh runs, `internal/refresh/run`, `internal/refresh/sqlite` | root and dependency runs, their jobs with lease, owner and claim number, target generations, candidate states | submit and supersede, insert dependencies, list, claim, execute, record, prepare, publish, fail, cancel, recover at startup | `RefreshRun` |
| Retention, `internal/servingstate/retention` | serving-state statuses, snapshot leases, the snapshot catalog | release expired leases, read what is protected, list the catalog, expire the rest | `SnapshotRetention` |
| Lifecycle group, `internal/platform/lifecycle` | started prefix, start and stop attempts, epoch, the run context | `Start`, `Stop`, `stopStarted`, `rollbackStart` | `LifecycleGroup` |
| Managed data, `internal/manageddata` | upload sessions, staging, blobs, finalization jobs | begin, describe and recover an upload, inspect, finalize, abort, expire, clean up staging, collect blobs | `ManagedData` |
| Result cache, `internal/analytics/resultcache` | entries under three nested limits, scope generations, flights, reference counts | open, invalidate and close a scope, look up, store, evict, join, leave and finish a flight | `ResultCache` |
| Dashboard streams, `internal/dashboard/stream`, `session`, `http` | session record with a version, registry of coordinators, refresh generations, the coordinator's mutex | open a stream, filter, select, navigate, load a window, refresh a model; begin, emit, finish, expire, close | `DashboardStream` |
| Connection pools, `internal/analytics/connectionbinding` | stored binding, directory of managers, pool generations with leases | read, lease, release, refresh, degrade, disable, enable, reconfigure, retire, close | `ConnectionPools` |
| Refresh schedule, `internal/refresh/schedule`, `internal/refresh/sqlite/pipeline_repository.go` | next run of each cron entry with the artifact it belongs to, occurrence rows (claimed, attached to a run) | reconcile with the active artifact, claim what is due, requeue abandoned claims, submit, attach, release | `RefreshSchedule` |
| Candidate runtimes, approvals and releases, agent loop, development loop | | | not modelled, section 7 |

The remaining components (compiler, dashboard definitions and visualization,
access control, HTTP, CLI and desktop front ends, database helpers, generated
code) are listed in `PROJECT.json` with the reason they are left out.

### How they interact

* A job's goroutine asks the admission controller for a permit before it
  claims the job, and runs its handler under the permit's context. An
  execution deadline, a lost job lease and shutdown all reach the handler
  through that context.
* A refresh is a job whose handler materializes a snapshot, prepares a runtime
  for the candidate serving state, and publishes it through the registry. A
  deployment does the same for several workspaces from a request.
* The registry runs the durable transaction of an activation as a callback
  under its cutover lock, then swaps the managers' current generations.
  Requests take the read half of that lock to acquire a generation.
* A retired generation is cleaned up when its last reader is gone. Its
  snapshot lease goes to a bounded queue that releases the row. Retention
  reads those rows to decide which snapshots it may expire.
* A page's stream begins refreshes; their queries go through the result cache,
  which a refresh of the data invalidates, and through leases on connection
  pools, which administration rotates underneath.
* A dispatcher claims the due occurrence of a pipeline and queues a refresh for
  it; a deployment replaces the schedules afterwards, in a step of its own.
* An upload is finalized by a job of the durable queue; the collector reads the
  sessions and revisions to decide which blobs it may delete.
* The lifecycle group starts the pumps, workers and listeners in order and
  stops them in reverse.

### What is hard

Grants race timeouts, cancellations and `Close`; abandoned job leases race
their late owners; cutovers race readers, the cleanup worker and shutdown; a
durable commit and the swap in memory are separate steps; an activation may be
repeated, refused, cancelled or overtaken; release queues fill up or close;
collectors race what they collect; shared executions outlive the caller that
began them; a page's commands race its refreshes; processes die anywhere. `PROJECT.json` lists each such hazard at its line, with
the properties aimed at it or the reason none covers it yet.

## 2. The modules

### `LeasedWork`, `JobQueue`

`LeasedWork` is the promise to workers: an item is offered, held by one worker
at a time, possibly lost and taken again, and finished once by its holder.

`JobQueue` is the table and the runner. The columns are functions over job
ids; a goroutine is a pair of a process and a job, because a poll starts one
goroutine per candidate. Each SQL statement is one atomic step, with the
eligibility test of the listing repeated in the claim as in
`async_job.sql`. Wall time is reduced to one bit per lease: `LeaseExpires` may
happen at any moment, which covers every clock and every pause. `created_at`
keeps its one-second resolution, so ties in the listing order occur. Owner
names may be shared by processes, as they are after a restart on one host.
`Crash` removes a process's goroutines at any point; `Shutdown` ends their
contexts instead. Retention of finished rows and the event log are left out.

### `Workload`, `WorkloadFairness`

`Workload` is `controller.go` at the granularity of its mutex: an `Acquire`
enqueues, schedules and decides inside the lock, then waits in its `select`;
the grants of `scheduleLocked` are separate steps that nobody else can
interleave with (`Free` says that the lock is not taken). The result channel of
capacity one is `result`, so that a grant that comes with a timeout is still in
the channel when `cancelWaiter` finds the waiter gone. Queues, order, cursor
and counter are separate variables because the code keeps them separately.
`WorkloadFairness` adds a history of who was served while whom was waiting, and
which of those served has had waiters all the time since.

### `SharedRuntimes`, `RuntimeHost`

`SharedRuntimes` is the promise to readers: a runtime is built for a place,
serves it until another one takes over, is handed out only while it serves, and
is closed once, after every reader has returned it.

In `RuntimeHost`, a generation is a number, a bounded supply of prepared runtimes
(`MaxGenerations`). `prep` is the state of its `Prepared` object, `refs`,
`cleanup` and `retired` are the fields of `managedRuntime` and `Manager`,
`closes` counts how often its resources were closed, `row` and `beat` are the
durable lease and its heartbeat. `writer` is the holder of the cutover lock;
readers acquire only without one. Preparation holds the read half of the lock
and is one step. The cleanup worker is three steps, as its lock is taken
twice and the resources are closed in between; a goroutine about to call
`cleanupRetired` is a member of `kicks`. `Reload` runs once per workspace
before anything is served. The durable callback is left open: it commits or is
refused.

### `Cutover`

Extends `RuntimeHost` with the database and closes the callback: an activation
step is the host's step together with the deployment's or the refresh's
transaction. The deployment compares the pointers with those recorded when it
was created; the refresh does not. Several calls may activate one deployment,
as a reclaimed activation job does. The refresh run's own fence is abstracted
to a publication that may be refused. `QueueRefresh` is the commit of candidate
and root run; the insertions that follow it are visible here only when one
fails, and `SubmissionFails` is that failure at any later time, without a fence,
as `MarkFailed` has none.

### `LatestRefresh`, `RefreshRun`

`LatestRefresh` is the promise of a pipeline: a newer refresh takes the place of
the open one, one worker at a time holds it, and only the newest one, while it
is open, is published by its holder.

`RefreshRun` has the runs of one pipeline, named by target generation. `root[g]`
holds the run row and the job row of the root run, `child[g]` those of its
dependencies, `candidate[g]` the serving state it builds, `submitter[g]` and
`executor[w]` the goroutines. Every transaction is one step: submission commits the root and its
job before it inserts dependencies one by one, a worker lists, claims, marks
children, materializes, records, prepares, publishes. The fence of a claim is
in every statement that has it in `materialization.sql` and in none that has
not (`MarkChild`, `RecordSnapshot`, the failure of an insertion). `LeaseLapses`
takes a lease from under its worker, `RestartProcess` is a crash with the startup
recovery. Admission and the preparation of the runtime are abstracted to their
outcomes.

### `RefreshSchedule`

The schedule rows of one pipeline, its occurrence rows by instant, and the
dispatchers and reconcilers that work on them. A cron entry is the set of its
instants. `ClaimDue` is one transaction: requeue and delete the abandoned
claims, advance what is due, claim the latest instant. The trigger then checks
the artifact and creates the run, which attaches the occurrence in the same
transaction, or falls back to an open run; an error releases the row and
rewinds the schedules. No statement names the claimant, so `lost` only
remembers, for the property, that a claim was taken away. A claim's `age` stands
for the comparison of `claimed_at` with the clock.

### `SnapshotRetention`

The life of a snapshot (committed, recorded, opened, leased, published,
drained, released) against passes in the steps of `Run`: release expired
leases, read the active states, read the leases, list, expire one by one.
`known[p]` is a history variable, the snapshots that were established when a
pass began. A heartbeat may miss its TTL and come back.

### `LifecycleGroup`

The `Group` struct, and callers that are somewhere inside `Start` or `Stop`.
The mutex sections are steps; a wait for a channel is a phase that ends with
the attempt it names or with the caller's context. `runningIn` says by which
epoch a component was started.

### `ManagedData`

Every transaction and every call to the blob store is a step of an uploader or
of the maintenance worker (`keeper`). A manifest is a set of blobs, a blob its
digest. The reachability hash is the set of rows it is computed from, so
`WithStableSnapshot` compares those. `aged` is the grace age of the collector.
`RevisionOf` is the digest of a session's manifest: two sessions with one digest
meet at the unique index of the revisions (`RevisionTaken`).

### `ResultCache`

`lru` is the list of entries, `usage` the counters of all levels as the code
maintains them, `result` the reference counts. A query, its flight and the
refresh that changes the data and then invalidates the scope are separate
actors; `version` marks the data a result was computed from. The refresh whose
error returns before the cache is cleared is left out.

### `DashboardStream`

One page of one session. A handler is a request in its steps (load, compare
and swap, resolve the coordinator, begin); a generation of a coordinator is a
goroutine that emits events. A selection holds the coordinator's mutex while it
writes the session. `last` is the event the page received last. `Bind` is part
of `Open`, the deletion from the registry and the close of a coordinator are one
step (`Disconnect`), a selection is accepted by a coordinator that has published
nothing yet, and `clear_selection` is not told apart.

### `ConnectionPools`

The stored binding with its optimistic `Save`, managers and pool generations
by identity, clients with the binding they read some time ago. A manager's
flight is the refresh, disabling or retirement that holds `refreshMu`. Errors of
building and closing a pool are left out.

### Composition

`Cutover` composes the host with the database it commits to. The other
components meet only through values that are open in each model (a refused
publication, a cancelled context, an expired lease), so `MCCutover`, `MCData`,
`MCDataLive`, `MCServing` and `MCServingLive` put several of them in one run without shared
variables: `focus` chooses one component, or one instance of it, per behaviour,
and the others rest. The state space is the sum of the components', not their
product. The live modules restate each component's fairness for the
behaviours in its focus.

Some focuses look at one question in an instance that stays small because the
rest is held still. In `MCCutover` the cleanups that a cutover has started are done
before anything else goes on (`Settled`), and with two calls of one deployment the
lease releases too: they touch neither pointers nor what is current, and they
interleave freely in `MCRuntimeHost`. The two calls are interchangeable
(symmetry). In `MCDataLive` the clients of the focus "same" only begin and finalize
their two sessions. In `MCWorkloadFairness` everybody waits until it is served
in the focuses "classes" and "workspaces", and only there the history is kept.

### Proof modules

`JobQueueProofs`, `WorkloadProofs`, `ActivationProofs`, `RefreshProofs`,
`RefreshScheduleProofs`, `DurableProofs`, `ServingProofs` and `CacheProofs` extend the
modules above with lemmas, theorems and proofs, see section 5. The last in a line
of components also extends the MC module that composes them, for the theorem
about the composition.

## 3. The runs

Every run's configuration names its bounds; none uses a state constraint.

| Run | Instance | Shows |
|---|---|---|
| `job_queue` | 2 jobs of one workspace, 2 processes with one owner name, 2 claims per job | one holder, outcomes by the newest claim, refinement of `LeasedWork` |
| `workload` | 5 callers, 2 permits, 3 classes, one of them node-scoped with a reservation; races: 4 callers, 2 classes, 2 workspaces, at most 2 contexts that are done; classes: 4 callers, 1 workspace; workspaces: 4 callers of 3 workspaces and a keeper of a permit | permits are neither lost nor duplicated, queues are consistent and bounded, capacity is never idle, nobody who keeps waiting is passed twice by another who keeps waiting, nor a class between reserved grants by a borrower |
| `workload_returns` | 3 callers, 2 classes (one node-scoped with a queue timeout), 2 workspaces | every waiting `Acquire` returns |
| `workload_fair` | the focus "workspaces" of `workload` | *violation*, section 4 |
| `host` | 1 workspace, 2 calls, 2 readers, 3 generations, a queue of 1, failing releases, shutdown | refinement of `SharedRuntimes`, nothing is closed twice or leaked, no cleanup is forgotten |
| `host_cleans` | 1 workspace, 2 calls, 1 reader, failing renewals and releases, no shutdown | every retired generation is cleaned up, every closed lease ends |
| `cutover` | 2 workspaces with a reader, a refresh of one, and against it a deployment over both, or two calls of a deployment of one; schedule: 2 artifacts, 2 cron entries, 5 instants, 2 dispatchers, 1 reconciler, 2 deployments, 1 fault | memory and pointers agree and no rollout is mixed, but for what a repeated activation published; active states are those the pointers name, and a pointer names an active state or one whose submission failed after it was published; nothing leaks when one of two preparations fails; an occurrence has one dispatcher unless its claim was taken away, no due instant is forgotten |
| `data` | refresh: 2 runs, 2 workers, 2 claims, 2 mishaps; retention: 3 snapshots, 2 passes, 1 lapse; managed data: 3 instances, 2 uploaders, 1 fault; group: 3 callers, 2 components, 2 epochs | refinement of `LatestRefresh`, settled runs stay settled, established snapshots and published blobs survive the collectors, an upload has one outcome, nothing a group started is left running, components start and stop like a stack |
| `data_live` | job queue: 2 jobs, 1 process; refresh: 3 claims, 1 worker; managed data: 1 uploader, 1 session, or 2 sessions with one manifest; the group as above | every enqueued job finishes, every refresh run settles, every `Start` and `Stop` returns, every upload session comes to its end or stays behind one that has taken its revision |
| `serving` | streams: 2 handlers, 3 requests (2 for any pair of kinds); cache: 2 queries, 2 scopes, 2 keys, limits of 1 and 2 entries; pools: 2 clients, 3 managers, 4 pools, 3 revisions, 2 credential versions | no session update is lost, no superseded event is published, no result is stale, leaked or released under its reader, no pool is closed under a lease, forgotten, or granted against its binding |
| `serving_live` | the same components, 2 requests, 1 key, 2 revisions; schedule: 1 dispatcher, 4 instants, 1 deployment, 2 faults | every call into them returns, every due instant gets a run |
| `retention_leased` | 2 snapshots, 1 pass at a time | *violation*, section 4 |

An invariant named `...Consistent` is a conjunction of the type invariant and
named bookkeeping facts of one component, or in an MC module of all its
components; each conjunct is defined and explained in its module.

For safety the theorems of section 5 remove every bound below; for liveness and
for the mutants they are what counts. Why they are enough:

* *Jobs.* The fence matters between an old and a new claim of one job: two
  claims and two processes are the smallest instance with a stale holder, and
  a second job of the same workspace exercises the listing order and the wait
  for a batch.
* *Workload.* Four callers fill both permits and leave a queue of two, so that
  a grant, a cancellation and a rejection can meet. Three classes are a reserved
  one and two that borrow against each other; three workspaces are the fewest
  for which the cursor is overtaken, see section 4, and there the keeper leaves
  one permit to be granted again and again.
* *Host.* Three generations are a loaded one and two competing replacements,
  so that one generation drains while another is pending; with a release queue
  of one slot the second release can find it full. `MayShutDown`, `MayExpire`,
  `RenewalMayFail` and `ReleaseMayFail` switch failures on. In `host` only failing
  renewals are off: they write the lease row, which only expiry and renewal
  read; `host_cleans`, whose property is about the row, has them. The readers of
  `host` are interchangeable (symmetry). In `cutover` all four are off, because they
  touch no variable its properties read while the registry serves, and the instance
  is an order of magnitude larger.
* *Cutover.* Two workspaces make a mixed rollout possible and let one of two
  preparations fail, a refresh of one of them is the competing writer. Two calls
  of one deployment, the refresh and its failing submission are the shortest way
  to each of the exceptions that the properties name.
* *Schedule.* Two entries with interleaved instants make a coalesced occurrence
  and a requeue that rewinds both; a timeout of two clock units lets a claim be
  abandoned under a slow dispatcher while a third instant becomes due; two
  deployments replace an artifact and bring it back, one of them with a stale
  reconciler in flight.
* *Refresh runs.* Two runs and two workers: a superseded worker finishes late, a
  reclaimed one publishes late. Two mishaps are a stall and a restart.
* *Retention.* Three snapshots: the active one, one being replaced, one
  committed meanwhile. Two passes overlap, as a refresh's own pass and the
  periodic one do.
* *Managed data.* One session with two uploaders is the race of calls, two
  sessions with a common blob are deduplication against the collector, a
  manifest of two blobs is a partial upload. Two sessions of `data` and of
  `data_live` have one manifest, of which the second to be finalized is refused.
  One fault is spent on a failing store, a failing deletion or a crash.
* *Group.* Three callers are a `Start`, a `Stop` and one that joins either; two
  components have an order; two epochs let a late waiter meet the next one.
* *Streams.* Three requests are a stream, the command and the stream or
  command that overtakes it; two attempts let a compare-and-swap lose once.
* *Cache.* One key and two queries are a flight with an owner and a waiter;
  two keys of different size in two scopes reach each of the three limits. A
  scope identity is opened once, see section 4.
* *Pools.* Three revisions and two versions let a rotation, a change of the
  binding and a stale reader meet; four pools and three managers are never
  exhausted before the revisions are.

Deadlock is checked for the queue and the controller. The other runs switch it
off: with all calls answered a component legitimately rests, and after shutdown
it stops.

### Fairness

* `JobQueue`: goroutines run, handlers return when their context ends, a
  stopped process is restarted and from some time on stays up, and a lease that
  nobody renews runs out. Admission and the claim are strongly fair: a full
  controller or an early deadline can refuse one attempt, and the ticker of
  `runPump` brings the next.
* `Workload`: sections under the lock end; a `select` with a ready case
  proceeds (weak); the mutex is not withheld from one waiter for ever, which Go's
  starvation mode guarantees, and admitted work ends (strong).
* `RuntimeHost`: goroutines that were started run, a call between lock and
  unlock goes on, a deferred `Close` runs, and an unrenewed lease expires.
  Nothing is assumed of requests, readers or shutdown.
* `RefreshRun`: workers and submitters run, the dispatcher lists again, and a
  lease nobody renews lapses. Mishaps are bounded, as they must be for anything
  to settle.
* `RefreshSchedule`: time passes, and a dispatcher's loop and its calls go on.
  Failures are bounded. Nothing is assumed of deployments or reconcilers. With
  two dispatchers this would not be enough, see section 4.
* `LifecycleGroup`: callers run and the components' functions return. Callers'
  contexts may end but need not.
* `ManagedData`: calls and the maintenance worker run, sessions past their TTL
  are expired by some pass, and a finalization job that keeps being claimed
  gets through (strong, because aborting and retrying disable it in between).
  The process may crash under a finalization; its job is claimed again.
* `ResultCache`: queries and flights run, leases are released. A query that
  only ever inherits cancellations of other owners is excluded by the property
  itself.
* `DashboardStream`: handlers and refreshes run; clients may stay for ever.
* `ConnectionPools`: clients are strongly fair, since the directory's mutex and
  the gate of `MaxConcurrent` are taken in turns by several (Go's starvation mode
  and a channel's FIFO waiters); a flight goes on.

## 4. Findings

*Retention against a lease* (`internal/servingstate/retention/maintenance.go:77`,
run `retention_leased`). `Run` reads the protected snapshots, lists the catalog
afterwards, and expires the difference. A refresh that commits its snapshot,
records it, opens a runtime and leases it between the two is in the listing and
not among the protected: the pass expires a leased snapshot, while
`docs/storage-architecture-spec.md:85` says "Retention never deletes a snapshot
protected by an active runtime lease." What does hold, and `data` checks, is
`EstablishedSnapshotsKept`: what was protected when a pass began, and stayed so,
survives it.

*Round robin over workspaces* (`internal/workload/controller.go:479`, run
`workload_fair`). `pop` drops an emptied workspace from the order without moving the
cursor, and `enqueue` appends a returning one: with three workspaces, one that waits
before the cursor is passed for as long as the two others come back one by one, while
`spec.md:682` says "workspaces are round-robin within a class, with FIFO preserved
per workspace". What does hold for any number of workspaces, and `workload` checks,
is `WaitingTakeTurns`: a workspace is never served twice past another one while both
keep waiting. `AcquireReturns` is checked with two workspaces and one permit, under the fairness
of the callers.

The following were met while modelling. The models reach them; no run is
devoted to them, and where a property would be false because of one it names the
exception.

*Admission and activation*

* Reserved grants move the class cursor, so that a borrowing class can be passed
  again when reserved demand comes in between (`internal/workload/controller.go:332`,
  against `spec.md:681`). `BorrowersTakeTurns` counts from one reserved grant to the
  next.
* Two activations of one deployment, as a reclaimed activation job makes them, both
  prepare; the first commits, a refresh moves the pointer, the second is answered
  "already active" and publishes its own runtimes
  (`internal/deployment/sqlite/repository.go:239`). Memory then serves what the
  pointer no longer names: `Strayed` in `MemoryServesPointer` and `NoMixedRollout`.
* A refresh queued before a deployment and published after it brings the
  previous artifact back while the deployment stays active
  (`internal/refresh/sqlite/publication.go:71`).
* `Reload` closes the manager of a workspace without a serving state for good;
  its later generations' leases are left to expire
  (`internal/runtimehost/manager.go:288`).
* A generation whose lease row has expired is still handed to new requests
  (`manager.go:640` against `spec.md:768`).

*Refresh runs and retention*

* The children of a superseded or failed run are marked running again by its
  late worker, since `MarkRunRunning` has no fence (`internal/refresh/run/service.go:283`).
  Children inserted after the root settled stay queued. Only the roots decide
  what is published.
* An insertion that fails after the run was published marks the active state
  failed (`service.go:207`, `internal/servingstate/sqlite/queries/serving_state.sql:98`):
  the pointer of its workspace names a failed state until the next publication, the
  exception of `PointersNameActive`. `RecordSnapshot` is unfenced. Superseded
  candidates stay "validated".
* Two processes can leapfrog each other's claims (`internal/refresh/sqlite/runs.go:164`);
  `docs/articles/operate/self-hosting.md:11` asks for one process.
* Releasing and attaching an occurrence look at no claimant
  (`internal/refresh/sqlite/schedulequeries/refresh_pipeline.sql:65`, `:69`). A
  dispatcher slower than five minutes can release or attach what another one has
  claimed since, and two that keep failing can undo each other's claims for
  ever: `DueIsRun` fails with two dispatchers.
* `Module.Reconcile` reads the active artifact before it writes the schedules and
  nothing compares the two (`internal/refresh/module/module.go:296`): the
  schedules of a replaced artifact can be written last, and every trigger is
  then refused until the next reconciliation.
* A retention pass that is refused admission is skipped without a trace.

*Managed data*

* A session's staging can be acknowledged as cleaned and filled again by a call
  that began before the session ended.
* In `BeginFinalizeUpload` the conflict branch reloads with the identifier of
  an emptied session.
* Two sessions of one collection with the same manifest are both accepted for
  finalization. The second runs into `UNIQUE(collection_id, digest)`, its job waits
  for its own session and returns the conflict until its attempts are spent
  (`internal/manageddata/control/service.go:359`), and nobody fails the session: it
  stays committing. `SessionsEnd` excepts a session whose revision another one has
  made.

*Cache, pools, streams*

* Closing a scope forgets its generation and reopening the identity starts at
  zero: a query from before can store its result in the new scope
  (`internal/analytics/resultcache/pool.go:247`). With `MaxIncarnations = 2`
  `NoStaleResults` fails. The identities are those of serving states, so in the
  program the data is the same; the runs open each scope once.
* A reader between `Save` and the installation of the new pool retires the
  manager that holds it, and a stale reader rebuilds the manager of an old
  revision (`internal/analytics/connectionbinding/pool_directory.go:62`). Both
  cost a rebuild and grant nothing wrong.
* The first refresh of a stream uses filters loaded before the coordinator was
  opened (`internal/dashboard/http/updates.go:156`); a filter command in between
  is answered, and its state replaced on the page by the older one.
* A filter command commits and then fails to begin its refresh: the client's
  retry is a duplicate and starts none. A window command consumes its sequence
  number before its generation is checked.

## 5. Proofs

Eight modules prove, for every value of the constants that the named
assumptions allow, the safety invariants and the action properties that the
passing runs check, the composed ones included, and that three components
implement their abstract specifications. One theorem, about stale results, needs a
hypothesis that the runs meet too; the reason is in section 4. The runs show
the same formulas on small instances, and found the strengthenings before they were
proved. Of the assumptions, which the runs evaluate, none limits how many actors
there are: they give types, keep the markers (`None`, `NoOwner`, "free", 0) out of
the sets, let a call have finitely many targets, and state what a configuration is
validated for.

| Module | Theorems | Inductive invariant |
|---|---|---|
| `JobQueueProofs` | `TypeCorrect`, `ClaimExclusive`, `FinishedStaysFinished`, `ClaimsNeverSteal`, `NewestClaimFinishes`, `Refinement` | `IInv` |
| `WorkloadProofs` | `ControllerStaysConsistent`, `AdmissionStaysWithinLimits`, `LeasesAreNotLost`, `PermitsAreNotIdle`, `WaitingWorkspacesTakeTurns`, `BorrowingClassesTakeTurns` | `AdmissionInv`, `TurnInv`, `BorrowInv` |
| `ActivationProofs` | host: `HostStaysConsistent`, `ReadersKeepTheirRuntime`, `NothingEverLeaks`, `HostRefinement`; cutover: `ActivationsUseTheHost`, `ActivationsShareRuntimes`, `CutoverStaysConsistent`, `ManagersServePointers`, `RolloutsAreNotMixed` | `HostInv`, `CutoverInv`, `CutoverFull` |
| `RefreshProofs` | runs: `RefreshStaysConsistent`, `SettledStay`, `PublicationsOnlyAdvance`, `PipelineRefinement`; retention: `RetentionStaysConsistent`, `EstablishedStay` | `RefreshInv`, `RetentionConsistent` |
| `RefreshScheduleProofs` | `ScheduleStaysConsistent`, `DueIsNotForgotten`; composed: `ActivationStaysConsistent` | `ScheduleConsistent` |
| `DurableProofs` | managed data: `FindingsStayTrue`, `PublishedBlobsKept`, `OutcomesStay`; group: `GroupStaysConsistent`, `NothingStaysBehind`, `StartsAndStopsInOrder`, `StopsAreOrderly`; composed: `DurableStaysConsistent` | `DataInv`, `GroupInv` |
| `ServingProofs` | pools: `NoPoolClosesUnderALease`, `ManagersFollowTheStore`, `PoolsStayConsistent`; streams: `SessionsKeepUpdates`, `StreamsStayConsistent`, `EventsStayInOrder` | `PoolsInv`, `StreamInv` |
| `CacheProofs` | `ResultsStayPinned`, `CacheStaysConsistent`, `NoQueryAnswersFromStaleData`; composed: `ServingStaysConsistent` | `CacheInv`, `CacheFresh` |

All are laid out alike: facts about the operators, lemmas for what a kind of
step leaves alone, one lemma per action or group of actions, `Init` and `Next`,
and at the end the theorems.

### Job queue

`AtMostOneHolder` is not inductive: two stale goroutines with equal fences could
both start to hold after a claim. `IInv` adds what excludes this. No fence is
newer than its job's generation, non-zero fences of one job differ, a working
goroutine has a non-zero fence (a claim adds one to the generation before it
hands it out), and a lease exists only on a running job. Terminal statuses are
stable because every write tests for `queued` or `running`; a claim needs a
queued job, which has no lease, or an expired one.

*The refinement.* A job is open from insertion to a terminal status, and held
by the goroutines whose fence matches. By `IInv` that set has at most one
member (`HolderUnique`), so a step that only shrinks it is `Lose`
(`HoldersLost`); enqueueing is `Offer`, cancelling a queued job `Withdraw`, a
claim `Take` (`ClaimTakes`: the new generation is newer than every fence), a
fenced terminal write `Finish` (`HolderFinishes`).

### Lifecycle group

`NothingLeftRunning` speaks of a group at rest; between, a caller is somewhere
in its loop. `GroupInv` says that an attempt has one owner, and that the owner's
place in the loop says exactly which components run (`OwnerKnowsWhatRuns`). It
also says what a recorded result of an attempt means for those who wait for it
(`AttemptsEnd`), which is what makes a `Stop` that joins another one's attempt
right.

### Workload

`WithinLimits` needs the counters to be right, these need the leases, and a lease
is where its caller is: `CallersAgree` says for each caller which of lease,
queue and result channel it may be found in, given its step. `Settled` counts
what the queues will hold when a section in the lock has ended
(`SettledBounded`), and `OneInLock` that there is one such section. The counters
are cardinalities, the bound on the whole queue a sum over the classes.
`WorkConserving` fails inside the lock and is proved of its release: the
scheduling loop ends only when nothing can be granted.

*Round robin.* Both theorems say where a cursor stands when somebody has been
passed: whoever was passed by one that still waits comes before it, counted in a circle
from the cursor (`TurnInv`, `BorrowInv`). For the workspaces the circle is the order
of the class, which grows at its end and shrinks anywhere: an append, the removal of
a third one and the step of the cursor keep who is `Ahead` of whom
(`AppendAhead`, `RemoveAhead`, `AdvanceAhead`), and a workspace that leaves the order
is out of the history, which is the difference between `WaitingTakeTurns` and the
round robin of the specification. For the classes the circle is the fixed list
(`ClassesDiffer`), and a grant that is not reserved takes the first eligible one
from the cursor on (`FirstEligible`).

### Runtime host and cutover

`ReadersProtected` follows from `TombstonesExact` (a count is the number of the
readers that hold the generation; a tombstone that is being closed has none) and
`LeasedWhileOpen`. That these survive needs the bookkeeping of everything that
may close a generation: the calls and what they have prepared (`CallsOwnTheirs`), the
worker and the kicks (`CleanupIsScheduled`), and what was closed (`ClosesExact`).
`HoldersFinite` only makes cardinalities meaningful, as `Readers` may be infinite.

*The refinement.* The life of a generation is read off its `Prepared` object, its
cleanup state and whether it was closed (`RuntimeLife`). Everything that takes
apart what happens in one place, sealing, tombstones, kicks, the worker's two
sections, the release queue and the heartbeat, changes no life (`UnseenLives`).
Publication is `TakeOver`: what serves a workspace is exactly its current
generation (`OneServes`). The worker's `Close` is allowed because a generation it
works on has no readers, and a preparation `Build`s what it does not find current
(`FreshBuilds`), closed at once when another preparation of the set fails.

`ActivationsUseTheHost` is the composition: with `CutoverInv`, every step of
`Cutover` is a step of `RuntimeHost` or leaves its variables alone, so what is
proved of the host holds of every deployment and refresh, the refinement included
(`ActivationsShareRuntimes`).

`ManagersServePointers` and `RolloutsAreNotMixed` hold for any calls, several of one
deployment included. `CutoverCatchesUp` says that a manager which does not serve its
pointer is one for which the writer still holds the runtime that will, or one that a
repeated activation has published to (`Strayed`); `ActiveWasActivated`, that an active
deployment has a call that publishes it, so that whoever else is answered
"already active" is a repetition (`Repeats`). `PointersNameActive` survives the
unfenced failure because only a refresh's own submission fails its state, and a
failed state is never activated again.

### Refresh runs, schedule and retention

`RefreshInv` is `RefreshConsistent` with the pointer as the greatest success,
without a maximum. It says that a run and its job agree whoever wrote last
(`RunAndJobAgree`), that only the newest run may be unsettled (`OnlyNewestOpen`: the
submission that supersedes is one transaction), and that an unsettled run has
all of its children. `PublicationsAdvance` follows: only the newest run can
publish, and no success is newer than it.

*The refinement.* What is open is the newest run, while it is unsettled; its
holders are the workers that are executing under the live claim of its job. A claim
is `Take` because it needs a job without a live lease, and leaves every older
fence behind; a submission is `Offer` and takes the hold away, for it supersedes
whatever was open; a publication asks for the fence and for the newest target in
its transaction. Late workers, of which there may be many, hold nothing, and
their unfenced writes to children and candidates are stutters. Startup recovery
settles or leaves the root, it never reopens one (`RecoveryKeepsRoots`).

`ScheduleConsistent` is inductive. `NothingSkipped` is its point: an entry that
is not due has, at or after each of its instants since the schedules were
written, a row that is attached or claimed for their artifact. A release
therefore has to rewind the entries, and the loss of a claim has to leave a row
or rewind. `DueNotForgotten` is the case of no due entry.

`RetentionConsistent` is inductive too. `PassesProtect` relates what a pass knew
when it began to what it read later, which is how the order of its reads matters
(section 4).

### Managed data

`PublishedBlobsExist` is threatened by the collector and by a publication that
relies on an old inspection. `DataInv` excludes both: what a call has found is
still there while its session protects it (`FoundBlobsExist`), and the
candidates of the collector contain nothing reachable once it has compared the
rows with its snapshot (`CollectorSpares`), under a lock that no row changes in.
A session whose revision another one has made never becomes complete; for the blobs
that makes no difference, as both manifests name them.

### Pools

`PoolsInv` makes three kinds of facts out of what the code keeps in several
places. *Ownership*: an open generation that does not drain is active in one
manager or prepared by one flight; one that drains has a lease. *Knowledge*:
clients, managers and flights work with bindings that were stored once, none
is newer than the store's, and a revision names one binding (`KnownOK`); this is
why an optimistic `Save` is enough although the readers are stale. *Flights*: what
a flight has decided matches the binding that it began with. `DisabledOK` is
where the proof corrected the model: `Disable` may return after a newer `Enable`
was saved, so that the history variable `disabled` has to compare the stored
binding, see `Install`.

### Streams

`StreamInv` says what a request has read (the session's revision, unless the
version has moved: the compare-and-swap), whose the coordinator's mutex is, and
which generation may still publish. `CountsOK` shows that identities do not run
out: every coordinator and generation has a request of its own.

### Cache

`CacheInv` lets the list, the counters of all levels and the reference counts
move together: what a step takes out of the list is what it subtracts from each
level and gives back to each result. Bytes are a sum over a set, and what is left
of a list after removals is a sequence defined by recursion. Induction being out
of reach, their equations are proved by descent: the least (smallest)
counterexample to an equation is contradicted by a smaller one (`LeastExists`,
`SmallestExists`). `StoredByOthers` and `SoleHolder` carry the reference counts:
the flight that stores is the only one that refers to its result.

`NoStaleResults` needs a second invariant, `CacheFresh`: a generation names a
version of the tables, who has read the current generation began after the last
invalidation, and the value of a flight is as new as every query that it may
serve. It assumes `MaxIncarnations = 1`, since closing a scope forgets its
generation (section 4); the runs make the same assumption.

### Only model-checked

* Liveness under fairness (`EventuallyFinished`, `AcquireReturns`,
  `RetiredIsCleaned`, `GroupCallsReturn`, `RunsSettle`, `SessionsEnd`,
  `ServingCallsReturn`, `DueIsRun`): the prover handles neither fairness nor
  `ENABLED`.

* That `WorkspacesRoundRobin` and `LeasedSnapshotsExist` are violated: a
  counterexample is a behaviour of one instance.

What `NoQueryAnswersFromStaleData` excludes is not checked to hold, it is false:
section 4 says what happens with a scope that is opened twice.

## 6. Plan

What was planned is modelled, checked and proved as sections 2 to 5 say. Next in
order:

* Candidate runtimes, as readers of `SharedRuntimes` of their own, and the event
  log of the job queue.
* An abstract store (a set of results by scope and data version) for the cache,
  implemented by the list with its flights.
* Approvals and releases, as the origin of the deployments in `Cutover`.

## 7. Not modelled

SQL engines and SQLite are atomic transactions here; torn or failed commits of
the database itself are not considered. Payloads, artifacts, digests and
managed-data contents are identities. Time is the order of events and expiry
bits. Lock queueing in `sync.RWMutex` (a waiting writer that holds up readers)
is not visible, since critical sections that nothing interleaves with are single
steps. Metrics, logging, observers and audit records are left out.

Of the modelled components: the job queue's event log; collections, environment
pointers and the S3 multipart transport of managed data; session expiry,
repeated mutation ids and public dashboards of the streams; `Coalesce` of row
results in the cache; cron parsing, time zones and the data-version row of the
refresh schedule, whose comparison of times as text is taken as the comparison
of instants; the limit of 16 candidates per listing of the job queue, the validation
of the sum of reservations and the one-second resolution of time in managed data.

Components with state that are not modelled: private candidate runtimes (the host's reference
counting again), approvals and releases (rows created once, compared by
digest), the agent loop (one sequential loop per conversation), the development
loop. Most of the repository's lines are elsewhere: compiler, planner,
visualization, access rules and front ends are functions of their input
or decode requests, with no interleavings to explore and an input space far
beyond bounded checking, and generated code is not modelled.

## Running

    tlc -workers 2 -config MCJobQueue.cfg MCJobQueue
    tlc -workers 2 -config MCRetentionLeased.cfg SnapshotRetention
    tlapm JobQueueProofs.tla

and so for the other runs of `PROJECT.json` and the other proof modules.
`ActivationProofs`, `CacheProofs` and `ServingProofs` take between five and fifteen
minutes each, the others a minute or two.

The defective variants next to some definitions (each marked "Defective") are
the mutants of `PROJECT.json`: replacing the definition by the variant makes the
named property fail, which shows that the property depends on that code.
