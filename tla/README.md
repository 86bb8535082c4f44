# Kurama in TLA+

Kurama generates HTTP traffic inside Kubernetes. A *manager* turns every
`TrafficScenario` into a runner Deployment and its ConfigMap; the *runners* of
a scenario pace requests against a target, share one request budget and the
values they captured, in Redis or in memory. This directory models the parts
of the code in `src/` that decide something: who may send how many requests
when, what happens to a scenario's objects and Redis keys while it is edited,
suspended and deleted, which scenarios run and what a permit of theirs is used
for, what a value store promises and how long its values are kept.

## The system

| Component | State | Operations | Hard because |
| --- | --- | --- | --- |
| Scheduler loop (`scheduler*.go`) | RPM, batch, slot, pause | read RPM, reserve batch, execute slot, wait, stop | interleaves with other replicas, SIGTERM and window changes between any two calls |
| Rate limiter (`ratelimit/`) | window and count, in Redis or in the process | `TryAcquire` | partial grants, lost replies and retries, key expiry, crashes |
| Rate schedule (`rateschedule/`) | window and RPM in Redis | `RequestsPerMinute` | first writer wins, value used after its window |
| Traffic profiles (`profile/`) | none | `BatchSize`, `NextDelay` | integer division, partial grants, changing RPM |
| Reconciler (`controller/`) | status, finalizer; reads informer caches | `Reconcile` | caches lag separately, calls fail after being applied, the manager restarts |
| Finalizer (`trafficscenario_finalizer.go`) | grace period | stop runner, scan, delete, release, abandon | Pods still write while keys are scanned; Redis may never answer |
| Value stores (`store.go`, `redis_store.go`) | bounded pool, expiry of its key | `Put`, `Random`, `ReconcileKeys` | two-command draw, retried puts, replicas with different capacities or different lists of stores |
| Executor (`executor*.go`, `weighted_picker.go`) | the operations a slot has excluded | pick, `Execute`, capture | uses a permit once or leaves it unused while other replicas fill and empty the stores |
| Runner and manager processes (`cmd/`) | wiring | start, maintain stores, readiness, stop | start-up failures, no leader election |
| Validation, conversion, Pod template (`*_validation.go`, `*config*.go`, `trafficscenario_secrets.go`, `trafficscenario_runner_pod.go`) | none | validate, convert | the same defaults, limits and indices are computed in controller and runner and have to agree |
| Metrics, probes, API types | none | | |

Runners never talk to each other or to the manager: they meet in the Redis
keys of the scenario's UID and in the ConfigMap a Pod reads when it starts. The
manager talks to the API server through calls and caches, and to Redis only
when a scenario is deleted.

What makes each part correct:

* *limiter and scheduler*: no permit in two hands, no window's budget exceeded,
  an exhausted budget is not polled, a stop always takes effect;
* *schedule*: replicas agree on the RPM of a window;
* *profiles*: the mean rate is exact and a burst fits into its minute, except
  for the wait that follows a batch the limiter cut short;
* *reconciler*: a foreign Deployment is hit by no call that was decided on an
  up-to-date read, the status converges to the scenario, suspending stops the
  runner;
* *finalizer*: it is there before the first key, it leaves no key, it always
  ends;
* *stores*: a bounded queue, newest values kept, draws answer stored values;
  values in use never expire, removed ones do, once;
* *configuration*: what the controller accepts starts, and meets no error that
  validation should have found; replicas that are rolled out share a limiter;
* *executor*: at most one request per permit, a permit is unused only if every
  operation lacks values, every slot ends, credentials stay with their
  operation while a process runs the configuration its Pod was made for.

## Modules

| Module | Models | Uses |
| --- | --- | --- |
| `Profile` | `internal/runner/profile`: batch sizes and pauses as operators | |
| `BatchPacing` | one runner's batches and pauses, every profile, RPM changing per batch | `Profile` |
| `RateBudget` | the scheduler loop of several processes, limiter and schedule, local or in Redis | `Profile` |
| `Cluster` | the API server, garbage collector, Pods and Redis keys around the manager (external) | |
| `Reconciler` | `Reconcile` and the finalizer over informer caches | `Cluster` |
| `ValuePool` | abstract: what a `ValueStore` promises of a pool | |
| `MemoryStore` | one ring of `store.go` | |
| `RedisStore` | one list of `redis_store.go` | |
| `ValueStores` | the store behind the backend chosen at start-up | `MemoryStore`, `RedisStore`; implements `ValuePool` |
| `StoreRetention` | `ReconcileKeys`, `maintainStores`: the expiry of a store's key | |
| `ScenarioConfig` | validation in controller and runner, conversion, start-up checks, as operators | `Profile` |
| `SlotExecution` | a scenario from submission through edits and rollouts to the requests of its slots | `ScenarioConfig` |
| `ProfileTheorems`, `BatchPacingProofs` | lemmas about batches and pauses, proofs about pacing | TLAPS |
| `RateBudgetProofs`, `RateWindowProofs` | proofs about permits, and about what is bound to a window | TLAPS |
| `ReconcilerProofs` | proofs about the controller and the finalizer | TLAPS |
| `ValueStoresProofs`, `StoreRetentionProofs` | proofs about stores and their expiry | TLAPS |
| `SlotExecutionProofs` | proofs about validation, start-up and slots | TLAPS |
| `MCBatchPacing`, `MCRateBudget`, `MCReconciler`, `MCValueStores`, `MCStoreRetention`, `MCSlotExecution` | instances for TLC | |

Operators whose comment starts with *Mutant* are deliberately wrong versions
of the definition that follows them. They belong to no specification;
`PROJECT.json` names the property that rejects each one.

### BatchPacing

`Reserve` draws a batch and has it granted in full, in part or not at all;
`RunSlot` is one slot and the pause after it. A decision that grants less than
was asked for says how long its window still lasts (`retryAfter`), and the last
slot of such a batch waits at least that long (`Pause`, `scheduler.go:137`).

### RateBudget

`pc[p]` is where process `p` stands in `Scheduler.Run`: `schedule` (about to
read the RPM), `reserve` (about to call the limiter), `execute` (a slot
begins), `inflight` (its request is on the wire), `pause` (in `wait`). One
action is one call of the loop with everything up to the next one, so time,
other processes, a stop (`Shutdown`) and a kill (`Crash`) come in between.

| Action | Code |
| --- | --- |
| `ReadFixed`, `ReadUniform`, `ScheduleFails` | `currentRequestsPerMinute` and the schedules; `Select` is `select_uniform_window.lua` |
| `TryAcquire`, `AcquireFails`, `AcquireCancelled` | `reserveBatch` and the limiters; `Acquire` is `acquire_rate_limit.lua` and `LocalLimiter` |
| `Send`, `SkipSlot`, `Return` | `executeReservedSlot`, `Executor.Execute` |
| `Wake` | the end of a `wait`, the loop over the batch |
| `Start`, `Shutdown`, `ReturnFromRun`, `Crash` | the process |

A Redis command that fails may have been applied; it is sent again up to
`MaxRetries` times. Time is in ticks: `Minute` and `Second` are constants.
`sent`, `readIn` and `shortIn` are history: what was sent and by which permit,
in which schedule window the RPM was read, in which limiter window the last
short decision arrived. A decision names the permits it stands for
(`first + 1 .. first + size` of the window), which is how permits can be told
apart.

### Reconciler

`cache` holds the informers' copies, each brought up to date by its own
`Sync` action. `pc` is the next API or Redis call of the running `Reconcile`;
one action is the cache reads and the one call between two calls. `Call` makes
a call succeed, or fail with or without having been applied. There is one
worker, so reconciles of the one name do not overlap. A configuration is a
number; `RedisConfigs` and `InvalidConfigs` say for which of them
`requiresRedis` and `validateScenario` decide so. The Pod template carries the
configuration's hash: equal configurations mean equal templates. A Pod has the
`template` it was made from and the configuration it `runs`, read from the
ConfigMap when it started. Deleting a Deployment on suspend removes it at once
and leaves its Pods to be stopped later (background); deleting it in the
finalizer keeps it until its Pods are gone (foreground).

History: `cleaned` and `abandoned` are the UIDs released with and without a
cleanup; `stale` and `lingering` those whose Deployment, or only Pods, still
existed when their keys were last scanned.

A foreign Deployment may take the runner's name at any time at which no
Deployment has it (`CreateForeignDeployment`), whatever the informer shows. The
calls go by name and carry no UID precondition.

### Stores

`ValuePool` allows a Put to be attempted several times, each attempt storing
the value or not; it may answer a draw with a miss only when the pool is empty
or a replica with a smaller capacity has trimmed it. `ValueStores` chooses a
backend as `newRuntimeState` does. In memory the pool is the ring read from its
oldest slot, and a Put is one attempt. In Redis it is the list itself, and the
two-step draw is one call. One pool is
modelled: pools have their own lock or key. The key's expiry and deletion are
not part of these modules. A command Redis executes, it executes before the
client stops waiting for it; a command executed later than its own retry is
not modelled.

### StoreRetention

One store's key, with or without an expiry, and the processes that decide about
it. `Start` is `newRuntimeState` up to its first `ReconcileKeys`; `Scan` and
`Apply` are the two parts of that call, between which other processes, the
scenario and a kill come in; `Resend` and `Fail` are an answer that is lost and
a call that fails, applied or not. `Tick` passes time: it expires the key and
brings each process's ticker closer to `maintain`. A process keeps the list of
stores it started with (`declares`), so processes disagree while a rollout is
under way. `unwanted` is history: for how many ticks processes have been
running of which none declares the store.

### ScenarioConfig and SlotExecution

`ScenarioConfig` has no state. Its operators have the names of the functions
they stand for: first `Config.Validate` and what it calls, then what the
controller derives (defaults, configuration, environment, volume, resources)
and `validateScenario`, then what a runner checks before its first slot.
Numbers keep their bounds; texts are classes: a valid or an invalid name, the
variables a template mentions, the kind of a header value.

`SlotExecution` has three layers.

* *Controller.* A user submits a scenario to a manager with or without a Redis
  address, and may `Edit` it. `ApplyConfigMap` and `ApplyDeployment` are the two
  patches of a `Reconcile`, which is cut short between them by `Interrupt`; each
  is a merge patch against the informer's copy (`Patched`), brought up to date
  by `SyncConfigMap` and `SyncDeployment`. `scenario` is what the informer
  shows; `submitted` is history: the scenarios it has been.
* *Pods.* `CreatePod` and `RemovePod` roll Pods over, one more than the replicas
  at a time (`MaxSurge`). `Start` starts a Pod's container, or restarts it in the
  same Pod: the template is the Pod's, the configuration is read from the
  ConfigMap there is then, and the process comes up or goes into a crash loop.
  `Kill` takes its memory away.
* *Slots.* `Begin` (the permit), then `Pick` (`pickWeighted` over the operations
  not excluded), `Resolve` once per variable, `Send`, `Respond`, `Capture`.
  `Reselect` is the only way back to `Pick`. Each is one call to the store, the
  files or the target, so that another replica can fill a store between two
  picks. `sent` and `held` are history, kept until the next slot: what the permit
  paid for and which operations a draw found without values.

`RunsAsDeployed(p, s)` is the premise of what holds only outside a rollout: the
Pod was created for `s`, and its process has read the configuration of `s`. What
the code does not promise without it:

* A container that starts before or after only one of the two patches runs one
  scenario's configuration in another's environment. It may go into a crash
  loop until the Pod is replaced; or, since credential files are named by the
  index of their operation (`trafficscenario_secrets.go:16`), send the credential
  of another operation.
* A rollout of a scenario with one replica and a local limiter, or the
  replacement of its Pod, runs two such limiters side by side
  (`trafficscenario_resources.go:109`): up to twice the RPM while it lasts.
* A patch against an outdated copy leaves fields of an earlier scenario in the
  Deployment until the next `Reconcile`. Some of those mixtures the API server
  would refuse; the model lets all of them through.

## Runs

`tlc -config <cfg> <module>`; `PROJECT.json` has one entry for each.

| Run | Shows | States |
| --- | --- | --- |
| `batch_pacing` | exact mean, bursts within a minute, and what a partial grant adds; positive closing pause | 35 thousand |
| `shared_budget` | exclusive permits, window budget, no polling, one RPM per window, no fresh reader beyond it | 0.27 million |
| `shutdown` | a stopped process leaves the loop; bounded carry-over | 0.1 million |
| `deletion_liveness` | finalizer before keys, complete cleanup, deletion completes, foreign Deployments hit on outdated reads only, through a fault or a restart | 0.2 million |
| `convergence` | the status converges, suspending stops the runner, finalizer before keys when an edit switches Redis on | 0.2 million |
| `value_stores` | whichever backend is chosen implements `ValuePool`; the ring stays in its bounds | 0.12 million |
| `store_retention` | no value expires in use, a removed store is gone in time, a restored one is kept | 37 thousand |
| `slot_execution` | through edits and rollouts: accepted scenarios start and run without static errors; rolled-out replicas share a limiter; one request per permit, no permit wasted, slots end, credentials reach their own request | 0.12 million |

Four runs show where the code does less than the documentation says; the
findings in `PROJECT.json` quote the lines.

| Run | Shows |
| --- | --- |
| `carry_over` | a batch granted late in a window is sent in the next minute, which then sees more requests than the RPM (`scheduler.go:130`); `CarryOverBounded` says by how much at most |
| `no_redis_address` | a manager without a Redis address holds a typed nil client; deleting a scenario that uses Redis panics for ever (`cmd/manager/main.go:99`) |
| `runner_converges` | ConfigMap and Deployment are patched in two calls (`trafficscenario_controller.go:127`). A Pod that starts in between reads the new configuration under the old template; if the edit is then reverted, the hash never changed and nothing replaces that Pod |
| `orphan_keys` | suspend, then delete: keys are cleaned while Pods still write (`trafficscenario_controller.go:77`) |

One more such place is in a model without a run of its own. A suspended
scenario has no process that maintains its keys. If a store was removed long
enough for an expiry to be set, and is declared again in a suspended scenario,
the expiry keeps running: `RestoredStorePersists` asks for a scenario that is
not suspended. `src/README.md:210` says that suspended stores remain persistent.

### Bounds

* `shared_budget` has two processes, a minute of two ticks, two minutes, an RPM
  of one or two and bursts of two, and go-redis' two retries: two holders of one
  window, a counter key read in the following window, an RPM read in one window
  and spent in the next, and, by that, a partial grant. `shutdown` and
  `carry_over` have a minute of three ticks and an RPM of three, so that a burst
  is cut short by its window and reaches across its end. The theorems below
  cover every other number, and the local limiter.
* `BatchPacing` runs with `Minute = 24` and every RPM up to 7, so that divisions
  with and without remainder occur, for accepted and refused profiles and every
  rest of a window after a partial grant.
* Two generations in `convergence`, one in `deletion_liveness`, one fault in
  both: every call of `Reconcile` can fail once, applied or not, at every point
  of the lag of the three caches. `MaxFaults` does not bound Redis in the
  finalizer, which may fail for ever. A name that is deleted and created again
  is left to the theorems, which hold for any number of incarnations.
* Configurations are only ever raised in number, except in `runner_converges`,
  which has two of them, three generations and no faults; each run orders valid,
  invalid and Redis-using ones to reach the transitions it is about.
* The stores have three clients, capacities up to three and one retry:
  a full ring wraps, a draw is overtaken by a push and a trim.
* `store_retention`: two processes, so that one of each configuration can run;
  three changes, so that a store is removed and restored with a suspension in
  between; an expiry of five ticks and an interval of two with one failure, the
  smallest numbers for which two intervals end before the expiry does (the code
  has seven days and ten minutes, hence a thousand failures in a row). The
  bound in `RemovedStoreExpires` is reached.
* `slot_execution`: about 3,500 scenarios, at and beyond each bound of each
  field, fields that one check combines varied together; mixes of up to three
  operations that hold each other back, with one process in memory and two in
  Redis. Three edits: two operations with credentials change places; a scenario
  with one local limiter becomes two replicas that share one in Redis; those go
  back to one replica, with another schedule. Two Pods are followed, so that an
  old and a new one run side by side. Longer lists add no case: every rule is about one entry, a pair of
  entries or the length of the list.

Deadlock is not checked in `RateBudget` (the horizon ends and processes end),
`Reconciler` (a settled cluster has nothing to do) and `SlotExecution` (a
refused scenario has nothing to do).

### Fairness

* `RateBudget`: weak fairness of every process's own steps: the Go runtime
  runs a runnable goroutine and `Execute` ends by the operation's timeout. No
  fairness for the clock, for Redis failures or for stops: a pause ends a
  stopping process through its context, not through time.
* `Reconciler`: weak fairness of the worker, of each informer, of the grace
  period's clock, of the garbage collector and of Pods starting and stopping;
  none for users, faults or Redis. Redis may refuse every scan and `DEL`:
  `DeletionCompletes` does not depend on it.

* `StoreRetention`: weak fairness of time, of missing Pods starting and of
  outdated or suspended ones being stopped; strong fairness of the two parts of
  `ReconcileKeys`: Redis does not fail, and Pods are not killed, every time
  before the call is done.
* `SlotExecution`: weak fairness of each process's steps: the goroutine runs and
  `Execute` ends by its timeout. Nothing makes a process start, die, or a store
  be filled.

`StatusConverges` and `RunnerConverges` say what is so once users and faults
are still; their bounds on generations and faults make that so.
`RunnerConverges` is about a Deployment reported ready for the scenario's
configuration; it is violated under the fairness above, so that no informer, Pod
or reconcile is merely late.

## Proofs

`tlapm <module>.tla` for each of `ProfileTheorems`, `BatchPacingProofs`,
`RateBudgetProofs`, `RateWindowProofs`, `ReconcilerProofs`,
`ValueStoresProofs`, `StoreRetentionProofs`, `SlotExecutionProofs`. Every
invariant and every safety action property of a passing run, and both
refinements, have a theorem. Where a property is not inductive, the invariant
that is was given to TLC before it was proved.

### Assumptions

Only the named `ASSUME`s of the modules, which TLC evaluates in each run:

* a positive minute, an RPM between one and the number of ticks of a minute
  (the code counts nanoseconds), a profile `profile.New` accepts;
* `ClusterAssumption`: configurations are positive numbers, there is at least
  one generation; the bounds on incarnations, generations and faults are any
  numbers;
* `StoresAssumption`: capacities are positive (`validateStoreConfigs`);
* `RetentionAssumption`: the failures in a row that are allowed for take less
  time than the expiry (ten minutes each against seven days);
* `ScenariosAssumption`: a scenario's operations and their variables are lists,
  and an operation has the fields of its Go type that the controller reads or
  rewrites. Nothing is assumed of their values: scenarios may be invalid.
  `EditsAssumption`: edits lead from one of them to another.
  `ProcessesAssumption`: the Pods followed are finitely many, numbered from one.

### Pacing and permits

* `MeanIsPreserved`, `BurstStaysWithinMinute`, `ClosingPauseIsPositive` and
  `TypeCorrect` of `BatchPacingProofs`: by `PacingInv`, which says at every slot,
  not only between batches, what has been paused: the number of slots run times
  the pause of the profile, and, once the last slot is over, that the closing
  pause is the profile's or the rest of the window, whichever is longer. The
  lemmas of `ProfileTheorems` bound the quotients.
* `TypeCorrect` of `RateBudgetProofs`: `TypeOK` is not inductive. `TypeInv` adds
  what the places in the loop mean: how many permits are wanted and held where,
  that a window lies in the past, that position and batch agree.
* `PermitsAreExclusive`: by `PermitInv`. Permits held or spent were issued by
  their limiter: their number is at most the window's count while that window is
  current, and a count is only forgotten with its window, since the key lives a
  minute longer than it. `TryAcquire` issues permits above the count; every
  other step hands on, spends or drops permits already issued.
* `BudgetHolds`: requests of one window and limiter have distinct slots in
  `1 .. MaxRPM`, so there are at most `MaxRPM` of them.
* `ReplicasAgreeOnRPM`: by `RPMInv`: a value read in the current schedule window
  is the one in the hash, which lives as long as its window.
* `SpentWindowIsWaitedOut`: by `WaitInv`. The property speaks of the process
  that asks; the invariant follows a short decision through the batch it may
  still hold to the pause that ends no earlier than the window.
* `FreshReaderStaysWithin`: by `GrantInv` on top of `RPMInv`: a grant is within the
  RPM its process has read, and what was read in the current schedule window is
  what the hash holds. The property makes no condition on the limiter's window.
* `CarryOverIsOneBatch`: by `CarryInv`. A process asks for a batch only in its
  current window, so all it sends in a minute on permits of another one belongs
  to one batch (`OneBatch`); those requests have distinct slots of that batch.

### The controller

All four theorems of `ReconcilerProofs` rest on what a stale copy may still be
relied on for.

* `TypeCorrect` and `ForeignSpared`: by `TInv`. The calls carry no UID, and
  `ensureControlledBy` is asked of the cache, so a foreign Deployment can be hit;
  the theorem says that each such call comes from a read that still showed the
  scenario's own, for every lag of the informer. `OwnerSeen` keeps the
  incarnations of a name apart: the cache never shows a Deployment of another
  incarnation than the owner of the one there is.
* `FinalizerComesFirst`: by `FinalizerInv`: a finalizer seen in any copy was added
  and is held until the release; a reconcile past the finalizer works on a copy
  that shows it; so a Deployment whose configuration uses Redis is guarded, its
  Pods are, and every key they write.
* `CleanupIsFinal`: by `CInv`. `Aging`: no copy is ahead of the object, a deletion
  once seen is never undone. `ReleasedIsOver`: no reconcile can start a runner
  for a released scenario. `CleanupInv`: from the scan on, each found key is in
  `found` or deleted, and no runner is left to write another, unless `stale` or
  `lingering` says so.

### Stores

* `RingStaysInBounds`, `MemoryIsPool`, `RedisIsPool`: by `StoresInv`. Each step is
  one step of `ValuePool` or changes nothing of it. The ring is read from its
  oldest slot by `Rotated`; lemmas say what a Put does to that reading, full or
  not. For the list the invariant has `ListFits` and `DrawnIndex`: an index drawn
  before other replicas pushed and trimmed has left the list only if a replica
  with a smaller capacity trimmed it, which is when `ValuePool` allows a miss.
* `InUseNeverExpires`, `RemovedStoreIsGone`, `TypeCorrect`: by `IInv`, on the debt of
  a process: the ticks since it last maintained its keys, at most
  `(MaxFailures + 1) * Interval`. An expiry under a running process that declares
  the store was set after that process's last maintenance, so what is left of
  it and the debt make up the TTL (`YoungerThanMaintenance`): it cannot run out.
  A key nobody declares has waited no longer than the debt of any running
  process if it has no expiry, and no longer than that wait and its expiry
  together if it has one (`UnwantedIsDue`).

### Slots

By `SlotInv`. `Applied`: what is in the ConfigMap, and what a `Reconcile` works on,
comes from valid scenarios, and so do the resources of the Deployment, although
its other fields may be mixed. `Running`: for each process (`ProcessOK`), what it
read is such a configuration, its limiter follows from that and its Pod's
environment, a slot is at an operation of the configuration and has sent nothing
before it is past its variables, and its credentials are those of its Pod's
volume. None of this
depends on template and configuration belonging together; where a property
does, `RunsAsDeployed` brings the two together (`AsDeployed`).

* `AcceptedStartsUp`: the runner's constructors ask for nothing the controller
  has not checked or provided (`AcceptedStarts`), and defaults merged into the
  resources keep each request within its limit (`ResourcesFit`); a patch takes them over as a
  whole or not at all (`PatchedResources`).
* `ReplicasShareLimiter`: two processes of a rolled-out scenario mean two replicas,
  for which validation asks for the Redis limiter, and the runner resolves it as
  the controller did.
* `PermitPaysForOne`, `NoStaticError`: from the invariant and what `Validate` says
  of one operation (`ValidOperation`); both hold in the middle of a rollout too.
* `CredentialsAreItsOwn`: the paths of two headers differ, so of all files of the
  volume made for it an operation reads its own (`CredentialsAreReferred`).
* `NoPermitIsWasted`: by `HeldInv`: an operation is excluded once, when an empty
  store held it back, and attempts count the excluded. So as many attempts as
  operations means that all are held back; and no total weight means it too,
  because weights are positive (`WeightIsPositive`). `TotalWeight` is a fold. The
  library's induction theorems cannot be instantiated here, so that the fold is
  defined at all, and positive, is shown by a smallest counterexample (`WFMin`).

### Only model-checked

What happens eventually, which is out of the prover's reach: `ShutdownCompletes`,
`DeletionCompletes`, `SuspendStopsRunner`, `StatusConverges`,
`RestoredStorePersists`, `SlotEnds`.

## Not modelled

The contents of requests, responses, templates and credentials, and the JSON
syntax of a configuration (only which class a text belongs to); literal headers
that differ only in case, both of which are accepted; metrics, Events, probes
and logs, decorators that pass results through; security contexts and labels of
the Pod template; the generated deep copies and the CRD schema, which refuses
some scenarios before the controller sees them; a Redis clock that is set back;
two managers at once (there is no leader election), whose two sets of caches are
beyond TLC within these bounds; Pods in termination next to their replacements;
the delay with which the kubelet refreshes a mounted ConfigMap; a manager that
is redeployed with another Redis address; the Pods of a foreign Deployment that
was patched.

## Plan

1. Proofs: the safety part of what ends: `attempts` of a slot only grows and is at
   most the number of operations; what a cancelled process may still do.
2. `Reconciler` with two managers, without caches that lag, and the scan of keys
   in pages; readiness and the rollout it gates.
