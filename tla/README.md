# gpuid: a verification project

gpuid watches the pods of a GPU node, asks each ready pod for the serial numbers of its GPUs,
writes them to the labels of the node and exports one record per GPU to a backend
(`src/README.md:1-60`). This directory has TLA+ models of that program, the TLC configurations
that check them, and proofs that TLAPS checks. Line numbers are those of `src/`.

The rest of this file: the [parts of the system](#the-system), the [modules](#the-modules) and how
they correspond to the code, the [runs](#the-runs), their [bounds](#bounds) and
[fairness](#fairness), the [proofs](#the-proofs), what the code does
[differently from its documents](#where-code-and-documents-differ), what is
[not modelled](#not-modelled), and [what is left](#what-is-left).

## The system

| part | state | operations | who calls it | what makes it hard |
|---|---|---|---|---|
| **Run, leader election** (`runner/service.go`) | exit code, lease context, `leaderLost`, `runDone`, `runErr` | start, elect, lose, drain server, close exporter | `main`; the elector's callbacks | three goroutines and a select with a default; the lease is released before its context is cancelled |
| **runController** (`runner/service.go:220-330`) | informer, work queue, workers | sync, start workers, drain, stop, wait | Run or `OnStartedLeading` | shutdown in four steps while workers still call the queue |
| **Worker** (`runner/worker.go`) | the key and pod it holds | `do`, `processPod`: look up, jitter, exec, label, identify, export, mark | runController | a check at the start, used many calls later; pods replaced under the same name; six error paths |
| **Work queue** (client-go) | queue, dirty, processing, delay heap, limiter | Add, Get, Done, AddRateLimited, Forget, ShutDownWithDrain | handler, workers, runController | a key added while it is held |
| **Processed set** (`runner/setter.go`) | UID to time | Has, Add, sweep | workers, its ticker | expiry; an answer judged outside the lock and used much later; memory only |
| **GPU reading** (`gpu/gpu.go`) | none | exec, parse, group by chassis | worker | pod by name, not UID; map order |
| **Node labels** (`node/label.go`) | the node's labels | read, compare, patch, retry | worker | other writers between read and patch; stale labels |
| **Node identity** (`node/node.go`) | none | split `spec.providerID` | worker | empty and missing identifiers |
| **Export front end** (`runner/export.go`) | the backend | filter, Write, Close | worker, Run | batches that become empty |
| **Backends** (`exporters/*`) | table, bucket, endpoint, stream; connection pool | New, Write, Close, Health | front end | lost answers, half-written batches, keys that collide, connections that are not returned |
| **Configuration** (`runner/option.go`, and `New` of each backend) | the environment | read, default, Validate | Run | some thirty-five variables with three notions of unset; limits that two parts see differently |
| **Schema** (`exporters/postgres/exporter.go:217-252`) | table and indexes in the database | create what is not there | `New`, in each replica | several processes at once; killed in between |
| **Client** (`runner/client.go`) | none | in-cluster or a file | Run | |
| **Server** (`server/server.go`), **counters**, **logger**, **commands** | none that decides anything | | | |

How they interact. The informer copies the API server's pods to its indexer and hands keys of ready
pods to the queue. Workers take keys, read the pod from the indexer, and talk to the API server,
to the pod and to the backend; they share the processed set. The elector starts and stops
runController through contexts, and Run leaves through a drain of the server and the exporter's
Close, possibly with workers still at work. Replicas only meet in the lease, in the labels of a
node and in the backend.

What makes each part correct: one worker per pod, a processed check that stays true up to the export,
no ready pod forgotten, every repeated export with a cause, a shutdown that ends and leaves nothing
behind (runController, worker, queue, set); one leader, exit codes that tell why the process ended,
failover (Run); labels that show exactly one reading and leave others' labels alone (labels); whole
batches, kept once acknowledged, and a pool that loses no connection (export); a set that remembers for exactly
`cacheTTL`, a worker that always comes back, and not later than budget and sleeps allow (budget); work only with a
configuration that suits every part, no database contacted before the validations, and a schema that is whole before anybody writes to it (start). `PROJECT.json` lists
the hazards with their lines and the properties that meet them.

## The modules

| module | models | uses |
|---|---|---|
| `WorkQueue` | the contract of client-go's rate-limiting queue (external) | |
| `Reconciler` | one process: informer, runController, workers, processed set, restarts | extends `WorkQueue`, instantiates `Collection` |
| `Collection` | abstract: what a process promises about readings | |
| `Replicas` | several processes around one lease: Run and the elector | |
| `UIDSet` | the processed set with its timestamps and its sweep | |
| `PodBudget` | the time a worker spends on a pod: `processPod`, its context, the sleeps of `EnsureLabels`, the drain | extends `UIDSet` |
| `Startup` | several processes from their environment to their work: `Run`, `option.go`, `client.go`, `New`, `initializeSchema`, restarts | |
| `GPULabels` | pure: grouping of GPUs, `calculateGPULabels`, `sanitizeLabelValue`, and reference definitions | |
| `NodeLabels` | `EnsureLabels` on one node | extends `GPULabels` |
| `Exporters` | `Export` and the four `Write`s | instantiates `Backend` |
| `Backend` | abstract: what a caller of `Export` may rely on | |
| `MC*` | values of constants for TLC | |
| `*Proofs` | theorems | `ReconcilerProofs` (with the lemmas about `WorkQueue`), `ReconcilerSafetyProofs`, `CollectionProofs`, `ReplicasProofs`, `NodeLabelsProofs`, `ExportersProofs`, `PodBudgetProofs`, `StartupProofs` |

A definition whose comment starts with "Mutant:" is a plausible mistake in the definition below it. No
specification uses it; replacing that definition by it must break the property it is listed with, which
shows that the property depends on the code.

### Reconciler and WorkQueue

* `pod` is what the API server has, `cache` the indexer's copy, `notify` the handler's pending
  notifications. The handler of `service.go:264-284` keeps nothing but the key of a ready pod, so a set
  of keys is enough: `Add` of a key that is already dirty does nothing. `Watch` copies the current
  pod, which leaves out intermediate versions (a pod that was ready in between only adds a `Resync`-like
  notice). `Resync` may come at any time. List and
  watch are requests made with the controller's context (`service.go:243-251`): no list comes once it is done, but a watch event that came before may be applied later.
* `phase` is runController (`service.go:225-330`): starting (informer runs, cache not synced), running,
  draining (`ShutDownWithDrain` blocks), stopping (`close(stopCh)`, `wg.Wait`), returned. `ctxDone`
  is its context, cancelled by SIGTERM or a lost lease.
* `pc[w]` is where a worker is in `do` and `processPod`. One action is one call to something outside
  the process, with everything up to the next such call: `ExecNoGPU` includes the mark, `Export` the mark and
  `Forget`, each failure the counter and `AddRateLimited`. What `Done` releases comes in a step of its own
  (`Finish`): the deferred `q.Done` runs after `Forget` or `AddRateLimited`, and other goroutines run in
  between.
* Names and UIDs are separate: `PodOf` maps UIDs to keys, several to one. A StatefulSet's pod that
  comes back on another node has the same key and another UID. `NodeOf` gives a UID its node, which also
  stands for the GPUs there.
* A call may fail at any time until the budget `MaxFaults` is used, and freely once the context is
  cancelled, because each call then returns an error or has already been answered. Some failures are
  not faults but follow from the state: exec into a pod that is gone or not ready, a missing or empty
  identifier.
* `Expire` takes a UID out of the processed set at any time when `Expires` is set: `Has` denies an
  expired UID whether or not `sweep` has deleted it.
* `flight` has the batches that may come to the backend although nobody waits for them: an export may end without an answer because
  the batch was stored (`ExportUnacknowledged`, first case) or before it is (second case), and a process that is killed may have sent what its workers
  were about to send (`Sent`). `Arrive` stores such a batch at any later moment, after its retry or for a pod that is settled by then, or never.
* `Restart` at any moment: memory is lost; labels and records stay, and so does what is in flight.
* History variables, which no guard reads: `again` (exported more than once), `excused` (has a reason
  to be; a batch whose fate the process does not learn is excused when it is sent), `marked`, `gpuless`, `dropped`.

`Collection` has no informer, queue, worker or label: a reading is delivered while its pod is not
settled, settled with it, or settled with nothing to send; it may be lost on the way (`Lose`) and come later (`Come`); and marks may lapse, those
of a killed process together, with what it had sent on the way (`Lapse`). `ImplementsCollection` is the refinement, with
`delivered <- Stored`, `settled <- processed`, `barren <- gpuless \cup dropped`, `coming <- Coming`.

### Replicas

A process is `run` (Run), `elector` (LeaderElector.Run), `ctrl` (runController from outside, the inside is
`Reconciler`), `told` (SIGTERM), `cut` (lease context), `lost` (`leaderLost`), `unserved` (the server
goroutine's error), `failed` (`reconcileErr`) and `exit`. Time is discrete: `age` counts ticks since a
process saw the lease record, `idle` since its last answered renewal, each on its own clock. An
elector takes a record that has not changed for `LeaseDuration`; it gives up `RetryPeriod + RenewDeadline` after
its last success. A renewal is atomic, except that its answer may be lost (`Unanswered`). Each request needs a context
that is not done: a candidate that was told to end acquires nothing (`Acquire`), and a controller whose context is done before its informer has listed (`Listed`)
never gets to `Synced`; once it has, `WaitForCacheSync` may see cache and context done together and say either (`Synced`, `SyncFailed`). `LeaveElection`
reads `ctrl = "failed"` without synchronisation because `runErr` is read in the default case of the
select (`service.go:211-216`): if the goroutine has not written it yet, Run sees nil. A process has one
life: its identity ends in a uuid, so a restarted one is another element of `Procs`. Restarting with
memory lost is in `Reconciler`.

### UIDSet and PodBudget

`UIDSet` has the map as `stored` (its keys) and `age` (time since the entry was written), and the ticker as
`sinceSweep`. `Add`, `Sweep` and the two halves of `Has` are separate: `Entry` is what is read under the read lock, `Fresh` the
comparison after it. `sinceAdd` is history: the time since the last `Add`, which no sweep touches.

`PodBudget` is `processPod` again, with time and without the rest: what can fail is the same as in `Reconciler`, how pods
come and go is left to it, and so is the work queue (`Take` relies on `OneWorkerPerPod`). `entry` is what `Has` has read and not yet judged,
`elapsed` the age of the pod's context, `try` and `left` are the loop of `EnsureLabels`: the try and what is left of the sleep.
An answer may come in the unit of time in which a deadline passes, and not later (`MayAnswer`); a call whose context is
done fails before time goes on (`Due`); a sleep looks at nothing but its own length (`LabelFailed`, `Wake`). The jitter, below 200 ms, is
less than a unit. `Skip` and `Accept` may come later than `Take`: a goroutine can be descheduled between lock and comparison.

In `Reconciler` a mark may lapse at any moment (`Expire`), which allows all that `UIDSet` does; what only timestamps can show,
that a mark does not lapse early, is `Remembers`.

### Startup

`env` is a function from the names that are set to their values; it stays as it is, as a Deployment's does. Values are
numbers, Booleans, or one of `Empty`, `Blank` (white space), `Garbage` (a text its reader refuses) and ordinary texts.
The three notions of "unset" are three operators: `Text` (option.go: a variable set to `""` is `""`, not the default), `Number` (option.go: `""` is the
default, garbage an error, `Unparsable`), `OrDefault` (backends: `""` and garbage are the default). `Valid` is `Command.Validate`, `ExporterValid`
the constructor's switch with each backend's `Validate`, `ClientBuilt` and `SelectorParses` what `Run` checks after `New`, `ElectorAccepts` what client-go
demands of the lease's timing. Numbers are the code's own limits, durations in seconds.

`pc` is the place in `Run`; each check is one action, `Goes`, that goes on or ends the process. `initializeSchema` has a step per
statement, and a statement that creates something has a beginning and an end, between which another process may do the same
(`Begin`, `Create`, `StatementFails`). When the connection breaks or the process is killed the statement may have taken effect or not. The database
may be up or down at first and go away; a database that refuses the credentials is one that does not answer. `Restart` is
kubelet; `Kill` may come anywhere, and stands for SIGTERM while a process starts, too. What a process does at work, its exit codes and the exporter's
Close are in `Replicas`.

### GPULabels and NodeLabels

A string is a number, ordered as the strings are; 0 is the empty string; a label key is a tuple.
`calculateGPULabels` follows the code: sort by chassis, number the units, prefix keys with the chassis index
only if there are several units and the unit has a serial; the units' writes come one after another, and of two writes to a key the
last counts (`Final`). `LabelsOf` defines the same labels from ranks, without an order of units or of writes, and `ReadBack` reads a listing
back from labels. `Groupings` gives all orders in which the map iteration of `GetSerialNumbers` may return the units. `ListingsOK` says what nvidia-smi
reports: finitely many GPUs, and one text for a chassis serial that is not set.

`NodeLabels` has one action per request of `EnsureLabels`: `GetNode` or `UpToDate`, `Patch`, `Failed` (before
or after the request was applied), `Refused` (Forbidden, Invalid). `Again` is the backoff with its five tries.
A patch whose call failed has been applied by then or never is: one that the API server takes later is a write of an older reading by somebody
who no longer waits, the second writer of `mixed`.
`Merged` is what a strategic merge patch does on the server: it sets the desired keys and deletes those
nulled from the earlier read. `ForeignWrite` is any other controller, at any moment.

### Exporters

Workers of one or several processes call `Export`. Each kind of backend has the steps of its `Write`: a line per
record (stdout), one request (http, s3), begin, copy, flush, commit, with rollback on each error path
(postgres). A request may arrive and be answered, arrive and not be answered, not arrive, or arrive when the call has failed
or its process is dead: `flight` has the calls whose batch may come yet, and `Arrive` is its coming. `Close` may come
while workers are still at work (`service.go:210-215`, see [below](#where-code-and-documents-differ)): a closed `sql.DB` lends no connection,
transactions that have one go on. `Crash` kills all workers; the server rolls back what did not commit. The S3 key
is the time to the millisecond and nothing else (`s3/exporter.go:170`). The retries inside the AWS SDK write the
same key again and are part of one `PutObject`. Order of the records in a batch is left open.

`Backend` has no kinds, steps, records or connections: a batch has a place, the backend takes it (`Take`, `TakeAndTell`), at most once
and perhaps when nobody waits any more, success is told only of a batch it took, and only a batch in the same place drops it. `ImplementsBackend` is the
refinement: `held <- Whole` (the calls all of whose records are there), `waiting <- Asked`, `pending <- Pending` (asked for and not there, or under
way), `place <- Place` (the time of the key in S3, elsewhere one of its own). On stdout a batch is taken with its last line.

## The runs

`tlc -config X.cfg M` in this directory.

| run | module | shows |
|---|---|---|
| `reuse` | MCReconciler | One name carried by two pods on two nodes, two workers, pods that come, turn unready and go while a worker holds the key: one worker per pod, a processed check that stays true, no ready pod forgotten by notifications, queue, delay heap and workers together, nothing left in the rate limiter of keys nobody retries, and no key left behind by the last worker of a drain. The second node has an empty identifier and no chassis. 1.9 million states. |
| `restart` | MCReconciler | Lost answers, batches that arrive after their call failed or their process died, expired marks, readings without GPU, and a process replaced between storing and marking: marking never hides an unexported pod, each repetition has a cause, labels come before records, and the process refines `Collection`. 1.3 million states. |
| `live` | MCReconciler | One worker; a second pod fails forever because its node has no identifier; a cancellation at any moment and a restart: the first pod is settled, a cancelled controller returns, with no key held and no worker running. |
| `observed` | MCReconciler | *violation*: a record names a node whose GPUs were not read. |
| `elect` | MCReplicas | Two processes, with or without election, lost renewals and answers, signals and kills at any moment: one leader at most, exit code 0 only after a signal, a lone process waits for its workers, and a leader that dies or falls silent is replaced. |
| `overlap` | MCReplicas | *violation*: two replicas have workers at the same time. |
| `labels` | MCNodeLabels | Six kinds of listing in every unit order, requests that fail or lose their answer, a foreign writer between read and patch: its labels stay, a call that succeeded leaves exactly its reading, and the labels are at each moment those of one listing. |
| `mixed` | MCNodeLabels | *violation*: two writers leave a mixture of two readings. |
| `exporters` | MCExporters | Two workers, each backend, failures, lost answers, requests that arrive late, Close and a kill at any step: no part of a batch in table, bucket or endpoint, an acknowledged batch stays, every connection goes back, and each backend refines `Backend`. 861 thousand states. |
| `budget` | MCPodBudget | Two workers, two pods, calls that answer in time, late or never, label tries with their sleeps, the sweep and a cancellation, in discrete time: a UID counts for exactly `cacheTTL`, the answer of `Has` stays right until the mark, a pod holds its worker and a drain lasts no longer than budget and sleeps, every worker comes back. 212 thousand states. |
| `startup` | MCStartup | Two replicas, 143 environments, one database that goes away, a kill at any place: whoever works has what each part asks for, nothing that a parser or a `Validate` refuses contacts the database, nobody works on half a schema, and with a sound one each replica gets to its work again and again. 94 thousand states. |
| `collision` | MCExporters | *violation*: two batches of one millisecond have one S3 key. |

### Bounds

* **Keys, UIDs, nodes, workers** (Reconciler): the races are about one key held by one worker and wanted
  by another, and about one name passing to a second pod; one key, two UIDs, two workers have all of them.
  `live` has two keys because its question is whether one that fails forever starves the other.
* **MaxChurn** counts deletions and turns to unready: 3 in `reuse` lets the first pod flap, go, and the second flap.
  **MaxFaults** bounds failed calls before shutdown: a lost answer and one more in `restart`. After
  cancellation failures are free. **MaxRestarts** 1: nothing accumulates over restarts but the store.
  **Late** lets batches arrive late. It is set in `reuse` and `restart`; in `live` and `observed` an answer may be lost, but not the
  batch delayed, because neither question depends on what the backend has, and `live` would take three times as long.
* **Replicas**: two processes; three did not finish in useful time. The theorem about one leader holds for any number.
  `LeaseDuration = 4`, `RenewDeadline = 2`, `RetryPeriod = 1` keep the order and margin of the defaults 15, 10, 2.
* **NodeLabels**: `MaxRetries = 5` is the code's own; `MaxFaults = 6` exhausts one call and starts on another.
  `MaxCalls = 2`: a second call meets the labels of the first, and the node may begin with those of any listing.
* **Exporters**: `MaxOpenConns = 1` for two workers stands for 25 connections for up to 100; three calls are a call, its
  retry and one beside them; two values of the clock are enough for equal and different milliseconds.
* **PodBudget**: three tries with sleeps of 1 and 2 units, each stretched by at most one (the code's are 2, 4, 8, 16 s, stretched by a
  tenth), and a budget of 4, less than all sleeps, as 30 s is less than what 2 + 4 + 8 + 16 s can become. `CacheTTL` 3 is not a multiple of `SweepInterval` 2, so that entries lapse before,
  at and after a sweep; one pod keeps a worker for longer than `CacheTTL`, which the code's 30 minutes do not see and
  the invariants do not need. Times are counted to one beyond the bounds they are compared with (`Never`, `MaxHeld`, `AllSleeps`).
* **Startup**: five statements, the table and its four indexes, as in the code. The environments are the sound ones of each backend and those that differ from
  one of them in one variable, at each limit and one off it; two variables that are wrong together are refused by the earlier
  check. With the database that is to be migrated there are also those refused only behind its schema: a selector, a missing client, timings the elector refuses. `MaxOutages` and `MaxKills` are 1: an outage or a kill can meet any statement of any replica, and the proofs have no such bound on either.

`CHECK_DEADLOCK FALSE` is in the configurations whose systems may stop: a process that returned, a call budget that is used up and a crash
without another restart are proper ends. `budget` and `startup` check deadlock: time goes on, and kubelet restarts.

### Fairness

* `Reconciler`: weak fairness of each worker, of each step of runController, of the handler and of each retry delay:
  goroutines are scheduled and timers fire. List and Watch are fair only until the context is cancelled, as
  nothing waits for them afterwards. Nothing is assumed of pods, failures, resyncs, cancellation or restarts.
  `WF(Worker(w))` allows every call of a worker to fail as long as the fault budget lasts; what ends failures is the
  budget, so `EventuallySettled` says: a pod that stays ready is settled once calls stop failing. The premise
  `<>[](StableReady(u) /\ ~ctxDone)` leaves out runs in which the controller is stopped for good.
* `Replicas`: time passes, an unwinding process goes on, a candidate observes the record, and strong fairness of `Acquire`
  says that its requests are answered again and again although others write in between. Nothing is assumed
  of renewals: a silent leader is a behaviour, and `FailoverHappens` is about it.
* `PodBudget`: time passes (`SF(Tick)`: whatever is due is done in between), the ticker fires, and a worker that need not wait for an answer
  goes on: it judges what `Has` read, leaves the jitter, wakes up, and comes back from a call whose context is done (`Overdue`). No answer ever has to come: a call that hangs for
  ever is a behaviour, and `WorkerComesBack` is about it.
* `Startup`: a goroutine goes on and kubelet restarts what exited (`WF(Run(p))`), and an outage ends. Nothing has to leave its work, and a race need not be
  lost only once.
* `NodeLabels` and `Exporters` have no liveness property. Their calls end because the number of tries is bounded and the pod's context has a deadline:
  `WorkerComesBack` of `PodBudget`.

## The proofs

Each theorem is for all values of the constants that satisfy the named assumptions of the module.

| theorem | module | says |
|---|---|---|
| `Types` | ReconcilerProofs | `Spec => []TypeOK` |
| `OneWorker` | ReconcilerSafetyProofs | `Spec => []OneWorkerPerPod` |
| `Idle` | ReconcilerSafetyProofs | `Spec => []IdleWhenReturned` |
| `CheckStaysValid` | ReconcilerSafetyProofs | `Spec => []StillUnprocessed` |
| `Refinement` | ReconcilerSafetyProofs | `Spec => ImplementsCollection` |
| `CollectionSafe` | CollectionProofs | a settled pod is delivered or barren; a second delivery has a cause |
| `MarkedOnlyWhenSettled`, `RepeatedOnlyIfExcused` | ReconcilerSafetyProofs | the two facts above, carried to Reconciler by the refinement: `MarkedMeansSettled`, `RepeatedOnlyWithCause` |
| `NoneForgotten` | ReconcilerSafetyProofs | `Spec => []NoPodForgotten` |
| `LimiterBounded` | ReconcilerSafetyProofs | `Spec => []LimiterForgets` |
| `LabelsFirst` | ReconcilerSafetyProofs | `Spec => []LabelledBeforeStored` |
| `NothingLeftBehind` | ReconcilerSafetyProofs | `Spec => []LastOneLeavesNothing` |
| `ReplicaTypes` | ReplicasProofs | `Spec => []TypeOK` |
| `OneLeader` | ReplicasProofs | `Punctual => (Spec => []AtMostOneLeader)` |
| `ExitCodes` | ReplicasProofs | `Spec => []ZeroMeansTold` |
| `AloneWaits` | ReplicasProofs | `Spec => []AloneFinishesFirst` |
| `WholeBatches` | ExportersProofs | `Spec => []AllOrNothing` |
| `AcknowledgedStays` | ExportersProofs | `Spec => []AcknowledgedIsKept` |
| `ExporterTypes`, `PoolKeepsAll` | ExportersProofs | `Spec => []TypeOK`, `Spec => []ConnectionsReturned` |
| `ExportersImplementBackend` | ExportersProofs | `Spec => ImplementsBackend` |
| `LabelTypes`, `ForeignStays` | NodeLabelsProofs | `Spec => []TypeOK`, `Spec => []ForeignKept` |
| `LabelsFollow` | NodeLabelsProofs | in whatever order the units of a listing come, `calculateGPULabels` gives `LabelsOf` it |
| `ReadingKept` | NodeLabelsProofs | `ReadBack` gives from `LabelsOf` a listing its content: no key is written twice, none is lost |
| `OneReadingAtATime`, `SuccessTellsReading` | NodeLabelsProofs | with one worker per node: `Spec => []OneReading`, `Spec => []LabelsTellReading` |
| `BudgetTypes` | PodBudgetProofs | `Spec => []TypeOK` |
| `SetRemembers`, `SetForgets` | PodBudgetProofs | `Spec => []Remembers`, `Spec => []EntryLifetime` |
| `AnswerStaysRight` | PodBudgetProofs | `Spec => []StillDue` |
| `BudgetAndSleeps`, `SleepsAndOut` | PodBudgetProofs | `Spec => []HeldBounded`, `Spec => []DrainBounded` |
| `StartupTypes` | StartupProofs | `Spec => []TypeOK` |
| `ConfigurationWorks` | StartupProofs | `Spec => []WorksAsConfigured` |
| `ValidatedFirst` | StartupProofs | `Spec => []ValidatedBeforeContact` |
| `WholeSchema` | StartupProofs | `Spec => []SchemaBeforeWork` |

**Reconciler.** `TypeOK` is not inductive: `errs` stays below 3 only because of where the increments are. `TypeInv`
adds what a worker holds at each step (`WorkerOK`), that a pod is found under its own name (`NamesOK`), and that no
worker runs outside running, draining and stopping (`LifeOK`). `OneWorkerPerPod` needs the queue: the lemmas at the start of `ReconcilerProofs` show that each
operation, called as its contract says, keeps `QueueIsDirtyAndFree` (the sequence has no repetitions and is exactly the
dirty keys nobody processes), and `HeldIsProcessing` ties `processing` to the workers. So `Get` can only give a key nobody
holds. `StillUnprocessed` rests on it: a UID is marked by the worker that holds its key only, as its last
step with the pod. The refinement then is a case per step: the guard `u \notin settled` of `Collection` is
`StillUnprocessed` at the export, and, for what a killed process may have sent, at `Restart`. A late batch meets no guard at all: it may come for a settled pod,
and only what is `coming` may, all of which is excused (`CollectionInv`). The invariants of `Collection` are proved in twenty lines and come back through the
refinement mapping. `NoPodForgotten` is inductive together with `MarksAgree` (what the program holds for processed was marked): a lemma about the workers, `WorkerPasses`, says that each step
of one either keeps the key in its hands with the same pod, puts it into the delay heap, or ends where nothing was to do; every other step
only adds to the places where a key waits. `LimiterForgets` needs that a key whose failure is counted
is held by a worker or waits for its retry (`Remembered`), `LabelledBeforeStored` that each worker past the labels has labelled the node
of the pod it holds, and that what is in flight was sent from there (`Labelled`). `LastOneLeavesNothing` is
strengthened by `Staffed`: no worker leaves an open queue, and somebody is there as long as a key is dirty. A worker that leaves found the queue
empty, so by `QueueIsDirtyAndFree` a dirty key is one that another worker holds, and that one is still there to take it up after `Done`. This needs a worker to begin with
(`Workers # {}` in `ConstantsOK`, `option.go:149`).

**Replicas.** `AtMostOneLeader` is strengthened by `LeaderHolds`: a leader is named by the lease, and no other process has seen
its record for longer than the leader has gone without renewing it. Another process could take the lease only at age
`LeaseDuration`, so the leader would have been idle for as long; it gives up after `RetryPeriod + RenewDeadline`. This is
where `Punctual` comes in, an assumption of the theorem and not of the module: `Validate` (`option.go:199`) does not demand
it, and with, say, 12, 10, 4 seconds it is false. The defaults satisfy it (2 + 10 < 15). It also rests on a discrete clock that is the same for all and on a leader
that acts when its patience is over, as `Tick` demands. `ZeroMeansTold` is strengthened by `LeavesForAReason`, `AloneFinishesFirst` by `AloneOrElected`: a process whose elector is off has no controller except
where Run calls it directly.

**Exporters.** The invariant has, besides the two properties: a worker is at a step of the backend in use (`StepsOfKind`);
a call in progress is one worker's, unanswered, and has written exactly what is no longer `left` on stdout, nothing
elsewhere (`InProgress`); calls to come have left nothing (`StillToCome`); a record lies under the key of its call
(`Placed`), without which a replaced object could take part of a batch with it. `CallEnds` gathers what every return of
`Export` has in common. `ConnectionsReturned` is about a cardinality: beginning a transaction adds one worker to the set of
those in one (`InTransaction`), each way out removes it, and nothing else touches set or counter. A set must be finite to be counted
(`Writers`, in `ExportersOK`).

A request that is under way for nobody (`UnderWay`) belongs to a call that had nothing stored and was no success, so that its late arrival completes
one batch and repeats none. `TakenIs` says what taking a batch does to every other: in S3 those of the same key go, and since records lie under the
key of their call they go whole. On these two the refinement rests: nothing of a call that is asked for or under way is there, but the printed
lines of stdout (`AskedIsPending`); the arrival of a request then adds its call to `Whole` and takes out those in its place (`BatchIsTaken`), and one lemma per
kind of step maps it: `Export` to `Give`, the last line printed and `Arrive` to `Take`, a request to `TakeAndTell` or `Fail`, a kill to `Die`, and the steps inside a
transaction to none.

**NodeLabels.** `ForeignOK` says that no other controller uses the program's keys. What a worker wants to write comes from its listing (`Wants`), so
the patch neither sets nor deletes another's key, whatever was read before: `ForeignKept` holds for any number of workers. `OneReading` does not,
as `mixed` shows. With one worker per node (`OneWriter`) it does: between read and patch only others write, so the prefixed keys that were read are
those the node has (`UpToWriter`), and the patch leaves exactly the wanted ones.

What they write is the other half, and pure. Sorted, a unit stands where its rank says (`SortPlaces`: as many units before it as have a smaller chassis), and
its GPUs likewise, so the keys of the writes are those of the ranks. Ranks tell units apart (`RankOrders`), as do the prefixes, because at most one unit has no
serial (`ListingsOK`): no key is written twice (`WrittenOnce`), so the order of the writes decides nothing, and `LabelsFollow`. `ReadingKept` needs the same of
`LabelsOf`: a key names one GPU. Nothing here is an induction over data: the sort is defined by its result, a permutation in ascending order, and
`SortExists` takes it from the ranks, which number a finite set.

**PodBudget.** The invariant has one part per question. `EntryIsLastAdd`: an entry that still counts is the last `Add`, so a sweep only takes what
counts no more. `Knows`: the worker that has read an entry knows when its pod was last marked, and while it works on the pod nobody else marks it, since
it is the only one that holds it (`OneHolder`). `Spent`: at the i-th try no more has passed beyond the budget, or since the cancellation, than the sleeps before it
(`Slept[i]`); a sleep adds its own length and no more. The bounds follow for any budget, any number of tries and any doubling delays.

**Startup.** `Passed` says which checks lie behind each place: the parsers, `Validate`, the backend's `Validate`, client and selector, the elector. A
process at work is behind all of them, and together they imply what its parts ask for (`WorksAsConfigured`); `Validate` alone does not, see
[below](#where-code-and-documents-differ). One at the database is behind the first three only, so `ValidatedBeforeContact` claims no more. `Applied` says that every statement before the current one is done: a statement may be skipped
only because somebody has done it, and nobody undoes one. A step of one process leaves the others' places alone and only adds to the schema (`Others`), so
each proof is about one process.

**Only model-checked:** liveness (`EventuallySettled`, `ShutdownCompletes`, `FailoverHappens`, `WorkerComesBack`, `StartsAgain`): fairness and
`ENABLED` are out of the prover's reach. Every invariant and action property and both refinements that a passing run checks are theorems too. Those that a violation run
refutes are false of the code, and `OneReading` is proved for one worker per node only.

## Where code and documents differ

Shown by a run:

1. `observed`: exec names the pod, not its UID (`gpu/gpu.go:89`). A pod replaced on another node in between answers, and
   record and labels go to the old node. `src/README.md:242` says "Kubernetes node name where the GPU was observed".
2. `overlap`: the lease is released before the lease context is cancelled, and the old workers drain after that
   (`service.go:176`): the trace is a leader that has listed and started its workers, is signalled, releases, and is followed by the other while it drains. `src/README.md:30`: "only one replica reconciles at a time". That the process does not wait for them either is the default case of the
   select at `service.go:211-215`, whose comment says it does.
3. `mixed`: the labels to delete are those of the earlier read (`label.go:167`); `label.go:139` says the patch avoids the race
   entirely. It does for others' labels (`ForeignKept`), not for two writers of gpuid's own.
4. `collision`: the S3 key is the millisecond (`s3/exporter.go:170`); `src/README.md:126`: one object per batch.

Seen while modelling and part of a module, without a run of their own:

* Records without chassis are skipped (`runner/export.go:159`) and the pod is marked (`dropped` in `Reconciler`); `src/README.md:245` promises
  `unknown`. The default of `postgres/exporter.go:158` is never reached.
* After a term as leader `runErr` is read without synchronisation (`service.go:211-217`): the process may end with 0 although its controller
  fails a moment later (`LeaveElection` of `Replicas`).
* `setter.go:9-11` calls the exporters idempotent. After a lost answer a batch is stored again, in S3 under a new key, in
  postgres with another `read_time`, which is part of the unique constraint. `RepeatedOnlyWithCause` has this as a cause.
* An execution with an empty identifier increments the failure counter twice (`worker.go:189`, `:199`), whose help text
  speaks of failed executions (`worker.go:24`). `errs \in 0 .. 2` in `TypeOK` says so.
* `TIMEOUT` is the "Per-pod processing budget" (`src/README.md:345`, `worker.go:135`). The sleeps between the label tries, 2 + 4 + 8 + 16 seconds, do not look at the
  pod's context: a worker may be held, and a drain may last, for the sleeps beyond it. `HeldBounded` and `DrainBounded` say how long. A
  Forbidden patch is not tried again there but comes back to `do` as a transient error.
* `Validate` accepts timings that `NewLeaderElector` refuses (it wants `renew > 1.2 * retry`, `option.go:198-199` only `renew > retry`): the process serves its probes for the ten
  seconds that Run waits for the server, then exits with 2 (`Elect`, `Drain`).
* `Init` pings the database and creates tables (`service.go:77`) before the client (`:90`), the label selector (`:98`) and the elector (`:174`) are tried:
  a configuration that these refuse has done both by then, and does the first again at each restart. `ValidatedBeforeContact` leaves them out, and `startup` has such environments.
* `src/README.md:335`: typed values "fail-fast on parse errors instead of silently falling back to defaults". The backends fall back: `POSTGRES_PORT` (`postgres/exporter.go:314`) and
  `HTTP_TIMEOUT` (`http/exporter.go:185`). The latter is "in seconds" for `http/exporter.go:65`, but `45` has no unit, is not parsed, and becomes 30 s. `OrDefault` has this.
* `QPS=NaN` passes `Validate` (`option.go:167`, `:176`): `RateValid`.
* `initializeSchema` is called idempotent (`src/README.md:267`). Two replicas that start together race: `IF NOT EXISTS` does not keep the loser from a duplicate key
  in the catalogue; its process exits with 2 and finds the table after its restart (`StartsAgain`).
* A server that fails at start is noticed at shutdown only (`ServerFailed`). `export.go:61` calls `/readyz` "the authoritative health gate", but it always answers 200
  (`server.go:98-104`) and nobody calls `Health`.

Seen while reading:

* A node without `providerID` is retried forever (`node.go:36`), although the field is optional in `src/README.md:243`.
* `Serve` returns when `Shutdown` begins, not when it has ended (`server.go:75-91`).
* The client's timeout of 30 s (`client.go:15`) is one of whole requests, watches included.
* `postgres/exporter.go:70` gives `gpu_serial_readings` as the default table; it is `gpu`.
* Two units without chassis serial would share label keys; nvidia-smi reports one text for all of them, so `Listings` has at most one.

## Not modelled

`pkg/logger`, `pkg/gpu/smi.go` and the commands have no state that decides anything, and the parser of `nvidia-smi` output is `encoding/xml`. `Health` of the backends is
never called. `POSTGRES_SSLMODE`, `S3_PREFIX`, `S3_PARTITION_PATTERN`, `HTTP_AUTH_TOKEN` and `LOG_LEVEL` are passed on
unchecked; the partition pattern only adds coarser parts of the same time to the key. Splitting `spec.providerID` (`node.go:44-102`) is pure text; its three outcomes are in
`Reconciler`. Label keys that start with the namespace but have no slash after it, which `label.go:168` would delete, are not
distinguished. Prometheus, HTTP handlers, log output and CSV layout are left out, and so are the lengths of jitter and rate limiter delays; only that they end.

## What is left

The components whose state changes are modelled. What a further step could be worth:

* a composition of `Replicas` with one backend: which repetitions the overlap of two leaders can cause. It needs the pods of
  `Reconciler` twice, and Reconciler alone has more than a million states.
