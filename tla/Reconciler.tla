------------------------------ MODULE Reconciler ------------------------------
(***************************************************************************)
(* One gpuid process: runController (pkg/runner/service.go), its workers   *)
(* (do and processPod, pkg/runner/worker.go), the informer that feeds the  *)
(* work queue, and the set of processed UIDs (pkg/runner/setter.go).  The  *)
(* API server, the GPUs behind exec and the export backend are the         *)
(* environment; a process may be killed and started again at any moment.   *)
(***************************************************************************)
EXTENDS WorkQueue

CONSTANTS
  UIDs,         \* pods over time: a UID is never used twice
  Nodes,        \* cluster nodes; a node also stands for the GPUs in it
  Workers,      \* worker goroutines (cmd.Workers)
  None,         \* no pod, no key, no reading
  PodOf,        \* [UIDs -> Keys]   namespace/name of a pod
  NodeOf,       \* [UIDs -> Nodes]  node of a pod
  Identifier,   \* [Nodes -> {"set", "empty", "missing"}]  from spec.providerID
  Chassis,      \* nodes whose GPUs report a chassis serial number
  Blank,        \* nodes where nvidia-smi may list no GPU (driver not up)
  Expires,      \* BOOLEAN: does the run outlast cacheTTL?
  Late,         \* BOOLEAN: may a batch arrive when nobody waits for it?
  MaxChurn,     \* bound on pods deleted or turning unready
  MaxFaults,    \* bound on failed calls before shutdown
  MaxRestarts   \* bound on restarts of the process

ASSUME ConstantsOK ==
  /\ None \notin Keys \cup UIDs \cup Nodes
  /\ Workers # {}               \* Validate refuses WORKERS < 1
  /\ PodOf \in [UIDs -> Keys]
  /\ NodeOf \in [UIDs -> Nodes]
  /\ Identifier \in [Nodes -> {"set", "empty", "missing"}]
  /\ Chassis \subseteq Nodes
  /\ Blank \subseteq Nodes
  /\ Expires \in BOOLEAN
  /\ Late \in BOOLEAN
  /\ MaxChurn \in Nat
  /\ MaxFaults \in Nat
  /\ MaxRestarts \in Nat

VARIABLES
  pod,        \* [Keys -> Pod]: the pods the API server holds
  used,       \* UIDs given out so far
  churn,      \* pods deleted or turned unready so far
  cache,      \* [Keys -> Pod]: the indexer's copy
  notify,     \* informer notifications the event handler has not seen yet
  listed,     \* the first List reached the indexer (HasSynced)
  phase,      \* where runController is
  ctxDone,    \* the controller's context is cancelled (signal, lost lease)
  processed,  \* unexpired UIDs of the processed set
  pc,         \* [Workers -> step of do and processPod]
  item,       \* [Workers -> key between Get and Done]
  obj,        \* [Workers -> UID of the pod object the worker holds]
  read,       \* [Workers -> node whose serial numbers exec returned]
  errs,       \* [Workers -> increments of counterErr in this execution]
  labels,     \* [Nodes -> node whose serial numbers its labels show]
  records,    \* what the backend stores
  flight,     \* what may come to the backend yet, with nobody waiting
  again,      \* UIDs the backend was given more than once
  excused,    \* UIDs that had a reason to be exported again
  marked,     \* UIDs this process has put into the processed set
  gpuless,    \* UIDs settled because the reading had no GPU
  dropped,    \* UIDs settled although no record of the reading was valid
  faults,     \* failed calls so far
  restarts    \* restarts so far

podVars      == <<pod, used, churn>>
informerVars == <<cache, notify, listed>>
lifeVars     == <<phase, ctxDone, restarts>>
workerVars   == <<pc, item, obj, read, errs>>
settledVars  == <<processed, marked, gpuless, dropped>>
storeVars    == <<records, flight, again, excused>>

vars == <<podVars, informerVars, lifeVars, workerVars, settledVars, storeVars,
          labels, faults, queueVars>>

NoPod == [uid |-> None, ready |-> FALSE]

Pod == [uid : UIDs, ready : BOOLEAN] \cup {NoPod}

Reading == [uid : UIDs, node : Nodes, gpus : Nodes]

Phases == {"starting", "running", "draining", "stopping", "returned"}

(* Steps of processPod, in order, for a pod the worker decided to export. *)
Pipeline == {"jitter", "exec", "label", "identify", "export"}

Steps == Pipeline \cup {"off", "get", "lookup", "done"}

Exists(p) == p.uid # None

Stored == {r.uid : r \in records}

Coming == {r.uid : r \in flight}

Init ==
  /\ pod = [k \in Keys |-> NoPod]
  /\ used = {}
  /\ churn = 0
  /\ cache = [k \in Keys |-> NoPod]
  /\ notify = {}
  /\ listed = FALSE
  /\ phase = "starting"
  /\ ctxDone = FALSE
  /\ processed = {}
  /\ pc = [w \in Workers |-> "off"]
  /\ item = [w \in Workers |-> None]
  /\ obj = [w \in Workers |-> None]
  /\ read = [w \in Workers |-> None]
  /\ errs = [w \in Workers |-> 0]
  /\ labels = [n \in Nodes |-> None]
  /\ records = {}
  /\ flight = {}
  /\ again = {}
  /\ excused = {}
  /\ marked = {}
  /\ gpuless = {}
  /\ dropped = {}
  /\ faults = 0
  /\ restarts = 0
  /\ EmptyQueue

-----------------------------------------------------------------------------
(* Pods come, become ready or unready, and go; a name may be used again by a *)
(* pod with another UID, on another node.                                    *)

CreatePod(u) ==
  /\ u \notin used
  /\ ~Exists(pod[PodOf[u]])
  /\ used' = used \cup {u}
  /\ pod' = [pod EXCEPT ![PodOf[u]] = [uid |-> u, ready |-> FALSE]]
  /\ UNCHANGED <<churn, informerVars, lifeVars, workerVars, settledVars, storeVars,
                 labels, faults, queueVars>>

BecomeReady(k) ==
  /\ Exists(pod[k])
  /\ ~pod[k].ready
  /\ pod' = [pod EXCEPT ![k].ready = TRUE]
  /\ UNCHANGED <<used, churn, informerVars, lifeVars, workerVars, settledVars,
                 storeVars, labels, faults, queueVars>>

Disturb(k, p) ==
  /\ churn < MaxChurn
  /\ churn' = churn + 1
  /\ pod' = [pod EXCEPT ![k] = p]
  /\ UNCHANGED <<used, informerVars, lifeVars, workerVars, settledVars,
                 storeVars, labels, faults, queueVars>>

BecomeUnready(k) ==
  /\ pod[k].ready
  /\ Disturb(k, [pod[k] EXCEPT !.ready = FALSE])

DeletePod(k) ==
  /\ Exists(pod[k])
  /\ Disturb(k, NoPod)

-----------------------------------------------------------------------------
(* The shared informer.  The handler drops a notification of a pod that is  *)
(* not ready and otherwise only uses its key, so the notifications still to *)
(* handle are a set of keys; Resync gives the same notification again.      *)
(* close(stopCh) stops all of it.                                           *)

InformerRuns == phase \in {"starting", "running", "draining"}

(* Keys of the notifications of ready pods among ks. *)
Notices(ks) == {k \in ks : pod[k].ready}

(* List and watch are requests made with the controller's context: a list    *)
(* comes before it is done; an event that came before may be applied later.  *)
List ==
  /\ InformerRuns
  /\ ~ctxDone
  /\ ~listed
  /\ listed' = TRUE
  /\ cache' = pod
  /\ notify' = Notices(Keys)
  /\ UNCHANGED <<podVars, lifeVars, workerVars, settledVars, storeVars, labels,
                 faults, queueVars>>

(* A deletion updates the indexer and has no handler: NoPod is not ready. *)
Watch(k) ==
  /\ InformerRuns
  /\ listed
  /\ cache[k] # pod[k]
  /\ cache' = [cache EXCEPT ![k] = pod[k]]
  /\ notify' = notify \cup Notices({k})
  /\ UNCHANGED <<podVars, listed, lifeVars, workerVars, settledVars, storeVars,
                 labels, faults, queueVars>>

Resync(k) ==
  /\ InformerRuns
  /\ listed
  /\ cache[k].ready
  /\ notify' = notify \cup {k}
  /\ UNCHANGED <<podVars, cache, listed, lifeVars, workerVars, settledVars,
                 storeVars, labels, faults, queueVars>>

(* enqueueIfReady *)
Handle(k) ==
  /\ InformerRuns
  /\ k \in notify
  /\ notify' = notify \ {k}
  /\ Add(k)
  /\ UNCHANGED <<podVars, cache, listed, lifeVars, workerVars, settledVars,
                 storeVars, labels, faults>>

-----------------------------------------------------------------------------
(* runController *)

StartWorkers ==
  /\ phase = "starting"
  /\ listed
  /\ phase' = "running"
  /\ pc' = [w \in Workers |-> "get"]
  /\ UNCHANGED <<podVars, informerVars, ctxDone, restarts, item, obj, read, errs,
                 settledVars, storeVars, labels, faults, queueVars>>

(* WaitForCacheSync gave up: runController returns an error. *)
SyncFailed ==
  /\ phase = "starting"
  /\ ctxDone
  /\ phase' = "returned"
  /\ ShutDown
  /\ UNCHANGED <<podVars, informerVars, ctxDone, restarts, workerVars,
                 settledVars, storeVars, labels, faults>>

Cancel ==
  /\ ~ctxDone
  /\ phase # "returned"
  /\ ctxDone' = TRUE
  /\ UNCHANGED <<podVars, informerVars, phase, restarts, workerVars, settledVars,
                 storeVars, labels, faults, queueVars>>

(* Mutant: the queue is not shut down. *)
StartDrainOpen ==
  /\ phase = "running"
  /\ ctxDone
  /\ phase' = "draining"
  /\ UNCHANGED <<podVars, informerVars, ctxDone, restarts, workerVars,
                 settledVars, storeVars, labels, faults, queueVars>>

(* <-ctx.Done() and the first half of ShutDownWithDrain *)
StartDrain ==
  /\ phase = "running"
  /\ ctxDone
  /\ phase' = "draining"
  /\ ShutDown
  /\ UNCHANGED <<podVars, informerVars, ctxDone, restarts, workerVars,
                 settledVars, storeVars, labels, faults>>

(* ShutDownWithDrain returns; close(stopCh) *)
StopInformer ==
  /\ phase = "draining"
  /\ Drained
  /\ phase' = "stopping"
  /\ UNCHANGED <<podVars, informerVars, ctxDone, restarts, workerVars,
                 settledVars, storeVars, labels, faults, queueVars>>

(* Mutant: the workers are not waited for. *)
ReturnEarly ==
  /\ phase = "stopping"
  /\ phase' = "returned"
  /\ UNCHANGED <<podVars, informerVars, ctxDone, restarts, workerVars,
                 settledVars, storeVars, labels, faults, queueVars>>

(* wg.Wait() *)
Return ==
  /\ phase = "stopping"
  /\ \A w \in Workers : pc[w] = "off"
  /\ phase' = "returned"
  /\ UNCHANGED <<podVars, informerVars, ctxDone, restarts, workerVars,
                 settledVars, storeVars, labels, faults, queueVars>>

HasIdentifier(w) == Identifier[NodeOf[obj[w]]] = "set"

Batch(w) == [uid |-> obj[w], node |-> NodeOf[obj[w]], gpus |-> read[w]]

(* What the workers may have sent before the process dies. *)
Sent ==
  {Batch(w) : w \in {v \in Workers :
                       Late /\ pc[v] = "export" /\ HasIdentifier(v) /\ read[v] \in Chassis}}

(* The process is killed, or it exited, and another one starts: everything   *)
(* it held in memory is gone, the node labels and the stored records stay,   *)
(* and what it sent may arrive yet.                                          *)
Restart ==
  /\ restarts < MaxRestarts
  /\ restarts' = restarts + 1
  /\ phase' = "starting"
  /\ ctxDone' = FALSE
  /\ cache' = [k \in Keys |-> NoPod]
  /\ notify' = {}
  /\ listed' = FALSE
  /\ pc' = [w \in Workers |-> "off"]
  /\ item' = [w \in Workers |-> None]
  /\ obj' = [w \in Workers |-> None]
  /\ read' = [w \in Workers |-> None]
  /\ errs' = [w \in Workers |-> 0]
  /\ processed' = {}
  /\ marked' = {}
  /\ \E S \in SUBSET Sent :
       /\ flight' = flight \cup S
       /\ excused' = excused \cup Stored \cup {r.uid : r \in S}
  /\ NewQueue
  /\ UNCHANGED <<podVars, gpuless, dropped, records, again, labels, faults>>

-----------------------------------------------------------------------------
(* do: the worker loop.  processPod's steps follow.                         *)

GetItem(w, k) ==
  /\ pc[w] = "get"
  /\ Get(k)
  /\ pc' = [pc EXCEPT ![w] = "lookup"]
  /\ item' = [item EXCEPT ![w] = k]
  /\ UNCHANGED <<podVars, informerVars, lifeVars, obj, read, errs, settledVars,
                 storeVars, labels, faults>>

(* Mutant: a worker leaves when the context is done. *)
WorkerExitAtOnce(w) ==
  /\ pc[w] = "get"
  /\ ctxDone
  /\ pc' = [pc EXCEPT ![w] = "off"]
  /\ UNCHANGED <<podVars, informerVars, lifeVars, item, obj, read, errs,
                 settledVars, storeVars, labels, faults, queueVars>>

WorkerExit(w) ==
  /\ pc[w] = "get"
  /\ NothingLeft
  /\ pc' = [pc EXCEPT ![w] = "off"]
  /\ UNCHANGED <<podVars, informerVars, lifeVars, item, obj, read, errs,
                 settledVars, storeVars, labels, faults, queueVars>>

(* Mutant: the rate limiter is not told. *)
GiveUpRemembering(w) ==
  /\ pc' = [pc EXCEPT ![w] = "done"]
  /\ UNCHANGED queueVars

(* processPod returned nil or an error that is not transient. *)
GiveUp(w) ==
  /\ pc' = [pc EXCEPT ![w] = "done"]
  /\ Forget(item[w])

(* Mutant: a transient error is treated as a permanent one. *)
RetryNever(w) ==
  /\ pc' = [pc EXCEPT ![w] = "done"]
  /\ Forget(item[w])

(* processPod returned a transient error. *)
Retry(w) ==
  /\ pc' = [pc EXCEPT ![w] = "done"]
  /\ AddRateLimited(item[w])

(* Mutant: the processed set is not asked. *)
NothingToDoIfAbsent(p) == ~Exists(p) \/ ~p.ready

(* The pod is gone, is not ready, or is already processed. *)
NothingToDo(p) == ~Exists(p) \/ ~p.ready \/ p.uid \in processed

Skip(w) ==
  /\ pc[w] = "lookup"
  /\ NothingToDo(cache[item[w]])
  /\ GiveUp(w)
  /\ UNCHANGED <<podVars, informerVars, lifeVars, item, obj, read, errs,
                 settledVars, storeVars, labels, faults>>

Accept(w) ==
  /\ pc[w] = "lookup"
  /\ ~NothingToDo(cache[item[w]])
  /\ obj' = [obj EXCEPT ![w] = cache[item[w]].uid]
  /\ pc' = [pc EXCEPT ![w] = "jitter"]
  /\ UNCHANGED <<podVars, informerVars, lifeVars, item, read, errs, settledVars,
                 storeVars, labels, faults, queueVars>>

(* select on time.After(jitter): both cases may be ready at once. *)
Jitter(w) ==
  /\ pc[w] = "jitter"
  /\ pc' = [pc EXCEPT ![w] = "exec"]
  /\ UNCHANGED <<podVars, informerVars, lifeVars, item, obj, read, errs,
                 settledVars, storeVars, labels, faults, queueVars>>

JitterCancelled(w) ==
  /\ pc[w] = "jitter"
  /\ ctxDone
  /\ GiveUp(w)
  /\ UNCHANGED <<podVars, informerVars, lifeVars, item, obj, read, errs,
                 settledVars, storeVars, labels, faults>>

(* A call may fail at any time, but only MaxFaults times before shutdown;  *)
(* once the context is cancelled every call fails or was already answered. *)
MayFail ==
  IF ctxDone THEN UNCHANGED faults
             ELSE faults < MaxFaults /\ faults' = faults + 1

Fail(w, n) ==
  /\ errs' = [errs EXCEPT ![w] = @ + n]
  /\ Retry(w)

Mark(u) ==
  /\ processed' = processed \cup {u}
  /\ marked' = marked \cup {u}

(* execShell names the pod, not its UID: the answer comes from the pod that *)
(* has the name now.                                                        *)
LivePod(w) == pod[item[w]]

(* Mutant: labelling is skipped. *)
ExecUnlabelled(w) ==
  /\ pc[w] = "exec"
  /\ Exists(LivePod(w))
  /\ read' = [read EXCEPT ![w] = NodeOf[LivePod(w).uid]]
  /\ pc' = [pc EXCEPT ![w] = "identify"]
  /\ UNCHANGED <<podVars, informerVars, lifeVars, item, obj, errs, settledVars,
                 storeVars, labels, faults, queueVars>>

Exec(w) ==
  /\ pc[w] = "exec"
  /\ Exists(LivePod(w))
  /\ read' = [read EXCEPT ![w] = NodeOf[LivePod(w).uid]]
  /\ pc' = [pc EXCEPT ![w] = "label"]
  /\ UNCHANGED <<podVars, informerVars, lifeVars, item, obj, errs, settledVars,
                 storeVars, labels, faults, queueVars>>

ExecNoGPU(w) ==
  /\ pc[w] = "exec"
  /\ Exists(LivePod(w))
  /\ NodeOf[LivePod(w).uid] \in Blank
  /\ Mark(obj[w])
  /\ gpuless' = gpuless \cup {obj[w]}
  /\ GiveUp(w)
  /\ UNCHANGED <<podVars, informerVars, lifeVars, item, obj, read, errs, dropped,
                 storeVars, labels, faults>>

ExecFailed(w) ==
  /\ pc[w] = "exec"
  /\ IF LivePod(w).ready THEN MayFail ELSE UNCHANGED faults
  /\ Fail(w, 1)
  /\ UNCHANGED <<podVars, informerVars, lifeVars, item, obj, read, settledVars,
                 storeVars, labels>>

(* node.EnsureLabels *)
Label(w) ==
  /\ pc[w] = "label"
  /\ labels' = [labels EXCEPT ![NodeOf[obj[w]]] = read[w]]
  /\ pc' = [pc EXCEPT ![w] = "identify"]
  /\ UNCHANGED <<podVars, informerVars, lifeVars, item, obj, read, errs,
                 settledVars, storeVars, faults, queueVars>>

(* The patch may have been applied although its answer was lost. *)
LabelFailed(w, applied) ==
  /\ pc[w] = "label"
  /\ MayFail
  /\ Fail(w, 1)
  /\ labels' = IF applied THEN [labels EXCEPT ![NodeOf[obj[w]]] = read[w]]
                          ELSE labels
  /\ UNCHANGED <<podVars, informerVars, lifeVars, item, obj, read, settledVars,
                 storeVars>>

(* node.GetNodeProviderID; an empty identifier is only counted and logged *)
Identify(w) ==
  /\ pc[w] = "identify"
  /\ Identifier[NodeOf[obj[w]]] # "missing"
  /\ errs' = IF Identifier[NodeOf[obj[w]]] = "empty"
             THEN [errs EXCEPT ![w] = @ + 1] ELSE errs
  /\ pc' = [pc EXCEPT ![w] = "export"]
  /\ UNCHANGED <<podVars, informerVars, lifeVars, item, obj, read, settledVars,
                 storeVars, labels, faults, queueVars>>

IdentifyFailed(w) ==
  /\ pc[w] = "identify"
  /\ IF Identifier[NodeOf[obj[w]]] = "missing" THEN UNCHANGED faults ELSE MayFail
  /\ Fail(w, 1)
  /\ UNCHANGED <<podVars, informerVars, lifeVars, item, obj, read, settledVars,
                 storeVars, labels>>

(* Exporter.Export *)
Store(r) ==
  /\ records' = records \cup {r}
  /\ again' = IF r.uid \in Stored THEN again \cup {r.uid} ELSE again

(* Mutant: an exported pod is not marked. *)
ExportUnmarked(w) ==
  /\ pc[w] = "export"
  /\ HasIdentifier(w)
  /\ read[w] \in Chassis
  /\ Store(Batch(w))
  /\ GiveUp(w)
  /\ UNCHANGED <<podVars, informerVars, lifeVars, item, obj, read, errs,
                 settledVars, flight, excused, labels, faults>>

Export(w) ==
  /\ pc[w] = "export"
  /\ HasIdentifier(w)
  /\ read[w] \in Chassis
  /\ Store(Batch(w))
  /\ Mark(obj[w])
  /\ GiveUp(w)
  /\ UNCHANGED <<podVars, informerVars, lifeVars, item, obj, read, errs, gpuless,
                 dropped, flight, excused, labels, faults>>

(* Every record of a reading without chassis is skipped: Export returns nil. *)
ExportNothing(w) ==
  /\ pc[w] = "export"
  /\ HasIdentifier(w)
  /\ read[w] \notin Chassis
  /\ Mark(obj[w])
  /\ dropped' = dropped \cup {obj[w]}
  /\ GiveUp(w)
  /\ UNCHANGED <<podVars, informerVars, lifeVars, item, obj, read, errs, gpuless,
                 storeVars, labels, faults>>

(* Mutant: a failed export is marked. *)
ExportFailedMarked(w) ==
  /\ pc[w] = "export"
  /\ MayFail
  /\ Mark(obj[w])
  /\ Fail(w, 1)
  /\ UNCHANGED <<podVars, informerVars, lifeVars, item, obj, read, gpuless,
                 dropped, storeVars, labels>>

(* Export refuses an empty node identifier, or the backend failed. *)
ExportFailed(w) ==
  /\ pc[w] = "export"
  /\ HasIdentifier(w) => read[w] \in Chassis
  /\ IF HasIdentifier(w) THEN MayFail ELSE UNCHANGED faults
  /\ Fail(w, 1)
  /\ UNCHANGED <<podVars, informerVars, lifeVars, item, obj, read, settledVars,
                 storeVars, labels>>

(* No answer: the backend has stored the batch, or it comes to it later. *)
ExportUnacknowledged(w) ==
  /\ pc[w] = "export"
  /\ HasIdentifier(w)
  /\ read[w] \in Chassis
  /\ MayFail
  /\ \/ Store(Batch(w)) /\ UNCHANGED flight
     \/ Late /\ flight' = flight \cup {Batch(w)} /\ UNCHANGED <<records, again>>
  /\ excused' = excused \cup {obj[w]}
  /\ Fail(w, 1)
  /\ UNCHANGED <<podVars, informerVars, lifeVars, item, obj, read, settledVars,
                 labels>>

(* Mutant: the count of one execution is carried into the next. *)
FinishCounting(w) ==
  /\ pc[w] = "done"
  /\ Done(item[w])
  /\ pc' = [pc EXCEPT ![w] = "get"]
  /\ item' = [item EXCEPT ![w] = None]
  /\ obj' = [obj EXCEPT ![w] = None]
  /\ read' = [read EXCEPT ![w] = None]
  /\ UNCHANGED <<podVars, informerVars, lifeVars, errs, settledVars, storeVars,
                 labels, faults>>

(* The deferred q.Done(key). *)
Finish(w) ==
  /\ pc[w] = "done"
  /\ Done(item[w])
  /\ pc' = [pc EXCEPT ![w] = "get"]
  /\ item' = [item EXCEPT ![w] = None]
  /\ obj' = [obj EXCEPT ![w] = None]
  /\ read' = [read EXCEPT ![w] = None]
  /\ errs' = [errs EXCEPT ![w] = 0]
  /\ UNCHANGED <<podVars, informerVars, lifeVars, settledVars, storeVars,
                 labels, faults>>

-----------------------------------------------------------------------------
(* Time. *)

RetryDelayOver(k) ==
  /\ phase # "returned"
  /\ DelayOver(k)
  /\ UNCHANGED <<podVars, informerVars, lifeVars, workerVars, settledVars,
                 storeVars, labels, faults>>

(* cacheTTL after its Add, Has denies a UID, swept or not. *)
Expire(u) ==
  /\ Expires
  /\ u \in processed
  /\ processed' = processed \ {u}
  /\ excused' = excused \cup {u}
  /\ UNCHANGED <<podVars, informerVars, lifeVars, workerVars, marked, gpuless,
                 dropped, records, flight, again, labels, faults, queueVars>>

(* A batch comes to the backend after its call has failed.                  *)
Arrive(r) ==
  /\ r \in flight
  /\ flight' = flight \ {r}
  /\ Store(r)
  /\ UNCHANGED <<podVars, informerVars, lifeVars, workerVars, settledVars, excused,
                 labels, faults, queueVars>>

-----------------------------------------------------------------------------
Environment ==
  \/ \E u \in UIDs : CreatePod(u) \/ Expire(u)
  \/ \E r \in flight : Arrive(r)
  \/ \E k \in Keys : BecomeReady(k) \/ BecomeUnready(k) \/ DeletePod(k) \/ Resync(k)
  \/ Cancel
  \/ Restart

Informer ==
  \/ List
  \/ \E k \in Keys : Watch(k) \/ Handle(k)

Controller == StartWorkers \/ SyncFailed \/ StartDrain \/ StopInformer \/ Return

ProcessPod(w) ==
  \/ Jitter(w) \/ JitterCancelled(w)
  \/ Exec(w) \/ ExecNoGPU(w) \/ ExecFailed(w)
  \/ Label(w) \/ \E applied \in BOOLEAN : LabelFailed(w, applied)
  \/ Identify(w) \/ IdentifyFailed(w)
  \/ Export(w) \/ ExportNothing(w) \/ ExportFailed(w) \/ ExportUnacknowledged(w)

Worker(w) ==
  \/ \E k \in Keys : GetItem(w, k)
  \/ WorkerExit(w)
  \/ Skip(w)
  \/ Accept(w)
  \/ ProcessPod(w)
  \/ Finish(w)

Next ==
  \/ Environment
  \/ Informer
  \/ Controller
  \/ \E w \in Workers : Worker(w)
  \/ \E k \in Keys : RetryDelayOver(k)

Spec == Init /\ [][Next]_vars

(* Goroutines are scheduled, timers fire, and the API server answers.  The  *)
(* list and the watch are made with the controller's context: nothing is    *)
(* promised of them once it is cancelled.                                   *)
Fairness ==
  /\ WF_vars(List)
  /\ \A k \in Keys : WF_vars(~ctxDone /\ Watch(k))
  /\ \A k \in Keys : WF_vars(Handle(k))
  /\ WF_vars(Controller)
  /\ \A w \in Workers : WF_vars(Worker(w))
  /\ \A k \in Keys : WF_vars(RetryDelayOver(k))

FairSpec == Spec /\ Fairness

-----------------------------------------------------------------------------
(* Every variable stays in its range; a worker counts at most two failures  *)
(* for one execution of processPod (worker.go:147-199).                     *)
TypeOK ==
  /\ pod \in [Keys -> Pod]
  /\ used \subseteq UIDs
  /\ churn \in 0 .. MaxChurn
  /\ cache \in [Keys -> Pod]
  /\ notify \subseteq Keys
  /\ listed \in BOOLEAN
  /\ phase \in Phases
  /\ ctxDone \in BOOLEAN
  /\ processed \subseteq UIDs
  /\ pc \in [Workers -> Steps]
  /\ item \in [Workers -> Keys \cup {None}]
  /\ obj \in [Workers -> UIDs \cup {None}]
  /\ read \in [Workers -> Nodes \cup {None}]
  /\ errs \in [Workers -> 0 .. 2]
  /\ labels \in [Nodes -> Nodes \cup {None}]
  /\ records \subseteq Reading
  /\ flight \subseteq Reading
  /\ again \subseteq UIDs
  /\ excused \subseteq UIDs
  /\ marked \subseteq UIDs
  /\ gpuless \subseteq UIDs
  /\ dropped \subseteq UIDs
  /\ faults \in 0 .. MaxFaults
  /\ restarts \in 0 .. MaxRestarts
  /\ QueueTypeOK

Busy(w) == pc[w] \in Pipeline \cup {"lookup", "done"}

(* Two workers never run processPod for the same pod, although a key is     *)
(* added again at any moment, by a notification, a resync or the end of a   *)
(* retry delay (worker.go:56-63, service.go:283).                           *)
OneWorkerPerPod ==
  \A v, w \in Workers : v # w /\ Busy(v) /\ Busy(w) => item[v] # item[w]

(* processed.Has is asked once, before the jitter; the answer is still true *)
(* at every later step up to the export (worker.go:122, 198): nobody else   *)
(* marks the UID in between.                                                *)
StillUnprocessed ==
  \A w \in Workers : pc[w] \in Pipeline => obj[w] \notin processed

(* A UID is in the processed set only when its reading is in the backend,   *)
(* or when there was nothing to send (worker.go:161, 212): marking never    *)
(* hides a pod that was not exported.                                       *)
MarkedMeansSettled == processed \subseteq Stored \cup gpuless \cup dropped

(* The backend is given the reading of one pod twice only if the first      *)
(* answer was lost, the UID expired, or the process was replaced            *)
(* (worker.go:121, setter.go:9-11).                                         *)
RepeatedOnlyWithCause == again \subseteq excused

(* Somebody is still going to look at the key: an unhandled notification,   *)
(* the queue, a retry delay, or a worker that has yet to read the indexer   *)
(* or already works on this very pod.                                       *)
Pending(k) ==
  \/ k \in notify \cup dirty \cup waiting
  \/ \E w \in Workers :
       /\ item[w] = k
       /\ \/ pc[w] = "lookup"
          \/ pc[w] \in Pipeline /\ obj[w] = cache[k].uid

(* Until shutdown, a ready pod in the indexer that this process has not     *)
(* marked is never forgotten by everybody: not when a failure, the handler  *)
(* and Done race, not when its name was taken over while a worker held the  *)
(* key (service.go:264-284, worker.go:62-101).                              *)
NoPodForgotten ==
  \A k \in Keys :
    /\ cache[k].ready
    /\ cache[k].uid \notin marked
    /\ ~ctxDone
    => Pending(k)

(* The rate limiter only remembers keys that are still going to be retried: *)
(* every other way out of do calls Forget (worker.go:67-100).               *)
LimiterForgets ==
  ~shuttingDown => limited \subseteq waiting \cup dirty \cup processing

(* The labels of a node are written before a record that names it is        *)
(* stored (worker.go:165, 198).                                             *)
LabelledBeforeStored == \A r \in records : labels[r.node] # None

(* Once runController has returned no worker holds a key or waits for a     *)
(* call (service.go:319-324).                                               *)
IdleWhenReturned ==
  phase = "returned" => processing = {} /\ \A w \in Workers : pc[w] = "off"

(* The drain leaves no key behind: the last worker goes when nothing is     *)
(* queued or held, and what a failing worker, a retry delay or the handler  *)
(* adds while the queue shuts down is not left for nobody (worker.go:54-63, *)
(* service.go:319-324).                                                     *)
LastOneLeavesNothing ==
  phase \in {"running", "draining", "stopping"} /\ (\A w \in Workers : pc[w] = "off") =>
    dirty = {} /\ processing = {}

(* A process implements Collection: whatever the interleaving of informer,  *)
(* queue and workers, a pod is exported only while unmarked and marked only *)
(* with its export (worker.go:106-222).                                     *)
Promise == INSTANCE Collection WITH
  delivered <- Stored, settled <- processed, barren <- gpuless \cup dropped,
  coming <- Coming

ImplementsCollection == Promise!Spec

-----------------------------------------------------------------------------
(* Parts of the inductive invariants. *)

(* What a worker holds at each step of do and processPod. *)
WorkerOK ==
  \A w \in Workers :
    /\ Busy(w) => item[w] \in Keys
    /\ pc[w] \in Pipeline => obj[w] \in UIDs /\ PodOf[obj[w]] = item[w]
    /\ pc[w] \in {"label", "identify", "export"} => read[w] \in Nodes
    /\ pc[w] \notin {"export", "done"} => errs[w] = 0
    /\ pc[w] = "export" => errs[w] \in 0 .. 1

(* A pod is found under its own name. *)
NamesOK ==
  \A k \in Keys :
    /\ Exists(pod[k]) => PodOf[pod[k].uid] = k
    /\ Exists(cache[k]) => PodOf[cache[k].uid] = k

(* No worker runs before StartWorkers and after Return, and only a          *)
(* cancelled context shuts the queue down.                                  *)
LifeOK ==
  /\ phase \in {"starting", "returned"} => \A w \in Workers : pc[w] = "off"
  /\ shuttingDown => ctxDone

(* The keys between Get and Done are the keys the workers hold. *)
HeldIsProcessing ==
  /\ \A w \in Workers : Busy(w) => item[w] \in processing
  /\ \A k \in processing : \E w \in Workers : Busy(w) /\ item[w] = k

-----------------------------------------------------------------------------
(* Liveness *)

Settled(u) == u \in Stored \cup gpuless \cup dropped

(* A pod that exists and is ready from some time on, on a node with an      *)
(* identifier, is settled eventually unless the controller is told to stop  *)
(* for good: retries, replaced workers and resyncs never starve it.         *)
StableReady(u) == pod[PodOf[u]] = [uid |-> u, ready |-> TRUE]

EventuallySettled ==
  \A u \in UIDs :
    Identifier[NodeOf[u]] = "set" =>
      (<>[](StableReady(u) /\ ~ctxDone) => <>Settled(u))

(* A cancelled controller returns, whatever its workers were doing.         *)
ShutdownCompletes == ctxDone ~> (phase = "returned" \/ ~ctxDone)

-----------------------------------------------------------------------------
(* What the repository says and the code does not do. *)

(* The node of a record is "Kubernetes node name where the GPU was          *)
(* observed" (README.md:242).                                               *)
NodeIsWhereObserved == \A r \in records : r.node = r.gpus
==============================================================================
