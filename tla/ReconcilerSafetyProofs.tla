------------------------ MODULE ReconcilerSafetyProofs ------------------------
(***************************************************************************)
(* Proofs of the safety of Reconciler: one worker per pod, the check of    *)
(* the processed set still valid at the export, no repeated export without *)
(* a cause, a drain that leaves no key, an idle process after              *)
(* runController.                                                          *)
(***************************************************************************)
EXTENDS ReconcilerProofs

-----------------------------------------------------------------------------
(* What the steps do to the queue. *)

(* Between Get and Done a worker keeps its key, and processing is left      *)
(* alone.                                                                   *)
Inside(w) ==
  /\ UNCHANGED <<item, processing>>
  /\ pc'[w] # "lookup"
  /\ \/ Busy(w) /\ Busy(w)'
     \/ ~Busy(w) /\ ~Busy(w)'

LEMMA WorkerKinds ==
  ASSUME TypeInv, NEW w \in Workers, Worker(w)
  PROVE  (\E k \in Keys : GetItem(w, k)) \/ Finish(w) \/ Inside(w)
  <1>a. pc \in [Workers -> Steps]
    BY DEF TypeInv, TypeOK
  <1> USE <1>a DEF Inside, Busy, Pipeline
  <1>1. CASE WorkerExit(w)
    BY <1>1 DEF WorkerExit, queueVars, workerVars
  <1>2. CASE Skip(w)
    BY <1>2 DEF Skip, GiveUp, Forget, queueVars, workerVars
  <1>3. CASE Accept(w)
    BY <1>3 DEF Accept, queueVars, workerVars
  <1>4. CASE Jitter(w)
    BY <1>4 DEF Jitter, queueVars, workerVars
  <1>5. CASE JitterCancelled(w)
    BY <1>5 DEF JitterCancelled, GiveUp, Forget, queueVars, workerVars
  <1>6. CASE Exec(w)
    BY <1>6 DEF Exec, queueVars, workerVars
  <1>7. CASE ExecNoGPU(w)
    BY <1>7 DEF ExecNoGPU, GiveUp, Forget, queueVars, workerVars
  <1>8. CASE ExecFailed(w)
    BY <1>8 DEF ExecFailed, Fail, Retry, AddRateLimited, queueVars, workerVars
  <1>9. CASE Label(w)
    BY <1>9 DEF Label, queueVars, workerVars
  <1>10. CASE \E applied \in BOOLEAN : LabelFailed(w, applied)
    BY <1>10 DEF LabelFailed, Fail, Retry, AddRateLimited, queueVars,
       workerVars
  <1>11. CASE Identify(w)
    BY <1>11 DEF Identify, queueVars, workerVars
  <1>12. CASE IdentifyFailed(w)
    BY <1>12 DEF IdentifyFailed, Fail, Retry, AddRateLimited, queueVars,
       workerVars
  <1>13. CASE Export(w)
    BY <1>13 DEF Export, GiveUp, Forget, queueVars, workerVars
  <1>14. CASE ExportNothing(w)
    BY <1>14 DEF ExportNothing, GiveUp, Forget, queueVars, workerVars
  <1>15. CASE ExportFailed(w)
    BY <1>15 DEF ExportFailed, Fail, Retry, AddRateLimited, queueVars,
       workerVars
  <1>16. CASE ExportUnacknowledged(w)
    BY <1>16 DEF ExportUnacknowledged, Fail, Retry, AddRateLimited, queueVars,
       workerVars
  <1> QED
    BY <1>1, <1>2, <1>3, <1>4, <1>5, <1>6, <1>7, <1>8, <1>9, <1>10, <1>11,
       <1>12, <1>13, <1>14, <1>15, <1>16 DEF Worker, ProcessPod

(* Every step makes at most one call on the queue, on a key, and Done only  *)
(* on a key that is being processed.                                        *)
QueueStep ==
  NewQueue \/ ShutDown \/ UNCHANGED queueVars \/ \E k \in Keys : ProperCall(k)

LEMMA NextQueueStep ==
  ASSUME TypeInv, HeldIsProcessing, [Next]_vars
  PROVE  QueueStep
  <1>1. CASE Environment
    BY <1>1 DEF QueueStep, Environment, CreatePod, Expire, BecomeReady,
       BecomeUnready, DeletePod, Disturb, Resync, Cancel, Arrive, Restart
  <1>2. CASE Informer
    BY <1>2 DEF QueueStep, ProperCall, Informer, List, Watch, Handle
  <1>3. CASE Controller
    BY <1>3 DEF QueueStep, Controller, StartWorkers, SyncFailed, StartDrain,
       StopInformer, Return
  <1>4. ASSUME NEW w \in Workers, Worker(w) PROVE QueueStep
    <2>a. Busy(w) => item[w] \in Keys /\ item[w] \in processing
      BY DEF TypeInv, WorkerOK, HeldIsProcessing
    <2>1. CASE \E k \in Keys : GetItem(w, k)
      BY <2>1 DEF ProperCall, QueueStep, GetItem
    <2>2. CASE WorkerExit(w)
      BY <2>2 DEF QueueStep, WorkerExit
    <2>3. CASE Skip(w)
      BY <2>3, <2>a DEF Busy, Pipeline, ProperCall, QueueStep, Skip, GiveUp
    <2>4. CASE Accept(w)
      BY <2>4 DEF QueueStep, Accept
    <2>5. CASE Jitter(w)
      BY <2>5 DEF QueueStep, Jitter
    <2>6. CASE JitterCancelled(w)
      BY <2>6, <2>a DEF Busy, Pipeline, ProperCall, QueueStep,
         JitterCancelled, GiveUp
    <2>7. CASE Exec(w)
      BY <2>7 DEF QueueStep, Exec
    <2>8. CASE ExecNoGPU(w)
      BY <2>8, <2>a DEF Busy, Pipeline, ProperCall, QueueStep, ExecNoGPU,
         GiveUp
    <2>9. CASE ExecFailed(w)
      BY <2>9, <2>a DEF Busy, Pipeline, ProperCall, QueueStep, ExecFailed,
         Fail, Retry
    <2>10. CASE Label(w)
      BY <2>10 DEF QueueStep, Label
    <2>11. CASE \E applied \in BOOLEAN : LabelFailed(w, applied)
      BY <2>11, <2>a DEF Busy, Pipeline, ProperCall, QueueStep, LabelFailed,
         Fail, Retry
    <2>12. CASE Identify(w)
      BY <2>12 DEF QueueStep, Identify
    <2>13. CASE IdentifyFailed(w)
      BY <2>13, <2>a DEF Busy, Pipeline, ProperCall, QueueStep,
         IdentifyFailed, Fail, Retry
    <2>14. CASE Export(w)
      BY <2>14, <2>a DEF Busy, Pipeline, ProperCall, QueueStep, Export, GiveUp
    <2>15. CASE ExportNothing(w)
      BY <2>15, <2>a DEF Busy, Pipeline, ProperCall, QueueStep, ExportNothing,
         GiveUp
    <2>16. CASE ExportFailed(w)
      BY <2>16, <2>a DEF Busy, Pipeline, ProperCall, QueueStep, ExportFailed,
         Fail, Retry
    <2>17. CASE ExportUnacknowledged(w)
      BY <2>17, <2>a DEF Busy, Pipeline, ProperCall, QueueStep,
         ExportUnacknowledged, Fail, Retry
    <2>18. CASE Finish(w)
      BY <2>18, <2>a DEF Busy, Pipeline, ProperCall, QueueStep, Finish
    <2> QED
      BY <1>4, <2>1, <2>2, <2>3, <2>4, <2>5, <2>6, <2>7, <2>8, <2>9, <2>10,
         <2>11, <2>12, <2>13, <2>14, <2>15, <2>16, <2>17, <2>18 DEF Worker,
         ProcessPod
  <1>5. CASE \E k \in Keys : RetryDelayOver(k)
    BY <1>5 DEF QueueStep, ProperCall, RetryDelayOver
  <1>6. CASE UNCHANGED vars
    BY <1>6 DEF QueueStep, vars
  <1> QED
    BY <1>1, <1>2, <1>3, <1>4, <1>5, <1>6 DEF Next

LEMMA NextKeepsQueue ==
  ASSUME TypeInv, HeldIsProcessing, QueueIsDirtyAndFree, [Next]_vars
  PROVE  QueueIsDirtyAndFree'
  <1>1. CASE NewQueue
    BY <1>1 DEF NewQueue, QueueIsDirtyAndFree
  <1>2. CASE ShutDown \/ UNCHANGED queueVars
    BY <1>2 DEF ShutDown, queueVars, QueueIsDirtyAndFree
  <1>3. QueueTypeOK
    BY DEF TypeInv, TypeOK
  <1>4. CASE \E k \in Keys : ProperCall(k)
    BY <1>3, <1>4, ProperCallKeepsQueue
  <1> QED
    BY <1>1, <1>2, <1>4, NextQueueStep DEF QueueStep

-----------------------------------------------------------------------------
(* Who holds which key. *)

USE DEF podVars, informerVars, lifeVars, workerVars, settledVars, storeVars,
        queueVars

Holding == HeldIsProcessing /\ OneWorkerPerPod

HoldingInv == TypeInv /\ QueueIsDirtyAndFree /\ Holding

LEMMA InitHolding == Init => QueueIsDirtyAndFree /\ Holding
  <1> SUFFICES ASSUME Init PROVE QueueIsDirtyAndFree /\ Holding
    OBVIOUS
  <1>1. queue = <<>> /\ dirty = {} /\ processing = {} /\ \A w \in Workers : pc[w] = "off"
    BY DEF Init, EmptyQueue
  <1>2. QueueIsDirtyAndFree
    BY <1>1 DEF QueueIsDirtyAndFree
  <1> QED
    BY <1>1, <1>2 DEF Holding, HeldIsProcessing, OneWorkerPerPod, Busy, Pipeline

LEMMA HoldingUntouched ==
  ASSUME Holding, UNCHANGED <<pc, item, processing>>
  PROVE  Holding'
  BY DEF Holding, HeldIsProcessing, OneWorkerPerPod, Busy

(* With no worker busy and no key out there is nothing to show. *)
LEMMA HoldingNothing ==
  ASSUME processing' = {}, \A w \in Workers : pc'[w] \in {"off", "get"}
  PROVE  Holding'
  BY DEF Holding, HeldIsProcessing, OneWorkerPerPod, Busy, Pipeline

LEMMA WorkerHolding ==
  ASSUME HoldingInv, NEW w \in Workers, Worker(w)
  PROVE  Holding'
  <1> USE DEF HoldingInv, Holding, HeldIsProcessing, OneWorkerPerPod
  <1>a. /\ pc \in [Workers -> Steps]
        /\ item \in [Workers -> Keys \cup {None}]
        /\ QueueTypeOK
    BY DEF TypeInv, TypeOK
  <1>b. \A v \in Workers \ {w} : (Busy(v)' <=> Busy(v)) /\ item'[v] = item[v]
    BY WorkerHasFrame DEF WorkerFrame, Busy, TypeInv
  <1>1. ASSUME NEW k \in Keys, GetItem(w, k) PROVE Holding'
    <2>1. k \notin processing /\ processing' = processing \cup {k}
      BY <1>1, <1>a, GetKeepsQueue DEF GetItem, Get
    <2>2. ~Busy(w) /\ Busy(w)' /\ item'[w] = k
      BY <1>1, <1>a DEF GetItem, Busy, Pipeline
    <2>3. \A v \in Workers \ {w} : Busy(v)' => item'[v] # k
      BY <1>b, <2>1
    <2> QED
      BY <1>b, <2>1, <2>2, <2>3
  <1>2. CASE Finish(w)
    <2>1. Busy(w) /\ ~Busy(w)' /\ processing' = processing \ {item[w]}
      BY <1>2, <1>a DEF Finish, Done, Busy, Pipeline
    <2>2. \A v \in Workers \ {w} : Busy(v)' => item'[v] # item[w]
      BY <1>b, <2>1
    <2> QED
      BY <1>b, <2>1, <2>2
  <1>3. CASE Inside(w)
    BY <1>3, <1>b DEF Inside
  <1> QED
    BY <1>1, <1>2, <1>3, WorkerKinds

LEMMA NextHolding ==
  ASSUME HoldingInv, [Next]_vars
  PROVE  Holding'
  <1>a. HoldingInv => Holding
    BY DEF HoldingInv
  <1>1. CASE Environment
    <2>1. CASE Restart
      BY <2>1, HoldingNothing DEF Restart, NewQueue
    <2>2. CASE UNCHANGED <<pc, item, processing>>
      BY <1>a, <2>2, HoldingUntouched
    <2> QED
      BY <1>1, <2>1, <2>2 DEF Environment, CreatePod, Expire, BecomeReady,
         BecomeUnready, DeletePod, Disturb, Resync, Cancel, Arrive
  <1>2. CASE Informer
    BY <1>2, <1>a, HoldingUntouched DEF Informer, List, Watch, Handle, Add
  <1>3. CASE Controller
    <2>1. CASE StartWorkers
      <3>1. \A w \in Workers : pc[w] = "off" /\ pc'[w] = "get"
        BY <2>1 DEF StartWorkers, HoldingInv, TypeInv, LifeOK
      <3>2. processing' = {}
        BY <2>1, <3>1 DEF StartWorkers, HoldingInv, Holding, HeldIsProcessing,
           Busy, Pipeline
      <3> QED
        BY <3>1, <3>2, HoldingNothing
    <2>2. CASE SyncFailed \/ StartDrain \/ StopInformer \/ Return
      BY <2>2, <1>a, HoldingUntouched DEF SyncFailed, StartDrain, StopInformer,
         Return, ShutDown
    <2> QED
      BY <1>3, <2>1, <2>2 DEF Controller
  <1>4. CASE \E w \in Workers : Worker(w)
    BY <1>4, WorkerHolding
  <1>5. CASE \E k \in Keys : RetryDelayOver(k)
    BY <1>5, <1>a, HoldingUntouched DEF RetryDelayOver, DelayOver
  <1>6. CASE UNCHANGED vars
    BY <1>6, <1>a, HoldingUntouched DEF vars
  <1> QED
    BY <1>1, <1>2, <1>3, <1>4, <1>5, <1>6 DEF Next

LEMMA HoldingInvariant == Spec => []HoldingInv
  <1>1. Init => HoldingInv
    BY InitTypeInv, InitHolding DEF HoldingInv
  <1>2. HoldingInv /\ [Next]_vars => HoldingInv'
    BY NextTypeInv, NextHolding, NextKeepsQueue DEF HoldingInv, Holding
  <1> QED
    BY <1>1, <1>2, PTL DEF Spec

(* Two workers never process the same pod. *)
THEOREM OneWorker == Spec => []OneWorkerPerPod
  <1>1. HoldingInv => OneWorkerPerPod
    BY DEF HoldingInv, Holding
  <1> QED
    BY <1>1, HoldingInvariant, PTL

(* After runController returned, no key is held and no worker runs. *)
THEOREM Idle == Spec => []IdleWhenReturned
  <1>1. HoldingInv => IdleWhenReturned
    BY DEF HoldingInv, TypeInv, LifeOK, Holding, HeldIsProcessing, IdleWhenReturned,
       Busy, Pipeline
  <1> QED
    BY <1>1, HoldingInvariant, PTL

-----------------------------------------------------------------------------
(* The answer of processed.Has stays true. *)

(* A worker marks the pod it holds, as the last thing it does with it, and  *)
(* takes up a pod only while it is not marked.                              *)
Marking(w) ==
  /\ \/ processed' = processed
     \/ /\ pc[w] \in Pipeline
        /\ pc'[w] = "done"
        /\ processed' = processed \cup {obj[w]}
  /\ pc'[w] \in Pipeline =>
       \/ pc[w] \in Pipeline /\ obj'[w] = obj[w]
       \/ obj'[w] \notin processed /\ processed' = processed

LEMMA WorkerMarks ==
  ASSUME TypeInv, NEW w \in Workers, Worker(w)
  PROVE  Marking(w)
  <1>a. pc \in [Workers -> Steps] /\ obj \in [Workers -> UIDs \cup {None}]
    BY DEF TypeInv, TypeOK
  <1> USE <1>a DEF Marking, Pipeline
  <1>1. CASE \E k \in Keys : GetItem(w, k)
    BY <1>1 DEF GetItem
  <1>2. CASE WorkerExit(w)
    BY <1>2 DEF WorkerExit
  <1>3. CASE Skip(w)
    BY <1>3 DEF Skip, GiveUp
  <1>4. CASE Accept(w)
    BY <1>4 DEF Accept, NothingToDo
  <1>5. CASE Jitter(w)
    BY <1>5 DEF Jitter
  <1>6. CASE JitterCancelled(w)
    BY <1>6 DEF JitterCancelled, GiveUp
  <1>7. CASE Exec(w)
    BY <1>7 DEF Exec
  <1>8. CASE ExecNoGPU(w)
    BY <1>8 DEF ExecNoGPU, GiveUp, Mark
  <1>9. CASE ExecFailed(w)
    BY <1>9 DEF ExecFailed, Fail, Retry
  <1>10. CASE Label(w)
    BY <1>10 DEF Label
  <1>11. CASE \E applied \in BOOLEAN : LabelFailed(w, applied)
    BY <1>11 DEF LabelFailed, Fail, Retry
  <1>12. CASE Identify(w)
    BY <1>12 DEF Identify
  <1>13. CASE IdentifyFailed(w)
    BY <1>13 DEF IdentifyFailed, Fail, Retry
  <1>14. CASE Export(w)
    BY <1>14 DEF Export, GiveUp, Mark
  <1>15. CASE ExportNothing(w)
    BY <1>15 DEF ExportNothing, GiveUp, Mark
  <1>16. CASE ExportFailed(w)
    BY <1>16 DEF ExportFailed, Fail, Retry
  <1>17. CASE ExportUnacknowledged(w)
    BY <1>17 DEF ExportUnacknowledged, Fail, Retry
  <1>18. CASE Finish(w)
    BY <1>18 DEF Finish
  <1> QED
    BY <1>1, <1>2, <1>3, <1>4, <1>5, <1>6, <1>7, <1>8, <1>9, <1>10, <1>11,
       <1>12, <1>13, <1>14, <1>15, <1>16, <1>17, <1>18 DEF Worker, ProcessPod

UnprocessedInv == HoldingInv /\ StillUnprocessed

LEMMA UnprocessedUntouched ==
  ASSUME StillUnprocessed, UNCHANGED <<pc, obj>>, processed' \subseteq processed
  PROVE  StillUnprocessed'
  BY DEF StillUnprocessed

LEMMA WorkerUnprocessed ==
  ASSUME UnprocessedInv, NEW w \in Workers, Worker(w)
  PROVE  StillUnprocessed'
  <1> USE DEF StillUnprocessed
  <1>a. TypeInv /\ OneWorkerPerPod /\ StillUnprocessed
    BY DEF UnprocessedInv, HoldingInv, Holding
  <1>b. Marking(w)
    BY <1>a, WorkerMarks
  <1>c. \A v \in Workers \ {w} : pc'[v] = pc[v] /\ obj'[v] = obj[v]
    BY <1>a, WorkerHasFrame DEF TypeInv, WorkerFrame
  <1>1. pc'[w] \in Pipeline => obj'[w] \notin processed'
    BY <1>a, <1>b DEF Marking, Pipeline
  <1>2. ASSUME NEW v \in Workers \ {w}, pc'[v] \in Pipeline
        PROVE  obj'[v] \notin processed'
    <2>1. pc[v] \in Pipeline /\ obj[v] \notin processed /\ obj'[v] = obj[v]
      BY <1>a, <1>c, <1>2
    <2>2. pc[w] \in Pipeline => obj[v] # obj[w]
      <3> SUFFICES ASSUME pc[w] \in Pipeline PROVE obj[v] # obj[w]
        OBVIOUS
      <3>1. item[v] # item[w]
        BY <1>a, <2>1 DEF OneWorkerPerPod, Busy
      <3>2. PodOf[obj[v]] = item[v] /\ PodOf[obj[w]] = item[w]
        BY <1>a, <2>1 DEF TypeInv, WorkerOK
      <3> QED
        BY <3>1, <3>2
    <2> QED
      BY <1>b, <2>1, <2>2 DEF Marking
  <1> QED
    BY <1>1, <1>2

LEMMA NextUnprocessed ==
  ASSUME UnprocessedInv, [Next]_vars
  PROVE  StillUnprocessed'
  <1>a. StillUnprocessed
    BY DEF UnprocessedInv
  <1>1. CASE Environment
    <2>1. CASE Restart
      BY <2>1 DEF Restart, StillUnprocessed
    <2>2. CASE UNCHANGED <<pc, obj>> /\ processed' \subseteq processed
      BY <1>a, <2>2, UnprocessedUntouched
    <2> QED
      BY <1>1, <2>1, <2>2 DEF Environment, CreatePod, Expire, BecomeReady,
         BecomeUnready, DeletePod, Disturb, Resync, Cancel, Arrive
  <1>2. CASE Informer
    BY <1>2, <1>a, UnprocessedUntouched DEF Informer, List, Watch, Handle
  <1>3. CASE Controller
    <2>1. CASE StartWorkers
      BY <2>1 DEF StartWorkers, StillUnprocessed, Pipeline
    <2>2. CASE SyncFailed \/ StartDrain \/ StopInformer \/ Return
      BY <2>2, <1>a, UnprocessedUntouched DEF SyncFailed, StartDrain,
         StopInformer, Return
    <2> QED
      BY <1>3, <2>1, <2>2 DEF Controller
  <1>4. CASE \E w \in Workers : Worker(w)
    BY <1>4, WorkerUnprocessed
  <1>5. CASE \E k \in Keys : RetryDelayOver(k)
    BY <1>5, <1>a, UnprocessedUntouched DEF RetryDelayOver
  <1>6. CASE UNCHANGED vars
    BY <1>6, <1>a, UnprocessedUntouched DEF vars
  <1> QED
    BY <1>1, <1>2, <1>3, <1>4, <1>5, <1>6 DEF Next

LEMMA UnprocessedInvariant == Spec => []UnprocessedInv
  <1>1. Init => StillUnprocessed
    BY DEF Init, StillUnprocessed
  <1>2. HoldingInv /\ StillUnprocessed /\ [Next]_vars => StillUnprocessed'
    BY NextUnprocessed DEF UnprocessedInv
  <1>3. HoldingInv /\ StillUnprocessed <=> UnprocessedInv
    BY DEF UnprocessedInv
  <1> QED
    BY <1>1, <1>2, <1>3, HoldingInvariant, PTL DEF Spec

(* What processed.Has answered before the jitter holds up to the export.    *)
THEOREM CheckStaysValid == Spec => []StillUnprocessed
  <1>1. UnprocessedInv => StillUnprocessed
    BY DEF UnprocessedInv
  <1> QED
    BY <1>1, UnprocessedInvariant, PTL

-----------------------------------------------------------------------------
(* The refinement.  Each step of Reconciler is a step of Collection or      *)
(* leaves its variables alone.                                              *)

CollectionVars == <<processed, gpuless, dropped, records, flight, again, excused>>

LEMMA CollectionStutters == UNCHANGED CollectionVars => UNCHANGED Promise!vars
  BY DEF CollectionVars, Promise!vars, Stored, Coming

LEMMA StoredGrows ==
  ASSUME NEW r, Store(r)
  PROVE  Stored' = Stored \cup {r.uid} /\ Promise!Give(r.uid)
  <1>1. records' = records \cup {r}
    BY DEF Store
  <1>2. Stored' = Stored \cup {r.uid}
    BY <1>1 DEF Stored
  <1> QED
    BY <1>2 DEF Store, Promise!Give

LEMMA WorkerCollects ==
  ASSUME UnprocessedInv, NEW w \in Workers, Worker(w)
  PROVE  [Promise!Next]_(Promise!vars)
  <1>a. pc[w] \in Pipeline => obj[w] \in UIDs /\ obj[w] \notin processed
    BY DEF UnprocessedInv, HoldingInv, TypeInv, WorkerOK, StillUnprocessed
  <1>b. Store(Batch(w)) => Promise!Give(obj[w])
    <2> DEFINE new == Batch(w)
    <2>1. new.uid = obj[w]
      BY DEF Batch
    <2> HIDE DEF new
    <2>2. Store(new) => Promise!Give(new.uid)
      BY StoredGrows
    <2> QED
      BY <2>1, <2>2 DEF new
  <1>c. flight' = flight => Coming' = Coming
    BY DEF Coming
  <1>d. records' = records => Stored' = Stored
    BY DEF Stored
  <1>1. CASE ExecNoGPU(w)
    <2>1. Promise!SettleBarren(obj[w])
      BY <1>1, <1>a, <1>c, <1>d DEF ExecNoGPU, Mark, Pipeline, Promise!SettleBarren
    <2> QED
      BY <1>1, <1>a, <2>1 DEF Promise!Next, ExecNoGPU, Pipeline
  <1>2. CASE ExportNothing(w)
    <2>1. Promise!SettleBarren(obj[w])
      BY <1>2, <1>a, <1>c, <1>d DEF ExportNothing, Mark, Pipeline, Promise!SettleBarren
    <2> QED
      BY <1>2, <1>a, <2>1 DEF Promise!Next, ExportNothing, Pipeline
  <1>3. CASE Export(w)
    <2>1. Promise!Deliver(obj[w])
      BY <1>3, <1>a, <1>b, <1>c DEF Export, Mark, Pipeline, Promise!Deliver
    <2> QED
      BY <1>3, <1>a, <2>1 DEF Promise!Next, Export, Pipeline
  <1>4. CASE ExportUnacknowledged(w)
    <2>1. /\ obj[w] \in UIDs /\ obj[w] \notin processed
          /\ excused' = excused \cup {obj[w]}
          /\ UNCHANGED <<processed, gpuless, dropped>>
      BY <1>4, <1>a DEF ExportUnacknowledged, Pipeline
    <2>2. CASE Store(Batch(w)) /\ UNCHANGED flight
      <3>1. Promise!DeliverUnacknowledged(obj[w])
        BY <1>b, <1>c, <2>1, <2>2 DEF Promise!DeliverUnacknowledged
      <3> QED
        BY <2>1, <3>1 DEF Promise!Next
    <2>3. CASE flight' = flight \cup {Batch(w)} /\ UNCHANGED <<records, again>>
      <3> DEFINE new == Batch(w)
      <3>1. new.uid = obj[w]
        BY DEF Batch
      <3>2. flight' = flight \cup {new}
        BY <2>3
      <3> HIDE DEF new
      <3>3. Coming' = Coming \cup {obj[w]}
        BY <3>1, <3>2 DEF Coming
      <3>4. Promise!Lose(obj[w])
        BY <1>d, <2>1, <2>3, <3>3 DEF Promise!Lose
      <3> QED
        BY <2>1, <3>4 DEF Promise!Next
    <2> QED
      BY <1>4, <2>2, <2>3 DEF ExportUnacknowledged
  <1>5. CASE UNCHANGED CollectionVars
    BY <1>5, CollectionStutters
  <1> USE DEF CollectionVars
  <1>6. (\E k \in Keys : GetItem(w, k)) => UNCHANGED CollectionVars
    BY DEF GetItem
  <1>7. WorkerExit(w) => UNCHANGED CollectionVars
    BY DEF WorkerExit
  <1>8. Skip(w) => UNCHANGED CollectionVars
    BY DEF Skip
  <1>9. Accept(w) => UNCHANGED CollectionVars
    BY DEF Accept
  <1>10. Jitter(w) => UNCHANGED CollectionVars
    BY DEF Jitter
  <1>11. JitterCancelled(w) => UNCHANGED CollectionVars
    BY DEF JitterCancelled
  <1>12. Exec(w) => UNCHANGED CollectionVars
    BY DEF Exec
  <1>13. ExecFailed(w) => UNCHANGED CollectionVars
    BY DEF ExecFailed
  <1>14. Label(w) => UNCHANGED CollectionVars
    BY DEF Label
  <1>15. (\E applied \in BOOLEAN : LabelFailed(w, applied)) => UNCHANGED CollectionVars
    BY DEF LabelFailed
  <1>16. Identify(w) => UNCHANGED CollectionVars
    BY DEF Identify
  <1>17. IdentifyFailed(w) => UNCHANGED CollectionVars
    BY DEF IdentifyFailed
  <1>18. ExportFailed(w) => UNCHANGED CollectionVars
    BY DEF ExportFailed
  <1>19. Finish(w) => UNCHANGED CollectionVars
    BY DEF Finish
  <1> QED
    BY <1>1, <1>2, <1>3, <1>4, <1>5, <1>6, <1>7, <1>8, <1>9, <1>10, <1>11,
       <1>12, <1>13, <1>14, <1>15, <1>16, <1>17, <1>18, <1>19 DEF Worker,
       ProcessPod

LEMMA NextCollects ==
  ASSUME UnprocessedInv, [Next]_vars
  PROVE  [Promise!Next]_(Promise!vars)
  <1>1. CASE \E w \in Workers : Worker(w)
    BY <1>1, WorkerCollects
  <1>2. CASE UNCHANGED CollectionVars
    BY <1>2, CollectionStutters
  <1>3. ASSUME NEW u \in UIDs, Expire(u) PROVE Promise!Next
    <2>1. Stored' = Stored /\ Coming' = Coming
      BY <1>3 DEF Expire, Stored, Coming
    <2>2. Promise!Lapse({u}, {})
      BY <1>3, <2>1 DEF Expire, Promise!Lapse
    <2> QED
      BY <2>2 DEF Promise!Next
  <1>4. CASE Restart
    <2>1. Stored \subseteq UIDs /\ processed \subseteq UIDs
      BY DEF UnprocessedInv, HoldingInv, TypeInv, TypeOK, Stored, Reading
    <2>2. PICK S \in SUBSET Sent :
            flight' = flight \cup S /\ excused' = excused \cup Stored \cup {r.uid : r \in S}
      BY <1>4 DEF Restart
    <2> DEFINE T == {r.uid : r \in S}
    <2>3. T \subseteq UIDs /\ T \cap processed = {}
      <3>1. ASSUME NEW w \in Workers, pc[w] = "export"
            PROVE  Batch(w).uid \in UIDs /\ Batch(w).uid \notin processed
        <4>1. Batch(w).uid = obj[w]
          BY DEF Batch
        <4> QED
          BY <3>1, <4>1 DEF UnprocessedInv, HoldingInv, TypeInv, WorkerOK, StillUnprocessed, Pipeline
      <3>2. \A r \in Sent : r.uid \in UIDs /\ r.uid \notin processed
        BY <3>1 DEF Sent
      <3> QED
        BY <3>2
    <2>4. Coming' = Coming \cup T
      BY <2>2 DEF Coming
    <2>5. /\ processed' = {} /\ UNCHANGED <<gpuless, dropped, again>> /\ Stored' = Stored
          /\ excused' = excused \cup Stored \cup T
      BY <1>4, <2>2 DEF Restart, Stored
    <2> HIDE DEF T
    <2>6. Promise!Lapse(UIDs, T)
      BY <2>1, <2>3, <2>4, <2>5 DEF Promise!Lapse
    <2> QED
      BY <2>3, <2>6 DEF Promise!Next
  <1>10. ASSUME NEW r \in flight, Arrive(r) PROVE Promise!Next
    <2>1. r.uid \in UIDs /\ r.uid \in Coming
      BY DEF UnprocessedInv, HoldingInv, TypeInv, TypeOK, Reading, Coming
    <2>2. Promise!Give(r.uid)
      BY <1>10, StoredGrows DEF Arrive
    <2>3. Coming' \in {Coming, Coming \ {r.uid}}
      <3>1. flight' = flight \ {r}
        BY <1>10 DEF Arrive
      <3>2. CASE \E q \in flight \ {r} : q.uid = r.uid
        BY <3>1, <3>2 DEF Coming
      <3>3. CASE \A q \in flight \ {r} : q.uid # r.uid
        BY <3>1, <3>3 DEF Coming
      <3> QED
        BY <3>2, <3>3
    <2>4. Promise!Come(r.uid)
      BY <1>10, <2>1, <2>2, <2>3 DEF Arrive, Promise!Come
    <2> QED
      BY <2>1, <2>4 DEF Promise!Next
  <1>5. Environment =>
          \/ Restart \/ (\E u \in UIDs : Expire(u)) \/ (\E r \in flight : Arrive(r))
          \/ UNCHANGED CollectionVars
    BY DEF Environment, CreatePod, BecomeReady, BecomeUnready, DeletePod, Disturb,
       Resync, Cancel, CollectionVars
  <1>6. Informer => UNCHANGED CollectionVars
    BY DEF Informer, List, Watch, Handle, CollectionVars
  <1>7. Controller => UNCHANGED CollectionVars
    BY DEF Controller, StartWorkers, SyncFailed, StartDrain, StopInformer, Return,
       CollectionVars
  <1>8. \A k \in Keys : RetryDelayOver(k) => UNCHANGED CollectionVars
    BY DEF RetryDelayOver, CollectionVars
  <1>9. UNCHANGED vars => UNCHANGED CollectionVars
    BY DEF vars, CollectionVars
  <1> QED
    BY <1>1, <1>2, <1>3, <1>4, <1>5, <1>6, <1>7, <1>8, <1>9, <1>10 DEF Next

(* A gpuid process implements Collection.                                   *)
THEOREM Refinement == Spec => ImplementsCollection
  <1>1. Init => Promise!Init
    BY DEF Init, Promise!Init, Stored, Coming
  <1>2. UnprocessedInv /\ [Next]_vars => [Promise!Next]_(Promise!vars)
    BY NextCollects
  <1> QED
    BY <1>1, <1>2, UnprocessedInvariant, PTL
    DEF Spec, ImplementsCollection, Promise!Spec

Abstract == INSTANCE CollectionProofs WITH
  delivered <- Stored, settled <- processed, barren <- gpuless \cup dropped,
  coming <- Coming

(* So a marked pod was stored or had nothing to store, and nothing is       *)
(* stored twice without a cause.                                            *)
LEMMA Promised == Spec => [](MarkedMeansSettled /\ RepeatedOnlyWithCause)
  <1>1. Promise!Init => Abstract!Init
    BY DEF Promise!Init, Abstract!Init
  <1>2. [Promise!Next]_(Promise!vars) => [Abstract!Next]_(Abstract!vars)
    BY DEF Promise!Next, Promise!vars, Promise!Deliver, Promise!Give,
       Promise!DeliverUnacknowledged, Promise!Lose, Promise!Come,
       Promise!SettleBarren, Promise!Lapse,
       Abstract!Next, Abstract!vars, Abstract!Deliver, Abstract!Give,
       Abstract!DeliverUnacknowledged, Abstract!Lose, Abstract!Come,
       Abstract!SettleBarren, Abstract!Lapse
  <1>3. Abstract!SettledMeansDelivered /\ Abstract!RepeatedOnlyWithCause
          => MarkedMeansSettled /\ RepeatedOnlyWithCause
    BY DEF Abstract!SettledMeansDelivered, Abstract!RepeatedOnlyWithCause,
       MarkedMeansSettled, RepeatedOnlyWithCause
  <1> QED
    BY <1>1, <1>2, <1>3, Refinement, Abstract!CollectionSafe, PTL
    DEF ImplementsCollection, Promise!Spec, Abstract!Spec

(* Marking never hides a pod that was not exported (worker.go:161, 212).    *)
THEOREM MarkedOnlyWhenSettled == Spec => []MarkedMeansSettled
  <1> QED
    BY Promised, PTL

(* The same reading reaches the backend twice only after a lost answer, an  *)
(* expired mark or a new process (worker.go:121, setter.go:9-11).           *)
THEOREM RepeatedOnlyIfExcused == Spec => []RepeatedOnlyWithCause
  <1> QED
    BY Promised, PTL

-----------------------------------------------------------------------------
(* No pod is forgotten, and no key remembered.                              *)

(* From Get to the end of processPod. *)
AtWork == Pipeline \cup {"lookup"}

(* The key of w comes back, unless nothing does any more. *)
Kept(w) == item[w] \in waiting' \/ shuttingDown

(* There is no need that it does. *)
Needless(w) ==
  \/ ctxDone
  \/ pc[w] \in Pipeline /\ obj[w] \in marked'
  \/ pc[w] = "lookup" /\ NothingToDo(cache[item[w]])

(* What a step of w other than Get does to the places a key may be in. *)
Passing(w) ==
  /\ dirty' = dirty /\ waiting \subseteq waiting' /\ marked \subseteq marked'
  /\ \/ limited' \subseteq limited
     \/ Kept(w) /\ limited' \subseteq limited \cup {item[w]}
  /\ \/ pc[w] \notin AtWork
     \/ Kept(w)
     \/ Needless(w) /\ item[w] \notin limited'
     \/ /\ pc'[w] \in Pipeline /\ item'[w] = item[w]
        /\ obj'[w] = IF pc[w] = "lookup" THEN cache[item[w]].uid ELSE obj[w]

LEMMA WorkerPasses ==
  ASSUME TypeInv, NEW w \in Workers, Worker(w)
  PROVE  (\E k \in Keys : GetItem(w, k)) \/ Passing(w)
  <1>a. pc \in [Workers -> Steps] /\ obj \in [Workers -> UIDs \cup {None}]
    BY DEF TypeInv, TypeOK
  <1> USE <1>a DEF Passing, Kept, Needless, AtWork, Pipeline
  <1>1. CASE WorkerExit(w)
    BY <1>1 DEF WorkerExit
  <1>2. CASE Skip(w)
    BY <1>2 DEF Skip, GiveUp, Forget
  <1>3. CASE Accept(w)
    BY <1>3 DEF Accept
  <1>4. CASE Jitter(w)
    BY <1>4 DEF Jitter
  <1>5. CASE JitterCancelled(w)
    BY <1>5 DEF JitterCancelled, GiveUp, Forget
  <1>6. CASE Exec(w)
    BY <1>6 DEF Exec
  <1>7. CASE ExecNoGPU(w)
    BY <1>7 DEF ExecNoGPU, GiveUp, Forget, Mark
  <1>8. CASE ExecFailed(w)
    BY <1>8 DEF ExecFailed, Fail, Retry, AddRateLimited
  <1>9. CASE Label(w)
    BY <1>9 DEF Label
  <1>10. CASE \E applied \in BOOLEAN : LabelFailed(w, applied)
    BY <1>10 DEF LabelFailed, Fail, Retry, AddRateLimited
  <1>11. CASE Identify(w)
    BY <1>11 DEF Identify
  <1>12. CASE IdentifyFailed(w)
    BY <1>12 DEF IdentifyFailed, Fail, Retry, AddRateLimited
  <1>13. CASE Export(w)
    BY <1>13 DEF Export, GiveUp, Forget, Mark
  <1>14. CASE ExportNothing(w)
    BY <1>14 DEF ExportNothing, GiveUp, Forget, Mark
  <1>15. CASE ExportFailed(w)
    BY <1>15 DEF ExportFailed, Fail, Retry, AddRateLimited
  <1>16. CASE ExportUnacknowledged(w)
    BY <1>16 DEF ExportUnacknowledged, Fail, Retry, AddRateLimited
  <1>17. CASE Finish(w)
    BY <1>17 DEF Finish, Done
  <1> QED
    BY <1>1, <1>2, <1>3, <1>4, <1>5, <1>6, <1>7, <1>8, <1>9, <1>10, <1>11,
       <1>12, <1>13, <1>14, <1>15, <1>16, <1>17 DEF Worker, ProcessPod

MarksAgree == processed \subseteq marked

LEMMA NextMarksAgree ==
  ASSUME TypeInv, MarksAgree, [Next]_vars
  PROVE  MarksAgree'
  <1>1. CASE UNCHANGED <<processed, marked>>
    BY <1>1 DEF MarksAgree
  <1>2. CASE \E u \in UIDs : Expire(u)
    BY <1>2 DEF Expire, MarksAgree
  <1>3. CASE Restart
    BY <1>3 DEF Restart, MarksAgree
  <1>4. CASE \E u : Mark(u)
    BY <1>4 DEF Mark, MarksAgree
  <1>5. ASSUME NEW w \in Workers, Worker(w)
        PROVE  (\E u : Mark(u)) \/ UNCHANGED <<processed, marked>>
    BY <1>5 DEF Worker, ProcessPod, GetItem, WorkerExit, Skip, Accept, Jitter,
       JitterCancelled, Exec, ExecNoGPU, ExecFailed, Label, LabelFailed, Identify,
       IdentifyFailed, Export, ExportNothing, ExportFailed, ExportUnacknowledged, Finish
  <1>6. Environment =>
          \/ UNCHANGED <<processed, marked>> \/ Restart \/ (\E u \in UIDs : Expire(u))
    BY DEF Environment, CreatePod, BecomeReady, BecomeUnready, DeletePod, Disturb,
       Resync, Cancel, Arrive
  <1>7. Informer \/ Controller \/ (\E k \in Keys : RetryDelayOver(k)) \/ UNCHANGED vars
          => UNCHANGED <<processed, marked>>
    BY DEF Informer, List, Watch, Handle, Controller, StartWorkers, SyncFailed,
       StartDrain, StopInformer, Return, RetryDelayOver, vars
  <1> QED
    BY <1>1, <1>2, <1>3, <1>4, <1>5, <1>6, <1>7 DEF Next

LEMMA WorkerForgetsNoPod ==
  ASSUME TypeInv, MarksAgree, NoPodForgotten, NEW w \in Workers, Worker(w)
  PROVE  NoPodForgotten'
  <1>a. WorkerFrame(w)
    BY WorkerHasFrame DEF TypeInv
  <1>b. cache' = cache /\ notify' = notify /\ ctxDone' = ctxDone
    BY <1>a DEF WorkerFrame
  <1>c. \A v \in Workers \ {w} : pc'[v] = pc[v] /\ item'[v] = item[v] /\ obj'[v] = obj[v]
    BY <1>a DEF WorkerFrame
  <1>d. marked \subseteq marked'
    BY WorkerPasses DEF Passing, GetItem
  <1> SUFFICES ASSUME NEW k \in Keys, cache[k].ready, cache[k].uid \notin marked', ~ctxDone
               PROVE  Pending(k)'
    BY <1>b DEF NoPodForgotten
  <1>e. Pending(k)
    BY <1>d DEF NoPodForgotten
  <1>f. ~NothingToDo(cache[k]) /\ ~shuttingDown
    <2>1. cache[k] \in Pod /\ cache[k] # NoPod
      BY DEF TypeInv, TypeOK, NoPod
    <2>2. Exists(cache[k])
      BY <2>1, ConstantsOK DEF ConstantsOK, Pod, Exists
    <2>3. cache[k].uid \notin processed
      BY <1>d DEF MarksAgree
    <2> QED
      BY <2>2, <2>3 DEF NothingToDo, TypeInv, LifeOK
  <1>1. ASSUME NEW h \in Keys, GetItem(w, h) PROVE Pending(k)'
    <2>1. /\ pc[w] = "get" /\ pc'[w] = "lookup" /\ item'[w] = h
          /\ dirty' = dirty \ {h} /\ waiting' = waiting
      BY <1>1 DEF GetItem, Get, TypeInv, TypeOK
    <2>2. CASE k \in notify \cup dirty \cup waiting
      BY <2>1, <2>2, <1>b DEF Pending
    <2>3. CASE \E v \in Workers : /\ item[v] = k
                                  /\ \/ pc[v] = "lookup"
                                     \/ pc[v] \in Pipeline /\ obj[v] = cache[k].uid
      BY <2>1, <2>3, <1>b, <1>c DEF Pending, Pipeline
    <2> QED
      BY <1>e, <2>2, <2>3 DEF Pending
  <1>2. CASE Passing(w)
    <2>1. CASE k \in notify \cup dirty \cup waiting
      BY <1>2, <2>1, <1>b DEF Pending, Passing
    <2>2. ASSUME NEW v \in Workers, v # w, item[v] = k,
                 pc[v] = "lookup" \/ (pc[v] \in Pipeline /\ obj[v] = cache[k].uid)
          PROVE  Pending(k)'
      BY <2>2, <1>b, <1>c DEF Pending
    <2>3. ASSUME item[w] = k,
                 pc[w] = "lookup" \/ (pc[w] \in Pipeline /\ obj[w] = cache[k].uid)
          PROVE  Pending(k)'
      <3>1. CASE k \in waiting'
        BY <3>1 DEF Pending
      <3>2. ~Needless(w)
        BY <2>3, <1>f DEF Needless, Pipeline
      <3>3. CASE /\ pc'[w] \in Pipeline /\ item'[w] = item[w]
                 /\ obj'[w] = IF pc[w] = "lookup" THEN cache[item[w]].uid ELSE obj[w]
        <4>1. obj'[w] = cache[k].uid /\ item'[w] = k
          BY <2>3, <3>3
        <4> QED
          BY <3>3, <4>1, <1>b DEF Pending
      <3> QED
        BY <1>2, <2>3, <1>f, <3>1, <3>2, <3>3 DEF Passing, AtWork, Kept
    <2> QED
      BY <1>e, <2>1, <2>2, <2>3 DEF Pending
  <1> QED
    BY <1>1, <1>2, WorkerPasses

(* Nobody but a worker takes a key away from where it is.                   *)
Waits(k) == k \in notify \cup dirty \cup waiting

LEMMA NextForgetsNoPod ==
  ASSUME HoldingInv, MarksAgree, NoPodForgotten, [Next]_vars
  PROVE  NoPodForgotten'
  <1>a. TypeInv /\ QueueTypeOK
    BY DEF HoldingInv, TypeInv, TypeOK
  <1>b. ~ctxDone => ~shuttingDown
    BY <1>a DEF TypeInv, LifeOK
  <1>1. CASE \E w \in Workers : Worker(w)
    BY <1>1, <1>a, WorkerForgetsNoPod
  <1>2. ASSUME UNCHANGED <<pc, item, obj, marked>>,
               ctxDone => ctxDone',
               \A k \in Keys : cache'[k].ready => (cache'[k] = cache[k] \/ Waits(k)'),
               \A k \in Keys : (Waits(k) /\ cache'[k].ready) => (Waits(k)' \/ ctxDone)
        PROVE  NoPodForgotten'
    BY <1>2 DEF NoPodForgotten, Pending, Waits
  <1>3. ASSUME UNCHANGED <<pc, item, obj, marked, cache>>, notify \subseteq notify',
               dirty' = dirty, waiting' = waiting, ctxDone => ctxDone'
        PROVE  NoPodForgotten'
    BY <1>2, <1>3 DEF Waits
  <1>4. CASE Environment
    <2>1. CASE Restart
      <3>1. \A k \in Keys : ~cache'[k].ready
        BY <2>1 DEF Restart, NoPod
      <3> QED
        BY <3>1 DEF NoPodForgotten
    <2>2. CASE ~Restart
      <3>1. /\ UNCHANGED <<pc, item, obj, marked, cache>> /\ notify \subseteq notify'
            /\ dirty' = dirty /\ waiting' = waiting
        BY <1>4, <2>2 DEF Environment, CreatePod, Expire, BecomeReady, BecomeUnready,
           DeletePod, Disturb, Resync, Cancel, Arrive
      <3>2. ctxDone => ctxDone'
        BY <1>4, <2>2 DEF Environment, CreatePod, Expire, BecomeReady, BecomeUnready,
           DeletePod, Disturb, Resync, Cancel, Arrive
      <3> QED
        BY <3>1, <3>2, <1>3
    <2> QED
      BY <2>1, <2>2
  <1>5. CASE Informer
    <2>1. UNCHANGED <<pc, item, obj, marked, waiting, ctxDone>>
      BY <1>5 DEF Informer, List, Watch, Handle, Add
    <2>2. CASE List
      BY <1>2, <2>1, <2>2 DEF List, Notices, Waits
    <2>3. ASSUME NEW h \in Keys, Watch(h) PROVE NoPodForgotten'
      <3>1. /\ cache' = [cache EXCEPT ![h] = pod[h]] /\ dirty' = dirty
            /\ notify' = notify \cup Notices({h})
        BY <2>3 DEF Watch
      <3>2. \A k \in Keys : cache'[k].ready => (cache'[k] = cache[k] \/ k \in notify')
        BY <3>1, <1>a DEF Notices, TypeInv, TypeOK
      <3> QED
        BY <1>2, <2>1, <3>1, <3>2 DEF Waits
    <2>4. ASSUME NEW h \in Keys, Handle(h) PROVE NoPodForgotten'
      <3>1. /\ cache' = cache /\ notify' = notify \ {h}
            /\ IF shuttingDown \/ h \in dirty THEN dirty' = dirty ELSE dirty' = dirty \cup {h}
        BY <2>4 DEF Handle, Add, Push
      <3>2. \A k \in Keys : Waits(k) => (Waits(k)' \/ ctxDone)
        BY <2>1, <3>1, <1>b DEF Waits
      <3> QED
        BY <1>2, <2>1, <3>1, <3>2
    <2> QED
      BY <1>5, <2>2, <2>3, <2>4 DEF Informer
  <1>6. CASE Controller
    <2>1. CASE StartWorkers
      <3>1. \A w \in Workers : pc[w] = "off"
        BY <2>1, <1>a DEF StartWorkers, TypeInv, LifeOK
      <3>2. UNCHANGED <<cache, notify, dirty, waiting, marked, ctxDone>>
        BY <2>1 DEF StartWorkers
      <3> QED
        BY <3>1, <3>2 DEF NoPodForgotten, Pending, Pipeline
    <2>2. CASE SyncFailed \/ StartDrain \/ StopInformer \/ Return
      <3>1. UNCHANGED <<pc, item, obj, marked, cache, notify, dirty, waiting, ctxDone>>
        BY <2>2 DEF SyncFailed, StartDrain, StopInformer, Return, ShutDown
      <3> QED
        BY <3>1, <1>3
    <2> QED
      BY <1>6, <2>1, <2>2 DEF Controller
  <1>7. ASSUME NEW h \in Keys, RetryDelayOver(h) PROVE NoPodForgotten'
    <2>1. /\ UNCHANGED <<pc, item, obj, marked, cache, notify, ctxDone>>
          /\ waiting' = waiting \ {h}
          /\ IF shuttingDown \/ h \in dirty THEN dirty' = dirty ELSE dirty' = dirty \cup {h}
      BY <1>7 DEF RetryDelayOver, DelayOver, Push
    <2>2. \A k \in Keys : Waits(k) => (Waits(k)' \/ ctxDone)
      BY <2>1, <1>b DEF Waits
    <2> QED
      BY <1>2, <2>1, <2>2
  <1>8. CASE UNCHANGED vars
    BY <1>3, <1>8 DEF vars
  <1> QED
    BY <1>1, <1>4, <1>5, <1>6, <1>7, <1>8 DEF Next

(* Whatever events, retries, shared names and failures do to each other, a  *)
(* ready pod that is not marked is in somebody's hands until shutdown       *)
(* (service.go:264-284, worker.go:54-101).                                  *)
THEOREM NoneForgotten == Spec => []NoPodForgotten
  <1>1. Init => MarksAgree /\ NoPodForgotten
    BY DEF Init, MarksAgree, NoPodForgotten, NoPod
  <1>2. HoldingInv /\ MarksAgree /\ NoPodForgotten /\ [Next]_vars
          => MarksAgree' /\ NoPodForgotten'
    BY NextForgetsNoPod, NextMarksAgree DEF HoldingInv
  <1> QED
    BY <1>1, <1>2, HoldingInvariant, PTL DEF Spec

(* The strengthening of LimiterForgets: a remembered key will be retried,   *)
(* or a worker is at work on it.                                            *)
Remembered ==
  ~shuttingDown =>
    \A k \in limited :
      \/ k \in waiting \cup dirty
      \/ \E w \in Workers : item[w] = k /\ pc[w] \in AtWork

LEMMA WorkerRemembers ==
  ASSUME TypeInv, Remembered, NEW w \in Workers, Worker(w)
  PROVE  Remembered'
  <1>a. WorkerFrame(w)
    BY WorkerHasFrame DEF TypeInv
  <1>b. \A v \in Workers \ {w} : pc'[v] = pc[v] /\ item'[v] = item[v]
    BY <1>a DEF WorkerFrame
  <1> SUFFICES ASSUME ~shuttingDown, NEW k \in limited'
               PROVE  \/ k \in waiting' \cup dirty'
                      \/ \E v \in Workers : item'[v] = k /\ pc'[v] \in AtWork
    BY <1>a DEF Remembered, WorkerFrame
  <1>1. ASSUME NEW h \in Keys, GetItem(w, h)
        PROVE  \/ k \in waiting' \cup dirty'
               \/ \E v \in Workers : item'[v] = k /\ pc'[v] \in AtWork
    <2>1. /\ pc[w] = "get" /\ pc'[w] = "lookup" /\ item'[w] = h
          /\ dirty' = dirty \ {h} /\ waiting' = waiting /\ limited' = limited
      BY <1>1 DEF GetItem, Get, TypeInv, TypeOK
    <2>2. CASE k \in waiting \cup dirty
      BY <2>1, <2>2 DEF AtWork
    <2>3. ASSUME NEW v \in Workers, item[v] = k, pc[v] \in AtWork
          PROVE  item'[v] = k /\ pc'[v] \in AtWork
      BY <2>1, <2>3, <1>b DEF AtWork, Pipeline
    <2> QED
      BY <2>1, <2>2, <2>3 DEF Remembered
  <1>2. CASE Passing(w)
    <2>1. CASE k \notin limited
      BY <1>2, <2>1 DEF Passing, Kept
    <2>2. CASE k \in waiting \cup dirty
      BY <1>2, <2>2 DEF Passing
    <2>3. ASSUME NEW v \in Workers, v # w, item[v] = k, pc[v] \in AtWork
          PROVE  item'[v] = k /\ pc'[v] \in AtWork
      BY <2>3, <1>b
    <2>4. ASSUME item[w] = k, pc[w] \in AtWork
          PROVE  k \in waiting' \/ (item'[w] = k /\ pc'[w] \in AtWork)
      BY <1>2, <2>4 DEF Passing, Kept, AtWork
    <2> QED
      BY <2>1, <2>2, <2>3, <2>4 DEF Remembered
  <1> QED
    BY <1>1, <1>2, WorkerPasses

LEMMA NextRemembers ==
  ASSUME TypeInv, Remembered, [Next]_vars
  PROVE  Remembered'
  <1>1. CASE \E w \in Workers : Worker(w)
    BY <1>1, WorkerRemembers
  <1>2. ASSUME UNCHANGED <<pc, item, limited>>,
               shuttingDown => shuttingDown',
               ~shuttingDown => waiting \cup dirty \subseteq waiting' \cup dirty'
        PROVE  Remembered'
    BY <1>2 DEF Remembered
  <1>3. CASE Restart
    BY <1>3 DEF Restart, NewQueue, Remembered
  <1>4. CASE Environment /\ ~Restart
    <2>1. UNCHANGED <<pc, item, limited, shuttingDown, waiting, dirty>>
      BY <1>4 DEF Environment, CreatePod, Expire, BecomeReady, BecomeUnready,
         DeletePod, Disturb, Resync, Cancel, Arrive
    <2> QED
      BY <1>2, <2>1
  <1>5. CASE Informer
    BY <1>2, <1>5 DEF Informer, List, Watch, Handle, Add, Push
  <1>6. CASE StartWorkers
    <2>1. \A w \in Workers : pc[w] = "off"
      BY <1>6 DEF StartWorkers, TypeInv, LifeOK
    <2>2. UNCHANGED <<limited, waiting, dirty, shuttingDown>>
      BY <1>6 DEF StartWorkers
    <2> QED
      BY <2>1, <2>2 DEF Remembered, AtWork, Pipeline
  <1>7. CASE SyncFailed \/ StartDrain \/ StopInformer \/ Return
    BY <1>2, <1>7 DEF SyncFailed, StartDrain, StopInformer, Return, ShutDown
  <1>8. ASSUME NEW k \in Keys, RetryDelayOver(k) PROVE Remembered'
    <2>1. UNCHANGED <<pc, item, limited, shuttingDown>> /\ waiting' = waiting \ {k}
      BY <1>8 DEF RetryDelayOver, DelayOver
    <2>2. dirty \subseteq dirty' /\ (shuttingDown \/ k \in dirty')
      BY <1>8 DEF RetryDelayOver, DelayOver, Push
    <2> QED
      BY <1>2, <2>1, <2>2
  <1>9. CASE UNCHANGED vars
    BY <1>2, <1>9 DEF vars
  <1> QED
    BY <1>1, <1>3, <1>4, <1>5, <1>6, <1>7, <1>8, <1>9 DEF Next, Controller

(* The rate limiter's map does not grow with every pod ever seen            *)
(* (worker.go:67-100).                                                      *)
THEOREM LimiterBounded == Spec => []LimiterForgets
  <1>1. Init => Remembered
    BY DEF Init, EmptyQueue, Remembered
  <1>2. TypeInv /\ Remembered /\ [Next]_vars => Remembered'
    BY NextRemembers
  <1>3. HoldingInv => TypeInv
    BY DEF HoldingInv
  <1>4. HoldingInv /\ Remembered => LimiterForgets
    <2> SUFFICES ASSUME HoldingInv, Remembered, ~shuttingDown, NEW k \in limited
                 PROVE  k \in waiting \cup dirty \cup processing
      BY DEF LimiterForgets
    <2>1. \A w \in Workers : pc[w] \in AtWork => item[w] \in processing
      BY DEF HoldingInv, Holding, HeldIsProcessing, Busy, AtWork
    <2> QED
      BY <2>1 DEF Remembered
  <1> QED
    BY <1>1, <1>2, <1>3, <1>4, HoldingInvariant, PTL DEF Spec

-----------------------------------------------------------------------------
(* Labels before records, and a drain that leaves nothing behind.           *)

(* The strengthening of LabelledBeforeStored: whoever is past EnsureLabels  *)
(* finds labels on its node, and what may come yet was sent from there.     *)
Labelled ==
  /\ \A r \in records \cup flight : labels[r.node] # None
  /\ \A w \in Workers : pc[w] \in {"identify", "export"} => labels[NodeOf[obj[w]]] # None

(* What a step of w does to labels and records. *)
Labelling(w) ==
  /\ \A n \in Nodes : labels[n] # None => labels'[n] # None
  /\ \A r \in records' \cup flight' :
       r \in records \cup flight \/ (pc[w] = "export" /\ r.node = NodeOf[obj[w]])
  /\ pc'[w] \in {"identify", "export"} =>
       /\ obj'[w] = obj[w]
       /\ \/ pc[w] = "identify"
          \/ labels'[NodeOf[obj[w]]] # None

LEMMA WorkerLabels ==
  ASSUME TypeInv, NEW w \in Workers, Worker(w)
  PROVE  Labelling(w)
  <1>a. pc \in [Workers -> Steps] /\ labels \in [Nodes -> Nodes \cup {None}]
    BY DEF TypeInv, TypeOK
  <1>b. pc[w] = "label" => NodeOf[obj[w]] \in Nodes /\ read[w] \in Nodes /\ read[w] # None
    BY ConstantsOK DEF TypeInv, WorkerOK, Pipeline, ConstantsOK
  <1>1. CASE Label(w)
    <2>1. labels' = [labels EXCEPT ![NodeOf[obj[w]]] = read[w]] /\ records' = records /\ flight' = flight
            /\ obj' = obj /\ pc[w] = "label"
      BY <1>1 DEF Label
    <2> QED
      BY <2>1, <1>a, <1>b DEF Labelling
  <1>2. CASE \E applied \in BOOLEAN : LabelFailed(w, applied)
    <2>1. /\ labels' \in {labels, [labels EXCEPT ![NodeOf[obj[w]]] = read[w]]}
          /\ records' = records /\ flight' = flight /\ pc[w] = "label" /\ pc'[w] = "done"
      BY <1>2, <1>a DEF LabelFailed, Fail, Retry
    <2>2. \A n \in Nodes : labels[n] # None => labels'[n] # None
      BY <2>1, <1>a, <1>b
    <2> QED
      BY <2>1, <2>2 DEF Labelling
  <1>3. CASE Export(w) \/ ExportUnacknowledged(w)
    <2>1. labels' = labels /\ pc[w] = "export" /\ pc'[w] = "done"
      BY <1>3, <1>a DEF Export, ExportUnacknowledged, GiveUp, Fail, Retry
    <2>2. /\ records' \subseteq records \cup {Batch(w)}
          /\ flight' \subseteq flight \cup {Batch(w)}
      BY <1>3 DEF Export, ExportUnacknowledged, Store
    <2>3. Batch(w).node = NodeOf[obj[w]]
      BY DEF Batch
    <2> QED
      BY <2>1, <2>2, <2>3 DEF Labelling
  <1>4. CASE Identify(w)
    <2>1. labels' = labels /\ records' = records /\ flight' = flight /\ obj' = obj /\ pc[w] = "identify"
      BY <1>4 DEF Identify
    <2> QED
      BY <2>1 DEF Labelling
  <1>5. CASE labels' = labels /\ records' = records /\ flight' = flight /\ pc'[w] \notin {"identify", "export"}
    BY <1>5 DEF Labelling
  <1>6. \/ Label(w) \/ (\E applied \in BOOLEAN : LabelFailed(w, applied))
        \/ Export(w) \/ ExportUnacknowledged(w) \/ Identify(w)
        \/ labels' = labels /\ records' = records /\ flight' = flight /\ pc'[w] \notin {"identify", "export"}
    <2> USE <1>a
    <2>1. CASE (\E k \in Keys : GetItem(w, k)) \/ WorkerExit(w) \/ Skip(w) \/ Accept(w) \/ Finish(w)
      BY <2>1 DEF GetItem, WorkerExit, Skip, GiveUp, Accept, Finish
    <2>2. CASE Jitter(w) \/ JitterCancelled(w) \/ Exec(w) \/ ExecNoGPU(w) \/ ExecFailed(w)
      BY <2>2 DEF Jitter, JitterCancelled, GiveUp, Exec, ExecNoGPU, ExecFailed, Fail, Retry
    <2>3. CASE IdentifyFailed(w) \/ ExportNothing(w) \/ ExportFailed(w)
      BY <2>3 DEF IdentifyFailed, ExportNothing, GiveUp, ExportFailed, Fail, Retry
    <2> QED
      BY <2>1, <2>2, <2>3 DEF Worker, ProcessPod
  <1> QED
    BY <1>1, <1>2, <1>3, <1>4, <1>5, <1>6

LEMMA NextLabelled ==
  ASSUME TypeInv, Labelled, [Next]_vars
  PROVE  Labelled'
  <1>1. ASSUME NEW w \in Workers, Worker(w) PROVE Labelled'
    <2>a. Labelling(w)
      BY <1>1, WorkerLabels
    <2>b. \A v \in Workers \ {w} : pc'[v] = pc[v] /\ obj'[v] = obj[v]
      BY <1>1, WorkerHasFrame DEF TypeInv, WorkerFrame
    <2>c. NodeOf \in [UIDs -> Nodes] /\ \A v \in Workers : pc[v] \in Pipeline => obj[v] \in UIDs
      BY ConstantsOK DEF ConstantsOK, TypeInv, WorkerOK
    <2>d. \A r \in records \cup flight : r.node \in Nodes
      BY DEF TypeInv, TypeOK, Reading
    <2>1. ASSUME NEW r \in records' \cup flight' PROVE labels'[r.node] # None
      <3>1. CASE r \in records \cup flight
        BY <2>a, <2>d, <3>1 DEF Labelling, Labelled
      <3>2. CASE pc[w] = "export" /\ r.node = NodeOf[obj[w]]
        BY <2>a, <2>c, <3>2 DEF Labelling, Labelled, Pipeline
      <3> QED
        BY <2>a, <3>1, <3>2 DEF Labelling
    <2>2. ASSUME NEW v \in Workers, pc'[v] \in {"identify", "export"}
          PROVE  labels'[NodeOf[obj'[v]]] # None
      <3>1. CASE v = w
        BY <2>a, <2>c, <2>2, <3>1 DEF Labelling, Labelled, Pipeline
      <3>2. CASE v # w
        BY <2>a, <2>b, <2>c, <2>2, <3>2 DEF Labelling, Labelled, Pipeline
      <3> QED
        BY <3>1, <3>2
    <2> QED
      BY <2>1, <2>2 DEF Labelled
  <1>2. ASSUME labels' = labels, records' \cup flight' \subseteq records \cup flight,
               UNCHANGED <<pc, obj>> \/ (\A w \in Workers : pc'[w] \in {"off", "get"})
        PROVE  Labelled'
    BY <1>2 DEF Labelled
  <1>3. CASE Environment
    <2>1. CASE Restart
      <3>1. \A r \in Sent : labels[r.node] # None
        <4>1. \A w \in Workers : Batch(w).node = NodeOf[obj[w]]
          BY DEF Batch
        <4> QED
          BY <4>1 DEF Sent, Labelled
      <3>2. /\ \A r \in records' \cup flight' : r \in records \cup flight \/ r \in Sent
            /\ labels' = labels /\ \A w \in Workers : pc'[w] = "off"
        BY <2>1 DEF Restart
      <3> QED
        BY <3>1, <3>2 DEF Labelled
    <2>2. CASE ~Restart
      <3>1. UNCHANGED <<pc, obj, labels>> /\ records' \cup flight' \subseteq records \cup flight
        BY <1>3, <2>2 DEF Store, Environment, CreatePod, Expire, BecomeReady, BecomeUnready,
           DeletePod, Disturb, Resync, Cancel, Arrive
      <3> QED
        BY <1>2, <3>1
    <2> QED
      BY <2>1, <2>2
  <1>4. CASE StartWorkers
    BY <1>2, <1>4 DEF StartWorkers
  <1>5. CASE Informer \/ SyncFailed \/ StartDrain \/ StopInformer \/ Return
    <2>1. UNCHANGED <<pc, obj, labels, records, flight>>
      BY <1>5 DEF Informer, List, Watch, Handle, SyncFailed, StartDrain, StopInformer, Return
    <2> QED
      BY <1>2, <2>1
  <1>6. CASE (\E k \in Keys : RetryDelayOver(k)) \/ UNCHANGED vars
    <2>1. UNCHANGED <<pc, obj, labels, records, flight>>
      BY <1>6 DEF RetryDelayOver, vars
    <2> QED
      BY <1>2, <2>1
  <1> QED
    BY <1>1, <1>3, <1>4, <1>5, <1>6 DEF Next, Controller

(* A record never names a node without labels, whatever failed or was       *)
(* killed on the way (worker.go:165-212).                                   *)
THEOREM LabelsFirst == Spec => []LabelledBeforeStored
  <1>1. Init => Labelled
    BY DEF Init, Labelled
  <1>2. TypeInv /\ Labelled /\ [Next]_vars => Labelled'
    BY NextLabelled
  <1>3. HoldingInv => TypeInv
    BY DEF HoldingInv
  <1>4. Labelled => LabelledBeforeStored
    BY DEF Labelled, LabelledBeforeStored
  <1> QED
    BY <1>1, <1>2, <1>3, <1>4, HoldingInvariant, PTL DEF Spec

(* The strengthening of LastOneLeavesNothing: no worker leaves a queue that *)
(* is open, and somebody is there as long as a key is dirty.                *)
Serving == phase \in {"running", "draining", "stopping"}

Staffed ==
  Serving =>
    /\ shuttingDown \/ \A w \in Workers : pc[w] # "off"
    /\ dirty = {} \/ \E w \in Workers : pc[w] # "off"

(* A call on a queue that shuts down makes no key dirty. *)
LEMMA ClosedQueueDrains ==
  ASSUME TypeInv, HeldIsProcessing, [Next]_vars, ~Restart
  PROVE  shuttingDown => shuttingDown' /\ dirty' \subseteq dirty
  <1>1. CASE ShutDown \/ UNCHANGED queueVars
    BY <1>1 DEF ShutDown
  <1>2. CASE \E k \in Keys : ProperCall(k)
    BY <1>2 DEF ProperCall, Add, Push, Get, AddRateLimited, DelayOver, Forget, Done
  <1>3. CASE NewQueue
    <2>1. CASE Environment \/ Informer \/ UNCHANGED vars
      BY <1>3, <2>1 DEF NewQueue, vars, Environment, CreatePod, Expire, BecomeReady,
         BecomeUnready, DeletePod, Disturb, Resync, Cancel, Arrive, Informer, List,
         Watch, Handle, Add
    <2>2. CASE Controller
      BY <1>3, <2>2 DEF NewQueue, Controller, StartWorkers, SyncFailed, StartDrain,
         StopInformer, Return, ShutDown
    <2>3. CASE \E w \in Workers : Worker(w)
      BY <1>3, <2>3, WorkerHasFrame DEF NewQueue, TypeInv, WorkerFrame
    <2>4. CASE \E k \in Keys : RetryDelayOver(k)
      BY <1>3, <2>4 DEF NewQueue, RetryDelayOver, DelayOver
    <2> QED
      BY <2>1, <2>2, <2>3, <2>4 DEF Next
  <1> QED
    BY <1>1, <1>2, <1>3, NextQueueStep DEF QueueStep

LEMMA OnlyExitLeaves ==
  ASSUME TypeInv, NEW w \in Workers, Worker(w), ~WorkerExit(w)
  PROVE  pc'[w] # "off"
  <1>a. pc \in [Workers -> Steps] /\ pc[w] # "off"
    BY WorkerHasFrame DEF TypeInv, TypeOK, WorkerFrame
  <1>1. CASE \E k \in Keys : GetItem(w, k)
    BY <1>1, <1>a DEF GetItem
  <1>2. CASE Finish(w)
    BY <1>2, <1>a DEF Finish
  <1>3. CASE Inside(w) /\ (Busy(w) \/ Busy(w)')
    BY <1>3 DEF Inside, Busy, Pipeline
  <1>4. CASE Inside(w) /\ ~Busy(w)
    <2>1. pc[w] = "get"
      BY <1>4, <1>a DEF Busy, Steps
    <2>2. ~ProcessPod(w)
      <3>1. ~(Jitter(w) \/ JitterCancelled(w) \/ Exec(w) \/ ExecNoGPU(w) \/ ExecFailed(w))
        BY <2>1 DEF Jitter, JitterCancelled, Exec, ExecNoGPU, ExecFailed
      <3>2. ~(Label(w) \/ Identify(w) \/ IdentifyFailed(w))
        BY <2>1 DEF Label, Identify, IdentifyFailed
      <3>3. ~\E applied \in BOOLEAN : LabelFailed(w, applied)
        BY <2>1 DEF LabelFailed
      <3>4. ~(Export(w) \/ ExportNothing(w) \/ ExportFailed(w) \/ ExportUnacknowledged(w))
        BY <2>1 DEF Export, ExportNothing, ExportFailed, ExportUnacknowledged
      <3> QED
        BY <3>1, <3>2, <3>3, <3>4 DEF ProcessPod
    <2>3. ~(Skip(w) \/ Accept(w) \/ Finish(w))
      BY <2>1 DEF Skip, Accept, Finish
    <2> QED
      BY <1>1, <2>2, <2>3 DEF Worker
  <1> QED
    BY <1>1, <1>2, <1>3, <1>4, WorkerKinds

(* The last worker to leave finds nothing queued, and so nothing dirty:     *)
(* only a key that somebody holds is dirty and not queued.                  *)
LEMMA ExitLeavesNothing ==
  ASSUME HoldingInv, Staffed, NEW w \in Workers, WorkerExit(w)
  PROVE  Staffed'
  <1>a. pc \in [Workers -> Steps] /\ pc[w] = "get" /\ pc' = [pc EXCEPT ![w] = "off"]
    BY DEF HoldingInv, TypeInv, TypeOK, WorkerExit
  <1>b. shuttingDown' /\ queue = <<>> /\ UNCHANGED <<phase, dirty>>
    BY DEF WorkerExit, NothingLeft
  <1>1. dirty \subseteq processing
    BY <1>b DEF HoldingInv, QueueIsDirtyAndFree
  <1>2. ASSUME NEW k \in dirty PROVE \E v \in Workers : pc'[v] # "off"
    <2>1. PICK v \in Workers : Busy(v)
      BY <1>1 DEF HoldingInv, Holding, HeldIsProcessing
    <2>2. v # w /\ pc[v] # "off"
      BY <1>a, <2>1 DEF Busy, Pipeline
    <2> QED
      BY <1>a, <2>2
  <1> QED
    BY <1>b, <1>2 DEF Staffed

LEMMA NextStaffed ==
  ASSUME HoldingInv, Staffed, [Next]_vars
  PROVE  Staffed'
  <1>a. TypeInv /\ HeldIsProcessing
    BY DEF HoldingInv, Holding
  <1>1. CASE Restart \/ SyncFailed \/ Return
    BY <1>1 DEF Staffed, Serving, Restart, SyncFailed, Return
  <1>2. CASE StartWorkers
    <2>1. \A w \in Workers : pc'[w] # "off"
      BY <1>2 DEF StartWorkers
    <2> QED
      BY <2>1, ConstantsOK DEF Staffed, ConstantsOK
  <1>3. ASSUME pc' = pc, ~Restart, Serving' => Serving PROVE Staffed'
    <2>1. shuttingDown => shuttingDown' /\ dirty' \subseteq dirty
      BY <1>a, <1>3, ClosedQueueDrains
    <2> QED
      BY <1>3, <2>1, ConstantsOK DEF Staffed, ConstantsOK
  <1>4. CASE Environment
    BY <1>1, <1>3, <1>4 DEF Serving, Environment, CreatePod, Expire, BecomeReady,
       BecomeUnready, DeletePod, Disturb, Resync, Cancel, Arrive
  <1>5. CASE ~Restart /\ (Informer \/ StartDrain \/ StopInformer)
    BY <1>3, <1>5 DEF Serving, Informer, List, Watch, Handle, StartDrain, StopInformer
  <1>6. CASE ~Restart /\ ((\E k \in Keys : RetryDelayOver(k)) \/ UNCHANGED vars)
    BY <1>3, <1>6 DEF Serving, RetryDelayOver, vars
  <1>7. ASSUME NEW w \in Workers, Worker(w) PROVE Staffed'
    <2>1. CASE WorkerExit(w)
      BY <2>1, ExitLeavesNothing
    <2>2. CASE ~WorkerExit(w)
      <3>1. pc'[w] # "off"
        BY <1>a, <1>7, <2>2, OnlyExitLeaves
      <3>2. /\ UNCHANGED <<phase, shuttingDown>>
            /\ \A v \in Workers \ {w} : pc'[v] = pc[v]
        BY <1>a, <1>7, WorkerHasFrame DEF TypeInv, WorkerFrame
      <3> QED
        BY <3>1, <3>2 DEF Staffed, Serving
    <2> QED
      BY <2>1, <2>2
  <1> QED
    BY <1>1, <1>2, <1>4, <1>5, <1>6, <1>7 DEF Next, Controller

(* When the last worker has gone no key is left to anybody: what was added  *)
(* again while it was held is taken up before its holder leaves             *)
(* (worker.go:54-63, service.go:319-324).                                   *)
THEOREM NothingLeftBehind == Spec => []LastOneLeavesNothing
  <1>1. Init => Staffed
    BY DEF Init, Staffed, Serving
  <1>2. HoldingInv /\ Staffed /\ [Next]_vars => Staffed'
    BY NextStaffed
  <1>3. HoldingInv /\ Staffed => LastOneLeavesNothing
    <2> SUFFICES ASSUME HoldingInv, Staffed, Serving, \A w \in Workers : pc[w] = "off"
                 PROVE  dirty = {} /\ processing = {}
      BY DEF LastOneLeavesNothing, Serving
    <2>1. processing = {}
      BY DEF HoldingInv, Holding, HeldIsProcessing, Busy, Pipeline
    <2> QED
      BY <2>1 DEF Staffed
  <1> QED
    BY <1>1, <1>2, <1>3, HoldingInvariant, PTL DEF Spec
==============================================================================
