--------------------------- MODULE ReconcilerProofs ---------------------------
(***************************************************************************)
(* Proofs that the invariants of Reconciler hold for every set of pods,    *)
(* nodes and workers and every bound, after what the operations of the     *)
(* work queue preserve.                                                    *)
(***************************************************************************)
EXTENDS Reconciler, TLAPS

(* ------------------------ the work queue -------------------------------- *)
(* The types of its variables, and the agreement between the sequence and   *)
(* the sets beside it.                                                      *)

(* What one call on key k may be. *)
QueueCall(k) ==
  \/ Add(k) \/ Get(k) \/ Done(k) \/ AddRateLimited(k) \/ DelayOver(k)
  \/ Forget(k) \/ ShutDown \/ UNCHANGED queueVars

(* Every call keeps the queue a sequence of keys and the rest sets of keys. *)
LEMMA QueueCallTyped ==
  ASSUME NEW k \in Keys, QueueTypeOK, QueueCall(k)
  PROVE  QueueTypeOK'
  <1> USE DEF QueueTypeOK, queueVars
  <1>1. Push(k) => queue' \in Seq(Keys) /\ dirty' \subseteq Keys
    BY DEF Push
  <1>2. CASE Add(k)
    BY <1>1, <1>2 DEF Add
  <1>3. CASE Get(k)
    <2>1. queue' \in Seq(Keys)
      BY <1>3 DEF Get
    <2> QED
      BY <1>3, <2>1 DEF Get
  <1>4. CASE Done(k)
    <2>1. queue' \in Seq(Keys)
      BY <1>4 DEF Done
    <2> QED
      BY <1>4, <2>1 DEF Done
  <1>5. CASE AddRateLimited(k)
    BY <1>5 DEF AddRateLimited
  <1>6. CASE DelayOver(k)
    BY <1>1, <1>6 DEF DelayOver
  <1>7. CASE Forget(k)
    BY <1>7 DEF Forget
  <1>8. CASE ShutDown
    <2>1. queue' \in Seq(Keys) /\ dirty' \subseteq Keys /\ processing' \subseteq Keys
          /\ waiting' \subseteq Keys /\ limited' \subseteq Keys
      BY <1>8 DEF ShutDown
    <2>2. shuttingDown' \in BOOLEAN
      BY <1>8 DEF ShutDown
    <2> QED
      BY <2>1, <2>2
  <1>9. CASE UNCHANGED queueVars
    BY <1>9
  <1> QED
    BY <1>2, <1>3, <1>4, <1>5, <1>6, <1>7, <1>8, <1>9 DEF QueueCall

(* A key that is not queued may be appended. *)
LEMMA AppendKeepsDistinct ==
  ASSUME NEW s \in Seq(Keys), NEW k \in Keys,
         \A i, j \in 1 .. Len(s) : s[i] = s[j] => i = j,
         k \notin {s[i] : i \in 1 .. Len(s)}
  PROVE  LET t == Append(s, k) IN
         /\ \A i, j \in 1 .. Len(t) : t[i] = t[j] => i = j
         /\ {t[i] : i \in 1 .. Len(t)} = {s[i] : i \in 1 .. Len(s)} \cup {k}
  <1> DEFINE t == Append(s, k)
  <1>1. /\ Len(s) \in Nat
        /\ Len(t) = Len(s) + 1
        /\ \A i \in 1 .. Len(s) : t[i] = s[i]
        /\ t[Len(s) + 1] = k
    OBVIOUS
  <1>2. \A i \in 1 .. Len(t) : i \in 1 .. Len(s) \/ i = Len(s) + 1
    BY <1>1
  <1>3. {t[i] : i \in 1 .. Len(t)} = {s[i] : i \in 1 .. Len(s)} \cup {k}
    BY <1>1, <1>2
  <1>4. \A i, j \in 1 .. Len(t) : t[i] = t[j] => i = j
    BY <1>1, <1>2
  <1> QED
    BY <1>3, <1>4

(* Taking the head leaves every other queued key, once. *)
LEMMA TailKeepsDistinct ==
  ASSUME NEW s \in Seq(Keys), s # <<>>,
         \A i, j \in 1 .. Len(s) : s[i] = s[j] => i = j
  PROVE  LET t == Tail(s) IN
         /\ \A i, j \in 1 .. Len(t) : t[i] = t[j] => i = j
         /\ {t[i] : i \in 1 .. Len(t)} = {s[i] : i \in 1 .. Len(s)} \ {Head(s)}
  <1> DEFINE t == Tail(s)
  <1>1. /\ Len(s) \in Nat \ {0}
        /\ Len(t) = Len(s) - 1
        /\ \A i \in 1 .. Len(t) : t[i] = s[i + 1]
        /\ Head(s) = s[1]
    OBVIOUS
  <1>2. \A i \in 1 .. Len(t) : i + 1 \in 1 .. Len(s) /\ i + 1 # 1
    BY <1>1
  <1>3. \A i \in 1 .. Len(s) : i # 1 => i - 1 \in 1 .. Len(t) /\ s[i] = t[i - 1]
    BY <1>1
  <1>4. {t[i] : i \in 1 .. Len(t)} \subseteq {s[i] : i \in 1 .. Len(s)} \ {Head(s)}
    BY <1>1, <1>2
  <1>5. {s[i] : i \in 1 .. Len(s)} \ {Head(s)} \subseteq {t[i] : i \in 1 .. Len(t)}
    BY <1>1, <1>3
  <1>6. \A i, j \in 1 .. Len(t) : t[i] = t[j] => i = j
    BY <1>1, <1>2
  <1> QED
    BY <1>4, <1>5, <1>6

(* Push marks k dirty unless the queue shuts down, and keeps the agreement. *)
LEMMA PushKeepsQueue ==
  ASSUME NEW k \in Keys, QueueTypeOK, QueueIsDirtyAndFree,
         Push(k), processing' = processing
  PROVE  /\ QueueIsDirtyAndFree'
         /\ ~shuttingDown => dirty' = dirty \cup {k}
         /\ dirty \subseteq dirty'
  <1> USE DEF QueueTypeOK, QueueIsDirtyAndFree
  <1>1. CASE shuttingDown \/ k \in dirty
    BY <1>1 DEF Push
  <1>2. CASE ~shuttingDown /\ k \notin dirty /\ k \in processing
    BY <1>2 DEF Push
  <1>3. CASE ~shuttingDown /\ k \notin dirty /\ k \notin processing
    <2>1. queue' = Append(queue, k) /\ dirty' = dirty \cup {k}
      BY <1>3 DEF Push
    <2> QED
      BY <1>3, <2>1, AppendKeepsDistinct
  <1> QED
    BY <1>1, <1>2, <1>3

(* The key Get returns was dirty and in nobody's hands. *)
LEMMA GetKeepsQueue ==
  ASSUME NEW k \in Keys, QueueTypeOK, QueueIsDirtyAndFree, Get(k)
  PROVE  /\ QueueIsDirtyAndFree'
         /\ k \in dirty \ processing
  <1> USE DEF QueueTypeOK, QueueIsDirtyAndFree
  <1>1. Len(queue) \in Nat \ {0} /\ Head(queue) = queue[1]
    BY DEF Get
  <1>2. k \in dirty \ processing
    BY <1>1 DEF Get
  <1>3. /\ \A i, j \in 1 .. Len(queue') : queue'[i] = queue'[j] => i = j
        /\ {queue'[i] : i \in 1 .. Len(queue')}
             = {queue[i] : i \in 1 .. Len(queue)} \ {k}
    <2>1. queue \in Seq(Keys) /\ queue # <<>> /\ k = Head(queue) /\ queue' = Tail(queue)
      BY DEF Get
    <2> DEFINE t == Tail(queue)
    <2>2. /\ \A i, j \in 1 .. Len(t) : t[i] = t[j] => i = j
          /\ {t[i] : i \in 1 .. Len(t)}
               = {queue[i] : i \in 1 .. Len(queue)} \ {Head(queue)}
      <3> HIDE DEF QueueTypeOK
      <3> QED
        BY <2>1, TailKeepsDistinct
    <2> QED
      BY <2>1, <2>2
  <1>4. (dirty \ processing) \ {k} = dirty' \ processing'
    BY DEF Get
  <1> QED
    BY <1>2, <1>3, <1>4

(* Done must be given a key that is being processed. *)
LEMMA DoneKeepsQueue ==
  ASSUME NEW k \in processing, QueueTypeOK, QueueIsDirtyAndFree, Done(k)
  PROVE  QueueIsDirtyAndFree'
  <1> USE DEF QueueTypeOK, QueueIsDirtyAndFree
  <1>1. CASE k \in dirty
    <2>1. queue' = Append(queue, k) /\ dirty' = dirty /\ processing' = processing \ {k}
      BY <1>1 DEF Done
    <2>2. k \notin {queue[i] : i \in 1 .. Len(queue)}
      OBVIOUS
    <2>3. dirty' \ processing' = (dirty \ processing) \cup {k}
      BY <1>1, <2>1
    <2> QED
      BY <2>1, <2>2, <2>3, AppendKeepsDistinct
  <1>2. CASE k \notin dirty
    <2>1. queue' = queue /\ dirty' = dirty /\ processing' = processing \ {k}
      BY <1>2 DEF Done
    <2>2. dirty' \ processing' = dirty \ processing
      BY <1>2, <2>1
    <2> QED
      BY <2>1, <2>2
  <1> QED
    BY <1>1, <1>2

(* A call in a state where its caller may make it: only a key that is being *)
(* processed is given to Done.                                              *)
ProperCall(k) ==
  \/ Add(k) \/ Get(k) \/ AddRateLimited(k) \/ DelayOver(k) \/ Forget(k)
  \/ /\ k \in processing
     /\ Done(k)

LEMMA ProperCallKeepsQueue ==
  ASSUME NEW k \in Keys, QueueTypeOK, QueueIsDirtyAndFree, ProperCall(k)
  PROVE  QueueIsDirtyAndFree'
  <1>1. CASE Add(k)
    BY <1>1, PushKeepsQueue DEF Add
  <1>2. CASE Get(k)
    BY <1>2, GetKeepsQueue
  <1>3. CASE k \in processing /\ Done(k)
    BY <1>3, DoneKeepsQueue
  <1>4. CASE DelayOver(k)
    BY <1>4, PushKeepsQueue DEF DelayOver
  <1>5. CASE AddRateLimited(k) \/ Forget(k)
    BY <1>5 DEF AddRateLimited, Forget, QueueIsDirtyAndFree
  <1> QED
    BY <1>1, <1>2, <1>3, <1>4, <1>5 DEF ProperCall

USE DEF podVars, informerVars, lifeVars, workerVars, settledVars, storeVars,
        queueVars

(* ----------------------------- types ------------------------------------ *)
(* TypeOK is not inductive: what AddRateLimited is given, what is           *)
(* stored and how far errs can grow depend on the worker's step.            *)

TypeInv == TypeOK /\ WorkerOK /\ NamesOK /\ LifeOK

LEMMA InitTypeInv == Init => TypeInv
  <1> SUFFICES ASSUME Init PROVE TypeInv
    OBVIOUS
  <1> USE ConstantsOK DEF ConstantsOK, Init
  <1>1. TypeOK
    <2>1. QueueTypeOK
      <3>1. queue \in Seq(Keys)
        BY DEF EmptyQueue
      <3> QED
        BY <3>1 DEF QueueTypeOK, EmptyQueue
    <2>2. pod \in [Keys -> Pod] /\ cache \in [Keys -> Pod]
      BY DEF Pod, NoPod
    <2>3. pc \in [Workers -> Steps] /\ phase \in Phases
      BY DEF Steps, Phases
    <2>4. /\ item \in [Workers -> Keys \cup {None}]
          /\ obj \in [Workers -> UIDs \cup {None}]
          /\ read \in [Workers -> Nodes \cup {None}]
          /\ labels \in [Nodes -> Nodes \cup {None}]
          /\ errs \in [Workers -> 0 .. 2]
      OBVIOUS
    <2>5. /\ churn \in 0 .. MaxChurn
          /\ faults \in 0 .. MaxFaults
          /\ restarts \in 0 .. MaxRestarts
      OBVIOUS
    <2>6. listed \in BOOLEAN /\ ctxDone \in BOOLEAN
      OBVIOUS
    <2> QED
      BY <2>1, <2>2, <2>3, <2>4, <2>5, <2>6 DEF TypeOK
  <1>2. WorkerOK
    BY DEF WorkerOK, Pipeline, Busy
  <1>3. NamesOK
    BY DEF NamesOK, Exists, NoPod
  <1>4. LifeOK
    BY DEF LifeOK, EmptyQueue
  <1> QED
    BY <1>1, <1>2, <1>3, <1>4 DEF TypeInv

(* Changing the readiness of a pod, or taking it away, gives a pod again. *)
LEMMA PodUpdates ==
  /\ NoPod \in Pod
  /\ \A u \in UIDs : [uid |-> u, ready |-> FALSE] \in Pod
  /\ \A p \in Pod : Exists(p) => p.uid \in UIDs
  /\ \A p \in Pod : p.ready => Exists(p)
  /\ \A p \in Pod, b \in BOOLEAN : Exists(p) => [p EXCEPT !.ready = b] \in Pod
  /\ \A p \in Pod, b \in BOOLEAN : [p EXCEPT !.ready = b].uid = p.uid
  BY ConstantsOK DEF ConstantsOK, Pod, NoPod, Exists

(* A step that no worker takes leaves WorkerOK alone, one that neither the  *)
(* API server nor the informer takes leaves NamesOK alone.                  *)
LEMMA WorkersUntouched ==
  ASSUME WorkerOK, UNCHANGED workerVars
  PROVE  WorkerOK'
  BY DEF WorkerOK, Busy

LEMMA QueueUntouched ==
  ASSUME QueueTypeOK, UNCHANGED queueVars
  PROVE  QueueTypeOK'
  BY DEF QueueTypeOK

LEMMA ShutDownTyped ==
  ASSUME QueueTypeOK, ShutDown
  PROVE  QueueTypeOK'
  BY DEF ShutDown, QueueTypeOK

LEMMA NamesUntouched ==
  ASSUME NamesOK, UNCHANGED <<pod, cache>>
  PROVE  NamesOK'
  BY DEF NamesOK

LEMMA LifeUntouched ==
  ASSUME LifeOK, UNCHANGED <<phase, ctxDone, shuttingDown, pc>>
  PROVE  LifeOK'
  BY DEF LifeOK

(* What a process has sent when it dies are readings of pods.               *)
LEMMA SentTyped ==
  ASSUME TypeOK, WorkerOK
  PROVE  Sent \subseteq Reading
  <1>1. ASSUME NEW w \in Workers, pc[w] = "export" PROVE Batch(w) \in Reading
    BY <1>1, ConstantsOK DEF ConstantsOK, WorkerOK, Pipeline, Batch, Reading
  <1> QED
    BY <1>1 DEF Sent

LEMMA EnvironmentTypeInv == TypeInv /\ Environment => TypeInv'
  <1> SUFFICES ASSUME TypeInv, Environment PROVE TypeInv'
    OBVIOUS
  <1> USE ConstantsOK DEF ConstantsOK, TypeInv
  <1>1. ASSUME NEW u \in UIDs, CreatePod(u) PROVE TypeInv'
    <2>1. TypeOK'
      BY <1>1, QueueUntouched DEF TypeOK, CreatePod, Pod, NoPod
    <2>2. WorkerOK'
      BY <1>1, WorkersUntouched DEF CreatePod
    <2>3. NamesOK'
      BY <1>1 DEF TypeOK, NamesOK, Exists, Pod, NoPod, CreatePod
    <2>4. LifeOK'
      BY <1>1, LifeUntouched DEF CreatePod
    <2> QED
      BY <2>1, <2>2, <2>3, <2>4
  <1>2. ASSUME NEW u \in UIDs, Expire(u) PROVE TypeInv'
    <2>1. TypeOK'
      BY <1>2, QueueUntouched DEF TypeOK, Expire
    <2>2. WorkerOK'
      BY <1>2, WorkersUntouched DEF Expire
    <2>3. NamesOK'
      BY <1>2, NamesUntouched DEF Expire
    <2>4. LifeOK'
      BY <1>2, LifeUntouched DEF Expire
    <2> QED
      BY <2>1, <2>2, <2>3, <2>4
  <1>3. ASSUME NEW k \in Keys, BecomeReady(k) PROVE TypeInv'
    <2>1. TypeOK'
      <3>1. pod[k] \in Pod
        BY DEF TypeOK
      <3>2. pod' \in [Keys -> Pod]
        BY <1>3, <3>1, PodUpdates DEF TypeOK, BecomeReady
      <3> QED
        BY <1>3, <3>2, QueueUntouched DEF TypeOK, BecomeReady
    <2>2. WorkerOK'
      BY <1>3, WorkersUntouched DEF BecomeReady
    <2>3. NamesOK'
      BY <1>3 DEF TypeOK, NamesOK, Exists, Pod, NoPod, BecomeReady
    <2>4. LifeOK'
      BY <1>3, LifeUntouched DEF BecomeReady
    <2> QED
      BY <2>1, <2>2, <2>3, <2>4
  <1>4. ASSUME NEW k \in Keys, BecomeUnready(k) PROVE TypeInv'
    <2>1. TypeOK'
      <3>1. pod[k] \in Pod
        BY DEF TypeOK
      <3>2. pod' \in [Keys -> Pod]
        BY <1>4, <3>1, PodUpdates DEF TypeOK, BecomeUnready, Disturb
      <3> QED
        BY <1>4, <3>2, QueueUntouched DEF TypeOK, BecomeUnready, Disturb
    <2>2. WorkerOK'
      BY <1>4, WorkersUntouched DEF BecomeUnready, Disturb
    <2>3. NamesOK'
      BY <1>4 DEF TypeOK, NamesOK, Exists, Pod, NoPod, BecomeUnready, Disturb
    <2>4. LifeOK'
      BY <1>4, LifeUntouched DEF BecomeUnready, Disturb
    <2> QED
      BY <2>1, <2>2, <2>3, <2>4
  <1>5. ASSUME NEW k \in Keys, DeletePod(k) PROVE TypeInv'
    <2>1. TypeOK'
      BY <1>5, QueueUntouched DEF TypeOK, DeletePod, Disturb, Pod, NoPod
    <2>2. WorkerOK'
      BY <1>5, WorkersUntouched DEF DeletePod, Disturb
    <2>3. NamesOK'
      BY <1>5 DEF TypeOK, NamesOK, Exists, Pod, NoPod, DeletePod, Disturb
    <2>4. LifeOK'
      BY <1>5, LifeUntouched DEF DeletePod, Disturb
    <2> QED
      BY <2>1, <2>2, <2>3, <2>4
  <1>6. ASSUME NEW k \in Keys, Resync(k) PROVE TypeInv'
    <2>1. TypeOK'
      BY <1>6, QueueUntouched DEF TypeOK, Resync
    <2>2. WorkerOK'
      BY <1>6, WorkersUntouched DEF Resync
    <2>3. NamesOK'
      BY <1>6, NamesUntouched DEF Resync
    <2>4. LifeOK'
      BY <1>6, LifeUntouched DEF Resync
    <2> QED
      BY <2>1, <2>2, <2>3, <2>4
  <1>7. ASSUME Cancel PROVE TypeInv'
    <2>1. TypeOK'
      BY <1>7, QueueUntouched DEF TypeOK, Cancel
    <2>2. WorkerOK'
      BY <1>7, WorkersUntouched DEF Cancel
    <2>3. NamesOK'
      BY <1>7, NamesUntouched DEF Cancel
    <2>4. LifeOK'
      BY <1>7 DEF LifeOK, Cancel
    <2> QED
      BY <2>1, <2>2, <2>3, <2>4
  <1>8. ASSUME Restart PROVE TypeInv'
    <2>1. TypeOK'
      <3>1. cache' \in [Keys -> Pod] /\ pc' \in [Workers -> Steps] /\ phase' \in Phases
        BY <1>8, PodUpdates DEF Restart, Steps, Phases
      <3>2. excused' \subseteq UIDs /\ flight' \subseteq Reading
        <4>1. PICK S \in SUBSET Sent :
                flight' = flight \cup S /\ excused' = excused \cup Stored \cup {r.uid : r \in S}
          BY <1>8 DEF Restart
        <4>2. Sent \subseteq Reading
          BY SentTyped
        <4>3. {r.uid : r \in S} \subseteq UIDs /\ Stored \subseteq UIDs
          BY <4>2 DEF TypeOK, Stored, Reading
        <4> QED
          BY <4>1, <4>2, <4>3 DEF TypeOK
      <3>3. QueueTypeOK'
        <4>1. queue' \in Seq(Keys)
          BY <1>8 DEF Restart, NewQueue
        <4> QED
          BY <1>8, <4>1 DEF Restart, NewQueue, QueueTypeOK
      <3>4. /\ item' \in [Workers -> Keys \cup {None}]
            /\ obj' \in [Workers -> UIDs \cup {None}]
            /\ read' \in [Workers -> Nodes \cup {None}]
            /\ errs' \in [Workers -> 0 .. 2]
        BY <1>8 DEF Restart
      <3>5. restarts' \in 0 .. MaxRestarts
        BY <1>8 DEF TypeOK, Restart
      <3>6. listed' \in BOOLEAN /\ ctxDone' \in BOOLEAN
        BY <1>8 DEF Restart
      <3> QED
        BY <1>8, <3>1, <3>2, <3>3, <3>4, <3>5, <3>6 DEF TypeOK, Restart
    <2>2. WorkerOK'
      BY <1>8 DEF Restart, WorkerOK, Busy, Pipeline
    <2>3. NamesOK'
      BY <1>8 DEF Restart, NamesOK, TypeOK, Exists, NoPod
    <2>4. LifeOK'
      BY <1>8 DEF LifeOK, Restart, NewQueue
    <2> QED
      BY <2>1, <2>2, <2>3, <2>4
  <1>9. ASSUME NEW r \in flight, Arrive(r) PROVE TypeInv'
    <2>1. TypeOK'
      BY <1>9, QueueUntouched DEF TypeOK, Arrive, Store, Reading
    <2>2. WorkerOK'
      BY <1>9, WorkersUntouched DEF Arrive
    <2>3. NamesOK'
      BY <1>9, NamesUntouched DEF Arrive
    <2>4. LifeOK'
      BY <1>9, LifeUntouched DEF Arrive
    <2> QED
      BY <2>1, <2>2, <2>3, <2>4
  <1> QED
    BY <1>1, <1>2, <1>3, <1>4, <1>5, <1>6, <1>7, <1>8, <1>9 DEF Environment


LEMMA InformerTypeInv == TypeInv /\ Informer => TypeInv'
  <1> SUFFICES ASSUME TypeInv, Informer PROVE TypeInv'
    OBVIOUS
  <1> USE ConstantsOK DEF ConstantsOK, TypeInv
  <1>1. CASE List
    <2>1. QueueTypeOK'
      BY <1>1, QueueUntouched DEF TypeOK, List
    <2>2. TypeOK'
      BY <1>1, <2>1 DEF TypeOK, List, Notices
    <2>3. WorkerOK'
      BY <1>1, WorkersUntouched DEF List
    <2>4. NamesOK'
      BY <1>1 DEF NamesOK, List
    <2>5. LifeOK'
      BY <1>1, LifeUntouched DEF List
    <2> QED
      BY <2>2, <2>3, <2>4, <2>5
  <1>2. ASSUME NEW k \in Keys, Watch(k) PROVE TypeInv'
    <2>1. QueueTypeOK'
      BY <1>2, QueueUntouched DEF TypeOK, Watch
    <2>2. TypeOK'
      BY <1>2, <2>1 DEF TypeOK, Watch, Notices
    <2>3. WorkerOK'
      BY <1>2, WorkersUntouched DEF Watch
    <2>4. NamesOK'
      BY <1>2 DEF TypeOK, NamesOK, Watch
    <2>5. LifeOK'
      BY <1>2, LifeUntouched DEF Watch
    <2> QED
      BY <2>2, <2>3, <2>4, <2>5
  <1>3. ASSUME NEW k \in Keys, Handle(k) PROVE TypeInv'
    <2>1. QueueTypeOK'
      BY <1>3, QueueCallTyped DEF TypeOK, Handle, QueueCall
    <2>2. TypeOK'
      BY <1>3, <2>1 DEF TypeOK, Handle
    <2>3. WorkerOK'
      BY <1>3, WorkersUntouched DEF Handle
    <2>4. NamesOK'
      BY <1>3, NamesUntouched DEF Handle
    <2>5. LifeOK'
      BY <1>3, LifeUntouched DEF Handle, Add
    <2> QED
      BY <2>2, <2>3, <2>4, <2>5
  <1> QED
    BY <1>1, <1>2, <1>3 DEF Informer

LEMMA ControllerTypeInv == TypeInv /\ Controller => TypeInv'
  <1> SUFFICES ASSUME TypeInv, Controller PROVE TypeInv'
    OBVIOUS
  <1> USE ConstantsOK DEF ConstantsOK, TypeInv
  <1>1. CASE StartWorkers
    <2>1. QueueTypeOK'
      BY <1>1, QueueUntouched DEF TypeOK, StartWorkers
    <2>2. TypeOK'
      <3>1. pc' \in [Workers -> Steps] /\ phase' \in Phases
        BY <1>1 DEF StartWorkers, Phases, Steps
      <3> QED
        BY <1>1, <2>1, <3>1 DEF TypeOK, StartWorkers
    <2>3. WorkerOK'
      BY <1>1 DEF WorkerOK, LifeOK, StartWorkers, Busy, Pipeline
    <2>4. NamesOK'
      BY <1>1, NamesUntouched DEF StartWorkers
    <2>5. LifeOK'
      BY <1>1 DEF LifeOK, StartWorkers
    <2> QED
      BY <2>2, <2>3, <2>4, <2>5
  <1>2. CASE SyncFailed
    <2>1. QueueTypeOK'
      BY <1>2, ShutDownTyped DEF TypeOK, SyncFailed
    <2>2. TypeOK'
      BY <1>2, <2>1 DEF TypeOK, SyncFailed, Phases
    <2>3. WorkerOK'
      BY <1>2, WorkersUntouched DEF SyncFailed
    <2>4. NamesOK'
      BY <1>2, NamesUntouched DEF SyncFailed
    <2>5. LifeOK'
      BY <1>2 DEF LifeOK, SyncFailed, ShutDown
    <2> QED
      BY <2>2, <2>3, <2>4, <2>5
  <1>3. CASE StartDrain
    <2>1. QueueTypeOK'
      BY <1>3, ShutDownTyped DEF TypeOK, StartDrain
    <2>2. TypeOK'
      BY <1>3, <2>1 DEF TypeOK, StartDrain, Phases
    <2>3. WorkerOK'
      BY <1>3, WorkersUntouched DEF StartDrain
    <2>4. NamesOK'
      BY <1>3, NamesUntouched DEF StartDrain
    <2>5. LifeOK'
      BY <1>3 DEF LifeOK, StartDrain, ShutDown
    <2> QED
      BY <2>2, <2>3, <2>4, <2>5
  <1>4. CASE StopInformer
    <2>1. QueueTypeOK'
      BY <1>4, QueueUntouched DEF TypeOK, StopInformer
    <2>2. TypeOK'
      BY <1>4, <2>1 DEF TypeOK, StopInformer, Phases
    <2>3. WorkerOK'
      BY <1>4, WorkersUntouched DEF StopInformer
    <2>4. NamesOK'
      BY <1>4, NamesUntouched DEF StopInformer
    <2>5. LifeOK'
      BY <1>4 DEF LifeOK, StopInformer
    <2> QED
      BY <2>2, <2>3, <2>4, <2>5
  <1>5. CASE Return
    <2>1. QueueTypeOK'
      BY <1>5, QueueUntouched DEF TypeOK, Return
    <2>2. TypeOK'
      BY <1>5, <2>1 DEF TypeOK, Return, Phases
    <2>3. WorkerOK'
      BY <1>5, WorkersUntouched DEF Return
    <2>4. NamesOK'
      BY <1>5, NamesUntouched DEF Return
    <2>5. LifeOK'
      BY <1>5 DEF LifeOK, Return
    <2> QED
      BY <2>2, <2>3, <2>4, <2>5
  <1> QED
    BY <1>1, <1>2, <1>3, <1>4, <1>5 DEF Controller

(* What a step of worker w leaves alone: the pods, the informer, the life   *)
(* of the process, and everything the other workers hold.                   *)
WorkerFrame(w) ==
  /\ UNCHANGED <<podVars, informerVars, lifeVars>>
  /\ \A v \in Workers \ {w} :
       /\ pc'[v] = pc[v]
       /\ item'[v] = item[v]
       /\ obj'[v] = obj[v]
       /\ read'[v] = read[v]
       /\ errs'[v] = errs[v]
  /\ pc[w] # "off"
  /\ shuttingDown' = shuttingDown

LEMMA WorkerHasFrame ==
  ASSUME TypeOK, NEW w \in Workers, Worker(w)
  PROVE  WorkerFrame(w)
  <1> USE DEF TypeOK, WorkerFrame
  <1>1. ASSUME NEW k \in Keys, GetItem(w, k) PROVE WorkerFrame(w)
    BY <1>1 DEF GetItem, Get
  <1>2. CASE WorkerExit(w)
    BY <1>2 DEF WorkerExit
  <1>3. CASE Skip(w)
    BY <1>3 DEF Skip, GiveUp, Forget
  <1>4. CASE Accept(w)
    BY <1>4 DEF Accept
  <1>5. CASE Jitter(w)
    BY <1>5 DEF Jitter
  <1>6. CASE JitterCancelled(w)
    BY <1>6 DEF JitterCancelled, GiveUp, Forget
  <1>7. CASE Exec(w)
    BY <1>7 DEF Exec
  <1>8. CASE ExecNoGPU(w)
    BY <1>8 DEF ExecNoGPU, GiveUp, Forget
  <1>9. CASE ExecFailed(w)
    BY <1>9 DEF ExecFailed, Fail, Retry, AddRateLimited
  <1>10. CASE Label(w)
    BY <1>10 DEF Label
  <1>11. ASSUME NEW applied \in BOOLEAN, LabelFailed(w, applied) PROVE WorkerFrame(w)
    BY <1>11 DEF LabelFailed, Fail, Retry, AddRateLimited
  <1>12. CASE Identify(w)
    BY <1>12 DEF Identify
  <1>13. CASE IdentifyFailed(w)
    BY <1>13 DEF IdentifyFailed, Fail, Retry, AddRateLimited
  <1>14. CASE Export(w)
    BY <1>14 DEF Export, GiveUp, Forget
  <1>15. CASE ExportNothing(w)
    BY <1>15 DEF ExportNothing, GiveUp, Forget
  <1>16. CASE ExportFailed(w)
    BY <1>16 DEF ExportFailed, Fail, Retry, AddRateLimited
  <1>17. CASE ExportUnacknowledged(w)
    BY <1>17 DEF ExportUnacknowledged, Fail, Retry, AddRateLimited
  <1>18. CASE Finish(w)
    BY <1>18 DEF Finish, Done
  <1> QED
    BY <1>1, <1>2, <1>3, <1>4, <1>5, <1>6, <1>7, <1>8, <1>9, <1>10, <1>11,
       <1>12, <1>13, <1>14, <1>15, <1>16, <1>17, <1>18 DEF Worker, ProcessPod

(* The other workers keep what they hold. *)
LEMMA FrameKeepsWorkers ==
  ASSUME WorkerOK, NEW w \in Workers, WorkerFrame(w)
  PROVE  \A v \in Workers \ {w} :
           /\ Busy(v)' => item'[v] \in Keys
           /\ pc'[v] \in Pipeline => obj'[v] \in UIDs /\ PodOf[obj'[v]] = item'[v]
           /\ pc'[v] \in {"label", "identify", "export"} => read'[v] \in Nodes
           /\ pc'[v] \notin {"export", "done"} => errs'[v] = 0
           /\ pc'[v] = "export" => errs'[v] \in 0 .. 1
  BY DEF WorkerOK, WorkerFrame, Busy

LEMMA WorkerTypeInv ==
  ASSUME TypeInv, NEW w \in Workers, Worker(w)
  PROVE  TypeInv'
  <1> USE ConstantsOK DEF ConstantsOK, TypeInv
  <1>a. WorkerFrame(w)
    BY WorkerHasFrame
  <1>b. NamesOK'
    BY <1>a, NamesUntouched DEF WorkerFrame
  <1>e. LifeOK'
    BY <1>a DEF WorkerFrame, LifeOK
  <1>c. QueueTypeOK
    BY DEF TypeOK
  <1>d. pc[w] = "exec" /\ Exists(LivePod(w)) => NodeOf[LivePod(w).uid] \in Nodes
    <2> SUFFICES ASSUME pc[w] = "exec", Exists(LivePod(w))
                 PROVE  NodeOf[LivePod(w).uid] \in Nodes
      OBVIOUS
    <2>1. item[w] \in Keys
      BY DEF WorkerOK, Busy, Pipeline
    <2>2. LivePod(w) \in Pod
      BY <2>1 DEF LivePod, TypeOK
    <2> QED
      BY <2>2, PodUpdates
  <1>1. ASSUME NEW k \in Keys, GetItem(w, k) PROVE TypeInv'
    <2>1. QueueTypeOK'
      BY <1>1, <1>c, QueueCallTyped DEF GetItem, QueueCall, WorkerOK, Busy, Pipeline
    <2>2. TypeOK'
      BY <1>1, <2>1 DEF TypeOK, WorkerOK, Busy, Pipeline, Steps, GetItem
    <2>3. WorkerOK'
      BY <1>1, <1>a, <2>2, FrameKeepsWorkers DEF WorkerOK, TypeOK, Busy,
         Pipeline, GetItem
    <2> QED
      BY <1>b, <1>e, <2>2, <2>3
  <1>2. CASE WorkerExit(w)
    <2>1. QueueTypeOK'
      BY <1>2, <1>c, QueueUntouched DEF WorkerExit
    <2>2. TypeOK'
      BY <1>2, <2>1 DEF TypeOK, WorkerOK, Busy, Pipeline, Steps, WorkerExit
    <2>3. WorkerOK'
      BY <1>2, <1>a, <2>2, FrameKeepsWorkers DEF WorkerOK, TypeOK, Busy,
         Pipeline, WorkerExit
    <2> QED
      BY <1>b, <1>e, <2>2, <2>3
  <1>3. CASE Skip(w)
    <2>1. QueueTypeOK'
      BY <1>3, <1>c, QueueCallTyped DEF Skip, GiveUp, QueueCall, WorkerOK, Busy, Pipeline
    <2>2. TypeOK'
      BY <1>3, <2>1 DEF TypeOK, WorkerOK, Busy, Pipeline, Steps, Skip, GiveUp
    <2>3. WorkerOK'
      BY <1>3, <1>a, <2>2, FrameKeepsWorkers DEF WorkerOK, TypeOK, Busy,
         Pipeline, Skip, GiveUp
    <2> QED
      BY <1>b, <1>e, <2>2, <2>3
  <1>4. CASE Accept(w)
    <2>1. QueueTypeOK'
      BY <1>4, <1>c, QueueUntouched DEF Accept
    <2>2. TypeOK'
      <3>1. item[w] \in Keys
        BY <1>4 DEF WorkerOK, Accept, Busy
      <3>2. cache[item[w]] \in Pod /\ Exists(cache[item[w]])
        BY <1>4, <3>1 DEF TypeOK, Accept, NothingToDo
      <3>3. cache[item[w]].uid \in UIDs
        BY <3>2, PodUpdates
      <3> QED
        BY <1>4, <2>1, <3>3 DEF TypeOK, Accept, Steps, Pipeline
    <2>3. WorkerOK'
      BY <1>4, <1>a, <2>2, FrameKeepsWorkers DEF WorkerOK, TypeOK, Busy,
         Pipeline, Accept, NothingToDo, Exists, Pod, NamesOK
    <2> QED
      BY <1>b, <1>e, <2>2, <2>3
  <1>5. CASE Jitter(w)
    <2>1. QueueTypeOK'
      BY <1>5, <1>c, QueueUntouched DEF Jitter
    <2>2. TypeOK'
      BY <1>5, <2>1 DEF TypeOK, WorkerOK, Busy, Pipeline, Steps, Jitter
    <2>3. WorkerOK'
      BY <1>5, <1>a, <2>2, FrameKeepsWorkers DEF WorkerOK, TypeOK, Busy,
         Pipeline, Jitter
    <2> QED
      BY <1>b, <1>e, <2>2, <2>3
  <1>6. CASE JitterCancelled(w)
    <2>1. QueueTypeOK'
      BY <1>6, <1>c, QueueCallTyped DEF JitterCancelled, GiveUp, QueueCall, WorkerOK, Busy, Pipeline
    <2>2. TypeOK'
      BY <1>6, <2>1 DEF TypeOK, WorkerOK, Busy, Pipeline, Steps,
         JitterCancelled, GiveUp
    <2>3. WorkerOK'
      BY <1>6, <1>a, <2>2, FrameKeepsWorkers DEF WorkerOK, TypeOK, Busy,
         Pipeline, JitterCancelled, GiveUp
    <2> QED
      BY <1>b, <1>e, <2>2, <2>3
  <1>7. CASE Exec(w)
    <2>1. QueueTypeOK'
      BY <1>7, <1>c, QueueUntouched DEF Exec
    <2>2. TypeOK'
      BY <1>7, <1>d, <2>1 DEF TypeOK, Steps, Exec, Pipeline
    <2>3. WorkerOK'
      BY <1>7, <1>a, <1>d, <2>2, FrameKeepsWorkers DEF WorkerOK, TypeOK, Busy,
         Pipeline, Exec
    <2> QED
      BY <1>b, <1>e, <2>2, <2>3
  <1>8. CASE ExecNoGPU(w)
    <2>1. QueueTypeOK'
      BY <1>8, <1>c, QueueCallTyped DEF ExecNoGPU, GiveUp, QueueCall, WorkerOK, Busy, Pipeline
    <2>2. TypeOK'
      BY <1>8, <2>1 DEF TypeOK, WorkerOK, Busy, Pipeline, Steps, ExecNoGPU,
         GiveUp, Mark
    <2>3. WorkerOK'
      BY <1>8, <1>a, <2>2, FrameKeepsWorkers DEF WorkerOK, TypeOK, Busy,
         Pipeline, ExecNoGPU, GiveUp
    <2> QED
      BY <1>b, <1>e, <2>2, <2>3
  <1>9. CASE ExecFailed(w)
    <2>1. QueueTypeOK'
      BY <1>9, <1>c, QueueCallTyped DEF ExecFailed, Fail, Retry, QueueCall, WorkerOK, Busy, Pipeline
    <2>2. TypeOK'
      BY <1>9, <2>1 DEF TypeOK, WorkerOK, Busy, Pipeline, Steps, ExecFailed,
         Fail, Retry, MayFail
    <2>3. WorkerOK'
      BY <1>9, <1>a, <2>2, FrameKeepsWorkers DEF WorkerOK, TypeOK, Busy,
         Pipeline, ExecFailed, Fail, Retry
    <2> QED
      BY <1>b, <1>e, <2>2, <2>3
  <1>10. CASE Label(w)
    <2>1. QueueTypeOK'
      BY <1>10, <1>c, QueueUntouched DEF Label
    <2>2. TypeOK'
      BY <1>10, <2>1 DEF TypeOK, WorkerOK, Busy, Pipeline, Steps, Label
    <2>3. WorkerOK'
      BY <1>10, <1>a, <2>2, FrameKeepsWorkers DEF WorkerOK, TypeOK, Busy,
         Pipeline, Label
    <2> QED
      BY <1>b, <1>e, <2>2, <2>3
  <1>11. ASSUME NEW applied \in BOOLEAN, LabelFailed(w, applied) PROVE TypeInv'
    <2>1. QueueTypeOK'
      BY <1>11, <1>c, QueueCallTyped DEF LabelFailed, Fail, Retry, QueueCall, WorkerOK, Busy, Pipeline
    <2>2. TypeOK'
      BY <1>11, <2>1 DEF TypeOK, WorkerOK, Busy, Pipeline, Steps, LabelFailed,
         Fail, Retry, MayFail
    <2>3. WorkerOK'
      BY <1>11, <1>a, <2>2, FrameKeepsWorkers DEF WorkerOK, TypeOK, Busy,
         Pipeline, LabelFailed, Fail, Retry
    <2> QED
      BY <1>b, <1>e, <2>2, <2>3
  <1>12. CASE Identify(w)
    <2>1. QueueTypeOK'
      BY <1>12, <1>c, QueueUntouched DEF Identify
    <2>2. TypeOK'
      BY <1>12, <2>1 DEF TypeOK, WorkerOK, Busy, Pipeline, Steps, Identify
    <2>3. WorkerOK'
      BY <1>12, <1>a, <2>2, FrameKeepsWorkers DEF WorkerOK, TypeOK, Busy,
         Pipeline, Identify
    <2> QED
      BY <1>b, <1>e, <2>2, <2>3
  <1>13. CASE IdentifyFailed(w)
    <2>1. QueueTypeOK'
      BY <1>13, <1>c, QueueCallTyped DEF IdentifyFailed, Fail, Retry, QueueCall, WorkerOK, Busy, Pipeline
    <2>2. TypeOK'
      BY <1>13, <2>1 DEF TypeOK, WorkerOK, Busy, Pipeline, Steps,
         IdentifyFailed, Fail, Retry, MayFail
    <2>3. WorkerOK'
      BY <1>13, <1>a, <2>2, FrameKeepsWorkers DEF WorkerOK, TypeOK, Busy,
         Pipeline, IdentifyFailed, Fail, Retry
    <2> QED
      BY <1>b, <1>e, <2>2, <2>3
  <1>14. CASE Export(w)
    <2>1. QueueTypeOK'
      BY <1>14, <1>c, QueueCallTyped DEF Export, GiveUp, QueueCall, WorkerOK, Busy, Pipeline
    <2>2. TypeOK'
      BY <1>14, <2>1 DEF TypeOK, WorkerOK, Busy, Pipeline, Steps, Export,
         GiveUp, Mark, Store, Batch, Reading
    <2>3. WorkerOK'
      BY <1>14, <1>a, <2>2, FrameKeepsWorkers DEF WorkerOK, TypeOK, Busy,
         Pipeline, Export, GiveUp
    <2> QED
      BY <1>b, <1>e, <2>2, <2>3
  <1>15. CASE ExportNothing(w)
    <2>1. QueueTypeOK'
      BY <1>15, <1>c, QueueCallTyped DEF ExportNothing, GiveUp, QueueCall, WorkerOK, Busy, Pipeline
    <2>2. TypeOK'
      BY <1>15, <2>1 DEF TypeOK, WorkerOK, Busy, Pipeline, Steps,
         ExportNothing, GiveUp, Mark
    <2>3. WorkerOK'
      BY <1>15, <1>a, <2>2, FrameKeepsWorkers DEF WorkerOK, TypeOK, Busy,
         Pipeline, ExportNothing, GiveUp
    <2> QED
      BY <1>b, <1>e, <2>2, <2>3
  <1>16. CASE ExportFailed(w)
    <2>1. QueueTypeOK'
      BY <1>16, <1>c, QueueCallTyped DEF ExportFailed, Fail, Retry, QueueCall, WorkerOK, Busy, Pipeline
    <2>2. TypeOK'
      BY <1>16, <2>1 DEF TypeOK, WorkerOK, Busy, Pipeline, Steps,
         ExportFailed, Fail, Retry, MayFail
    <2>3. WorkerOK'
      BY <1>16, <1>a, <2>2, FrameKeepsWorkers DEF WorkerOK, TypeOK, Busy,
         Pipeline, ExportFailed, Fail, Retry
    <2> QED
      BY <1>b, <1>e, <2>2, <2>3
  <1>17. CASE ExportUnacknowledged(w)
    <2>1. QueueTypeOK'
      BY <1>17, <1>c, QueueCallTyped DEF ExportUnacknowledged, Fail, Retry, QueueCall, WorkerOK, Busy, Pipeline
    <2>2. TypeOK'
      BY <1>17, <2>1 DEF TypeOK, WorkerOK, Busy, Pipeline, Steps,
         ExportUnacknowledged, Fail, Retry, MayFail, Store, Batch, Reading
    <2>3. WorkerOK'
      BY <1>17, <1>a, <2>2, FrameKeepsWorkers DEF WorkerOK, TypeOK, Busy,
         Pipeline, ExportUnacknowledged, Fail, Retry
    <2> QED
      BY <1>b, <1>e, <2>2, <2>3
  <1>18. CASE Finish(w)
    <2>1. QueueTypeOK'
      BY <1>18, <1>c, QueueCallTyped DEF Finish, QueueCall, WorkerOK, Busy, Pipeline
    <2>2. TypeOK'
      BY <1>18, <2>1 DEF TypeOK, WorkerOK, Busy, Pipeline, Steps, Finish
    <2>3. WorkerOK'
      BY <1>18, <1>a, <2>2, FrameKeepsWorkers DEF WorkerOK, TypeOK, Busy,
         Pipeline, Finish
    <2> QED
      BY <1>b, <1>e, <2>2, <2>3
  <1> QED
    BY <1>1, <1>2, <1>3, <1>4, <1>5, <1>6, <1>7, <1>8, <1>9, <1>10, <1>11,
       <1>12, <1>13, <1>14, <1>15, <1>16, <1>17, <1>18 DEF Worker, ProcessPod

LEMMA NextTypeInv == TypeInv /\ [Next]_vars => TypeInv'
  <1> SUFFICES ASSUME TypeInv, [Next]_vars PROVE TypeInv'
    OBVIOUS
  <1>1. ASSUME NEW k \in Keys, RetryDelayOver(k) PROVE TypeInv'
    <2>1. QueueTypeOK'
      BY <1>1, QueueCallTyped DEF TypeInv, TypeOK, RetryDelayOver, QueueCall
    <2>2. TypeOK'
      BY <1>1, <2>1 DEF TypeInv, TypeOK, RetryDelayOver
    <2>3. WorkerOK' /\ NamesOK'
      BY <1>1, WorkersUntouched, NamesUntouched DEF TypeInv, RetryDelayOver
    <2>4. LifeOK'
      BY <1>1, LifeUntouched DEF TypeInv, RetryDelayOver, DelayOver
    <2> QED
      BY <2>2, <2>3, <2>4 DEF TypeInv
  <1>2. CASE UNCHANGED vars
    <2>1. TypeOK'
      BY <1>2, QueueUntouched DEF TypeInv, TypeOK, vars
    <2>2. WorkerOK' /\ NamesOK'
      BY <1>2, WorkersUntouched, NamesUntouched DEF TypeInv, vars
    <2>3. LifeOK'
      BY <1>2, LifeUntouched DEF TypeInv, vars
    <2> QED
      BY <2>1, <2>2, <2>3 DEF TypeInv
  <1> QED
    BY <1>1, <1>2, EnvironmentTypeInv, InformerTypeInv, ControllerTypeInv,
       WorkerTypeInv DEF Next

(* Every variable stays in its range, in every behaviour.                   *)
THEOREM Types == Spec => []TypeOK
  <1>1. TypeInv => TypeOK
    BY DEF TypeInv
  <1> QED
    BY InitTypeInv, NextTypeInv, <1>1, PTL DEF Spec
==============================================================================
