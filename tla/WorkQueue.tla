------------------------------ MODULE WorkQueue ------------------------------
(***************************************************************************)
(* The rate-limiting work queue of k8s.io/client-go/util/workqueue, as     *)
(* runController builds it (service.go) and do uses it (worker.go).  The   *)
(* library is not part of the repository: the operators below are the      *)
(* contract its callers rely on.                                           *)
(*                                                                         *)
(*   queue         keys a worker may take, in order                        *)
(*   dirty         keys that need processing (queued, or re-added while a  *)
(*                 worker holds them)                                      *)
(*   processing    keys some worker holds, between Get and Done            *)
(*   waiting       keys in the delay heap of AddRateLimited                *)
(*   limited       keys the rate limiter remembers a failure of            *)
(*   shuttingDown  set by ShutDown and by ShutDownWithDrain                *)
(***************************************************************************)
EXTENDS Naturals, Sequences

CONSTANT Keys

VARIABLES queue, dirty, processing, waiting, limited, shuttingDown

queueVars == <<queue, dirty, processing, waiting, limited, shuttingDown>>

EmptyQueue ==
  /\ queue = <<>>
  /\ dirty = {}
  /\ processing = {}
  /\ waiting = {}
  /\ limited = {}
  /\ shuttingDown = FALSE

(* The same as a next state: a new process makes a new queue. *)
NewQueue ==
  /\ queue' = <<>>
  /\ dirty' = {}
  /\ processing' = {}
  /\ waiting' = {}
  /\ limited' = {}
  /\ shuttingDown' = FALSE

(* Mutant: a held key is queued at once. *)
PushHeld(k) ==
  IF shuttingDown \/ k \in dirty
  THEN UNCHANGED <<queue, dirty>>
  ELSE dirty' = dirty \cup {k} /\ queue' = Append(queue, k)

(* Mutant: a held key is ignored. *)
PushDropped(k) ==
  IF shuttingDown \/ k \in dirty \cup processing
  THEN UNCHANGED <<queue, dirty>>
  ELSE dirty' = dirty \cup {k} /\ queue' = Append(queue, k)

(* Marks k dirty.  A key that is already dirty, or a queue that shuts down, *)
(* ignores the call; a key some worker holds is queued again only by Done.  *)
Push(k) ==
  IF shuttingDown \/ k \in dirty
  THEN UNCHANGED <<queue, dirty>>
  ELSE /\ dirty' = dirty \cup {k}
       /\ queue' = IF k \in processing THEN queue ELSE Append(queue, k)

Add(k) ==
  /\ Push(k)
  /\ UNCHANGED <<processing, waiting, limited, shuttingDown>>

(* Get returns a key while there is one, shutting down or not. *)
Get(k) ==
  /\ queue # <<>>
  /\ k = Head(queue)
  /\ queue' = Tail(queue)
  /\ dirty' = dirty \ {k}
  /\ processing' = processing \cup {k}
  /\ UNCHANGED <<waiting, limited, shuttingDown>>

(* Get returns shutdown = true only once nothing is queued. *)
NothingLeft == shuttingDown /\ queue = <<>>

Done(k) ==
  /\ processing' = processing \ {k}
  /\ queue' = IF k \in dirty THEN Append(queue, k) ELSE queue
  /\ UNCHANGED <<dirty, waiting, limited, shuttingDown>>

(* The failure is recorded in any case; the delayed Add is dropped once the *)
(* queue shuts down.                                                        *)
AddRateLimited(k) ==
  /\ limited' = limited \cup {k}
  /\ waiting' = IF shuttingDown THEN waiting ELSE waiting \cup {k}
  /\ UNCHANGED <<queue, dirty, processing, shuttingDown>>

(* The delay of k is over: the delay loop calls Add. *)
DelayOver(k) ==
  /\ k \in waiting
  /\ waiting' = waiting \ {k}
  /\ Push(k)
  /\ UNCHANGED <<processing, limited, shuttingDown>>

Forget(k) ==
  /\ limited' = limited \ {k}
  /\ UNCHANGED <<queue, dirty, processing, waiting, shuttingDown>>

(* ShutDownWithDrain sets the flag and then blocks until Drained. *)
ShutDown ==
  /\ shuttingDown' = TRUE
  /\ UNCHANGED <<queue, dirty, processing, waiting, limited>>

Drained == processing = {}

QueueTypeOK ==
  /\ queue \in Seq(Keys)
  /\ dirty \subseteq Keys
  /\ processing \subseteq Keys
  /\ waiting \subseteq Keys
  /\ limited \subseteq Keys
  /\ shuttingDown \in BOOLEAN

(* What the sequence and the two sets have to do with each other. *)
QueueIsDirtyAndFree ==
  /\ \A i, j \in 1 .. Len(queue) : queue[i] = queue[j] => i = j
  /\ {queue[i] : i \in 1 .. Len(queue)} = dirty \ processing
==============================================================================
