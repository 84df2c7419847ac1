------------------------------- MODULE PodBudget -------------------------------
(***************************************************************************)
(* How long a worker is held by one pod, and for how long a pod is left    *)
(* alone afterwards: processPod (pkg/runner/worker.go) with the context    *)
(* that bounds it, the tries of EnsureLabels (pkg/node/label.go), whose    *)
(* sleeps do not look at that context, and the set of processed UIDs.      *)
(* Reconciler has the same steps without the time, and shows that no two   *)
(* workers hold one pod, which Take takes from there.                      *)
(***************************************************************************)
EXTENDS UIDSet

CONSTANTS
  Workers,     \* worker goroutines
  None,        \* no pod
  Timeout,     \* cmd.Timeout, the budget of a pod
  MaxRetries,  \* maxRetries of EnsureLabels
  Delay,       \* [1..MaxRetries-1 -> the sleep after that try], doubling
  Stretch,     \* the most that Jitter adds to one sleep
  Slept        \* [1..MaxRetries -> the longest sleep, in all, before that try]

ASSUME BudgetOK ==
  /\ None \notin UIDs
  /\ Timeout \in Nat \ {0}
  /\ MaxRetries \in Nat \ {0}
  /\ Delay \in [1 .. MaxRetries - 1 -> Nat]
  /\ Stretch \in Nat
  /\ Slept \in [1 .. MaxRetries -> Nat]
  /\ Slept[1] = 0
  /\ \A i \in 1 .. MaxRetries - 1 :
       /\ Slept[i + 1] = Slept[i] + Delay[i] + Stretch
       /\ i + 1 < MaxRetries => Delay[i + 1] = 2 * Delay[i]
  /\ \A i \in 1 .. MaxRetries : Slept[i] <= Slept[MaxRetries]

VARIABLES
  pc,          \* [Workers -> step of processPod]
  uid,         \* [Workers -> the pod it holds]
  entry,       \* [Workers -> time since the entry that Has read]
  elapsed,     \* [Workers -> time since the pod's context was made]
  try,         \* [Workers -> try of EnsureLabels]
  left,        \* [Workers -> time left to sleep]
  ctxDone,     \* the controller's context is cancelled
  sinceCancel  \* time since it was cancelled

workerVars == <<pc, uid, entry, elapsed, try, left>>
ctxVars    == <<ctxDone, sinceCancel>>

vars == <<workerVars, ctxVars, setVars>>

(* Steps that wait for an answer, with the pod's context. *)
Calls == {"exec", "label", "identify", "export"}

Steps == Calls \cup {"idle", "has", "jitter", "sleep"}

(* From the answer of Has to the end of processPod. *)
Pipeline == Steps \ {"idle", "has"}

AllSleeps == Slept[MaxRetries]

(* Times are counted up to one unit beyond these bounds. *)
MaxHeld == Timeout + AllSleeps

Init ==
  /\ pc = [w \in Workers |-> "idle"]
  /\ uid = [w \in Workers |-> None]
  /\ entry = [w \in Workers |-> Never]
  /\ elapsed = [w \in Workers |-> 0]
  /\ try = [w \in Workers |-> 1]
  /\ left = [w \in Workers |-> 0]
  /\ ctxDone = FALSE
  /\ sinceCancel = 0
  /\ EmptySet

-----------------------------------------------------------------------------
(* One pod. *)

Goto(w, step) == pc' = [pc EXCEPT ![w] = step]

(* Mutant: a path that forgets to call Done. *)
KeepKey(w) == UNCHANGED uid

(* q.Done *)
GiveBack(w) == uid' = [uid EXCEPT ![w] = None]

(* processPod returns; what it kept on its stack is gone. *)
Finish(w) ==
  /\ Goto(w, "idle")
  /\ GiveBack(w)
  /\ entry' = [entry EXCEPT ![w] = Never]
  /\ elapsed' = [elapsed EXCEPT ![w] = 0]
  /\ try' = [try EXCEPT ![w] = 1]
  /\ UNCHANGED left

(* q.Get and the first half of processed.Has. *)
Take(w, u) ==
  /\ pc[w] = "idle"
  /\ \A v \in Workers : uid[v] # u
  /\ uid' = [uid EXCEPT ![w] = u]
  /\ entry' = [entry EXCEPT ![w] = Entry(u)]
  /\ Goto(w, "has")
  /\ UNCHANGED <<elapsed, try, left, ctxVars, setVars>>

(* The other half, outside the lock and maybe later: already processed. *)
Skip(w) ==
  /\ pc[w] = "has"
  /\ Fresh(entry[w])
  /\ Finish(w)
  /\ UNCHANGED <<ctxVars, setVars>>

Accept(w) ==
  /\ pc[w] = "has"
  /\ ~Fresh(entry[w])
  /\ entry' = [entry EXCEPT ![w] = Never]
  /\ Goto(w, "jitter")
  /\ UNCHANGED <<uid, elapsed, try, left, ctxVars, setVars>>

(* context.WithTimeout: the budget starts after the jitter, which is less    *)
(* than a unit of time.                                                      *)
Jitter(w) ==
  /\ pc[w] = "jitter"
  /\ Goto(w, "exec")
  /\ UNCHANGED <<uid, entry, elapsed, try, left, ctxVars, setVars>>

JitterCancelled(w) ==
  /\ pc[w] = "jitter"
  /\ ctxDone
  /\ Finish(w)
  /\ UNCHANGED <<ctxVars, setVars>>

(* Mutant: the calls get the controller's context. *)
OverWhenCancelled(w) == ctxDone

(* Mutant: the pod's context does not descend from the controller's. *)
OverWhenLate(w) == elapsed[w] >= Timeout

(* The pod's context is done. *)
Over(w) == ctxDone \/ elapsed[w] >= Timeout

(* An answer may come in the unit of time in which the context ends. *)
MayAnswer(w) == elapsed[w] <= Timeout /\ (ctxDone => sinceCancel = 0)

Answered(w, step, next) ==
  /\ pc[w] = step
  /\ MayAnswer(w)
  /\ Goto(w, next)
  /\ UNCHANGED <<uid, entry, elapsed, try, left, ctxVars, setVars>>

(* The mark of a pod that is settled, and the end of its processing. *)
Settled(w, step) ==
  /\ pc[w] = step
  /\ MayAnswer(w)
  /\ Add(uid[w])
  /\ Finish(w)
  /\ UNCHANGED ctxVars

ExecFoundGPUs(w) == Answered(w, "exec", "label")
ExecFoundNone(w) == Settled(w, "exec")
LabelsThere(w)   == Answered(w, "label", "identify")
Identified(w)    == Answered(w, "identify", "export")
Exported(w)      == Settled(w, "export")

(* A call other than the try of a label fails: processPod returns. *)
CallFailed(w) ==
  /\ pc[w] \in Calls \ {"label"}
  /\ Finish(w)
  /\ UNCHANGED <<ctxVars, setVars>>

(* Forbidden or invalid: no further try. *)
LabelRefused(w) ==
  /\ pc[w] = "label"
  /\ MayAnswer(w)
  /\ Finish(w)
  /\ UNCHANGED <<ctxVars, setVars>>

(* The last try fails: ErrWaitTimeout. *)
LabelGivenUp(w) ==
  /\ pc[w] = "label"
  /\ try[w] = MaxRetries
  /\ Finish(w)
  /\ UNCHANGED <<ctxVars, setVars>>

(* time.Sleep, whatever the context says. *)
LabelFailed(w) ==
  /\ pc[w] = "label"
  /\ try[w] < MaxRetries
  /\ \E d \in Delay[try[w]] .. Delay[try[w]] + Stretch : left' = [left EXCEPT ![w] = d]
  /\ Goto(w, "sleep")
  /\ UNCHANGED <<uid, entry, elapsed, try, ctxVars, setVars>>

(* Mutant: the tries are not counted. *)
WakeUncounted(w) ==
  /\ pc[w] = "sleep"
  /\ left[w] = 0
  /\ Goto(w, "label")
  /\ UNCHANGED <<uid, entry, elapsed, try, left, ctxVars, setVars>>

Wake(w) ==
  /\ pc[w] = "sleep"
  /\ left[w] = 0
  /\ try' = [try EXCEPT ![w] = @ + 1]
  /\ Goto(w, "label")
  /\ UNCHANGED <<uid, entry, elapsed, left, ctxVars, setVars>>

-----------------------------------------------------------------------------
(* The rest of the process, and the clock. *)

Cancel ==
  /\ ~ctxDone
  /\ ctxDone' = TRUE
  /\ UNCHANGED <<workerVars, sinceCancel, setVars>>

SweepLoop ==
  /\ Sweep
  /\ UNCHANGED <<workerVars, ctxVars>>

(* What w does next takes no time. *)
Due(w) ==
  \/ pc[w] = "jitter"
  \/ pc[w] \in Calls /\ Over(w)
  \/ pc[w] = "sleep" /\ left[w] = 0

Held(w) == pc[w] \in Calls \cup {"sleep"}

Tick ==
  /\ \A w \in Workers : ~Due(w)
  /\ Elapse
  /\ entry' = [w \in Workers |-> Later(entry[w])]
  /\ elapsed' = [w \in Workers |-> IF Held(w) /\ elapsed[w] <= MaxHeld
                                   THEN elapsed[w] + 1 ELSE elapsed[w]]
  /\ left' = [w \in Workers |-> IF pc[w] = "sleep" THEN left[w] - 1 ELSE left[w]]
  /\ sinceCancel' = IF ctxDone /\ sinceCancel <= AllSleeps
                    THEN sinceCancel + 1 ELSE sinceCancel
  /\ UNCHANGED <<pc, uid, try, ctxDone>>

Answer(w) ==
  \/ ExecFoundGPUs(w) \/ ExecFoundNone(w)
  \/ LabelsThere(w) \/ LabelRefused(w)
  \/ Identified(w) \/ Exported(w)

Failure(w) == CallFailed(w) \/ LabelGivenUp(w) \/ LabelFailed(w)

Check(w) == Skip(w) \/ Accept(w) \/ Jitter(w) \/ JitterCancelled(w)

Work(w) ==
  \/ \E u \in UIDs : Take(w, u)
  \/ Check(w) \/ Answer(w) \/ Failure(w) \/ Wake(w)

Next == Tick \/ Cancel \/ SweepLoop \/ \E w \in Workers : Work(w)

Spec == Init /\ [][Next]_vars

Overdue(w) == Over(w) /\ Failure(w)

(* Time goes on whatever the workers do, the ticker fires, and a worker      *)
(* that need not wait for an answer goes on (the calls return when their     *)
(* context is done, a sleep ends); no answer ever has to come.               *)
FairSpec ==
  /\ Spec
  /\ SF_vars(Tick)
  /\ WF_vars(SweepLoop)
  /\ \A w \in Workers :
       WF_vars(Check(w)) /\ WF_vars(Overdue(w)) /\ WF_vars(Wake(w))

-----------------------------------------------------------------------------
(* Safety. *)

TypeOK ==
  /\ SetTypeOK
  /\ pc \in [Workers -> Steps]
  /\ uid \in [Workers -> UIDs \cup {None}]
  /\ entry \in [Workers -> 0 .. Never]
  /\ elapsed \in [Workers -> Nat]
  /\ try \in [Workers -> 1 .. MaxRetries]
  /\ left \in [Workers -> Nat]
  /\ ctxDone \in BOOLEAN
  /\ sinceCancel \in 0 .. AllSleeps + 1
  /\ \A w \in Workers : uid[w] = None <=> pc[w] = "idle"

(* The answer of Has is still right when the pod is exported and marked, a   *)
(* whole budget and all sleeps after it was given: no pod is exported again  *)
(* within cacheTTL of its last mark (worker.go:122, 212).                    *)
StillDue == \A w \in Workers : pc[w] \in Pipeline => sinceAdd[uid[w]] = Never

(* A pod holds a worker for the budget and the sleeps of EnsureLabels at     *)
(* most: the sleeps are not cut short by the context (label.go:110-135), so  *)
(* the budget alone (worker.go:135-137) is no bound.                         *)
HeldBounded == \A w \in Workers : elapsed[w] <= MaxHeld

(* A cancelled controller waits for the sleeps of EnsureLabels and for       *)
(* nothing longer: ShutDownWithDrain is over by then (service.go:321,        *)
(* label.go:110-135).                                                        *)
DrainBounded ==
  ctxDone /\ sinceCancel > AllSleeps =>
    \A w \in Workers : pc[w] \notin {"label", "sleep", "identify", "export"}

-----------------------------------------------------------------------------
(* Liveness. *)

(* A call that is never answered does not keep its worker: every pod lets it *)
(* go (worker.go:135-137).                                                   *)
WorkerComesBack == \A w \in Workers : pc[w] # "idle" ~> pc[w] = "idle"

-----------------------------------------------------------------------------
(* The invariants behind the bounds and StillDue. *)

(* After the first try of EnsureLabels the time beyond the budget is sleep. *)
Spent(w) ==
  /\ pc[w] = "sleep" =>
       /\ try[w] < MaxRetries
       /\ elapsed[w] + left[w] <= Timeout + Slept[try[w] + 1]
       /\ sinceCancel + left[w] <= Slept[try[w] + 1]
  /\ pc[w] = "label" =>
       /\ elapsed[w] <= Timeout + Slept[try[w]]
       /\ sinceCancel <= Slept[try[w]]
  /\ pc[w] \in {"exec", "identify", "export"} => elapsed[w] <= Timeout
  /\ pc[w] \in {"identify", "export"} => sinceCancel = 0
  /\ pc[w] \notin Calls \cup {"sleep"} => elapsed[w] = 0

(* The worker that holds the pod knows when it was last marked, and once it  *)
(* works on it, that it is not.                                              *)
Knows(w) ==
  /\ pc[w] = "has" => entry[w] = sinceAdd[uid[w]]
  /\ pc[w] \in Pipeline => sinceAdd[uid[w]] = Never

OneHolder == \A v, w \in Workers : uid[v] = uid[w] /\ uid[w] # None => v = w
================================================================================
