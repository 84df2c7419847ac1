------------------------------- MODULE Replicas -------------------------------
(***************************************************************************)
(* Several gpuid processes around one Kubernetes lease: Run and            *)
(* runWithLeaderElection (pkg/runner/service.go), the server goroutine,    *)
(* and runController seen from outside.  The elector and the lease belong  *)
(* to client-go and the API server: they are modelled as Run relies on     *)
(* them, in discrete time.  A process has one life and, by the uuid in its *)
(* identity (service.go:153), a name of its own; Kubernetes restarting one *)
(* is another element of Procs.                                            *)
(***************************************************************************)
EXTENDS Naturals

CONSTANTS
  Procs,          \* processes over time
  None,           \* no holder, no exit code
  LeaseDuration,  \* cmd.LeaseDuration, in ticks
  RenewDeadline,  \* cmd.LeaseRenew
  RetryPeriod,    \* cmd.LeaseRetry
  Elections       \* values of cmd.LeaderElection in use

(* What Command.Validate demands (option.go:199). *)
ASSUME ConstantsOK ==
  /\ None \notin Procs \cup {0, 1, 2, 137}
  /\ LeaseDuration \in Nat
  /\ RenewDeadline \in Nat
  /\ RetryPeriod \in Nat
  /\ LeaseDuration > RenewDeadline
  /\ RenewDeadline > RetryPeriod
  /\ RetryPeriod > 0
  /\ Elections \subseteq BOOLEAN

VARIABLES
  lease,     \* the holder the lease names
  seen,      \* [Procs -> BOOLEAN] the observed record is the current one
  age,       \* [Procs -> ticks since the process observed its record]
  idle,      \* [Procs -> ticks since the last renewal that was answered]
  elector,   \* [Procs -> where LeaderElector.Run is]
  told,      \* [Procs -> BOOLEAN] SIGTERM: the context of Run is done
  cut,       \* [Procs -> BOOLEAN] the elector cancelled the lease context
  lost,      \* [Procs -> BOOLEAN] state = leaderLost
  ctrl,      \* [Procs -> where runController is]
  unserved,  \* [Procs -> BOOLEAN] the server goroutine returned an error
  run,       \* [Procs -> where Run is]
  failed,    \* [Procs -> BOOLEAN] reconcileErr # nil
  exit       \* [Procs -> exit code, once decided]

leaseVars == <<lease, seen, age>>
runVars   == <<run, failed, exit>>

vars == <<leaseVars, idle, elector, told, cut, lost, ctrl, unserved, runVars>>

(* The renew loop tries again RetryPeriod after its last success and then   *)
(* for RenewDeadline.                                                       *)
Patience == RetryPeriod + RenewDeadline

Alive(p) == run[p] \notin {"down", "exited"}

(* The context runController was given is done. *)
Ended(p) == told[p] \/ cut[p]

Controlling(p) == ctrl[p] \in {"syncing", "listed", "working", "draining"}

(* Workers exist and may be exporting. *)
Reconciling(p) == ctrl[p] \in {"working", "draining"}

Init ==
  /\ lease = None
  /\ seen = [p \in Procs |-> FALSE]
  /\ age = [p \in Procs |-> 0]
  /\ idle = [p \in Procs |-> 0]
  /\ elector = [p \in Procs |-> "off"]
  /\ told = [p \in Procs |-> FALSE]
  /\ cut = [p \in Procs |-> FALSE]
  /\ lost = [p \in Procs |-> FALSE]
  /\ ctrl = [p \in Procs |-> "none"]
  /\ unserved = [p \in Procs |-> FALSE]
  /\ run = [p \in Procs |-> "down"]
  /\ failed = [p \in Procs |-> FALSE]
  /\ exit = [p \in Procs |-> None]

-----------------------------------------------------------------------------
(* Run, up to the election or to runController. *)

StartElection(p) ==
  /\ TRUE \in Elections
  /\ run[p] = "down"
  /\ run' = [run EXCEPT ![p] = "elect"]
  /\ elector' = [elector EXCEPT ![p] = "acquire"]
  /\ UNCHANGED <<leaseVars, idle, told, cut, lost, ctrl, unserved, failed, exit>>

StartAlone(p) ==
  /\ FALSE \in Elections
  /\ run[p] = "down"
  /\ run' = [run EXCEPT ![p] = "control"]
  /\ ctrl' = [ctrl EXCEPT ![p] = "syncing"]
  /\ UNCHANGED <<leaseVars, idle, elector, told, cut, lost, unserved, failed,
                 exit>>

(* Mutant: a failed start is not reported. *)
StartFailedSilently(p) ==
  /\ run[p] = "down"
  /\ run' = [run EXCEPT ![p] = "exited"]
  /\ UNCHANGED <<leaseVars, idle, elector, told, cut, lost, ctrl, unserved,
                 failed, exit>>

(* Configuration, exporter, client or selector: return 2. *)
StartFailed(p) ==
  /\ run[p] = "down"
  /\ run' = [run EXCEPT ![p] = "exited"]
  /\ exit' = [exit EXCEPT ![p] = 2]
  /\ UNCHANGED <<leaseVars, idle, elector, told, cut, lost, ctrl, unserved,
                 failed>>

(* NewLeaderElector refused its configuration. *)
ElectorRefused(p) ==
  /\ TRUE \in Elections
  /\ run[p] = "down"
  /\ run' = [run EXCEPT ![p] = "drain"]
  /\ failed' = [failed EXCEPT ![p] = TRUE]
  /\ UNCHANGED <<leaseVars, idle, elector, told, cut, lost, ctrl, unserved, exit>>

Signal(p) ==
  /\ Alive(p)
  /\ ~told[p]
  /\ told' = [told EXCEPT ![p] = TRUE]
  /\ UNCHANGED <<leaseVars, idle, elector, cut, lost, ctrl, unserved, runVars>>

(* The process is no more: its goroutines and timers are forgotten. *)
Vanish(p) ==
  /\ run' = [run EXCEPT ![p] = "exited"]
  /\ elector' = [elector EXCEPT ![p] = "off"]
  /\ ctrl' = [ctrl EXCEPT ![p] = "none"]
  /\ unserved' = [unserved EXCEPT ![p] = FALSE]
  /\ cut' = [cut EXCEPT ![p] = FALSE]
  /\ lost' = [lost EXCEPT ![p] = FALSE]
  /\ failed' = [failed EXCEPT ![p] = FALSE]
  /\ seen' = [seen EXCEPT ![p] = FALSE]
  /\ age' = [age EXCEPT ![p] = 0]
  /\ idle' = [idle EXCEPT ![p] = 0]

Kill(p) ==
  /\ Alive(p)
  /\ Vanish(p)
  /\ exit' = [exit EXCEPT ![p] = 137]
  /\ UNCHANGED <<lease, told>>

-----------------------------------------------------------------------------
(* LeaderElector.Run *)

(* Mutant: the observed record is trusted for the renew deadline only. *)
TakeableEarly(p) ==
  \/ lease \in {None, p}
  \/ seen[p] /\ age[p] >= RenewDeadline

(* Mutant: a lease is free only when its holder gave it back. *)
TakeableIfReleased(p) == lease \in {None, p}

(* tryAcquireOrRenew writes the lease if nobody or the process itself holds *)
(* it, or if the record has not changed for LeaseDuration on its own clock. *)
Takeable(p) ==
  \/ lease \in {None, p}
  \/ seen[p] /\ age[p] = LeaseDuration

(* A new record: the processes of S know it, the others have yet to see it. *)
Write(holder, S) ==
  /\ lease' = holder
  /\ seen' = [q \in Procs |-> q \in S]
  /\ age' = [q \in Procs |-> 0]

Observe(p) ==
  /\ elector[p] \in {"acquire", "lead"}
  /\ lease \notin {None, p}
  /\ ~seen[p]
  /\ seen' = [seen EXCEPT ![p] = TRUE]
  /\ age' = [age EXCEPT ![p] = 0]
  /\ UNCHANGED <<lease, idle, elector, told, cut, lost, ctrl, unserved, runVars>>

(* Requests are made with the context of Run and fail once it is done.  The *)
(* goroutine of OnStartedLeading starts runController.                      *)
Acquire(p) ==
  /\ elector[p] = "acquire"
  /\ ~told[p]
  /\ Takeable(p)
  /\ Write(p, {p})
  /\ idle' = [idle EXCEPT ![p] = 0]
  /\ elector' = [elector EXCEPT ![p] = "lead"]
  /\ ctrl' = [ctrl EXCEPT ![p] = "syncing"]
  /\ UNCHANGED <<told, cut, lost, unserved, runVars>>

Renew(p) ==
  /\ elector[p] = "lead"
  /\ ~told[p]
  /\ Takeable(p)
  /\ Write(p, {p})
  /\ idle' = [idle EXCEPT ![p] = 0]
  /\ UNCHANGED <<elector, told, cut, lost, ctrl, unserved, runVars>>

(* The lease was written and the answer was lost, or the context was done  *)
(* before it came.                                                          *)
Unanswered(p) ==
  /\ elector[p] \in {"acquire", "lead"}
  /\ Takeable(p)
  /\ Write(p, {})
  /\ UNCHANGED <<idle, elector, told, cut, lost, ctrl, unserved, runVars>>

EndRenew(p) ==
  /\ elector[p] = "lead"
  /\ told[p] \/ idle[p] = Patience
  /\ elector' = [elector EXCEPT ![p] = "release"]
  /\ idle' = [idle EXCEPT ![p] = 0]
  /\ UNCHANGED <<leaseVars, told, cut, lost, ctrl, unserved, runVars>>

(* ReleaseOnCancel: before the lease context is cancelled. *)
Release(p, ok) ==
  /\ elector[p] = "release"
  /\ elector' = [elector EXCEPT ![p] = "stopping"]
  /\ IF ok /\ lease = p THEN Write(None, {}) ELSE UNCHANGED leaseVars
  /\ UNCHANGED <<idle, told, cut, lost, ctrl, unserved, runVars>>

(* Mutant: OnStoppedLeading does not look at the context. *)
StopLeadingSilently(p) ==
  /\ elector[p] = "stopping"
  /\ elector' = [elector EXCEPT ![p] = "stopped"]
  /\ cut' = [cut EXCEPT ![p] = TRUE]
  /\ UNCHANGED <<leaseVars, idle, told, lost, ctrl, unserved, runVars>>

(* cancel() and OnStoppedLeading *)
StopLeading(p) ==
  /\ elector[p] = "stopping"
  /\ elector' = [elector EXCEPT ![p] = "stopped"]
  /\ cut' = [cut EXCEPT ![p] = TRUE]
  /\ lost' = [lost EXCEPT ![p] = ~told[p]]
  /\ UNCHANGED <<leaseVars, idle, told, ctrl, unserved, runVars>>

(* The context was done before the lease was won. *)
NeverLed(p) ==
  /\ elector[p] = "acquire"
  /\ told[p]
  /\ elector' = [elector EXCEPT ![p] = "stopped"]
  /\ UNCHANGED <<leaseVars, idle, told, cut, lost, ctrl, unserved, runVars>>

-----------------------------------------------------------------------------
(* runController, from outside; Reconciler has its inside. *)

Control(p, from, to) ==
  /\ ctrl[p] = from
  /\ ctrl' = [ctrl EXCEPT ![p] = to]
  /\ UNCHANGED <<leaseVars, idle, elector, told, cut, lost, unserved, runVars>>

(* The informer lists with runController's context.  WaitForCacheSync looks *)
(* at the cache and at that context: once both are there it may say either. *)
Listed(p) == ~Ended(p) /\ Control(p, "syncing", "listed")

Synced(p) == Control(p, "listed", "working")

SyncFailed(p) ==
  /\ Ended(p)
  /\ \E from \in {"syncing", "listed"} : Control(p, from, "failed")

StartDrain(p) == Ended(p) /\ Control(p, "working", "draining")

Drained(p) == Control(p, "draining", "returned")

-----------------------------------------------------------------------------
(* The rest of Run. *)

(* The port is taken, or the listener broke; Run looks only when it leaves. *)
ServerFailed(p) ==
  /\ Alive(p)
  /\ ~unserved[p]
  /\ unserved' = [unserved EXCEPT ![p] = TRUE]
  /\ UNCHANGED <<leaseVars, idle, elector, told, cut, lost, ctrl, runVars>>

(* The select has a default: runController is not waited for, and runErr is *)
(* read whether or not its goroutine has written it.                        *)
LeaveElection(p) ==
  /\ run[p] = "elect"
  /\ elector[p] = "stopped"
  /\ run' = [run EXCEPT ![p] = IF lost[p] THEN "close" ELSE "drain"]
  /\ exit' = [exit EXCEPT ![p] = IF lost[p] THEN 1 ELSE None]
  /\ failed' = [failed EXCEPT ![p] = ctrl[p] = "failed"]
  /\ UNCHANGED <<leaseVars, idle, elector, told, cut, lost, ctrl, unserved>>

(* Mutant: without election runController is left alone too. *)
LeaveControlEarly(p) ==
  /\ run[p] = "control"
  /\ told[p]
  /\ run' = [run EXCEPT ![p] = "drain"]
  /\ failed' = [failed EXCEPT ![p] = ctrl[p] = "failed"]
  /\ UNCHANGED <<leaseVars, idle, elector, told, cut, lost, ctrl, unserved, exit>>

LeaveControl(p) ==
  /\ run[p] = "control"
  /\ ctrl[p] \in {"returned", "failed"}
  /\ run' = [run EXCEPT ![p] = "drain"]
  /\ failed' = [failed EXCEPT ![p] = ctrl[p] = "failed"]
  /\ UNCHANGED <<leaseVars, idle, elector, told, cut, lost, ctrl, unserved, exit>>

(* The server's answer, or its budget is over. *)
DrainServer(p) ==
  /\ run[p] = "drain"
  /\ run' = [run EXCEPT ![p] = "close"]
  /\ exit' = [exit EXCEPT ![p] = IF failed[p] \/ unserved[p] THEN 2 ELSE 0]
  /\ UNCHANGED <<leaseVars, idle, elector, told, cut, lost, ctrl, unserved,
                 failed>>

(* The deferred exporter.Close, and the end. *)
Exit(p) ==
  /\ run[p] = "close"
  /\ Vanish(p)
  /\ UNCHANGED <<lease, told, exit>>

-----------------------------------------------------------------------------
(* A leader whose patience is over acts before time goes on. *)
Tick ==
  /\ \A p \in Procs : elector[p] = "lead" => idle[p] < Patience
  /\ idle' = [p \in Procs |-> IF elector[p] = "lead" THEN idle[p] + 1 ELSE idle[p]]
  /\ age' = [p \in Procs |-> IF seen[p] /\ age[p] < LeaseDuration
                              THEN age[p] + 1 ELSE age[p]]
  /\ UNCHANGED <<lease, seen, elector, told, cut, lost, ctrl, unserved, runVars>>

Elector(p) ==
  \/ Observe(p) \/ Acquire(p) \/ Renew(p) \/ Unanswered(p)
  \/ EndRenew(p) \/ (\E ok \in BOOLEAN : Release(p, ok)) \/ StopLeading(p) \/ NeverLed(p)

Controller(p) == Listed(p) \/ Synced(p) \/ SyncFailed(p) \/ StartDrain(p) \/ Drained(p)

Leave(p) == LeaveElection(p) \/ LeaveControl(p) \/ DrainServer(p) \/ Exit(p)

Process(p) ==
  \/ StartElection(p) \/ StartAlone(p) \/ StartFailed(p) \/ ElectorRefused(p)
  \/ Controller(p)
  \/ Elector(p)
  \/ Leave(p)
  \/ Signal(p) \/ ServerFailed(p) \/ Kill(p)

Next == Tick \/ \E p \in Procs : Process(p)

Spec == Init /\ [][Next]_vars

(* What the goroutine of Run does once leading is over. *)
Unwind(p) ==
  EndRenew(p) \/ (\E ok \in BOOLEAN : Release(p, ok)) \/ StopLeading(p) \/ NeverLed(p)
    \/ Leave(p)

(* Time passes, goroutines run, and a candidate's requests are answered     *)
(* again and again.  Nothing is promised of a leader's renewals, of the     *)
(* signals, or of a synced cache.                                           *)
Fairness ==
  /\ WF_vars(Tick)
  /\ \A p \in Procs :
       /\ WF_vars(elector[p] = "acquire" /\ Observe(p))
       /\ SF_vars(Acquire(p))
       /\ WF_vars(Unwind(p))
       /\ WF_vars(SyncFailed(p) \/ StartDrain(p) \/ Drained(p))

FairSpec == Spec /\ Fairness

-----------------------------------------------------------------------------
(* Every variable stays in its range; an exit code is only decided once Run *)
(* is about to leave (service.go:59-143).                                   *)
TypeOK ==
  /\ lease \in Procs \cup {None}
  /\ seen \in [Procs -> BOOLEAN]
  /\ age \in [Procs -> 0 .. LeaseDuration]
  /\ idle \in [Procs -> 0 .. Patience]
  /\ elector \in [Procs -> {"off", "acquire", "lead", "release", "stopping", "stopped"}]
  /\ told \in [Procs -> BOOLEAN]
  /\ cut \in [Procs -> BOOLEAN]
  /\ lost \in [Procs -> BOOLEAN]
  /\ ctrl \in [Procs -> {"none", "syncing", "listed", "working", "draining", "returned", "failed"}]
  /\ unserved \in [Procs -> BOOLEAN]
  /\ run \in [Procs -> {"down", "elect", "control", "drain", "close", "exited"}]
  /\ failed \in [Procs -> BOOLEAN]
  /\ exit \in [Procs -> {None, 0, 1, 2, 137}]
  /\ \A p \in Procs : exit[p] # None <=> run[p] \in {"close", "exited"}

(* Two processes are never in the renew loop at once (service.go:174-208),  *)
(* whatever requests fail or are answered late: each counts on its own.     *)
AtMostOneLeader ==
  \A p, q \in Procs : elector[p] = "lead" /\ elector[q] = "lead" => p = q

(* What the timing parameters must satisfy for it. *)
Punctual == Patience < LeaseDuration

(* "If the leader loses its lease, it exits non-zero" (README.md:190): a    *)
(* process that ends with 0 was told to end (service.go:114-143, 186-193).  *)
ZeroMeansTold == \A p \in Procs : run[p] = "exited" /\ exit[p] = 0 => told[p]

(* Without leader election the server is drained and the exporter closed    *)
(* only when no worker is left (service.go:124-143).                        *)
AloneFinishesFirst ==
  \A p \in Procs :
    run[p] \in {"drain", "close"} /\ elector[p] = "off" => ~Controlling(p)

(* While a candidate waits, the lease does not stay with a process that is  *)
(* dead or silent: somebody leads in the end.                               *)
Candidate(p) == elector[p] = "acquire" /\ ~told[p]

FailoverHappens ==
  (\E p \in Procs : Candidate(p)) ~>
    \/ \E p \in Procs : elector[p] = "lead"
    \/ ~ \E p \in Procs : Candidate(p)

-----------------------------------------------------------------------------
(* What the repository says and the code does not do. *)

(* "multi-replica deployments coordinate through a Kubernetes lease so only *)
(* one replica reconciles at a time" (README.md:30).                        *)
OnlyOneReconciles ==
  \A p, q \in Procs : Reconciling(p) /\ Reconciling(q) => p = q

-----------------------------------------------------------------------------
(* The strengthening of AtMostOneLeader: a leader holds the lease, and no   *)
(* other process has watched its record for longer than it has gone without *)
(* renewing it.                                                             *)
LeaderHolds ==
  \A p \in Procs :
    elector[p] = "lead" =>
      /\ lease = p
      /\ \A q \in Procs : q # p /\ seen[q] => age[q] <= idle[p]

(* The strengthening of ZeroMeansTold: every way to the drain of the server *)
(* without an error goes through a context that SIGTERM ended.              *)
LeavesForAReason ==
  \A p \in Procs :
    /\ run[p] \in {"down", "control"} => elector[p] = "off"
    /\ cut[p] => elector[p] = "stopped"
    /\ elector[p] = "stopped" => told[p] \/ lost[p]
    /\ run[p] = "control" /\ ctrl[p] \in {"draining", "returned"} => told[p]
    /\ run[p] = "drain" => told[p] \/ failed[p]
    /\ exit[p] = 0 => told[p]
==============================================================================
