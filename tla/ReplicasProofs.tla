---------------------------- MODULE ReplicasProofs ----------------------------
(***************************************************************************)
(* Proofs about Replicas: its type invariant and, for every number of      *)
(* processes and every punctual choice of the lease parameters, that at    *)
(* most one process leads.                                                 *)
(***************************************************************************)
EXTENDS Replicas, TLAPS

USE DEF leaseVars, runVars

(* A variable's function keeps its range when one place is overwritten.     *)
LEMMA ExceptTyped ==
  ASSUME NEW S, NEW T, NEW f \in [S -> T], NEW x, NEW y \in T
  PROVE  [f EXCEPT ![x] = y] \in [S -> T]
OBVIOUS

(* The patience of a leader is a number of ticks.                           *)
LEMMA PatienceNat == Patience \in Nat
BY ConstantsOK DEF ConstantsOK, Patience

(* A new record leaves the lease variables in their ranges.                 *)
LEMMA WriteTyped ==
  ASSUME TypeOK, NEW h \in Procs \cup {None}, NEW S, Write(h, S)
  PROVE  /\ lease' \in Procs \cup {None}
         /\ seen' \in [Procs -> BOOLEAN]
         /\ age' \in [Procs -> 0 .. LeaseDuration]
<1>1. 0 \in 0 .. LeaseDuration
  BY ConstantsOK DEF ConstantsOK
<1> QED
  BY <1>1 DEF TypeOK, Write

(* Every variable stays in its range (service.go:59-143).                   *)
THEOREM ReplicaTypes == Spec => []TypeOK
<1>1. Init => TypeOK
  <2> SUFFICES ASSUME Init PROVE TypeOK
    OBVIOUS
  <2>1. 0 \in 0 .. LeaseDuration /\ 0 \in 0 .. Patience
    BY ConstantsOK, PatienceNat DEF ConstantsOK
  <2> QED
    BY <2>1 DEF Init, TypeOK
<1>2. TypeOK /\ [Next]_vars => TypeOK'
  <2> SUFFICES ASSUME TypeOK, [Next]_vars PROVE TypeOK'
    OBVIOUS
  <2> USE DEF TypeOK
  <2>0. /\ 0 \in 0 .. LeaseDuration
        /\ 0 \in 0 .. Patience
        /\ None \notin {0, 1, 2, 137}
    BY ConstantsOK, PatienceNat DEF ConstantsOK
  <2>1. CASE Tick
    <3>1. idle' \in [Procs -> 0 .. Patience]
      BY <2>1, PatienceNat DEF Tick
    <3>2. age' \in [Procs -> 0 .. LeaseDuration]
      BY <2>1, ConstantsOK DEF Tick, ConstantsOK
    <3> QED
      BY <2>1, <3>1, <3>2 DEF Tick
  <2>2. ASSUME NEW p \in Procs, Process(p) PROVE TypeOK'
    <3>1. CASE StartElection(p)
      BY <3>1 DEF StartElection
    <3>13. CASE StartAlone(p)
      BY <3>13 DEF StartAlone
    <3>2. CASE StartFailed(p)
      BY <3>2, <2>0 DEF StartFailed
    <3>3. CASE ElectorRefused(p)
      BY <3>3 DEF ElectorRefused
    <3>4. CASE Signal(p)
      BY <3>4 DEF Signal
    <3>5. CASE Kill(p)
      BY <3>5, <2>0 DEF Kill, Vanish, Alive
    <3>6. CASE Elector(p)
      <4>1. CASE Observe(p)
        BY <4>1, <2>0 DEF Observe
      <4>2. CASE Acquire(p)
        BY <4>2, <2>0, WriteTyped DEF Acquire
      <4>3. CASE Renew(p)
        BY <4>3, <2>0, WriteTyped DEF Renew
      <4>4. CASE Unanswered(p)
        BY <4>4, WriteTyped DEF Unanswered
      <4>5. CASE EndRenew(p)
        BY <4>5, <2>0 DEF EndRenew
      <4>6. ASSUME NEW ok \in BOOLEAN, Release(p, ok) PROVE TypeOK'
        <5>1. CASE ok /\ lease = p
          BY <4>6, <5>1, WriteTyped DEF Release
        <5>2. CASE ~(ok /\ lease = p)
          BY <4>6, <5>2 DEF Release
        <5> QED
          BY <5>1, <5>2
      <4>7. CASE StopLeading(p)
        BY <4>7 DEF StopLeading
      <4>8. CASE NeverLed(p)
        BY <4>8 DEF NeverLed
      <4> QED
        BY <3>6, <4>1, <4>2, <4>3, <4>4, <4>5, <4>6, <4>7, <4>8 DEF Elector
    <3>7. CASE Controller(p)
      BY <3>7 DEF Controller, Listed, Synced, SyncFailed, StartDrain, Drained, Control
    <3>8. CASE ServerFailed(p)
      BY <3>8 DEF ServerFailed
    <3>9. CASE LeaveElection(p)
      BY <3>9, <2>0 DEF LeaveElection
    <3>10. CASE LeaveControl(p)
      BY <3>10 DEF LeaveControl
    <3>11. CASE DrainServer(p)
      BY <3>11, <2>0 DEF DrainServer
    <3>12. CASE Exit(p)
      BY <3>12, <2>0 DEF Exit, Vanish
    <3> QED
      BY <2>2, <3>1, <3>2, <3>3, <3>4, <3>5, <3>6, <3>7, <3>8, <3>9, <3>10,
         <3>11, <3>12, <3>13 DEF Process, Leave
  <2>3. CASE UNCHANGED vars
    BY <2>3 DEF vars
  <2> QED
    BY <2>1, <2>2, <2>3 DEF Next
<1> QED
  BY <1>1, <1>2, PTL DEF Spec

(* A punctual leader keeps others from taking the lease: whoever may take   *)
(* it watched an unchanged record for longer than a leader stays silent.    *)
LEMMA OthersCannotTake ==
  ASSUME TypeOK, LeaderHolds, Punctual, NEW p \in Procs, Takeable(p)
  PROVE  \A q \in Procs : q # p => elector[q] # "lead"
<1> SUFFICES ASSUME NEW q \in Procs, q # p, elector[q] = "lead" PROVE FALSE
  OBVIOUS
<1>1. lease = q /\ (seen[p] => age[p] <= idle[q])
  BY DEF LeaderHolds
<1>2. seen[p] /\ age[p] = LeaseDuration
  BY <1>1, ConstantsOK DEF Takeable, ConstantsOK
<1>3. idle[q] \in 0 .. Patience
  BY DEF TypeOK
<1> QED
  BY <1>1, <1>2, <1>3, PatienceNat, ConstantsOK DEF Punctual, ConstantsOK

(* LeaderHolds is inductive when the parameters are punctual.               *)
LEMMA LeaderHoldsInductive ==
  ASSUME TypeOK, LeaderHolds, Punctual, [Next]_vars
  PROVE  LeaderHolds'
<1> SUFFICES ASSUME NEW l \in Procs, (elector[l] = "lead")'
             PROVE  /\ (lease = l)'
                    /\ \A q \in Procs : (q # l /\ seen[q] => age[q] <= idle[l])'
  BY DEF LeaderHolds
<1> USE DEF TypeOK
<1>0. elector[l] = "lead" =>
        lease = l /\ \A q \in Procs : q # l /\ seen[q] => age[q] <= idle[l]
  BY DEF LeaderHolds
<1>n. ConstantsOK /\ Patience \in Nat /\ LeaseDuration \in Nat
  BY ConstantsOK, PatienceNat DEF ConstantsOK
<1>1. CASE Tick
  <2>1. elector[l] = "lead" /\ lease' = l
    BY <1>1, <1>0 DEF Tick
  <2>2. ASSUME NEW q \in Procs, q # l, seen'[q] PROVE age'[q] <= idle'[l]
    <3>1. seen[q] /\ age[q] <= idle[l]
      BY <1>1, <2>1, <2>2, <1>0 DEF Tick
    <3>2. idle'[l] = idle[l] + 1 /\ age'[q] \in {age[q], age[q] + 1}
      BY <1>1, <2>1 DEF Tick
    <3>3. age[q] \in 0 .. LeaseDuration /\ idle[l] \in 0 .. Patience
      OBVIOUS
    <3> QED
      BY <3>1, <3>2, <3>3, <1>n
  <2> QED
    BY <2>1, <2>2
<1>2. ASSUME NEW p \in Procs, Process(p)
      PROVE  /\ (lease = l)'
             /\ \A q \in Procs : (q # l /\ seen[q] => age[q] <= idle[l])'
  <2>1. CASE Acquire(p) \/ Renew(p)
    <3>1. p = l
      BY <2>1, OthersCannotTake DEF Acquire, Renew
    <3> QED
      BY <2>1, <3>1 DEF Acquire, Renew, Write
  <2>2. CASE Unanswered(p)
    <3>1. p = l
      BY <2>2, OthersCannotTake DEF Unanswered
    <3> QED
      BY <2>2, <3>1 DEF Unanswered, Write
  <2>3. CASE Observe(p)
    <3>1. elector[l] = "lead" /\ lease' = l /\ idle'[l] = idle[l]
      BY <2>3, <1>0 DEF Observe
    <3>2. idle[l] \in 0 .. Patience
      OBVIOUS
    <3>3. ASSUME NEW q \in Procs, q # l, seen'[q] PROVE age'[q] <= idle'[l]
      <4>1. CASE q = p
        BY <2>3, <4>1, <3>1, <3>2, <1>n DEF Observe
      <4>2. CASE q # p
        BY <2>3, <4>2, <3>1, <3>3, <1>0 DEF Observe
      <4> QED
        BY <4>1, <4>2
    <3> QED
      BY <3>1, <3>3
  <2>4. ASSUME NEW ok \in BOOLEAN, Release(p, ok)
        PROVE  /\ (lease = l)'
               /\ \A q \in Procs : (q # l /\ seen[q] => age[q] <= idle[l])'
    <3>1. elector[l] = "lead" /\ p # l /\ lease # p
      BY <2>4, <1>0 DEF Release
    <3> QED
      BY <2>4, <3>1, <1>0 DEF Release
  <2>5. CASE Kill(p) \/ Exit(p)
    <3>1. p # l /\ elector[l] = "lead"
      BY <2>5 DEF Kill, Exit, Vanish
    <3>2. lease' = l /\ idle'[l] = idle[l]
      BY <2>5, <3>1, <1>0 DEF Kill, Exit, Vanish
    <3>3. ASSUME NEW q \in Procs, q # l, seen'[q]
          PROVE  seen[q] /\ age'[q] = age[q]
      BY <2>5, <3>3 DEF Kill, Exit, Vanish
    <3> QED
      BY <3>1, <3>2, <3>3, <1>0
  <2>6. CASE StartElection(p) \/ StartAlone(p)
    <3>1. UNCHANGED <<lease, seen, age, idle>>
      BY <2>6 DEF StartElection, StartAlone, leaseVars
    <3>2. elector[l] = "lead"
      <4>1. CASE StartElection(p)
        <5>1. elector' = [elector EXCEPT ![p] = "acquire"]
          BY <4>1 DEF StartElection
        <5> QED
          BY <5>1
      <4>2. CASE StartAlone(p)
        BY <4>2 DEF StartAlone
      <4> QED
        BY <2>6, <4>1, <4>2
    <3> QED
      BY <3>1, <3>2, <1>0
  <2>7. CASE StartFailed(p) \/ ElectorRefused(p) \/ Signal(p) \/ ServerFailed(p)
    <3>1. UNCHANGED <<lease, seen, age, idle, elector>>
      BY <2>7 DEF StartFailed, ElectorRefused, Signal, ServerFailed, leaseVars
    <3> QED
      BY <3>1, <1>0
  <2>8. CASE EndRenew(p)
    BY <2>8, <1>0 DEF EndRenew
  <2>9. CASE StopLeading(p) \/ NeverLed(p)
    BY <2>9, <1>0 DEF StopLeading, NeverLed
  <2>10. CASE Controller(p)
    BY <2>10, <1>0 DEF Controller, Listed, Synced, SyncFailed, StartDrain, Drained, Control
  <2>11. CASE LeaveElection(p) \/ LeaveControl(p) \/ DrainServer(p)
    BY <2>11, <1>0 DEF LeaveElection, LeaveControl, DrainServer
  <2> QED
    BY <1>2, <2>1, <2>2, <2>3, <2>4, <2>5, <2>6, <2>7, <2>8, <2>9, <2>10, <2>11
    DEF Process, Elector, Leave
<1>3. CASE UNCHANGED vars
  BY <1>3, <1>0 DEF vars
<1> QED
  BY <1>1, <1>2, <1>3 DEF Next

(* At most one process is in the renew loop, for every number of processes  *)
(* and all lease parameters whose patience is shorter than the lease        *)
(* (service.go:174-208, option.go:199).                                     *)
THEOREM OneLeader == ASSUME Punctual PROVE Spec => []AtMostOneLeader
<1>1. Init => LeaderHolds
  BY DEF Init, LeaderHolds
<1>2. TypeOK /\ LeaderHolds /\ [Next]_vars => LeaderHolds'
  BY LeaderHoldsInductive
<1>3. LeaderHolds => AtMostOneLeader
  BY DEF LeaderHolds, AtMostOneLeader
<1> QED
  BY <1>1, <1>2, <1>3, ReplicaTypes, PTL DEF Spec

(* LeavesForAReason is inductive.                                           *)
LEMMA LeavesForAReasonInductive ==
  ASSUME TypeOK, LeavesForAReason, [Next]_vars
  PROVE  LeavesForAReason'
<1> USE DEF TypeOK, LeavesForAReason
<1>0. None # 0
  BY ConstantsOK DEF ConstantsOK
<1>1. CASE Tick
  BY <1>1 DEF Tick
<1>2. ASSUME NEW p \in Procs, Process(p) PROVE LeavesForAReason'
  <2>1. CASE StartElection(p)
    BY <2>1 DEF StartElection
  <2>9. CASE StartAlone(p)
    BY <2>9 DEF StartAlone
  <2>2. CASE StartFailed(p)
    BY <2>2 DEF StartFailed
  <2>10. CASE ElectorRefused(p)
    BY <2>10 DEF ElectorRefused
  <2>11. CASE Signal(p) \/ ServerFailed(p)
    BY <2>11 DEF Signal, ServerFailed
  <2>3. CASE Kill(p) \/ Exit(p)
    <3>1. ASSUME NEW q \in Procs, q # p
          PROVE  /\ run'[q] = run[q] /\ elector'[q] = elector[q]
                 /\ cut'[q] = cut[q] /\ lost'[q] = lost[q] /\ told'[q] = told[q]
                 /\ ctrl'[q] = ctrl[q] /\ failed'[q] = failed[q]
                 /\ exit'[q] = exit[q]
      BY <2>3, <3>1 DEF Kill, Exit, Vanish
    <3>2. /\ run'[p] = "exited" /\ elector'[p] = "off" /\ ~cut'[p]
          /\ told'[p] = told[p] /\ exit'[p] \in {exit[p], 137}
      BY <2>3 DEF Kill, Exit, Vanish
    <3> QED
      BY <3>1, <3>2
  <2>4. CASE Elector(p)
    <3>1. ASSUME NEW ok \in BOOLEAN, Release(p, ok) PROVE LeavesForAReason'
      BY <3>1 DEF Release, Write
    <3>2. CASE Observe(p) \/ Acquire(p) \/ Renew(p) \/ Unanswered(p)
      BY <3>2 DEF Observe, Acquire, Renew, Unanswered, Write
    <3>3. CASE EndRenew(p) \/ NeverLed(p)
      BY <3>3 DEF EndRenew, NeverLed
    <3>4. CASE StopLeading(p)
      <4>1. /\ elector'[p] = "stopped" /\ elector[p] = "stopping"
            /\ told'[p] \/ lost'[p]
        <5>1. /\ elector[p] = "stopping" /\ told' = told
              /\ elector' = [elector EXCEPT ![p] = "stopped"]
              /\ lost' = [lost EXCEPT ![p] = ~told[p]]
          BY <3>4 DEF StopLeading
        <5>2. elector'[p] = "stopped"
          BY <5>1
        <5>3. lost'[p] = ~told[p]
          <6>1. DOMAIN lost = Procs
            OBVIOUS
          <6> HIDE DEF TypeOK, LeavesForAReason
          <6> QED
            BY <5>1, <6>1, Zenon
        <5>4. told'[p] \/ lost'[p]
          BY <5>1, <5>3, Zenon
        <5> QED
          BY <5>1, <5>2, <5>4
      <4>2. ASSUME NEW q \in Procs, q # p
            PROVE  /\ elector'[q] = elector[q] /\ cut'[q] = cut[q]
                   /\ lost'[q] = lost[q]
        <5>1. /\ elector' = [elector EXCEPT ![p] = "stopped"]
              /\ cut' = [cut EXCEPT ![p] = TRUE]
              /\ lost' = [lost EXCEPT ![p] = ~told[p]]
          BY <3>4 DEF StopLeading
        <5> QED
          BY <4>2, <5>1
      <4>3. UNCHANGED <<told, ctrl, run, failed, exit>>
        BY <3>4 DEF StopLeading
      <4>4. run[p] \notin {"down", "control"}
        BY <4>1
      <4>5. /\ LeavesForAReason!(p)'
            /\ \A q \in Procs : q # p => LeavesForAReason!(q)'
        <5>1. LeavesForAReason!(p)
          OBVIOUS
        <5>2. told'[p] = told[p] /\ ctrl'[p] = ctrl[p] /\ run'[p] = run[p]
              /\ failed'[p] = failed[p] /\ exit'[p] = exit[p]
          BY <4>3
        <5>3. LeavesForAReason!(p)'
          <6> HIDE DEF TypeOK
          <6>1. /\ run'[p] \notin {"down", "control"}
                /\ run[p] = "drain" => told[p] \/ failed[p]
                /\ exit[p] = 0 => told[p]
            BY <4>4, <5>1, <5>2
          <6> QED
            BY <4>1, <5>2, <6>1
        <5> QED
          BY <4>2, <4>3, <5>3
      <4> QED
        BY <4>5
    <3> QED
      BY <2>4, <3>1, <3>2, <3>3, <3>4 DEF Elector
  <2>5. CASE Controller(p)
    BY <2>5 DEF Controller, Listed, Synced, SyncFailed, StartDrain, Drained, Control, Ended
  <2>6. CASE LeaveElection(p)
    BY <2>6, <1>0 DEF LeaveElection
  <2>7. CASE LeaveControl(p)
    BY <2>7 DEF LeaveControl
  <2>8. CASE DrainServer(p)
    BY <2>8 DEF DrainServer
  <2> QED
    BY <1>2, <2>1, <2>2, <2>3, <2>4, <2>5, <2>6, <2>7, <2>8, <2>9, <2>10, <2>11
    DEF Process, Leave
<1>3. CASE UNCHANGED vars
  BY <1>3 DEF vars
<1> QED
  BY <1>1, <1>2, <1>3 DEF Next

(* A process that ends with 0 was told to end: a lost lease, a failed       *)
(* controller and a failed start all end otherwise (service.go:114-143).    *)
THEOREM ExitCodes == Spec => []ZeroMeansTold
<1>1. ASSUME Init PROVE LeavesForAReason
  <2>1. None # 0
    BY ConstantsOK DEF ConstantsOK
  <2>2. \A p \in Procs :
          /\ elector[p] = "off" /\ ~cut[p] /\ ctrl[p] = "none" /\ run[p] = "down"
          /\ exit[p] = None
    BY <1>1 DEF Init
  <2> QED
    BY <2>1, <2>2 DEF LeavesForAReason
<1>2. TypeOK /\ LeavesForAReason /\ [Next]_vars => LeavesForAReason'
  BY LeavesForAReasonInductive
<1>3. LeavesForAReason => ZeroMeansTold
  BY DEF LeavesForAReason, ZeroMeansTold
<1> QED
  BY <1>1, <1>2, <1>3, ReplicaTypes, PTL DEF Spec

(* The strengthening of AloneFinishesFirst: nothing runs before Run, and    *)
(* who stands for election stays an elector.                                *)
Place(p) ==
  /\ run[p] = "down" => (elector[p] = "off" /\ ctrl[p] = "none")
  /\ run[p] = "elect" => elector[p] # "off"
  /\ (run[p] \in {"drain", "close"} /\ elector[p] = "off") => ~Controlling(p)

AloneOrElected == \A p \in Procs : Place(p)

(* A step of p leaves the others where they are.                            *)
Alone(p) ==
  \A q \in Procs \ {p} :
    run'[q] = run[q] /\ elector'[q] = elector[q] /\ ctrl'[q] = ctrl[q]

LEMMA OnlyOneMoves ==
  ASSUME AloneOrElected, NEW p \in Procs, Alone(p), Place(p)'
  PROVE  AloneOrElected'
<1>1. ASSUME NEW q \in Procs, q # p PROVE Place(q)'
  <2>1. run'[q] = run[q] /\ elector'[q] = elector[q] /\ ctrl'[q] = ctrl[q]
    BY <1>1 DEF Alone
  <2>2. Place(q)
    BY DEF AloneOrElected
  <2> QED
    BY <2>1, <2>2 DEF Place, Controlling
<1> QED
  BY <1>1 DEF AloneOrElected

LEMMA AloneOrElectedInductive ==
  ASSUME TypeOK, AloneOrElected, [Next]_vars
  PROVE  AloneOrElected'
<1>1. CASE UNCHANGED <<run, elector, ctrl>>
  BY <1>1 DEF AloneOrElected, Place, Controlling
<1>2. ASSUME NEW p \in Procs, Process(p) PROVE AloneOrElected'
  <2>0. Place(p)
    BY DEF AloneOrElected
  <2>1. ASSUME NEW r, NEW e, NEW c,
               run' = [run EXCEPT ![p] = r],
               elector' = [elector EXCEPT ![p] = e],
               ctrl' = [ctrl EXCEPT ![p] = c],
               r = "down" => (e = "off" /\ c = "none"),
               r = "elect" => e # "off",
               (r \in {"drain", "close"} /\ e = "off")
                 => c \notin {"syncing", "listed", "working", "draining"}
        PROVE  AloneOrElected'
    <3>1. run'[p] = r /\ elector'[p] = e /\ ctrl'[p] = c
      BY <2>1 DEF TypeOK
    <3>2. Alone(p)
      BY <2>1 DEF Alone, TypeOK
    <3>3. Place(p)'
      BY <2>1, <3>1 DEF Place, Controlling
    <3> QED
      BY <3>2, <3>3, OnlyOneMoves
  <2>2. /\ run = [run EXCEPT ![p] = run[p]]
        /\ elector = [elector EXCEPT ![p] = elector[p]]
        /\ ctrl = [ctrl EXCEPT ![p] = ctrl[p]]
    BY DEF TypeOK
  <2>3. CASE StartElection(p) \/ StartAlone(p) \/ StartFailed(p) \/ ElectorRefused(p)
    <3>1. run[p] = "down" /\ elector[p] = "off" /\ ctrl[p] = "none"
      BY <2>3, <2>0 DEF StartElection, StartAlone, StartFailed, ElectorRefused, Place
    <3>2. CASE StartElection(p)
      BY <3>2, <3>1, <2>1, <2>2 DEF StartElection
    <3>3. CASE StartAlone(p)
      BY <3>3, <3>1, <2>1, <2>2 DEF StartAlone
    <3>4. CASE StartFailed(p) \/ ElectorRefused(p)
      <4>1. PICK r \in {"exited", "drain"} : run' = [run EXCEPT ![p] = r]
        BY <3>4 DEF StartFailed, ElectorRefused
      <4>2. elector' = elector /\ ctrl' = ctrl
        BY <3>4 DEF StartFailed, ElectorRefused
      <4>3. /\ elector' = [elector EXCEPT ![p] = elector[p]]
            /\ ctrl' = [ctrl EXCEPT ![p] = ctrl[p]]
        BY <4>2, <2>2
      <4>4. r # "down" /\ r # "elect" /\ ctrl[p] \notin {"syncing", "listed", "working", "draining"}
        BY <3>1
      <4> QED
        BY <4>1, <4>3, <4>4, <2>1
    <3> QED
      BY <2>3, <3>2, <3>3, <3>4
  <2>4. CASE Kill(p) \/ Exit(p)
    <3>1. /\ run' = [run EXCEPT ![p] = "exited"]
          /\ elector' = [elector EXCEPT ![p] = "off"]
          /\ ctrl' = [ctrl EXCEPT ![p] = "none"]
      BY <2>4 DEF Kill, Exit, Vanish
    <3> QED
      BY <3>1, <2>1
  <2>5. CASE Elector(p)
    <3>1. \/ elector' = elector
          \/ \E e \in {"lead", "release", "stopping", "stopped"} :
               elector' = [elector EXCEPT ![p] = e]
      BY <2>5 DEF Elector, Observe, Acquire, Renew, Unanswered, EndRenew, Release,
         StopLeading, NeverLed
    <3>2. ctrl' = ctrl \/ ctrl' = [ctrl EXCEPT ![p] = "syncing"]
      BY <2>5 DEF Elector, Observe, Acquire, Renew, Unanswered, EndRenew, Release,
         StopLeading, NeverLed
    <3>3. run' = run /\ elector[p] # "off"
      BY <2>5 DEF Elector, Observe, Acquire, Renew, Unanswered, EndRenew, Release,
         StopLeading, NeverLed
    <3>4. run[p] # "down"
      BY <3>3, <2>0 DEF Place
    <3>5. PICK e : elector' = [elector EXCEPT ![p] = e] /\ e # "off"
      BY <3>1, <3>3, <2>2
    <3>6. PICK c : ctrl' = [ctrl EXCEPT ![p] = c]
      BY <3>2, <2>2
    <3>7. run' = [run EXCEPT ![p] = run[p]]
      BY <3>3, <2>2
    <3> QED
      BY <3>4, <3>5, <3>6, <3>7, <2>1
  <2>6. CASE Controller(p)
    <3>1. run' = run /\ elector' = elector /\ Controlling(p)
      BY <2>6 DEF Controller, Listed, Synced, SyncFailed, StartDrain, Drained, Control, Controlling
    <3>2. PICK c : ctrl' = [ctrl EXCEPT ![p] = c]
      BY <2>6 DEF Controller, Listed, Synced, SyncFailed, StartDrain, Drained, Control
    <3>3. /\ run[p] # "down"
          /\ run[p] = "elect" => elector[p] # "off"
          /\ ~(run[p] \in {"drain", "close"} /\ elector[p] = "off")
      BY <3>1, <2>0 DEF Place, Controlling
    <3>4. /\ run' = [run EXCEPT ![p] = run[p]]
          /\ elector' = [elector EXCEPT ![p] = elector[p]]
      BY <3>1, <2>2
    <3> QED
      BY <3>2, <3>3, <3>4, <2>1
  <2>7. CASE LeaveElection(p)
    <3>1. elector[p] = "stopped" /\ elector' = elector /\ ctrl' = ctrl
      BY <2>7 DEF LeaveElection
    <3>2. PICK r \in {"close", "drain"} : run' = [run EXCEPT ![p] = r]
      BY <2>7 DEF LeaveElection
    <3> QED
      BY <3>1, <3>2, <2>1, <2>2
  <2>8. CASE LeaveControl(p)
    <3>1. /\ ctrl[p] \in {"returned", "failed"} /\ elector' = elector /\ ctrl' = ctrl
          /\ run' = [run EXCEPT ![p] = "drain"]
      BY <2>8 DEF LeaveControl
    <3> QED
      BY <3>1, <2>1, <2>2
  <2>9. CASE DrainServer(p)
    <3>1. /\ run[p] = "drain" /\ elector' = elector /\ ctrl' = ctrl
          /\ run' = [run EXCEPT ![p] = "close"]
      BY <2>9 DEF DrainServer
    <3>2. elector[p] = "off" => ctrl[p] \notin {"syncing", "listed", "working", "draining"}
      BY <3>1, <2>0 DEF Place, Controlling
    <3> QED
      BY <3>1, <3>2, <2>1, <2>2
  <2>10. CASE Signal(p) \/ ServerFailed(p)
    <3>1. UNCHANGED <<run, elector, ctrl>>
      BY <2>10 DEF Signal, ServerFailed
    <3> QED
      BY <3>1, <1>1
  <2> QED
    BY <1>2, <2>3, <2>4, <2>5, <2>6, <2>7, <2>8, <2>9, <2>10 DEF Process, Leave
<1>3. CASE Tick \/ UNCHANGED vars
  <2>1. UNCHANGED <<run, elector, ctrl>>
    BY <1>3 DEF Tick, vars
  <2> QED
    BY <2>1, <1>1
<1> QED
  BY <1>2, <1>3 DEF Next

(* Without leader election the exporter outlives the workers, however the   *)
(* controller ends and whatever the server does (service.go:124-143).       *)
THEOREM AloneWaits == Spec => []AloneFinishesFirst
<1>1. Init => AloneOrElected
  BY DEF Init, AloneOrElected, Place
<1>2. TypeOK /\ AloneOrElected /\ [Next]_vars => AloneOrElected'
  BY AloneOrElectedInductive
<1>3. AloneOrElected => AloneFinishesFirst
  BY DEF AloneOrElected, Place, AloneFinishesFirst
<1> QED
  BY <1>1, <1>2, <1>3, ReplicaTypes, PTL DEF Spec
==============================================================================
