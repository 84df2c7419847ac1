------------------------------ MODULE Collection ------------------------------
(***************************************************************************)
(* What a gpuid process promises about the readings of pods, without       *)
(* informer, queue, workers or labels: the reading of a pod is given to    *)
(* the backend, and the pod is settled with it; a pod without anything to  *)
(* send is settled as it is; a settled pod is left alone until its mark    *)
(* lapses.  Reconciler implements this.                                    *)
(***************************************************************************)
CONSTANT UIDs

VARIABLES
  delivered,  \* pods whose reading the backend has
  again,      \* pods whose reading it was given more than once
  settled,    \* pods that are not to be exported now
  barren,     \* pods that were settled with nothing to send
  coming,     \* pods whose reading may come to the backend yet
  excused     \* pods with a reason to be delivered again

vars == <<delivered, again, settled, barren, coming, excused>>

Init ==
  /\ delivered = {}
  /\ again = {}
  /\ settled = {}
  /\ barren = {}
  /\ coming = {}
  /\ excused = {}

Give(u) ==
  /\ delivered' = delivered \cup {u}
  /\ again' = IF u \in delivered THEN again \cup {u} ELSE again

Deliver(u) ==
  /\ u \notin settled
  /\ Give(u)
  /\ settled' = settled \cup {u}
  /\ UNCHANGED <<barren, coming, excused>>

(* The backend has the reading and the process does not know. *)
DeliverUnacknowledged(u) ==
  /\ u \notin settled
  /\ Give(u)
  /\ excused' = excused \cup {u}
  /\ UNCHANGED <<settled, barren, coming>>

(* The reading is on its way and the process does not know. *)
Lose(u) ==
  /\ u \notin settled
  /\ coming' = coming \cup {u}
  /\ excused' = excused \cup {u}
  /\ UNCHANGED <<delivered, again, settled, barren>>

(* It arrives, perhaps for a pod that is settled by now; there may be more.  *)
Come(u) ==
  /\ u \in coming
  /\ Give(u)
  /\ coming' \in {coming, coming \ {u}}
  /\ UNCHANGED <<settled, barren, excused>>

SettleBarren(u) ==
  /\ u \notin settled
  /\ settled' = settled \cup {u}
  /\ barren' = barren \cup {u}
  /\ UNCHANGED <<delivered, again, coming, excused>>

(* The marks of S expire, or go with the process that held them; the         *)
(* readings of T, which it had sent, are on their way.                       *)
Lapse(S, T) ==
  /\ T \cap settled = {}
  /\ settled' = settled \ S
  /\ coming' = coming \cup T
  /\ (delivered \cap settled \cap S) \cup T \subseteq excused'
  /\ excused \subseteq excused'
  /\ excused' \subseteq excused \cup S \cup T
  /\ UNCHANGED <<delivered, again, barren>>

Next ==
  \/ \E u \in UIDs :
       Deliver(u) \/ DeliverUnacknowledged(u) \/ Lose(u) \/ Come(u) \/ SettleBarren(u)
  \/ \E S, T \in SUBSET UIDs : Lapse(S, T)

Spec == Init /\ [][Next]_vars

(* A pod is settled only with its reading delivered or with nothing to     *)
(* send (worker.go:161, 212).                                              *)
SettledMeansDelivered == settled \subseteq delivered \cup barren

(* A reading is delivered twice only with cause (worker.go:121).           *)
RepeatedOnlyWithCause == again \subseteq excused
==============================================================================
