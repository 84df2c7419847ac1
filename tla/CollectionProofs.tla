-------------------------- MODULE CollectionProofs --------------------------
(***************************************************************************)
(* What follows from Collection alone.                                     *)
(***************************************************************************)
EXTENDS Collection, TLAPS

(* A delivered reading is still settled or has a reason to come again, as   *)
(* has one that is on its way.                                              *)
CollectionInv ==
  /\ SettledMeansDelivered
  /\ RepeatedOnlyWithCause
  /\ delivered \subseteq settled \cup excused
  /\ coming \subseteq excused

LEMMA CollectionInvariant == Spec => []CollectionInv
  <1> USE DEF CollectionInv, SettledMeansDelivered, RepeatedOnlyWithCause
  <1>1. Init => CollectionInv
    BY DEF Init
  <1>2. ASSUME CollectionInv, Next PROVE CollectionInv'
    <2>1. ASSUME NEW u \in UIDs, Deliver(u) PROVE CollectionInv'
      BY <1>2, <2>1 DEF Deliver, Give
    <2>2. ASSUME NEW u \in UIDs, DeliverUnacknowledged(u) PROVE CollectionInv'
      BY <1>2, <2>2 DEF DeliverUnacknowledged, Give
    <2>3. ASSUME NEW u \in UIDs, SettleBarren(u) PROVE CollectionInv'
      BY <1>2, <2>3 DEF SettleBarren
    <2>4. ASSUME NEW S \in SUBSET UIDs, NEW T \in SUBSET UIDs, Lapse(S, T)
          PROVE  CollectionInv'
      BY <1>2, <2>4 DEF Lapse
    <2>5. ASSUME NEW u \in UIDs, Lose(u) PROVE CollectionInv'
      BY <1>2, <2>5 DEF Lose
    <2>6. ASSUME NEW u \in UIDs, Come(u) PROVE CollectionInv'
      BY <1>2, <2>6 DEF Come, Give
    <2> QED
      BY <1>2, <2>1, <2>2, <2>3, <2>4, <2>5, <2>6 DEF Next
  <1>3. CollectionInv /\ UNCHANGED vars => CollectionInv'
    BY DEF vars
  <1> QED
    BY <1>1, <1>2, <1>3, PTL DEF Spec

(* Settled pods were delivered or barren; repeats have a cause.             *)
THEOREM CollectionSafe == Spec => [](SettledMeansDelivered /\ RepeatedOnlyWithCause)
  <1>1. CollectionInv => SettledMeansDelivered /\ RepeatedOnlyWithCause
    BY DEF CollectionInv
  <1> QED
    BY <1>1, CollectionInvariant, PTL
==============================================================================
