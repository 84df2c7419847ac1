----------------------------- MODULE MCReconciler -----------------------------
(* Small instances of Reconciler for TLC. *)
EXTENDS Reconciler, TLC

CONSTANTS k1, k2, u1, u2, n1, n2, w1, w2, none

(* A name that is used again: two pods, one after the other, on two nodes.  *)
MCSameName  == [u \in UIDs |-> k1]

(* Two pods that exist together. *)
MCTwoNames  == [u \in UIDs |-> IF u = u1 THEN k1 ELSE k2]

MCTwoNodes  == [u \in UIDs |-> IF u = u1 THEN n1 ELSE n2]
MCOneNode   == [u \in UIDs |-> n1]

(* Workers run the same code. *)
MCWorkerSymmetry == Permutations(Workers)

MCAllSet    == [n \in Nodes |-> "set"]
MCOneMissing == [n \in Nodes |-> IF n = n2 THEN "missing" ELSE "set"]
MCOneEmpty  == [n \in Nodes |-> IF n = n2 THEN "empty" ELSE "set"]
==============================================================================
