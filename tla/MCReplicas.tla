------------------------------ MODULE MCReplicas ------------------------------
(* Model values for Replicas. *)
EXTENDS Replicas

CONSTANTS p1, p2, none
==============================================================================
