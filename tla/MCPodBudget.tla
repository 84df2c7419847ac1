------------------------------ MODULE MCPodBudget ------------------------------
(* Instances of PodBudget for TLC: two sleeps, of 1 and 2 units, each        *)
(* stretched by at most Stretch.                                             *)
EXTENDS PodBudget

CONSTANTS u1, u2, w1, w2, none

MCDelay == <<1, 2>>

MCSlept == <<0, 1 + Stretch, 3 + 2 * Stretch>>
================================================================================
