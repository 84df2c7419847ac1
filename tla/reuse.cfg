SPECIFICATION Spec
CONSTANTS
  k1 = k1  k2 = k2  u1 = u1  u2 = u2  n1 = n1  n2 = n2  w1 = w1  w2 = w2
  none = none
  Keys = {k1}
  UIDs = {u1, u2}
  Nodes = {n1, n2}
  Workers = {w1, w2}
  None = none
  PodOf <- MCSameName
  NodeOf <- MCTwoNodes
  Identifier <- MCOneEmpty
  Chassis = {n1}
  Blank = {}
  Expires = FALSE
  Late = TRUE
  MaxChurn = 3
  MaxFaults = 1
  MaxRestarts = 0
SYMMETRY MCWorkerSymmetry
INVARIANTS TypeOK OneWorkerPerPod StillUnprocessed NoPodForgotten LimiterForgets LastOneLeavesNothing
CHECK_DEADLOCK FALSE
