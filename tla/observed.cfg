SPECIFICATION Spec
CONSTANTS
  k1 = k1  k2 = k2  u1 = u1  u2 = u2  n1 = n1  n2 = n2  w1 = w1  w2 = w2
  none = none
  Keys = {k1}
  UIDs = {u1, u2}
  Nodes = {n1, n2}
  Workers = {w1}
  None = none
  PodOf <- MCSameName
  NodeOf <- MCTwoNodes
  Identifier <- MCAllSet
  Chassis = {n1, n2}
  Blank = {}
  Expires = FALSE
  Late = FALSE
  MaxChurn = 1
  MaxFaults = 0
  MaxRestarts = 0
INVARIANTS NodeIsWhereObserved
CHECK_DEADLOCK FALSE
