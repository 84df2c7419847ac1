SPECIFICATION FairSpec
CONSTANTS
  k1 = k1  k2 = k2  u1 = u1  u2 = u2  n1 = n1  n2 = n2  w1 = w1  w2 = w2
  none = none
  Keys = {k1, k2}
  UIDs = {u1, u2}
  Nodes = {n1, n2}
  Workers = {w1}
  None = none
  PodOf <- MCTwoNames
  NodeOf <- MCTwoNodes
  Identifier <- MCOneMissing
  Chassis = {n1}
  Blank = {}
  Expires = FALSE
  Late = FALSE
  MaxChurn = 0
  MaxFaults = 1
  MaxRestarts = 1
INVARIANTS IdleWhenReturned
PROPERTIES EventuallySettled ShutdownCompletes
CHECK_DEADLOCK FALSE
