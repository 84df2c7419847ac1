SPECIFICATION Spec
CONSTANTS
  k1 = k1  k2 = k2  u1 = u1  u2 = u2  n1 = n1  n2 = n2  w1 = w1  w2 = w2
  none = none
  Keys = {k1}
  UIDs = {u1}
  Nodes = {n1}
  Workers = {w1, w2}
  None = none
  PodOf <- MCSameName
  NodeOf <- MCOneNode
  Identifier <- MCAllSet
  Chassis = {n1}
  Blank = {n1}
  Expires = TRUE
  Late = TRUE
  MaxChurn = 1
  MaxFaults = 2
  MaxRestarts = 1
INVARIANTS MarkedMeansSettled RepeatedOnlyWithCause LabelledBeforeStored
PROPERTIES ImplementsCollection
CHECK_DEADLOCK FALSE
