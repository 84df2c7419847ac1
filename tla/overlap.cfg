SPECIFICATION Spec
CONSTANTS
  p1 = p1  p2 = p2  none = none
  Procs = {p1, p2}
  None = none
  LeaseDuration = 4
  RenewDeadline = 2
  RetryPeriod = 1
  Elections = {TRUE}
INVARIANTS OnlyOneReconciles
CHECK_DEADLOCK FALSE
