SPECIFICATION FairSpec
CONSTANTS
  p1 = p1  p2 = p2  none = none
  Procs = {p1, p2}
  None = none
  LeaseDuration = 4
  RenewDeadline = 2
  RetryPeriod = 1
  Elections = {TRUE, FALSE}
INVARIANTS TypeOK AtMostOneLeader ZeroMeansTold AloneFinishesFirst
PROPERTIES FailoverHappens
CHECK_DEADLOCK FALSE
