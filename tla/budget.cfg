SPECIFICATION FairSpec
CONSTANTS
  u1 = u1  u2 = u2  w1 = w1  w2 = w2  none = none
  UIDs = {u1, u2}
  Workers = {w1, w2}
  None = none
  CacheTTL = 3
  SweepInterval = 2
  Timeout = 4
  MaxRetries = 3
  Stretch = 1
  Delay <- MCDelay
  Slept <- MCSlept
INVARIANTS TypeOK Remembers EntryLifetime StillDue HeldBounded DrainBounded
PROPERTIES WorkerComesBack
