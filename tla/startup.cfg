SPECIFICATION FairSpec
CONSTANTS
  p1 = p1  p2 = p2  empty = empty  blank = blank  garbage = garbage  nan = nan
  Procs = {p1, p2}
  Environments <- MCEnvironments
  Empty = empty
  Blank = blank
  Garbage = garbage
  NaN = nan
  Statements = 5
  MaxOutages = 1
  MaxKills = 1
INVARIANTS TypeOK WorksAsConfigured ValidatedBeforeContact SchemaBeforeWork
PROPERTIES StartsAgain
