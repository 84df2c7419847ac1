SPECIFICATION Spec
CONSTANTS
  w1 = w1  w2 = w2  na = na
  Texts = {0, 1, 2, 3, 4, 5, 6, 8}
  Unset = {0, 8}
  NotSet = na
  Plain <- MCPlain
  Writers = {w1}
  Listings <- MCListings
  Foreign <- MCForeign
  Values = {1, 2}
  MaxRetries = 5
  MaxFaults = 6
  MaxCalls = 2
INVARIANTS TypeOK ForeignKept LabelsTellReading OneReading
CHECK_DEADLOCK FALSE
