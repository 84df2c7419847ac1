SPECIFICATION Spec
CONSTANTS
  Writers = {w1, w2}
  Kinds = {"s3"}
  Listings <- MCListings
  Empty = 0
  MaxOpenConns = 1
  MaxCalls = 2
  MaxTime = 1
  MaxCrashes = 0
INVARIANTS OneObjectPerBatch
CHECK_DEADLOCK FALSE
