SPECIFICATION Spec
CONSTANTS
  Writers = {w1, w2}
  Kinds = {"stdout", "http", "s3", "postgres"}
  Listings <- MCListings
  Empty = 0
  MaxOpenConns = 1
  MaxCalls = 3
  MaxTime = 1
  MaxCrashes = 1
INVARIANTS TypeOK AllOrNothing AcknowledgedIsKept ConnectionsReturned
PROPERTIES ImplementsBackend
CHECK_DEADLOCK FALSE
