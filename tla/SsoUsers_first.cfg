SPECIFICATION Spec
CONSTANTS
  Request = {r1, r2}
  Sync = sync
  MaxFiles = 1
  Failure = {}
INVARIANT ConcurrentRequestsAreServed
CHECK_DEADLOCK FALSE
