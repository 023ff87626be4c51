SPECIFICATION RecordsSpec
CONSTANTS
  Request = {r1}
  Sync = sync
  MaxFiles = 2
  Failure = {f1}
  Statement = {s1}
  Execution = {e1, e2}
  Kept = 2
  MaxTime = 3
INVARIANTS RecordsTypeOK WindowsLeaveNothing StoredHaveTables
PROPERTIES InactiveForAReason ProfileComesToFollow RoleIsInTheProfile LinesAreStored
CHECK_DEADLOCK FALSE
