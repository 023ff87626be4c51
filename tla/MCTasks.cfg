SPECIFICATION PartsSpec
CONSTANTS
  Query = {q1}
  MaxCrashes = 1
  Subscriber = {u1}
  Execution = {e1, e2}
  QueryLimit = 1
  MaxRows = 2
  Failure = {f1}
  MaxBatches = 2
  Tab = {t1, t2}
  Logout = {o1}
  Lost = {x1}
INVARIANTS PartsTypeOK CompleteHasResults EndedRunsAreMarked OneEmailEach DownloadIsWhole
PROPERTIES CancelledIsNotCompleted CancelReachesTheQuery RunsEnd EveryoneIsTold ChangesAreNoted DownloadGoesOn DownloadLetsGo PageIsServed
CHECK_DEADLOCK FALSE
