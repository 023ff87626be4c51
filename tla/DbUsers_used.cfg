SPECIFICATION Spec
CONSTANTS
  Id = {i1}
  Database = {d1, d2}
  Cleaner = {c1}
  ExplorerGoesOn = FALSE
  MaxFailures = 0
INVARIANT UsersInUseAreKept
