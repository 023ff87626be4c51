SPECIFICATION FairSpec
CONSTANTS
  Id = {i1}
  Database = {d1}
  Cleaner = {c1}
  ExplorerGoesOn = TRUE
  MaxFailures = 1
PROPERTY UnusedUsersAreDropped
