SPECIFICATION SmallSpec
CONSTANTS
  i1 = i1  i2 = i2  d1 = d1  d2 = d2  c1 = c1  c2 = c2
  Id = {i1, i2}
  Database = {d1, d2}
  Cleaner = {c1, c2}
  ExplorerGoesOn = FALSE
  MaxFailures = 1
INVARIANTS UsersTypeOK LiveInstancesKeepTheirUsers
PROPERTY UsersAreDropped
