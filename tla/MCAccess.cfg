SPECIFICATION AccessSpec
CONSTANTS
  NoRequest = NoRequest
  Request = {r1, r2}
  Tool = {tool}
  Change = {edit, pageUsers}
  Removing = {pageUsers}
  SavedFirst = {pageUsers}
  Dataset = {d1, d2}
  User = {u1, u2}
  Editor = {e1, e2}
  Owners <- SomeOwners
  Asked <- SomeAsked
  MaxPending = 2
  MaxSaves = 2
  MaxCrashes = 1
  Team = {team}
  MembershipChange = {c1, c2}
  RoleMaker = {m1}
  MaxRetries = 1
  Failure = {f1}
  Process = {p1, p2}
  NoProcess = NoProcess
  Field = {name, code}
  Column = column
  Record = {x1}
  MaxRequests = 3
SYMMETRY Symmetry
INVARIANTS AccessTypeOK ChangesReachTheUser NoWastedCreation ChangesReachTheCaches PolicyFollowsCommittedTeams ModelsAreCurrent FieldsHaveColumns RecordsAreReplicated
PROPERTIES ChangesAreMeant
CHECK_DEADLOCK FALSE
