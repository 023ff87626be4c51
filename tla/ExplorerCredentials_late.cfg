SPECIFICATION Spec
CONSTANTS
  NoRequest = NoRequest
  Request = {r1}
  Tool = {}
  Change = {edit}
  Removing = {}
  SavedFirst = {}
INVARIANT InvalidationReachesTheUser
