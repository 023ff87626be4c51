SPECIFICATION Spec
CONSTANTS
  Team = {team}
  Change = {c1}
  Maker = {}
  MaxRetries = 1
  Failure = {}
INVARIANT PolicyFollowsTeams
CHECK_DEADLOCK FALSE
