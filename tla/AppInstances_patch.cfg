SPECIFICATION Spec
CONSTANTS
  h1 = h1  h2 = h2  i1 = i1  i2 = i2  i3 = i3
  NoIp = NoIp  NoId = NoId  NoHost = NoHost  NoKey = NoKey
  Host = {h1}
  Id = {i1, i2}
  HostOf <- OneHost
  Ip = {ip1}
  Proxy = {p1, p2}
  Stopper = {}
  Periodic = {}
  EcsErrors = FALSE
  MaxCrashes = 0
INVARIANT NoDuplicateApplications
