SPECIFICATION FairSpec
CONSTANTS
  h1 = h1  h2 = h2  i1 = i1  i2 = i2  i3 = i3
  NoIp = NoIp  NoId = NoId  NoHost = NoHost  NoKey = NoKey
  Host = {h1}
  Id = {i1}
  HostOf <- OneHost
  Ip = {ip1}
  Proxy = {p1}
  Stopper = {s1}
  Periodic = {"kill_idle_fargate", "orphaned_tools_monitor"}
  EcsErrors = FALSE
  MaxCrashes = 1
PROPERTIES SpawningEnds LostTaskIsNoticed EarlyStopLeavesNoTask StopTaskIsCarriedOut
