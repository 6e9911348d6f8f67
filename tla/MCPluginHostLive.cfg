SPECIFICATION HostFairSpec
CONSTANTS
  p = p
  m = m
  q = q
  d1 = d1
  d2 = d2
  w1 = w1
  w2 = w2
  None = None
  Torn = Torn
  Dirs = {d1}
  Ids = {p}
  Wasms = {w1, w2}
  Manifests = {p}
  IdOf <- MCIdOf
  SafeDir <- MCSafeDir
  Loadable <- MCLoadable
  RetryPolls = 1
  MaxQueue = 1
  MaxBuilds = 2
  MaxWork = 0
  MaxFaults = 1
  MaxCrashes = 1
  MaxUse = 0
PROPERTY DevSyncConverges
CHECK_DEADLOCK FALSE
