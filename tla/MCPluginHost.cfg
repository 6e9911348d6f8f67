SPECIFICATION HostSpec
CONSTANTS
  p = p
  m = m
  q = q
  d1 = d1
  d2 = d2
  w1 = w1
  w2 = w2
  None = None
  Torn = Torn
  Dirs = {d1, d2}
  Ids = {p}
  Wasms = {w1, w2}
  Manifests = {p}
  IdOf <- MCIdOf
  SafeDir <- MCSafeDir
  Loadable <- MCLoadable
  RetryPolls = 1
  MaxQueue = 1
  MaxBuilds = 2
  MaxWork = 1
  MaxFaults = 0
  MaxCrashes = 0
  MaxUse = 0
INVARIANT NoPushTwiceInFlight
PROPERTY ConfirmIsTrue
CHECK_DEADLOCK FALSE
