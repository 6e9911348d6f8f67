SPECIFICATION FairSpec
CONSTANTS
  p = p
  q = q
  d1 = d1
  d2 = d2
  w1 = w1
  w2 = w2
  None = None
  Torn = Torn
  Dirs = {d1, d2}
  Ids = {p, q}
  Wasms = {w1, w2}
  Manifests <- MCManifests
  IdOf <- MCIdOf
  SafeDir <- MCSafeDir
  Loadable <- MCLoadable
  MaxWork = 2
  MaxFaults = 1
  MaxCrashes = 1
  MaxUse = 1
INVARIANT TypeOK
INVARIANT PendingIsPipeline
INVARIANT RunsWhatIsOnDisk
INVARIANT NewestInstallRuns
PROPERTY PendingDrains
CHECK_DEADLOCK FALSE
