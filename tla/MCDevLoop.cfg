SPECIFICATION Spec
CONSTANTS
  Paths <- MCPaths
  Broken = {1}
  MaxSaves = 2
  Wasms = {w1, w2, w3}
  Torn = Torn
  MaxVersion = 1
  MaxCacheFaults = 3
  WarmupFrames = 1
  MaxUse = 2
  MaxPanics = 2
  MaxReloads = 2
  Nothing = Nothing
INVARIANT TypeOK
INVARIANT CacheIsRight
INVARIANT FrameKeepsItsBudget
INVARIANT StateIsCarried
INVARIANT DeadIsFoundOut
PROPERTY WatchedSaveIsServed
PROPERTY BrokenCrateDelaysNothing
CHECK_DEADLOCK FALSE
