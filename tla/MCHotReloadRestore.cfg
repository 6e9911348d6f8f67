SPECIFICATION Spec
CONSTANTS
  WarmupFrames = 1
  MaxUse = 2
  MaxFaults = 2
  MaxReloads = 2
  NoCall = NoCall
CHECK_DEADLOCK FALSE
INVARIANT ReadyIsAlive
