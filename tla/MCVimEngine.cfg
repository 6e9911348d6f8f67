SPECIFICATION Spec
CONSTANTS
  UndoCap = 2
  MaxKeys = 7
  MaxTaps = 1
  StackSize = 3
  MaxReplayDepth = 2
  MaxSteps = 6
  MaxLen = 3
INVARIANTS VimTypeOK NotModifiedMeansSaved MacrosAreBounded
PROPERTIES UndoStepsAreCommands
CHECK_DEADLOCK FALSE
