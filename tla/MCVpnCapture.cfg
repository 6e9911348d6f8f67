SPECIFICATION Spec
CONSTANTS
  MaxStarts = 2
  MaxActs = 3
  MaxFaults = 1
INVARIANTS VpnTypeOK ServiceAgrees
PROPERTIES TunIsGivenBack StartEnds
CHECK_DEADLOCK FALSE
