SPECIFICATION Spec
CONSTANTS
  Wasms = {w1, w2, w3}
  None = None
  Torn = Torn
  MaxVersion = 1
  MaxFaults = 3
INVARIANT StaleArtifactIsNotRun
