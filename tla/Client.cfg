SPECIFICATION FairSpec
CONSTANTS
  MaxOpens = 2
  MaxCloses = 1
  MaxRetry = 2
  MaxStops = 1
  DeactivateMayFail = TRUE
CONSTRAINT ShortQueues
INVARIANTS ConnectedMeansUp OnlyEarlyStopLeavesTunnel ClientInv
PROPERTIES PreparingEnds CloseAnswered
CHECK_DEADLOCK FALSE
