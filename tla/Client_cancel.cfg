SPECIFICATION Spec
CONSTANTS
  MaxOpens = 1
  MaxCloses = 1
  MaxRetry = 2
  MaxStops = 0
  DeactivateMayFail = FALSE
INVARIANT DeactivateTerminates
CHECK_DEADLOCK FALSE
