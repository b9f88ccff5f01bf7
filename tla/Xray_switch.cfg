SPECIFICATION Spec
CONSTANTS
  MaxOpens = 1
  MaxCloses = 0
  Guarded = {1}
INVARIANTS SwitchOn
CHECK_DEADLOCK FALSE
