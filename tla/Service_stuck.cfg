SPECIFICATION Spec
CONSTANTS
  p1 = p1
  Protos = {p1}
  Kinds = {"wireguard"}
  MaxJobs = 2
PROPERTIES
  StopEnds
CHECK_DEADLOCK FALSE
