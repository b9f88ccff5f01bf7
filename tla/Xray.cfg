SPECIFICATION FairSpec
CONSTANTS
  MaxOpens = 2
  MaxCloses = 1
  Guarded = {1}
INVARIANTS DisconnectedMeansRestored ConnectedMeansWhole XrayInv
PROPERTIES StopServedFirst ConnectingEnds
CHECK_DEADLOCK FALSE
