SPECIFICATION Spec
CONSTANTS
  p1 = p1
  Protos = {p1}
  Kinds = {"wireguard", "openvpn", "xray"}
  MaxJobs = 3
CONSTRAINT ThirdInOrder
INVARIANTS
  OneTunnel
  DisconnectedMeansDown
  OrderlyInv
  ListenerFollowsState
  ServiceInv
PROPERTIES
  OnlyJoinCycleHangs
CHECK_DEADLOCK FALSE
