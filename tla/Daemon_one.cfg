SPECIFICATION FairSpec
CONSTANTS
  k1 = k1
  k2 = k2
  i1 = i1
  i2 = i2
  h1 = h1
  h2 = h2
  n1 = n1
  all = all
  r1 = r1
  Keys = {k1, k2}
  Ifaces = {i1, i2}
  Hosts = {h1, h2}
  Nets = {n1}
  Ranges = {all, r1}
  Defaults = {all}
  Configs <- AllServers
  NoConfig = NoConfig
  Clients = {c1}
  Gateways = {g1}
  MaxDepth = 2
  MaxCount = 1
INVARIANTS PeerInstalled ServerExcluded NoRouteForgotten OneClientInv
PROPERTIES LeavesNothing HandshakeNoticed
