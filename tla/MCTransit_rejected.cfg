SPECIFICATION Spec
CONSTANTS
  peerA = peerA
  peerB = peerB
  routerR = routerR
  routerS = routerS
  self = self
  inner = inner
  text = text
  Self = self
  Peers = {peerA, peerB}
  Routers = {routerR, routerS}
  Builds <- MCBuilds
  Cells <- MCCells
  InnerBuild <- MCInnerBuild
  CreatorBuilds <- MCCreatorBuilds
  MaxActive = 3
  MaxActivePerPeer = 2
  Available = 1
  Lifetime = 2
  Skew = 1
  PeerCapacity = 1
  MaxNow = 4
  Seed = 1
  Capacity = 1
  AggregateMax = 2
  MessageMax = 2
  ReassemblyExpiry = 1
  WindowCapacity = 2
  FragmentIdMax = 1
PROPERTIES LiveUntilExpiry
