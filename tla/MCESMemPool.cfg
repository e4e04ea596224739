CONSTANTS
  P1 = P1
  P2 = P2
  Pools <- MCPools
  Sizes <- MCSizes
  Reqs <- MCReqs
  PoolSize = 6
  BDSize = 1
  MaxFaults = 1
SPECIFICATION Spec
INVARIANTS
  TypeOK
  BlocksPartitioned
  HeldBlockFitsRequest
