CONSTANTS
  NoSeed = NoSeed
  NoRoute = NoRoute
  Routes = {"r1", "r2"}
  MinQty = 1
  MaxQty = 2
  ReplaySeed = 0
  Seeds = {0, 7}
  Batches <- MCBatches
  Origins = {3}
  Secrets <- MCSecrets
  Rolls = {49, 50}
  Horizon = 2
  FogThresholds = {0, 50, 99}
  Items = {1, 2, 3}
  Partitions <- MCPartitions
  AgentSets <- MCAgents
SPECIFICATION Spec
INVARIANTS HeadInv NeverRaises GatePasses DrawDecides FogGatePasses MovesStayHidden ContextsStayPrivate
CHECK_DEADLOCK FALSE
