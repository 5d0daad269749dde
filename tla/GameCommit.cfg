CONSTANTS
  NoSeed = NoSeed
  NoRoute = NoRoute
  NoSteps = NoSteps
  NoLedger = NoLedger
  Torn = Torn
  NoGame = NoGame
  None = "none"
  Routes = {"r1", "r2"}
  MinQty = 1
  MaxQty = 2
  ReplaySeed = 0
  REJECT_CODES = {"no-command"}
  Live <- MCLive
  Offline <- MCOffline
  Oracle <- MCOracle
SPECIFICATION Spec
INVARIANTS OneRunAudited DoneIsClean
