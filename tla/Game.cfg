CONSTANTS
  NoSeed = NoSeed
  NoRoute = NoRoute
  NoSteps = NoSteps
  None = "none"
  Routes = {"r1", "r2"}
  MinQty = 1
  MaxQty = 1
  ReplaySeed = 0
  REJECT_CODES = {"malformed-bytes", "no-command", "ambiguous-command", "semantic-field-invalid", "non-canon-command", "unknown-action", "params-schema-mismatch"}
  Slots <- BothSlots
  Turns = 2
  MaxRetries = 1
  Cap = 6
  Responses <- MCResponses
  Inputs = {1}
  Usages <- MCUsages
  Undercount = 1
  MaxTokens = 1
  PriceIn = 1
  PriceOut = 1
  Origins = {1}
  Secrets <- MCSecrets
  Rolls = {49}
  CommandInputs <- MCInputs
  Replies <- MCReplies
SPECIFICATION FairSpec
INVARIANTS NeverRefused GameBinds PrefixReplays OverrunIsOneCall CallBudget CommitKeepsCommands
PROPERTIES GameEnds PlaysCampaign
CHECK_DEADLOCK FALSE
