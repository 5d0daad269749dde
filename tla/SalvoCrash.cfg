CONSTANTS
  Rulesets <- MCTwoThreats
  Starts <- MCStarts
  MaxWeeks = 5
SPECIFICATION Spec
INVARIANTS AcceptedNeverCrashes
CHECK_DEADLOCK FALSE
