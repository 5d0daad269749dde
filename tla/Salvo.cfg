CONSTANTS
  Rulesets <- MCRulesets
  Starts <- MCStarts
  MaxWeeks = 5
SPECIFICATION Spec
INVARIANTS Conserved CulminatesAtCollapse BandBrackets StarvedIsFlagged StarvedReadsDepleting LaneIsHomogeneous
CHECK_DEADLOCK FALSE
