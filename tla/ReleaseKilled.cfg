CONSTANTS
  uk = uk
  het = het
  private = private
  shared = shared
  human = human
  loop = loop
  NoDoc = NoDoc
  Absent = Absent
  Scenarios = {uk, het}
  Default = uk
  Files = {private, shared}
  Declared <- MCDeclared
  Contents = {c0, c1}
  Listed = {human}
  Reviews <- MCReviews
  Signs <- MCSigns
  Records <- MCRecords
  Scores <- MCScores
  FirstReview <- MCFirstReview
  FirstSign <- MCFirstSign
  FirstRecord <- MCFirstRecord
  Faults = {"killed"}
  MaxCommits = 2
  MaxOps = 2
SYMMETRY ContentSymmetry
SPECIFICATION Spec
INVARIANT NeverFalselyPasses
CHECK_DEADLOCK FALSE
