CONSTANTS
  uk = uk
  het = het
  private = private
  shared = shared
  human = human
  loop = loop
  NoDoc = NoDoc
  Absent = Absent
  Scenarios = {uk, het}
  Default = uk
  Files = {private, shared}
  Declared <- MCDeclared
  Contents = {c0, c1}
  Listed = {human}
  Reviews <- MCReviews
  Signs <- MCSigns
  Records <- MCRecords
  Scores <- MCScores
  FirstReview <- MCFirstReview
  FirstSign <- MCFirstSign
  FirstRecord <- MCFirstRecord
  Faults = {"timeout"}
  MaxCommits = 2
  MaxOps = 6
SYMMETRY ContentSymmetry
SPECIFICATION Spec
INVARIANTS SignedIsReleased BannerIsWorst RecordIsSigned CalibratedIsBacked
CHECK_DEADLOCK FALSE
