CONSTANTS
  Proc = {p1}
  Data = {d1, d2}
  Short = {}
  Absent = Absent
  Torn = Torn
  Faults = {}
SPECIFICATION Spec
INVARIANTS SameCandidateNeverConflicts
SYMMETRY Symmetry
