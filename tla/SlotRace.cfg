\* No SYMMETRY: temporal properties are checked.
CONSTANTS
  Proc = {p1, p2, p3}
  Data = {d1, d2, d3}
  Short = {d2, d3}
  Absent = Absent
  Torn = Torn
  Faults = {"power_loss"}
SPECIFICATION Spec
INVARIANTS CommittedDurable SlotInv AckedNeverReplaced
PROPERTIES RegisterSpec NeverOverwritten SuccessesHold
