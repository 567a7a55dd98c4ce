SPECIFICATION Spec
CHECK_DEADLOCK FALSE
CONSTANTS
  Workers = {w1}
  Jobs = {j1, j2}
  Rows = {numbered, plain}
  NoRow = NoRow
  Numbered = {numbered}
  Faults = {"crash"}
  MaxCrashes = 1
INVARIANTS
  OneStudentPerRow
