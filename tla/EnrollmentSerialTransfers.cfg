SPECIFICATION Spec
SYMMETRY Symmetry
CHECK_DEADLOCK FALSE
CONSTANTS
  Workers = {w1}
  Operations = {"create", "request", "approve", "decide", "bulk", "promote"}
  Students = {s1, s2}
  Sections = {A7y1, A8y2, B8y2}
  Classes <- MCClasses
  ClassOf <- MCClassOf
  Capacity <- MCCapacity
  Unlimited = Unlimited
  ChosenNumbers = {}
  ChosenRolls = {}
  MaxEnrollments = 4
  MaxUndo = 0
  A7y1 = A7y1
  A7y2 = A7y2
  A8y1 = A8y1
  A8y2 = A8y2
  B8y2 = B8y2
  A1y3 = A1y3
  B1y3 = B1y3
INVARIANTS
  OneOriginAtMost
  OneRequestPerStudent
  ClosedForAReason
PROPERTIES
  CapacityRespected
