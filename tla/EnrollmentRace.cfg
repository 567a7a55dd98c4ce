\* Two handlers at once, one student with three enrollments.
SPECIFICATION Spec
SYMMETRY Symmetry
CHECK_DEADLOCK FALSE
CONSTANTS
  Workers = {w1, w2}
  Operations = {"create", "bulk", "request", "approve", "remove", "promote", "archive", "edit"}
  Students = {s1}
  Sections = {A8y1, B8y2}
  Classes <- MCClasses
  ClassOf <- MCClassOf
  Capacity <- MCCapacity
  Unlimited = Unlimited
  ChosenNumbers = {}
  ChosenRolls = {2}
  MaxEnrollments = 3
  MaxUndo = 0
  A7y1 = A7y1
  A7y2 = A7y2
  A8y1 = A8y1
  A8y2 = A8y2
  B8y2 = B8y2
  A1y3 = A1y3
  B1y3 = B1y3
INVARIANTS
  TypeOK
  HistoryLeadsForward
  ActiveStudentIsEnrolled
  ProgressIsRecorded
  RequestsOK
