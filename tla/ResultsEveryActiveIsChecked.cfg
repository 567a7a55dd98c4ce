CONSTANTS
  w1 = w1
  w2 = w2
  A = A
  B = B
  e1 = e1
  e2 = e2
  Workers = {w1}
  Sections = {A, B}
  Enrollments = {e1, e2}
  Maxima = {1, 2}
  Marks = {2}
  Absent = Absent
  PassMarks = {2}
  NoPass = NoPass
  Keep = Keep
SPECIFICATION Spec
SYMMETRY Symmetry
PROPERTY EveryActiveIsChecked
