\* Two sessions, one student, two calls in flight.
CONSTANTS
  Enrollments = {e1}
  Slots = {morning, afternoon}
  Away = Away
  Nowhere = Nowhere
  Statuses = {present, absent}
  Present = present
  MaxCalls = 2
SPECIFICATION Spec
SYMMETRY Symmetry
INVARIANT NothingLostSilently
CHECK_DEADLOCK FALSE
