---------------------------- MODULE MCAttendance ----------------------------
(* Instances of the attendance of a section for TLC.                        *)
EXTENDS AttendanceProperties, TLC

\* Morning and afternoon are interchangeable.
Symmetry == Permutations(Slots)

\* Bound: what an impatient teacher does next is not followed, since the properties
\* about marks ask nothing of him.
Patient == past.story # "impatient"
=============================================================================
