----------------------------- MODULE MCResults ------------------------------
(* Instances of the results of an exam subject for TLC.                     *)
EXTENDS ResultsProperties, TLC

CONSTANTS w1, w2, A, B, e1, e2

\* Workers, sections and students can be told apart by nothing but their name.
Symmetry == Permutations({w1, w2}) \cup Permutations({A, B}) \cup Permutations({e1, e2})

\* Bound: what follows an overlap is followed in a class of one student.
OneStudentIfOverlapped ==
  overlapped => \E joined \in Enrollments : \A e \in Enrollments \ {joined} : status[e] = "NONE"
=============================================================================
