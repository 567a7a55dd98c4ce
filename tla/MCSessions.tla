---------------------------- MODULE MCSessions -----------------------------
(* Instances of the login sessions of an account for TLC.                   *)
EXTENDS SessionsProperties, TLC

CONSTANTS w1, w2, t1, t2

\* A parent, a teacher and an admin have a student's sessions, set up in other ways.
TokensByRole == [role \in Roles |-> IF role = "STUDENT" THEN 3 ELSE 2]

Symmetry == Permutations({w1, w2}) \cup Permutations({t1, t2})
=============================================================================
