----------------------------- MODULE MCPayroll ------------------------------
(* Instances of the payroll of an employee for TLC.                         *)
EXTENDS PayrollProperties, TLC

CONSTANTS w1, w2, p1

\* Workers can be told apart by nothing but their name.
Symmetry == Permutations({w1, w2})
=============================================================================
