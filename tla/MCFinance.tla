------------------------------ MODULE MCFinance -----------------------------
(***************************************************************************)
(* Instances of student finance for TLC: one fee of two units, billed once *)
(* (an invoice) or for a period (a charge).                                *)
(***************************************************************************)
EXTENDS FinanceProperties, TLC

CONSTANTS fee, period

MCFees      == {fee}
MCScope     == [f \in MCFees |-> Enrollments]
MCFeeAmount == [f \in MCFees |-> 2]
MCPeriodsOf == [f \in MCFees |-> {period}]

Symmetry == Permutations(Enrollments) \cup Permutations(Workers) \cup Permutations(References)

=============================================================================
