------------------------- MODULE PayrollProperties --------------------------
(***************************************************************************)
(* What the payroll of an employee guarantees: for any overlap of the      *)
(* handlers, then as long as no handler was overlapped, then what the      *)
(* repository says and the code does not keep.                             *)
(***************************************************************************)
EXTENDS Payroll

-----------------------------------------------------------------------------
(* Under every interleaving *)

(* "Payroll automatically reflects repayment": whatever overlaps, what the  *)
(* advances were repaid is what the payslips were charged.                  *)
RepaymentsAreCharged ==
  SumFunction([s \in DOMAIN payslip |-> payslip[s].repaid]) = SumFunction([a \in DOMAIN advance |-> advance[a].repaid])

-----------------------------------------------------------------------------
(* As long as no handler was overlapped *)

(* netSalary is stored by calculate and never again: it is what the lines   *)
(* add up to, repayments included.                                          *)
NetIsRight ==
  ~ overlapped =>
    \A s \in DOMAIN payslip :
      LET p == payslip[s]
      IN  IF p.status = "DRAFT" THEN p.net = p.basic /\ p.repaid = 0
          ELSE p.net = p.basic + p.plus - p.minus - p.repaid

(* The installments of an advance add up to it exactly: never more is taken *)
(* from the employee, and it is closed when, and only when, nothing is left.*)
AdvanceIsSettledOnce ==
  ~ overlapped =>
    \A a \in DOMAIN advance :
      /\ advance[a].repaid <= advance[a].amount
      /\ advance[a].status = "COMPLETED" <=> advance[a].repaid = advance[a].amount

(* "A raise never overwrites the prior row - it closes it": the salaries    *)
(* cover disjoint times, and one is current.                                *)
OneSalaryAtATime ==
  ~ overlapped =>
    /\ \A i, j \in DOMAIN salary : i < j => salary[i].to # Open /\ salary[i].to <= salary[j].from
    /\ salary # << >> => Cardinality(Current) = 1

(* The figures of a payslip stand once it left DRAFT.                       *)
CalculatedStands ==
  [][~ overlapped /\ ~ overlapped' =>
       \A s \in DOMAIN payslip :
         payslip[s].status # "DRAFT" =>
           /\ payslip'[s].net = payslip[s].net /\ payslip'[s].repaid = payslip[s].repaid
           /\ payslip'[s].lines = payslip[s].lines
           /\ payslip[s].status = "PAID" => payslip'[s].status = "PAID"]_vars

-----------------------------------------------------------------------------
(* Said by the repository, not kept by the code *)

(* "This employee already has a payslip for this payroll period" (create):  *)
(* there is one payslip per period.                                         *)
OnePayslipPerPeriod ==
  ~ overlapped => \A s, u \in DOMAIN payslip : payslip[s].period = payslip[u].period => s = u

=============================================================================
