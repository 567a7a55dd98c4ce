------------------------------ MODULE Payroll -------------------------------
(***************************************************************************)
(* The payslips of one employee, from draft to paid, the salary history    *)
(* they start from and the advances they repay.                            *)
(*                                                                         *)
(* Source: apps/api/src/payroll (payslips, staff-advances,                 *)
(* payroll-periods and salary-history .service.ts).                        *)
(*                                                                         *)
(* Employees share only the periods, so one is enough.  A handler reads    *)
(* and checks first and writes by id later: it is in `pending` in between. *)
(* calculate has two such gaps, before its transaction and in it (READ     *)
(* COMMITTED).  Of the lines and repayments only sums are kept.            *)
(* overlapped is history: has anything ever run inside such a gap?         *)
(*                                                                         *)
(* An operator whose comment starts with "Mutant" is not used: it is a     *)
(* plausible bug of the definition that follows it.                        *)
(***************************************************************************)
EXTENDS Integers, FiniteSets, Sequences, Functions, Tables

CONSTANTS
  Workers,      \* handlers that can be in progress at once
  Periods,      \* payroll periods of the school
  Basics,       \* basic salaries
  NoBasic,      \* no basic salary given: the current salary is taken
  LineTypes,    \* types of the lines an admin adds, of LineType
  LineAmounts,  \* amounts of the lines an admin adds
  Amounts,      \* amounts of advances
  Installments, \* what an advance repays per period
  LastDay,      \* bound: a salary is effective from one of the days 1..LastDay
  MaxSalaries,  \* bound: salaries ever recorded
  MaxPayslips,  \* bound: payslips ever created
  MaxAdvances,  \* bound: advances ever issued
  MaxLines      \* bound: lines an admin ever adds

\* ALLOWANCE and BONUS, DEDUCTION, OTHER
LineType == {"plus", "minus", "other"}

ASSUME PayrollAssumption ==
  /\ LineTypes \subseteq LineType
  /\ Basics \subseteq Nat \ {0} /\ NoBasic \notin Basics
  /\ LineAmounts \subseteq Nat \ {0} /\ Amounts \subseteq Nat \ {0} /\ Installments \subseteq Nat \ {0}
  /\ LastDay \in Nat /\ MaxSalaries \in Nat /\ MaxPayslips \in Nat
  /\ MaxAdvances \in Nat /\ MaxLines \in Nat

VARIABLES
  period,      \* payroll_periods.status
  salary,      \* table salary_history
  payslip,     \* table payslips, with its lines
  advance,     \* table staff_advances, with its repayments
  pending,     \* handlers between their reads and their writes, by worker
  overlapped   \* has any handler been overlapped?

tables == <<period, salary, payslip, advance>>
vars == <<tables, pending, overlapped>>

\* to: the day the next salary takes effect, Open (null) while there is none
Open == 0
Salary == [basic : Basics, from : 1..LastDay, to : 0..LastDay]

Stage == {"DRAFT", "CALCULATED", "REVIEWED", "APPROVED", "PAID"}

\* plus, minus: allowances and bonuses, deductions; other: lines of type OTHER;
\* repaid: the ADVANCE_REPAYMENT lines.
Payslip == [period : Periods, basic : Basics, plus : Nat, minus : Nat, other : Nat, lines : Nat,
            repaid : Nat, net : Int, status : Stage]

\* repaid: the sum of the repayments
Advance == [amount : Amounts, per : Installments, status : {"ACTIVE", "COMPLETED"}, repaid : Nat]

-----------------------------------------------------------------------------
(* Handlers *)

\* Something runs now: whoever is between two statements is overlapped.
Disturb == overlapped' = (overlapped \/ DOMAIN pending # {})

Begin(w, request) ==
  /\ w \notin DOMAIN pending
  /\ pending' = Upsert(pending, OneRow(w, request))
  /\ Disturb

Writing(w, op) == w \in DOMAIN pending /\ pending[w].op = op

End(w) == pending' = Without(pending, {w}) /\ UNCHANGED overlapped

\* A statement fails or the process dies; the transaction of calculate rolls back.
Rollback(w) ==
  /\ w \in DOMAIN pending
  /\ End(w)
  /\ UNCHANGED tables

Now(change) == change /\ Disturb /\ UNCHANGED pending

-----------------------------------------------------------------------------
(* Salaries, periods, advances *)

\* SalaryHistoryService.create; findFirst without an order may find any open row
RaiseRead(w, basic, day) ==
  /\ Len(salary) + Cardinality({v \in DOMAIN pending : pending[v].op = "raise"}) < MaxSalaries
  /\ LET open == {i \in DOMAIN salary : salary[i].to = Open}
     IN  IF open = {}
         THEN Begin(w, [op |-> "raise", basic |-> basic, day |-> day, current |-> 0])
         ELSE \E i \in open :
                /\ salary[i].from < day
                /\ Begin(w, [op |-> "raise", basic |-> basic, day |-> day, current |-> i])
  /\ UNCHANGED tables

\* Mutant: the salary that was current stays open.
RaiseWriteKeeps(w) ==
  /\ Writing(w, "raise")
  /\ salary' = Append(salary, [basic |-> pending[w].basic, from |-> pending[w].day, to |-> Open])
  /\ End(w)
  /\ UNCHANGED <<period, payslip, advance>>

RaiseWrite(w) ==
  /\ Writing(w, "raise")
  /\ LET closed == [i \in DOMAIN salary |->
                      IF i = pending[w].current THEN [salary[i] EXCEPT !.to = pending[w].day] ELSE salary[i]]
     IN  salary' = Append(closed, [basic |-> pending[w].basic, from |-> pending[w].day, to |-> Open])
  /\ End(w)
  /\ UNCHANGED <<period, payslip, advance>>

\* getCurrent: of the open rows the one that took effect last
Current ==
  {i \in DOMAIN salary : salary[i].to = Open
     /\ \A j \in DOMAIN salary : salary[j].to = Open => salary[j].from <= salary[i].from}

Close(p) ==
  /\ period[p] = "OPEN"
  /\ Now(period' = [period EXCEPT ![p] = "CLOSED"])
  /\ UNCHANGED <<salary, payslip, advance>>

IssueAdvance(amount, per) ==
  /\ Len(advance) < MaxAdvances
  /\ Now(advance' = Append(advance, [amount |-> amount, per |-> per, status |-> "ACTIVE", repaid |-> 0]))
  /\ UNCHANGED <<period, salary, payslip>>

-----------------------------------------------------------------------------
(* Payslips *)

\* PayslipsService.create.  The unique index on the period, the teacher and the
\* staff member refuses nothing: one of the two is always null, and nulls differ.
CreateRead(w, p, given) ==
  /\ Len(payslip) + Cardinality({v \in DOMAIN pending : pending[v].op = "create"}) < MaxPayslips
  /\ period[p] = "OPEN"
  /\ \/ given \in Basics /\ Begin(w, [op |-> "create", period |-> p, basic |-> given])
     \/ /\ given = NoBasic
        /\ \E i \in Current : Begin(w, [op |-> "create", period |-> p, basic |-> salary[i].basic])
  /\ UNCHANGED tables

CreateWrite(w) ==
  /\ Writing(w, "create")
  /\ payslip' = Append(payslip,
       [period |-> pending[w].period, basic |-> pending[w].basic, plus |-> 0, minus |-> 0, other |-> 0, lines |-> 0,
        repaid |-> 0, net |-> pending[w].basic, status |-> "DRAFT"])
  /\ End(w)
  /\ UNCHANGED <<period, salary, advance>>

\* The lines that exist and the ones that are being added.
Lines ==
  SumFunction([s \in DOMAIN payslip |-> payslip[s].lines]) + Cardinality({v \in DOMAIN pending : pending[v].op = "line"})

\* Mutant: lines can be added until the payslip is reviewed.
AddLineReadLater(w, s, type, amount) ==
  /\ payslip[s].status \in {"DRAFT", "CALCULATED"} /\ Lines < MaxLines
  /\ Begin(w, [op |-> "line", row |-> s, type |-> type, amount |-> amount])
  /\ UNCHANGED tables

AddLineRead(w, s, type, amount) ==
  /\ payslip[s].status = "DRAFT" /\ Lines < MaxLines
  /\ Begin(w, [op |-> "line", row |-> s, type |-> type, amount |-> amount])
  /\ UNCHANGED tables

AddLineWrite(w) ==
  /\ Writing(w, "line")
  /\ LET r == pending[w]
         Plus(type) == IF r.type = type THEN r.amount ELSE 0
     IN  payslip' = [payslip EXCEPT ![r.row] =
           [payslip[r.row] EXCEPT !.plus = @ + Plus("plus"), !.minus = @ + Plus("minus"),
                                  !.other = @ + Plus("other"), !.lines = @ + 1]]
  /\ End(w)
  /\ UNCHANGED <<period, salary, advance>>

(* calculate *)

\* Mutant: a payslip can be calculated again until it is reviewed.
CalculateAgain(w, s) ==
  /\ payslip[s].status \in {"DRAFT", "CALCULATED"}
  /\ Begin(w, [op |-> "calculate", row |-> s])
  /\ UNCHANGED tables

CalculateCheck(w, s) ==
  /\ payslip[s].status = "DRAFT"
  /\ Begin(w, [op |-> "calculate", row |-> s])
  /\ UNCHANGED tables

Remaining(a) == advance[a].amount - advance[a].repaid

\* Mutant: the installment is repaid to the last, however little is left.
WholeInstallment(a) == advance[a].per

Installment(a) == IF advance[a].per < Remaining(a) THEN advance[a].per ELSE Remaining(a)

\* The advances this calculation repays, with the installments.
Due == [a \in {a \in DOMAIN advance : advance[a].status = "ACTIVE" /\ Remaining(a) > 0} |-> Installment(a)]

Cleared == {a \in DOMAIN Due : Remaining(a) = Due[a]}

\* The transaction has read the lines and the advances.
CalculateRead(w) ==
  /\ Writing(w, "calculate")
  /\ LET s == pending[w].row
     IN  pending' = [pending EXCEPT ![w] =
           [op |-> "store", row |-> s, due |-> Due, cleared |-> Cleared,
            before |-> payslip[s].basic + payslip[s].plus - payslip[s].minus]]
  /\ overlapped' = (overlapped \/ DOMAIN pending # {w})
  /\ UNCHANGED tables

Total(due) == SumFunction(due)

\* Mutant: a repayment is recorded without its line on the payslip.
CalculateWriteNoLine(w) ==
  /\ Writing(w, "store")
  /\ LET r == pending[w]
     IN  /\ payslip' = [payslip EXCEPT ![r.row] =
              [payslip[r.row] EXCEPT !.net = r.before - Total(r.due), !.status = "CALCULATED"]]
         /\ advance' = [a \in DOMAIN advance |->
              IF a \in DOMAIN r.due
              THEN [advance[a] EXCEPT !.repaid = @ + r.due[a], !.status = IF a \in r.cleared THEN "COMPLETED" ELSE @]
              ELSE advance[a]]
  /\ End(w)
  /\ UNCHANGED <<period, salary>>

\* Commit: the repayments and their lines, the advances that are paid back, the net.
CalculateWrite(w) ==
  /\ Writing(w, "store")
  /\ LET r == pending[w]
     IN  /\ payslip' = [payslip EXCEPT ![r.row] =
              [payslip[r.row] EXCEPT !.repaid = @ + Total(r.due), !.net = r.before - Total(r.due),
                                     !.status = "CALCULATED"]]
         /\ advance' = [a \in DOMAIN advance |->
              IF a \in DOMAIN r.due
              THEN [advance[a] EXCEPT !.repaid = @ + r.due[a], !.status = IF a \in r.cleared THEN "COMPLETED" ELSE @]
              ELSE advance[a]]
  /\ End(w)
  /\ UNCHANGED <<period, salary>>

(* review, approve, pay: transition *)

From(to) ==
  CASE to = "REVIEWED" -> "CALCULATED" [] to = "APPROVED" -> "REVIEWED" [] to = "PAID" -> "APPROVED"

TransitionRead(w, s, to) ==
  /\ payslip[s].status = From(to)
  /\ Begin(w, [op |-> "transition", row |-> s, to |-> to])
  /\ UNCHANGED tables

TransitionWrite(w) ==
  /\ Writing(w, "transition")
  /\ LET r == pending[w]
     IN  payslip' = [payslip EXCEPT ![r.row].status = r.to]
  /\ End(w)
  /\ UNCHANGED <<period, salary, advance>>

-----------------------------------------------------------------------------
Init ==
  /\ period = [p \in Periods |-> "OPEN"]
  /\ salary = << >>
  /\ payslip = << >>
  /\ advance = << >>
  /\ pending = Without([w \in Workers |-> 0], Workers)
  /\ overlapped = FALSE

Reads(w) ==
  \/ \E basic \in Basics, day \in 1..LastDay : RaiseRead(w, basic, day)
  \/ \E p \in Periods : \/ CreateRead(w, p, NoBasic)
                        \/ \E given \in Basics : CreateRead(w, p, given)
  \/ \E s \in DOMAIN payslip :
       \/ \E type \in LineTypes, amount \in LineAmounts : AddLineRead(w, s, type, amount)
       \/ CalculateCheck(w, s)
       \/ \E to \in {"REVIEWED", "APPROVED", "PAID"} : TransitionRead(w, s, to)

Writes(w) ==
  \/ RaiseWrite(w)
  \/ CreateWrite(w)
  \/ AddLineWrite(w)
  \/ CalculateRead(w)
  \/ CalculateWrite(w)
  \/ TransitionWrite(w)
  \/ Rollback(w)

Next ==
  \/ \E w \in Workers : Reads(w) \/ Writes(w)
  \/ \E p \in Periods : Close(p)
  \/ \E amount \in Amounts, per \in Installments : IssueAdvance(amount, per)

Spec == Init /\ [][Next]_vars

=============================================================================
