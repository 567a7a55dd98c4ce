\* Two handlers at once, a raise, an advance of two installments, two payslips.
CONSTANTS
  w1 = w1  w2 = w2  p1 = p1  NoBasic = NoBasic
  Workers = {w1, w2}
  Periods = {p1}
  Basics = {2}
  LineTypes = {"minus"}
  LineAmounts = {1}
  Amounts = {3}
  Installments = {2}
  LastDay = 2
  MaxSalaries = 2
  MaxPayslips = 2
  MaxAdvances = 1
  MaxLines = 1
SPECIFICATION Spec
SYMMETRY Symmetry
INVARIANTS RepaymentsAreCharged NetIsRight AdvanceIsSettledOnce OneSalaryAtATime
PROPERTIES CalculatedStands
CHECK_DEADLOCK FALSE
