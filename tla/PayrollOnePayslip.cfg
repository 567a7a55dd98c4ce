\* The unique index over teacher and staff member, one of them always null, refuses nothing.
CONSTANTS
  w1 = w1  w2 = w2  p1 = p1  NoBasic = NoBasic
  Workers = {w1, w2}
  Periods = {p1}
  Basics = {2}
  LineTypes = {"minus"}
  LineAmounts = {1}
  Amounts = {3}
  Installments = {2}
  LastDay = 2
  MaxSalaries = 2
  MaxPayslips = 2
  MaxAdvances = 1
  MaxLines = 1
SPECIFICATION Spec
SYMMETRY Symmetry
INVARIANTS OnePayslipPerPeriod
CHECK_DEADLOCK FALSE
