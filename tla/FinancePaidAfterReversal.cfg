SPECIFICATION Spec
SYMMETRY Symmetry
CHECK_DEADLOCK FALSE
CONSTANTS
  Workers = {w1}
  Operations = {"generate", "record", "reverse"}
  Enrollments = {e1}
  Fees <- MCFees
  Scope <- MCScope
  FeeAmount <- MCFeeAmount
  PeriodsOf <- MCPeriodsOf
  NoPeriod = NoPeriod
  References = {r1}
  NoReference = NoReference
  MaxPayments = 2
  MaxClaims = 1
  MaxAmount = 2
  MaxCredit = 0
  fee = fee
  period = period
INVARIANTS
  PaidIsPaid
