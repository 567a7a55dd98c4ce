SPECIFICATION Spec
SYMMETRY Symmetry
CHECK_DEADLOCK FALSE
CONSTANTS
  Workers = {w1, w2}
  Operations = {"generate", "record", "reverse", "submit", "verify", "reject", "adjust"}
  Enrollments = {e1}
  Fees <- MCFees
  Scope <- MCScope
  FeeAmount <- MCFeeAmount
  PeriodsOf <- MCPeriodsOf
  NoPeriod = NoPeriod
  References = {}
  NoReference = NoReference
  MaxPayments = 3
  MaxClaims = 1
  MaxAmount = 2
  MaxCredit = 1
  fee = fee
  period = period
INVARIANTS
  ClaimIsPaidOnce
  NoOverpayment
  StatusesAreDerived
PROPERTIES
  ImplementsAccount
