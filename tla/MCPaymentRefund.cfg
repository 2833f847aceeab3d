SPECIFICATION Spec
CONSTANTS
  Admins = {a1, a2}
  Amount = 2
  MaxBalance = 4
  NoPlan = NoPlan
SYMMETRY AdminSymmetry
INVARIANTS TypeOK RefundedMeansPaidOut TakenAtMostOnce TakenOnlyForRefund
PROPERTIES RefundedStays
\* A refunded order needs nothing more.
CHECK_DEADLOCK FALSE
