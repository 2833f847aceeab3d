SPECIFICATION Spec
CONSTANTS
  Admins = {a1}
  Amount = 2
  MaxBalance = 4
  NoPlan = NoPlan
PROPERTIES RetrySkipsDeduction
\* A refunded order needs nothing more.
CHECK_DEADLOCK FALSE
