SPECIFICATION LiveSpec
CONSTANTS
  Orders = {o1}
  Workers = {w1, w2}
  OrderTypes = {"balance"}
  NoTask = NoTask
PROPERTIES PaidSettles PendingResolves
\* An order that failed at creation, or was refunded, may have nothing left to do.
CHECK_DEADLOCK FALSE
