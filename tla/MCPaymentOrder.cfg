SPECIFICATION Spec
CONSTANTS
  Orders = {o1}
  Workers = {w1, w2}
  OrderTypes = {"balance", "subscription"}
  NoTask = NoTask
SYMMETRY WorkerSymmetry
INVARIANTS TypeOK DeliveredAtMostOnce CompletedMeansDelivered DeliveredOnlyIfPaid NotifiedAfterDelivery
PROPERTIES AckedOnlyWhenSettled ImplementsLedger
\* An order that failed at creation, or was refunded, may have nothing left to do.
CHECK_DEADLOCK FALSE
