SPECIFICATION Spec
CONSTANTS
  Earning = {e1, e2}
  OrderOf <- TwoOrders
  Payout = {p1, p2}
  Destination = {d1}
  OldDecision = FALSE
INVARIANTS ReservationReconciles AccountsReconcile
PROPERTY KeepsCustody
SYMMETRY Symmetry
CHECK_DEADLOCK FALSE
