SPECIFICATION Spec
CONSTANTS
  Earning = {e1, e2}
  OrderOf <- TwoOrders
  Payout = {p1, p2}
  Destination = {d1}
  OldDecision = TRUE
INVARIANT ReservationReconciles
SYMMETRY Symmetry
CHECK_DEADLOCK FALSE
