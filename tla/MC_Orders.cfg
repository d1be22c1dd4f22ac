SPECIFICATION ClockSpec
CONSTANTS
  RevisionLimit = 1
  ReviewWindow = 2
  ResponseWindow = 1
  MaxDeliveries = 3
  MaxDisputes = 1
INVARIANTS OneRevisionInHand FrozenWhileHeld TimeoutAfterFullReview WindowAccountedFor NothingWithheld OffersStand
PROPERTIES KeepsEscrow DisputedOrderStands ReviewConcludes
CHECK_DEADLOCK FALSE
