SPECIFICATION Spec
CONSTANTS
  RevisionLimit = 0
  ReviewWindow = 1
  ResponseWindow = 1
  MaxDeliveries = 1
  MaxDisputes = 1
  MaxPayouts = 0
  Worker = {w1}
  Order = {o1, o2}
  Limit = 2
  Call = {c1}
  MaxPayments = 1
PROPERTY ExpiredIsCompleted
CHECK_DEADLOCK FALSE
