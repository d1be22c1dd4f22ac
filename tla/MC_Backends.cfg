SPECIFICATION Spec
CONSTANTS
  RevisionLimit = 1
  ReviewWindow = 1
  ResponseWindow = 1
  MaxDeliveries = 2
  MaxDisputes = 1
  MaxPayouts = 2
  Worker = {w1, w2}
  Order = {o1, o2, o3}
  Limit = 2
  Call = {c1, c2}
  MaxPayments = 2
INVARIANTS FrozenForAReason MoneyGoesOneWay RefundHonoured OneSessionEach WorkOrMoney
PROPERTIES KeepsPromise WaitsBehindOthers
CHECK_DEADLOCK FALSE
