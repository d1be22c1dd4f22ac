SPECIFICATION FairSpec
CONSTANTS
  Calls = {c1, c2}
  Handlers = {h1, h2}
  MaxPayments = 2
INVARIANTS
  OnePaymentCounts
PROPERTIES
  NoSessionOncePaid
  PaidSessionSettled
CHECK_DEADLOCK FALSE
