SPECIFICATION FairSpec
CONSTANTS
  Calls = {c1, c2}
  Handlers = {h1}
  MayDispute = TRUE
  Decided = TRUE
INVARIANTS NeverBoth DisputeFreezeKept
PROPERTY RefundConcludes
CHECK_DEADLOCK FALSE
