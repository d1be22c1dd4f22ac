SPECIFICATION BothSpec
CONSTANTS
  Session = {s1}
  Call = {c1, c2}
  Grace = 1
  IdleTime = 2
  AbsoluteTime = 3
  MaxTime = 3
  MaxTokens = 3
  MaxVersion = 1
  Change = {r1}
  Asker = {a1}
  Decider = {d1}
  Try = {t1}
  RecoveryCode = {k1}
  MaxAttempts = 1
  MaxStep = 1
  MaxTries = 1
  Caller = {b1}
  AuthSession = {l1}
  Letter = {m1}
  MaxPasswords = 1
PROPERTY RecentDuplicateReplays
CHECK_DEADLOCK FALSE
