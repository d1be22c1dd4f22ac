SPECIFICATION BothSpec
CONSTANTS
  Session = {s1}
  Call = {c1, c2}
  Grace = 1
  IdleTime = 2
  AbsoluteTime = 3
  MaxTime = 3
  MaxTokens = 3
  MaxVersion = 2
  Change = {r1, r2}
  Asker = {a1, a2}
  Decider = {d1, d2}
  Try = {t1, t2}
  RecoveryCode = {k1}
  MaxAttempts = 2
  MaxStep = 3
  MaxTries = 5
  Caller = {b1, b2}
  AuthSession = {l1}
  Letter = {m1}
  MaxPasswords = 2
SYMMETRY Symmetry
INVARIANTS EndedFamily ConfirmedOnce AttemptsBounded NewPasswordEndsSessions
CHECK_DEADLOCK FALSE
