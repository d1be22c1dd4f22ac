SPECIFICATION AllSpec
CONSTANTS
  User = {"client", "provider"}
  Request = {r1, r2}
  PageSize = 1
  Earlier <- OneRead
  MaxMessages = 2
  Tab = {t1}
  Owner <- OneTab
  Chooser = {"client"}
  Session = {s1}
  Connection = {k1}
  AccessTime = 1
  MaxTime = 3
  MaxVersion = 2
INVARIANTS KeepsWhatWasListed HiddenIsQuiet ServedIsWatched
PROPERTIES CatchesUp DeadSocketForgotten
CHECK_DEADLOCK FALSE
