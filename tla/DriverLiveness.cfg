SPECIFICATION FairSpec
CONSTANTS
  o1 = o1
  o2 = o2
  Paths = {p1}
  MaxAddr = 2
  NoPath = NoPath
  Openers = {o1, o2}
  Watchers = {}
  Background = bg
  Ambiguous = {2}
  MaxCalls = 1
  RxCap = 1
  FlakyProbes = FALSE
  AllowShutdown = FALSE
PROPERTIES
  OpenReturns
  NoDeadZone
CHECK_DEADLOCK FALSE
