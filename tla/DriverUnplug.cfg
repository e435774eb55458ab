SPECIFICATION FairSpec
CONSTANTS
  o1 = o1
  o2 = o2
  Paths = {p1}
  MaxAddr = 1
  NoPath = NoPath
  Openers = {}
  Watchers = {w1}
  Background = bg
  Ambiguous = {}
  MaxCalls = 1
  RxCap = 1
  FlakyProbes = FALSE
  AllowShutdown = FALSE
PROPERTIES
  UnplugIsStreamed
CHECK_DEADLOCK FALSE
