SPECIFICATION Spec
CONSTANTS
  o1 = o1
  o2 = o2
  Paths = {p1}
  MaxAddr = 2
  NoPath = NoPath
  Openers = {o1, o2}
  Watchers = {}
  Background = bg
  Ambiguous = {1, 2}
  MaxCalls = 2
  RxCap = 1
  FlakyProbes = TRUE
  AllowShutdown = TRUE
SYMMETRY OpenerSymmetry
INVARIANTS
  TypeOK
  OneOpenerPerPath
  SessionHoldsClaim
PROPERTIES
  WorkingSessionNotReplaced
CHECK_DEADLOCK FALSE
