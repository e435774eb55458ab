SPECIFICATION HistorySpec
CONSTANTS
  Paths = {p1, p2}
  MaxAddr = 2
  NoPath = NoPath
  Openers = {}
  Watchers = {w1}
  Background = bg
  Ambiguous = {2}
  MaxCalls = 0
  RxCap = 1
  FlakyProbes = FALSE
  AllowShutdown = TRUE
INVARIANTS
  IndexExact
  ListsConverge
PROPERTIES
  OnlyGoneDevicesGoOffline
  RegistryDoesNotGoBack
CHECK_DEADLOCK FALSE
