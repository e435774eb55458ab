SPECIFICATION FairSpec
CONSTANTS
  p1 = p1
  p2 = p2
  Ports = {p1, p2}
  Model <- TwoModels
  Sessions <- Workers
  Loose = {p1}
  Kernel = Kernel
  Nobody = Nobody
  MaxAddresses = 3
  MaxFaults = 1
  DISCONNECT_ERROR_THRESHOLD = 2
  MayStop = TRUE
INVARIANTS
  ReadersArePublished
  StopGivesBack
PROPERTY KeyboardsAreServed
CHECK_DEADLOCK FALSE
