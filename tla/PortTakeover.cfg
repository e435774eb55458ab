SPECIFICATION Spec
CONSTANTS
  s1 = s1
  s2 = s2
  s3 = s3
  h1 = h1
  h2 = h2
  Drivers = {s1, s2, s3, h1, h2}
  Privileged = {s1, s2, s3, h1, Other}
  Successor <- Restarts
  Other = Other
  Free = Free
INVARIANTS
  TypeOK
  OnlyListenersAreStopped
PROPERTY TakeoverSettles
CHECK_DEADLOCK FALSE
