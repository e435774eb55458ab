SPECIFICATION Spec
CONSTANTS
  c1 = c1
  c2 = c2
  c3 = c3
  Clients = {c1, c2, c3}
  Careful = {c1, c2}
  MaxSends = 3
SYMMETRY ClientSymmetry
INVARIANTS
  LoneReadsArePaired
  NoResponseLeftBehind
CHECK_DEADLOCK FALSE
