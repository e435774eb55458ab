SPECIFICATION FairSpec
CONSTANTS
  Callers = {c1, c2, c3}
  Cap = 2
  MaxCalls = 2
  EventCap = 1
  MaxEvents = 2
INVARIANTS
  SubmissionOrder
  CallsAccountedFor
PROPERTIES
  ServesCommands
  SessionEnds
CHECK_DEADLOCK FALSE
