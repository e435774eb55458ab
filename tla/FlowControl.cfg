SPECIFICATION FairSpec
CONSTANTS
  Transports = {"Direct", "DongleForward"}
  QueryRetries = 5
  SendRetries = 3
  ForwardSends = 5
  PollRetries = 15
  StatusRetries = 5
INVARIANTS
  CommandsSpaced
  SuccessMeansSent
PROPERTIES
  OperationsReturn
