SPECIFICATION ClientSpec
CONSTANTS
  p1 = p1
  p2 = p2
  Definitions <- Models
  Commands <- ClientCommands
  None = None
  Paths = {p1, p2}
  Keyboards <- Plugged
  DeviceFiles <- Files
  Selectors <- CliSelectors
  Requests <- CliRequests
  MaxAddr = 3
INVARIANTS
  WritesInBounds
  WritesAreNotAwaited
  KeycodesAreWhereTheyBelong
  TargetIsTheKeyboardNamed
  SettingsArriveAsAsked
  AnswersAreAwaited
CHECK_DEADLOCK FALSE
