SPECIFICATION ProcessorSpec
CONSTANTS
  Modifiers = {KEY_LEFTSHIFT}
  letter = letter
  backslash = backslash
  non_us_hash = non_us_hash
  error_roll_over = error_roll_over
  Codes = {letter, backslash, non_us_hash, error_roll_over}
  KEY_A = KEY_A
  KEY_BACKSLASH = KEY_BACKSLASH
  Keycodes = {KEY_A, KEY_BACKSLASH}
  Unmapped = Unmapped
  HID_TO_LINUX <- Keymap
  DEBOUNCE_MS = 2
  MaxTime = 3
INVARIANTS
  NoGhostKeys
  HeldKeysAreDown
PROPERTY PressesAreClean
CHECK_DEADLOCK FALSE
