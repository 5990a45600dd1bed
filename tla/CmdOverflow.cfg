CONSTANTS
  Command = {a, b, c}
  NoCommand = NoCommand
  MaxHistorySize = 2
  MaxQueue = 2
SPECIFICATION Spec
INVARIANT NoInvalidPC
CHECK_DEADLOCK FALSE
