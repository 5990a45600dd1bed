CONSTANTS
  Command = {a, b, c, d}
  NoCommand = NoCommand
  MaxHistorySize = 3
  MaxQueue = 3
SPECIFICATION Spec
INVARIANTS TypeOK OwnedOnce PCNamesACommand AppliedIsPrefix
PROPERTY ImplementsUndoLog
CHECK_DEADLOCK FALSE
