SPECIFICATION FairSpec
CONSTANTS
  Task = {t1, t2, t3}
  OwnThread = {t2}
  Asking = {t1, t2}
  OfMain = {t3}
  MaxDestroys = 1
INVARIANTS TypeOK ExecuteRuns InlineIsSerial FaultsAreExplained AnswersAreTrue
PROPERTIES InlineTasksLeave ShutdownEnds
CHECK_DEADLOCK FALSE
