CONSTANTS
  producer = producer
  consumer = consumer
  prepare = prepare
  draw = draw
  present = present
  Thread <- MCThread
  ThreadOrder <- MCThreadOrder
  State <- MCState
  StatesOf <- MCStatesOf
  YamlStart <- Skips
  YamlSkip <- Waits
  YamlFinish <- MCYamlFinish
  FinalizeList <- MCFinalizeList
  MayBreak <- MCMayBreak
SPECIFICATION FairSpec
INVARIANTS TypeOK HandshakeExcludes StoppedIsClean
PROPERTIES NoWorkAfterFinalize StatesComeRound StopReturnsUnlessStuck
CHECK_DEADLOCK FALSE
