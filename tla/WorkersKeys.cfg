CONSTANTS
  producer = producer
  consumer = consumer
  prepare = prepare
  draw = draw
  present = present
  Thread <- MCThread
  ThreadOrder <- MCThreadOrder
  State <- MCState
  StatesOf <- MCStatesOf
  YamlStart <- Waits
  YamlSkip <- Nothing
  YamlFinish <- MCYamlFinish
  FinalizeList <- MCFinalizeList
  MayBreak <- MCMayBreak
SPECIFICATION Spec
INVARIANT StartConditionIsAwaited
CHECK_DEADLOCK FALSE
