CONSTANTS
  o1 = o1
  o2 = o2
  c1 = c1
  c2 = c2
  Object = {o1, o2}
  Component = {c1, c2}
  Scene = Scene
  Null = Null
  Loads <- MCLoads
  EditMode = {c1}
  Pauses = {FALSE, TRUE}
  MaxCalls = 3
SPECIFICATION FairSpec
INVARIANTS TypeOK SlotsAgree PoolIsLive AssertionsHold DirtyIsScheduled CleanIsSettled
PROPERTY UpdatesAreDue BuildsSettle
CHECK_DEADLOCK FALSE
