CONSTANTS
  r1 = r1
  r2 = r2
  TheFile = TheFile
  Resource = {r1, r2}
  File = {TheFile}
  FileOf <- SameFile
  Worlds <- PlainAndTimed
  TimeModulus = 3
  MaxTime = 4
  MaxEdits = 3
SPECIFICATION Spec
INVARIANTS NoCallbackAfterDelete DirtyIsQueued NoticedIsLoaded
PROPERTY EditsArrive
