CONSTANTS
  Resource = {s, r1, r2, r3}
  Settings = s
  Id = {settings, mesh, prefab}
  SettingsId = settings
  Revivable = {mesh}
  Holder = {h1, h2}
  Loader = {l1}
  None = None
  LifeTime = 2
  SyncRounds = 1
  MaxSyncs = 1
  MaxEdits = 1
SPECIFICATION Spec
INVARIANT LoadedIsUsable
CHECK_DEADLOCK FALSE
