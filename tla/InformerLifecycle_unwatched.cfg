SPECIFICATION Spec
CONSTANTS
  GVKs = {g1, g2}
  Calls = {c1, c2}
  Main = main
  None = none
  MaxFailures = 0
INVARIANT SyncedIsWatched
CHECK_DEADLOCK FALSE
