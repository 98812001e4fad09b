SPECIFICATION FairSpec
CONSTANTS
  GVKs = {g1, g2}
  Calls = {c1, c2}
  Main = main
  None = none
  MaxFailures = 1
INVARIANTS TypeOK OneObjectPerGVK NoneForgotten TrueMeansSynced
PROPERTY WaitEnds
CHECK_DEADLOCK FALSE
