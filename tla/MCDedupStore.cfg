SPECIFICATION Spec
CONSTANTS
  MaxInt64 = 7
  Keys = {k1, k2}
  Trees <- MCTrees
  Objects <- MCObjects
  RefMod = 1000
  MaxSlots = 7
INVARIANTS TypeOK NoDangling RootsLive FullyDeduplicated RefcountsArePaths
PROPERTIES ImplementsObjectStore UpsertReadsBack GCLeavesOnlyReachable
