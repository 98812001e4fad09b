SPECIFICATION Spec
CONSTANTS
  Keys = {k1, k2, k3, k4}
  Vals = {1, 2}
  Size = 3
  MaxTime = 6
INVARIANTS ListMatchesItems WithinCapacity
PROPERTY ImplementsRecencyCache
