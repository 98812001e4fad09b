SPECIFICATION Spec
CONSTANTS
  n0 = n0
  n1 = n1
  n2 = n2
  Threads = {t1, t2}
  Nodes = {n0, n1, n2}
  ZeroNode = n0
  Hashes = {0, 1}
  Hash <- MCHash
  MaxSlots = 4
INVARIANT HandlesCanonical
PROPERTIES NoResurrection ImplementsInternPool
