SPECIFICATION Spec
CONSTANTS
  MaxInt64 = 7
  Threads = {t1, t2}
  RawValues <- MCRawValues
  MaxSlots = 4
INVARIANT HandlesCanonical
PROPERTIES IdsNeverReused ImplementsInternPool
