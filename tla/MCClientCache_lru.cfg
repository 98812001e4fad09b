SPECIFICATION ClientFairSpec
CONSTANTS
  k1 = k1
  k2 = k2
  Keys = {k1}
  Runs = {r1}
  Mortal = {}
  MaxBackoff = 1
  MaxVersion = 2
  MaxFailures = 0
  Workers = {w1}
  Setups <- MCCachingOnly
PROPERTY CachedReadsCatchUp
CHECK_DEADLOCK FALSE
