SPECIFICATION FairSpec
CONSTANTS
  Keys = {k1}
  Runs = {r1}
  Mortal = {}
  MaxBackoff = 3
  MaxVersion = 2
  MaxFailures = 1
PROPERTY EventuallyNoGhosts
CHECK_DEADLOCK FALSE
