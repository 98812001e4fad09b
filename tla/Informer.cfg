SPECIFICATION FairSpec
CONSTANTS
  Keys = {k1, k2}
  Runs = {r1}
  Mortal = {r1}
  MaxBackoff = 3
  MaxVersion = 3
  MaxFailures = 3
INVARIANTS TypeOK ExactUntilFailure NothingMissing HandlersFollowWatch UpdatesShowPredecessor IndexFollowsStore
PROPERTIES NeverOlder EventuallyComplete CancelledRunsEnd
CHECK_DEADLOCK FALSE
