CONSTANTS
  MaxRestarts = 2
  MaxFaults = 4
SPECIFICATION FairSpec
INVARIANTS TypeOK WalkReachesStore CountersMatch
PROPERTIES ListenerReturns RetriedUntilServing
CHECK_DEADLOCK FALSE
