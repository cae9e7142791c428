SPECIFICATION FairSpec
CONSTANTS
  Nil = Nil
  MaxGen = 3
  MaxUid = 2
  MaxFaults = 2
  MaxCrashes = 1
INVARIANT TypeOK
INVARIANT InSyncIsRegistered
INVARIANT AtRestInSync
PROPERTY TypeGoesForward
PROPERTY GetsInSync
CHECK_DEADLOCK FALSE
