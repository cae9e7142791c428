SPECIFICATION FairSpec
CONSTANTS
  a = a
  b = b
  c = c
  Nil = Nil
  Name = {a, b, c}
  Rank <- Ranks
  Template <- ThreeVersions
  HasSpec = {a, c}
  Judged = {a, c}
  CanFail = TRUE
  MaxVersion = 3
  MaxRemovals = 1
  MaxFaults = 1
  MaxCrashes = 1
INVARIANT TypeOK
INVARIANT InDependencyOrder
INVARIANT AtRestRendered
INVARIANT AtRestAnswered
PROPERTY ImplementsContract
PROPERTY Provisions
CHECK_DEADLOCK FALSE
