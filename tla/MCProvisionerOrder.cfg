SPECIFICATION Spec
CONSTANTS
  a = a
  b = b
  c = c
  Nil = Nil
  Name = {a, b, c}
  Rank <- Ranks
  Template <- TwoReadsOnly
  HasSpec = {a, b, c}
  Judged = {}
  CanFail = FALSE
  MaxVersion = 1
  MaxRemovals = 0
  MaxFaults = 0
  MaxCrashes = 0
INVARIANT InDependencyOrder
CHECK_DEADLOCK FALSE
