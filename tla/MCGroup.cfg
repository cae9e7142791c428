SPECIFICATION FairSpec
CONSTANTS
  a = a
  b = b
  Nil = Nil
  Entry = {a, b}
  Needs <- Pair
  Awaits <- StatusLater
  Annotated = {}
  Renamed = {b}
  Visits <- SomeVisits
  FirstSpecs <- OneFirst
  MaxEdits = 1
  MaxUid = 1
  MaxDeletes = 1
  MaxFaults = 1
INVARIANT TypeOK
INVARIANT AtRestApplied
INVARIANT AtRestFinished
INVARIANT CreatedInOrder
INVARIANT AtRestReads
PROPERTY LeavesThroughProgress
PROPERTY GroupConverges
CHECK_DEADLOCK FALSE
