SPECIFICATION FairSpec
CONSTANTS
  a = a
  b = b
  Nil = Nil
  Entry = {a, b}
  Needs <- Pair
  Awaits <- StatusFirst
  Annotated = {a}
  Renamed = {}
  Visits <- SomeVisits
  FirstSpecs <- OneFirst
  MaxEdits = 0
  MaxUid = 1
  MaxDeletes = 0
  MaxFaults = 0
PROPERTY GroupConverges
CHECK_DEADLOCK FALSE
