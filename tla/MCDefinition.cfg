SPECIFICATION FairSpec
CONSTANTS
  x = x
  y = y
  z = z
  n1 = n1
  n2 = n2
  Nil = Nil
  Value = {x, y, z}
  Name = {n1, n2}
  NameOf <- Names2
  Lists <- SomeLists
  FirstDefinitions <- SomeDefinitions
  Offers <- SomeOffers
  Annotated = {1, 2}
  MaxVersion = 2
  MaxUid = 1
  MaxTouches = 1
  MaxFaults = 1
INVARIANT TypeOK
INVARIANT AtRestExpanded
PROPERTY ImplementsExpansion
PROPERTY Settles
CHECK_DEADLOCK FALSE
