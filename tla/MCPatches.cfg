SPECIFICATION Spec
CONSTANTS
  a = a
  b = b
  c = c
  v = v
  w = w
  Key = {a, b, c}
  Value = {v, w}
  Absent = Absent
  Documents <- SomeDocuments
  MaxLength = 3
  MaxPatches = 2
INVARIANT TypeOK
INVARIANT ReadsBack
PROPERTY KeepsTheRest
CHECK_DEADLOCK FALSE
