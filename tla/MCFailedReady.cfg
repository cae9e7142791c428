SPECIFICATION Spec
CONSTANTS
  r1 = r1
  r2 = r2
  Nil = Nil
  Resource = {r1}
  Links <- NoLinks
  Provisioned = {r1}
  Patched = {}
  FirstType = {"insync"}
  TypeMoves = FALSE
  CanFail = TRUE
  Duplicates = {"accepted"}
  MaxGen = 1
  MaxUid = 1
  MaxFaults = 0
  MaxCrashes = 0
INVARIANT FailedIsNeverReady
CHECK_DEADLOCK FALSE
