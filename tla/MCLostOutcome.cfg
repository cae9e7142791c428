SPECIFICATION Spec
CONSTANTS
  r1 = r1
  r2 = r2
  Nil = Nil
  Resource = {r1}
  Links <- NoLinks
  Provisioned = {r1}
  Patched = {r1}
  FirstType = {"insync"}
  TypeMoves = FALSE
  CanFail = FALSE
  Duplicates = {"accepted"}
  MaxGen = 1
  MaxUid = 1
  MaxFaults = 0
  MaxCrashes = 0
INVARIANT ReadyMeansProvisioned
CHECK_DEADLOCK FALSE
