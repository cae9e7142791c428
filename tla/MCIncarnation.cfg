SPECIFICATION FairSpec
CONSTANTS
  r1 = r1
  r2 = r2
  Nil = Nil
  Resource = {r1}
  Links <- NoLinks
  Provisioned = {r1}
  Patched = {r1}
  FirstType = {"pending"}
  TypeMoves = TRUE
  CanFail = TRUE
  Duplicates = {"accepted"}
  MaxGen = 3
  MaxUid = 1
  MaxFaults = 1
  MaxCrashes = 1
INVARIANT ReadyKeepsNurn
INVARIANT AtRestManaged
PROPERTY PhasesMove
PROPERTY Converges
CHECK_DEADLOCK FALSE
