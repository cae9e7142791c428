SPECIFICATION Spec
CONSTANTS
  r1 = r1
  r2 = r2
  Nil = Nil
  Resource = {r1}
  Links <- NoLinks
  Provisioned = {r1}
  Patched = {r1}
  FirstType = {"absent", "pending"}
  TypeMoves = TRUE
  CanFail = TRUE
  Duplicates = {"accepted", "refused"}
  MaxGen = 2
  MaxUid = 2
  MaxFaults = 1
  MaxCrashes = 1
INVARIANT TypeOK
INVARIANT RegistryInv
INVARIANT RecordedIsRegistered
INVARIANT AtRestReadyIsCurrent
INVARIANT RestIsTerminal
PROPERTY NurnNeverLost
CHECK_DEADLOCK FALSE
