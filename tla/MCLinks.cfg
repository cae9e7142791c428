SPECIFICATION FairSpec
CONSTANTS
  r1 = r1
  r2 = r2
  Nil = Nil
  Resource = {r1, r2}
  Links <- MutualLinks
  Provisioned = {r1}
  Patched = {}
  FirstType = {"pending"}
  TypeMoves = TRUE
  CanFail = FALSE
  Duplicates = {"accepted"}
  MaxGen = 1
  MaxUid = 2
  MaxFaults = 1
  MaxCrashes = 1
INVARIANT ReadyIsConnected
INVARIANT ConnectedInv
INVARIANT ReadyMeansProvisioned
PROPERTY ImplementsRegistry
PROPERTY Converges
CHECK_DEADLOCK FALSE
