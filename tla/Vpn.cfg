SPECIFICATION FairSpec
CONSTANTS
  MaxStarts = 3
  MaxStops = 2
  Engines = {"slipstream", "xray"}
  Inputs <- MCInputs
  TeardownSlow = FALSE
INVARIANTS
  NothingLeaks
  TunnelWhole
  LastStopWins
  StartingHasOwner
PROPERTIES
  StartsOnCleanGround
  StartTerminates
CHECK_DEADLOCK FALSE
