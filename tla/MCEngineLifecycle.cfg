\* The engine through any number of Init, Start and Stop calls.
SPECIFICATION FairSpec
CONSTANTS
  Snapshots = {"valid", "expired"}
  SlowCallbacks = TRUE
INVARIANT
  StoppedIsQuiet
PROPERTIES
  LegalSteps
  SilenceFreezes
  StopReturns
