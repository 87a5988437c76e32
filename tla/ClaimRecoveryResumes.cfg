SPECIFICATION FairSpec
CONSTANTS
  Snapshots = {"valid"}
  SlowCallbacks = FALSE
PROPERTY
  RecoveryResumes
