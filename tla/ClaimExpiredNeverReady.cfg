\* An expired configuration; the other statements of EngineLifecycleClaims are
\* refuted under the same constants.
SPECIFICATION Spec
CONSTANTS
  Snapshots = {"valid", "expired"}
  SlowCallbacks = FALSE
INVARIANT
  ExpiredNeverReady
