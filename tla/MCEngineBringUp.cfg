\* Any number of sessions, each with any bridges, services and adapters.
SPECIFICATION Spec
CONSTANTS
  Adapters = {a1, a2}
  RiskBridges = {b1, b2}
  OtherBridges = {b3}
  None = None
INVARIANTS
  ReadyIsBacked
  NothingOutlivesStop
  WiringOK
PROPERTY
  GetsReady
CHECK_DEADLOCK FALSE
