\* Refuted: an Init without an account-risk bridge keeps the last one's.
SPECIFICATION Spec
CONSTANTS
  Adapters = {a1}
  RiskBridges = {b1, b2}
  OtherBridges = {b3}
  None = None
INVARIANT
  NoDeadBridge
CHECK_DEADLOCK FALSE
