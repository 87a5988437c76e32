\* Two threads submit batches of two under limits of one or two open orders, over
\* any number of sessions with any of the configurations; each session may adopt
\* up to three orders of the venue's.
SPECIFICATION AdmissionSpec
CONSTANTS
  ClientIds = {1}
  MaxOrders = 2
  Volumes = {1}
  ForeignIds = {11, 12}
  OrderReports <- MCOrderReports
  TradeReports = {}
  TradeKeys = {}
  Configs <- MCConfigs
  Instruments = {1, 2}
  Submitters = {s1, s2}
  BatchSize = 2
SYMMETRY
  MCSymmetry
INVARIANTS
  ConfigCoherent
  OpenOrdersBounded
  OpenNotionalBounded
PROPERTY
  VersionsAdvance
CHECK_DEADLOCK FALSE
