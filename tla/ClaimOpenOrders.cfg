\* Orders that another thread has admitted between check and creation carry the
\* engine past max_open_orders, even where the venue has none from before.
SPECIFICATION AdmissionSpec
CONSTANTS
  ClientIds = {1}
  MaxOrders = 3
  Volumes = {2}
  ForeignIds = {}
  OrderReports = {}
  TradeReports = {}
  TradeKeys = {}
  Configs <- MCConfigs
  Instruments = {1, 2}
  Submitters = {s1, s2}
  BatchSize = 2
SYMMETRY
  MCSymmetry
INVARIANT
  OpenOrdersLimited
CHECK_DEADLOCK FALSE
