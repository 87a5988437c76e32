\* The most general client with every kind of report.
SPECIFICATION Spec
CONSTANTS
  ClientIds = {1, 2}
  ForeignIds = {9}
  MaxOrders = 2
  Volumes = {2}
  OrderReports <- MCOrderReports
  TradeReports <- MCTradeReports
  TradeKeys = {"t1", "t2"}
INVARIANTS
  IndexConsistent
  AllocatedBeforeUse
PROPERTY
  OneLife
