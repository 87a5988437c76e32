\* A cumulative snapshot followed by its trade.
SPECIFICATION FlowSpec
CONSTANTS
  ClientIds = {1, 2}
  ForeignIds = {}
  MaxOrders = 2
  Volumes = {2}
  OrderReports = {}
  TradeReports = {}
  TradeKeys <- MCTradeKeys
  Submissions = {1, 2}
  ClientOf <- OwnClient
  Cancellations = {1}
  QueueCapacity = 2
  LaneCapacity = 8
  VenueStyle = "report_trade"
  VenueMayCancel = FALSE
  VenueRepeats = FALSE
CHECK_DEADLOCK FALSE
INVARIANT
  NeverAheadOfVenue
