\* An acknowledgement after a timed-out send.
SPECIFICATION FlowSpec
CONSTANTS
  ClientIds = {1, 2}
  ForeignIds = {}
  MaxOrders = 2
  Volumes = {2}
  OrderReports = {}
  TradeReports = {}
  TradeKeys <- MCTradeKeys
  Submissions = {1, 2}
  ClientOf <- OwnClient
  Cancellations = {1}
  QueueCapacity = 2
  LaneCapacity = 8
  VenueStyle = "trade"
  VenueMayCancel = FALSE
  VenueRepeats = FALSE
CHECK_DEADLOCK FALSE
PROPERTY
  AcknowledgementResolvesUnknown
