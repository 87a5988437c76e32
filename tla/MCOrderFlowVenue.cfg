\* One order, two cancellations, a queue of one; a venue that also sends cumulative
\* snapshots, repeats trades and lets orders expire; Stop may come at any time.
SPECIFICATION FairFlowSpec
CONSTANTS
  ClientIds = {1}
  ForeignIds = {}
  MaxOrders = 1
  Volumes = {2}
  OrderReports = {}
  TradeReports = {}
  TradeKeys <- MCTradeKeys
  Submissions = {1}
  ClientOf <- OwnClient
  Cancellations = {1, 2}
  QueueCapacity = 1
  LaneCapacity = 8
  VenueStyle = "trade_report"
  VenueMayCancel = TRUE
  VenueRepeats = TRUE
CHECK_DEADLOCK FALSE
INVARIANTS
  NeverAheadOfVenue
  TerminalIsReleased
PROPERTIES
  SubmissionDecided
  QueueDrains
