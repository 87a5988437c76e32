\* Two orders of two units over two sessions, the first perhaps left with one
\* filled by an earlier process; the venue is quiet while Start queries it.
SPECIFICATION SyncSpec
CONSTANTS
  ClientIds = {1, 2}
  MaxOrders = 2
  Volumes = {2}
  OrderReports = {}
  TradeReports = {}
  TradeKeys = {}
  Instruments = {i}
  PositionTrades = {}
  PositionSnapshots = {}
  ForeignIds <- MCForeignIds
  AccountOrders <- MCAccountOrders
  SideOf <- MCSideOf
  EffectOf <- MCEffectOf
  OrderVolume = 2
  Base = 2
  MaxSessions = 2
  LaneRoom = 3
  MaxInFlight = 3
  OldTraded = {1}
  VenueQuietInStart = TRUE
  VenueNumbersTrades = FALSE
  EpochAdvances = TRUE
INVARIANTS
  PositionsSane
  PositionAgreesWhenQuiet
  FundsNeverOverstated
  OrdersAgree
PROPERTY
  RowKeepsItsClient
CHECK_DEADLOCK FALSE
