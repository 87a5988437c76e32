\* Two starts within one second.
SPECIFICATION SyncSpec
CONSTANTS
  ClientIds = {1, 2}
  MaxOrders = 2
  Volumes = {2}
  OrderReports = {}
  TradeReports = {}
  TradeKeys = {}
  Instruments = {i}
  PositionTrades = {}
  PositionSnapshots = {}
  ForeignIds <- MCForeignIds
  AccountOrders <- MCAccountOrders
  SideOf <- MCSideOf
  EffectOf <- MCEffectOf
  OrderVolume = 2
  Base = 2
  MaxSessions = 2
  LaneRoom = 4
  MaxInFlight = 4
  OldTraded = {0, 1}
  VenueQuietInStart = TRUE
  VenueNumbersTrades = FALSE
  EpochAdvances = FALSE
PROPERTY
  RowKeepsItsClient
CHECK_DEADLOCK FALSE
