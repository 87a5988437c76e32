\* A partly filled order left by an earlier process.
SPECIFICATION SyncSpec
CONSTANTS
  ClientIds = {1, 2}
  MaxOrders = 2
  Volumes = {3}
  OrderReports = {}
  TradeReports = {}
  TradeKeys = {}
  Instruments = {i}
  PositionTrades = {}
  PositionSnapshots = {}
  ForeignIds <- MCForeignIds
  AccountOrders <- MCAccountOrders
  SideOf <- MCSideOf
  EffectOf <- MCEffectOf
  OrderVolume = 3
  Base = 3
  MaxSessions = 2
  LaneRoom = 4
  MaxInFlight = 4
  OldTraded = {1}
  VenueQuietInStart = TRUE
  VenueNumbersTrades = FALSE
  EpochAdvances = TRUE
INVARIANT
  LiveOrderIsActive
CHECK_DEADLOCK FALSE
