\* The venue fills orders while Start queries it.
SPECIFICATION SyncSpec
CONSTANTS
  ClientIds = {1, 2}
  MaxOrders = 2
  Volumes = {2}
  OrderReports = {}
  TradeReports = {}
  TradeKeys = {}
  Instruments = {i}
  PositionTrades = {}
  PositionSnapshots = {}
  ForeignIds <- MCForeignIds
  AccountOrders <- MCAccountOrders
  SideOf <- MCSideOf
  EffectOf <- MCEffectOf
  OrderVolume = 2
  Base = 2
  MaxSessions = 2
  LaneRoom = 4
  MaxInFlight = 4
  OldTraded = {0, 1}
  VenueQuietInStart = FALSE
  VenueNumbersTrades = FALSE
  EpochAdvances = TRUE
INVARIANT
  PositionAgreesWhenQuiet
CHECK_DEADLOCK FALSE
