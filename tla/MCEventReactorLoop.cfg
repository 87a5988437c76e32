\* Two sessions, two producers, both policies.
SPECIFICATION FairSpec
CONSTANTS
  Producers = {p1, p2}
  Policies <- MCPolicies
  MaxEvents = 2
  MaxSessions = 2
CHECK_DEADLOCK FALSE
INVARIANTS
  EveryEventAccounted
  HandledInOrder
  NothingCrossesSessions
PROPERTIES
  LaneIsQueue
  QueueIsConsumed
