\* One producer is enough: the race is between Stop and the consumer.
SPECIFICATION FairSpec
CONSTANTS
  Producers = {p1}
  Policies <- MCPolicies
  MaxEvents = 2
  MaxSessions = 2
CHECK_DEADLOCK FALSE
PROPERTY
  StopReturns
