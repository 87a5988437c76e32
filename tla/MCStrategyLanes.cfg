\* Sessions of loading, adding, running and stopping, in any number.
SPECIFICATION Spec
CONSTANTS
  Instruments = {i1, i2}
  Configured = {s1}
  Added = {s2}
  PluginOf <- MCPluginOf
  LaneRoom = 1
INVARIANTS
  CallsLiveStrategies
  OneThreadInStrategies
  LanesConsistent
PROPERTY
  StopUnloads
CHECK_DEADLOCK FALSE
