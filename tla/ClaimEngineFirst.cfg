\* A report of a session whose strategies were loaded from plugins.
SPECIFICATION Spec
CONSTANTS
  Instruments = {i1, i2}
  Configured = {s1}
  Added = {s2}
  PluginOf <- MCPluginOf
  LaneRoom = 1
INVARIANT
  EngineBeforeStrategies
CHECK_DEADLOCK FALSE
