\* Stop with events left in a lane.
SPECIFICATION Spec
CONSTANTS
  Instruments = {i1, i2}
  Configured = {s1}
  Added = {s2}
  PluginOf <- MCPluginOf
  LaneRoom = 1
INVARIANT
  NoDeadCall
CHECK_DEADLOCK FALSE
