\* Two instances, nothing fails.
CONSTANTS
  i1 = i1  i2 = i2  i3 = i3
  NoOne = NoOne
  Gone = Gone
  Instance = {i1, i2}
  Ttl = 6
  HeartbeatEvery = 2
  ProbeEvery = 3
  MaxStart = 1
  MaxFaults = 0
SPECIFICATION Spec
PROPERTIES OnlyDeadLeadersAreReplaced
