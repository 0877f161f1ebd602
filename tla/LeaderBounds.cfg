\* Three instances, 30 s lock, 10 s heartbeat, 15 s probe.
CONSTANTS
  i1 = i1  i2 = i2  i3 = i3
  NoOne = NoOne
  Gone = Gone
  Instance = {i1, i2, i3}
  Ttl = 6
  HeartbeatEvery = 2
  ProbeEvery = 3
  MaxStart = 2
  MaxFaults = 2
SPECIFICATION Spec
SYMMETRY Peers
INVARIANTS
  TypeOK
  StaleLeaderStepsDown
  AtMostTwoLeaders
  VacancyEnds
