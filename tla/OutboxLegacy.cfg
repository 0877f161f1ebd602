\* One process with a local socket; ticks may overlap after a failed write.
CONSTANTS
  i1 = i1  i2 = i2  s1 = s1  s2 = s2  l1 = l1  l2 = l2
  Instance = {i1}
  Slot = {s1, s2}
  Lead = {l1, l2}
  NoLead = NoLead
  NoTick = NoTick
  Proxy = FALSE
  BatchSize = 2
  MaxAttempts = 2
  MaxBackoff = 300
  Spacing = 3
  MaxRows = 3
  MaxBatch = 2
  MaxDisturbances = 2
SPECIFICATION Spec
SYMMETRY Processes
INVARIANTS
  TypeOK
  InversionNeedsFailure
  SentIsDelivered
  GivenUpOnlyAfterMaxAttempts
  SentIsRecorded
PROPERTIES
  SettledStaysSilent
  KeepsContract
