\* Two API instances, both ticking; jobs of the wa-worker may time out and run
\* late. One row per query, so that the rows queue behind each other.
CONSTANTS
  i1 = i1  i2 = i2  s1 = s1  s2 = s2  l1 = l1  l2 = l2
  Instance = {i1, i2}
  Slot = {s1, s2}
  Lead = {l1}
  NoLead = NoLead
  NoTick = NoTick
  Proxy = TRUE
  BatchSize = 1
  MaxAttempts = 2
  MaxBackoff = 300
  Spacing = 3
  MaxRows = 2
  MaxBatch = 2
  MaxDisturbances = 2
SPECIFICATION FairSpec
INVARIANTS
  DuplicatesBounded
PROPERTIES
  EverySettles
