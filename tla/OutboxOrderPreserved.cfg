\* One process, one lead, two replies; the violated property quotes the worker's comment.
CONSTANTS
  i1 = i1  i2 = i2  s1 = s1  s2 = s2  l1 = l1  l2 = l2
  Instance = {i1}
  Slot = {s1}
  Lead = {l1}
  NoLead = NoLead
  NoTick = NoTick
  Proxy = FALSE
  BatchSize = 50
  MaxAttempts = 2
  MaxBackoff = 300
  Spacing = 3
  MaxRows = 2
  MaxBatch = 2
  MaxDisturbances = 3
SPECIFICATION Spec
PROPERTIES
  OrderPreserved
