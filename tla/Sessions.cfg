\* Two API instances, one user, one disturbance with all that may follow from it.
CONSTANTS
  i1 = i1  i2 = i2  p1 = p1
  None = None
  Instance = {i1, i2}
  FirstLeader = i1
  Socket = {1, 2}
  Phone = {p1}
  Creds = {1, 2, 3}
  MaxEvents = 1
  MaxLapses = 2
SPECIFICATION FairSpec
CHECK_DEADLOCK FALSE
INVARIANTS
  TypeOK
  SocketsHoldTheLock
  StatusAndFlowsAreTrue
  CredentialsAgree
PROPERTIES
  PairingsAreKept
  Served
