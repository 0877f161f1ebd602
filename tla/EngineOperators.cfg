\* One process and the operators who change the rows it works on.
CONSTANTS
  i1 = i1  i2 = i2  m1 = m1  m2 = m2  m3 = m3
  n1 = n1  n2 = n2  n3 = n3  n4 = n4  st1 = st1
  Node = {n1, n2, n3, n4}
  Stage = {st1}
  None = None
  NoMsg = NoMsg
  NoFlow = NoFlow
  Instance = {i1}
  Msg = {m1, m2, m3}
  PhoneMsg = {}
  Proxy = FALSE
  Flows <- ShortFlows
  Cooldown = 1
  Operators = {"toggle", "stage", "delete", "edit"}
  MaxOption = 0
  MaxConv = 4
  MaxFaults = 0
  MaxActs = 2
  MaxHours = 1
SPECIFICATION Spec
SYMMETRY Messages
INVARIANTS
  OneActiveConversation
  AsksWhatItAwaits
  PausedStaysPaused
