\* One process with a local socket: redelivery, errors, crashes, time.
CONSTANTS
  i1 = i1  i2 = i2  m1 = m1  m2 = m2  m3 = m3
  n1 = n1  n2 = n2  n3 = n3  n4 = n4  st1 = st1
  Node = {n1, n2, n3, n4}
  Stage = {st1}
  None = None
  NoMsg = NoMsg
  NoFlow = NoFlow
  Instance = {i1}
  Msg = {m1, m2, m3}
  PhoneMsg = {}
  Proxy = FALSE
  Flows <- AllFlows
  Cooldown = 1
  Operators = {}
  MaxOption = 2
  MaxConv = 3
  MaxFaults = 1
  MaxActs = 0
  MaxHours = 1
SPECIFICATION Spec
SYMMETRY Messages
INVARIANTS
  TypeOK
  OneActiveConversation
  AsksWhatItAwaits
  EndsWhereTheGraphLeads
  RepliesOnce
  AnswersMatchQuestions
