\* The dashboard, the inbox, the reports and the flows that follow the connection.
CONSTANTS
  Request = {1, 2}
  Flow = {1, 2}
  Node = {1, 2, 3, 4}
  Kanban = {1, 2, 3}
  Stage = {1, 2, 3, 4, 5, 6}
  Form = {1, 2}
  Field = {1, 2, 3, 4}
  Response = {1, 2}
  Conv = {1, 2}
  p1 = p1
  PhoneOf <- Phones
  Phone = {p1}
  None = None
  MaxAborts = 1
  Message = {1, 2, 3}
  Chat = {1, 2, 3}
  Task = {1, 2}
  NoRow = NoRow
  MaxCrashes = 1
  l1 = l1  l2 = l2  g1 = g1  g2 = g2
  Talk = {1, 2}
  Line = {l1, l2}
  AllLines = AllLines
  TitleOf <- Titles
  Lead = {g1, g2}
  Column = {1}
  NoColumn = 0
  Instants = {31, 32, 33}
  SparkDays = 2
  MaxSaid = 3
  a1 = a1  a2 = a2  n1 = n1  n2 = n2
  Api = {a1, a2}
  Number = {n1, n2}
  NoNumber = NoNumber
  MaxStatuses = 3
  MaxLost = 1
SPECIFICATION ConsoleSpec
SYMMETRY Names
CHECK_DEADLOCK FALSE
INVARIANTS
  TablesStayWhole
  BoardShowsEveryLead
  StatusIsTheBestTold
  BadgeIsCleared
  EchoedMessagesAreKept
  DeletedLeadsAreForgotten
  ReportsAddUp
  FlowsFollowTheLink
  OnlyLateWritersStrand
