\* Two receipts of one message; the violated property quotes the repository's comment.
CONSTANTS
  Message = {1, 2, 3}
  Chat = {1, 2, 3}
  Task = {1, 2, 3}
  NoRow = NoRow
  MaxCrashes = 0
SPECIFICATION InboxSpec
CHECK_DEADLOCK FALSE
PROPERTIES
  StatusNeverRegresses
