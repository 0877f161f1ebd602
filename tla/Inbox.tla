------------------------------- MODULE Inbox -------------------------------
(* The history of one lead's messages: receipts that raise the status of a  *)
(* message, a conversation marked as read, a message sent by hand and its   *)
(* echo from WhatsApp, the deletion of a lead, and the pages that show the  *)
(* history.                                                                 *)
(*                                                                          *)
(* Every request and every event of the wa-worker is a task: awaited        *)
(* statements, between which other tasks run. One API process is modelled,  *)
(* in proxy mode; two processes are FlowEngine's and Outbox's subject. A    *)
(* request whose first check fails changes nothing and is not started.      *)
EXTENDS Naturals, FiniteSets, FiniteSetsExt

CONSTANTS
  Message,     \* whatsappMessageIds: numbers, in the order they are given out
  Chat,        \* conversations of the lead on the flow: numbers, in the order of creation
  Task,        \* the requests and events of a behaviour: numbers
  NoRow,
  MaxCrashes   \* bound: crashes of the process

ASSUME InboxAssumption ==
  /\ Message \subseteq Nat \ {0} /\ Chat \subseteq Nat \ {0} /\ Task \subseteq Nat
  /\ {1, 2} \subseteq Chat      \* the conversations that InboxInit begins with
  /\ NoRow \notin [chat : Chat, sender : {"LEAD", "BOT"},
                   status : {"FAILED", "SENT", "DELIVERED", "READ"}]

VARIABLES
  chat,        \* conversations: there or not, status ACTIVE, automationEnabled
  message,     \* message_history, by its unique whatsappMessageId
  wa,          \* WhatsApp: whose message an id is, the receipt sent last for it
  task,
  heard,       \* history: the best rank told to a row since it exists
  raced,       \* history: messages two tasks updated at the same time
  crashes

inboxVars == <<chat, message, wa, task, heard, raced, crashes>>

----------------------------------------------------------------------------
(* Rows *)

Rank(s) == CASE s = "READ" -> 3 [] s = "DELIVERED" -> 2 [] s = "SENT" -> 1 [] OTHER -> 0

Chats == {c \in Chat : chat[c].is = "live"}
OpenChats == {c \in Chats : chat[c].active}
Unwritten == {m \in Message : wa[m].by = "nobody"}
Unopened == {c \in Chat : chat[c].is = "absent"}
Rows == {m \in Message : message[m] # NoRow}

OpenedChat(auto) == [is |-> "live", active |-> TRUE, auto |-> auto]

\* message_history.create: the id is unique and the conversation must exist.
Insertion(m, c, sender, status) ==
  IF m \in Rows \/ c \notin Chats THEN message
  ELSE [message EXCEPT ![m] = [chat |-> c, sender |-> sender, status |-> status]]

----------------------------------------------------------------------------
(* Tasks *)

NoTask ==
  [op |-> "none", pc |-> "new", m |-> 0, c |-> 0, status |-> "READ",
   todo |-> {}, ids |-> {}, shown |-> {}]

InFlightTasks == {t \in Task : task[t].pc \notin {"new", "done", "failed", "dropped", "crashed"}}
NewTasks == {t \in Task : task[t].pc = "new"}

At(t, pc) == task[t].pc = pc
Become(t, r) == task' = [task EXCEPT ![t] = r]
GoTo(t, pc) == Become(t, [task[t] EXCEPT !.pc = pc])
\* What a task that ended leaves for the properties: what it worked on and saw.
End(t, outcome) ==
  Become(t, [NoTask EXCEPT !.op = task[t].op, !.pc = outcome, !.m = task[t].m,
                           !.c = task[t].c, !.shown = task[t].shown])

StartTask(r) ==
  /\ NewTasks # {}
  /\ Become(Min(NewTasks), r)
  /\ UNCHANGED <<chat, message, heard, raced, crashes>>

\* The mutex of the lead, held by the event that is recorded now.
MutexHeld == \E t \in InFlightTasks : task[t].op = "Echo" /\ task[t].pc # "lock"

\* The rows a deletion has deleted and not committed are locked.
LockedRows == UNION {task[t].todo : t \in {x \in InFlightTasks : At(x, "deleteChats")}}

----------------------------------------------------------------------------
(* Receipts, and a conversation marked as read *)

Receipt ==
  \E m \in Message, s \in {"FAILED", "SENT", "DELIVERED", "READ"} :
    /\ wa[m].by # "nobody"
    /\ wa[m].by = "lead" => s = "READ"      \* read on another device
    /\ Rank(s) >= wa[m].told /\ s # "FAILED" => Rank(s) > wa[m].told
    /\ wa' = [wa EXCEPT ![m].told = Rank(s)]
    /\ StartTask([NoTask EXCEPT !.op = "Receipt", !.pc = "read", !.status = s, !.todo = {m}])

MarkAsRead ==
  /\ \E c \in Chats : StartTask([NoTask EXCEPT !.op = "MarkAsRead", !.pc = "list", !.c = c])
  /\ UNCHANGED wa

\* findUnreadLeadMessages; WhatsApp is told next, and whether that fails makes
\* no difference to the rows.
ListUnread(t) ==
  /\ At(t, "list")
  /\ LET ofLead == {m \in Rows : message[m].chat = task[t].c /\ message[m].sender = "LEAD"}
         unread == {m \in ofLead : message[m].status # "READ"}
         r == [task[t] EXCEPT !.shown = ofLead, !.todo = unread]
     IN Become(t, [r EXCEPT !.pc = IF unread = {} THEN "done" ELSE "read"])
  /\ UNCHANGED <<chat, message, wa, heard, raced, crashes>>

\* The loop left at the first message that needs no update.
NextInLoopUnlessNull(r, m) ==
  LET rest == IF r.pc = "read" THEN {} ELSE r.todo \ {m} IN
  [r EXCEPT !.todo = rest, !.m = 0, !.pc = IF rest = {} THEN "done" ELSE "read"]
\* The loop goes on with the next message.
NextInLoop(r, m) ==
  LET rest == r.todo \ {m} IN
  [r EXCEPT !.todo = rest, !.m = 0, !.pc = IF rest = {} THEN "done" ELSE "read"]
EvolvesAlways(old, new) == TRUE
Evolves(old, new) == Rank(new) > Rank(old)

\* updateStatusByWhatsappId reads the row: an unknown id or a lower rank is
\* nothing to do.
ReadStatus(t) ==
  /\ At(t, "read")
  /\ \E m \in task[t].todo :
       LET s == task[t].status IN
       /\ IF m \in Rows /\ Evolves(message[m].status, s)
          THEN Become(t, [task[t] EXCEPT !.pc = "write", !.m = m])
          ELSE Become(t, NextInLoop(task[t], m))
       /\ raced' = IF \E u \in Task : At(u, "write") /\ task[u].m = m
                   THEN raced \union {m} ELSE raced
  /\ UNCHANGED <<chat, message, wa, heard, crashes>>

\* It writes the status without looking at the row again. The update of a row
\* that is gone rejects; the loop of mark-as-read is left.
WriteStatus(t) ==
  /\ At(t, "write")
  /\ LET m == task[t].m IN
     /\ m \notin LockedRows
     /\ IF m \in Rows
        THEN /\ message' = [message EXCEPT ![m].status = task[t].status]
             /\ heard' = [heard EXCEPT ![m] = Max({@, Rank(task[t].status)})]
             /\ Become(t, NextInLoop(task[t], m))
        ELSE End(t, "failed") /\ UNCHANGED <<message, heard>>
  /\ UNCHANGED <<chat, wa, raced, crashes>>

----------------------------------------------------------------------------
(* A message sent by hand, and its echo *)

\* validate: the flow is finished or a person has taken over.
CanSend(c) == ~chat[c].active \/ ~chat[c].auto

Send ==
  /\ \E c \in Chats : CanSend(c) /\ StartTask([NoTask EXCEPT !.op = "Send", !.pc = "send", !.c = c])
  /\ UNCHANGED wa

\* The wa-worker sends it and answers with its id; or the request gives up
\* waiting and the job runs all the same; or it fails.
SendReaches(t) ==
  /\ At(t, "send") /\ Unwritten # {}
  /\ wa' = [wa EXCEPT ![Min(Unwritten)].by = "us"]
  /\ \/ Become(t, [task[t] EXCEPT !.m = Min(Unwritten), !.pc = "create"])
     \/ End(t, "failed")
  /\ UNCHANGED <<chat, message, heard, raced, crashes>>
SendFails(t) ==
  /\ At(t, "send")
  /\ End(t, "failed")
  /\ UNCHANGED <<chat, message, wa, heard, raced, crashes>>

\* The row of a message of ours: persist, or the last statement of an echo.
CreateRow(t) ==
  /\ At(t, "create")
  /\ LET m == task[t].m IN
     /\ message' = Insertion(m, task[t].c, "BOT", "SENT")
     /\ heard' = IF message' # message THEN [heard EXCEPT ![m] = Rank("SENT")] ELSE heard
     /\ End(t, IF message' # message THEN "done" ELSE "failed")
  /\ UNCHANGED <<chat, wa, raced, crashes>>

\* The event of a message that left our number, by whichever way: one whose
\* row exists is known already.
Echo ==
  /\ \E m \in Message \ Rows :
       /\ wa[m].by = "us"
       /\ StartTask([NoTask EXCEPT !.op = "Echo", !.pc = "lock", !.m = m])
  /\ UNCHANGED wa

\* The check is made again under the mutex.
EchoEnters(t) ==
  /\ At(t, "lock") /\ ~MutexHeld
  /\ IF task[t].m \in Rows THEN End(t, "done") ELSE GoTo(t, "find")
  /\ UNCHANGED <<chat, message, wa, heard, raced, crashes>>

\* Without an active conversation the event is taken for handled.
EchoFindsOrDrops(t) ==
  /\ At(t, "find")
  /\ IF OpenChats = {} THEN End(t, "done")
     ELSE \E c \in OpenChats : Become(t, [task[t] EXCEPT !.c = c, !.pc = "create"])
  /\ UNCHANGED <<chat, message, wa, heard, raced, crashes>>
EchoFinds(t) ==
  /\ At(t, "find")
  /\ IF OpenChats = {} THEN GoTo(t, "open")
     ELSE \E c \in OpenChats : Become(t, [task[t] EXCEPT !.c = c, !.pc = "create"])
  /\ UNCHANGED <<chat, message, wa, heard, raced, crashes>>

\* The number has no active flow, or one of another user: the event is dropped.
EchoDrops(t) ==
  /\ At(t, "find")
  /\ End(t, "dropped")
  /\ UNCHANGED <<chat, message, wa, heard, raced, crashes>>

\* A conversation started by a person: the flow stays out of it.
EchoOpens(t) ==
  /\ At(t, "open") /\ Unopened # {}
  /\ chat' = [chat EXCEPT ![Min(Unopened)] = OpenedChat(FALSE)]
  /\ Become(t, [task[t] EXCEPT !.c = Min(Unopened), !.pc = "create"])
  /\ UNCHANGED <<message, wa, heard, raced, crashes>>

----------------------------------------------------------------------------
(* The pages *)

\* findManyByUserId: the conversation of the lead updated last, and its badge.
LatestChat == Max(Chats)
Unread(c) ==
  {m \in Rows : /\ message[m].chat = c
                /\ message[m].sender = "LEAD" /\ message[m].status # "READ"}
\* get-conversation: the history of every conversation of the lead.
IdsByLeadAndFlow(c) == Chats
Page(c) == {m \in Rows : message[m].chat \in IdsByLeadAndFlow(c)}

----------------------------------------------------------------------------
(* Deletion of a lead: one transaction, whose statements see what others    *)
(* have committed                                                           *)

Delete ==
  /\ \E c \in Chats : StartTask([NoTask EXCEPT !.op = "Delete", !.pc = "ids", !.c = c])
  /\ UNCHANGED wa

\* Only the conversation itself, as before the fix its comment tells of.
SameLeadOnlyThis(c) == {c}
\* Every conversation of the same flow and number as c.
SameLead(c) == Chats

FindIds(t) ==
  /\ At(t, "ids")
  /\ LET c == task[t].c IN
     IF c \in Chats
     THEN Become(t, [task[t] EXCEPT !.ids = SameLead(c), !.shown = Page(c), !.pc = "deleteRows"])
     ELSE End(t, "done")
  /\ UNCHANGED <<chat, message, wa, heard, raced, crashes>>

DeleteRows(t) ==
  /\ At(t, "deleteRows") /\ ~\E u \in Task : At(u, "deleteChats")
  /\ Become(t, [task[t] EXCEPT !.todo = {m \in Rows : message[m].chat \in task[t].ids},
                               !.pc = "deleteChats"])
  /\ UNCHANGED <<chat, message, wa, heard, raced, crashes>>

\* A message recorded since holds its conversation: the transaction rejects.
DeleteChats(t) ==
  /\ At(t, "deleteChats")
  /\ LET r == task[t] IN
     IF \E m \in Rows \ r.todo : message[m].chat \in r.ids
     THEN End(t, "failed") /\ UNCHANGED <<chat, message>>
     ELSE /\ message' = [m \in Message |-> IF m \in r.todo THEN NoRow ELSE message[m]]
          /\ chat' = [c \in Chat |->
               IF c \in r.ids THEN [is |-> "gone", active |-> FALSE, auto |-> FALSE] ELSE chat[c]]
          /\ End(t, "done")
  /\ UNCHANGED <<wa, heard, raced, crashes>>

----------------------------------------------------------------------------
(* The engine (FlowEngine), and crashes *)

\* The lead writes: into the active conversation, else into a new one or, in
\* the cooldown, into the last one.
LeadWrites ==
  /\ ~MutexHeld /\ Unwritten # {}
  /\ LET m == Min(Unwritten) IN
     /\ wa' = [wa EXCEPT ![m].by = "lead"]
     /\ heard' = [heard EXCEPT ![m] = Rank("DELIVERED")]
     /\ \/ /\ \E c \in IF OpenChats # {} THEN OpenChats ELSE {x \in Chats : x = LatestChat} :
                message' = Insertion(m, c, "LEAD", "DELIVERED")
           /\ UNCHANGED chat
        \/ /\ OpenChats = {} /\ Unopened # {}
           /\ \E auto \in BOOLEAN : chat' = [chat EXCEPT ![Min(Unopened)] = OpenedChat(auto)]
           /\ message' = [message EXCEPT ![m] =
                [chat |-> Min(Unopened), sender |-> "LEAD", status |-> "DELIVERED"]]
  /\ UNCHANGED <<task, raced, crashes>>

FlowFinishes ==
  /\ \E c \in OpenChats : chat[c].auto /\ chat' = [chat EXCEPT ![c].active = FALSE]
  /\ UNCHANGED <<message, wa, task, heard, raced, crashes>>

ProcessCrashes ==
  /\ crashes < MaxCrashes /\ InFlightTasks # {}
  /\ crashes' = crashes + 1
  /\ task' = [t \in Task |-> IF t \in InFlightTasks
                             THEN [NoTask EXCEPT !.op = task[t].op, !.pc = "crashed"]
                             ELSE task[t]]
  /\ UNCHANGED <<chat, message, wa, heard, raced>>

----------------------------------------------------------------------------

\* A finished conversation and a later one that is in any state, each with a
\* message of the lead that nobody has read.
InboxInit ==
  /\ \E active, auto \in BOOLEAN :
       chat = [c \in Chat |->
         CASE c = 1 -> [OpenedChat(TRUE) EXCEPT !.active = FALSE]
           [] c = 2 -> [OpenedChat(auto) EXCEPT !.active = active]
           [] OTHER -> [is |-> "absent", active |-> FALSE, auto |-> FALSE]]
  /\ message = [m \in Message |->
       IF m <= 2 THEN [chat |-> m, sender |-> "LEAD", status |-> "DELIVERED"] ELSE NoRow]
  /\ wa = [m \in Message |-> [by |-> IF m <= 2 THEN "lead" ELSE "nobody", told |-> 0]]
  /\ task = [t \in Task |-> NoTask]
  /\ heard = [m \in Message |-> IF m <= 2 THEN Rank("DELIVERED") ELSE 0]
  /\ raced = {}
  /\ crashes = 0

TaskStep(t) ==
  \/ ListUnread(t) \/ ReadStatus(t) \/ WriteStatus(t)
  \/ SendReaches(t) \/ SendFails(t) \/ CreateRow(t)
  \/ EchoEnters(t) \/ EchoFinds(t) \/ EchoDrops(t) \/ EchoOpens(t)
  \/ FindIds(t) \/ DeleteRows(t) \/ DeleteChats(t)

InboxNext ==
  \/ Receipt \/ MarkAsRead \/ Send \/ Echo \/ Delete
  \/ LeadWrites \/ FlowFinishes \/ ProcessCrashes
  \/ \E t \in Task : TaskStep(t)

InboxSpec == InboxInit /\ [][InboxNext]_inboxVars

----------------------------------------------------------------------------
(* Properties *)

\* The status of a message is the best one a receipt or a reader told its row,
\* in whatever order they came, unless two of them updated it at the same time.
StatusIsTheBestTold ==
  \A m \in Rows \ raced :
    (~\E t \in Task : At(t, "write") /\ task[t].m = m) => Rank(message[m].status) = heard[m]

\* A conversation that was marked as read shows no message on its badge that
\* was there when it was marked, whoever else reads or deletes meanwhile.
BadgeIsCleared ==
  \A t \in Task :
    task[t].op = "MarkAsRead" /\ At(t, "done") => Unread(task[t].c) \intersect task[t].shown = {}

\* A message that left by the dashboard and whose echo was handled is in the
\* history, once: the request recorded it, or the echo did when it came first
\* or when the request had given up. (Unless a lead was deleted meanwhile; an
\* echo that found no active flow of its number was dropped, not handled.)
EchoedMessagesAreKept ==
  (\A t \in Task : task[t].op # "Delete") =>
    \A t \in Task : task[t].op = "Echo" /\ task[t].pc \in {"done", "failed"} =>
      task[t].m \in Rows

\* When a lead was deleted, no page shows a message that was in its history
\* when the deletion looked: conversations finished long ago are gone as well.
\* (Only an echo that waited meanwhile can record its message again.)
DeletedLeadsAreForgotten ==
  \A t \in Task : task[t].op = "Delete" /\ At(t, "done") =>
    \A c \in Chats : \A m \in Page(c) \intersect task[t].shown :
      \E u \in Task : task[u].op = "Echo" /\ task[u].m = m

\* message-history.repository.ts:68 says of the status "Status só evolui — nunca
\* regride (READ não vira DELIVERED)". (Violated: two receipts that race.)
StatusNeverRegresses ==
  [][\A m \in Message : m \in Rows /\ message'[m] # NoRow =>
       Rank(message'[m].status) >= Rank(message[m].status)]_inboxVars
=============================================================================
