--------------------------- MODULE InboxProofs ---------------------------
(* What holds of the inbox for any number of messages, conversations,       *)
(* requests and crashes: the four properties of the history.                *)
EXTENDS Inbox, FiniteSetTheorems, WellFoundedInduction, TLAPS

----------------------------------------------------------------------------
(* Types *)

Word == {"FAILED", "SENT", "DELIVERED", "READ"}
Row == [chat : Chat, sender : {"LEAD", "BOT"}, status : Word]

\* The statements of each request, and how it may end.
Ended == {"done", "failed", "dropped", "crashed"}
Stages(op) ==
  CASE op = "none" -> {"new"}
    [] op = "Receipt" -> {"read", "write"} \cup Ended
    [] op = "MarkAsRead" -> {"list", "read", "write"} \cup Ended
    [] op = "Send" -> {"send", "create"} \cup Ended
    [] op = "Echo" -> {"lock", "find", "open", "create"} \cup Ended
    [] op = "Delete" -> {"ids", "deleteRows", "deleteChats"} \cup Ended

Requests ==
  [op : {"none", "Receipt", "MarkAsRead", "Send", "Echo", "Delete"},
   pc : {"new", "list", "read", "write", "send", "create", "lock", "find", "open",
         "ids", "deleteRows", "deleteChats"} \cup Ended,
   m : Message \cup {0}, c : Chat \cup {0}, status : Word,
   todo : SUBSET Message, ids : SUBSET Chat, shown : SUBSET Message]

Standing == [is : {"absent", "live", "gone"}, active : BOOLEAN, auto : BOOLEAN]
Sent == [by : {"nobody", "us", "lead"}, told : 0 .. 3]

Typed ==
  /\ chat \in [Chat -> Standing]
  /\ message \in [Message -> Row \cup {NoRow}]
  /\ wa \in [Message -> Sent]
  /\ heard \in [Message -> 0 .. 3]
  /\ raced \subseteq Message
  /\ task \in [Task -> Requests]
  /\ \A t \in Task : task[t].pc \in Stages(task[t].op)

----------------------------------------------------------------------------
(* Invariants *)

\* A row is on the side of whoever wrote the message; a task touches only messages
\* that were sent, those of the lead with READ, and inserts only ours.
SideRows ==
  \A m \in Rows : wa[m].by = IF message[m].sender = "LEAD" THEN "lead" ELSE "us"
SideTask(t) ==
  /\ At(t, "read") \/ At(t, "write") =>
       \A m \in task[t].todo : wa[m].by = "us" \/ (wa[m].by = "lead" /\ task[t].status = "READ")
  /\ task[t].op = "MarkAsRead" => task[t].status = "READ"
  /\ At(t, "write") => task[t].m \in task[t].todo /\ Rank(task[t].status) >= 1
  /\ task[t].pc \in {"lock", "find", "open", "create"} =>
       task[t].m \in Message /\ wa[task[t].m].by = "us"
SideInv == SideRows /\ \A t \in Task : SideTask(t)

\* Between its two statements a task holds a status that is no worse than the row's,
\* and it alone updates the row, unless the message is in raced.
BestInv ==
  /\ \A t, u \in Task : At(t, "write") /\ At(u, "write") /\ task[t].m = task[u].m =>
       t = u \/ task[t].m \in raced
  /\ \A m \in Rows \ raced :
       /\ Rank(message[m].status) = heard[m]
       /\ \A t \in Task : At(t, "write") /\ task[t].m = m => Rank(task[t].status) >= heard[m]

\* What mark-as-read listed and has dealt with is read or deleted, for good.
BadgeOf(t) ==
  task[t].op = "MarkAsRead" =>
    /\ At(t, "done") => task[t].todo = {}
    /\ task[t].pc \in {"read", "write", "done"} =>
         \A m \in task[t].shown :
           /\ wa[m].by = "lead"
           /\ m \in Rows \ task[t].todo => message[m].status = "READ"
BadgeInv == \A t \in Task : BadgeOf(t)

\* An echo of m has ended: it saw the row or inserted it.
Echoed(m) ==
  \E t \in Task : task[t].op = "Echo" /\ task[t].pc \in {"done", "failed"} /\ task[t].m = m

\* While nobody deletes, conversations stay, and so do rows.
KeptInv ==
  (\A t \in Task : task[t].op # "Delete") =>
    /\ \A c \in Chat : chat[c].is # "gone"
    /\ \A t \in Task : task[t].op = "Echo" /\ At(t, "create") => task[t].c \in Chats
    /\ \A t \in Task : task[t].op = "Echo" /\ task[t].pc \in {"done", "failed"} => task[t].m \in Rows

\* A message a send is about to record is nobody else's to record, but its echo's.
\* What a deletion saw is in a conversation it deletes, or gone, or echoed again.
Recording(t) == task[t].op = "Send" /\ At(t, "create")
Looked(d) == task[d].op = "Delete" /\ task[d].pc \in {"deleteRows", "deleteChats", "done"}

ForgetInv ==
  /\ \A d \in Task : /\ At(d, "ids") => task[d].shown = {}
                     /\ Looked(d) /\ At(d, "done") => task[d].ids = {}
  /\ \A t, u \in Task : Recording(t) /\ Recording(u) /\ task[t].m = task[u].m => t = u
  /\ \A t \in Task : Recording(t) =>
       /\ task[t].m \in Rows => Echoed(task[t].m)
       /\ \A d \in Task : Looked(d) /\ task[t].m \in task[d].shown => Echoed(task[t].m)
  /\ \A d \in Task : Looked(d) =>
       \A m \in task[d].shown :
         /\ wa[m].by # "nobody"
         /\ m \in Rows => message[m].chat \in task[d].ids \/ Echoed(m)

InboxInv == Typed /\ SideInv /\ BestInv /\ BadgeInv /\ KeptInv /\ ForgetInv

----------------------------------------------------------------------------
(* Lemmas *)

LEMMA MinIsIn ==
  ASSUME NEW S, S \subseteq Nat, S # {}
  PROVE  Min(S) \in S
<1>1. PICK x \in S : \A y \in S : ~(<<y, x>> \in OpToRel(<, Nat))
  BY WFMin, NatLessThanWellFounded, Zenon
<1>2. ASSUME NEW y \in S
      PROVE  x =< y
  <2>1. x \in Nat /\ y \in Nat
    OBVIOUS
  <2>2. ~(y < x)
    BY <1>1, <2>1 DEF OpToRel
  <2> QED  BY <2>1, <2>2
<1> QED  BY <1>2 DEF Min

LEMMA MaxOfTwo ==
  ASSUME NEW a \in Nat, NEW b \in Nat
  PROVE  Max({a, b}) = IF a >= b THEN a ELSE b
<1>1. \E x \in {a, b} : \A y \in {a, b} : x >= y
  OBVIOUS
<1>2. Max({a, b}) \in {a, b} /\ \A y \in {a, b} : Max({a, b}) >= y
  BY <1>1 DEF Max
<1> QED  BY <1>2

LEMMA Ranks ==
  ASSUME NEW s \in Word
  PROVE  /\ Rank(s) \in 0 .. 3
         /\ Rank(s) >= 3 => s = "READ"
  BY DEF Rank, Word

\* A request begins in a task that has done nothing.
LEMMA Begins ==
  ASSUME Typed, NEW r, StartTask(r)
  PROVE  \E t \in Task : /\ task[t].op = "none" /\ At(t, "new")
                         /\ task' = [task EXCEPT ![t] = r]
                         /\ UNCHANGED <<chat, message, heard, raced, crashes>>
<1>1. Min(NewTasks) \in NewTasks
  BY MinIsIn, InboxAssumption DEF StartTask, NewTasks
<1>2. task[Min(NewTasks)].op = "none"
  BY <1>1 DEF NewTasks, Typed, Requests, Stages, Ended
<1> QED  BY <1>1, <1>2 DEF StartTask, Become, NewTasks, At

LEMMA EndsAs ==
  ASSUME Typed, NEW t \in Task, ~At(t, "new"), NEW outcome \in Ended, End(t, outcome)
  PROVE  \E r \in Requests :
           /\ task' = [task EXCEPT ![t] = r]
           /\ r.op = task[t].op /\ r.op # "none" /\ r.pc = outcome /\ r.m = task[t].m
           /\ r.c = task[t].c /\ r.shown = task[t].shown
           /\ r.todo = {} /\ r.ids = {} /\ r.status = "READ"
<1> DEFINE r == [NoTask EXCEPT !.op = task[t].op, !.pc = outcome, !.m = task[t].m,
                               !.c = task[t].c, !.shown = task[t].shown]
<1>1. task[t] \in Requests /\ task[t].pc \in Stages(task[t].op)
  BY DEF Typed
<1>2. task[t].op # "none"
  BY <1>1 DEF At, Stages
<1>3. r \in Requests
  BY <1>1 DEF Requests, NoTask, Word, Ended
<1> QED  BY <1>2, <1>3 DEF End, Become, NoTask

\* Where a task is says what it does.
LEMMA WhoIsAt ==
  ASSUME Typed, NEW t \in Task
  PROVE  /\ At(t, "list") => task[t].op = "MarkAsRead"
         /\ At(t, "read") \/ At(t, "write") => task[t].op \in {"Receipt", "MarkAsRead"}
         /\ At(t, "send") => task[t].op = "Send"
         /\ At(t, "create") => task[t].op \in {"Send", "Echo"}
         /\ At(t, "lock") \/ At(t, "find") \/ At(t, "open") => task[t].op = "Echo"
         /\ At(t, "ids") \/ At(t, "deleteRows") \/ At(t, "deleteChats") => task[t].op = "Delete"
         /\ At(t, "new") => task[t].op = "none"
<1>1. /\ task[t].op \in {"none", "Receipt", "MarkAsRead", "Send", "Echo", "Delete"}
      /\ task[t].pc \in Stages(task[t].op)
  BY DEF Typed, Requests
<1>2. CASE task[t].op = "none"
  BY <1>1, <1>2 DEF Stages, Ended, At
<1>3. CASE task[t].op = "Receipt"
  BY <1>1, <1>3 DEF Stages, Ended, At
<1>4. CASE task[t].op = "MarkAsRead"
  BY <1>1, <1>4 DEF Stages, Ended, At
<1>5. CASE task[t].op = "Send"
  BY <1>1, <1>5 DEF Stages, Ended, At
<1>6. CASE task[t].op = "Echo"
  BY <1>1, <1>6 DEF Stages, Ended, At
<1>7. CASE task[t].op = "Delete"
  BY <1>1, <1>7 DEF Stages, Ended, At
<1> QED  BY <1>1, <1>2, <1>3, <1>4, <1>5, <1>6, <1>7

LEMMA TypedNone ==
  NoTask \in Requests /\ NoTask.pc \in Stages(NoTask.op)
BY DEF NoTask, Requests, Word, Stages

\* A task that goes on keeps its type.
LEMMA TypedTask ==
  ASSUME Typed, NEW t \in Task, NEW r \in Requests, r.pc \in Stages(r.op),
         task' = [task EXCEPT ![t] = r]
  PROVE  task' \in [Task -> Requests] /\ \A u \in Task : task'[u].pc \in Stages(task'[u].op)
BY DEF Typed

LEMMA InitTyped ==
  InboxInit => Typed
<1> SUFFICES ASSUME InboxInit
             PROVE  Typed
  OBVIOUS
<1>1. chat \in [Chat -> Standing]
  <2>1. PICK active, auto \in BOOLEAN :
          chat = [c \in Chat |->
            CASE c = 1 -> [OpenedChat(TRUE) EXCEPT !.active = FALSE]
              [] c = 2 -> [OpenedChat(auto) EXCEPT !.active = active]
              [] OTHER -> [is |-> "absent", active |-> FALSE, auto |-> FALSE]]
    BY DEF InboxInit
  <2>2. /\ [OpenedChat(TRUE) EXCEPT !.active = FALSE] \in Standing
        /\ [OpenedChat(auto) EXCEPT !.active = active] \in Standing
        /\ [is |-> "absent", active |-> FALSE, auto |-> FALSE] \in Standing
    BY DEF OpenedChat, Standing
  <2> QED  BY <2>1, <2>2
<1>2. message \in [Message -> Row \cup {NoRow}]
  <2>1. \A m \in Message : m <= 2 => m \in Chat
    BY InboxAssumption
  <2> QED  BY <2>1 DEF InboxInit, Row, Word
<1>3. /\ wa \in [Message -> Sent]
      /\ heard \in [Message -> 0 .. 3] /\ raced \subseteq Message
  BY DEF InboxInit, Rank, Sent
<1>4. task \in [Task -> Requests] /\ \A t \in Task : task[t].pc \in Stages(task[t].op)
  BY TypedNone DEF InboxInit
<1> QED  BY <1>1, <1>2, <1>3, <1>4 DEF Typed

LEMMA RequestTyped ==
  ASSUME Typed, NEW r \in Requests, r.pc \in Stages(r.op), StartTask(r),
         wa' \in [Message -> Sent]
  PROVE  Typed'
<1>1. PICK t \in Task : task' = [task EXCEPT ![t] = r]
  BY Begins
<1>2. UNCHANGED <<chat, message, heard, raced, crashes>>
  BY DEF StartTask
<1>3. task' \in [Task -> Requests] /\ \A u \in Task : task'[u].pc \in Stages(task'[u].op)
  BY <1>1, TypedTask
<1> QED  BY <1>2, <1>3 DEF Typed

LEMMA TypedStep ==
  ASSUME Typed, InboxNext
  PROVE  Typed'
<1>1. CASE Receipt
  <2>1. PICK m \in Message, s \in Word :
          /\ wa' = [wa EXCEPT ![m].told = Rank(s)]
          /\ StartTask([NoTask EXCEPT !.op = "Receipt", !.pc = "read", !.status = s, !.todo = {m}])
    BY <1>1 DEF Receipt, Word
  <2>2. [NoTask EXCEPT !.op = "Receipt", !.pc = "read", !.status = s, !.todo = {m}] \in Requests
    BY DEF NoTask, Requests, Word
  <2>3. wa' \in [Message -> Sent]
    BY <2>1, Ranks DEF Typed, Sent
  <2> QED  BY <2>1, <2>2, <2>3, RequestTyped DEF NoTask, Stages
<1>2. CASE MarkAsRead
  <2>1. PICK c \in Chats :
          StartTask([NoTask EXCEPT !.op = "MarkAsRead", !.pc = "list", !.c = c]) /\ UNCHANGED wa
    BY <1>2 DEF MarkAsRead
  <2>2. [NoTask EXCEPT !.op = "MarkAsRead", !.pc = "list", !.c = c] \in Requests
    BY DEF NoTask, Requests, Word, Chats
  <2> QED  BY <2>1, <2>2, RequestTyped DEF NoTask, Stages, Typed
<1>3. CASE Send
  <2>1. PICK c \in Chats :
          StartTask([NoTask EXCEPT !.op = "Send", !.pc = "send", !.c = c]) /\ UNCHANGED wa
    BY <1>3 DEF Send
  <2>2. [NoTask EXCEPT !.op = "Send", !.pc = "send", !.c = c] \in Requests
    BY DEF NoTask, Requests, Word, Chats
  <2> QED  BY <2>1, <2>2, RequestTyped DEF NoTask, Stages, Typed
<1>4. CASE Echo
  <2>1. PICK m \in Message :
          StartTask([NoTask EXCEPT !.op = "Echo", !.pc = "lock", !.m = m]) /\ UNCHANGED wa
    BY <1>4 DEF Echo
  <2>2. [NoTask EXCEPT !.op = "Echo", !.pc = "lock", !.m = m] \in Requests
    BY DEF NoTask, Requests, Word
  <2> QED  BY <2>1, <2>2, RequestTyped DEF NoTask, Stages, Typed
<1>5. CASE Delete
  <2>1. PICK c \in Chats :
          StartTask([NoTask EXCEPT !.op = "Delete", !.pc = "ids", !.c = c]) /\ UNCHANGED wa
    BY <1>5 DEF Delete
  <2>2. [NoTask EXCEPT !.op = "Delete", !.pc = "ids", !.c = c] \in Requests
    BY DEF NoTask, Requests, Word, Chats
  <2> QED  BY <2>1, <2>2, RequestTyped DEF NoTask, Stages, Typed
<1>6. CASE LeadWrites
  <2> DEFINE m == Min(Unwritten)
  <2>1. m \in Message
    BY <1>6, MinIsIn, InboxAssumption DEF LeadWrites, Unwritten
  <2> HIDE DEF m
  <2>2. UNCHANGED <<task, raced, crashes>> /\ wa' = [wa EXCEPT ![m].by = "lead"]
        /\ heard' = [heard EXCEPT ![m] = Rank("DELIVERED")]
    BY <1>6 DEF LeadWrites, m
  <2>3. wa' \in [Message -> Sent] /\ heard' \in [Message -> 0 .. 3]
    BY <2>1, <2>2 DEF Typed, Sent, Rank
  <2>4. CASE \E c \in Chat : message' = Insertion(m, c, "LEAD", "DELIVERED") /\ UNCHANGED chat
    <3>1. message' \in [Message -> Row \cup {NoRow}]
      BY <2>1, <2>4 DEF Insertion, Typed, Row, Word
    <3> QED  BY <2>2, <2>4, <2>3, <3>1 DEF Typed
  <2>5. CASE /\ Unopened # {}
             /\ \E auto \in BOOLEAN : chat' = [chat EXCEPT ![Min(Unopened)] = OpenedChat(auto)]
             /\ message' = [message EXCEPT ![m] =
                  [chat |-> Min(Unopened), sender |-> "LEAD", status |-> "DELIVERED"]]
    <3>1. Min(Unopened) \in Chat
      BY <2>5, MinIsIn, InboxAssumption DEF Unopened
    <3>2. chat' \in [Chat -> Standing]
      BY <2>5, <3>1 DEF Typed, OpenedChat, Standing
    <3>3. message' \in [Message -> Row \cup {NoRow}]
      BY <2>1, <2>5, <3>1 DEF Typed, Row, Word
    <3> QED  BY <2>2, <2>3, <3>2, <3>3 DEF Typed
  <2> QED  BY <1>6, <2>4, <2>5 DEF LeadWrites, m, OpenChats, Chats
<1>7. CASE FlowFinishes
  <2>1. PICK c \in Chat : chat' = [chat EXCEPT ![c].active = FALSE]
    BY <1>7 DEF FlowFinishes, OpenChats, Chats
  <2>2. chat' \in [Chat -> Standing]
    BY <2>1 DEF Typed, Standing
  <2> QED  BY <1>7, <2>2 DEF FlowFinishes, Typed
<1>8. CASE ProcessCrashes
  <2>1. ASSUME NEW t \in Task, task[t].pc # "new"
        PROVE  /\ [NoTask EXCEPT !.op = task[t].op, !.pc = "crashed"] \in Requests
               /\ "crashed" \in Stages(task[t].op)
    BY <2>1 DEF Typed, Requests, NoTask, Word, Ended, Stages
  <2>2. task' \in [Task -> Requests] /\ \A t \in Task : task'[t].pc \in Stages(task'[t].op)
    BY <1>8, <2>1 DEF ProcessCrashes, InFlightTasks, Typed, NoTask
  <2> QED  BY <1>8, <2>2, Zenon DEF ProcessCrashes, Typed
<1>9. ASSUME NEW t \in Task, TaskStep(t)
      PROVE  Typed'
  <2>1. /\ task[t] \in Requests /\ task[t].pc \in Stages(task[t].op)
        /\ task \in [Task -> Requests] /\ message \in [Message -> Row \cup {NoRow}]
    BY DEF Typed
  <2>2. ASSUME NEW r \in Requests, r.pc \in Stages(r.op), Become(t, r),
               UNCHANGED <<chat, message, wa, heard>>, raced' \subseteq Message
        PROVE  Typed'
    <3>1. task' \in [Task -> Requests] /\ \A u \in Task : task'[u].pc \in Stages(task'[u].op)
      BY <2>2, TypedTask DEF Become
    <3> QED  BY <2>2, <3>1 DEF Typed
  <2>3. ASSUME ~At(t, "new"), NEW outcome \in Ended, End(t, outcome)
        PROVE  task' \in [Task -> Requests] /\ \A u \in Task : task'[u].pc \in Stages(task'[u].op)
    <3>1. PICK r \in Requests : /\ task' = [task EXCEPT ![t] = r]
                                /\ r.op = task[t].op /\ r.op # "none" /\ r.pc = outcome
      BY <2>3, EndsAs
    <3>2. r.pc \in Stages(r.op)
      BY <3>1 DEF Requests, Stages, Ended
    <3> QED  BY <3>1, <3>2, TypedTask
  <2>4. ASSUME ~At(t, "new"), NEW outcome \in Ended, End(t, outcome),
               UNCHANGED <<chat, message, wa, heard, raced>>
        PROVE  Typed'
    BY <2>3, <2>4 DEF Typed
  <2>5. CASE ListUnread(t)
    <3>1. At(t, "list") /\ task[t].op = "MarkAsRead" /\ UNCHANGED <<chat, message, wa, heard, raced>>
      BY <2>5, WhoIsAt DEF ListUnread
    <3>2. PICK ofLead, unread \in SUBSET Message, pc \in {"done", "read"} :
            Become(t, [task[t] EXCEPT !.shown = ofLead, !.todo = unread, !.pc = pc])
      BY <2>5 DEF ListUnread, Rows
    <3>3. /\ [task[t] EXCEPT !.shown = ofLead, !.todo = unread, !.pc = pc] \in Requests
          /\ pc \in Stages(task[t].op)
      BY <2>1, <3>1 DEF Requests, Stages, Ended
    <3> QED  BY <2>1, <2>2, <3>1, <3>2, <3>3 DEF Requests, Typed
  <2>6. ASSUME NEW m \in Message, At(t, "read") \/ At(t, "write")
        PROVE  /\ [task[t] EXCEPT !.pc = "write", !.m = m] \in Requests
               /\ NextInLoop(task[t], m) \in Requests
               /\ NextInLoop(task[t], m).op = task[t].op
               /\ NextInLoop(task[t], m).pc \in {"read", "done"}
               /\ {"read", "write", "done"} \subseteq Stages(task[t].op)
    <3>1. task[t].op \in {"Receipt", "MarkAsRead"}
      BY <2>6, WhoIsAt
    <3> QED  BY <2>1, <3>1 DEF NextInLoop, Requests, Stages, Ended
  <2>7. CASE ReadStatus(t)
    <3>1. At(t, "read") /\ UNCHANGED <<chat, message, wa, heard>>
      BY <2>7 DEF ReadStatus
    <3>2. PICK m \in Message :
            /\ raced' \in {raced, raced \cup {m}}
            /\ \/ Become(t, [task[t] EXCEPT !.pc = "write", !.m = m])
               \/ Become(t, NextInLoop(task[t], m))
      BY <2>1, <2>7 DEF ReadStatus, Requests
    <3>3. raced' \subseteq Message
      BY <3>2 DEF Typed
    <3>4. CASE Become(t, [task[t] EXCEPT !.pc = "write", !.m = m])
      <4> DEFINE r == [task[t] EXCEPT !.pc = "write", !.m = m]
      <4>1. r \in Requests /\ r.pc = "write" /\ r.op = task[t].op
        BY <2>1, <2>6, <3>1 DEF Requests
      <4>2. Become(t, r)
        BY <3>4
      <4> HIDE DEF r
      <4> QED  BY <2>2, <2>6, <3>1, <3>3, <4>1, <4>2
    <3>5. CASE Become(t, NextInLoop(task[t], m))
      BY <2>2, <2>6, <3>1, <3>3, <3>5
    <3> QED  BY <3>2, <3>4, <3>5
  <2>8. CASE WriteStatus(t)
    <3> DEFINE m == task[t].m
    <3>1. At(t, "write") /\ UNCHANGED <<chat, wa, raced>>
      BY <2>8 DEF WriteStatus
    <3>2. CASE m \in Rows
      <4>1. m \in Message /\ task[t].status \in Word
        BY <2>1, <3>2 DEF Rows, Requests
      <4>2. /\ message' = [message EXCEPT ![m].status = task[t].status]
            /\ heard' = [heard EXCEPT ![m] = Max({@, Rank(task[t].status)})]
            /\ Become(t, NextInLoop(task[t], m))
        BY <2>8, <3>2 DEF WriteStatus
      <4>3. message' \in [Message -> Row \cup {NoRow}]
        BY <3>2, <4>1, <4>2 DEF Rows, Typed, Row
      <4>4. heard[m] \in 0 .. 3 /\ Rank(task[t].status) \in 0 .. 3
        BY <4>1, Ranks DEF Typed
      <4>5. Max({heard[m], Rank(task[t].status)}) \in 0 .. 3
        BY <4>4, MaxOfTwo
      <4>6. heard' \in [Message -> 0 .. 3]
        BY <4>1, <4>2, <4>5 DEF Typed
      <4>7. task' \in [Task -> Requests] /\ \A u \in Task : task'[u].pc \in Stages(task'[u].op)
        BY <2>6, <3>1, <4>1, <4>2, TypedTask DEF Become
      <4> QED  BY <3>1, <4>3, <4>6, <4>7 DEF Typed
    <3>3. CASE m \notin Rows
      BY <2>4, <2>8, <3>3 DEF WriteStatus, At, Ended
    <3> QED  BY <3>2, <3>3
  <2>9. CASE SendReaches(t)
    <3> DEFINE m == Min(Unwritten)
    <3>1. m \in Message
      BY <2>9, MinIsIn, InboxAssumption DEF SendReaches, Unwritten
    <3> HIDE DEF m
    <3>2. /\ At(t, "send") /\ wa' = [wa EXCEPT ![m].by = "us"]
          /\ Become(t, [task[t] EXCEPT !.m = m, !.pc = "create"]) \/ End(t, "failed")
          /\ UNCHANGED <<chat, message, heard, raced>>
      BY <2>9 DEF SendReaches, m
    <3>3. wa' \in [Message -> Sent]
      BY <3>1, <3>2 DEF Typed, Sent
    <3>4. /\ [task[t] EXCEPT !.m = m, !.pc = "create"] \in Requests
          /\ "create" \in Stages(task[t].op)
      BY <2>1, <3>1, <3>2, WhoIsAt DEF Requests, Stages
    <3>5. task' \in [Task -> Requests] /\ \A u \in Task : task'[u].pc \in Stages(task'[u].op)
      BY <2>1, <2>3, <3>2, <3>4, TypedTask DEF Become, At, Ended, Requests
    <3> QED  BY <3>2, <3>3, <3>5 DEF Typed
  <2>10. CASE SendFails(t)
    BY <2>4, <2>10 DEF SendFails, At, Ended
  <2>11. CASE CreateRow(t)
    <3> DEFINE m == task[t].m
    <3>1. /\ At(t, "create") /\ UNCHANGED <<chat, wa, raced>>
          /\ message' = Insertion(m, task[t].c, "BOT", "SENT")
          /\ heard' = heard \/ heard' = [heard EXCEPT ![m] = Rank("SENT")]
          /\ End(t, "done") \/ End(t, "failed")
      BY <2>11 DEF CreateRow
    <3>2. message' \in [Message -> Row \cup {NoRow}]
      BY <2>1, <3>1 DEF Insertion, Chats, Row, Word
    <3>3. heard' \in [Message -> 0 .. 3]
      BY <3>1 DEF Typed, Rank
    <3>4. task' \in [Task -> Requests] /\ \A u \in Task : task'[u].pc \in Stages(task'[u].op)
      BY <2>3, <3>1 DEF At, Ended
    <3> QED  BY <3>1, <3>2, <3>3, <3>4 DEF Typed
  <2>12. CASE EchoEnters(t)
    <3>1. [task[t] EXCEPT !.pc = "find"] \in Requests
      BY <2>1 DEF Requests
    <3>2. At(t, "lock") /\ {"find"} \subseteq Stages(task[t].op)
      BY <2>1, <2>12, WhoIsAt DEF Stages, EchoEnters
    <3>3. /\ GoTo(t, "find") \/ End(t, "done")
          /\ UNCHANGED <<chat, message, wa, heard, raced>>
      BY <2>12 DEF EchoEnters
    <3>4. CASE GoTo(t, "find")
      BY <2>1, <2>2, <3>1, <3>2, <3>3, <3>4 DEF GoTo, Requests, Typed
    <3>5. CASE End(t, "done")
      BY <2>4, <3>2, <3>3, <3>5 DEF At, Ended
    <3> QED  BY <3>3, <3>4, <3>5
  <2>13. CASE EchoFinds(t)
    <3>1. /\ [task[t] EXCEPT !.pc = "open"] \in Requests
          /\ \A c \in Chat : [task[t] EXCEPT !.c = c, !.pc = "create"] \in Requests
      BY <2>1 DEF Requests
    <3>2. At(t, "find") /\ {"open", "create"} \subseteq Stages(task[t].op)
      BY <2>1, <2>13, WhoIsAt DEF Stages, EchoFinds
    <3>3. /\ \/ GoTo(t, "open")
             \/ \E c \in Chat : Become(t, [task[t] EXCEPT !.c = c, !.pc = "create"])
          /\ UNCHANGED <<chat, message, wa, heard, raced>>
      BY <2>13 DEF EchoFinds, OpenChats, Chats
    <3>4. CASE GoTo(t, "open")
      BY <2>1, <2>2, <3>1, <3>2, <3>3, <3>4 DEF GoTo, Requests, Typed
    <3>5. ASSUME NEW c \in Chat, Become(t, [task[t] EXCEPT !.c = c, !.pc = "create"])
          PROVE  Typed'
      <4> DEFINE r == [task[t] EXCEPT !.c = c, !.pc = "create"]
      <4>1. r \in Requests /\ r.pc = "create" /\ r.op = task[t].op
        BY <2>1, <3>1 DEF Requests
      <4>2. Become(t, r)
        BY <3>5
      <4> HIDE DEF r
      <4> QED  BY <2>2, <3>2, <3>3, <4>1, <4>2 DEF Typed
    <3> QED  BY <3>3, <3>4, <3>5
  <2>14. CASE EchoOpens(t)
    <3> DEFINE c == Min(Unopened)
    <3>1. c \in Chat
      BY <2>14, MinIsIn, InboxAssumption DEF EchoOpens, Unopened
    <3> HIDE DEF c
    <3>2. /\ At(t, "open") /\ UNCHANGED <<message, wa, heard, raced>>
          /\ chat' = [chat EXCEPT ![c] = OpenedChat(FALSE)]
          /\ Become(t, [task[t] EXCEPT !.c = c, !.pc = "create"])
      BY <2>14 DEF EchoOpens, c
    <3>3. chat' \in [Chat -> Standing]
      BY <3>1, <3>2 DEF Typed, OpenedChat, Standing
    <3>4. /\ [task[t] EXCEPT !.c = c, !.pc = "create"] \in Requests
          /\ [task[t] EXCEPT !.c = c, !.pc = "create"].pc
               \in Stages([task[t] EXCEPT !.c = c, !.pc = "create"].op)
      BY <2>1, <3>1, <3>2, WhoIsAt DEF Requests, Stages
    <3>5. task' \in [Task -> Requests] /\ \A u \in Task : task'[u].pc \in Stages(task'[u].op)
      BY <3>2, <3>4, TypedTask DEF Become
    <3> QED  BY <3>2, <3>3, <3>5 DEF Typed
  <2>15. CASE FindIds(t)
    <3>1. \A ids \in SUBSET Chat, shown \in SUBSET Message :
            [task[t] EXCEPT !.ids = ids, !.shown = shown, !.pc = "deleteRows"] \in Requests
      BY <2>1 DEF Requests
    <3>2. At(t, "ids") /\ {"deleteRows"} \subseteq Stages(task[t].op)
      BY <2>1, <2>15, WhoIsAt DEF Stages, FindIds
    <3>3. /\ \/ End(t, "done")
             \/ \E ids \in SUBSET Chat, shown \in SUBSET Message :
                  Become(t, [task[t] EXCEPT !.ids = ids, !.shown = shown, !.pc = "deleteRows"])
          /\ UNCHANGED <<chat, message, wa, heard, raced>>
      BY <2>15 DEF FindIds, SameLead, Chats, Page, Rows
    <3>4. CASE End(t, "done")
      BY <2>4, <3>2, <3>3, <3>4 DEF At, Ended
    <3>5. ASSUME NEW ids \in SUBSET Chat, NEW shown \in SUBSET Message,
                 Become(t, [task[t] EXCEPT !.ids = ids, !.shown = shown, !.pc = "deleteRows"])
          PROVE  Typed'
      <4> DEFINE r == [task[t] EXCEPT !.ids = ids, !.shown = shown, !.pc = "deleteRows"]
      <4>1. r \in Requests /\ r.pc = "deleteRows" /\ r.op = task[t].op
        BY <2>1, <3>1 DEF Requests
      <4>2. Become(t, r)
        BY <3>5
      <4> HIDE DEF r
      <4> QED  BY <2>2, <3>2, <3>3, <4>1, <4>2 DEF Typed
    <3> QED  BY <3>3, <3>4, <3>5
  <2>16. CASE DeleteRows(t)
    <3>1. PICK todo \in SUBSET Message :
            Become(t, [task[t] EXCEPT !.todo = todo, !.pc = "deleteChats"])
      BY <2>16 DEF DeleteRows, Rows
    <3>2. At(t, "deleteRows") /\ {"deleteChats"} \subseteq Stages(task[t].op)
      BY <2>1, <2>16, WhoIsAt DEF Stages, DeleteRows
    <3>3. [task[t] EXCEPT !.todo = todo, !.pc = "deleteChats"] \in Requests
      BY <2>1 DEF Requests
    <3> QED  BY <2>1, <2>2, <2>16, <3>1, <3>2, <3>3 DEF DeleteRows, Requests, Typed
  <2>17. CASE DeleteChats(t)
    <3>1. At(t, "deleteChats") /\ UNCHANGED <<wa, heard, raced>>
      BY <2>17 DEF DeleteChats
    <3>2. CASE End(t, "failed") /\ UNCHANGED <<chat, message>>
      BY <2>4, <3>1, <3>2 DEF At, Ended
    <3>3. CASE /\ message' = [m \in Message |-> IF m \in task[t].todo THEN NoRow ELSE message[m]]
               /\ chat' = [c \in Chat |->
                    IF c \in task[t].ids
                    THEN [is |-> "gone", active |-> FALSE, auto |-> FALSE] ELSE chat[c]]
               /\ End(t, "done")
      <4>1. message' \in [Message -> Row \cup {NoRow}]
        BY <3>3 DEF Typed
      <4>2. [is |-> "gone", active |-> FALSE, auto |-> FALSE] \in Standing
        BY DEF Standing
      <4>3. chat' \in [Chat -> Standing]
        BY <3>3, <4>2 DEF Typed
      <4>4. task' \in [Task -> Requests] /\ \A u \in Task : task'[u].pc \in Stages(task'[u].op)
        BY <2>3, <3>1, <3>3 DEF At, Ended
      <4> QED  BY <3>1, <4>1, <4>3, <4>4 DEF Typed
    <3> QED  BY <2>17, <3>2, <3>3 DEF DeleteChats
  <2>18. CASE EchoDrops(t)
    <3>1. At(t, "find") /\ UNCHANGED <<chat, message, wa, heard, raced>>
      BY <2>18 DEF EchoDrops
    <3> QED  BY <2>4, <2>18, <3>1 DEF EchoDrops, At, Ended
  <2> QED  BY <1>9, <2>5, <2>7, <2>8, <2>9, <2>10, <2>11, <2>12, <2>13, <2>14, <2>15, <2>16,
              <2>17, <2>18 DEF TaskStep
<1> QED
  BY <1>1, <1>2, <1>3, <1>4, <1>5, <1>6, <1>7, <1>8, <1>9 DEF InboxNext

----------------------------------------------------------------------------
(* What each step does, field by field *)

Others(t) == \A u \in Task : u # t => task'[u] = task[u]
Same(t) == task'[t].op = task[t].op /\ task'[t].c = task[t].c
Tables == <<chat, message, wa, heard, raced>>

LEMMA BeginEffect ==
  ASSUME Typed, NEW r, StartTask(r)
  PROVE  \E t \in Task : /\ task[t].op = "none" /\ At(t, "new") /\ Others(t) /\ task'[t] = r
                         /\ UNCHANGED <<chat, message, heard, raced>>
BY Begins DEF Others, Typed

LEMMA EndEffect ==
  ASSUME Typed, NEW t \in Task, ~At(t, "new"), NEW outcome \in Ended, End(t, outcome)
  PROVE  /\ Others(t) /\ Same(t)
         /\ task'[t].pc = outcome /\ task'[t].m = task[t].m /\ task'[t].shown = task[t].shown
         /\ task'[t].todo = {} /\ task'[t].ids = {} /\ task'[t].status = "READ"
BY EndsAs DEF Others, Same, Typed

LEMMA BecomeEffect ==
  ASSUME Typed, NEW t \in Task, NEW r, Become(t, r)
  PROVE  Others(t) /\ task'[t] = r
BY DEF Become, Others, Typed

LEMMA ListEffect ==
  ASSUME Typed, NEW t \in Task, ListUnread(t)
  PROVE  /\ At(t, "list") /\ UNCHANGED Tables /\ Others(t) /\ Same(t)
         /\ task'[t].m = task[t].m /\ task'[t].status = task[t].status
         /\ task'[t].ids = task[t].ids
         /\ task'[t].shown = {m \in Rows : message[m].chat = task[t].c /\ message[m].sender = "LEAD"}
         /\ task'[t].todo = {m \in task'[t].shown : message[m].status # "READ"}
         /\ task'[t].pc = IF task'[t].todo = {} THEN "done" ELSE "read"
<1> DEFINE ofLead == {m \in Rows : message[m].chat = task[t].c /\ message[m].sender = "LEAD"}
           unread == {m \in ofLead : message[m].status # "READ"}
           r == [task[t] EXCEPT !.shown = ofLead, !.todo = unread,
                                !.pc = IF unread = {} THEN "done" ELSE "read"]
<1>1. Become(t, r) /\ At(t, "list") /\ UNCHANGED Tables
  BY DEF ListUnread, Tables, Typed, Requests
<1>2. Others(t) /\ task'[t] = r
  BY <1>1, BecomeEffect
<1>3. task[t] \in Requests
  BY DEF Typed
<1> QED  BY <1>1, <1>2, <1>3 DEF Same, Requests

LEMMA ReadEffect ==
  ASSUME Typed, NEW t \in Task, ReadStatus(t)
  PROVE  \E m \in task[t].todo :
           /\ m \in Message /\ At(t, "read") /\ UNCHANGED <<chat, message, wa, heard>>
           /\ raced' = IF \E u \in Task : At(u, "write") /\ task[u].m = m
                       THEN raced \cup {m} ELSE raced
           /\ Others(t) /\ Same(t)
           /\ task'[t].status = task[t].status /\ task'[t].shown = task[t].shown
           /\ task'[t].ids = task[t].ids
           /\ \/ /\ m \in Rows /\ Rank(task[t].status) > Rank(message[m].status)
                 /\ task'[t].pc = "write" /\ task'[t].m = m /\ task'[t].todo = task[t].todo
              \/ /\ m \in Rows => ~(Rank(task[t].status) > Rank(message[m].status))
                 /\ task'[t].todo = task[t].todo \ {m}
                 /\ task'[t].pc = IF task'[t].todo = {} THEN "done" ELSE "read"
<1>1. PICK m \in task[t].todo :
        /\ IF m \in Rows /\ Rank(task[t].status) > Rank(message[m].status)
           THEN Become(t, [task[t] EXCEPT !.pc = "write", !.m = m])
           ELSE Become(t, NextInLoop(task[t], m))
        /\ raced' = IF \E u \in Task : At(u, "write") /\ task[u].m = m
                    THEN raced \union {m} ELSE raced
  BY DEF ReadStatus, Evolves
<1>2. At(t, "read") /\ UNCHANGED <<chat, message, wa, heard>>
  BY DEF ReadStatus
<1>3. task[t] \in Requests /\ m \in Message
  BY <1>1 DEF Typed, Requests
<1>4. CASE /\ m \in Rows /\ Rank(task[t].status) > Rank(message[m].status)
           /\ Become(t, [task[t] EXCEPT !.pc = "write", !.m = m])
  <2>1. Others(t) /\ task'[t] = [task[t] EXCEPT !.pc = "write", !.m = m]
    BY <1>4, BecomeEffect
  <2> QED  BY <1>1, <1>2, <1>3, <1>4, <2>1 DEF Same, Requests
<1>5. CASE /\ ~(m \in Rows /\ Rank(task[t].status) > Rank(message[m].status))
           /\ Become(t, NextInLoop(task[t], m))
  <2>1. Others(t) /\ task'[t] = NextInLoop(task[t], m)
    BY <1>5, BecomeEffect
  <2> QED  BY <1>1, <1>2, <1>3, <1>5, <2>1 DEF Same, Requests, NextInLoop
<1> QED  BY <1>1, <1>4, <1>5

LEMMA WriteEffect ==
  ASSUME Typed, NEW t \in Task, WriteStatus(t)
  PROVE  /\ At(t, "write") /\ UNCHANGED <<chat, wa, raced>> /\ Others(t) /\ Same(t)
         /\ task'[t].shown = task[t].shown
         /\ \/ /\ task[t].m \in Rows
               /\ message' = [message EXCEPT ![task[t].m].status = task[t].status]
               /\ heard' = [heard EXCEPT ![task[t].m] =
                              Max({heard[task[t].m], Rank(task[t].status)})]
               /\ task'[t].status = task[t].status /\ task'[t].ids = task[t].ids
               /\ task'[t].todo = task[t].todo \ {task[t].m}
               /\ task'[t].pc = IF task'[t].todo = {} THEN "done" ELSE "read"
            \/ /\ task[t].m \notin Rows /\ UNCHANGED <<message, heard>>
               /\ task'[t].pc = "failed" /\ task'[t].status = "READ"
<1>1. At(t, "write") /\ UNCHANGED <<chat, wa, raced>>
  BY DEF WriteStatus
<1>2. CASE task[t].m \in Rows
  <2>1. /\ message' = [message EXCEPT ![task[t].m].status = task[t].status]
        /\ heard' = [heard EXCEPT ![task[t].m] = Max({heard[task[t].m], Rank(task[t].status)})]
        /\ Become(t, NextInLoop(task[t], task[t].m))
    BY <1>2 DEF WriteStatus, Rows, Typed
  <2>2. Others(t) /\ task'[t] = NextInLoop(task[t], task[t].m)
    BY <2>1, BecomeEffect
  <2>3. task[t] \in Requests
    BY DEF Typed
  <2> QED  BY <1>1, <1>2, <2>1, <2>2, <2>3 DEF Same, Requests, NextInLoop
<1>3. CASE task[t].m \notin Rows
  BY <1>1, <1>3, EndEffect DEF WriteStatus, At, Ended
<1> QED  BY <1>2, <1>3

LEMMA SendEffect ==
  ASSUME Typed, NEW t \in Task, SendReaches(t)
  PROVE  \E m \in Message :
           /\ At(t, "send") /\ UNCHANGED <<chat, message, heard, raced>> /\ Others(t) /\ Same(t)
           /\ wa[m].by = "nobody" /\ wa' = [wa EXCEPT ![m].by = "us"]
           /\ task'[t].shown = task[t].shown /\ task'[t].status \in {task[t].status, "READ"}
           /\ \/ task'[t].pc = "create" /\ task'[t].m = m
              \/ task'[t].pc = "failed" /\ task'[t].m = task[t].m
<1>1. Min(Unwritten) \in Message /\ wa[Min(Unwritten)].by = "nobody"
  BY MinIsIn, InboxAssumption DEF SendReaches, Unwritten
<1>2. PICK m \in Message :
        /\ m = Min(Unwritten) /\ wa[m].by = "nobody" /\ wa' = [wa EXCEPT ![m].by = "us"]
        /\ Become(t, [task[t] EXCEPT !.m = m, !.pc = "create"]) \/ End(t, "failed")
  BY <1>1 DEF SendReaches
<1>3. At(t, "send") /\ UNCHANGED <<chat, message, heard, raced>>
  BY DEF SendReaches
<1>4. CASE Become(t, [task[t] EXCEPT !.m = m, !.pc = "create"])
  <2>1. Others(t) /\ task'[t] = [task[t] EXCEPT !.m = m, !.pc = "create"] /\ task[t] \in Requests
    BY <1>4, BecomeEffect DEF Typed
  <2> QED  BY <1>2, <1>3, <2>1 DEF Same, Requests
<1>5. CASE End(t, "failed")
  BY <1>2, <1>3, <1>5, EndEffect DEF At, Ended
<1> QED  BY <1>2, <1>4, <1>5

LEMMA CreateEffect ==
  ASSUME Typed, NEW t \in Task, CreateRow(t), task[t].m \in Message
  PROVE  /\ At(t, "create") /\ UNCHANGED <<chat, wa, raced>> /\ Others(t) /\ Same(t)
         /\ task'[t].pc \in {"done", "failed"} /\ task'[t].m = task[t].m
         /\ task'[t].shown = task[t].shown /\ task'[t].status = "READ"
         /\ \/ /\ task[t].m \notin Rows /\ task[t].c \in Chats
               /\ message' = [message EXCEPT ![task[t].m] =
                                [chat |-> task[t].c, sender |-> "BOT", status |-> "SENT"]]
               /\ heard' = [heard EXCEPT ![task[t].m] = 1]
            \/ (task[t].m \in Rows \/ task[t].c \notin Chats) /\ UNCHANGED <<message, heard>>
<1>1. /\ At(t, "create") /\ UNCHANGED <<chat, wa, raced>>
      /\ message' = Insertion(task[t].m, task[t].c, "BOT", "SENT")
      /\ heard' = IF message' # message THEN [heard EXCEPT ![task[t].m] = 1] ELSE heard
      /\ End(t, "done") \/ End(t, "failed")
  BY DEF CreateRow, Rank
<1>2. /\ Others(t) /\ Same(t)
      /\ task'[t].pc \in {"done", "failed"} /\ task'[t].m = task[t].m
      /\ task'[t].shown = task[t].shown /\ task'[t].status = "READ"
  BY <1>1, EndEffect DEF At, Ended
<1>3. CASE task[t].m \notin Rows /\ task[t].c \in Chats
  <2>1. message' = [message EXCEPT ![task[t].m] =
                      [chat |-> task[t].c, sender |-> "BOT", status |-> "SENT"]]
    BY <1>1, <1>3 DEF Insertion
  <2>2. message'[task[t].m] # NoRow /\ message[task[t].m] = NoRow
    BY <1>3, <2>1, InboxAssumption DEF Typed, Rows, Chats
  <2> QED  BY <1>1, <1>2, <1>3, <2>1, <2>2
<1> QED  BY <1>1, <1>2, <1>3 DEF Insertion

LEMMA EchoEffect ==
  ASSUME Typed, NEW t \in Task, EchoEnters(t) \/ EchoFinds(t) \/ EchoDrops(t) \/ EchoOpens(t)
  PROVE  /\ task[t].pc \in {"lock", "find", "open"} /\ UNCHANGED <<message, wa, heard, raced>>
         /\ Others(t) /\ task'[t].op = task[t].op
         /\ task'[t].m = task[t].m /\ task'[t].shown = task[t].shown
         /\ task'[t].status \in {task[t].status, "READ"}
         /\ \/ task'[t].pc \in {"find", "open"} /\ UNCHANGED chat
            \/ task'[t].pc = "create" /\ task'[t].c \in Chats /\ UNCHANGED chat
            \/ /\ task'[t].pc = "create" /\ task'[t].c \in Chat
               /\ chat' = [chat EXCEPT ![task'[t].c] = OpenedChat(FALSE)]
            \/ task'[t].pc = "done" /\ task[t].m \in Rows /\ UNCHANGED chat
            \/ task'[t].pc = "dropped" /\ UNCHANGED chat
<1>1. task[t] \in Requests
  BY DEF Typed
<1>2. CASE EchoEnters(t)
  <2>1. At(t, "lock") /\ UNCHANGED Tables
    BY <1>2 DEF EchoEnters, Tables
  <2>2. CASE task[t].m \in Rows /\ End(t, "done")
    BY <2>1, <2>2, EndEffect DEF At, Ended, Same, Tables
  <2>3. CASE GoTo(t, "find")
    <3>1. Others(t) /\ task'[t] = [task[t] EXCEPT !.pc = "find"]
      BY <2>3, BecomeEffect DEF GoTo
    <3> QED  BY <1>1, <2>1, <3>1 DEF Requests, At, Tables
  <2> QED  BY <1>2, <2>2, <2>3 DEF EchoEnters
<1>3. CASE EchoFinds(t)
  <2>1. At(t, "find") /\ UNCHANGED Tables
    BY <1>3 DEF EchoFinds, Tables
  <2>2. CASE GoTo(t, "open")
    <3>1. Others(t) /\ task'[t] = [task[t] EXCEPT !.pc = "open"]
      BY <2>2, BecomeEffect DEF GoTo
    <3> QED  BY <1>1, <2>1, <3>1 DEF Requests, At, Tables
  <2>3. ASSUME NEW c \in Chats, Become(t, [task[t] EXCEPT !.c = c, !.pc = "create"])
        PROVE  /\ Others(t) /\ task'[t].op = task[t].op
               /\ task'[t].m = task[t].m /\ task'[t].shown = task[t].shown
               /\ task'[t].status = task[t].status /\ task'[t].pc = "create" /\ task'[t].c \in Chats
    <3>1. Others(t) /\ task'[t] = [task[t] EXCEPT !.c = c, !.pc = "create"]
      BY <2>3, BecomeEffect
    <3> QED  BY <1>1, <3>1 DEF Requests
  <2> QED  BY <1>3, <2>1, <2>2, <2>3 DEF EchoFinds, OpenChats, At, Tables
<1>4. CASE EchoOpens(t)
  <2>1. PICK c \in Chat : /\ Become(t, [task[t] EXCEPT !.c = c, !.pc = "create"])
                          /\ chat' = [chat EXCEPT ![c] = OpenedChat(FALSE)]
    BY <1>4, MinIsIn, InboxAssumption DEF EchoOpens, Unopened
  <2>2. Others(t) /\ task'[t] = [task[t] EXCEPT !.c = c, !.pc = "create"]
    BY <2>1, BecomeEffect
  <2> QED  BY <1>1, <1>4, <2>1, <2>2 DEF Requests, EchoOpens, At
<1>5. CASE EchoDrops(t)
  <2>1. At(t, "find") /\ End(t, "dropped") /\ UNCHANGED Tables
    BY <1>5 DEF EchoDrops, Tables
  <2> QED  BY <2>1, EndEffect DEF At, Ended, Same, Tables
<1> QED  BY <1>2, <1>3, <1>4, <1>5

LEMMA FindEffect ==
  ASSUME Typed, NEW t \in Task, FindIds(t)
  PROVE  /\ At(t, "ids") /\ UNCHANGED Tables /\ Others(t) /\ Same(t)
         /\ task'[t].m = task[t].m /\ task'[t].status \in {task[t].status, "READ"}
         /\ \/ task'[t].pc = "done" /\ task'[t].shown = task[t].shown /\ task'[t].ids = {}
            \/ /\ task'[t].pc = "deleteRows" /\ task'[t].ids = Chats
               /\ task'[t].shown = {m \in Rows : message[m].chat \in Chats}
<1>1. At(t, "ids") /\ UNCHANGED Tables /\ task[t] \in Requests
  BY DEF FindIds, Tables, Typed
<1>2. CASE End(t, "done") /\ task[t].c \notin Chats
  BY <1>1, <1>2, EndEffect DEF At, Ended
<1>3. CASE Become(t, [task[t] EXCEPT !.ids = Chats, !.pc = "deleteRows",
                                     !.shown = {m \in Rows : message[m].chat \in Chats}])
  <2>1. Others(t) /\ task'[t] = [task[t] EXCEPT !.ids = Chats, !.pc = "deleteRows",
                                     !.shown = {m \in Rows : message[m].chat \in Chats}]
    BY <1>3, BecomeEffect
  <2> QED  BY <1>1, <2>1 DEF Same, Requests
<1>4. \/ End(t, "done") /\ task[t].c \notin Chats
      \/ Become(t, [task[t] EXCEPT !.ids = Chats, !.pc = "deleteRows",
                                   !.shown = {m \in Rows : message[m].chat \in Chats}])
  BY <1>1 DEF FindIds, SameLead, Page, IdsByLeadAndFlow, Requests
<1> QED  BY <1>2, <1>3, <1>4

LEMMA DeleteRowsEffect ==
  ASSUME Typed, NEW t \in Task, DeleteRows(t)
  PROVE  /\ At(t, "deleteRows") /\ UNCHANGED Tables /\ Others(t) /\ Same(t)
         /\ task'[t].pc = "deleteChats" /\ task'[t].m = task[t].m
         /\ task'[t].status = task[t].status /\ task'[t].ids = task[t].ids
         /\ task'[t].shown = task[t].shown
<1>1. PICK todo : Become(t, [task[t] EXCEPT !.todo = todo, !.pc = "deleteChats"])
  BY DEF DeleteRows
<1>2. Others(t) /\ task'[t] = [task[t] EXCEPT !.todo = todo, !.pc = "deleteChats"]
  BY <1>1, BecomeEffect
<1> QED  BY <1>2 DEF DeleteRows, Tables, Same, Requests, Typed

LEMMA DeleteChatsEffect ==
  ASSUME Typed, NEW t \in Task, DeleteChats(t)
  PROVE  /\ At(t, "deleteChats") /\ UNCHANGED <<wa, heard, raced>> /\ Others(t) /\ Same(t)
         /\ task'[t].m = task[t].m /\ task'[t].shown = task[t].shown /\ task'[t].status = "READ"
         /\ \/ task'[t].pc = "failed" /\ UNCHANGED <<chat, message>>
            \/ /\ task'[t].pc = "done" /\ task'[t].ids = {}
               /\ message' = [m \in Message |-> IF m \in task[t].todo THEN NoRow ELSE message[m]]
               /\ \A m \in Rows \ task[t].todo : message[m].chat \notin task[t].ids
<1>1. At(t, "deleteChats") /\ UNCHANGED <<wa, heard, raced>>
  BY DEF DeleteChats
<1>2. CASE End(t, "failed") /\ UNCHANGED <<chat, message>>
  BY <1>1, <1>2, EndEffect DEF At, Ended
<1>3. CASE /\ End(t, "done")
           /\ message' = [m \in Message |-> IF m \in task[t].todo THEN NoRow ELSE message[m]]
           /\ \A m \in Rows \ task[t].todo : message[m].chat \notin task[t].ids
  BY <1>1, <1>3, EndEffect DEF At, Ended
<1> QED  BY <1>2, <1>3 DEF DeleteChats

LEMMA LeadEffect ==
  ASSUME Typed, LeadWrites
  PROVE  \E m \in Message :
           /\ wa[m].by = "nobody" /\ wa' = [wa EXCEPT ![m].by = "lead"]
           /\ heard' = [heard EXCEPT ![m] = 2] /\ UNCHANGED <<task, raced>>
           /\ \A c \in Chat : chat[c].is # "gone" => chat'[c].is # "gone"
           /\ \A c \in Chats : chat'[c].is = "live"
           /\ \/ m \in Rows /\ UNCHANGED message
              \/ \E c \in Chat :
                   message' = [message EXCEPT ![m] =
                                 [chat |-> c, sender |-> "LEAD", status |-> "DELIVERED"]]
<1>1. Min(Unwritten) \in Message /\ wa[Min(Unwritten)].by = "nobody"
  BY MinIsIn, InboxAssumption DEF LeadWrites, Unwritten
<1>2. PICK m \in Message :
        /\ wa[m].by = "nobody" /\ wa' = [wa EXCEPT ![m].by = "lead"]
        /\ heard' = [heard EXCEPT ![m] = 2] /\ UNCHANGED <<task, raced>>
        /\ \/ /\ \E c \in Chats : message' = Insertion(m, c, "LEAD", "DELIVERED")
              /\ UNCHANGED chat
           \/ /\ Unopened # {}
              /\ \E auto \in BOOLEAN : chat' = [chat EXCEPT ![Min(Unopened)] = OpenedChat(auto)]
              /\ message' = [message EXCEPT ![m] =
                   [chat |-> Min(Unopened), sender |-> "LEAD", status |-> "DELIVERED"]]
  BY <1>1 DEF LeadWrites, OpenChats, Rank
<1>3. ASSUME NEW c \in Chats, message' = Insertion(m, c, "LEAD", "DELIVERED"), UNCHANGED chat
      PROVE  /\ \A x \in Chat : chat[x].is # "gone" => chat'[x].is # "gone"
             /\ \A x \in Chats : chat'[x].is = "live"
             /\ \/ m \in Rows /\ UNCHANGED message
                \/ \E x \in Chat :
                     message' = [message EXCEPT ![m] =
                                   [chat |-> x, sender |-> "LEAD", status |-> "DELIVERED"]]
  BY <1>3 DEF Insertion, Chats
<1>4. ASSUME Unopened # {}, NEW auto \in BOOLEAN,
             chat' = [chat EXCEPT ![Min(Unopened)] = OpenedChat(auto)]
      PROVE  /\ Min(Unopened) \in Chat
             /\ \A x \in Chat : chat[x].is # "gone" => chat'[x].is # "gone"
             /\ \A x \in Chats : chat'[x].is = "live"
  <2>1. Min(Unopened) \in Chat
    BY <1>4, MinIsIn, InboxAssumption DEF Unopened
  <2> QED  BY <1>4, <2>1 DEF Typed, OpenedChat, Chats
<1> QED  BY <1>2, <1>3, <1>4

LEMMA CrashEffect ==
  ASSUME Typed, ProcessCrashes
  PROVE  /\ UNCHANGED Tables
         /\ \A t \in Task :
              \/ task'[t] = task[t]
              \/ /\ task'[t].op = task[t].op /\ task'[t].pc = "crashed"
                 /\ task[t].pc \notin {"new", "done", "failed", "dropped", "crashed"}
                 /\ task'[t].shown = {} /\ task'[t].status = "READ"
BY DEF ProcessCrashes, Tables, InFlightTasks, NoTask

----------------------------------------------------------------------------
(* The invariants are kept *)

\* Whose a message is never changes.
Lasting == \A m \in Message : wa[m].by # "nobody" => wa'[m].by = wa[m].by

LEMMA SideOthers ==
  ASSUME Typed, SideInv, Lasting, NEW t, Others(t), SideRows', SideTask(t)'
  PROVE  SideInv'
<1>1. ASSUME NEW u \in Task, task'[u] = task[u]
      PROVE  SideTask(u)'
  <2>1. SideTask(u) /\ task[u].todo \subseteq Message
    BY DEF SideInv, Typed, Requests
  <2> QED  BY <1>1, <2>1 DEF SideTask, At, Lasting
<1> QED  BY <1>1 DEF SideInv, Others

LEMMA SideKept ==
  ASSUME SideInv, UNCHANGED <<wa, message>>
  PROVE  SideRows' /\ Lasting
BY DEF SideInv, SideRows, Lasting, Rows

LEMMA SideStep ==
  ASSUME Typed, Typed', SideInv, InboxNext
  PROVE  SideInv'
<1>1. ASSUME NEW r, StartTask(r), r.pc \notin {"read", "write"}, UNCHANGED wa,
             r.op = "MarkAsRead" => r.status = "READ",
             r.pc = "lock" => r.m \in Message /\ wa[r.m].by = "us",
             r.pc \notin {"find", "open", "create"}
      PROVE  SideInv'
  <2>1. PICK t \in Task : Others(t) /\ task'[t] = r /\ UNCHANGED message
    BY <1>1, BeginEffect
  <2>2. SideTask(t)'
    BY <1>1, <2>1 DEF SideTask, At
  <2> QED  BY <1>1, <2>1, <2>2, SideOthers, SideKept
<1>2. CASE Receipt
  <2>1. PICK m \in Message, s \in Word :
          /\ wa[m].by # "nobody" /\ (wa[m].by = "lead" => s = "READ")
          /\ wa' = [wa EXCEPT ![m].told = Rank(s)]
          /\ StartTask([NoTask EXCEPT !.op = "Receipt", !.pc = "read", !.status = s, !.todo = {m}])
    BY <1>2 DEF Receipt, Word
  <2>2. PICK t \in Task :
          /\ Others(t) /\ UNCHANGED message
          /\ task'[t] = [NoTask EXCEPT !.op = "Receipt", !.pc = "read", !.status = s, !.todo = {m}]
    BY <2>1, BeginEffect
  <2>3. \A x \in Message : wa'[x].by = wa[x].by
    BY <2>1 DEF Typed, Sent
  <2>4. wa[m].by = "us" \/ (wa[m].by = "lead" /\ s = "READ")
    BY <2>1 DEF Typed, Sent
  <2>5. /\ task'[t].op = "Receipt" /\ task'[t].pc = "read"
        /\ task'[t].status = s /\ task'[t].todo = {m}
    BY <2>2 DEF NoTask
  <2>6. SideTask(t)'
    BY <2>1, <2>3, <2>4, <2>5 DEF SideTask, At
  <2>7. SideRows' /\ Lasting
    BY <2>2, <2>3 DEF SideInv, SideRows, Rows, Lasting
  <2> QED  BY <2>2, <2>6, <2>7, SideOthers
<1>3. CASE MarkAsRead
  BY <1>1, <1>3 DEF MarkAsRead, NoTask
<1>4. CASE Send
  BY <1>1, <1>4 DEF Send, NoTask
<1>5. CASE Echo
  BY <1>1, <1>5 DEF Echo, NoTask
<1>6. CASE Delete
  BY <1>1, <1>6 DEF Delete, NoTask
<1>7. CASE LeadWrites
  <2>1. PICK m \in Message :
          /\ wa[m].by = "nobody" /\ wa' = [wa EXCEPT ![m].by = "lead"] /\ UNCHANGED task
          /\ \/ UNCHANGED message
             \/ \E c \in Chat :
                  message' = [message EXCEPT ![m] =
                                [chat |-> c, sender |-> "LEAD", status |-> "DELIVERED"]]
    BY <1>7, LeadEffect
  <2>2. Lasting
    BY <2>1 DEF Lasting, Typed
  <2>3. wa'[m].by = "lead" /\ m \notin Rows
    BY <2>1 DEF Typed, Sent, SideInv, SideRows
  <2>4. SideRows'
    BY <2>1, <2>2, <2>3 DEF SideInv, SideRows, Rows, Lasting, Typed
  <2>5. ASSUME NEW u \in Task
        PROVE  SideTask(u)'
    <3>1. SideTask(u) /\ task[u].todo \subseteq Message /\ task'[u] = task[u]
      BY <2>1 DEF SideInv, Typed, Requests
    <3> QED  BY <2>2, <3>1 DEF SideTask, At, Lasting
  <2> QED  BY <2>4, <2>5 DEF SideInv
<1>8. CASE FlowFinishes
  BY <1>8 DEF FlowFinishes, SideInv, SideRows, SideTask, Rows, At
<1>9. CASE ProcessCrashes
  <2>1. UNCHANGED <<message, wa>>
    BY <1>9, CrashEffect DEF Tables
  <2>2. ASSUME NEW u \in Task
        PROVE  SideTask(u)'
    <3>1. SideTask(u)
      BY DEF SideInv
    <3> QED  BY <1>9, <2>1, <3>1, CrashEffect DEF SideTask, At
  <2> QED  BY <2>1, <2>2, SideKept DEF SideInv
<1>10. ASSUME NEW t \in Task, TaskStep(t)
       PROVE  SideInv'
  <2>1. SideTask(t) /\ task[t].todo \subseteq Message
    BY DEF SideInv, Typed, Requests
  <2>2. CASE ListUnread(t)
    <3>1. /\ At(t, "list") /\ UNCHANGED Tables /\ Others(t) /\ task'[t].op = task[t].op
          /\ task'[t].status = task[t].status
          /\ \A m \in task'[t].todo : m \in Rows /\ message[m].sender = "LEAD"
          /\ task'[t].pc \in {"done", "read"}
      BY <2>2, ListEffect DEF Same
    <3>2. task[t].op = "MarkAsRead"
      BY <3>1, WhoIsAt
    <3>3. \A m \in task'[t].todo : wa'[m].by = "lead"
      BY <3>1 DEF SideInv, SideRows, Tables
    <3>4. SideTask(t)'
      BY <2>1, <3>1, <3>2, <3>3 DEF SideTask, At
    <3> QED  BY <3>1, <3>4, SideOthers, SideKept DEF Tables
  <2>3. CASE ReadStatus(t)
    <3>1. PICK m \in task[t].todo :
            /\ m \in Message /\ At(t, "read") /\ UNCHANGED <<message, wa>> /\ Others(t)
            /\ task'[t].op = task[t].op /\ task'[t].status = task[t].status
            /\ \/ /\ m \in Rows /\ Rank(task[t].status) > Rank(message[m].status)
                  /\ task'[t].pc = "write" /\ task'[t].m = m /\ task'[t].todo = task[t].todo
               \/ task'[t].todo = task[t].todo \ {m} /\ task'[t].pc \in {"read", "done"}
      BY <2>3, ReadEffect DEF Same
    <3>2. /\ m \in Rows => Rank(message[m].status) \in 0 .. 3
          /\ Rank(task[t].status) \in 0 .. 3
      BY <3>1, Ranks DEF Typed, Row, Rows, Requests
    <3>3. SideTask(t)'
      BY <2>1, <3>1, <3>2 DEF SideTask, At
    <3> QED  BY <3>1, <3>3, SideOthers, SideKept
  <2>4. CASE WriteStatus(t)
    <3>1. /\ At(t, "write") /\ UNCHANGED wa /\ Others(t) /\ task'[t].op = task[t].op
          /\ \/ /\ task[t].m \in Rows
                /\ message' = [message EXCEPT ![task[t].m].status = task[t].status]
                /\ task'[t].status = task[t].status
                /\ task'[t].todo = task[t].todo \ {task[t].m} /\ task'[t].pc \in {"done", "read"}
             \/ UNCHANGED message /\ task'[t].pc = "failed" /\ task'[t].status = "READ"
      BY <2>4, WriteEffect DEF Same
    <3>2. SideTask(t)'
      BY <2>1, <3>1 DEF SideTask, At
    <3>3. \A m \in Message : /\ m \in Rows' => m \in Rows
                             /\ m \in Rows => message'[m].sender = message[m].sender
      BY <3>1 DEF Rows, Typed, Row
    <3>4. SideRows' /\ Lasting
      BY <3>1, <3>3 DEF SideInv, SideRows, Rows, Lasting
    <3> QED  BY <3>1, <3>2, <3>4, SideOthers
  <2>5. CASE SendReaches(t)
    <3>1. PICK m \in Message :
            /\ UNCHANGED message /\ Others(t) /\ task'[t].op = task[t].op /\ At(t, "send")
            /\ wa[m].by = "nobody" /\ wa' = [wa EXCEPT ![m].by = "us"]
            /\ \/ task'[t].pc = "create" /\ task'[t].m = m
               \/ task'[t].pc = "failed"
      BY <2>5, SendEffect DEF Same
    <3>2. Lasting /\ wa'[m].by = "us"
      BY <3>1 DEF Lasting, Typed, Sent
    <3>3. SideRows'
      BY <3>1, <3>2 DEF SideInv, SideRows, Rows, Lasting
    <3>4. task[t].op = "Send"
      BY <3>1, WhoIsAt
    <3>5. SideTask(t)'
      BY <3>1, <3>2, <3>4 DEF SideTask, At
    <3> QED  BY <3>1, <3>2, <3>3, <3>5, SideOthers
  <2>6. CASE SendFails(t)
    <3>1. /\ Others(t) /\ task'[t].pc = "failed" /\ task'[t].status = "READ"
          /\ UNCHANGED <<wa, message>>
      BY <2>6, EndEffect DEF SendFails, At, Ended
    <3> QED  BY <3>1, SideOthers, SideKept DEF SideTask, At
  <2>7. CASE CreateRow(t)
    <3> DEFINE m == task[t].m
    <3>1. At(t, "create") /\ m \in Message /\ wa[m].by = "us"
      BY <2>1, <2>7 DEF CreateRow, SideTask, At
    <3>2. /\ UNCHANGED wa /\ Others(t) /\ task'[t].pc \in {"done", "failed"}
          /\ task'[t].status = "READ"
          /\ \/ /\ m \notin Rows
                /\ message' = [message EXCEPT ![m] =
                                 [chat |-> task[t].c, sender |-> "BOT", status |-> "SENT"]]
             \/ UNCHANGED message
      BY <2>7, <3>1, CreateEffect
    <3>3. SideRows' /\ Lasting
      BY <3>1, <3>2 DEF SideInv, SideRows, Rows, Lasting, Typed
    <3> QED  BY <3>2, <3>3, SideOthers DEF SideTask, At
  <2>8. CASE EchoEnters(t) \/ EchoFinds(t) \/ EchoDrops(t) \/ EchoOpens(t)
    <3>1. /\ task[t].pc \in {"lock", "find", "open"} /\ UNCHANGED <<message, wa>>
          /\ Others(t) /\ task'[t].op = task[t].op /\ task'[t].m = task[t].m
          /\ task'[t].pc \in {"find", "open", "create", "done", "dropped"}
      BY <2>8, EchoEffect
    <3>2. task[t].op = "Echo"
      BY <3>1, WhoIsAt DEF At
    <3>3. SideTask(t)'
      BY <2>1, <3>1, <3>2 DEF SideTask, At
    <3> QED  BY <3>1, <3>3, SideOthers, SideKept
  <2>9. CASE FindIds(t)
    <3>1. /\ At(t, "ids") /\ UNCHANGED <<wa, message>> /\ Others(t) /\ task'[t].op = task[t].op
          /\ task'[t].pc \in {"done", "deleteRows"}
      BY <2>9, FindEffect DEF Same, Tables
    <3>2. task[t].op = "Delete"
      BY <3>1, WhoIsAt
    <3> QED  BY <3>1, <3>2, SideOthers, SideKept DEF SideTask, At
  <2>10. CASE DeleteRows(t)
    <3>1. /\ At(t, "deleteRows") /\ UNCHANGED <<wa, message>> /\ Others(t)
          /\ task'[t].op = task[t].op /\ task'[t].pc = "deleteChats"
      BY <2>10, DeleteRowsEffect DEF Same, Tables
    <3>2. task[t].op = "Delete"
      BY <3>1, WhoIsAt
    <3> QED  BY <3>1, <3>2, SideOthers, SideKept DEF SideTask, At
  <2>11. CASE DeleteChats(t)
    <3>1. /\ UNCHANGED wa /\ Others(t) /\ task'[t].pc \in {"failed", "done"}
          /\ task'[t].status = "READ"
          /\ \/ UNCHANGED message
             \/ message' = [m \in Message |-> IF m \in task[t].todo THEN NoRow ELSE message[m]]
      BY <2>11, DeleteChatsEffect
    <3>2. SideRows' /\ Lasting
      BY <3>1 DEF SideInv, SideRows, Rows, Lasting
    <3> QED  BY <3>1, <3>2, SideOthers DEF SideTask, At
  <2> QED  BY <1>10, <2>2, <2>3, <2>4, <2>5, <2>6, <2>7, <2>8, <2>9, <2>10, <2>11 DEF TaskStep
<1> QED
  BY <1>2, <1>3, <1>4, <1>5, <1>6, <1>7, <1>8, <1>9, <1>10 DEF InboxNext

\* What has ended has ended, and a request stays what it is.
LEMMA Settled ==
  ASSUME Typed, InboxNext
  PROVE  \A t \in Task : /\ task[t].pc \in Ended => task'[t] = task[t]
                         /\ task[t].op = "none" \/ task'[t].op = task[t].op
<1>1. ASSUME NEW r, StartTask(r)
      PROVE  \A t \in Task : /\ task[t].pc \in Ended => task'[t] = task[t]
                             /\ task[t].op = "none" \/ task'[t].op = task[t].op
  BY <1>1, BeginEffect DEF Others, At, Ended
<1>2. CASE Receipt \/ MarkAsRead \/ Send \/ Echo \/ Delete
  BY <1>1, <1>2 DEF Receipt, MarkAsRead, Send, Echo, Delete
<1>3. CASE LeadWrites \/ FlowFinishes
  BY <1>3 DEF LeadWrites, FlowFinishes
<1>4. CASE ProcessCrashes
  BY <1>4, CrashEffect DEF Ended
<1>5. ASSUME NEW t \in Task, TaskStep(t)
      PROVE  Others(t) /\ task'[t].op = task[t].op /\ task[t].pc \notin Ended
  <2>1. CASE ListUnread(t) \/ ReadStatus(t) \/ WriteStatus(t) \/ SendReaches(t)
    BY <2>1, ListEffect, ReadEffect, WriteEffect, SendEffect DEF At, Same, Ended
  <2>2. CASE SendFails(t)
    BY <2>2, EndEffect DEF SendFails, At, Same, Ended
  <2>3. CASE CreateRow(t)
    BY <2>3, EndEffect DEF CreateRow, At, Same, Ended
  <2>4. CASE EchoEnters(t) \/ EchoFinds(t) \/ EchoDrops(t) \/ EchoOpens(t)
    BY <2>4, EchoEffect DEF Ended
  <2>5. CASE FindIds(t) \/ DeleteRows(t) \/ DeleteChats(t)
    BY <2>5, FindEffect, DeleteRowsEffect, DeleteChatsEffect DEF At, Same, Ended
  <2> QED  BY <1>5, <2>1, <2>2, <2>3, <2>4, <2>5 DEF TaskStep
<1> QED  BY <1>2, <1>3, <1>4, <1>5 DEF InboxNext, Others

LEMMA Lasts ==
  ASSUME Typed, InboxNext
  PROVE  Lasting
<1>1. CASE Receipt
  BY <1>1 DEF Receipt, Lasting, Typed, Sent
<1>2. CASE MarkAsRead \/ Send \/ Echo \/ Delete \/ FlowFinishes \/ ProcessCrashes
  BY <1>2 DEF MarkAsRead, Send, Echo, Delete, FlowFinishes, ProcessCrashes, Lasting
<1>3. CASE LeadWrites
  BY <1>3, LeadEffect DEF Lasting, Typed
<1>4. ASSUME NEW t \in Task, TaskStep(t)
      PROVE  Lasting
  <2>1. CASE SendReaches(t)
    BY <2>1, SendEffect DEF Lasting, Typed
  <2>2. CASE ListUnread(t) \/ ReadStatus(t) \/ WriteStatus(t) \/ SendFails(t) \/ CreateRow(t)
    BY <2>2 DEF ListUnread, ReadStatus, WriteStatus, SendFails, CreateRow, Lasting
  <2>3. CASE EchoEnters(t) \/ EchoFinds(t) \/ EchoDrops(t) \/ EchoOpens(t)
    BY <2>3 DEF EchoEnters, EchoFinds, EchoDrops, EchoOpens, Lasting
  <2>4. CASE FindIds(t) \/ DeleteRows(t) \/ DeleteChats(t)
    BY <2>4 DEF FindIds, DeleteRows, DeleteChats, Lasting
  <2> QED  BY <1>4, <2>1, <2>2, <2>3, <2>4 DEF TaskStep
<1> QED  BY <1>1, <1>2, <1>3, <1>4 DEF InboxNext

LEMMA BestKept ==
  ASSUME BestInv, UNCHANGED <<message, heard, raced>>, NEW t, Others(t), task'[t].pc # "write"
  PROVE  BestInv'
BY DEF BestInv, Others, Rows, At

LEMMA BestStep ==
  ASSUME Typed, Typed', SideInv, BestInv, InboxNext
  PROVE  BestInv'
<1>1. ASSUME NEW r, StartTask(r), r.pc # "write"
      PROVE  BestInv'
  BY <1>1, BeginEffect, BestKept
<1>2. CASE Receipt \/ MarkAsRead \/ Send \/ Echo \/ Delete
  BY <1>1, <1>2 DEF Receipt, MarkAsRead, Send, Echo, Delete, NoTask
<1>3. CASE LeadWrites
  <2>1. PICK m \in Message :
          /\ wa[m].by = "nobody"
          /\ heard' = [heard EXCEPT ![m] = 2] /\ UNCHANGED <<task, raced>>
          /\ \/ m \in Rows /\ UNCHANGED message
             \/ \E c \in Chat :
                  message' = [message EXCEPT ![m] =
                                [chat |-> c, sender |-> "LEAD", status |-> "DELIVERED"]]
    BY <1>3, LeadEffect
  <2>2. m \notin Rows /\ \A t \in Task : ~(At(t, "write") /\ task[t].m = m)
    BY <2>1 DEF SideInv, SideRows, SideTask
  <2>3. /\ Rank(message'[m].status) = heard'[m]
        /\ \A x \in Message : x # m => message'[x] = message[x] /\ heard'[x] = heard[x]
    BY <2>1, <2>2 DEF Typed, Rank
  <2> QED  BY <2>1, <2>2, <2>3 DEF BestInv, Rows, At
<1>4. CASE FlowFinishes
  BY <1>4 DEF FlowFinishes, BestInv, Rows, At
<1>5. CASE ProcessCrashes
  <2>1. /\ UNCHANGED <<message, heard, raced>>
        /\ \A t \in Task : At(t, "write")' => task'[t] = task[t]
    BY <1>5, CrashEffect DEF Tables, At
  <2> QED  BY <2>1 DEF BestInv, Rows, At
<1>6. ASSUME NEW t \in Task, TaskStep(t)
      PROVE  BestInv'
  <2>1. CASE ListUnread(t)
    BY <2>1, ListEffect, BestKept DEF Tables
  <2>2. CASE ReadStatus(t)
    <3>1. PICK m \in task[t].todo :
            /\ m \in Message /\ At(t, "read") /\ UNCHANGED <<message, heard>>
            /\ raced' = IF \E u \in Task : At(u, "write") /\ task[u].m = m
                        THEN raced \cup {m} ELSE raced
            /\ Others(t) /\ task'[t].status = task[t].status
            /\ \/ /\ m \in Rows /\ Rank(task[t].status) > Rank(message[m].status)
                  /\ task'[t].pc = "write" /\ task'[t].m = m
               \/ task'[t].pc \in {"done", "read"}
      BY <2>2, ReadEffect
    <3>2. /\ \A u \in Task : At(u, "write") /\ task[u].m = m => m \in raced'
          /\ raced \subseteq raced'
      BY <3>1
    <3>3. m \in Rows => /\ Rank(message[m].status) \in 0 .. 3
                        /\ Rank(task[t].status) \in 0 .. 3
      BY <3>1, Ranks DEF Typed, Row, Rows, Requests
    <3>4. ASSUME NEW u \in Task, NEW v \in Task, At(u, "write")', At(v, "write")',
                 task'[u].m = task'[v].m, u # v
          PROVE  task'[u].m \in raced'
      BY <3>1, <3>2, <3>4 DEF BestInv, Others, At
    <3>5. ASSUME NEW x \in Rows \ raced'
          PROVE  /\ Rank(message'[x].status) = heard'[x]
                 /\ \A u \in Task : At(u, "write")' /\ task'[u].m = x =>
                      Rank(task'[u].status) >= heard'[x]
      <4>1. x \in Rows \ raced
        BY <3>2, <3>5
      <4>2. Rank(message[x].status) = heard[x]
        BY <4>1 DEF BestInv
      <4>3. ASSUME NEW u \in Task, At(u, "write")', task'[u].m = x
            PROVE  Rank(task'[u].status) >= heard'[x]
        <5>1. CASE u = t
          BY <3>1, <3>3, <4>1, <4>2, <4>3, <5>1 DEF At
        <5>2. CASE u # t
          BY <3>1, <4>1, <4>3, <5>2 DEF BestInv, Others, At
        <5> QED  BY <5>1, <5>2
      <4> QED  BY <3>1, <4>2, <4>3
    <3> QED  BY <3>1, <3>4, <3>5 DEF BestInv, Rows
  <2>3. CASE WriteStatus(t)
    <3> DEFINE m == task[t].m
    <3>1. /\ At(t, "write") /\ UNCHANGED raced /\ Others(t) /\ task'[t].pc # "write"
          /\ \/ /\ m \in Rows
                /\ message' = [message EXCEPT ![m].status = task[t].status]
                /\ heard' = [heard EXCEPT ![m] = Max({heard[m], Rank(task[t].status)})]
             \/ UNCHANGED <<message, heard>>
      BY <2>3, WriteEffect
    <3>2. CASE UNCHANGED <<message, heard>>
      BY <3>1, <3>2, BestKept
    <3>3. CASE /\ m \in Rows
               /\ message' = [message EXCEPT ![m].status = task[t].status]
               /\ heard' = [heard EXCEPT ![m] = Max({heard[m], Rank(task[t].status)})]
      <4>1. /\ m \in Message /\ task[t].status \in Word /\ heard[m] \in 0 .. 3
            /\ message[m] \in Row
        BY <3>3 DEF Rows, Typed, Requests
      <4>2. Rank(task[t].status) \in 0 .. 3
        BY <4>1, Ranks
      <4>3. m \notin raced => Rank(task[t].status) >= heard[m]
        BY <3>1, <3>3 DEF BestInv
      <4>4. m \notin raced => heard'[m] = Rank(task[t].status)
        <5>1. heard'[m] = Max({heard[m], Rank(task[t].status)})
          BY <3>3, <4>1 DEF Typed
        <5>2. Max({heard[m], Rank(task[t].status)}) =
                IF heard[m] >= Rank(task[t].status) THEN heard[m] ELSE Rank(task[t].status)
          BY <4>1, <4>2, MaxOfTwo
        <5> QED  BY <4>1, <4>2, <4>3, <5>1, <5>2
      <4>5. message'[m].status = task[t].status
        BY <3>3, <4>1 DEF Typed, Row
      <4>6. \A x \in Message : x # m => message'[x] = message[x] /\ heard'[x] = heard[x]
        BY <3>3 DEF Typed
      <4>7. \A u \in Task : At(u, "write")' => u # t /\ task'[u] = task[u] /\ At(u, "write")
        BY <3>1 DEF Others, At
      <4>8. \A u \in Task : At(u, "write")' /\ task'[u].m = m => m \in raced
        BY <3>1, <4>7 DEF BestInv
      <4>9. \A x \in Message : x \in Rows' => x \in Rows
        BY <3>3, <4>6 DEF Rows
      <4>10. ASSUME NEW x \in Message, x \in Rows', x \notin raced
             PROVE  /\ Rank(message'[x].status) = heard'[x]
                    /\ \A u \in Task : At(u, "write")' /\ task'[u].m = x =>
                         Rank(task'[u].status) >= heard'[x]
        <5>1. CASE x = m
          BY <4>4, <4>5, <4>8, <4>10, <5>1
        <5>2. CASE x # m
          BY <4>6, <4>7, <4>9, <4>10, <5>2 DEF BestInv
        <5> QED  BY <5>1, <5>2
      <4>11. \A u, v \in Task : At(u, "write")' /\ At(v, "write")' /\ task'[u].m = task'[v].m =>
               u = v \/ task'[u].m \in raced'
        BY <3>1, <4>7 DEF BestInv
      <4> QED  BY <3>1, <4>10, <4>11 DEF BestInv, Rows
    <3> QED  BY <3>1, <3>2, <3>3
  <2>4. CASE SendReaches(t)
    BY <2>4, SendEffect, BestKept
  <2>5. CASE SendFails(t)
    BY <2>5, EndEffect, BestKept DEF SendFails, At, Ended
  <2>6. CASE CreateRow(t)
    <3> DEFINE m == task[t].m
    <3>1. m \in Message
      BY <2>6 DEF CreateRow, SideInv, SideTask, At
    <3>2. /\ UNCHANGED raced /\ Others(t) /\ task'[t].pc # "write"
          /\ \/ /\ m \notin Rows
                /\ message' = [message EXCEPT ![m] =
                                 [chat |-> task[t].c, sender |-> "BOT", status |-> "SENT"]]
                /\ heard' = [heard EXCEPT ![m] = 1]
             \/ UNCHANGED <<message, heard>>
      BY <2>6, <3>1, CreateEffect
    <3>3. CASE UNCHANGED <<message, heard>>
      BY <3>2, <3>3, BestKept
    <3>4. CASE /\ m \notin Rows
               /\ message' = [message EXCEPT ![m] =
                                 [chat |-> task[t].c, sender |-> "BOT", status |-> "SENT"]]
               /\ heard' = [heard EXCEPT ![m] = 1]
      <4>1. /\ Rank(message'[m].status) = 1 /\ heard'[m] = 1
            /\ \A x \in Message : x # m => message'[x] = message[x] /\ heard'[x] = heard[x]
        BY <3>1, <3>4 DEF Typed, Rank
      <4>2. \A u \in Task : At(u, "write")' => u # t /\ task'[u] = task[u] /\ At(u, "write")
        BY <3>2 DEF Others, At
      <4>3. \A u \in Task : At(u, "write") => Rank(task[u].status) >= 1
        BY DEF SideInv, SideTask
      <4> HIDE DEF m
      <4> QED  BY <3>2, <4>1, <4>2, <4>3 DEF BestInv, Rows
    <3> QED  BY <3>2, <3>3, <3>4
  <2>7. CASE EchoEnters(t) \/ EchoFinds(t) \/ EchoDrops(t) \/ EchoOpens(t)
    BY <2>7, EchoEffect, BestKept
  <2>8. CASE FindIds(t)
    BY <2>8, FindEffect, BestKept DEF Tables
  <2>9. CASE DeleteRows(t)
    BY <2>9, DeleteRowsEffect, BestKept DEF Tables
  <2>10. CASE DeleteChats(t)
    <3>1. /\ UNCHANGED <<heard, raced>> /\ Others(t) /\ task'[t].pc # "write"
          /\ \/ UNCHANGED message
             \/ message' = [m \in Message |-> IF m \in task[t].todo THEN NoRow ELSE message[m]]
      BY <2>10, DeleteChatsEffect
    <3>2. \A u \in Task : At(u, "write")' => u # t /\ task'[u] = task[u] /\ At(u, "write")
      BY <3>1 DEF Others, At
    <3>3. \A x \in Message : x \in Rows' => x \in Rows /\ message'[x] = message[x]
      BY <3>1 DEF Rows
    <3> QED  BY <3>1, <3>2, <3>3 DEF BestInv, Rows
  <2> QED  BY <1>6, <2>1, <2>2, <2>3, <2>4, <2>5, <2>6, <2>7, <2>8, <2>9, <2>10 DEF TaskStep
<1> QED
  BY <1>2, <1>3, <1>4, <1>5, <1>6 DEF InboxNext

\* A message of the lead that is read stays read, and its row does not come back.
ReadStays ==
  \A m \in Message : wa[m].by = "lead" /\ m \in Rows' =>
    m \in Rows /\ (message[m].status = "READ" => message'[m].status = "READ")

LEMMA ReadForGood ==
  ASSUME Typed, SideInv, InboxNext
  PROVE  ReadStays
<1>1. ASSUME UNCHANGED message
      PROVE  ReadStays
  BY <1>1 DEF ReadStays, Rows
<1>2. CASE Receipt \/ MarkAsRead \/ Send \/ Echo \/ Delete
  BY <1>1, <1>2 DEF Receipt, MarkAsRead, Send, Echo, Delete, StartTask
<1>3. CASE LeadWrites
  <2>1. PICK m \in Message :
          /\ wa[m].by = "nobody"
          /\ \/ UNCHANGED message
             \/ \E c \in Chat :
                  message' = [message EXCEPT ![m] =
                                [chat |-> c, sender |-> "LEAD", status |-> "DELIVERED"]]
    BY <1>3, LeadEffect
  <2> QED  BY <1>1, <2>1 DEF ReadStays, Rows, Typed
<1>4. CASE FlowFinishes \/ ProcessCrashes
  BY <1>1, <1>4 DEF FlowFinishes, ProcessCrashes
<1>5. ASSUME NEW t \in Task, TaskStep(t)
      PROVE  ReadStays
  <2>1. SideTask(t)
    BY DEF SideInv
  <2>2. CASE WriteStatus(t)
    <3> DEFINE m == task[t].m
    <3>1. /\ At(t, "write")
          /\ \/ m \in Rows /\ message' = [message EXCEPT ![m].status = task[t].status]
             \/ UNCHANGED message
      BY <2>2, WriteEffect
    <3>2. wa[m].by = "lead" => task[t].status = "READ"
      BY <2>1, <3>1 DEF SideTask
    <3> QED  BY <1>1, <3>1, <3>2 DEF ReadStays, Rows, Typed, Row
  <2>3. CASE CreateRow(t)
    <3> DEFINE m == task[t].m
    <3>1. m \in Message /\ wa[m].by = "us"
      BY <2>1, <2>3 DEF CreateRow, SideTask, At
    <3>2. \/ message' = [message EXCEPT ![m] =
                           [chat |-> task[t].c, sender |-> "BOT", status |-> "SENT"]]
          \/ UNCHANGED message
      BY <2>3, <3>1, CreateEffect
    <3> QED  BY <1>1, <3>1, <3>2 DEF ReadStays, Rows, Typed
  <2>4. CASE DeleteChats(t)
    <3>1. \/ UNCHANGED message
          \/ message' = [m \in Message |-> IF m \in task[t].todo THEN NoRow ELSE message[m]]
      BY <2>4, DeleteChatsEffect
    <3> QED  BY <1>1, <3>1 DEF ReadStays, Rows
  <2>5. CASE ListUnread(t) \/ ReadStatus(t) \/ SendReaches(t) \/ SendFails(t)
    BY <1>1, <2>5 DEF ListUnread, ReadStatus, SendReaches, SendFails
  <2>6. CASE EchoEnters(t) \/ EchoFinds(t) \/ EchoDrops(t) \/ EchoOpens(t)
    BY <1>1, <2>6 DEF EchoEnters, EchoFinds, EchoDrops, EchoOpens
  <2>7. CASE FindIds(t) \/ DeleteRows(t)
    BY <1>1, <2>7 DEF FindIds, DeleteRows
  <2> QED  BY <1>5, <2>2, <2>3, <2>4, <2>5, <2>6, <2>7 DEF TaskStep
<1> QED  BY <1>2, <1>3, <1>4, <1>5 DEF InboxNext

LEMMA BadgeOthers ==
  ASSUME Typed, BadgeInv, Lasting, ReadStays, NEW t, Others(t), BadgeOf(t)'
  PROVE  BadgeInv'
<1>1. ASSUME NEW u \in Task, task'[u] = task[u]
      PROVE  BadgeOf(u)'
  <2>1. BadgeOf(u) /\ task[u].shown \subseteq Message
    BY DEF BadgeInv, Typed, Requests
  <2> QED  BY <1>1, <2>1 DEF BadgeOf, At, Lasting, ReadStays
<1> QED  BY <1>1 DEF BadgeInv, Others

LEMMA BadgeStep ==
  ASSUME Typed, Typed', SideInv, BadgeInv, InboxNext
  PROVE  BadgeInv'
<1>1. Lasting /\ ReadStays
  BY Lasts, ReadForGood
<1>2. ASSUME NEW r, StartTask(r), r.pc \notin {"read", "write", "done"} \/ r.op # "MarkAsRead"
      PROVE  BadgeInv'
  <2>1. PICK t \in Task : Others(t) /\ task'[t] = r
    BY <1>2, BeginEffect
  <2>2. BadgeOf(t)'
    BY <1>2, <2>1 DEF BadgeOf, At
  <2> QED  BY <1>1, <2>1, <2>2, BadgeOthers
<1>3. CASE Receipt \/ MarkAsRead \/ Send \/ Echo \/ Delete
  BY <1>2, <1>3 DEF Receipt, MarkAsRead, Send, Echo, Delete, NoTask
<1>4. CASE LeadWrites \/ FlowFinishes
  <2>1. UNCHANGED task
    BY <1>4 DEF LeadWrites, FlowFinishes
  <2>2. ASSUME NEW t \in Task
        PROVE  BadgeOf(t)'
    <3>1. BadgeOf(t) /\ task[t].shown \subseteq Message
      BY DEF BadgeInv, Typed, Requests
    <3> QED  BY <1>1, <2>1, <3>1 DEF BadgeOf, At, Lasting, ReadStays
  <2> QED  BY <2>2 DEF BadgeInv
<1>5. CASE ProcessCrashes
  <2>1. UNCHANGED <<message, wa>>
    BY <1>5, CrashEffect DEF Tables
  <2>2. ASSUME NEW t \in Task
        PROVE  BadgeOf(t)'
    <3>1. BadgeOf(t)
      BY DEF BadgeInv
    <3> QED  BY <1>5, <2>1, <3>1, CrashEffect DEF BadgeOf, At, Rows
  <2> QED  BY <2>2 DEF BadgeInv
<1>6. ASSUME NEW t \in Task, TaskStep(t)
      PROVE  BadgeInv'
  <2>1. BadgeOf(t) /\ task[t].shown \subseteq Message
    BY DEF BadgeInv, Typed, Requests
  <2>2. CASE ListUnread(t)
    <3>1. /\ UNCHANGED Tables /\ Others(t)
          /\ task'[t].shown = {m \in Rows : message[m].chat = task[t].c /\ message[m].sender = "LEAD"}
          /\ task'[t].todo = {m \in task'[t].shown : message[m].status # "READ"}
          /\ task'[t].pc = IF task'[t].todo = {} THEN "done" ELSE "read"
      BY <2>2, ListEffect
    <3>2. \A m \in task'[t].shown : wa'[m].by = "lead"
      BY <3>1 DEF SideInv, SideRows, Tables
    <3>3. \A m \in task'[t].shown : m \in Rows' \ task'[t].todo => message'[m].status = "READ"
      BY <3>1 DEF Tables, Rows
    <3>4. BadgeOf(t)'
      BY <3>1, <3>2, <3>3 DEF BadgeOf, At
    <3> QED  BY <1>1, <3>1, <3>4, BadgeOthers
  <2>3. CASE ReadStatus(t)
    <3>1. PICK m \in task[t].todo :
            /\ m \in Message /\ At(t, "read") /\ UNCHANGED <<message, wa>> /\ Others(t) /\ Same(t)
            /\ task'[t].shown = task[t].shown
            /\ \/ task'[t].pc = "write" /\ task'[t].todo = task[t].todo
               \/ /\ m \in Rows => ~(Rank(task[t].status) > Rank(message[m].status))
                  /\ task'[t].todo = task[t].todo \ {m}
                  /\ task'[t].pc = IF task'[t].todo = {} THEN "done" ELSE "read"
      BY <2>3, ReadEffect
    <3>2. ASSUME task[t].op = "MarkAsRead", m \in Rows,
                 ~(Rank(task[t].status) > Rank(message[m].status))
          PROVE  message[m].status = "READ"
      <4>1. Rank(task[t].status) = 3
        BY <3>2 DEF SideInv, SideTask, Rank
      <4>2. message[m].status \in Word
        BY <3>1, <3>2 DEF Rows, Typed, Row
      <4>3. Rank(message[m].status) \in 0 .. 3 /\ Rank(message[m].status) >= 3
        BY <3>2, <4>1, <4>2, Ranks
      <4> QED  BY <4>2, <4>3, Ranks
    <3>3. BadgeOf(t)'
      BY <2>1, <3>1, <3>2 DEF BadgeOf, At, Same, Rows
    <3> QED  BY <1>1, <3>1, <3>3, BadgeOthers
  <2>4. CASE WriteStatus(t)
    <3> DEFINE m == task[t].m
    <3>1. /\ At(t, "write") /\ UNCHANGED wa /\ Others(t) /\ Same(t)
          /\ task'[t].shown = task[t].shown
          /\ \/ /\ m \in Rows
                /\ message' = [message EXCEPT ![m].status = task[t].status]
                /\ task'[t].todo = task[t].todo \ {m}
                /\ task'[t].pc = IF task'[t].todo = {} THEN "done" ELSE "read"
             \/ task'[t].pc = "failed"
      BY <2>4, WriteEffect
    <3>2. CASE task'[t].pc = "failed"
      BY <1>1, <3>1, <3>2, BadgeOthers DEF BadgeOf, At
    <3>3. CASE /\ m \in Rows
               /\ message' = [message EXCEPT ![m].status = task[t].status]
               /\ task'[t].todo = task[t].todo \ {m}
               /\ task'[t].pc = IF task'[t].todo = {} THEN "done" ELSE "read"
      <4>1. task[t].op = "MarkAsRead" => task[t].status = "READ"
        BY DEF SideInv, SideTask
      <4>2. /\ message'[m].status = task[t].status
            /\ \A x \in Message : x # m => message'[x] = message[x]
        BY <3>3 DEF Typed, Row, Rows
      <4>3. \A x \in Message : x \in Rows' => x \in Rows
        BY <3>3, <4>2 DEF Rows
      <4>4. BadgeOf(t)'
        BY <2>1, <3>1, <3>3, <4>1, <4>2, <4>3 DEF BadgeOf, At, Same
      <4> QED  BY <1>1, <3>1, <4>4, BadgeOthers
    <3> QED  BY <3>1, <3>2, <3>3
  <2>5. ASSUME Others(t), task'[t].op = task[t].op, task[t].op # "MarkAsRead"
        PROVE  BadgeInv'
    BY <1>1, <2>5, BadgeOthers DEF BadgeOf
  <2>6. CASE SendReaches(t)
    BY <2>5, <2>6, SendEffect, WhoIsAt DEF Same
  <2>7. CASE SendFails(t)
    BY <2>5, <2>7, EndEffect, WhoIsAt DEF SendFails, At, Ended, Same
  <2>8. CASE CreateRow(t)
    <3>1. At(t, "create") /\ Others(t) /\ Same(t)
      BY <2>8, EndEffect DEF CreateRow, At, Ended
    <3>2. task[t].op \in {"Send", "Echo"}
      BY <3>1, WhoIsAt
    <3> QED  BY <2>5, <3>1, <3>2 DEF Same
  <2>9. CASE EchoEnters(t) \/ EchoFinds(t) \/ EchoDrops(t) \/ EchoOpens(t)
    <3>1. task[t].pc \in {"lock", "find", "open"} /\ Others(t) /\ task'[t].op = task[t].op
      BY <2>9, EchoEffect
    <3>2. task[t].op = "Echo"
      BY <3>1, WhoIsAt DEF At
    <3> QED  BY <2>5, <3>1, <3>2
  <2>10. CASE FindIds(t)
    BY <2>5, <2>10, FindEffect, WhoIsAt DEF Same
  <2>11. CASE DeleteRows(t)
    BY <2>5, <2>11, DeleteRowsEffect, WhoIsAt DEF Same
  <2>12. CASE DeleteChats(t)
    BY <2>5, <2>12, DeleteChatsEffect, WhoIsAt DEF Same
  <2> QED  BY <1>6, <2>2, <2>3, <2>4, <2>6, <2>7, <2>8, <2>9, <2>10, <2>11, <2>12 DEF TaskStep
<1> QED
  BY <1>3, <1>4, <1>5, <1>6 DEF InboxNext

\* Who is about to insert a row, or has looked at what a deletion deletes, was there
\* before, or has just come.
LEMMA Arrivals ==
  ASSUME Typed, InboxNext, NEW u \in Task
  PROVE  \/ task'[u] = task[u]
         \/ /\ task'[u].pc = "ids" => task'[u].shown = {}
            /\ Recording(u)' => SendReaches(u)
            /\ Looked(u)' => FindIds(u) \/ DeleteRows(u) \/ DeleteChats(u)
            /\ Looked(u)' /\ task'[u].pc = "done" => task'[u].ids = {}
            /\ task'[u].op = "Echo" /\ task'[u].pc = "create" =>
                 UNCHANGED message /\ task'[u].c \in Chats'
            /\ task'[u].op = "Echo" /\ task'[u].pc \in {"done", "failed"} =>
                 \/ UNCHANGED message /\ task'[u].m = task[u].m /\ task[u].m \in Rows
                 \/ CreateRow(u)
<1> USE DEF Recording, Looked, At
<1>1. ASSUME NEW r, StartTask(r), r.shown = {},
             r.pc \notin {"create", "deleteRows", "deleteChats", "done", "failed"}
      PROVE  \/ task'[u] = task[u]
             \/ /\ task'[u].pc \notin {"create", "deleteRows", "deleteChats", "done", "failed"}
                /\ task'[u].shown = {}
  BY <1>1, BeginEffect DEF Others
<1>2. CASE Receipt \/ MarkAsRead \/ Send \/ Echo \/ Delete
  BY <1>1, <1>2 DEF Receipt, MarkAsRead, Send, Echo, Delete, NoTask
<1>3. CASE LeadWrites \/ FlowFinishes
  BY <1>3 DEF LeadWrites, FlowFinishes
<1>4. CASE ProcessCrashes
  BY <1>4, CrashEffect
<1>5. ASSUME NEW t \in Task, TaskStep(t), u # t
      PROVE  task'[u] = task[u]
  <2>1. CASE ListUnread(t) \/ ReadStatus(t) \/ WriteStatus(t) \/ SendReaches(t)
    BY <1>5, <2>1, ListEffect, ReadEffect, WriteEffect, SendEffect DEF Others
  <2>2. CASE SendFails(t)
    BY <1>5, <2>2, EndEffect DEF SendFails, Others, Ended
  <2>3. CASE CreateRow(t)
    BY <1>5, <2>3, EndEffect DEF CreateRow, Others, Ended
  <2>4. CASE EchoEnters(t) \/ EchoFinds(t) \/ EchoDrops(t) \/ EchoOpens(t)
    BY <1>5, <2>4, EchoEffect DEF Others
  <2>5. CASE FindIds(t) \/ DeleteRows(t) \/ DeleteChats(t)
    BY <1>5, <2>5, FindEffect, DeleteRowsEffect, DeleteChatsEffect DEF Others
  <2> QED  BY <1>5, <2>1, <2>2, <2>3, <2>4, <2>5 DEF TaskStep
<1>6. CASE TaskStep(u)
  <2>1. CASE ListUnread(u)
    BY <2>1, ListEffect, WhoIsAt DEF Same
  <2>2. CASE ReadStatus(u)
    BY <2>2, ReadEffect, WhoIsAt DEF Same
  <2>3. CASE WriteStatus(u)
    BY <2>3, WriteEffect, WhoIsAt DEF Same
  <2>4. CASE SendReaches(u)
    BY <2>4, SendEffect, WhoIsAt DEF Same
  <2>5. CASE SendFails(u)
    BY <2>5, EndEffect, WhoIsAt DEF SendFails, Same, Ended
  <2>6. CASE CreateRow(u)
    <3>1. At(u, "create") /\ Same(u) /\ task'[u].pc \in {"done", "failed"}
      BY <2>6, EndEffect DEF CreateRow, Ended
    <3>2. task[u].op \in {"Send", "Echo"}
      BY <3>1, WhoIsAt
    <3> QED  BY <2>6, <3>1, <3>2 DEF Same
  <2>7. CASE EchoEnters(u) \/ EchoFinds(u) \/ EchoDrops(u) \/ EchoOpens(u)
    <3>1. /\ task[u].pc \in {"lock", "find", "open"} /\ UNCHANGED message
          /\ task'[u].op = task[u].op /\ task'[u].m = task[u].m
          /\ \/ task'[u].pc \in {"find", "open"}
             \/ task'[u].pc = "create" /\ task'[u].c \in Chats /\ UNCHANGED chat
             \/ /\ task'[u].pc = "create" /\ task'[u].c \in Chat
                /\ chat' = [chat EXCEPT ![task'[u].c] = OpenedChat(FALSE)]
             \/ task'[u].pc = "done" /\ task[u].m \in Rows
             \/ task'[u].pc = "dropped"
      BY <2>7, EchoEffect
    <3>2. task[u].op = "Echo"
      BY <3>1, WhoIsAt
    <3>3. task'[u].pc = "create" => task'[u].c \in Chats'
      BY <3>1 DEF Chats, OpenedChat, Typed
    <3> QED  BY <3>1, <3>2, <3>3
  <2>8. CASE FindIds(u)
    BY <2>8, FindEffect, WhoIsAt DEF Same
  <2>9. CASE DeleteRows(u)
    BY <2>9, DeleteRowsEffect, WhoIsAt DEF Same
  <2>10. CASE DeleteChats(u)
    BY <2>10, DeleteChatsEffect, WhoIsAt DEF Same
  <2> QED  BY <1>6, <2>1, <2>2, <2>3, <2>4, <2>5, <2>6, <2>7, <2>8, <2>9, <2>10 DEF TaskStep
<1> QED  BY <1>2, <1>3, <1>4, <1>5, <1>6 DEF InboxNext

\* The row of a message that was sent stays in its conversation until it is deleted,
\* and only an insertion brings it back.
LEMMA RowMoves ==
  ASSUME Typed, SideInv, InboxNext, NEW m \in Message, wa[m].by # "nobody", m \in Rows'
  PROVE  \/ m \in Rows /\ message'[m].chat = message[m].chat
         \/ \E u \in Task : CreateRow(u) /\ task[u].m = m
<1>1. ASSUME UNCHANGED message
      PROVE  m \in Rows /\ message'[m].chat = message[m].chat
  BY <1>1 DEF Rows
<1>2. CASE Receipt \/ MarkAsRead \/ Send \/ Echo \/ Delete
  BY <1>1, <1>2 DEF Receipt, MarkAsRead, Send, Echo, Delete, StartTask
<1>3. CASE LeadWrites
  <2>1. PICK x \in Message :
          /\ wa[x].by = "nobody"
          /\ \/ UNCHANGED message
             \/ \E c \in Chat :
                  message' = [message EXCEPT ![x] =
                                [chat |-> c, sender |-> "LEAD", status |-> "DELIVERED"]]
    BY <1>3, LeadEffect
  <2> QED  BY <1>1, <2>1 DEF Rows, Typed
<1>4. CASE FlowFinishes \/ ProcessCrashes
  BY <1>1, <1>4 DEF FlowFinishes, ProcessCrashes
<1>5. ASSUME NEW t \in Task, TaskStep(t)
      PROVE  \/ m \in Rows /\ message'[m].chat = message[m].chat
             \/ CreateRow(t) /\ task[t].m = m
  <2>1. CASE WriteStatus(t)
    <3>1. \/ /\ task[t].m \in Rows
             /\ message' = [message EXCEPT ![task[t].m].status = task[t].status]
          \/ UNCHANGED message
      BY <2>1, WriteEffect
    <3> QED  BY <1>1, <3>1 DEF Rows, Typed, Row
  <2>2. CASE CreateRow(t)
    <3>1. task[t].m \in Message
      BY <2>2 DEF CreateRow, SideInv, SideTask, At
    <3>2. \/ message' = [message EXCEPT ![task[t].m] =
                           [chat |-> task[t].c, sender |-> "BOT", status |-> "SENT"]]
          \/ UNCHANGED message
      BY <2>2, <3>1, CreateEffect
    <3> QED  BY <1>1, <2>2, <3>1, <3>2 DEF Rows, Typed
  <2>3. CASE DeleteChats(t)
    <3>1. \/ UNCHANGED message
          \/ message' = [x \in Message |-> IF x \in task[t].todo THEN NoRow ELSE message[x]]
      BY <2>3, DeleteChatsEffect
    <3> QED  BY <1>1, <3>1 DEF Rows
  <2>4. CASE ListUnread(t) \/ ReadStatus(t) \/ SendReaches(t) \/ SendFails(t)
    BY <1>1, <2>4 DEF ListUnread, ReadStatus, SendReaches, SendFails
  <2>5. CASE EchoEnters(t) \/ EchoFinds(t) \/ EchoDrops(t) \/ EchoOpens(t)
    BY <1>1, <2>5 DEF EchoEnters, EchoFinds, EchoDrops, EchoOpens
  <2>6. CASE FindIds(t) \/ DeleteRows(t)
    BY <1>1, <2>6 DEF FindIds, DeleteRows
  <2> QED  BY <1>5, <2>1, <2>2, <2>3, <2>4, <2>5, <2>6 DEF TaskStep
<1> QED  BY <1>2, <1>3, <1>4, <1>5 DEF InboxNext

LEMMA EchoedLasts ==
  ASSUME Typed, InboxNext, NEW m, Echoed(m)
  PROVE  Echoed(m)'
BY Settled DEF Echoed, Ended

LEMMA ForgetStep ==
  ASSUME Typed, Typed', SideInv, ForgetInv, InboxNext
  PROVE  ForgetInv'
<1>1. ASSUME NEW m \in Message, wa[m].by # "nobody", m \in Rows', m \notin Rows
      PROVE  \E t \in Task : /\ task[t].m = m /\ At(t, "create") /\ At(t, "create")' = FALSE
                             /\ Others(t)
                             /\ Recording(t) \/ Echoed(m)'
  <2>1. PICK t \in Task : CreateRow(t) /\ task[t].m = m
    BY <1>1, RowMoves
  <2>2. /\ At(t, "create") /\ Others(t) /\ Same(t) /\ task'[t].pc \in {"done", "failed"}
        /\ task'[t].m = m
    BY <1>1, <2>1, CreateEffect
  <2>3. task[t].op \in {"Send", "Echo"}
    BY <2>2, WhoIsAt
  <2> QED  BY <2>1, <2>2, <2>3 DEF Recording, Echoed, At, Same
<1>2. ASSUME NEW t \in Task, SendReaches(t)
      PROVE  /\ wa[task'[t].m].by = "nobody" \/ ~Recording(t)'
             /\ Others(t) /\ UNCHANGED message
  BY <1>2, SendEffect DEF Recording, At
<1>3. \A t \in Task : Recording(t) => wa[task[t].m].by = "us" /\ task[t].m \in Message
  BY DEF Recording, SideInv, SideTask, At
<1>4. \A d \in Task : Looked(d) => task[d].shown \subseteq Message
  BY DEF Typed, Requests
<1>5. \A m \in Rows : m \in Message /\ wa[m].by # "nobody"
  BY DEF SideInv, SideRows, Rows
<1>6. ASSUME NEW t \in Task, NEW u \in Task, Recording(t)', Recording(u)', task'[t].m = task'[u].m
      PROVE  t = u
  <2>1. task'[t] = task[t] \/ SendReaches(t)
    BY <1>6, Arrivals
  <2>2. task'[u] = task[u] \/ SendReaches(u)
    BY <1>6, Arrivals
  <2>3. task'[t] = task[t] => Recording(t)
    BY <1>6 DEF Recording, At
  <2>4. task'[u] = task[u] => Recording(u)
    BY <1>6 DEF Recording, At
  <2>5. CASE task'[t] = task[t] /\ task'[u] = task[u]
    BY <1>6, <2>3, <2>4, <2>5 DEF ForgetInv
  <2>6. CASE SendReaches(t) /\ task'[u] = task[u]
    BY <1>2, <1>3, <1>6, <2>4, <2>6
  <2>7. CASE SendReaches(u) /\ task'[t] = task[t]
    BY <1>2, <1>3, <1>6, <2>3, <2>7
  <2>8. CASE SendReaches(t) /\ SendReaches(u) /\ t # u
    <3>1. task'[u] = task[u]
      BY <1>2, <2>8 DEF Others
    <3> QED  BY <2>6, <2>8, <3>1
  <2> QED  BY <2>1, <2>2, <2>5, <2>6, <2>7, <2>8
<1>7. ASSUME NEW t \in Task, Recording(t)', NEW m, m = task'[t].m
      PROVE  /\ m \in Rows' => Echoed(m)'
             /\ \A d \in Task : Looked(d)' /\ m \in task'[d].shown => Echoed(m)'
  <2>1. CASE SendReaches(t)
    <3>1. wa[m].by = "nobody" /\ Others(t) /\ UNCHANGED message
      BY <1>2, <1>7, <2>1
    <3>2. m \notin Rows'
      BY <1>5, <3>1 DEF Rows
    <3>3. ASSUME NEW d \in Task, Looked(d)', m \in task'[d].shown
          PROVE  FALSE
      <4>1. d # t
        BY <1>7, <3>3 DEF Looked, Recording
      <4>2. Looked(d) /\ task[d].shown = task'[d].shown
        BY <3>1, <3>3, <4>1 DEF Others, Looked
      <4> QED  BY <3>1, <3>3, <4>2 DEF ForgetInv
    <3> QED  BY <3>2, <3>3
  <2>2. CASE task'[t] = task[t]
    <3>1. /\ Recording(t) /\ task[t].m = m /\ m \in Message /\ wa[m].by = "us"
      BY <1>3, <1>7, <2>2 DEF Recording, At
    <3>2. m \in Rows \/ (\E d \in Task : Looked(d) /\ m \in task[d].shown) => Echoed(m)
      BY <3>1 DEF ForgetInv
    <3>3. Echoed(m) => Echoed(m)'
      BY EchoedLasts
    <3>4. ASSUME m \in Rows', m \notin Rows
          PROVE  Echoed(m)'
      <4>1. PICK u \in Task : /\ task[u].m = m /\ At(u, "create") /\ At(u, "create")' = FALSE
                              /\ Recording(u) \/ Echoed(m)'
        BY <1>1, <3>1, <3>4
      <4>2. Recording(u) => u = t
        BY <3>1, <4>1 DEF ForgetInv
      <4> QED  BY <1>7, <4>1, <4>2 DEF Recording
    <3>5. ASSUME NEW d \in Task, Looked(d)', m \in task'[d].shown
          PROVE  Echoed(m)'
      <4>1. task'[d] = task[d] \/ FindIds(d) \/ DeleteRows(d) \/ DeleteChats(d)
        BY <3>5, Arrivals
      <4>2. CASE task'[d] = task[d] \/ DeleteRows(d) \/ DeleteChats(d)
        <5>1. Looked(d) /\ task'[d].shown = task[d].shown
          BY <3>5, <4>2, DeleteRowsEffect, DeleteChatsEffect DEF Looked, Same, At
        <5> QED  BY <3>2, <3>3, <3>5, <5>1
      <4>3. CASE FindIds(d)
        <5>1. task'[d].shown \subseteq Rows
          BY <4>3, FindEffect DEF ForgetInv
        <5> QED  BY <3>2, <3>3, <3>5, <5>1
      <4> QED  BY <4>1, <4>2, <4>3
    <3> QED  BY <3>2, <3>3, <3>4, <3>5
  <2> QED  BY <1>7, <2>1, <2>2, Arrivals
<1>8. ASSUME NEW d \in Task, Looked(d)', NEW m \in task'[d].shown
      PROVE  /\ wa'[m].by # "nobody"
             /\ m \in Rows' => message'[m].chat \in task'[d].ids \/ Echoed(m)'
  <2>1. task'[d] = task[d] \/ FindIds(d) \/ DeleteRows(d) \/ DeleteChats(d)
    BY <1>8, Arrivals
  <2>2. CASE FindIds(d)
    <3>1. /\ At(d, "ids") /\ UNCHANGED message
          /\ m \in Rows /\ message[m].chat \in task'[d].ids
      BY <1>8, <2>2, FindEffect DEF ForgetInv, Tables
    <3>2. m \in Message /\ wa[m].by # "nobody"
      BY <1>5, <3>1
    <3> QED  BY <3>1, <3>2, Lasts DEF Lasting
  <2>3. CASE task'[d] = task[d] \/ DeleteRows(d) \/ DeleteChats(d)
    <3>1. Looked(d) /\ task'[d].shown = task[d].shown
      BY <1>8, <2>3, DeleteRowsEffect, DeleteChatsEffect DEF Looked, Same, At
    <3>2. /\ m \in Message /\ wa[m].by # "nobody"
          /\ m \in Rows => message[m].chat \in task[d].ids \/ Echoed(m)
      BY <1>4, <1>8, <3>1 DEF ForgetInv
    <3>3. wa'[m].by # "nobody"
      BY <3>2, Lasts DEF Lasting
    <3>4. ASSUME m \in Rows', m \notin Rows
          PROVE  Echoed(m)'
      <4>1. PICK t \in Task : task[t].m = m /\ (Recording(t) \/ Echoed(m)')
        BY <1>1, <3>2, <3>4
      <4>2. Recording(t) => Echoed(m)
        BY <1>8, <3>1, <4>1 DEF ForgetInv
      <4> QED  BY <4>1, <4>2, EchoedLasts
    <3>5. ASSUME m \in Rows', m \in Rows
          PROVE  message'[m].chat \in task'[d].ids \/ Echoed(m)'
      <4>1. ASSUME ~\E u \in Task : CreateRow(u) /\ task[u].m = m
            PROVE  message'[m].chat = message[m].chat
        BY <3>2, <3>5, <4>1, RowMoves
      <4>2. ASSUME NEW u \in Task, CreateRow(u), task[u].m = m
            PROVE  message'[m].chat = message[m].chat
        BY <3>2, <3>5, <4>2, CreateEffect
      <4>3. message'[m].chat = message[m].chat
        BY <4>1, <4>2
      <4>4. CASE Echoed(m)
        BY <4>4, EchoedLasts
      <4>5. CASE message[m].chat \in task[d].ids
        <5>1. CASE task'[d] = task[d] \/ DeleteRows(d)
          BY <4>3, <4>5, <5>1, DeleteRowsEffect
        <5>2. CASE DeleteChats(d)
          <6>1. task'[d].pc = "done"
            BY <1>8, <5>2, DeleteChatsEffect DEF Looked, At
          <6>2. /\ message' = [x \in Message |-> IF x \in task[d].todo THEN NoRow ELSE message[x]]
                /\ \A x \in Rows \ task[d].todo : message[x].chat \notin task[d].ids
            BY <5>2, <6>1, DeleteChatsEffect
          <6>3. m \in task[d].todo
            BY <3>5, <4>5, <6>2
          <6> QED  BY <3>2, <3>5, <6>2, <6>3 DEF Rows
        <5> QED  BY <2>3, <5>1, <5>2
      <4> QED  BY <3>2, <3>5, <4>4, <4>5
    <3> QED  BY <3>3, <3>4, <3>5
  <2> QED  BY <2>1, <2>2, <2>3
<1>9. ASSUME NEW d \in Task
      PROVE  /\ At(d, "ids")' => task'[d].shown = {}
             /\ Looked(d)' /\ At(d, "done")' => task'[d].ids = {}
  BY Arrivals DEF At, ForgetInv, Looked
<1> QED
  BY <1>6, <1>7, <1>8, <1>9 DEF ForgetInv

\* Conversations that are there and rows stay.
Growing ==
  /\ \A c \in Chat : chat[c].is # "gone" => chat'[c].is # "gone"
  /\ \A c \in Chats : c \in Chats'
  /\ \A m \in Rows : m \in Rows'

LEMMA NothingGoes ==
  ASSUME Typed, SideInv, InboxNext, \A t \in Task : task[t].op # "Delete"
  PROVE  Growing
<1>1. ASSUME UNCHANGED <<chat, message>>
      PROVE  Growing
  BY <1>1 DEF Growing, Chats, Rows
<1>2. CASE Receipt \/ MarkAsRead \/ Send \/ Echo \/ Delete
  BY <1>1, <1>2 DEF Receipt, MarkAsRead, Send, Echo, Delete, StartTask
<1>3. CASE LeadWrites
  <2>1. PICK m \in Message :
          /\ wa[m].by = "nobody"
          /\ \A c \in Chat : chat[c].is # "gone" => chat'[c].is # "gone"
          /\ \A c \in Chats : chat'[c].is = "live"
          /\ \/ UNCHANGED message
             \/ \E c \in Chat :
                  message' = [message EXCEPT ![m] =
                                [chat |-> c, sender |-> "LEAD", status |-> "DELIVERED"]]
    BY <1>3, LeadEffect
  <2>2. m \notin Rows
    BY <2>1 DEF SideInv, SideRows
  <2> QED  BY <2>1, <2>2 DEF Growing, Chats, Rows, Typed
<1>4. CASE FlowFinishes
  <2>1. PICK c \in Chat : chat' = [chat EXCEPT ![c].active = FALSE] /\ UNCHANGED message
    BY <1>4 DEF FlowFinishes, OpenChats, Chats
  <2>2. \A x \in Chat : chat'[x].is = chat[x].is
    BY <2>1 DEF Typed, Standing
  <2> QED  BY <2>1, <2>2 DEF Growing, Chats, Rows
<1>5. CASE ProcessCrashes
  BY <1>1, <1>5 DEF ProcessCrashes
<1>6. ASSUME NEW t \in Task, TaskStep(t)
      PROVE  Growing
  <2>1. CASE WriteStatus(t)
    <3>1. UNCHANGED chat
      BY <2>1 DEF WriteStatus
    <3>2. \/ task[t].m \in Rows /\ message' = [message EXCEPT ![task[t].m].status = task[t].status]
          \/ UNCHANGED message
      BY <2>1, WriteEffect
    <3>3. ASSUME task[t].m \in Rows, message' = [message EXCEPT ![task[t].m].status = task[t].status]
          PROVE  task[t].m \in Rows'
      <4>1. message'[task[t].m] \in Row
        BY <3>3 DEF Rows, Typed, Row, Requests
      <4> QED  BY <3>3, <4>1, InboxAssumption DEF Rows, Row, Word
    <3>4. \A m \in Rows : m # task[t].m => message'[m] = message[m]
      BY <3>2 DEF Rows, Typed
    <3> QED  BY <3>1, <3>2, <3>3, <3>4 DEF Growing, Chats, Rows
  <2>2. CASE CreateRow(t)
    <3>1. task[t].m \in Message
      BY <2>2 DEF CreateRow, SideInv, SideTask, At
    <3>2. /\ UNCHANGED chat
          /\ \/ /\ task[t].m \notin Rows
                /\ message' = [message EXCEPT ![task[t].m] =
                                 [chat |-> task[t].c, sender |-> "BOT", status |-> "SENT"]]
             \/ UNCHANGED message
      BY <2>2, <3>1, CreateEffect
    <3> QED  BY <3>2 DEF Growing, Chats, Rows, Typed
  <2>3. CASE EchoEnters(t) \/ EchoFinds(t) \/ EchoDrops(t) \/ EchoOpens(t)
    <3>1. /\ UNCHANGED message
          /\ \/ UNCHANGED chat
             \/ \E c \in Chat : chat' = [chat EXCEPT ![c] = OpenedChat(FALSE)]
      BY <2>3, EchoEffect
    <3> QED  BY <1>1, <3>1 DEF Growing, Chats, Rows, OpenedChat, Typed
  <2>4. CASE ListUnread(t) \/ ReadStatus(t) \/ SendReaches(t) \/ SendFails(t)
    BY <1>1, <2>4 DEF ListUnread, ReadStatus, SendReaches, SendFails
  <2>5. CASE FindIds(t) \/ DeleteRows(t)
    BY <1>1, <2>5 DEF FindIds, DeleteRows
  <2>6. CASE DeleteChats(t)
    BY <2>6, WhoIsAt DEF DeleteChats
  <2> QED  BY <1>6, <2>1, <2>2, <2>3, <2>4, <2>5, <2>6 DEF TaskStep
<1> QED  BY <1>2, <1>3, <1>4, <1>5, <1>6 DEF InboxNext

LEMMA KeptStep ==
  ASSUME Typed, Typed', SideInv, KeptInv, InboxNext
  PROVE  KeptInv'
<1> SUFFICES ASSUME \A t \in Task : task'[t].op # "Delete"
             PROVE  /\ \A c \in Chat : chat'[c].is # "gone"
                    /\ \A t \in Task : task'[t].op = "Echo" /\ At(t, "create")' => task'[t].c \in Chats'
                    /\ \A t \in Task : task'[t].op = "Echo" /\ task'[t].pc \in {"done", "failed"} =>
                         task'[t].m \in Rows'
  BY DEF KeptInv
<1>1. \A t \in Task : task[t].op # "Delete"
  BY Settled
<1>2. /\ \A c \in Chat : chat[c].is # "gone"
      /\ \A t \in Task : task[t].op = "Echo" /\ At(t, "create") => task[t].c \in Chats
      /\ \A t \in Task : task[t].op = "Echo" /\ task[t].pc \in {"done", "failed"} => task[t].m \in Rows
  BY <1>1 DEF KeptInv
<1>3. Growing
  BY <1>1, NothingGoes
<1>4. ASSUME NEW t \in Task, task'[t].op = "Echo", At(t, "create")'
      PROVE  task'[t].c \in Chats'
  BY <1>2, <1>3, <1>4, Arrivals DEF At, Growing
<1>5. ASSUME NEW t \in Task, task'[t].op = "Echo", task'[t].pc \in {"done", "failed"},
             NEW m, m = task'[t].m
      PROVE  m \in Rows'
  <2>1. CASE task'[t] = task[t]
    <3>1. m \in Rows
      BY <1>2, <1>5, <2>1
    <3> QED  BY <1>3, <3>1 DEF Growing
  <2>2. CASE UNCHANGED message /\ task'[t].m = task[t].m /\ task[t].m \in Rows
    BY <1>5, <2>2 DEF Rows
  <2>3. CASE CreateRow(t)
    <3>1. At(t, "create") /\ task[t].m \in Message
      BY <2>3 DEF CreateRow, SideInv, SideTask, At
    <3>2. /\ task'[t].op = task[t].op /\ task[t].m = m
          /\ \/ message' = [message EXCEPT ![m] =
                              [chat |-> task[t].c, sender |-> "BOT", status |-> "SENT"]]
             \/ (m \in Rows \/ task[t].c \notin Chats) /\ UNCHANGED message
      BY <1>5, <2>3, <3>1, CreateEffect DEF Same
    <3>3. task[t].c \in Chats
      BY <1>2, <1>5, <3>1, <3>2
    <3>4. CASE m \in Rows
      BY <1>3, <3>4 DEF Growing
    <3>5. CASE message' = [message EXCEPT ![m] =
                              [chat |-> task[t].c, sender |-> "BOT", status |-> "SENT"]]
      BY <3>1, <3>2, <3>3, <3>5, InboxAssumption DEF Rows, Typed, Chats
    <3> QED  BY <3>2, <3>3, <3>4, <3>5
  <2> QED  BY <1>5, <2>1, <2>2, <2>3, Arrivals
<1> QED  BY <1>2, <1>3, <1>4, <1>5 DEF Growing

LEMMA InitSound ==
  InboxInit => SideInv /\ BestInv /\ BadgeInv /\ KeptInv /\ ForgetInv
<1> SUFFICES ASSUME InboxInit
             PROVE  SideInv /\ BestInv /\ BadgeInv /\ KeptInv /\ ForgetInv
  OBVIOUS
<1>1. \A t \in Task : task[t] = NoTask
  BY DEF InboxInit
<1>2. \A m \in Message : IF m <= 2 THEN /\ message[m].sender = "LEAD" /\ message[m].status = "DELIVERED"
                                        /\ wa[m].by = "lead" /\ heard[m] = 2
                                   ELSE message[m] = NoRow
  BY DEF InboxInit, Rank
<1>3. SideInv
  BY <1>1, <1>2 DEF SideInv, SideRows, SideTask, NoTask, Rows, At
<1>4. BestInv
  BY <1>1, <1>2 DEF BestInv, NoTask, Rows, Rank, At
<1>5. BadgeInv
  BY <1>1 DEF BadgeInv, BadgeOf, NoTask
<1>6. ForgetInv
  BY <1>1 DEF ForgetInv, Looked, Recording, NoTask, At
<1>7. \A c \in Chat : chat[c].is # "gone"
  BY DEF InboxInit, OpenedChat
<1>8. KeptInv
  BY <1>1, <1>7 DEF KeptInv, NoTask, At
<1> QED  BY <1>3, <1>4, <1>5, <1>6, <1>8

LEMMA InboxSound ==
  InboxSpec => []InboxInv
<1>1. InboxInit => InboxInv
  BY InitTyped, InitSound DEF InboxInv
<1>2. InboxInv /\ [InboxNext]_inboxVars => InboxInv'
  <2>1. ASSUME InboxInv, InboxNext
        PROVE  InboxInv'
    <3>1. Typed'
      BY <2>1, TypedStep DEF InboxInv
    <3> QED  BY <2>1, <3>1, SideStep, BestStep, BadgeStep, KeptStep, ForgetStep DEF InboxInv
  <2>2. ASSUME InboxInv, UNCHANGED inboxVars
        PROVE  InboxInv'
    BY <2>2 DEF InboxInv, inboxVars, Typed, SideInv, SideRows, SideTask, BestInv, BadgeInv,
                BadgeOf, KeptInv, Echoed, ForgetInv, Recording, Looked, At, Rows, Chats
  <2> QED  BY <2>1, <2>2
<1> QED  BY <1>1, <1>2, PTL DEF InboxSpec

----------------------------------------------------------------------------
(* Theorems *)

\* Whatever receipts, readers, sends, echoes and deletions come, in any order and
\* number, a row holds the best status it was told, unless two updates of it raced
\* (or one of them is between its two statements).
THEOREM StatusesAreBest ==
  InboxSpec => []StatusIsTheBestTold
<1>1. InboxInv => StatusIsTheBestTold
  BY DEF InboxInv, BestInv, StatusIsTheBestTold
<1> QED  BY <1>1, InboxSound, PTL

\* A message that mark-as-read listed is off the badge when the request has ended, and
\* no receipt, no deletion and no other reader puts it back.
THEOREM BadgesAreCleared ==
  InboxSpec => []BadgeIsCleared
<1>1. InboxInv => BadgeIsCleared
  BY DEF InboxInv, BadgeInv, BadgeOf, BadgeIsCleared, Unread, At
<1> QED  BY <1>1, InboxSound, PTL

\* While nobody deletes, a message of ours whose echo was handled is in the history,
\* whether the request or the echo came first, gave up or crashed.
THEOREM EchoesAreRecorded ==
  InboxSpec => []EchoedMessagesAreKept
<1>1. InboxInv => EchoedMessagesAreKept
  BY DEF InboxInv, KeptInv, EchoedMessagesAreKept
<1> QED  BY <1>1, InboxSound, PTL

\* No page shows a message that a completed deletion of its lead had seen, unless an
\* echo of that message was recorded again.
THEOREM DeletionForgets ==
  InboxSpec => []DeletedLeadsAreForgotten
<1>1. InboxInv => DeletedLeadsAreForgotten
  <2> SUFFICES ASSUME InboxInv, NEW t \in Task, task[t].op = "Delete", At(t, "done"),
                      NEW c \in Chats, NEW m \in Page(c) \cap task[t].shown
               PROVE  \E u \in Task : task[u].op = "Echo" /\ task[u].m = m
    BY DEF DeletedLeadsAreForgotten
  <2>1. m \in Rows /\ message[m].chat \in Chats
    BY DEF Page, IdsByLeadAndFlow
  <2>2. Echoed(m)
    BY <2>1 DEF InboxInv, ForgetInv, Looked, At
  <2> QED  BY <2>2 DEF Echoed
<1> QED  BY <1>1, InboxSound, PTL
=============================================================================
