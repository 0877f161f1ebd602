----------------------------- MODULE FlowEngine -----------------------------
(***************************************************************************)
(* One lead of one bot number: the inbound pipeline (WhatsappService in    *)
(* legacy mode, WaEventConsumerService in proxy mode), the flow engine     *)
(* (ProcessMessageUseCase) and the operators who change the same rows      *)
(* (toggle automation, move a lead, submit a form, delete a conversation). *)
(* Every row and the mutex are keyed by the flow or bot number and the     *)
(* lead, so leads share nothing but the flow.  Each database call is a     *)
(* step; what a handler computes between two calls belongs to the later.   *)
(* Conversations belong to a flow row: Flows are the contents that one row *)
(* takes as it is edited.  The two reads of the flow are one step; the     *)
(* inbox is a set because an image is uploaded before the mutex is asked.  *)
(***************************************************************************)
EXTENDS FlowGraph, Integers, FiniteSets

CONSTANTS
  Instance,       \* API processes
  Msg, PhoneMsg,  \* WhatsApp message ids; those written on the bot's phone
  NoMsg,
  Proxy,          \* WA_WORKER_ENABLED
  Flows, NoFlow,  \* the versions of the active flow; "no flow is active"
  Cooldown,       \* hours (subHours(new Date(), 1))
  Operators,      \* which operators act: "toggle", "stage", "delete", "edit"
  MaxOption, MaxConv, MaxFaults, MaxActs, MaxHours   \* bounds

ConvId == 1 .. MaxConv
Process == Instance \X Msg

ASSUME EngineAssumption ==
  /\ PhoneMsg \subseteq Msg /\ NoMsg \notin Msg
  /\ Proxy \in BOOLEAN /\ (~Proxy => PhoneMsg = {})
  /\ Flows \subseteq Flow /\ NoFlow \notin Flows
  /\ None \notin Node \cup Stage
  /\ IsFiniteSet(Instance) /\ IsFiniteSet(Node)
  /\ {MaxOption, MaxConv, MaxFaults, MaxActs, MaxHours, Cooldown} \subseteq Nat
  /\ Operators \subseteq {"toggle", "stage", "delete", "edit"}

VARIABLES
  flow,               \* the active flow with its nodes, or NoFlow
  status, auto, touched,  \* conversations: status, automationEnabled, updatedAt
  progress,           \* conversation_progress, by conversation
  lastConv,           \* conversations created so far
  recorded,           \* message_history: where a message id is recorded, or 0
  answers,            \* lead_responses
  outbox,             \* pending_outbound_message: the contents, by conversation
  hour, stamp,        \* the clock, and a stamp that orders updates
  inbox, seen,        \* per instance: messages not taken, processedMessageIds
  mutex,              \* per instance: the lead's mutex
  at, local,          \* per process: its next step, its entities
  act,                \* the operator's request between its read and its write
  \* bounds and history
  text,               \* what each published message says
  faults, acts,       \* crashes and database errors, operators' requests so far
  overlap,            \* some operator's request overlapped some handler
  again,              \* some message came again after its id was forgotten
  paused,             \* the operator's last word: automation off
  replied             \* per message: times its replies were enqueued since the lead was deleted

conversations == <<status, auto, touched, lastConv, stamp>>
handlers == <<inbox, seen, mutex, at, local>>
ghosts == <<overlap, again, paused>>
vars == <<flow, conversations, progress, recorded, answers, outbox, hour,
          handlers, act, text, faults, acts, ghosts, replied>>

-----------------------------------------------------------------------------
NoProgress == [node |-> None, waiting |-> FALSE, stage |-> None]
NoAct == [kind |-> "none"]

\* The entities a handler holds: conversation, progress, flow, messagesToSend.
\* from (where its walk started) and paused are history.
Blank == [plan |-> NoFlow, conv |-> 0, node |-> None, waiting |-> FALSE,
          stage |-> None, visited |-> {}, out |-> <<>>, from |-> None,
          paused |-> FALSE]

Unread == [hour |-> 0, stamp |-> 0]
Stamp == [hour |-> hour, stamp |-> stamp + 1]   \* new Date()

Active == {c \in ConvId : status[c] = "ACTIVE"}
Finished == {c \in ConvId : status[c] = "FINISHED"}

\* findLastFinished: orderBy updatedAt desc
LastFinished(c) ==
  c \in Finished /\ \A d \in Finished : touched[d].stamp <= touched[c].stamp

InCooldown(c) == touched[c].hour > hour - Cooldown

MutexIgnored(i) == i \in Instance   \* mutant
MutexFree(i) == mutex[i] = NoMsg

Init ==
  /\ flow \in Flows
  /\ status = [c \in ConvId |-> "ABSENT"]
  /\ auto = [c \in ConvId |-> TRUE]
  /\ touched = [c \in ConvId |-> Unread]
  /\ progress = [c \in ConvId |-> NoProgress]
  /\ lastConv = 0
  /\ recorded = [m \in Msg |-> 0]
  /\ answers = {}
  /\ outbox = [c \in ConvId |-> <<>>]
  /\ hour = 0 /\ stamp = 0
  /\ inbox = [i \in Instance |-> {}]
  /\ seen = [i \in Instance |-> {}]
  /\ mutex = [i \in Instance |-> NoMsg]
  /\ at = [p \in Process |-> "idle"]
  /\ local = [p \in Process |-> Blank]
  /\ act = NoAct
  /\ text = [m \in Msg |-> -1]
  /\ faults = 0 /\ acts = 0
  /\ overlap = FALSE /\ again = FALSE /\ paused = FALSE
  /\ replied = [m \in Msg |-> 0]

-----------------------------------------------------------------------------
(* Messages arrive *)

\* The wa-worker publishes to every subscribed instance; a local socket
\* delivers to its own.
Publish(m, k) ==
  /\ text[m] = -1
  /\ text' = [text EXCEPT ![m] = k]
  /\ \E to \in IF Proxy THEN {Instance} ELSE {{i} : i \in Instance} :
       /\ inbox' = [i \in Instance |-> IF i \in to THEN inbox[i] \cup {m} ELSE inbox[i]]
       /\ seen' = [i \in Instance |-> IF i \in to THEN seen[i] \cup {m} ELSE seen[i]]
  /\ UNCHANGED <<flow, conversations, progress, recorded, answers, outbox, hour,
                 mutex, at, local, act, faults, acts, ghosts, replied>>

\* Baileys delivers a message again after a reconnection; the copy is dropped
\* when this process remembers the id (isDuplicateIncomingMessage).
SeenOrNot(i, m) == text[m] >= 0   \* mutant
NotSeen(i, m) == m \notin seen[i]

Redeliver(i, m) ==
  /\ ~Proxy
  /\ text[m] >= 0 /\ NotSeen(i, m)
  /\ at[<<i, m>>] = "idle" /\ m \notin inbox[i]
  /\ inbox' = [inbox EXCEPT ![i] = @ \cup {m}]
  /\ seen' = [seen EXCEPT ![i] = @ \cup {m}]
  /\ again' = (again \/ m \notin seen[i])
  /\ UNCHANGED <<flow, conversations, progress, recorded, answers, outbox, hour, mutex,
                 at, local, act, text, faults, acts, overlap, paused, replied>>

\* Inside the mutex: findByPhoneNumber and getDetails.  Without a flow, a start
\* or a node (or for a phone message already recorded) nothing else happens.
SomethingToDo(m) ==
  /\ flow # NoFlow
  /\ IF m \in PhoneMsg
     THEN recorded[m] = 0
     ELSE flow.start # None /\ \E n \in Node : HasNode(flow, n)

Ignore(i, m) ==
  /\ m \in inbox[i] /\ MutexFree(i)
  /\ ~SomethingToDo(m)
  /\ inbox' = [inbox EXCEPT ![i] = @ \ {m}]
  /\ UNCHANGED <<flow, conversations, progress, recorded, answers, outbox, hour,
                 seen, mutex, at, local, act, text, faults, acts, ghosts, replied>>

Load(i, m) ==
  /\ m \in inbox[i] /\ MutexFree(i)
  /\ SomethingToDo(m)
  /\ inbox' = [inbox EXCEPT ![i] = @ \ {m}]
  /\ mutex' = [mutex EXCEPT ![i] = m]
  /\ at' = [at EXCEPT ![<<i, m>>] = "findActive"]
  /\ local' = [local EXCEPT ![<<i, m>>] =
                 [Blank EXCEPT !.plan = flow, !.paused = paused]]
  /\ overlap' = (overlap \/ act # NoAct)
  /\ UNCHANGED <<flow, conversations, progress, recorded, answers, outbox, hour,
                 seen, act, text, faults, acts, again, paused, replied>>

-----------------------------------------------------------------------------
(* ProcessMessageUseCase.execute *)

Elsewhere == <<flow, hour, act, text, faults, acts, ghosts, inbox, seen>>

GoOn(p, step, entities) ==
  /\ at' = [at EXCEPT ![p] = step]
  /\ local' = [local EXCEPT ![p] = entities]
  /\ UNCHANGED <<mutex, Elsewhere>>

\* runExclusive returns, with or without an exception.
Leave(p) ==
  /\ at' = [at EXCEPT ![p] = "idle"]
  /\ local' = [local EXCEPT ![p] = Blank]
  /\ mutex' = [mutex EXCEPT ![p[1]] = NoMsg]
  /\ UNCHANGED Elsewhere

\* The conversation was not deleted since it was read (else Prisma rejects).
Exists(p) == status[local[p].conv] # "ABSENT"

FindActive(p) ==
  /\ at[p] = "findActive"
  /\ \/ /\ Active = {}
        /\ GoOn(p, IF p[2] \in PhoneMsg THEN "createSilent" ELSE "findLast", local[p])
     \/ \E c \in Active :
          GoOn(p, IF p[2] \in PhoneMsg \/ ~auto[c] THEN "record" ELSE "findProgress",
               [local[p] EXCEPT !.conv = c])
  /\ UNCHANGED <<conversations, progress, recorded, answers, outbox, replied>>

FirstContact(p) ==
  IF HasNode(local[p].plan, local[p].plan.start)
  THEN GoOn(p, "create", local[p])
  ELSE Leave(p)

\* mutant: the last conversation's automationEnabled is not looked at
FindLastFinishedForgetful(p) ==
  /\ at[p] = "findLast"
  /\ \/ Finished = {} /\ FirstContact(p)
     \/ \E c \in Finished :
          /\ LastFinished(c)
          /\ \/ InCooldown(c) /\ GoOn(p, "record", [local[p] EXCEPT !.conv = c])
             \/ ~InCooldown(c) /\ FirstContact(p)
  /\ UNCHANGED <<conversations, progress, recorded, answers, outbox, replied>>

FindLastFinished(p) ==
  /\ at[p] = "findLast"
  /\ \/ Finished = {} /\ FirstContact(p)
     \/ \E c \in Finished :
          /\ LastFinished(c)
          /\ \/ InCooldown(c) /\ GoOn(p, "record", [local[p] EXCEPT !.conv = c])
             \/ ~InCooldown(c) /\ ~auto[c] /\ GoOn(p, "createSilent", local[p])
             \/ ~InCooldown(c) /\ auto[c] /\ FirstContact(p)
  /\ UNCHANGED <<conversations, progress, recorded, answers, outbox, replied>>

CreateConversation(p, on, step) ==
  LET c == lastConv + 1
  IN  /\ c <= MaxConv
      /\ lastConv' = c
      /\ status' = [status EXCEPT ![c] = "ACTIVE"]
      /\ auto' = [auto EXCEPT ![c] = on]
      /\ touched' = [touched EXCEPT ![c] = Stamp]
      /\ stamp' = stamp + 1
      /\ GoOn(p, step, [local[p] EXCEPT !.conv = c])
      /\ UNCHANGED <<progress, recorded, answers, outbox, replied>>

CreateSilent(p) == at[p] = "createSilent" /\ CreateConversation(p, FALSE, "record")
Create(p) == at[p] = "create" /\ CreateConversation(p, TRUE, "createProgress")

CreateProgress(p) ==
  LET start == local[p].plan.start
  IN  /\ at[p] = "createProgress" /\ Exists(p)
      /\ progress' = [progress EXCEPT ![local[p].conv] = [NoProgress EXCEPT !.node = start]]
      /\ GoOn(p, "walk", [local[p] EXCEPT !.node = start, !.from = start])
      /\ UNCHANGED <<conversations, recorded, answers, outbox, replied>>

FindProgress(p) ==
  LET L == local[p]
      row == progress[L.conv]
      n == row.node
  IN  /\ at[p] = "findProgress"
      /\ IF n = None \/ ~row.waiting \/ ~HasNode(L.plan, n)
         THEN GoOn(p, "record", L)
         ELSE IF ~Matches(L.plan, n, text[p[2]])
         THEN GoOn(p, "record", [L EXCEPT !.out = << <<"again", n>> >>])
         ELSE GoOn(p, "answer", [L EXCEPT !.node = n, !.waiting = TRUE,
                                          !.stage = row.stage])
      /\ UNCHANGED <<conversations, progress, recorded, answers, outbox, replied>>

SaveAnswer(p) ==
  LET L == local[p]
      target == Target(L.plan, L.node, text[p[2]])
  IN  /\ at[p] = "answer" /\ Exists(p)
      /\ answers' = answers \cup {[conv |-> L.conv, node |-> L.node, msg |-> p[2]]}
      /\ IF target = None
         THEN GoOn(p, "finish", L)
         ELSE GoOn(p, "advance", [L EXCEPT !.node = target, !.waiting = FALSE,
                                           !.from = target])
      /\ UNCHANGED <<conversations, progress, recorded, outbox, replied>>

-----------------------------------------------------------------------------
(* The writes of the engine, and executeFromCurrentPosition *)

\* conversationRepository.update after finish(): the whole row as it was read,
\* with the automation on, or the engine would have kept silent.
WriteFinished(p) ==
  LET c == local[p].conv
  IN  /\ Exists(p)
      /\ status' = [status EXCEPT ![c] = "FINISHED"]
      /\ auto' = [auto EXCEPT ![c] = TRUE]
      /\ touched' = [touched EXCEPT ![c] = Stamp]
      /\ stamp' = stamp + 1
      /\ UNCHANGED <<lastConv, recorded, answers, outbox, replied>>

\* conversationProgressRepository.update: the whole row, as held in memory.
WriteProgress(p, L) ==
  /\ Exists(p)
  /\ progress' = [progress EXCEPT ![L.conv] =
                    [node |-> L.node, waiting |-> L.waiting, stage |-> L.stage]]
  /\ UNCHANGED <<conversations, recorded, answers, outbox, replied>>

FinishUnanswered(p) ==
  /\ at[p] = "finish"
  /\ WriteFinished(p)
  /\ GoOn(p, "record", local[p])
  /\ UNCHANGED progress

Advance(p) ==
  /\ at[p] = "advance"
  /\ WriteProgress(p, local[p])
  /\ GoOn(p, "walk", local[p])

\* mutant: an END with a blank content is sent too
AtNodeBlank(L) ==
  [L EXCEPT !.visited = @ \cup {L.node}, !.out = Append(@, <<"say", L.node>>)]

\* One turn of the loop at the node n: recordKanbanStage, then the message.
AtNode(L) ==
  [L EXCEPT !.visited = @ \cup {L.node},
            !.stage = IF L.plan.stage[L.node] # None THEN L.plan.stage[L.node] ELSE @,
            !.out = IF L.plan.says[L.node] THEN Append(@, <<"say", L.node>>) ELSE @]

InLoop(p) == at[p] = "walk" /\ local[p].node \notin local[p].visited
             /\ HasNode(local[p].plan, local[p].node)

WalkCycle(p) ==
  /\ at[p] = "walk" /\ local[p].node \in local[p].visited
  /\ WriteFinished(p)
  /\ GoOn(p, "saveProgress", local[p])
  /\ UNCHANGED progress

WalkLost(p) ==
  /\ at[p] = "walk" /\ local[p].node \notin local[p].visited
  /\ ~HasNode(local[p].plan, local[p].node)
  /\ WriteFinished(p)
  /\ GoOn(p, "record", local[p])
  /\ UNCHANGED progress

WalkEnd(p) ==
  LET L == local[p]
  IN  /\ InLoop(p)
      /\ ~IsQuestion(L.plan, L.node) /\ ~PassesOn(L.plan, L.node)
      /\ WriteFinished(p)
      /\ GoOn(p, "saveProgress", AtNode(L))
      /\ UNCHANGED progress

WalkOn(p) ==
  LET L == local[p]
      moved == [AtNode(L) EXCEPT !.node = L.plan.next[L.node], !.waiting = FALSE]
  IN  /\ InLoop(p)
      /\ PassesOn(L.plan, L.node)
      /\ WriteProgress(p, moved)
      /\ GoOn(p, "walk", moved)

\* mutant: the question is not awaited
WalkAskUnsaved(p) ==
  /\ InLoop(p)
  /\ IsQuestion(local[p].plan, local[p].node)
  /\ GoOn(p, "record", AtNode(local[p]))
  /\ UNCHANGED <<conversations, progress, recorded, answers, outbox, replied>>

WalkAsk(p) ==
  LET asked == [AtNode(local[p]) EXCEPT !.waiting = TRUE]
  IN  /\ InLoop(p)
      /\ IsQuestion(local[p].plan, local[p].node)
      /\ WriteProgress(p, asked)
      /\ GoOn(p, "record", asked)

SaveProgress(p) ==
  /\ at[p] = "saveProgress"
  /\ WriteProgress(p, local[p])
  /\ GoOn(p, "record", local[p])

-----------------------------------------------------------------------------
(* Back in the pipeline: message_history, then the outbox *)

\* mutant: no unique index on whatsappMessageId
RecordMessageAgain(p) ==
  LET L == local[p]
  IN  /\ at[p] = "record" /\ Exists(p)
      /\ recorded' = [recorded EXCEPT ![p[2]] = L.conv]
      /\ IF L.out = <<>> THEN Leave(p) ELSE GoOn(p, "enqueue", L)
      /\ UNCHANGED <<conversations, progress, answers, outbox, replied>>

RecordMessage(p) ==
  LET L == local[p]
  IN  /\ at[p] = "record" /\ Exists(p)
      /\ recorded[p[2]] = 0        \* UNIQUE(whatsappMessageId)
      /\ recorded' = [recorded EXCEPT ![p[2]] = L.conv]
      /\ IF L.out = <<>> THEN Leave(p) ELSE GoOn(p, "enqueue", L)
      /\ UNCHANGED <<conversations, progress, answers, outbox, replied>>

EnqueueReplies(p) ==
  LET L == local[p]
  IN  /\ at[p] = "enqueue" /\ Exists(p)
      /\ outbox' = [outbox EXCEPT ![L.conv] = @ \o L.out]
      /\ replied' = [replied EXCEPT ![p[2]] = @ + 1]
      /\ Leave(p)
      /\ UNCHANGED <<conversations, progress, recorded, answers>>

\* A write that cannot succeed: the conversation is gone, or the message id is
\* already recorded.  The exception ends the handler.
Rejected(p) ==
  /\ \/ at[p] \notin {"idle", "findActive", "findLast", "createSilent", "create",
                      "findProgress"} /\ ~Exists(p)
     \/ at[p] = "record" /\ recorded[p[2]] # 0
  /\ Leave(p)
  /\ UNCHANGED <<conversations, progress, recorded, answers, outbox, replied>>

HandlerStep(p) ==
  \/ FindActive(p) \/ FindLastFinished(p) \/ CreateSilent(p) \/ Create(p)
  \/ CreateProgress(p) \/ FindProgress(p) \/ SaveAnswer(p)
  \/ FinishUnanswered(p) \/ Advance(p)
  \/ WalkCycle(p) \/ WalkLost(p) \/ WalkEnd(p) \/ WalkOn(p) \/ WalkAsk(p)
  \/ SaveProgress(p) \/ RecordMessage(p) \/ EnqueueReplies(p) \/ Rejected(p)

-----------------------------------------------------------------------------
(* The operators.  One request at a time (a bound); each reads a row, and     *)
(* writes it back whole when its update reaches the database.               *)

Idle == \A p \in Process : at[p] = "idle"
Untouched == <<flow, recorded, answers, outbox, hour, handlers, text, faults,
               replied>>

Request(kind) ==
  /\ kind \in Operators
  /\ act = NoAct
  /\ acts < MaxActs
  /\ acts' = acts + 1
  /\ overlap' = (overlap \/ ~Idle)

\* ToggleAutomation on c acts on the lead's active conversation if there is one.
ToggleRead(c, on) ==
  /\ Request("toggle")
  /\ status[c] # "ABSENT"
  /\ \E t \in IF Active = {} THEN {c} ELSE Active :
       act' = [kind |-> "toggle", conv |-> t, status |-> status[t], on |-> on]
  /\ UNCHANGED <<Untouched, conversations, progress, again, paused>>

ToggleWrite ==
  LET c == act.conv
  IN  /\ act.kind = "toggle"
      /\ status[c] # "ABSENT"
      /\ status' = [status EXCEPT ![c] = act.status]
      /\ auto' = [auto EXCEPT ![c] = act.on]
      /\ touched' = [touched EXCEPT ![c] = Stamp]
      /\ stamp' = stamp + 1
      /\ paused' = ~act.on
      /\ act' = NoAct
      /\ UNCHANGED <<Untouched, lastConv, progress, acts, overlap, again>>

\* MoveLeadStage, and SubmitFormResponse with a stage to record.
StageRead(c, s) ==
  /\ Request("stage")
  /\ progress[c].node # None
  /\ act' = [kind |-> "stage", conv |-> c, row |-> [progress[c] EXCEPT !.stage = s]]
  /\ UNCHANGED <<Untouched, conversations, progress, again, paused>>

StageWrite ==
  /\ act.kind = "stage"
  /\ status[act.conv] # "ABSENT"
  /\ progress' = [progress EXCEPT ![act.conv] = act.row]
  /\ act' = NoAct
  /\ UNCHANGED <<Untouched, conversations, acts, ghosts>>

\* The update rejects: the row was deleted since.
WriteRejected ==
  /\ act # NoAct
  /\ status[act.conv] = "ABSENT"
  /\ act' = NoAct
  /\ UNCHANGED <<Untouched, conversations, progress, acts, ghosts>>

\* DeleteConversation: one transaction takes everything the lead has; the lead
\* starts again from nothing, with the automation on.
Delete ==
  /\ "delete" \in Operators /\ acts < MaxActs
  /\ \E c \in ConvId : status[c] # "ABSENT"
  /\ acts' = acts + 1
  /\ overlap' = (overlap \/ ~Idle)
  /\ status' = [c \in ConvId |-> "ABSENT"]
  /\ progress' = [c \in ConvId |-> NoProgress]
  /\ recorded' = [m \in Msg |-> 0]
  /\ answers' = {}
  /\ outbox' = [c \in ConvId |-> <<>>]
  /\ paused' = FALSE
  /\ replied' = [m \in Msg |-> 0]
  /\ UNCHANGED <<flow, auto, touched, lastConv, stamp, hour, handlers, act, text,
                 faults, again>>

\* The operator edits the flow, or turns it off or on.
EditFlow(f) ==
  /\ "edit" \in Operators /\ acts < MaxActs
  /\ f # flow
  /\ acts' = acts + 1
  /\ flow' = f
  /\ UNCHANGED <<conversations, progress, recorded, answers, outbox, hour, handlers,
                 act, text, faults, ghosts, replied>>

-----------------------------------------------------------------------------
(* Time and faults *)

\* The ids remembered for ten minutes are forgotten on the way.
HourPasses ==
  /\ hour < MaxHours
  /\ Idle /\ act = NoAct /\ \A i \in Instance : inbox[i] = {}
  /\ hour' = hour + 1
  /\ seen' = [i \in Instance |-> {}]
  /\ UNCHANGED <<flow, conversations, progress, recorded, answers, outbox, inbox,
                 mutex, at, local, act, text, faults, acts, ghosts, replied>>

Fault == faults < MaxFaults /\ faults' = faults + 1

\* mutant: a failed handler starts over, as often as it fails
FailRetries(p) ==
  /\ at[p] # "idle"
  /\ at' = [at EXCEPT ![p] = "findActive"]
  /\ local' = [local EXCEPT ![p] = [Blank EXCEPT !.plan = local[p].plan,
                                                !.paused = local[p].paused]]
  /\ UNCHANGED <<flow, conversations, progress, recorded, answers, outbox, hour,
                 inbox, seen, mutex, act, text, faults, acts, ghosts, replied>>

\* A database call rejects: the handler ends where it is.
Fail(p) ==
  /\ at[p] # "idle"
  /\ Fault
  /\ at' = [at EXCEPT ![p] = "idle"]
  /\ local' = [local EXCEPT ![p] = Blank]
  /\ mutex' = [mutex EXCEPT ![p[1]] = NoMsg]
  /\ UNCHANGED <<flow, conversations, progress, recorded, answers, outbox, hour,
                 inbox, seen, act, text, acts, ghosts, replied>>

\* A process dies and restarts with an empty memory.
Crash(i) ==
  /\ Fault
  /\ inbox[i] # {} \/ seen[i] # {} \/ mutex[i] # NoMsg
  /\ at' = [p \in Process |-> IF p[1] = i THEN "idle" ELSE at[p]]
  /\ local' = [p \in Process |-> IF p[1] = i THEN Blank ELSE local[p]]
  /\ inbox' = [inbox EXCEPT ![i] = {}]
  /\ seen' = [seen EXCEPT ![i] = {}]
  /\ mutex' = [mutex EXCEPT ![i] = NoMsg]
  /\ UNCHANGED <<flow, conversations, progress, recorded, answers, outbox, hour,
                 act, text, acts, ghosts, replied>>

\* Nothing is left to handle.
Quiet ==
  /\ Idle /\ act = NoAct /\ \A i \in Instance : inbox[i] = {}
  /\ UNCHANGED vars

Next ==
  \/ \E m \in Msg, k \in 0 .. MaxOption : Publish(m, k)
  \/ \E i \in Instance, m \in Msg : Redeliver(i, m) \/ Ignore(i, m) \/ Load(i, m)
  \/ \E p \in Process : HandlerStep(p) \/ Fail(p)
  \/ \E c \in ConvId, on \in BOOLEAN : ToggleRead(c, on)
  \/ \E c \in ConvId, s \in Stage : StageRead(c, s)
  \/ ToggleWrite \/ StageWrite \/ WriteRejected
  \/ Delete
  \/ \E f \in Flows \cup {NoFlow} : EditFlow(f)
  \/ HourPasses
  \/ \E i \in Instance : Crash(i)
  \/ Quiet

Spec == Init /\ [][Next]_vars

\* async-mutex serves its waiters in turn, and every database call resolves or
\* rejects.  Nobody owes a message, a request, a fault or an hour.
FairSpec ==
  /\ Spec
  /\ \A i \in Instance, m \in Msg : WF_vars(Ignore(i, m) \/ Load(i, m))
  /\ \A p \in Process : WF_vars(HandlerStep(p))

-----------------------------------------------------------------------------
(* Properties *)

At == {"idle", "findActive", "findLast", "createSilent", "create",
       "createProgress", "findProgress", "answer", "finish", "advance", "walk",
       "saveProgress", "record", "enqueue"}

Entry == {"say", "again"} \X Node

Status == {"ABSENT", "ACTIVE", "FINISHED"}
ProgressRow == [node : Node \cup {None}, waiting : BOOLEAN, stage : Stage \cup {None}]
Entities == [plan : Flows \cup {NoFlow}, conv : 0 .. MaxConv, node : Node \cup {None},
             waiting : BOOLEAN, stage : Stage \cup {None}, visited : SUBSET Node,
             out : Seq(Entry), from : Node \cup {None}, paused : BOOLEAN]
Act == {NoAct} \cup [kind : {"toggle"}, conv : ConvId, status : Status, on : BOOLEAN]
               \cup [kind : {"stage"}, conv : ConvId, row : ProgressRow]

TypeOK ==
  /\ flow \in Flows \cup {NoFlow}
  /\ status \in [ConvId -> Status]
  /\ auto \in [ConvId -> BOOLEAN]
  /\ touched \in [ConvId -> [hour : 0 .. MaxHours, stamp : 0 .. stamp]]
  /\ progress \in [ConvId -> ProgressRow]
  /\ lastConv \in 0 .. MaxConv /\ hour \in 0 .. MaxHours /\ stamp \in Nat
  /\ recorded \in [Msg -> 0 .. MaxConv]
  /\ answers \subseteq [conv : ConvId, node : Node, msg : Msg]
  /\ outbox \in [ConvId -> Seq(Entry)]
  /\ inbox \in [Instance -> SUBSET Msg] /\ seen \in [Instance -> SUBSET Msg]
  /\ mutex \in [Instance -> Msg \cup {NoMsg}]
  /\ at \in [Process -> At] /\ local \in [Process -> Entities]
  /\ act \in Act /\ text \in [Msg -> -1 .. MaxOption] /\ replied \in [Msg -> Nat]
  /\ faults \in 0 .. MaxFaults /\ {overlap, again, paused} \subseteq BOOLEAN
  /\ \A p \in Process : at[p] # "idle" => mutex[p[1]] = p[2]

\* No error or crash, no message delivered after its id was forgotten (its answer
\* is saved again and its replies are lost to the unique index), no operator's
\* request in the middle of a handler.
Undisturbed == faults = 0 /\ ~again /\ ~overlap

HasRow(c) == progress[c].node # None

\* However the handlers, the crashes and the operators come, the lead has one
\* conversation at a time: the flow never runs twice side by side.  (The table
\* has no unique index; the mutex and findActive are all there is.)
OneActiveConversation == overlap \/ Cardinality(Active) <= 1

\* Between two messages the bot stands at a question it has asked last and is
\* waiting for: a conversation of the bot is never left where no answer of the
\* lead can move it (unless the flow is edited under it).
AsksWhatItAwaits ==
  Idle /\ Undisturbed =>
    \A c \in Active :
      auto[c] /\ HasRow(c) =>
        /\ progress[c].waiting
        /\ outbox[c] # <<>> /\ outbox[c][Len(outbox[c])][2] = progress[c].node

\* The loop says what the graph says, in order, and leaves the conversation where
\* the graph leads: waiting at a question, or over (an end, a lost node, a cycle).
EndsWhereTheGraphLeads ==
  \A p \in Process :
    at[p] = "record" /\ local[p].from # None /\ Exists(p) =>
      LET L == local[p]
          end == Outcome(L.plan, L.from)
      IN  /\ L.out = [k \in 1 .. Len(end.said) |-> <<"say", end.said[k]>>]
          /\ L.node = end.node
          /\ L.waiting = end.asks
          /\ ~overlap /\ Cardinality(Instance) = 1 =>
               /\ (status[L.conv] = "ACTIVE") = end.asks
               /\ progress[L.conv] = [node |-> L.node, waiting |-> L.waiting,
                                      stage |-> progress[L.conv].stage]

\* Once the operator has paused the bot, a message that comes later gets no reply,
\* in this conversation or the next ones, until the operator turns it on again.
PausedStaysPaused ==
  \A p \in Process : at[p] = "enqueue" /\ local[p].paused => overlap

\* The replies to a message are enqueued once, however often it is delivered, by
\* however many processes, across crashes. (A lead that was deleted starts anew.)
RepliesOnce == \A m \in Msg : replied[m] <= 1

\* A question gets one answer each time it is asked: two quick messages, or one
\* delivered twice, never both answer it.
TimesAsked(c, n) ==
  Cardinality({k \in 1 .. Len(outbox[c]) : outbox[c][k] = <<"say", n>>})

AnswersMatchQuestions ==
  Undisturbed =>
    \A c \in ConvId, n \in Node :
      Cardinality({a \in answers : a.conv = c /\ a.node = n}) <= TimesAsked(c, n)

\* A message the process took is handled and the lead's mutex given back, even
\* when a database call fails on the way.
EveryMessageHandled ==
  \A i \in Instance, m \in Msg :
    m \in inbox[i] ~> m \notin inbox[i] /\ at[<<i, m>>] = "idle"

\* "Se o humano desativou o bot na ultima conversa, mantem desativado"
\* (process-message.use-case.ts:105-107).  The engine writes back the row it read
\* before the operator's click: see the README.
PauseIsKept ==
  \A p \in Process : at[p] = "enqueue" => ~local[p].paused
=============================================================================
