# Verification of consigpro-api

TLA+ models of the concurrent core of consigpro-api, a NestJS service that runs WhatsApp
sales bots: it receives the messages of leads, walks them through a flow of questions, and
sends the replies. The modules are translated from the TypeScript under `src/`; TLC checks
them on small instances and TLAPS proves the main results for all of them.

Paths below are relative to the repository; `src/...` of this text is `src/` of the
repository.

## 1. The system

Two deployments share the code. In **legacy mode** the API elects a leader
(`LeaderElectionService`), which holds the WhatsApp sockets (`WhatsappService`, Baileys). In
**proxy mode** (`WA_WORKER_ENABLED=true`) a separate wa-worker holds the sockets; every API
instance subscribes to its Redis events (`WaEventConsumerService`) and sends through BullMQ
jobs (`WaJobProducerService`). All state that outlives a process is in Postgres, each
database call is one await, and no unique index keeps one conversation per lead.

    lead --message--> WhatsappService / WaEventConsumerService   (dedup, per-lead mutex)
                         |  ProcessMessageUseCase                (conversation, progress, answers)
                         |  message_history                      (UNIQUE whatsappMessageId)
                         v
                      pending_outbound_message  <--- OutboundWorkerService (every 2 s)
                                                        |-- legacy: WhatsappService.sendMessage
                                                        |-- proxy:  BullMQ job, waits 60 s
    operators --HTTP--> toggle automation, move lead, submit form, delete, send, mark as read
    owner     --HTTP--> flows and nodes, kanbans and stages, forms, reports
    WhatsApp  --events-> receipts, echoes, connection.update (QR, open, close)

| Component | State | Operations | What is hard | What makes it correct |
|---|---|---|---|---|
| Outbox worker | `pending_outbound_message`, `running` flag | enqueue, tick, processGroup, markSent, markFailed, markPermanentlyFailed | rows are not claimed; snapshots go stale; crash between send and mark; late jobs; backoff reorders | no lie about SENT, no hasty FAILED, bounded duplicates, order, every row settles |
| Flow engine | `conversations`, `conversation_progress`, `lead_responses` | execute, executeFromCurrentPosition | partial writes, stale whole-row updates, cycles, edited graphs | one conversation at a time; ends where the graph leads; never stuck |
| Inbound pipeline | `processedMessageIds`, `leadMutexes`, `message_history` | handleIncomingMessage, handleMessageReceived, handleMessageSentFromPhone | redelivery, every instance handles every event | replies enqueued once, one answer per question, the mutex always comes back |
| Operators | the same rows | toggle, move lead, submit form, delete, edit | read-modify-write next to the engine | a pause is kept |
| Leader election | `instance_lock`, `leader` flag | boot, probe, heartbeat, become, step down | the lock is confirmed, not renewed; statements fail; a restart draws a new id | a stale leader steps down, no third leader, no long vacancy |
| Session manager, Redis lock, auth state | sockets, `whatsapp_sessions`, lock keys, cached credentials, active flows | start, connection.update, creds.update, reconnect, reset, reconcile, renew, step down | timers, callbacks and requests meet; the lock expires; a stale close handler | one socket under the lock, a true status, credentials that work, a user who is connected again |
| Message status, read receipts, manual send | `message_history` | updateStatusByWhatsappId, mark as read, send, echo, delete a lead | receipts race, the echo races the insert, a deletion meets an insert | the best status told, a badge that clears, no sent message missing, a deleted lead forgotten |
| Flow editing and activation | `flows`, `flow_nodes`, `node_options` | create, update, duplicate, delete; nodes; activate | rows are saved whole, several statements per request | no arrow or start that leads nowhere |
| Flow activation in proxy mode | `flows.isActive`, the events in flight | handleStatus | the statements are not awaited, every instance runs them | flows end as the connection does |
| Kanban | `kanbans`, `kanban_stages`, the stage in `conversation_progress` | create, reorder, reassign and delete, move lead, board | the usage is read before the deletion | every lead has one card, whatever is deleted |
| Forms | `forms`, `form_fields`, `form_responses` | create, update, switch, submit, delete response | an edit against a submission | a form of one edit, a column for every answer shown |
| Analytics | none: queries | two reports | days of Brasília and of UTC | the parts of a report add up |
| Users, quick replies, controllers, DTOs, JWT, storage, Socket.IO | rows without interaction, or none | | | left out |

`README.md:84-86` of the repository describes a follow-up service; no such code exists, so
none is modelled.

## 2. Modules

**Outbox** (`outbound-worker.service.ts`, `pending-outbound-message.repository.ts`). Variables
are the columns of the table by row id, the clock, the leaders, and per worker its group and
the await its current message is at. `StartTick` is the query and the grouping; `Send`,
`SendThrows`, `SendTimesOut`, `MarkSent`, `SaveHistory`, `PersistThrows`, `GiveUp`,
`Reschedule`, `CatchThrows` are the awaits of `processGroup` and their rejections;
`LateDelivery` is the job that runs after `waitUntilFinished` gave up or its process died: `Crash`
leaves in the queue the jobs that any of the process's workers (`Waiting`) had added. `StepDown`,
`DeleteConversation` and `Enqueue` come from around it. The snapshot `findReadyToSend` returned is
the worker's `group`: it is never read again, as in the code. `CatchThrows` models what
`Promise.all` does: one rejected group drops the `running` flag while the others go on, which is
why a process has several `Slot`s. `sends`, `tries`, `saved` and `scheduledAt` are history.

**DeliveryContract** is the abstract specification: replies are accepted, delivered or failed in
their turn, confirmed only when delivered, given up only after `MaxAttempts` failures, forgotten
with their conversation. Outbox implements it under `lead <- toPhone, due <- scheduledAt`
(`KeepsContract`).

**FlowGraph** is a flow as `getDetails` returns it. `Route` and `Outcome` say declaratively where
a walk must end; they are the reference the loop of the engine is checked against.

**FlowEngine** (`process-message.use-case.ts`, the two inbound pipelines, the operators'
use-cases) is one lead of one bot number: every row and the mutex are keyed by them. Each
database call is an action, named by what the code does there (`FindActive`, `FindLastFinished`,
`Create`, `CreateProgress`, `FindProgress`, `SaveAnswer`, `Advance`, the `Walk...` of the loop,
`RecordMessage`, `EnqueueReplies`). The entities a handler holds in memory are `local`; updates
write them back whole, as the repositories do, so the lost updates of the code are in the model.
`Rejected` is a write that cannot succeed (deleted conversation, message id already recorded),
`Fail` any other rejected call, `Crash` the loss of a process. An operator's request is a read
(`ToggleRead`, `StageRead`) and a write (`ToggleWrite`, `StageWrite`) with anything in between.

**LeaderElection** (`leader-election.service.ts`) is the row of `instance_lock` and the instances of
legacy mode. `Upsert` and the `SELECT` after it are two steps, of a heartbeat (`BeatUpsert`, then
`StillLeader` or `StepDown`) or of a probe or the boot (`ProbeUpsert`, then `BecomeLeader` or
`StandBy`); `BeatFails` and `ProbeFails` are the `catch`. The boot waits for `startAllSessions`
(`Started`), since `onModuleInit` awaits it and Nest mounts the intervals afterwards. A crash loses
the id of the process, so its row only expires. `onApplicationShutdown` and `releaseLock` are
absent: `main.ts` never calls `enableShutdownHooks`. Time is explicit, one unit for five seconds:
`Tick` waits for every due interval and every call, the premise of the bounds below.
`CallsFitTheRole`, a part of `TypeOK`, says which calls of `tryAcquireLock` an instance may have
under way: both intervals are mounted on every instance, and only the flag keeps them from asking
for it at once. `lostFor` and `vacantFor` are history.

**SessionManager** (`whatsapp.service.ts`, `whatsapp-auth-state.ts`, `redis-lock.service.ts`,
`whatsapp-session.repository.ts`) is one user: every map of the service is keyed by `userId`. `inst`
is what a process keeps (the mapped session, `pendingSessions`, the lock it holds, its timers, what
is left of a reset), `sock` what the closure of one `startSession` knows; around them are the Redis
lock, the cached credentials, the row and the active flows. `Start` is `startSession` up to the
lock; `Acquired`, `LoadDb`, `FillCache`, `MakeSocket` are its awaits; `Opened`, `OpenFlows`,
`ShowQr`, `Closed`, `CloseStatus`, `CloseFlows`, `CloseDecide`, `CloseDelete`, `CloseCache` the
handler of `connection.update`; `Reset...` is `forceResetSession`. A socket that is no longer the
mapped one is ignored when it closes, as in the code. A step-down empties the map while a session
may still be under construction, and that one enters the map later: the code does not look again.

Most statements of these handlers end in a `catch` that logs, or in none that matters: the status
of an opening and of a closing, the number read before a closing, the activation and the
deactivation of flows, the row a reset deletes, the reads, writes and deletions of the cache. Each
may fail (`Lapse`) and the handler goes on: `SetStatus`, `Recalled`, `FlowsOff`, `CacheDropped`,
`CacheSet`, `OpenFlows`, `ResetRow` and `Build` have both outcomes. What a lapse leaves behind is in
three history variables, each with the write that ends it: `unsaid`, the row says otherwise than the
last status asked of it, until the next status is written; `leftOn`, numbers whose flows are on by
a lapse or ahead of a connection, until a deactivation of that number succeeds; `kept`, which of the
row and the cache outlived its last deletion, until it is deleted or saved again.

**DashboardTables** has the tables the owner edits and the form of a request: a list of awaited
statements, the rows it has loaded and what the client sent. `Load` is a query for a live row that
refuses the request otherwise, and the statements of two requests interleave. Nothing locks a row
but the one transaction of several kinds of statements, the deletion of a stage (`MoveLeads`,
`MoveNodes`, `MoveFillNodes`, `FlagStage`). Under READ COMMITTED each of its statements sees what
was committed before it; the rows it has moved are `request[q].leads` and `request[q].nodes`, which
nobody else sees moved, or may write (`LeadsHeld`, `NodesHeld`), until `FlagStage` commits them.
`lateLeads` and `lateNodes` are history: what was put on its stage when a deletion no longer looked
for it. **FlowEditor** (`use-cases/flow`, `use-cases/flow-node`), **KanbanBoard**
(`use-cases/kanban`) and **FormBuilder** (`use-cases/form`) give the statements, each an action, and
the requests as lists of them (`CreateNode`, `DeleteNode`, `DeleteStage`, ...). **Dashboard**
composes the three over the shared tables: at most two requests are in flight, and any of them may
be cut short (`Abort`).

**Inbox** (`message-history.repository.ts`, `send-message`, `mark-conversation-as-read`,
`delete-conversation`, `handleMessageSentFromPhone`, `messages.update`) is the history of one lead.
A task is a request or an event, and its `pc` the await it is at: `ReadStatus` and `WriteStatus` are
the two statements of `updateStatusByWhatsappId`, `EchoEnters`, `EchoFinds`, `EchoDrops`,
`EchoOpens` the echo under the lead's mutex (dropped when the number has no active flow, or another
user's), `FindIds`, `DeleteRows`, `DeleteChats` the transaction of a deletion, which rejects when a
message was recorded meanwhile.

**Analytics** (`analytics.repository.ts`, `analytics-v2.repository.ts` and their use-cases) has one
operator per query and actions that fill the tables; flows of one title (`TitleOf`) are one row of
the first report, as its `GROUP BY` has it. Days are eight units of three hours, so that
Brasília's days (UTC-3) and the database's are both exact.

**ProxyStatus** (`handleStatus` of `wa-event-consumer.service.ts`) is the user's connection in proxy
mode. `LinkOpens` and `LinkCloses` are the external wa-worker, which saves the session and publishes;
`channel` is what each instance has not received, in order, and `pending` the statements
`HandleStatus` sent without awaiting them: they run in any order (`LookUp`, `ActivatePending`,
`DeactivateActive`), and a rejection only loses its own statement. `answering` stands for the active
flows of each number; what the owner switches by hand is FlowEditor's.

The theorems are in a module for each component: **OutboxProofs**, **LeaderProofs**,
**FlowEngineProofs** and **FlowAnswerProofs** (the properties that count and order what was said,
and the loop against the graph), **InboxProofs**, **SessionProofs**, **DashboardProofs**, and
**ConsoleProofs** (the flows that follow the connection, and the reports). The **MC** modules give
the instances: **MCFlowEngine** defines the flows that reach every branch of the engine, and
**MCConsole** puts Dashboard, Inbox, Analytics and ProxyStatus side by side in one run: what they
keep is apart, so each behaviour is about one of them.

Abstractions: a text is the option it matches (0: none); a phone, a user and a flow id are fixed;
the two reads of the flow are one step; a message of the lead always has an id; the clock of the
outbox has one-second steps and runs only while some row waits for it; the clock of the engine
counts hours and runs while nothing is being handled (an hour is far longer than a handler, and
the ten-minute memory of message ids is gone by then); WhatsApp, Postgres and BullMQ are their
calls' outcomes. A job of BullMQ reaches the lead at most once; `attempts: 3`
(`wa-job-producer.service.ts:73`) are tries of the wa-worker within one outcome, which may come
late. `createMany`, `$transaction` and single updates are atomic, but for the deletions of a lead
and of a stage, whose statements see what others commit between them.

In SessionManager a statement takes effect when it is sent and its reply comes later; an unhandled
rejection is a crash, as in Node (the deletion of the row after a logout is one). A lost command
that releases the lock leaves the key until it expires, which is `Expire`; a lost renewal is
`Expire` and `RenewFails`. A rejected activation of `StartSameNumber` changes nothing. Of a pairing
the cache holds one copy: an older copy of the same pairing's signal keys is not told apart. In the
dashboard, titles and contents are left out, one `stage` of a node stands for `kanbanStageId` and
`postFillKanbanStageId` (so that `MoveNodes` moves any of the nodes on the stage and `MoveFillNodes`
all of them), a reordering sends a permutation, consecutive upserts of a transaction are one
statement, and there is one account. The board's query also wants a phone of the form
`^[+][0-9]{10,15}$` (`kanban.repository.ts:169`): the leads of the model have one, another lead has
no card. `update-kanban-stage.use-case.ts:16` takes an optional `order` that the DTO does not
declare: `UpdateStage` is the request of the API as documented, without it. In Inbox there is one
process, in proxy mode; two processes are the subject of FlowEngine and Outbox. The queries of a
report are not one transaction in the code; what Analytics states is about a report during which
nothing is written.

## 3. Runs

| Run | Instance | Shows |
|---|---|---|
| outbox_legacy | 1 process, 2 overlapping ticks, 2 leads, 3 rows, limit 2, 2 disturbances | order, SENT and FAILED, the chat record, the contract |
| outbox_proxy | 2 processes, 2 ticks each, 1 lead, 2 rows, limit 1, 2 disturbances | duplicates when nobody claims a row and jobs run late; every row settles |
| engine_legacy | 1 process, 3 messages, 4 flows, 1 fault, 1 hour | the engine under redelivery, errors, crashes |
| engine_proxy | 2 processes, 2 messages (one from the phone), 2 flows, 1 fault | the engine without a common mutex; handlers end and give the mutex back |
| engine_operators | 1 process, 3 messages, a flow and its damaged edit, 2 requests | the operators in the middle of it |
| leader_bounds | 3 instances, lock 6, heartbeat 2, probe 3, start 2, 2 faults | which calls may be under way, how long a stale leader lasts, no third leader, how long nobody leads |
| sessions | 2 instances, 2 sockets, 3 pairings, 1 number, 1 disturbance, 2 logged failures | the lock, the status, the credentials, the pairings, and that the user is connected again |
| console | 2 requests at once, 1 cut short; 3 messages, 2 tasks, 1 crash; 2 conversations, 2 flows, 3 messages over a midnight; 2 proxy instances, 3 events, 1 fault | what the dashboard, the inbox and the reports show, and the flows after the connection changed |
| outbox_order, engine_pause, leader_replaced, status_regress | small | the findings below |

*Bounds.* `MaxAttempts` is 2 instead of 5: the counter, its stale copies and the last attempt all
occur with 2. Batch limits of 1 and 2 make the limit cut a lead's rows; the proxy run keeps 50. Two
disturbances are enough for a failure and a crash on the same row; each duplicate needs one, so with
the one lead of outbox_proxy `DuplicatesBounded` is exercised at its bound. With several leads a
deletion costs more: it ends the tick of every instance that held the rows of the deleted lead, and
each may take the rows of another again. `Price` says so; the proof needed it. Three messages reach
a question, its answer and a late third; one hour reaches the cooldown and the conversation after
it. Two operators' requests give pause and delete, or edit and stage. `MaxConv` never binds in the
passing runs' legal sequences: a message creates at most one conversation.

Three instances are the fewest that could lead all at once; two faults give a crash and a failed
statement, or two of either, and the bounds of `StaleLeaderStepsDown` and `VacancyEnds` are reached
(one less is refuted).

One disturbance of the sessions is one drop, unlinking, expired lock, rejected call, crash, early
election, or request; everything the code does about it follows, over three pairings and two
sockets, the one whose handler still runs and its successor. Two logged failures are enough for two
to meet in one closing or one reset, a lost number and a lost status for instance, or for a lost
deletion of the row and of the cache. The dashboard's conversations are two of one number, as a
returning lead leaves them. The instants of the reports lie around a midnight of UTC and of Brasília.
The same modules were also checked once on larger instances: the sessions with three sockets and one
logged failure (safety, 3.7 million states), and the inbox with three tasks (1.1 million).

*Fairness.* Outbox: `@Interval(2000)` keeps ticking, time passes, each awaited call resolves or
rejects (15 s session wait, 60 s job wait), and some instance takes the lead again; late jobs and
faults are owed to nobody. Engine: async-mutex serves its waiters and database calls resolve or
reject; nobody owes a message, a request, a fault or an hour. LeaderElection needs none: its clock
is explicit and its bounds are invariants. Sessions: intervals and timers fire, awaited calls
answer, WhatsApp opens or refuses a connection, an instance leads and a key nobody renews expires; a
scan, a message, a request and any disturbance are owed to nobody. The console has no liveness:
requests end by themselves.

*Deadlock* is checked for the outbox, the engine and the election; `Quiet` is the stuttering of a
system with nothing to do. `sessions` and `console` switch it off, because there everything may be
over: a user without a pairing, all requests answered. `Served` is what a stuck session would break.

*Qualified properties.* `OneActiveConversation` needs no operator's request to overlap a handler
(the toggle writes a stale status back) and holds in legacy mode only: with two instances, each
under its own mutex, nothing in the code promises it, so `engine_proxy` does not ask for it.
`AsksWhatItAwaits` and `AnswersMatchQuestions` also exclude faults and messages that come again
after their id was forgotten: there the code does lose replies, or ask twice. `SocketsHoldTheLock`
excuses the instances in `raced`: those where a lock expired under a live process, a step-down met a
session under construction, or a start met the close handler or a reset. `StatusAndFlowsAreTrue` and
`CredentialsAgree` speak of a calm system, and `blurred` is an end of a socket that no handler saw,
or a save that reaches the cache when its row is gone (section 4). The failures the code logs do not
end the calm; each claim excepts what a lapse left behind and no longer than until the write that
mends it (`unsaid`, `leftOn`, `kept`). `TablesStayWhole` and `BoardShowsEveryLead` exclude requests
that overlap, for which the code promises nothing; `OnlyLateWritersStrand` does not exclude them: it
names what the overlap of a deletion may strand, the rows put on the stage after the statement that
looks for them, and requires that nothing else is. Nor do any of the inbox's properties exclude
overlapping tasks: `StatusIsTheBestTold` leaves out just the messages two tasks were updating at the
same time, which `status_regress` is about. `FlowsFollowTheLink` excuses an event handled before an
earlier statement of that instance had run (`met`), an event that did not say its number and whose
row said another or none (`strayed`), and losses; instances that lag behind one another are not
excused.

## 4. Findings

1. **Order is not preserved** (`outbox_order`). The comments at `outbound-worker.service.ts:45` and
   `:129` promise the order of a lead. A failed reply is rescheduled 2 s or more away and the
   rest of its group stays due: the next tick sends the later replies first. What does hold is
   `InversionNeedsFailure`: an inversion always needs a failed attempt.
   In the same way a permanent failure does not stop the sequence (`:108-109`): only this tick's
   group stops.
2. **A pause may be undone** (`engine_pause`). `process-message.use-case.ts:105-107` keeps a paused
   lead paused, but `finish()` is saved with the whole row as the engine read it, so a toggle in
   between is lost and the bot speaks again after the cooldown. `PausedStaysPaused` holds when
   no request overlaps a handler.
3. **A live leader is replaced** (`leader_replaced`). `leader-election.service.ts:58` says the leader
   renews the lock every 10 s and `:73` that a standby takes over when the leader dies. The upsert
   touches the row only once it has expired (`:108`), so a heartbeat never extends it: 30 s after a
   takeover the next probe or heartbeat of any instance wins it. Two instances then lead until the
   old one's heartbeat. What does hold is below: never three, and not for long.
4. **A status may regress** (`status_regress`). `message-history.repository.ts:68` says a status only
   evolves. It is read, compared and then written without a condition: of two receipts handled
   together the lower one may be written last. `StatusIsTheBestTold` holds for every other message.

Met while modelling, each in the models, without a run of its own:

- *The cooldown is one hour* (`process-message.use-case.ts:93`), where `README.md:95`, the comment at
  `:84` and the test at `process-message.use-case.spec.ts:404` say 24.
- *Sessions.* A step-down during a construction leaves a socket without a lock. A late close handler
  releases the lock, or deletes the row, under a newer socket. `forceResetSession` releases the lock
  first, so a reconciliation in between starts with the old credentials. The comment at
  `whatsapp.service.ts:584-588` says a replaced connection is not restarted; `reconcileSessions`
  restarts it. After a lost lock or a crash the status stays CONNECTED until the next mark. A save of the
  credentials is a write of the row and then one of the cache; when a logout deletes the row in
  between, the cache keeps the deleted credentials, against the comment at
  `whatsapp-auth-state.ts:13-18`. This one came up in the proof of `CredentialsAgree`.
- *Lapses.* A lost write of the status leaves a user shown CONNECTED without a connection, or the
  reverse, and nothing compares the two before the next opening, closing or election. A lost read of
  the number (`whatsapp.service.ts:536`) leaves the flows on for good, since nobody remembers the
  number. A lost `redis.del` (`whatsapp-auth-state.ts:31`) makes the next start use deleted
  credentials, which WhatsApp refuses; its close handler then deletes row and cache again. If a
  read of the cache is lost too, the user pairs anew over the old copy, and a restart that reads it
  before the save has overwritten it ends in the deletion of the new pairing.
- *Flows.* Overlapping requests save stale rows whole: an activation is undone, a deleted row comes
  back. `create-flow` allows one flow per user, but two that overlap create two, and `duplicate`
  does not look. `duplicate` fails on the foreign key of `defaultNextNodeId` when a node comes
  before its next one. Deleting the start node leaves an active flow without a start, and
  `set-flow-start-node` takes any node.
- *Boards.* The usage of a stage is read before the deletion, so a lead moved in between loses its
  stage without the target the API demands (`kanban.controller.ts:167`). A lead moved to the stage
  after `kanban-stage.repository.ts:97-100` has run, or a node saved on it after its two updates, is on
  a deleted stage when the transaction commits: no column shows the card. `kanban.dto.ts` calls the
  creation with stages atomic; it is a loop. `getMaxOrder` gives the first stage of an empty kanban
  the order 1. A flow linked to another kanban takes its leads off both boards.
- *Forms.* `submit-form-response` does not look at `isActive`, and takes the stage from the link as
  it is. An update is two statements, and two that overlap mix their fields.
- *Inbox.* A receipt that comes before its row is lost. An echo that overtakes the request's insert opens
  a paused conversation for a finished lead, and the request answers 500. An echo that waits for
  the mutex records its message for a lead deleted meanwhile. The badge counts the latest
  conversation only.
- *Connection events in proxy mode.* A late deactivation may undo the activation of the next
  connection. A disconnection that does not say its number asks the row, which may be cleared by
  then, or hold the next number: the flows stay on, or the wrong ones go off. `activatePending` takes
  any inactive flow of the number, one its owner had switched off included.
- *Reports.* The pipeline follows neither the flow filter nor the deletion of flows. The sparkline is
  said not to follow the period (`analytics-v2.repository.ts:158`) but ends with it, and the window before it
  misses most of its last day. The default period is not aligned to days. A report on one day of
  Brasília shows two dates.

## 5. Proofs

All theorems are checked by tlapm to the last leaf. Each rests on the named assumption of its
module and on nothing else; the assumptions give the constants their sorts (a set is finite, a
number is natural, `None` is no element) and bound nothing the code does not bound. Every
invariant below was checked with TLC before it was proved.

**OutboxProofs**, from `OutboxAssumption` (any numbers of instances, overlapping ticks, leads, rows;
any batch limit and `MaxAttempts >= 1`; both modes):

| Theorem | Says |
|---|---|
| `TypeCorrect` | `Spec => []TypeOK` |
| `SentRowsWereDelivered`, `NoHastyFailure` | SENT means delivered; FAILED means tried `MaxAttempts` times |
| `OrderIsLostOnlyByFailure` | `Spec => []InversionNeedsFailure` |
| `SettledRowsStaySilent` | the action property `SettledStaysSilent` |
| `SentRowsAreRecorded` | undisturbed, a SENT row has its entry in the chat |
| `DuplicatesArePaidFor` | a row goes out once per instance, and then at the price of a disturbance |
| `OutboxKeepsContract` | Outbox refines DeliveryContract |

The argument has layers. `TypeOK` is inductive as it stands. `HandledInv` adds what each worker
knows: past its send the message went out, and in the catch block `tries` is above the `attempts` of
its copy. Without it `SentIsDelivered` is not inductive, because `MarkSent` does not look at what was
sent, nor is `GivenUpOnlyAfterMaxAttempts`, because `GiveUp` counts on a copy that other workers have
overtaken. `OrderInv` carries the order through the stale groups: untouched rows are due when they
were scheduled (`DueInv`), a worker that holds a row holds every untouched earlier row of the lead
in front of it (`GroupInv`, from the lemma `QueryIsPrefix`: the limit cuts a prefix), rows not
created yet are blank (`FreshInv`), and touched rows precede untouched ones (`TurnInv`).
The refinement follows step by step: the message a worker is at is in its turn (`FirstIsInTurn`).
`RecordInv` is one row's way from `MarkSent` to `SaveHistory`. The duplicates are a budget
(`BudgetInv`): what went out, the late jobs, the workers that are going to send the row (`Senders`)
and the instances whose next tick may take it again (`Takers`) are together at most one per
instance and the price of each disturbance; a tick moves an instance from the takers to the
senders, and only a disturbance, or the deletion of another lead, puts it back. `OnceInv` keeps one
group from holding a row twice. A crash turns senders into late jobs (`CrashLeaves`),
which the budget counts alike; for the order a row has begun when it was touched or has such a job
(`Begun`), since only the first row of a group can have one.

**LeaderProofs**, from `ElectionAssumption` (any number of instances, any periods, any number of
faults):

| Theorem | Says |
|---|---|
| `TypesHold` | `Spec => []TypeOK`, with the calls that fit an instance's role |
| `StaleLeadersStepDown` | with `QuickStart` (a lock outlives the start of the sessions and a heartbeat's period), a leader that lost the row leads for less than `HeartbeatEvery` |
| `NoThirdLeader` | with `QuickStart`, at most two instances lead |
| `VacanciesEnd` | nobody leads for `Ttl + ProbeEvery` at most, while an instance is up and nothing fails |

None of the bounds is inductive: `LifeInv` first says what each stage of an instance rules out
(who is down leads nothing; a call that may still win saw an unexpired row). `LateInv` gives
`lostFor + heartbeatIn` as the measure of a stale leader; it starts below a period because a
booting leader's lock outlives its start, and because a heartbeat that finds the row expired wins
it. `OneStaleInv` says that whoever is stale has been so for as long as the row has its owner; the
row cannot change hands again before it expires, by which time the stale one is gone, so there is
one at most, and the leaders are it and the owner. `VacancyInv` measures a vacancy by
`vacantFor + left` until the row expires and by `vacantFor + probeIn` after.

**FlowEngineProofs** and **FlowAnswerProofs**, from `EngineAssumption` (any flows of
finitely many nodes and edits of them, any numbers of messages, faults, requests, hours; instances:
any for the first three, one for the rest):

| Theorem | Says |
|---|---|
| `EngineTypes` | `Spec => []TypeOK`; a handler runs only while it holds its lead's mutex |
| `EveryReplyOnce` | the replies to a message are enqueued once in the history of the lead |
| `WalksEndWhereTheGraphLeads` | what the loop says, and where it stops, is what the graph says; with one process, so do the rows |
| `OneConversation` | with one process, never two active conversations unless a request overlapped a handler |
| `PausedLeadsStaySilent` | with one process, a lead switched off gets no reply to a later message |
| `BotStandsAtItsQuestion` | with one process, undisturbed, the bot waits at the question it asked last |
| `AnswersHaveQuestions` | with one process, undisturbed, no question has more answers than it was asked |

The last four have the hypothesis `Instance = {i}`: legacy mode, where only the leader
handles messages, or a single API in proxy mode. It is no convenience; with two processes the
properties are false of the code, as section 3 says. `HandlerInv` says what a handler at each of its
awaits knows of its message and of the entities it holds, which makes the types inductive
(`Sound`). `ReplyInv` is the unique index at work: of the handlers of one message only the one whose
insert succeeded is on the way to enqueue. `OneInv` and `PauseInv` are about the mutex: the handler
between `FindActive` and `Create` still knows that no conversation is active, and one that began
after the switch-off has read it; with the requests, they end in `\/ overlap`, the history variable
that records a request in the middle of a handler. `AskInv` says that an active conversation was
asked its question or that the handler working on it will have asked it when it leaves;
`CountInv` that this question was asked more often than answered, or is about to be. The counts of
questions are lengths of filtered sequences: the lemmas say how one appended message changes them.

`WalksEndWhereTheGraphLeads` has two halves. About graphs: `Outcome` is the longest path without
repetition, which a loop that goes step by step does not look for. Two paths from one node agree as
far as both go (`SamePath`, by the first place where they would differ), so a path that leads
nowhere, or back into itself, is the longest (`LongestIsRoute`) and the outcome can be read off it
(`OutcomeOf`). About the engine: `WalkInv` says that while the loop runs, what it has said is a path
to the node it stands at and `visited` are its nodes (`Walked`); each turn lengthens the path
(`WalkGoesOn`) or finds one of the two ends (`WalkEndsInCycle`, `WalkEndsHere`). `RowsInv` adds, for
one process, what the conversation and its progress row hold at each of the loop's writes: the
engine saves only what has changed, so a lost node leaves the row of the turn before, which must be
right.

**InboxProofs**, from `InboxAssumption` (any numbers of messages, conversations, requests, events,
crashes):

| Theorem | Says |
|---|---|
| `StatusesAreBest` | a message has the best status it was told, unless two updates of it met |
| `BadgesAreCleared` | what mark-as-read listed stays off the badge |
| `EchoesAreRecorded` | with no deletion, a message whose echo was handled is in the history |
| `DeletionForgets` | no page shows what a completed deletion had seen, but for an echo recorded again |

`BestInv` is about the task between its two statements: it holds a status no worse than the row's
and is alone with that row, unless the message is in `raced`. `BadgeInv` needs `SideInv`, by which
only READ is ever written to a message of the lead. `KeptInv` says that conversations stay while
nobody deletes, so that an echo that found nothing can insert. `ForgetInv` follows what a deletion
saw: it is in a conversation the deletion is going to delete, or gone, or its echo came again; and
an insert of a request that the deletion overtook finds no conversation.

**ConsoleProofs**, from `StatusAssumption` (any numbers of instances, numbers, events) and
`AnalyticsAssumption` (any finite sets of conversations, flows and columns, any moments, any length
of the sparkline; moments are numbers):

| Theorem | Says |
|---|---|
| `FlowsAreAsTheLink` | `StatusSpec => []FlowsFollowTheLink` |
| `ReportsInvariant` | `AnalyticsSpec => []ReportsInv`: nothing in the tables is later than now |
| `ReportsAgree` | `AnalyticsSpec => []ReportsAddUp` |

While nothing was lost, `met` or `strayed`
(`FollowInv`), an instance has one statement in hand (`OneInHand`); the last thing each instance
hears, or does, about a number is what the link is now (`LastWord`); and a number whose flows are
not as the link is, is owed a statement by some instance (`SomeoneOwes`). Instances that lag behind
repeat old words, so the proof has to show that they always say the last one after them.

A sum of the reports is a fold over the keys of a GROUP BY. `TotalByKey` says what it comes to:
groups that count the elements of a set by a key make together the elements whose key is among the
groups. It needs no induction with an operator: the fold and the function that counts obey the same
recursion, and a smallest set of keys on which they differ (`FirstLoss`, from the library's
well-founded minimum) would be empty and could not be. Which keys those are is then the content of
`ReportsAddUp`, part by part: every lead of the period has its day and its status in the table
(`GroupsAddUp`); the flows that are listed are those that are not deleted, as in the filter of every
other query (`InALine`, `OfALine`); the sparkline leaves out what is after its days (`Spark`), for
each flow and for all of them alike; and the cards of today, which have no end, agree with a period
that has one because nothing is later than now and now is not later than the end of either today
(`TodayIsNotOver`), the one place where the invariant of the tables matters. The proof holds for any
period, the default one that does not begin at midnight included.

**SessionProofs**, from `SessionAssumption` (any numbers of instances, sockets, pairings, numbers,
events, lapses):

| Theorem | Says |
|---|---|
| `SessionTypes` | `Spec => []TypeOK` |
| `SocketsAreProtected` | where no operations met, a connection is its process's session, under the lock |
| `StatusFollowsTheConnection` | in a calm system, CONNECTED means an open connection, and so do active flows, but for what a lapse left (`unsaid`, `leftOn`) |
| `StoresAgree` | in a calm system the cache holds the row's credentials or none, and the row a pairing that stands, but for a copy whose deletion failed (`kept`) |
| `PairingsSurvive` | the action property: only a change of number, or a start from a cache that outlived its deletion, deletes a pairing that stands |

`SessionInv` is the lock. A process's map and its reset point to live sockets of its own and not to
the same one (`PointsInv`); on an instance that is not in `raced`, whoever believes in the key has
it (`KeyHeld`), a socket under construction is the only one and `pendingSessions` says so, a live
one is the mapped session (`OneStands`), and nothing stands while the lock is being won or a close
handler, whose last step releases the lock, is under way (`NothingStands`). `CalmInv` stands on it:
while nothing was raced or blurred, a close handler and a reset work alone (`AloneInv`), and outside
a reset the row, the number and the flows are those of the open socket or of the handler that is
about to change them (`StatusInv`, `FlowsInv`), cache, row and sockets hold the same credentials
(`CacheInv`, `SameCredsInv`), and a pairing that is gone has a handler that deletes its row, which
has no other row to delete (`PairingInv`). Each part says what a lapse takes away from it and keeps
saying the rest: with the deletion of the cache lost (`"cache" \in kept`) a socket may be built from
credentials the row does not have, but the status and the flows still follow the connection.
`PairingsAreKept` is a step of `PairingInv`.

**DashboardProofs**, from `TablesAssumption` (any numbers of requests, of rows of every table, of
conversations and of requests cut short; ids are numbers, so that a fresh row has a smallest id):

| Theorem | Says |
|---|---|
| `StrandInvariant` | `DashboardSpec => []StrandInv`: requests are chains of statements that know their rows |
| `DeletedStagesAreLeft` | `DashboardSpec => []OnlyLateWritersStrand`: whatever overlaps a deletion, it strands only what came after the statement that looks for such rows |
| `AloneInvariant` | `DashboardSpec => []AloneInv`: what one request at a time keeps and knows |
| `TablesWhole` | `DashboardSpec => []TablesStayWhole` |
| `LeadsShown` | `DashboardSpec => []BoardShowsEveryLead` |

The model's requests are lists of statements, and the proof has to know which statement a request
may be at. `Follows` says which statement comes after which in a request of each name; `Chained`
that what is left of a request is such a chain to its end, which every step keeps because a tail of
a chain is one (`ChainGoesOn`). On top of that `Knows` says what a request at a statement has: the
row of a node or of a live stage after it was loaded, a target other than the stage to delete, and,
for a reordering, one loaded row for each save that is left. Whatever the other requests do, the
rows in hand stay what they are, so these facts need nobody to be alone.

`OnlyLateWritersStrand` is not inductive: at the commit it is the earlier statements that have seen
to it. `KeptInv` says where a lead or a node that is not late may be. It is on no deleted stage, and
if it is on a stage whose deletion is past the statement that looks for it (`Swept` for the leads),
then the deletion holds it (`LeadKept`, `NodeKept`). A row that is held cannot be moved by others,
and one that is put on a stage past that statement is late by definition, so the commit takes the
stage from nobody but the late. The two deletions that may each move rows to the stage of the other
meet the same way: the second to commit puts its rows on a stage that is deleted, or will be, and
they are late. What is put on a deleted stage counts as late only if requests overlapped, or a link
of a form is older than the deletion: one request at a time strands nothing.

`TablesStayWhole` and `BoardShowsEveryLead` speak of a dashboard at rest, and in the middle of a
request much of what they say is false in general: a reordering has given two stages one place, a
node about to be deleted has lost its options. `AloneInv` says what is true at every statement while
requests do not overlap: nobody else is under way (`Alone`), the tables are whole (`TablesInv`: one
part each for the editor, the forms, the boards and the leads), and the request knows of the tables
what its next statement relies on (`KnowsAlone`). The row in its hands is still the row of the
table, so the save of a whole row changes one column only. `KnowsDoomed` is the order of delete-node
as a staircase: after each statement one more table no longer refers to the node, so that none does
when the row is deleted, and what was done before a crash is harmless. `KnowsPlaces` says that the
places saved and those still in the list make one permutation of the kanban's stages, from which
order follows at the last save and not before; `StagesInv` therefore excuses the kanban being
reordered, and `TablesStayWhole` those whose reordering was cut short. `LeadsInv` follows the first
flow: what is not deleted is on stages of its kanban, which only a request that `Quiet` excludes can
change. Each statement is proved to keep each of the four parts (`FlowAlone`, `FormAlone`,
`StageAlone`, `LeadAlone`); a request that arrives knows what the page showed (`ArrivesAlone`), one
that is cut short leaves the tables as they are (`AbortAlone`).

*What failed proofs showed.* The bound of `DuplicatesBounded` was too low for two leads (`Price`);
the model let a save find its row before the cache write, which the code does not do, and hid the
finding of section 4 about late saves; a deletion of the lead did not reset the history of replies;
only an END node may be blank.

*Model-checked only.* Liveness (`EverySettles`, `EveryMessageHandled`, `Served`) and `ENABLED`
are beyond the prover. Every invariant that a passing run checks is the consequence of a theorem.

## 6. Plan

Not modelled: users and quick replies (single rows without interaction); the live activity, the list
of sessions and the average response time of the reports (orderings of texts and averages of
timestamps, nothing to relate them to); the counters in lists; the wa-worker (another repository);
Redis without a lock service (`REDIS_URL` unset: every lock is granted, and one instance is
assumed); controllers, DTOs and tokens (no state), storage and Socket.IO (I/O), generated Prisma
code.
