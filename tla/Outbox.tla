------------------------------- MODULE Outbox -------------------------------
(***************************************************************************)
(* The outbox: the table pending_outbound_message and the polling worker   *)
(* that empties it (OutboundWorkerService, PendingOutboundMessageRepository*)
(* and the send calls it awaits).  Every await of the worker is a step, so *)
(* other groups, other instances, a crash or a deletion may come between.  *)
(*                                                                         *)
(* Time.  One unit is one second.  The clock advances only while some      *)
(* pending row is not due yet: letting it run otherwise changes no order   *)
(* among due rows and no guard, it would only make the state space endless.*)
(***************************************************************************)
EXTENDS Integers, FiniteSets

CONSTANTS
  Instance,         \* API processes
  Slot,             \* overlapping ticks one process may have
  Lead,             \* <<userId, toPhoneNumber>> pairs
  NoLead, NoTick,   \* "no lead" and "no tick is running"
  Proxy,            \* WA_WORKER_ENABLED
  BatchSize, MaxAttempts, MaxBackoff, Spacing,  \* BATCH_SIZE, ... , 3000 ms
  MaxRows, MaxBatch,    \* bounds: rows ever enqueued, replies of one message
  MaxDisturbances       \* bound: errors, crashes, step-downs and deletions

ASSUME OutboxAssumption ==
  /\ IsFiniteSet(Instance) /\ Instance # {}
  /\ IsFiniteSet(Slot) /\ IsFiniteSet(Lead)
  /\ NoLead \notin Lead /\ NoTick \notin Slot
  /\ Proxy \in BOOLEAN
  /\ BatchSize \in Nat \ {0} /\ MaxAttempts \in Nat \ {0}
  /\ MaxBackoff \in Nat /\ Spacing \in Nat
  /\ MaxRows \in Nat /\ MaxBatch \in Nat /\ MaxDisturbances \in Nat

RowId == 1 .. MaxRows                 \* ids in createdAt order
Worker == Instance \X Slot \X Lead    \* one processGroup call

VARIABLES
  status, attempts, nextAttemptAt, toPhone,  \* the columns, by row id
  lastId,           \* rows created so far
  now,              \* the database clock
  leaders,          \* instances that believe to be the leader
  running,          \* per instance: the tick that holds the running flag
  group,            \* per worker: the messages of its group not done yet
  step,             \* per worker: the await its current message is at
  late,             \* per row: jobs nobody waits for that the wa-worker may still run
  \* history of the behaviour, for the properties; no guard reads it
  scheduledAt,      \* the nextAttemptAt a row was created with
  sends,            \* times the message of a row went out to WhatsApp
  tries,            \* attempts at a row that ended in the catch block
  saved,            \* message_history rows written for a row
  \* budget of the bound MaxDisturbances
  disturbances      \* errors, crashes, step-downs, deletions so far

table == <<status, attempts, nextAttemptAt, toPhone, lastId, scheduledAt>>
process == <<leaders, running, group, step>>
world == <<sends, tries, saved>>
vars == <<table, now, process, late, world, disturbances>>

-----------------------------------------------------------------------------
Status == {"ABSENT", "PENDING", "SENT", "FAILED"}
Step == {"send", "mark", "history", "catch"}

\* A message as findReadyToSend returned it; the worker never reads it again.
Message == [id : RowId, attempts : 0 .. MaxAttempts - 1, at : Nat]

Precedes(m, n) == m.at < n.at \/ (m.at = n.at /\ m.id < n.id)

ComesLast(m, S) == m \in S /\ \A n \in S \ {m} : Precedes(n, m)  \* mutant
ComesFirst(m, S) == m \in S /\ \A n \in S \ {m} : Precedes(m, n)

\* where status = PENDING and nextAttemptAt <= now
ReadyAnyStatus(r) == status[r] # "ABSENT" /\ nextAttemptAt[r] <= now  \* mutant
Ready(r) == status[r] = "PENDING" /\ nextAttemptAt[r] <= now

ReadyMessages ==
  {[id |-> r, attempts |-> attempts[r], at |-> nextAttemptAt[r]] :
     r \in {r \in RowId : Ready(r)}}

\* orderBy nextAttemptAt, createdAt; take limit
FindReadyToSend ==
  {m \in ReadyMessages :
     Cardinality({n \in ReadyMessages : Precedes(n, m)}) < BatchSize}

\* Math.min(2 ** a, 300) seconds
Backoff(a) == IF 2 ^ a \in 0 .. MaxBackoff THEN 2 ^ a ELSE MaxBackoff

Busy(i, s) == \E l \in Lead : group[<<i, s, l>>] # {}

Disturb == /\ disturbances < MaxDisturbances
           /\ disturbances' = disturbances + 1

-----------------------------------------------------------------------------
Init ==
  /\ status = [r \in RowId |-> "ABSENT"]
  /\ attempts = [r \in RowId |-> 0]
  /\ nextAttemptAt = [r \in RowId |-> 0]
  /\ toPhone = [r \in RowId |-> NoLead]
  /\ lastId = 0
  /\ now = 0
  /\ leaders = {}
  /\ running = [i \in Instance |-> NoTick]
  /\ group = [w \in Worker |-> {}]
  /\ step = [w \in Worker |-> "send"]
  /\ late = [r \in RowId |-> 0]
  /\ scheduledAt = [r \in RowId |-> 0]
  /\ sends = [r \in RowId |-> 0]
  /\ tries = [r \in RowId |-> 0]
  /\ saved = [r \in RowId |-> 0]
  /\ disturbances = 0

\* The replies to one inbound message, created together and due 3 s apart.
Enqueue(l, n) ==
  LET new == lastId + 1 .. lastId + n
      Due(r) == now + (r - lastId - 1) * Spacing
  IN  /\ lastId + n <= MaxRows
      /\ lastId' = lastId + n
      /\ status' = [r \in RowId |-> IF r \in new THEN "PENDING" ELSE status[r]]
      /\ nextAttemptAt' =
           [r \in RowId |-> IF r \in new THEN Due(r) ELSE nextAttemptAt[r]]
      /\ scheduledAt' =
           [r \in RowId |-> IF r \in new THEN Due(r) ELSE scheduledAt[r]]
      /\ toPhone' = [r \in RowId |-> IF r \in new THEN l ELSE toPhone[r]]
      /\ UNCHANGED <<attempts, now, process, late, world, disturbances>>

AdvanceClock ==
  /\ \E r \in RowId : status[r] = "PENDING" /\ nextAttemptAt[r] > now
  /\ now' = now + 1
  /\ UNCHANGED <<table, process, late, world, disturbances>>

-----------------------------------------------------------------------------
\* Leadership, as the worker sees it (LeaderElectionService).  Nothing stops
\* two instances from believing it at once: its lock expires unrenewed.
BecomeLeader(i) ==
  /\ ~Proxy
  /\ i \notin leaders
  /\ leaders' = leaders \cup {i}
  /\ UNCHANGED <<table, now, running, group, step, late, world, disturbances>>

StepDown(i) ==
  /\ i \in leaders
  /\ Disturb
  /\ leaders' = leaders \ {i}
  /\ UNCHANGED <<table, now, running, group, step, late, world>>

\* tick: one query, then one group per lead, all of them concurrent.
MayTickUnguarded(i) == Proxy \/ i \in leaders  \* mutant
MayTick(i) == (Proxy \/ i \in leaders) /\ running[i] = NoTick

StartTick(i, s) ==
  /\ MayTick(i)
  /\ ~Busy(i, s)
  /\ ReadyMessages # {}
  /\ running' = [running EXCEPT ![i] = s]
  /\ group' = [w \in Worker |->
                 IF w[1] = i /\ w[2] = s
                 THEN {m \in FindReadyToSend : toPhone[m.id] = w[3]}
                 ELSE group[w]]
  /\ UNCHANGED <<table, now, leaders, step, late, world, disturbances>>

\* Promise.all resolved: the finally block drops the flag.
FinishTick(i) ==
  /\ running[i] # NoTick
  /\ ~Busy(i, running[i])
  /\ running' = [running EXCEPT ![i] = NoTick]
  /\ UNCHANGED <<table, now, leaders, group, step, late, world, disturbances>>

-----------------------------------------------------------------------------
\* processGroup.  m is the message the loop is at.
Goto(w, st) == step' = [step EXCEPT ![w] = st]

\* The loop goes on, or returns.
NextMessage(w, m) == /\ group' = [group EXCEPT ![w] = @ \ {m}]
                     /\ Goto(w, "send")
Abandon(w) == /\ group' = [group EXCEPT ![w] = {}]
              /\ Goto(w, "send")

Send(w, m) ==
  /\ step[w] = "send"
  /\ sends' = [sends EXCEPT ![m.id] = @ + 1]
  /\ Goto(w, "mark")
  /\ UNCHANGED <<table, now, leaders, running, group, late, tries, saved,
                 disturbances>>

\* mutant: the error of the send is swallowed
SendThrowsUnseen(w, m) ==
  /\ step[w] = "send"
  /\ Disturb
  /\ Goto(w, "mark")
  /\ UNCHANGED <<table, now, leaders, running, group, late, world>>

\* No session, no JID, a closed socket: nothing went out.
SendThrows(w, m) ==
  /\ step[w] = "send"
  /\ Disturb
  /\ Goto(w, "catch")
  /\ tries' = [tries EXCEPT ![m.id] = @ + 1]
  /\ UNCHANGED <<table, now, leaders, running, group, late, sends, saved>>

\* waitUntilFinished gives up after 60 s; the job stays in the queue.
SendTimesOut(w, m) ==
  /\ Proxy
  /\ step[w] = "send"
  /\ Disturb
  /\ Goto(w, "catch")
  /\ late' = [late EXCEPT ![m.id] = @ + 1]
  /\ tries' = [tries EXCEPT ![m.id] = @ + 1]
  /\ UNCHANGED <<table, now, leaders, running, group, sends, saved>>

LateDelivery(r) ==
  /\ late[r] > 0
  /\ late' = [late EXCEPT ![r] = @ - 1]
  /\ sends' = [sends EXCEPT ![r] = @ + 1]
  /\ UNCHANGED <<table, now, process, tries, saved, disturbances>>

\* mutant: the history entry is forgotten
MarkSentOnly(w, m) ==
  /\ step[w] = "mark"
  /\ status[m.id] # "ABSENT"
  /\ status' = [status EXCEPT ![m.id] = "SENT"]
  /\ NextMessage(w, m)
  /\ UNCHANGED <<attempts, nextAttemptAt, toPhone, lastId, scheduledAt, now,
                 leaders, running, late, world, disturbances>>

MarkSent(w, m) ==
  /\ step[w] = "mark"
  /\ status[m.id] # "ABSENT"
  /\ status' = [status EXCEPT ![m.id] = "SENT"]
  /\ Goto(w, "history")
  /\ UNCHANGED <<attempts, nextAttemptAt, toPhone, lastId, scheduledAt, now,
                 leaders, running, group, late, world, disturbances>>

SaveHistory(w, m) ==
  /\ step[w] = "history"
  /\ status[m.id] # "ABSENT"
  /\ saved' = [saved EXCEPT ![m.id] = @ + 1]
  /\ NextMessage(w, m)
  /\ UNCHANGED <<table, now, leaders, running, late, sends, tries, disturbances>>

\* markSent or messageHistoryRepository.create rejects: the database failed, or
\* the conversation was deleted and took the row (or the foreign key) with it.
PersistThrows(w, m) ==
  /\ step[w] \in {"mark", "history"}
  /\ IF status[m.id] = "ABSENT" THEN UNCHANGED disturbances ELSE Disturb
  /\ Goto(w, "catch")
  /\ tries' = [tries EXCEPT ![m.id] = @ + 1]
  /\ UNCHANGED <<table, now, leaders, running, group, late, sends, saved>>

\* The catch block: attempts comes from the snapshot, not from the row.
GivesUpLate(a) == a > MaxAttempts            \* mutant
GivesUpEarly(a) == a + 1 >= MaxAttempts      \* mutant
GivesUp(a) == a >= MaxAttempts

GiveUp(w, m) ==
  /\ step[w] = "catch"
  /\ status[m.id] # "ABSENT"
  /\ GivesUp(m.attempts + 1)
  /\ status' = [status EXCEPT ![m.id] = "FAILED"]
  /\ Abandon(w)
  /\ UNCHANGED <<attempts, nextAttemptAt, toPhone, lastId, scheduledAt, now,
                 leaders, running, late, world, disturbances>>

Reschedule(w, m) ==
  /\ step[w] = "catch"
  /\ status[m.id] # "ABSENT"
  /\ ~GivesUp(m.attempts + 1)
  /\ attempts' = [attempts EXCEPT ![m.id] = m.attempts + 1]
  /\ nextAttemptAt' = [nextAttemptAt EXCEPT ![m.id] = now + Backoff(m.attempts + 1)]
  /\ Abandon(w)
  /\ UNCHANGED <<status, toPhone, lastId, scheduledAt, now, leaders, running,
                 late, world, disturbances>>

\* mutant: the catch block retries its write until it succeeds
CatchRetries(w, m) ==
  /\ step[w] = "catch"
  /\ status[m.id] = "ABSENT"
  /\ UNCHANGED vars

\* The write of the catch block rejects too: processGroup rejects, Promise.all
\* with it, and tick drops the running flag while its other groups go on.
CatchThrows(w, m) ==
  /\ step[w] = "catch"
  /\ IF status[m.id] = "ABSENT" THEN UNCHANGED disturbances ELSE Disturb
  /\ Abandon(w)
  /\ running' = [running EXCEPT ![w[1]] = IF @ = w[2] THEN NoTick ELSE @]
  /\ UNCHANGED <<table, now, leaders, late, world>>

WorkerStep(w) ==
  \E m \in group[w] :
    /\ ComesFirst(m, group[w])
    /\ \/ Send(w, m) \/ SendThrows(w, m) \/ SendTimesOut(w, m)
       \/ MarkSent(w, m) \/ SaveHistory(w, m) \/ PersistThrows(w, m)
       \/ GiveUp(w, m) \/ Reschedule(w, m) \/ CatchThrows(w, m)

-----------------------------------------------------------------------------
\* Deleting a conversation removes the outbox rows and the history of the lead.
DeleteConversation(l) ==
  LET gone == {r \in RowId : toPhone[r] = l}
  IN  /\ \E r \in gone : status[r] # "ABSENT"
      /\ Disturb
      /\ status' = [r \in RowId |-> IF r \in gone THEN "ABSENT" ELSE status[r]]
      /\ saved' = [r \in RowId |-> IF r \in gone THEN 0 ELSE saved[r]]
      /\ UNCHANGED <<attempts, nextAttemptAt, toPhone, lastId, scheduledAt, now,
                     process, late, sends, tries>>

\* The workers of a process that may have queued a job and be waiting for it.
IsAt(w, r) == \E m \in group[w] : m.id = r /\ ComesFirst(m, group[w])
Waiting(i) ==
  {w \in Worker : Proxy /\ w[1] = i /\ step[w] = "send" /\ group[w] # {}}

\* The process dies and starts again: everything it held in memory is gone. A job
\* it queued and was waiting for stays in the queue.
Crash(i) ==
  /\ i \in leaders \/ running[i] # NoTick \/ \E s \in Slot : Busy(i, s)
  /\ Disturb
  /\ leaders' = leaders \ {i}
  /\ running' = [running EXCEPT ![i] = NoTick]
  /\ group' = [w \in Worker |-> IF w[1] = i THEN {} ELSE group[w]]
  /\ step' = [w \in Worker |-> IF w[1] = i THEN "send" ELSE step[w]]
  /\ \E queued \in SUBSET Waiting(i) :
       late' = [r \in RowId |-> late[r] + Cardinality({w \in queued : IsAt(w, r)})]
  /\ UNCHANGED <<table, now, world>>

\* Nothing left to do: the ticks that find nothing change nothing.
Quiet ==
  /\ \A r \in RowId : status[r] # "PENDING"
  /\ \A w \in Worker : group[w] = {}
  /\ UNCHANGED vars

Next ==
  \/ \E l \in Lead, n \in 1 .. MaxBatch : Enqueue(l, n)
  \/ AdvanceClock
  \/ \E i \in Instance :
       \/ BecomeLeader(i) \/ StepDown(i)
       \/ \E s \in Slot : StartTick(i, s)
       \/ FinishTick(i) \/ Crash(i)
  \/ \E w \in Worker : WorkerStep(w)
  \/ \E r \in RowId : LateDelivery(r)
  \/ \E l \in Lead : DeleteConversation(l)
  \/ Quiet

Spec == Init /\ [][Next]_vars

\* @Interval keeps ticking, time passes, every awaited call resolves or rejects
\* (60 s limit in proxy mode, 15 s for the session in legacy mode), and some
\* instance keeps taking the lead.  Late jobs and faults are owed to nobody.
FairSpec ==
  /\ Spec
  /\ WF_vars(AdvanceClock)
  /\ \A i \in Instance :
       /\ WF_vars(BecomeLeader(i))
       /\ WF_vars(\E s \in Slot : StartTick(i, s))
       /\ WF_vars(FinishTick(i))
  /\ \A w \in Worker : WF_vars(WorkerStep(w))

-----------------------------------------------------------------------------
(* Properties *)

TypeOK ==
  /\ status \in [RowId -> Status]
  /\ attempts \in [RowId -> 0 .. MaxAttempts - 1]
  /\ nextAttemptAt \in [RowId -> Nat] /\ scheduledAt \in [RowId -> Nat]
  /\ toPhone \in [RowId -> Lead \cup {NoLead}]
  /\ lastId \in 0 .. MaxRows
  /\ now \in Nat
  /\ leaders \subseteq Instance
  /\ running \in [Instance -> Slot \cup {NoTick}]
  /\ group \in [Worker -> SUBSET Message]
  /\ step \in [Worker -> Step]
  /\ late \in [RowId -> Nat]
  /\ sends \in [RowId -> Nat] /\ tries \in [RowId -> Nat]
  /\ saved \in [RowId -> Nat]
  /\ disturbances \in 0 .. MaxDisturbances

Held(r) == \E w \in Worker : \E m \in group[w] : m.id = r

\* r was to be sent before s: same lead, due earlier, or at once and older.
Before(r, s) ==
  /\ toPhone[r] = toPhone[s] /\ toPhone[r] # NoLead
  /\ \/ scheduledAt[r] < scheduledAt[s]
     \/ scheduledAt[r] = scheduledAt[s] /\ r < s

\* Two messages of a lead leave in the wrong order only after an attempt at the
\* earlier one failed: grouping, sorting and the limit never invert them.
InversionNeedsFailure ==
  \A r, s \in RowId :
    Before(r, s) /\ sends[s] > 0 /\ status[r] # "ABSENT"
      => sends[r] > 0 \/ tries[r] > 0

\* A row is marked SENT only when its message went out.
SentIsDelivered == \A r \in RowId : status[r] = "SENT" => sends[r] > 0

\* A row is given up only after MaxAttempts attempts at it really failed, however
\* many workers count its attempts on stale copies.
GivenUpOnlyAfterMaxAttempts ==
  \A r \in RowId : status[r] = "FAILED" => tries[r] >= MaxAttempts

\* Without a claim on the row, each instance may send it once; beyond that each
\* duplicate is paid for by an error, a crash, a step-down or a deletion.  Only the
\* deletion of another lead may cost more: it ends the tick of every instance that
\* held its rows, and each of them may take r again before r is marked.
OtherLeadDeleted(r) ==
  \E q \in 1 .. lastId : toPhone[q] # toPhone[r] /\ status[q] = "ABSENT"
Price(r) == IF OtherLeadDeleted(r) THEN Cardinality(Instance) ELSE 1

DuplicatesBounded ==
  \A r \in 1 .. lastId :
    sends[r] <= Cardinality(Instance) + Price(r) * disturbances

\* The chat shows what the lead received: a SENT row that no worker is still
\* recording has its BOT entry, unless recording it failed or a process died.
SentIsRecorded ==
  \A r \in RowId :
    status[r] = "SENT" /\ ~Held(r) => saved[r] > 0 \/ disturbances > 0

\* Once a row left PENDING (or was deleted), no worker holds it and no late job
\* is out, its message never leaves again.
Settled(r) == r <= lastId /\ status[r] # "PENDING" /\ ~Held(r) /\ late[r] = 0

SettledStaysSilent ==
  [][\A r \in RowId : Settled(r) => sends'[r] = sends[r] /\ Settled(r)']_vars

\* Every row ends: sent, given up, or deleted with its conversation.
EverySettles == \A r \in RowId : status[r] = "PENDING" ~> status[r] # "PENDING"

\* "preservar ordem dentro do mesmo lead", "não inverter ordem das mensagens"
\* (outbound-worker.service.ts:45,129): a later message never leaves before an
\* earlier one that may still be sent.  The code breaks it: see the README.
OrderPreserved ==
  [][\A r, s \in RowId :
       Before(r, s) /\ sends'[s] > sends[s] => status[r] # "PENDING" \/ sends[r] > 0]_vars

\* The outbox implements its contract: every step of a worker, a crash or a
\* deletion is a step of DeliveryContract or none.
Contract == INSTANCE DeliveryContract WITH lead <- toPhone, due <- scheduledAt

KeepsContract == Contract!Spec
=============================================================================
