---------------------------- MODULE OutboxProofs ----------------------------
(***************************************************************************)
(* Proofs about the outbox, for every number of processes, overlapping     *)
(* ticks, leads and rows, in both modes.  TypeOK comes first; then what    *)
(* each worker knows about the message it is at (HandledInv); then what    *)
(* keeps the order of a lead's messages (OrderInv).                        *)
(***************************************************************************)
EXTENDS Outbox, FiniteSetTheorems, TLAPS

Touched(r) == sends[r] > 0 \/ tries[r] > 0

\* Touched, or a crash left a job for it in the queue.
Begun(r) == Touched(r) \/ late[r] > 0

\* What a worker knows: past the send its message went out, and in the catch
\* block one more attempt failed than its copy of the row counts.
StepInv ==
  \A w \in Worker :
    /\ group[w] = {} => step[w] = "send"
    /\ \A m \in group[w] :
         ComesFirst(m, group[w]) =>
           /\ step[w] \in {"mark", "history"} => sends[m.id] > 0
           /\ step[w] = "catch" => tries[m.id] > m.attempts

\* The column, and every copy of it, counts only attempts that failed.
AttemptsInv ==
  /\ \A r \in RowId : attempts[r] <= tries[r]
  /\ \A w \in Worker : \A m \in group[w] : m.attempts <= tries[m.id]

HandledInv == /\ StepInv
              /\ AttemptsInv
              /\ SentIsDelivered
              /\ GivenUpOnlyAfterMaxAttempts

\* Nothing happened yet to a row not yet created.
FreshInv ==
  \A r \in RowId :
    r > lastId => /\ status[r] = "ABSENT" /\ toPhone[r] = NoLead
                  /\ sends[r] = 0 /\ tries[r] = 0 /\ late[r] = 0

\* A row is due when it was scheduled until an attempt moves it further away.
DueInv ==
  \A r \in RowId :
    /\ scheduledAt[r] <= nextAttemptAt[r]
    /\ ~Touched(r) => nextAttemptAt[r] = scheduledAt[r]
    /\ Begun(r) => scheduledAt[r] <= now

\* A worker holds due rows of its lead, and with a row every earlier one that
\* nobody has touched.
GroupInv ==
  \A w \in Worker : \A m \in group[w] :
    /\ m.id <= lastId /\ toPhone[m.id] = w[3]
    /\ scheduledAt[m.id] <= m.at /\ m.at <= now
    /\ \A r \in RowId :
         Before(r, m.id) /\ status[r] # "ABSENT" /\ ~Touched(r) =>
           \E n \in group[w] : n.id = r /\ Precedes(n, m)

\* Before a row that was begun every row of its lead is touched.
TurnInv ==
  \A r, s \in RowId :
    Begun(s) /\ Before(r, s) /\ status[r] # "ABSENT" => Touched(r)

OrderInv == FreshInv /\ DueInv /\ GroupInv /\ TurnInv

\* Without faults, a SENT row has its entry or a worker is about to write it.
Recording(w, r) ==
  /\ step[w] = "history"
  /\ \E m \in group[w] : m.id = r /\ ComesFirst(m, group[w])
RecordInv ==
  disturbances = 0 =>
    \A r \in RowId :
      status[r] = "SENT" => saved[r] > 0 \/ \E w \in Worker : Recording(w, r)

\* A group holds a row once, and a row past its send is not taken again.
OnceInv ==
  \A w \in Worker :
    /\ \A m, n \in group[w] : m.id = n.id => m = n
    /\ \A m \in group[w] :
         ComesFirst(m, group[w]) /\ step[w] = "history" => status[m.id] # "PENDING"

\* The workers that hold r and are going to send it.
WillSend(w, r) ==
  \E m \in group[w] : m.id = r /\ (ComesFirst(m, group[w]) => step[w] = "send")
Senders(r) == {w \in Worker : WillSend(w, r)}

\* The instances that no tick keeps from taking r again: a tick does as long as it
\* holds r, did not fail at it, and holds no deleted row, which would end the tick.
Keeps(i, s, r) ==
  /\ \E l \in Lead : \E m \in group[<<i, s, l>>] :
       m.id = r /\ (ComesFirst(m, group[<<i, s, l>>]) => step[<<i, s, l>>] # "catch")
  /\ \A l \in Lead : \A m \in group[<<i, s, l>>] : status[m.id] # "ABSENT"
Free(i, r) == running[i] = NoTick \/ ~Keeps(i, running[i], r)
Takers(r) == {i \in Instance : status[r] = "PENDING" /\ Free(i, r)}

\* What went out, what may still go out and what may be taken again is paid for:
\* one send for each instance, and the price of each disturbance.
Total(r) == sends[r] + late[r] + Cardinality(Senders(r)) + Cardinality(Takers(r))
Budget(r) ==
  /\ IsFiniteSet(Senders(r))
  /\ Total(r) <= Cardinality(Instance) + Price(r) * disturbances
BudgetInv == \A r \in 1 .. lastId : Budget(r)

-----------------------------------------------------------------------------
(* Lemmas *)

\* There are finitely many workers.
LEMMA WorkersCount == IsFiniteSet(Worker)
<1> DEFINE pair == [w \in Worker |-> <<<<w[1], w[2]>>, w[3]>>]
<1>1. IsFiniteSet((Instance \X Slot) \X Lead)
  BY OutboxAssumption, FS_Product
<1>2. /\ pair \in [Worker -> (Instance \X Slot) \X Lead]
      /\ \A v, w \in Worker : pair[v] = pair[w] => v = w
  BY DEF Worker
<1>3. pair \in Injection(Worker, (Instance \X Slot) \X Lead)
  BY <1>2 DEF Injection, IsInjective
<1> HIDE DEF pair
<1> QED  BY <1>1, <1>3, FS_Injection

\* The jobs a crash leaves for a row are those of workers that were going to send it.
LEMMA CrashLeaves ==
  ASSUME TypeOK, NEW i \in Instance, Crash(i), NEW r \in RowId
  PROVE  \E S \in SUBSET Senders(r) :
           /\ \A w \in S : w[1] = i /\ IsAt(w, r)
           /\ IsFiniteSet(S) /\ Cardinality(S) \in Nat /\ (S = {} => Cardinality(S) = 0)
           /\ late'[r] = late[r] + Cardinality(S)
<1>1. PICK queued \in SUBSET Waiting(i) :
        late' = [q \in RowId |-> late[q] + Cardinality({w \in queued : IsAt(w, q)})]
  BY DEF Crash
<1> DEFINE S == {w \in queued : IsAt(w, r)}
<1>2. \A w \in S : w \in Worker /\ w[1] = i /\ step[w] = "send" /\ IsAt(w, r)
  BY <1>1 DEF Waiting
<1>3. S \in SUBSET Senders(r)
  BY <1>2 DEF Senders, WillSend, IsAt
<1>4. IsFiniteSet(S) /\ Cardinality(S) \in Nat
  BY <1>2, WorkersCount, FS_Subset, FS_CardinalityType
<1>5. late'[r] = late[r] + Cardinality(S)
  BY <1>1
<1>6. S = {} => Cardinality(S) = 0
  BY FS_EmptySet
<1> HIDE DEF S
<1> QED  BY <1>2, <1>3, <1>4, <1>5, <1>6

\* The delay before the next attempt is a number of seconds.
LEMMA BackoffType ==
  ASSUME NEW a \in Nat PROVE Backoff(a) \in Nat
BY OutboxAssumption DEF Backoff

\* The three seconds between replies never make one due in the past.
LEMMA SpacingLater ==
  ASSUME NEW k \in Nat PROVE k * Spacing \in Nat
BY OutboxAssumption

\* Sorting is strict: a group has one first message.
LEMMA FirstIsUnique ==
  ASSUME NEW S \in SUBSET Message, NEW m, NEW n,
         ComesFirst(m, S), ComesFirst(n, S)
  PROVE  m = n
BY DEF ComesFirst, Precedes, Message, RowId

\* The order of findReadyToSend is strict on messages.
LEMMA PrecedesIsStrict ==
  ASSUME NEW m \in Message, NEW n \in Message, Precedes(m, n)
  PROVE  ~Precedes(n, m) /\ m # n
BY DEF Precedes, Message, RowId

\* The order of findReadyToSend is transitive on messages.
LEMMA PrecedesIsTransitive ==
  ASSUME NEW k \in Message, NEW m \in Message, NEW n \in Message,
         Precedes(k, m), Precedes(m, n)
  PROVE  Precedes(k, n)
BY DEF Precedes, Message, RowId

\* The query returns messages as the worker expects them.
LEMMA ReadyMessagesType ==
  ASSUME TypeOK
  PROVE  /\ ReadyMessages \in SUBSET Message
         /\ FindReadyToSend \in SUBSET ReadyMessages
<1>1. \A r \in RowId : [id |-> r, attempts |-> attempts[r], at |-> nextAttemptAt[r]]
                         \in Message
  BY DEF TypeOK, Message
<1>2. ReadyMessages \in SUBSET Message
  BY <1>1 DEF ReadyMessages
<1> QED  BY <1>2 DEF FindReadyToSend

-----------------------------------------------------------------------------
(* Type correctness *)

\* Every step of every process keeps the types.
LEMMA TypeStep ==
  ASSUME TypeOK, [Next]_vars
  PROVE  TypeOK'
<1> USE OutboxAssumption
<1>1. ASSUME NEW l \in Lead, NEW n \in 1 .. MaxBatch, Enqueue(l, n) PROVE TypeOK'
  <2> DEFINE Due(r) == now + (r - lastId - 1) * Spacing
  <2>1. \A r \in lastId + 1 .. lastId + n : Due(r) \in Nat
    <3> TAKE r \in lastId + 1 .. lastId + n
    <3>1. r - lastId - 1 \in Nat  BY <1>1 DEF TypeOK
    <3> QED  BY <3>1, SpacingLater DEF TypeOK
  <2>2. nextAttemptAt' \in [RowId -> Nat] /\ scheduledAt' \in [RowId -> Nat]
    BY <1>1, <2>1 DEF Enqueue, TypeOK
  <2>3. /\ status' \in [RowId -> Status] /\ toPhone' \in [RowId -> Lead \cup {NoLead}]
        /\ lastId' \in 0 .. MaxRows
    BY <1>1 DEF Enqueue, TypeOK, Status
  <2> QED  BY <1>1, <2>2, <2>3 DEF Enqueue, TypeOK, process, world
<1>2. CASE AdvanceClock
  BY <1>2 DEF AdvanceClock, TypeOK, table, process, world
<1>3. ASSUME NEW i \in Instance, BecomeLeader(i) PROVE TypeOK'
  BY <1>3 DEF BecomeLeader, TypeOK, table, world
<1>4. ASSUME NEW i \in Instance, StepDown(i) PROVE TypeOK'
  BY <1>4 DEF StepDown, Disturb, TypeOK, table, world
<1>5. ASSUME NEW i \in Instance, NEW s \in Slot, StartTick(i, s) PROVE TypeOK'
  <2>1. running' \in [Instance -> Slot \cup {NoTick}]
    BY <1>5 DEF StartTick, TypeOK
  <2>2. group' \in [Worker -> SUBSET Message]
    BY <1>5, ReadyMessagesType DEF StartTick, TypeOK
  <2> QED  BY <1>5, <2>1, <2>2 DEF StartTick, TypeOK, table, world
<1>6. ASSUME NEW i \in Instance, FinishTick(i) PROVE TypeOK'
  BY <1>6 DEF FinishTick, TypeOK, table, world
<1>7. ASSUME NEW i \in Instance, Crash(i) PROVE TypeOK'
  <2>1. \A r \in RowId : late'[r] \in Nat
    <3> SUFFICES ASSUME NEW r \in RowId PROVE late'[r] \in Nat
      OBVIOUS
    <3>1. PICK S : Cardinality(S) \in Nat /\ late'[r] = late[r] + Cardinality(S)
      BY <1>7, CrashLeaves
    <3> QED  BY <3>1 DEF TypeOK
  <2>2. late' = [r \in RowId |-> late'[r]]
    BY <1>7 DEF Crash
  <2>3. late' \in [RowId -> Nat]
    BY <2>1, <2>2
  <2> QED  BY <1>7, <2>3 DEF Crash, Disturb, TypeOK, table, world, Step
<1>8. ASSUME NEW w \in Worker, WorkerStep(w) PROVE TypeOK'
  <2> PICK m \in group[w] : ComesFirst(m, group[w]) /\
           \/ Send(w, m) \/ SendThrows(w, m) \/ SendTimesOut(w, m)
           \/ MarkSent(w, m) \/ SaveHistory(w, m) \/ PersistThrows(w, m)
           \/ GiveUp(w, m) \/ Reschedule(w, m) \/ CatchThrows(w, m)
    BY <1>8 DEF WorkerStep
  <2>0. m \in Message /\ m.id \in RowId /\ m.attempts \in 0 .. MaxAttempts - 1
    BY DEF TypeOK, Message
  <2>1. CASE Send(w, m)
    BY <2>0, <2>1 DEF Send, Goto, TypeOK, table, Step
  <2>2. CASE SendThrows(w, m)
    BY <2>0, <2>2 DEF SendThrows, Goto, Disturb, TypeOK, table, Step
  <2>3. CASE SendTimesOut(w, m)
    BY <2>0, <2>3 DEF SendTimesOut, Goto, Disturb, TypeOK, table, Step
  <2>4. CASE MarkSent(w, m)
    BY <2>0, <2>4 DEF MarkSent, Goto, TypeOK, world, Step, Status
  <2>5. CASE SaveHistory(w, m)
    BY <2>0, <2>5 DEF SaveHistory, NextMessage, Goto, TypeOK, table, Step
  <2>6. CASE PersistThrows(w, m)
    BY <2>0, <2>6 DEF PersistThrows, Goto, Disturb, TypeOK, table, Step
  <2>7. CASE GiveUp(w, m)
    BY <2>0, <2>7 DEF GiveUp, Abandon, Goto, TypeOK, world, Step, Status
  <2>8. CASE Reschedule(w, m)
    <3>1. m.attempts + 1 \in 0 .. MaxAttempts - 1
      BY <2>0, <2>8 DEF Reschedule, GivesUp
    <3>2. now + Backoff(m.attempts + 1) \in Nat
      BY <3>1, BackoffType DEF TypeOK
    <3> QED  BY <2>0, <2>8, <3>1, <3>2 DEF Reschedule, Abandon, Goto, TypeOK, world, Step
  <2>9. CASE CatchThrows(w, m)
    <3>1. /\ group' \in [Worker -> SUBSET Message] /\ step' \in [Worker -> Step]
          /\ running' \in [Instance -> Slot \cup {NoTick}]
      BY <2>9 DEF CatchThrows, Abandon, Goto, TypeOK, Step
    <3>2. disturbances' \in 0 .. MaxDisturbances
      BY <2>9 DEF CatchThrows, Disturb, TypeOK
    <3> QED  BY <2>9, <3>1, <3>2 DEF CatchThrows, TypeOK, table, world
  <2> QED  BY <2>1, <2>2, <2>3, <2>4, <2>5, <2>6, <2>7, <2>8, <2>9
<1>9. ASSUME NEW r \in RowId, LateDelivery(r) PROVE TypeOK'
  BY <1>9 DEF LateDelivery, TypeOK, table, process
<1>10. ASSUME NEW l \in Lead, DeleteConversation(l) PROVE TypeOK'
  BY <1>10 DEF DeleteConversation, Disturb, TypeOK, process, Status
<1>11. CASE Quiet \/ UNCHANGED vars
  BY <1>11 DEF Quiet, vars, TypeOK, table, process, world
<1> QED  BY <1>1, <1>2, <1>3, <1>4, <1>5, <1>6, <1>7, <1>8, <1>9, <1>10, <1>11 DEF Next

\* Every table column, flag, group and counter keeps its type whatever the
\* processes do; in particular attempts stays below MaxAttempts.
THEOREM TypeCorrect == Spec => []TypeOK
<1>1. Init => TypeOK
  BY OutboxAssumption DEF Init, TypeOK, Status, Step, Message
<1>2. TypeOK /\ [Next]_vars => TypeOK'
  BY TypeStep
<1> QED  BY <1>1, <1>2, PTL DEF Spec

-----------------------------------------------------------------------------
(* What a worker knows about its messages *)

\* Nothing takes back a send or a failed attempt.
LEMMA HistoryGrows ==
  ASSUME TypeOK, [Next]_vars
  PROVE  \A r \in RowId : sends[r] <= sends'[r] /\ tries[r] <= tries'[r]
<1> USE DEF TypeOK
<1>1. ASSUME NEW w \in Worker, WorkerStep(w)
      PROVE  \A r \in RowId : sends[r] <= sends'[r] /\ tries[r] <= tries'[r]
  <2> PICK m \in group[w] :
           \/ Send(w, m) \/ SendThrows(w, m) \/ SendTimesOut(w, m)
           \/ MarkSent(w, m) \/ SaveHistory(w, m) \/ PersistThrows(w, m)
           \/ GiveUp(w, m) \/ Reschedule(w, m) \/ CatchThrows(w, m)
    BY <1>1 DEF WorkerStep
  <2>1. CASE Send(w, m)  BY <2>1 DEF Send
  <2>2. CASE SendThrows(w, m) \/ SendTimesOut(w, m) \/ PersistThrows(w, m)
    BY <2>2 DEF SendThrows, SendTimesOut, PersistThrows
  <2>3. CASE MarkSent(w, m) \/ SaveHistory(w, m) \/ GiveUp(w, m) \/ Reschedule(w, m)
             \/ CatchThrows(w, m)
    BY <2>3 DEF MarkSent, SaveHistory, GiveUp, Reschedule, CatchThrows, world
  <2> QED  BY <2>1, <2>2, <2>3
<1>2. ASSUME NEW r \in RowId, LateDelivery(r)
      PROVE  \A s \in RowId : sends[s] <= sends'[s] /\ tries[s] <= tries'[s]
  BY <1>2 DEF LateDelivery
<1>3. CASE \/ \E l \in Lead, n \in 1 .. MaxBatch : Enqueue(l, n)
           \/ AdvanceClock
           \/ \E i \in Instance :
                \/ BecomeLeader(i) \/ StepDown(i)
                \/ \E s \in Slot : StartTick(i, s)
                \/ FinishTick(i) \/ Crash(i)
           \/ \E l \in Lead : DeleteConversation(l)
           \/ Quiet \/ UNCHANGED vars
  BY <1>3 DEF Enqueue, AdvanceClock, BecomeLeader, StepDown, StartTick, FinishTick,
              Crash, DeleteConversation, Quiet, vars, world
<1> QED  BY <1>1, <1>2, <1>3 DEF Next

\* A worker that did not move, or is about to send, still satisfies StepInv.
LEMMA StepInvKept ==
  ASSUME TypeOK, StepInv, [Next]_vars,
         \A v \in Worker : \/ group'[v] = group[v] /\ step'[v] = step[v]
                           \/ step'[v] = "send"
  PROVE  StepInv'
<1> SUFFICES ASSUME NEW v \in Worker
             PROVE  /\ group'[v] = {} => step'[v] = "send"
                    /\ \A m \in group'[v] :
                         ComesFirst(m, group'[v]) =>
                           /\ step'[v] \in {"mark", "history"} => sends'[m.id] > 0
                           /\ step'[v] = "catch" => tries'[m.id] > m.attempts
  BY DEF StepInv, ComesFirst, Precedes
<1>1. CASE step'[v] = "send"
  BY <1>1
<1>2. CASE group'[v] = group[v] /\ step'[v] = step[v]
  <2> SUFFICES ASSUME NEW m \in group[v], ComesFirst(m, group[v])
               PROVE  /\ step[v] \in {"mark", "history"} => sends'[m.id] > 0
                      /\ step[v] = "catch" => tries'[m.id] > m.attempts
    BY <1>2 DEF StepInv
  <2>1. m.id \in RowId /\ m.attempts \in Nat
    BY DEF TypeOK, Message
  <2>2. /\ sends[m.id] \in Nat /\ tries[m.id] \in Nat
        /\ sends'[m.id] \in Nat /\ tries'[m.id] \in Nat
    BY <2>1, TypeStep DEF TypeOK
  <2>3. sends[m.id] <= sends'[m.id] /\ tries[m.id] <= tries'[m.id]
    BY <2>1, HistoryGrows
  <2> QED  BY <2>1, <2>2, <2>3 DEF StepInv
<1> QED  BY <1>1, <1>2

\* Every step keeps what a worker knows about the message it is at.
LEMMA StepInvStep ==
  ASSUME TypeOK, StepInv, AttemptsInv, [Next]_vars
  PROVE  StepInv'
<1> DEFINE Kept(v) == (group'[v] = group[v] /\ step'[v] = step[v]) \/ step'[v] = "send"
<1>1. ASSUME NEW w \in Worker, WorkerStep(w) PROVE StepInv'
  <2> PICK m \in group[w] : ComesFirst(m, group[w]) /\
           \/ Send(w, m) \/ SendThrows(w, m) \/ SendTimesOut(w, m)
           \/ MarkSent(w, m) \/ SaveHistory(w, m) \/ PersistThrows(w, m)
           \/ GiveUp(w, m) \/ Reschedule(w, m) \/ CatchThrows(w, m)
    BY <1>1 DEF WorkerStep
  <2>0. /\ m \in Message /\ m.id \in RowId /\ m.attempts \in Nat
        /\ sends[m.id] \in Nat /\ tries[m.id] \in Nat
    BY DEF TypeOK, Message
  <2>1. CASE SaveHistory(w, m) \/ GiveUp(w, m) \/ Reschedule(w, m) \/ CatchThrows(w, m)
    <3>1. \A v \in Worker : Kept(v)
      BY <2>1 DEF SaveHistory, GiveUp, Reschedule, CatchThrows, NextMessage, Abandon, Goto,
                  TypeOK
    <3> QED  BY <3>1, StepInvKept
  <2>2. ASSUME NEW st \in {"mark", "history", "catch"},
               group' = group, step' = [step EXCEPT ![w] = st],
               st \in {"mark", "history"} => sends'[m.id] > 0,
               st = "catch" => tries'[m.id] > m.attempts
        PROVE  StepInv'
    <3> SUFFICES ASSUME NEW v \in Worker, NEW n \in group[v], ComesFirst(n, group[v])
                 PROVE  /\ step'[v] \in {"mark", "history"} => sends'[n.id] > 0
                        /\ step'[v] = "catch" => tries'[n.id] > n.attempts
      BY <2>2 DEF StepInv, TypeOK
    <3>1. CASE v = w
      <4>1. n = m  BY <3>1, FirstIsUnique DEF TypeOK
      <4> QED  BY <2>2, <3>1, <4>1 DEF TypeOK
    <3>2. CASE v # w
      <4>1. n.id \in RowId /\ n.attempts \in Nat
        BY DEF TypeOK, Message
      <4>2. /\ sends[n.id] \in Nat /\ tries[n.id] \in Nat
            /\ sends'[n.id] \in Nat /\ tries'[n.id] \in Nat
        BY <4>1, TypeStep DEF TypeOK
      <4>3. sends[n.id] <= sends'[n.id] /\ tries[n.id] <= tries'[n.id]
        BY <4>1, HistoryGrows
      <4>4. step'[v] = step[v]
        BY <2>2, <3>2 DEF TypeOK
      <4> QED  BY <4>1, <4>2, <4>3, <4>4 DEF StepInv
    <3> QED  BY <3>1, <3>2
  <2>3. CASE Send(w, m)
    <3>1. sends'[m.id] > 0  BY <2>0, <2>3 DEF Send, TypeOK
    <3> QED  BY <2>2, <2>3, <3>1 DEF Send, Goto
  <2>4. CASE MarkSent(w, m)
    <3>1. sends'[m.id] > 0  BY <2>0, <2>4 DEF MarkSent, StepInv, world
    <3> QED  BY <2>2, <2>4, <3>1 DEF MarkSent, Goto
  <2>5. CASE SendThrows(w, m) \/ SendTimesOut(w, m) \/ PersistThrows(w, m)
    <3>1. step' = [step EXCEPT ![w] = "catch"] /\ group' = group
      BY <2>5 DEF SendThrows, SendTimesOut, PersistThrows, Goto
    <3>2. tries'[m.id] > m.attempts
      BY <2>0, <2>5 DEF AttemptsInv, SendThrows, SendTimesOut, PersistThrows, TypeOK
    <3> QED  BY <2>2, <3>1, <3>2
  <2> QED  BY <2>1, <2>3, <2>4, <2>5
<1>2. ASSUME NEW i \in Instance, NEW s \in Slot, StartTick(i, s) PROVE StepInv'
  <2>1. ASSUME NEW v \in Worker PROVE Kept(v)
    <3>1. CASE v[1] = i /\ v[2] = s
      <4>1. v = <<i, s, v[3]>> /\ v[3] \in Lead
        BY <3>1 DEF Worker
      <4>2. group[v] = {}
        BY <1>2, <4>1 DEF StartTick, Busy
      <4> QED  BY <1>2, <4>2 DEF StartTick, StepInv
    <3>2. CASE ~(v[1] = i /\ v[2] = s)
      BY <1>2, <3>2 DEF StartTick
    <3> QED  BY <3>1, <3>2
  <2> QED  BY <2>1, StepInvKept
<1>3. ASSUME NEW i \in Instance, Crash(i) PROVE StepInv'
  <2>1. \A v \in Worker : Kept(v)
    BY <1>3 DEF Crash, TypeOK
  <2> QED  BY <2>1, StepInvKept
<1>4. CASE \/ \E l \in Lead, n \in 1 .. MaxBatch : Enqueue(l, n)
           \/ AdvanceClock
           \/ \E i \in Instance : BecomeLeader(i) \/ StepDown(i) \/ FinishTick(i)
           \/ \E r \in RowId : LateDelivery(r)
           \/ \E l \in Lead : DeleteConversation(l)
           \/ Quiet \/ UNCHANGED vars
  <2>1. group' = group /\ step' = step
    BY <1>4 DEF Enqueue, AdvanceClock, BecomeLeader, StepDown, FinishTick, LateDelivery,
                DeleteConversation, Quiet, vars, process
  <2> QED  BY <2>1, StepInvKept
<1> QED  BY <1>1, <1>2, <1>3, <1>4 DEF Next

\* The attempts a row or a copy of it shows were really made: kept by every step.
LEMMA AttemptsInvStep ==
  ASSUME TypeOK, StepInv, AttemptsInv, [Next]_vars
  PROVE  AttemptsInv'
<1> DEFINE Smaller == \A v \in Worker : group'[v] \subseteq group[v]
<1>1. ASSUME attempts' = attempts, Smaller PROVE AttemptsInv'
  <2>1. \A r \in RowId : attempts'[r] <= tries'[r]
    BY <1>1, HistoryGrows, TypeStep DEF AttemptsInv, TypeOK
  <2>2. ASSUME NEW v \in Worker, NEW m \in group'[v] PROVE m.attempts <= tries'[m.id]
    <3>1. m \in group[v] /\ m.id \in RowId /\ m.attempts \in Nat
      BY <1>1, <2>2 DEF TypeOK, Message
    <3> QED  BY <3>1, HistoryGrows, TypeStep DEF AttemptsInv, TypeOK
  <2> QED  BY <2>1, <2>2 DEF AttemptsInv
<1>2. ASSUME NEW w \in Worker, WorkerStep(w) PROVE AttemptsInv'
  <2> PICK m \in group[w] : ComesFirst(m, group[w]) /\
           \/ Send(w, m) \/ SendThrows(w, m) \/ SendTimesOut(w, m)
           \/ MarkSent(w, m) \/ SaveHistory(w, m) \/ PersistThrows(w, m)
           \/ GiveUp(w, m) \/ Reschedule(w, m) \/ CatchThrows(w, m)
    BY <1>2 DEF WorkerStep
  <2>1. CASE Reschedule(w, m)
    <3>1. m.id \in RowId /\ m.attempts \in Nat
      BY DEF TypeOK, Message
    <3>2. tries[m.id] >= m.attempts + 1
      BY <2>1, <3>1 DEF Reschedule, StepInv, TypeOK
    <3>3. \A r \in RowId : attempts'[r] <= tries[r]
      BY <2>1, <3>1, <3>2 DEF Reschedule, AttemptsInv, TypeOK
    <3>4. Smaller /\ tries' = tries
      BY <2>1 DEF Reschedule, Abandon, world, TypeOK
    <3> QED  BY <3>3, <3>4 DEF AttemptsInv
  <2>2. CASE \/ Send(w, m) \/ SendThrows(w, m) \/ SendTimesOut(w, m)
             \/ MarkSent(w, m) \/ SaveHistory(w, m) \/ PersistThrows(w, m)
             \/ GiveUp(w, m) \/ CatchThrows(w, m)
    <3>1. attempts' = attempts
      BY <2>2 DEF Send, SendThrows, SendTimesOut, MarkSent, SaveHistory, PersistThrows,
                  GiveUp, CatchThrows, table
    <3>2. Smaller
      BY <2>2 DEF Send, SendThrows, SendTimesOut, MarkSent, SaveHistory, PersistThrows,
                  GiveUp, CatchThrows, NextMessage, Abandon, TypeOK
    <3> QED  BY <1>1, <3>1, <3>2
  <2> QED  BY <2>1, <2>2
<1>3. ASSUME NEW i \in Instance, NEW s \in Slot, StartTick(i, s) PROVE AttemptsInv'
  <2>1. attempts' = attempts /\ tries' = tries
    BY <1>3 DEF StartTick, table, world
  <2>2. \A m \in FindReadyToSend : m.attempts <= tries[m.id]
    BY DEF FindReadyToSend, ReadyMessages, AttemptsInv
  <2> QED  BY <1>3, <2>1, <2>2 DEF StartTick, AttemptsInv
<1>4. CASE \/ \E l \in Lead, n \in 1 .. MaxBatch : Enqueue(l, n)
           \/ AdvanceClock
           \/ \E i \in Instance :
                BecomeLeader(i) \/ StepDown(i) \/ FinishTick(i) \/ Crash(i)
           \/ \E r \in RowId : LateDelivery(r)
           \/ \E l \in Lead : DeleteConversation(l)
           \/ Quiet \/ UNCHANGED vars
  <2>1. attempts' = attempts /\ Smaller
    BY <1>4 DEF Enqueue, AdvanceClock, BecomeLeader, StepDown, FinishTick, Crash,
                LateDelivery, DeleteConversation, Quiet, vars, process, table, TypeOK
  <2> QED  BY <1>1, <2>1
<1> QED  BY <1>2, <1>3, <1>4 DEF Next

\* Every step keeps SENT rows delivered: only a worker past its send marks one.
LEMMA SentStep ==
  ASSUME TypeOK, StepInv, SentIsDelivered, [Next]_vars
  PROVE  SentIsDelivered'
<1> SUFFICES ASSUME NEW r \in RowId, status'[r] = "SENT" PROVE sends'[r] > 0
  BY DEF SentIsDelivered
<1>0. sends[r] \in Nat /\ sends'[r] \in Nat /\ sends[r] <= sends'[r]
  BY HistoryGrows, TypeStep DEF TypeOK
<1>1. CASE status[r] = "SENT"
  BY <1>0, <1>1 DEF SentIsDelivered
<1>2. CASE status[r] # "SENT"
  <2>1. PICK w \in Worker : WorkerStep(w)
    BY <1>2 DEF Next, Enqueue, AdvanceClock, BecomeLeader, StepDown, StartTick, FinishTick,
                Crash, LateDelivery, DeleteConversation, Quiet, vars, table, TypeOK
  <2>2. PICK m \in group[w] : ComesFirst(m, group[w]) /\ MarkSent(w, m)
    BY <1>2, <2>1 DEF WorkerStep, Send, SendThrows, SendTimesOut, SaveHistory,
                      PersistThrows, GiveUp, Reschedule, CatchThrows, table, TypeOK
  <2>3. r = m.id
    BY <1>2, <2>2 DEF MarkSent, TypeOK
  <2> QED  BY <1>0, <2>2, <2>3 DEF MarkSent, StepInv, world
<1> QED  BY <1>1, <1>2

\* Every step keeps FAILED rows tried MaxAttempts times.
LEMMA GivenUpStep ==
  ASSUME TypeOK, StepInv, GivenUpOnlyAfterMaxAttempts, [Next]_vars
  PROVE  GivenUpOnlyAfterMaxAttempts'
<1> SUFFICES ASSUME NEW r \in RowId, status'[r] = "FAILED" PROVE tries'[r] >= MaxAttempts
  BY DEF GivenUpOnlyAfterMaxAttempts
<1>0. /\ tries[r] \in Nat /\ tries'[r] \in Nat /\ tries[r] <= tries'[r]
      /\ MaxAttempts \in Nat
  BY HistoryGrows, TypeStep, OutboxAssumption DEF TypeOK
<1>1. CASE status[r] = "FAILED"
  BY <1>0, <1>1 DEF GivenUpOnlyAfterMaxAttempts
<1>2. CASE status[r] # "FAILED"
  <2>1. PICK w \in Worker : WorkerStep(w)
    BY <1>2 DEF Next, Enqueue, AdvanceClock, BecomeLeader, StepDown, StartTick, FinishTick,
                Crash, LateDelivery, DeleteConversation, Quiet, vars, table, TypeOK
  <2>2. PICK m \in group[w] : ComesFirst(m, group[w]) /\ GiveUp(w, m)
    BY <1>2, <2>1 DEF WorkerStep, Send, SendThrows, SendTimesOut, SaveHistory, MarkSent,
                      PersistThrows, Reschedule, CatchThrows, table, TypeOK
  <2>3. r = m.id /\ m.attempts \in Nat
    BY <1>2, <2>2 DEF GiveUp, TypeOK, Message
  <2>4. tries[r] > m.attempts
    BY <2>2, <2>3 DEF GiveUp, StepInv
  <2>5. m.attempts + 1 >= MaxAttempts
    BY <2>2 DEF GiveUp, GivesUp
  <2> QED  BY <1>0, <2>3, <2>4, <2>5
<1> QED  BY <1>1, <1>2

\* A worker never acts on a message it did not send as if it had, and never
\* counts an attempt that did not fail: the inductive invariant.
THEOREM HandledCorrect == Spec => []HandledInv
<1>1. Init => HandledInv
  BY DEF Init, HandledInv, StepInv, AttemptsInv, SentIsDelivered,
         GivenUpOnlyAfterMaxAttempts
<1>2. TypeOK /\ HandledInv /\ [Next]_vars => HandledInv'
  BY StepInvStep, AttemptsInvStep, SentStep, GivenUpStep DEF HandledInv
<1> QED  BY <1>1, <1>2, TypeCorrect, PTL DEF Spec

\* A row is marked SENT only when its message went out, whatever fails around it.
THEOREM SentRowsWereDelivered == Spec => []SentIsDelivered
<1>1. HandledInv => SentIsDelivered
  BY DEF HandledInv
<1> QED  BY <1>1, HandledCorrect, PTL

\* A row is given up only after MaxAttempts attempts at it failed, however many
\* workers count them on stale copies of the row.
THEOREM NoHastyFailure == Spec => []GivenUpOnlyAfterMaxAttempts
<1>1. HandledInv => GivenUpOnlyAfterMaxAttempts
  BY DEF HandledInv
<1> QED  BY <1>1, HandledCorrect, PTL

-----------------------------------------------------------------------------
(* What keeps the messages of a lead in order *)

\* A row once sent or tried stays so.
LEMMA TouchedIsKept ==
  ASSUME TypeOK, [Next]_vars, NEW r \in RowId, Touched(r)
  PROVE  Touched(r)'
BY HistoryGrows, TypeStep DEF Touched, TypeOK

\* Once created, a row keeps its lead and its schedule, and does not come back.
LEMMA RowsKept ==
  ASSUME TypeOK, [Next]_vars, ~\E l \in Lead, n \in 1 .. MaxBatch : Enqueue(l, n)
  PROVE  /\ toPhone' = toPhone /\ scheduledAt' = scheduledAt /\ lastId' = lastId
         /\ now <= now'
         /\ \A r \in RowId : status'[r] # "ABSENT" => status[r] # "ABSENT"
<1> USE DEF TypeOK
<1>1. ASSUME NEW w \in Worker, NEW m \in group[w],
             \/ MarkSent(w, m) \/ GiveUp(w, m) \/ Reschedule(w, m)
      PROVE  /\ toPhone' = toPhone /\ scheduledAt' = scheduledAt /\ lastId' = lastId
             /\ now <= now'
             /\ \A r \in RowId : status'[r] # "ABSENT" => status[r] # "ABSENT"
  BY <1>1 DEF MarkSent, GiveUp, Reschedule
<1>2. ASSUME NEW w \in Worker, NEW m \in group[w],
             \/ Send(w, m) \/ SendThrows(w, m) \/ SendTimesOut(w, m)
             \/ SaveHistory(w, m) \/ PersistThrows(w, m) \/ CatchThrows(w, m)
      PROVE  /\ toPhone' = toPhone /\ scheduledAt' = scheduledAt /\ lastId' = lastId
             /\ now <= now' /\ status' = status
  BY <1>2 DEF Send, SendThrows, SendTimesOut, SaveHistory, PersistThrows, CatchThrows, table
<1>3. CASE \/ AdvanceClock
           \/ \E i \in Instance :
                \/ BecomeLeader(i) \/ StepDown(i)
                \/ \E s \in Slot : StartTick(i, s)
                \/ FinishTick(i) \/ Crash(i)
           \/ \E r \in RowId : LateDelivery(r)
           \/ \E l \in Lead : DeleteConversation(l)
           \/ Quiet \/ UNCHANGED vars
  BY <1>3 DEF AdvanceClock, BecomeLeader, StepDown, StartTick, FinishTick, Crash,
              LateDelivery, DeleteConversation, Quiet, vars, table
<1> QED  BY <1>1, <1>2, <1>3 DEF Next, WorkerStep

\* What Enqueue does to the rows, and what it leaves alone.
LEMMA EnqueueRows ==
  ASSUME TypeOK, OrderInv, NEW l \in Lead, NEW n \in 1 .. MaxBatch, Enqueue(l, n)
  PROVE  /\ lastId' = lastId + n
         /\ group' = group /\ sends' = sends /\ tries' = tries /\ late' = late
         /\ now' = now
         /\ \A r \in RowId : r <= lastId \/ r > lastId' =>
              /\ toPhone'[r] = toPhone[r] /\ scheduledAt'[r] = scheduledAt[r]
              /\ nextAttemptAt'[r] = nextAttemptAt[r] /\ status'[r] = status[r]
         /\ \A r \in RowId : r > lastId /\ r <= lastId' =>
              /\ scheduledAt'[r] >= now /\ nextAttemptAt'[r] = scheduledAt'[r]
              /\ ~Touched(r)
<1>1. /\ lastId' = lastId + n
      /\ group' = group /\ sends' = sends /\ tries' = tries /\ late' = late
      /\ now' = now
  BY DEF Enqueue, process, world
<1>2. ASSUME NEW r \in RowId, r <= lastId \/ r > lastId'
      PROVE  /\ toPhone'[r] = toPhone[r] /\ scheduledAt'[r] = scheduledAt[r]
             /\ nextAttemptAt'[r] = nextAttemptAt[r] /\ status'[r] = status[r]
  <2>1. r \notin lastId + 1 .. lastId + n
    BY <1>1, <1>2 DEF TypeOK, RowId
  <2> QED  BY <2>1 DEF Enqueue
<1>3. ASSUME NEW r \in RowId, r > lastId, r <= lastId'
      PROVE  /\ scheduledAt'[r] >= now /\ nextAttemptAt'[r] = scheduledAt'[r]
             /\ ~Touched(r)
  <2>1. r \in lastId + 1 .. lastId + n /\ r - lastId - 1 \in Nat
    BY <1>1, <1>3 DEF TypeOK, RowId
  <2>2. scheduledAt'[r] = now + (r - lastId - 1) * Spacing /\ nextAttemptAt'[r] = scheduledAt'[r]
    BY <2>1 DEF Enqueue
  <2>3. (r - lastId - 1) * Spacing \in Nat
    BY <2>1, SpacingLater
  <2>4. ~Touched(r)
    BY <1>3 DEF OrderInv, FreshInv, Touched
  <2> QED  BY <2>2, <2>3, <2>4 DEF TypeOK
<1> QED  BY <1>1, <1>2, <1>3

\* A new row is never before one that is due already.
LEMMA NewRowsComeLast ==
  ASSUME TypeOK, OrderInv, NEW l \in Lead, NEW n \in 1 .. MaxBatch, Enqueue(l, n),
         NEW r \in RowId, NEW s \in RowId, s <= lastId, scheduledAt[s] <= now, Before(r, s)'
  PROVE  r <= lastId /\ Before(r, s)
<1>t. TypeOK'
  BY TypeStep DEF Next
<1>0. /\ r \in Nat /\ s \in Nat /\ lastId \in Nat /\ lastId' \in Nat /\ now \in Nat
      /\ scheduledAt[s] \in Nat /\ scheduledAt'[r] \in Nat /\ scheduledAt[r] \in Nat
      /\ scheduledAt'[s] = scheduledAt[s] /\ toPhone'[s] = toPhone[s]
  <2>1. scheduledAt'[s] = scheduledAt[s] /\ toPhone'[s] = toPhone[s]
    BY EnqueueRows
  <2>2. r \in Nat /\ s \in Nat
    BY OutboxAssumption DEF RowId
  <2>3. lastId \in Nat /\ lastId' \in Nat /\ now \in Nat
    BY <1>t, OutboxAssumption DEF TypeOK
  <2>4. scheduledAt[s] \in Nat /\ scheduledAt'[r] \in Nat /\ scheduledAt[r] \in Nat
    BY <1>t DEF TypeOK
  <2> QED  BY <2>1, <2>2, <2>3, <2>4
<1>1. /\ toPhone'[r] = toPhone'[s] /\ toPhone'[r] # NoLead
      /\ \/ scheduledAt'[r] < scheduledAt'[s]
         \/ scheduledAt'[r] = scheduledAt'[s] /\ r < s
  BY DEF Before
<1>2. r <= lastId'
  <2> SUFFICES ASSUME r > lastId' PROVE FALSE
    BY <1>0
  <2>1. r > lastId  BY <1>0, EnqueueRows
  <2> QED  BY <2>1, <1>1, EnqueueRows DEF OrderInv, FreshInv
<1>3. r <= lastId
  <2> SUFFICES ASSUME r > lastId PROVE FALSE
    BY <1>0
  <2>1. scheduledAt'[r] >= now
    BY <1>2, EnqueueRows
  <2> QED  BY <2>1, <1>0, <1>1
<1> QED  BY <1>1, <1>3, EnqueueRows DEF Before

\* Only a worker that is at it begins a row.
LEMMA FirstBegin ==
  ASSUME TypeOK, [Next]_vars, NEW r \in RowId, ~Begun(r), Begun(r)'
  PROVE  /\ \E w \in Worker : IsAt(w, r)
         /\ ~\E l \in Lead, n \in 1 .. MaxBatch : Enqueue(l, n)
<1>1. ~(sends'[r] = sends[r] /\ tries'[r] = tries[r] /\ late'[r] = late[r])
  BY DEF Begun, Touched
<1>2. ~\E l \in Lead, n \in 1 .. MaxBatch : Enqueue(l, n)
  BY <1>1 DEF Enqueue, world
<1>3. ASSUME NEW q \in RowId, LateDelivery(q) PROVE FALSE
  <2>1. q # r
    BY <1>3 DEF LateDelivery, Begun
  <2> QED  BY <1>1, <1>3, <2>1 DEF LateDelivery, TypeOK
<1>4. ASSUME NEW i \in Instance, Crash(i) PROVE \E w \in Worker : IsAt(w, r)
  <2>1. PICK S \in SUBSET Senders(r) :
          /\ \A w \in S : IsAt(w, r)
          /\ S = {} => Cardinality(S) = 0
          /\ late'[r] = late[r] + Cardinality(S)
    BY <1>4, CrashLeaves
  <2>2. sends' = sends /\ tries' = tries /\ late[r] \in Nat
    BY <1>4 DEF Crash, world, TypeOK
  <2>3. S # {}
    BY <1>1, <2>1, <2>2
  <2> QED  BY <2>1, <2>3 DEF Senders
<1>5. ASSUME NEW w \in Worker, WorkerStep(w) PROVE IsAt(w, r)
  <2>1. PICK m \in group[w] : ComesFirst(m, group[w]) /\
             \/ Send(w, m) \/ SendThrows(w, m) \/ SendTimesOut(w, m) \/ PersistThrows(w, m)
    BY <1>1, <1>5 DEF WorkerStep, MarkSent, SaveHistory, GiveUp, Reschedule, CatchThrows, world
  <2>2. m.id = r
    BY <1>1, <2>1 DEF Send, SendThrows, SendTimesOut, PersistThrows, TypeOK
  <2> QED  BY <2>1, <2>2 DEF IsAt
<1>6. (\E i \in Instance : Crash(i)) \/ \E w \in Worker : WorkerStep(w)
  BY <1>1, <1>2, <1>3 DEF Next, AdvanceClock, BecomeLeader, StepDown, StartTick,
                    FinishTick, DeleteConversation, Quiet, vars, world
<1> QED  BY <1>2, <1>4, <1>5, <1>6

\* Every step keeps the turns: a row is begun only after the earlier ones of its lead.
LEMMA TurnStep ==
  ASSUME TypeOK, OrderInv, [Next]_vars
  PROVE  TurnInv'
<1> SUFFICES ASSUME NEW r \in RowId, NEW s \in RowId,
                    Begun(s)', Before(r, s)', status'[r] # "ABSENT"
             PROVE  Touched(r)'
  BY DEF TurnInv, Begun, Touched, Before
<1>1. ASSUME NEW l \in Lead, NEW n \in 1 .. MaxBatch, Enqueue(l, n) PROVE Touched(r)'
  <2>1. Begun(s)
    BY <1>1, EnqueueRows DEF Begun, Touched
  <2>2. s <= lastId /\ scheduledAt[s] <= now
    <3>1. ~(s > lastId)
      BY <2>1 DEF OrderInv, FreshInv, Begun, Touched
    <3>2. s \in Int /\ lastId \in Int
      BY OutboxAssumption DEF TypeOK, RowId
    <3> QED  BY <2>1, <3>1, <3>2 DEF OrderInv, DueInv
  <2>3. r <= lastId /\ Before(r, s)
    BY <1>1, <2>2, NewRowsComeLast
  <2>4. status[r] # "ABSENT"
    BY <1>1, <2>3, EnqueueRows
  <2>5. Touched(r)
    BY <2>1, <2>3, <2>4 DEF OrderInv, TurnInv
  <2> QED  BY <2>5, TouchedIsKept
<1>2. CASE ~\E l \in Lead, n \in 1 .. MaxBatch : Enqueue(l, n)
  <2>1. Before(r, s) /\ status[r] # "ABSENT"
    BY <1>2, RowsKept DEF Before
  <2>2. CASE Begun(s)
    <3>1. Touched(r)
      BY <2>1, <2>2 DEF OrderInv, TurnInv
    <3> QED  BY <3>1, TouchedIsKept
  <2>3. CASE ~Begun(s)
    <3>1. PICK w \in Worker : IsAt(w, s)
      BY <2>3, FirstBegin
    <3>2. PICK m \in group[w] : ComesFirst(m, group[w]) /\ m.id = s
      BY <3>1 DEF IsAt
    <3>3. SUFFICES ASSUME ~Touched(r) PROVE FALSE
      BY TouchedIsKept
    <3>4. PICK n \in group[w] : n.id = r /\ Precedes(n, m)
      BY <2>1, <3>2, <3>3 DEF OrderInv, GroupInv
    <3>5. m \in Message /\ n \in Message
      BY DEF TypeOK
    <3>6. ~Precedes(m, n) /\ n # m
      BY <3>4, <3>5, PrecedesIsStrict
    <3> QED  BY <3>2, <3>6 DEF ComesFirst
  <2> QED  BY <2>2, <2>3
<1> QED  BY <1>1, <1>2

\* Every step leaves the rows not created yet untouched.
LEMMA FreshStep ==
  ASSUME TypeOK, OrderInv, [Next]_vars
  PROVE  FreshInv'
<1> SUFFICES ASSUME NEW r \in RowId, r > lastId'
             PROVE  /\ status'[r] = "ABSENT" /\ toPhone'[r] = NoLead
                    /\ sends'[r] = 0 /\ tries'[r] = 0 /\ late'[r] = 0
  BY DEF FreshInv
<1>0. r \in Nat /\ lastId \in Nat /\ lastId' \in Nat
  <2>1. TypeOK'  BY TypeStep
  <2>2. r \in Nat  BY OutboxAssumption DEF RowId
  <2> QED  BY <2>1, <2>2, OutboxAssumption DEF TypeOK
<1>1. ASSUME NEW l \in Lead, NEW n \in 1 .. MaxBatch, Enqueue(l, n)
      PROVE  /\ status'[r] = "ABSENT" /\ toPhone'[r] = NoLead
             /\ sends'[r] = 0 /\ tries'[r] = 0 /\ late'[r] = 0
  <2>1. r > lastId
    BY <1>0, <1>1, EnqueueRows
  <2> QED  BY <1>1, <2>1, EnqueueRows DEF OrderInv, FreshInv
<1>2. CASE ~\E l \in Lead, n \in 1 .. MaxBatch : Enqueue(l, n)
  <2>1. /\ r > lastId /\ toPhone'[r] = NoLead /\ status'[r] = "ABSENT"
    BY <1>2, RowsKept DEF OrderInv, FreshInv
  <2>2. sends'[r] = 0 /\ tries'[r] = 0 /\ late'[r] = 0
    <3>1. ~Begun(r)
      BY <2>1 DEF OrderInv, FreshInv, Begun, Touched
    <3>2. ~Begun(r)'
      <4> SUFFICES ASSUME Begun(r)' PROVE FALSE
        OBVIOUS
      <4>1. PICK w \in Worker : \E m \in group[w] : m.id = r
        BY <3>1, FirstBegin DEF IsAt
      <4>2. r <= lastId
        BY <4>1 DEF OrderInv, GroupInv
      <4> QED  BY <1>0, <2>1, <4>2
    <3>3. sends'[r] \in Nat /\ tries'[r] \in Nat /\ late'[r] \in Nat
      BY TypeStep DEF TypeOK
    <3> QED  BY <3>2, <3>3 DEF Begun, Touched
  <2> QED  BY <2>1, <2>2
<1> QED  BY <1>1, <1>2

\* Every step keeps untouched rows due when they were scheduled.
LEMMA DueStep ==
  ASSUME TypeOK, HandledInv, OrderInv, [Next]_vars
  PROVE  DueInv'
<1> SUFFICES ASSUME NEW r \in RowId
             PROVE  /\ scheduledAt'[r] <= nextAttemptAt'[r]
                    /\ ~Touched(r)' => nextAttemptAt'[r] = scheduledAt'[r]
                    /\ Begun(r)' => scheduledAt'[r] <= now'
  BY DEF DueInv, Begun, Touched
<1>0. /\ r \in Nat /\ lastId \in Nat /\ now \in Nat
      /\ scheduledAt[r] \in Nat /\ nextAttemptAt[r] \in Nat
  BY OutboxAssumption DEF TypeOK, RowId
<1>t. TypeOK'
  BY TypeStep
<1>1. ASSUME NEW l \in Lead, NEW n \in 1 .. MaxBatch, Enqueue(l, n)
      PROVE  /\ scheduledAt'[r] <= nextAttemptAt'[r]
             /\ ~Touched(r)' => nextAttemptAt'[r] = scheduledAt'[r]
             /\ Begun(r)' => scheduledAt'[r] <= now'
  <2>0. lastId' \in Nat /\ scheduledAt'[r] \in Nat
    BY <1>t, OutboxAssumption DEF TypeOK
  <2>1. (Touched(r)' <=> Touched(r)) /\ (Begun(r)' <=> Begun(r))
    BY <1>1, EnqueueRows DEF Begun, Touched
  <2>2. CASE r <= lastId \/ r > lastId'
    BY <1>1, <2>1, <2>2, EnqueueRows DEF OrderInv, DueInv
  <2>3. CASE r > lastId /\ r <= lastId'
    <3>1. ~Begun(r)
      BY <2>3 DEF OrderInv, FreshInv, Begun, Touched
    <3> QED  BY <1>1, <2>0, <2>1, <2>3, <3>1, EnqueueRows
  <2> QED  BY <1>0, <2>0, <2>2, <2>3
<1>2. CASE ~\E l \in Lead, n \in 1 .. MaxBatch : Enqueue(l, n)
  <2>0. /\ scheduledAt'[r] = scheduledAt[r] /\ now <= now' /\ now' \in Nat
        /\ sends[r] \in Nat /\ tries[r] \in Nat /\ late[r] \in Nat
    BY <1>2, <1>t, RowsKept DEF TypeOK
  <2>1. ASSUME Begun(r)' PROVE scheduledAt[r] <= now
    <3>1. CASE Begun(r)
      BY <3>1 DEF OrderInv, DueInv
    <3>2. CASE ~Begun(r)
      <4>1. PICK w \in Worker : \E m \in group[w] : m.id = r
        BY <2>1, <3>2, FirstBegin DEF IsAt
      <4>2. PICK m \in group[w] : m.id = r
        BY <4>1
      <4>3. scheduledAt[r] <= m.at /\ m.at <= now /\ m.at \in Nat
        BY <4>2 DEF OrderInv, GroupInv, TypeOK, Message
      <4> QED  BY <1>0, <4>3
    <3> QED  BY <3>1, <3>2
  <2>2. CASE nextAttemptAt'[r] = nextAttemptAt[r]
    <3>1. ~Touched(r)' => ~Touched(r)
      BY TouchedIsKept
    <3>2. /\ scheduledAt'[r] <= nextAttemptAt'[r]
          /\ ~Touched(r)' => nextAttemptAt'[r] = scheduledAt'[r]
      BY <2>0, <2>2, <3>1 DEF OrderInv, DueInv
    <3> QED  BY <1>0, <2>0, <2>1, <3>2
  <2>3. CASE nextAttemptAt'[r] # nextAttemptAt[r]
    <3>1. PICK w \in Worker : WorkerStep(w)
      BY <1>2, <2>3 DEF Next, AdvanceClock, BecomeLeader, StepDown, StartTick, FinishTick,
           Crash, LateDelivery, DeleteConversation, Quiet, vars, table
    <3>2. PICK m \in group[w] : ComesFirst(m, group[w]) /\ Reschedule(w, m)
      BY <2>3, <3>1 DEF WorkerStep, Send, SendThrows, SendTimesOut, MarkSent, SaveHistory,
           PersistThrows, GiveUp, CatchThrows, table
    <3>3. m.id = r /\ m.attempts \in Nat
      BY <2>3, <3>2 DEF Reschedule, TypeOK, Message
    <3>4. nextAttemptAt'[r] = now + Backoff(m.attempts + 1) /\ Backoff(m.attempts + 1) \in Nat
      BY <3>2, <3>3, BackoffType DEF Reschedule, TypeOK
    <3>5. scheduledAt[r] <= m.at /\ m.at <= now /\ m.at \in Nat
      BY <3>3 DEF OrderInv, GroupInv, TypeOK, Message
    <3>6. Touched(r)
      <4>1. tries[r] > m.attempts
        BY <3>2, <3>3 DEF Reschedule, HandledInv, StepInv
      <4> QED  BY <2>0, <3>3, <4>1 DEF Touched
    <3>7. Touched(r)'
      BY <3>6, TouchedIsKept
    <3> QED  BY <1>0, <2>0, <2>1, <3>4, <3>5, <3>7
  <2> QED  BY <2>2, <2>3
<1> QED  BY <1>1, <1>2

\* Dropping a message somebody touched leaves a group in order.
LEMMA GroupInvKept ==
  ASSUME TypeOK, OrderInv, [Next]_vars,
         ~\E l \in Lead, n \in 1 .. MaxBatch : Enqueue(l, n),
         NEW v \in Worker, NEW m \in group'[v], group'[v] \subseteq group[v],
         \A n \in group[v] : n \notin group'[v] => Touched(n.id)'
  PROVE  /\ m.id <= lastId' /\ toPhone'[m.id] = v[3]
         /\ scheduledAt'[m.id] <= m.at /\ m.at <= now'
         /\ \A r \in RowId :
              Before(r, m.id)' /\ status'[r] # "ABSENT" /\ ~Touched(r)' =>
                \E n \in group'[v] : n.id = r /\ Precedes(n, m)
<1>0. m \in group[v] /\ m.id \in RowId /\ m.at \in Nat /\ now \in Nat /\ now' \in Nat
  BY TypeStep DEF TypeOK, Message
<1>1. /\ m.id <= lastId' /\ toPhone'[m.id] = v[3]
      /\ scheduledAt'[m.id] <= m.at /\ m.at <= now'
  <2>1. /\ m.id <= lastId /\ toPhone[m.id] = v[3]
        /\ scheduledAt[m.id] <= m.at /\ m.at <= now
    BY <1>0 DEF OrderInv, GroupInv
  <2> QED  BY <1>0, <2>1, RowsKept
<1>2. ASSUME NEW r \in RowId, Before(r, m.id)', status'[r] # "ABSENT", ~Touched(r)'
      PROVE  \E n \in group'[v] : n.id = r /\ Precedes(n, m)
  <2>1. Before(r, m.id) /\ status[r] # "ABSENT"
    BY <1>2, RowsKept DEF Before
  <2>2. ~Touched(r)
    BY <1>2, TouchedIsKept
  <2>3. PICK n \in group[v] : n.id = r /\ Precedes(n, m)
    BY <1>0, <2>1, <2>2 DEF OrderInv, GroupInv
  <2>4. n \in group'[v]
    BY <1>2, <2>3 DEF Touched
  <2> QED  BY <2>3, <2>4
<1> QED  BY <1>1, <1>2

\* The query returns, with a row, every due row that comes before it.
LEMMA QueryIsPrefix ==
  ASSUME TypeOK, NEW m \in FindReadyToSend, NEW n \in ReadyMessages, Precedes(n, m)
  PROVE  n \in FindReadyToSend
<1> DEFINE Ahead(k) == {j \in ReadyMessages : Precedes(j, k)}
<1>1. ReadyMessages \in SUBSET Message /\ m \in Message /\ n \in Message
  BY ReadyMessagesType
<1>2. Ahead(n) \subseteq Ahead(m)
  BY <1>1, PrecedesIsTransitive
<1>3. IsFiniteSet(ReadyMessages)
  <2> DEFINE id == [j \in ReadyMessages |-> j.id]
  <2>1. id \in [ReadyMessages -> RowId] /\ \A j, k \in ReadyMessages : id[j] = id[k] => j = k
    BY DEF ReadyMessages
  <2>2. id \in Injection(ReadyMessages, RowId)
    BY <2>1 DEF Injection, IsInjective
  <2>3. IsFiniteSet(RowId)
    BY FS_Interval, OutboxAssumption DEF RowId
  <2> HIDE DEF id
  <2> QED  BY <2>2, <2>3, FS_Injection
<1>4. IsFiniteSet(Ahead(m)) /\ IsFiniteSet(Ahead(n))
  BY <1>3, FS_Subset
<1>5. Cardinality(Ahead(n)) <= Cardinality(Ahead(m))
  BY <1>2, <1>4, FS_Subset
<1>6. Cardinality(Ahead(n)) \in Nat /\ Cardinality(Ahead(m)) \in Nat
  BY <1>4, FS_CardinalityType
<1>7. Cardinality(Ahead(m)) < BatchSize
  BY DEF FindReadyToSend
<1> QED  BY <1>5, <1>6, <1>7, OutboxAssumption DEF FindReadyToSend

\* Every step keeps each group a prefix of what its lead is still owed.
LEMMA GroupStep ==
  ASSUME TypeOK, HandledInv, OrderInv, [Next]_vars
  PROVE  GroupInv'
<1> SUFFICES ASSUME NEW v \in Worker, NEW m \in group'[v]
             PROVE  /\ m.id <= lastId' /\ toPhone'[m.id] = v[3]
                    /\ scheduledAt'[m.id] <= m.at /\ m.at <= now'
                    /\ \A r \in RowId :
                         Before(r, m.id)' /\ status'[r] # "ABSENT" /\ ~Touched(r)' =>
                           \E n \in group'[v] : n.id = r /\ Precedes(n, m)
  BY DEF GroupInv, Before, Touched, Precedes
<1> DEFINE Goal == /\ m.id <= lastId' /\ toPhone'[m.id] = v[3]
                   /\ scheduledAt'[m.id] <= m.at /\ m.at <= now'
                   /\ \A r \in RowId :
                        Before(r, m.id)' /\ status'[r] # "ABSENT" /\ ~Touched(r)' =>
                          \E n \in group'[v] : n.id = r /\ Precedes(n, m)
<1> DEFINE Enqueues == \E l \in Lead, k \in 1 .. MaxBatch : Enqueue(l, k)
<1>t. TypeOK'
  BY TypeStep
<1>m. m \in Message /\ m.id \in RowId /\ m.at \in Nat /\ lastId \in Nat
  BY <1>t, OutboxAssumption DEF TypeOK, Message
<1>1. ASSUME NEW l \in Lead, NEW k \in 1 .. MaxBatch, Enqueue(l, k) PROVE Goal
  <2>1. m \in group[v] /\ group' = group
    BY <1>1, EnqueueRows
  <2>2. /\ m.id <= lastId /\ toPhone[m.id] = v[3]
        /\ scheduledAt[m.id] <= m.at /\ m.at <= now
    BY <2>1 DEF OrderInv, GroupInv
  <2>3. scheduledAt[m.id] <= now
    BY <1>m, <2>2 DEF TypeOK
  <2>4. /\ m.id <= lastId' /\ toPhone'[m.id] = v[3]
        /\ scheduledAt'[m.id] <= m.at /\ m.at <= now'
    BY <1>1, <1>m, <2>2, EnqueueRows DEF RowId
  <2>5. ASSUME NEW r \in RowId, Before(r, m.id)', status'[r] # "ABSENT", ~Touched(r)'
        PROVE  \E n \in group'[v] : n.id = r /\ Precedes(n, m)
    <3>1. r <= lastId /\ Before(r, m.id)
      BY <1>1, <1>m, <2>2, <2>3, <2>5, NewRowsComeLast
    <3>2. status[r] # "ABSENT" /\ ~Touched(r)
      BY <1>1, <2>5, <3>1, EnqueueRows DEF Touched
    <3> QED  BY <1>m, <2>1, <3>1, <3>2 DEF OrderInv, GroupInv
  <2> QED  BY <2>4, <2>5
<1>2. ASSUME ~Enqueues, NEW i \in Instance, NEW s \in Slot, StartTick(i, s) PROVE Goal
  <2>1. CASE ~(v[1] = i /\ v[2] = s)
    <3>1. group'[v] = group[v]
      BY <1>2, <2>1 DEF StartTick
    <3> QED  BY <1>2, <3>1, GroupInvKept
  <2>2. CASE v[1] = i /\ v[2] = s
    <3>1. /\ group'[v] = {n \in FindReadyToSend : toPhone[n.id] = v[3]}
          /\ UNCHANGED <<status, nextAttemptAt, toPhone, lastId, scheduledAt, now, sends, tries>>
      BY <1>2, <2>2 DEF StartTick, table, world
    <3>2. /\ m \in FindReadyToSend /\ m \in ReadyMessages /\ toPhone[m.id] = v[3]
          /\ status[m.id] = "PENDING" /\ m.at = nextAttemptAt[m.id] /\ m.at <= now
      BY <3>1 DEF FindReadyToSend, ReadyMessages, Ready
    <3>3. /\ m.id <= lastId /\ scheduledAt[m.id] <= m.at
      BY <1>m, <3>2 DEF OrderInv, FreshInv, DueInv, RowId
    <3>4. ASSUME NEW r \in RowId, Before(r, m.id), status[r] # "ABSENT", ~Touched(r)
          PROVE  \E n \in group'[v] : n.id = r /\ Precedes(n, m)
      <4> DEFINE n == [id |-> r, attempts |-> attempts[r], at |-> nextAttemptAt[r]]
      <4>1. status[r] = "PENDING"
        BY <3>4, OutboxAssumption DEF HandledInv, SentIsDelivered, TypeOK, Status, Touched,
                                      GivenUpOnlyAfterMaxAttempts
      <4>2. /\ nextAttemptAt[r] = scheduledAt[r] /\ scheduledAt[r] <= scheduledAt[m.id]
            /\ toPhone[r] = v[3]
        BY <1>m, <3>2, <3>4 DEF OrderInv, DueInv, Before, TypeOK
      <4>3. n \in ReadyMessages
        BY <1>m, <3>2, <3>3, <4>1, <4>2 DEF ReadyMessages, Ready, TypeOK
      <4>4. Precedes(n, m)
        BY <1>m, <3>3, <3>4, <4>2 DEF Precedes, Before, TypeOK
      <4>5. n \in FindReadyToSend
        BY <3>2, <4>3, <4>4, QueryIsPrefix
      <4> QED  BY <3>1, <4>2, <4>4, <4>5
    <3> QED  BY <3>1, <3>2, <3>3, <3>4 DEF Before, Touched
  <2> QED  BY <2>1, <2>2
<1>3. ASSUME ~Enqueues, NEW w \in Worker, WorkerStep(w) PROVE Goal
  <2> PICK n \in group[w] : ComesFirst(n, group[w]) /\
           \/ Send(w, n) \/ SendThrows(w, n) \/ SendTimesOut(w, n)
           \/ MarkSent(w, n) \/ SaveHistory(w, n) \/ PersistThrows(w, n)
           \/ GiveUp(w, n) \/ Reschedule(w, n) \/ CatchThrows(w, n)
    BY <1>3 DEF WorkerStep
  <2>1. CASE SaveHistory(w, n)
    <3>1. n.id \in RowId
      BY DEF TypeOK, Message
    <3>2. Touched(n.id)
      BY <2>1 DEF SaveHistory, HandledInv, StepInv, Touched
    <3>3. Touched(n.id)'
      BY <3>1, <3>2, TouchedIsKept
    <3>4. group'[v] \subseteq group[v] /\ group[v] \ group'[v] \subseteq {n}
      BY <2>1 DEF SaveHistory, NextMessage, TypeOK
    <3> QED  BY <1>3, <3>3, <3>4, GroupInvKept
  <2>2. CASE \/ Send(w, n) \/ SendThrows(w, n) \/ SendTimesOut(w, n)
             \/ MarkSent(w, n) \/ PersistThrows(w, n)
             \/ GiveUp(w, n) \/ Reschedule(w, n) \/ CatchThrows(w, n)
    <3>1. group'[v] = group[v]
      BY <2>2 DEF Send, SendThrows, SendTimesOut, MarkSent, PersistThrows, GiveUp,
                  Reschedule, CatchThrows, Abandon, TypeOK
    <3> QED  BY <1>3, <3>1, GroupInvKept
  <2> QED  BY <2>1, <2>2
<1>4. ASSUME ~Enqueues,
             \/ AdvanceClock
             \/ \E i \in Instance :
                  BecomeLeader(i) \/ StepDown(i) \/ FinishTick(i) \/ Crash(i)
             \/ \E r \in RowId : LateDelivery(r)
             \/ \E l \in Lead : DeleteConversation(l)
             \/ Quiet \/ UNCHANGED vars
      PROVE  Goal
  <2>1. group'[v] = group[v]
    BY <1>4 DEF AdvanceClock, BecomeLeader, StepDown, FinishTick, Crash, LateDelivery,
                DeleteConversation, Quiet, vars, process, TypeOK
  <2> QED  BY <1>4, <2>1, GroupInvKept
<1> QED  BY <1>1, <1>2, <1>3, <1>4 DEF Next

\* The order of a lead's messages: the inductive invariant.
THEOREM OrderCorrect == Spec => []OrderInv
<1>1. Init => OrderInv
  BY OutboxAssumption DEF Init, OrderInv, FreshInv, DueInv, GroupInv, TurnInv, Begun, Touched, RowId
<1>2. TypeOK /\ HandledInv /\ OrderInv /\ [Next]_vars => OrderInv'
  BY FreshStep, DueStep, GroupStep, TurnStep DEF OrderInv
<1> QED  BY <1>1, <1>2, TypeCorrect, HandledCorrect, PTL DEF Spec

\* A later message of a lead is on its way only if every earlier one that is still
\* in the table went out or failed at least once.
THEOREM OrderIsLostOnlyByFailure == Spec => []InversionNeedsFailure
<1>1. TypeOK /\ OrderInv => InversionNeedsFailure
  BY DEF OrderInv, TurnInv, InversionNeedsFailure, Begun, Touched, TypeOK
<1> QED  BY <1>1, OrderCorrect, TypeCorrect, PTL

-----------------------------------------------------------------------------
(* After the last word *)

\* A settled row never goes out again and stays settled, in every step.
THEOREM SettledRowsStaySilent == Spec => SettledStaysSilent
<1> DEFINE Silent == \A r \in RowId : Settled(r) => sends'[r] = sends[r] /\ Settled(r)'
<1>1. TypeOK /\ [Next]_vars => Silent
  <2> SUFFICES ASSUME TypeOK, [Next]_vars, NEW r \in RowId, Settled(r)
               PROVE  sends'[r] = sends[r] /\ Settled(r)'
    OBVIOUS
  <2>0. /\ r <= lastId /\ status[r] # "PENDING" /\ late[r] = 0
        /\ \A w \in Worker : \A m \in group[w] : m.id # r
    BY DEF Settled, Held
  <2> DEFINE Goal == /\ sends'[r] = sends[r]
                     /\ r <= lastId' /\ status'[r] # "PENDING" /\ late'[r] = 0
                     /\ \A w \in Worker : \A m \in group'[w] : m.id # r
  <2>1. ASSUME NEW l \in Lead, NEW n \in 1 .. MaxBatch, Enqueue(l, n) PROVE Goal
    <3>1. r \in Nat /\ lastId \in Nat
      BY OutboxAssumption DEF TypeOK, RowId
    <3>2. r \notin lastId + 1 .. lastId + n /\ r <= lastId + n
      BY <2>0, <3>1
    <3> QED  BY <2>0, <2>1, <3>2 DEF Enqueue, process, world
  <2>2. ASSUME NEW i \in Instance, NEW s \in Slot, StartTick(i, s) PROVE Goal
    <3>1. \A m \in FindReadyToSend : m.id # r
      BY <2>0 DEF FindReadyToSend, ReadyMessages, Ready
    <3> QED  BY <2>0, <2>2, <3>1 DEF StartTick, table, world
  <2>3. ASSUME NEW w \in Worker, WorkerStep(w) PROVE Goal
    <3> PICK m \in group[w] :
             \/ Send(w, m) \/ SendThrows(w, m) \/ SendTimesOut(w, m)
             \/ MarkSent(w, m) \/ SaveHistory(w, m) \/ PersistThrows(w, m)
             \/ GiveUp(w, m) \/ Reschedule(w, m) \/ CatchThrows(w, m)
      BY <2>3 DEF WorkerStep
    <3>0. m.id # r
      BY <2>0
    <3>1. \A v \in Worker : group'[v] \subseteq group[v]
      BY DEF Send, SendThrows, SendTimesOut, MarkSent, SaveHistory, PersistThrows,
             GiveUp, Reschedule, CatchThrows, NextMessage, Abandon, TypeOK
    <3>2. sends'[r] = sends[r] /\ late'[r] = late[r]
      BY <3>0 DEF Send, SendThrows, SendTimesOut, MarkSent, SaveHistory, PersistThrows,
             GiveUp, Reschedule, CatchThrows, world, TypeOK
    <3>3. status'[r] = status[r] /\ lastId' = lastId
      BY <3>0 DEF Send, SendThrows, SendTimesOut, MarkSent, SaveHistory, PersistThrows,
             GiveUp, Reschedule, CatchThrows, table, TypeOK
    <3> QED  BY <2>0, <3>1, <3>2, <3>3
  <2>4. ASSUME NEW q \in RowId, LateDelivery(q) PROVE Goal
    <3>1. q # r
      BY <2>0, <2>4 DEF LateDelivery
    <3> QED  BY <2>0, <2>4, <3>1 DEF LateDelivery, table, process, TypeOK
  <2>5. ASSUME NEW l \in Lead, DeleteConversation(l) PROVE Goal
    BY <2>0, <2>5 DEF DeleteConversation, process
  <2>6. ASSUME NEW i \in Instance, Crash(i) PROVE Goal
    <3>1. Senders(r) = {}
      BY <2>0 DEF Senders, WillSend
    <3>2. late'[r] = 0
      <4>1. PICK S \in SUBSET Senders(r) :
              (S = {} => Cardinality(S) = 0) /\ late'[r] = late[r] + Cardinality(S)
        BY <2>6, CrashLeaves
      <4> QED  BY <2>0, <3>1, <4>1
    <3> QED  BY <2>0, <2>6, <3>2 DEF Crash, table, world
  <2>7. ASSUME NEW i \in Instance, BecomeLeader(i) \/ StepDown(i) \/ FinishTick(i)
        PROVE  Goal
    BY <2>0, <2>7 DEF BecomeLeader, StepDown, FinishTick, table, world
  <2>8. ASSUME AdvanceClock \/ Quiet \/ UNCHANGED vars PROVE Goal
    BY <2>0, <2>8 DEF AdvanceClock, Quiet, vars, table, process, world
  <2>9. Goal
    <3> HIDE DEF Goal
    <3> QED  BY <2>1, <2>2, <2>3, <2>4, <2>5, <2>6, <2>7, <2>8 DEF Next
  <2> QED  BY <2>9 DEF Settled, Held
<1> QED  BY <1>1, TypeCorrect, PTL DEF Spec, SettledStaysSilent

-----------------------------------------------------------------------------
(* The contract *)

\* The message a worker is at is in its turn.
LEMMA FirstIsInTurn ==
  ASSUME TypeOK, OrderInv, NEW w \in Worker, NEW m \in group[w], ComesFirst(m, group[w])
  PROVE  Contract!InTurn(m.id)
<1> SUFFICES ASSUME NEW q \in RowId, Before(q, m.id), status[q] # "ABSENT", ~Touched(q)
             PROVE  FALSE
  BY DEF Contract!InTurn, Contract!Before, Contract!Touched, Before, Touched
<1>1. PICK n \in group[w] : n.id = q /\ Precedes(n, m)
  BY DEF OrderInv, GroupInv
<1>2. m \in Message /\ n \in Message
  BY DEF TypeOK
<1>3. ~Precedes(m, n) /\ n # m
  BY <1>1, <1>2, PrecedesIsStrict
<1> QED  BY <1>3 DEF ComesFirst

\* Every step of the outbox is a step of the contract, or none.
LEMMA ContractStep ==
  ASSUME TypeOK, HandledInv, OrderInv, [Next]_vars
  PROVE  [Contract!Next]_(Contract!vars)
<1> DEFINE Allowed == Contract!Next \/ UNCHANGED Contract!vars
<1>1. ASSUME NEW l \in Lead, NEW n \in 1 .. MaxBatch, Enqueue(l, n) PROVE Allowed
  <2>1. ASSUME NEW r \in RowId
        PROVE  \/ /\ status'[r] = status[r] /\ toPhone'[r] = toPhone[r]
                  /\ scheduledAt'[r] = scheduledAt[r]
               \/ toPhone[r] = NoLead /\ status'[r] = "PENDING" /\ toPhone'[r] = l
    <3>1. CASE r \in lastId + 1 .. lastId + n
      <4>1. r > lastId
        BY <3>1, OutboxAssumption DEF TypeOK, RowId
      <4> QED  BY <1>1, <3>1, <4>1 DEF Enqueue, OrderInv, FreshInv
    <3>2. CASE r \notin lastId + 1 .. lastId + n
      BY <1>1, <3>2 DEF Enqueue
    <3> QED  BY <3>1, <3>2
  <2>2. Contract!Accept(l)
    BY <1>1, <2>1 DEF Contract!Accept, Enqueue, world
  <2> QED  BY <2>2 DEF Contract!Next
<1>2. ASSUME NEW w \in Worker, WorkerStep(w) PROVE Allowed
  <2> PICK m \in group[w] : ComesFirst(m, group[w]) /\
           \/ Send(w, m) \/ SendThrows(w, m) \/ SendTimesOut(w, m)
           \/ MarkSent(w, m) \/ SaveHistory(w, m) \/ PersistThrows(w, m)
           \/ GiveUp(w, m) \/ Reschedule(w, m) \/ CatchThrows(w, m)
    BY <1>2 DEF WorkerStep
  <2>0. m.id \in RowId /\ m.attempts \in Nat
    BY DEF TypeOK, Message
  <2>1. CASE Send(w, m)
    <3>1. Contract!Deliver(m.id)
      BY <2>1, FirstIsInTurn DEF Contract!Deliver, Send, table
    <3> QED  BY <2>0, <3>1 DEF Contract!Next
  <2>2. CASE SendThrows(w, m) \/ SendTimesOut(w, m) \/ PersistThrows(w, m)
    <3>1. Contract!Fail(m.id)
      BY <2>2, FirstIsInTurn DEF Contract!Fail, SendThrows, SendTimesOut, PersistThrows, table
    <3> QED  BY <2>0, <3>1 DEF Contract!Next
  <2>3. CASE MarkSent(w, m)
    <3>1. sends[m.id] > 0
      BY <2>3 DEF MarkSent, HandledInv, StepInv
    <3>2. Contract!Confirm(m.id)
      BY <2>3, <3>1 DEF Contract!Confirm, MarkSent, world
    <3> QED  BY <2>0, <3>2 DEF Contract!Next
  <2>4. CASE GiveUp(w, m)
    <3>1. tries[m.id] >= MaxAttempts
      <4>1. tries[m.id] > m.attempts /\ m.attempts + 1 >= MaxAttempts
        BY <2>4 DEF GiveUp, GivesUp, HandledInv, StepInv
      <4> QED  BY <2>0, <4>1, OutboxAssumption DEF TypeOK
    <3>2. Contract!GiveUp(m.id)
      BY <2>4, <3>1 DEF Contract!GiveUp, GiveUp, world
    <3> QED  BY <2>0, <3>2 DEF Contract!Next
  <2>5. CASE SaveHistory(w, m) \/ Reschedule(w, m) \/ CatchThrows(w, m)
    BY <2>5 DEF SaveHistory, Reschedule, CatchThrows, table, world, Contract!vars
  <2> QED  BY <2>1, <2>2, <2>3, <2>4, <2>5
<1>3. ASSUME NEW r \in RowId, LateDelivery(r) PROVE Allowed
  <2>1. Begun(r)
    BY <1>3 DEF LateDelivery, Begun
  <2>2. Contract!InTurn(r)
    BY <2>1 DEF OrderInv, TurnInv, Contract!InTurn, Contract!Before, Contract!Touched,
                Before, Touched
  <2>3. Contract!Deliver(r)
    BY <1>3, <2>2 DEF Contract!Deliver, LateDelivery, table
  <2> QED  BY <2>3 DEF Contract!Next
<1>4. ASSUME NEW l \in Lead, DeleteConversation(l) PROVE Allowed
  <2>1. Contract!Forget(l)
    BY <1>4 DEF Contract!Forget, DeleteConversation
  <2> QED  BY <2>1 DEF Contract!Next
<1>5. ASSUME \/ AdvanceClock
             \/ \E i \in Instance :
                  \/ BecomeLeader(i) \/ StepDown(i)
                  \/ \E s \in Slot : StartTick(i, s)
                  \/ FinishTick(i) \/ Crash(i)
             \/ Quiet \/ UNCHANGED vars
      PROVE  Allowed
  BY <1>5 DEF AdvanceClock, BecomeLeader, StepDown, StartTick, FinishTick, Crash, Quiet,
              vars, table, world, Contract!vars
<1> QED  BY <1>1, <1>2, <1>3, <1>4, <1>5 DEF Next

\* The outbox implements its contract: every send is in its turn, every SENT was
\* delivered, every FAILED was tried MaxAttempts times.
THEOREM OutboxKeepsContract == Spec => KeepsContract
<1>1. Init => Contract!Init
  BY DEF Init, Contract!Init
<1>2. TypeOK /\ HandledInv /\ OrderInv /\ [Next]_vars => [Contract!Next]_(Contract!vars)
  BY ContractStep
<1> QED
  BY <1>1, <1>2, TypeCorrect, HandledCorrect, OrderCorrect, PTL
  DEF Spec, KeepsContract, Contract!Spec

-----------------------------------------------------------------------------
(* The history entry of a SENT row *)

\* Without faults a SENT row keeps its entry, or the worker that is to write it.
LEMMA RecordStep ==
  ASSUME TypeOK, RecordInv, [Next]_vars
  PROVE  RecordInv'
<1> SUFFICES ASSUME disturbances' = 0, NEW r \in RowId, status'[r] = "SENT"
             PROVE  saved'[r] > 0 \/ \E w \in Worker : Recording(w, r)'
  BY DEF RecordInv
<1> DEFINE Goal == saved'[r] > 0 \/ \E w \in Worker : Recording(w, r)'
<1>k. ASSUME status[r] = "SENT", disturbances = 0, saved'[r] >= saved[r],
             \A v \in Worker : Recording(v, r) => Recording(v, r)' \/ saved'[r] > 0
      PROVE  Goal
  <2>1. saved[r] \in Nat /\ saved'[r] \in Nat
    BY TypeStep DEF TypeOK
  <2>2. saved[r] > 0 \/ \E v \in Worker : Recording(v, r)
    BY <1>k DEF RecordInv
  <2>3. CASE saved[r] > 0
    BY <1>k, <2>1, <2>3
  <2>4. CASE \E v \in Worker : Recording(v, r)
    BY <1>k, <2>4
  <2> QED  BY <2>2, <2>3, <2>4
<1>1. ASSUME NEW w \in Worker, WorkerStep(w) PROVE Goal
  <2> PICK m \in group[w] : ComesFirst(m, group[w]) /\
           \/ Send(w, m) \/ SendThrows(w, m) \/ SendTimesOut(w, m)
           \/ MarkSent(w, m) \/ SaveHistory(w, m) \/ PersistThrows(w, m)
           \/ GiveUp(w, m) \/ Reschedule(w, m) \/ CatchThrows(w, m)
    BY <1>1 DEF WorkerStep
  <2>0. m.id \in RowId
    BY DEF TypeOK, Message
  <2>1. CASE SendThrows(w, m) \/ SendTimesOut(w, m)
    BY <2>1 DEF SendThrows, SendTimesOut, Disturb, TypeOK
  <2>2. CASE MarkSent(w, m)
    <3>1. /\ disturbances = 0 /\ group' = group /\ saved' = saved
          /\ step' = [step EXCEPT ![w] = "history"]
          /\ status' = [status EXCEPT ![m.id] = "SENT"]
      BY <2>2 DEF MarkSent, Goto, world
    <3>2. CASE m.id = r
      <4>1. Recording(w, r)'
        BY <3>1, <3>2 DEF Recording, TypeOK, ComesFirst, Precedes
      <4> QED  BY <4>1
    <3>3. CASE m.id # r
      <4>1. status[r] = "SENT"
        BY <3>1, <3>3 DEF TypeOK
      <4>2. \A v \in Worker : Recording(v, r) => Recording(v, r)'
        BY <3>1 DEF Recording, TypeOK, ComesFirst, Precedes
      <4> QED  BY <1>k, <3>1, <4>1, <4>2 DEF TypeOK
    <3> QED  BY <3>2, <3>3
  <2>3. CASE SaveHistory(w, m)
    <3>1. /\ disturbances = 0 /\ status' = status
          /\ saved' = [saved EXCEPT ![m.id] = @ + 1]
          /\ \A v \in Worker \ {w} : group'[v] = group[v] /\ step'[v] = step[v]
      BY <2>3 DEF SaveHistory, NextMessage, Goto, table, TypeOK
    <3>2. saved'[r] >= saved[r] /\ (m.id = r => saved'[r] > 0)
      BY <2>0, <3>1 DEF TypeOK
    <3>3. ASSUME NEW v \in Worker, Recording(v, r) PROVE Recording(v, r)' \/ saved'[r] > 0
      <4>1. CASE v = w
        <5>1. m.id = r
          BY <3>3, <4>1, FirstIsUnique DEF Recording, TypeOK
        <5> QED  BY <3>2, <5>1
      <4>2. CASE v # w
        BY <3>1, <3>3, <4>2 DEF Recording, ComesFirst, Precedes
      <4> QED  BY <4>1, <4>2
    <3> QED  BY <1>k, <3>1, <3>2, <3>3
  <2>4. CASE Send(w, m) \/ GiveUp(w, m) \/ Reschedule(w, m) \/ CatchThrows(w, m)
    <3>1. /\ disturbances = 0 /\ saved' = saved /\ step[w] # "history"
          /\ status[r] = "SENT"
          /\ \A v \in Worker \ {w} : group'[v] = group[v] /\ step'[v] = step[v]
      <4>1. disturbances = 0
        BY <2>4 DEF Send, GiveUp, Reschedule, CatchThrows, Disturb, TypeOK
      <4>2. saved' = saved /\ step[w] # "history"
        BY <2>4 DEF Send, GiveUp, Reschedule, CatchThrows, world
      <4>3. status[r] = "SENT"
        BY <2>4 DEF Send, GiveUp, Reschedule, CatchThrows, table, TypeOK
      <4>4. \A v \in Worker \ {w} : group'[v] = group[v] /\ step'[v] = step[v]
        BY <2>4 DEF Send, GiveUp, Reschedule, CatchThrows, Abandon, Goto, TypeOK
      <4> QED  BY <4>1, <4>2, <4>3, <4>4
    <3>2. ASSUME NEW v \in Worker, Recording(v, r) PROVE Recording(v, r)'
      BY <3>1, <3>2 DEF Recording, ComesFirst, Precedes
    <3> QED  BY <1>k, <3>1, <3>2 DEF TypeOK
  <2>5. CASE PersistThrows(w, m)
    <3>1. /\ status[m.id] = "ABSENT" /\ disturbances = 0 /\ saved' = saved
          /\ status' = status /\ group' = group
          /\ \A v \in Worker \ {w} : step'[v] = step[v]
      BY <2>5 DEF PersistThrows, Disturb, Goto, table, TypeOK
    <3>2. ASSUME NEW v \in Worker, Recording(v, r) PROVE Recording(v, r)'
      <4>1. v # w
        <5> SUFFICES ASSUME v = w PROVE FALSE
          OBVIOUS
        <5>1. m.id = r
          BY <3>2, FirstIsUnique DEF Recording, TypeOK
        <5> QED  BY <3>1, <5>1
      <4> QED  BY <3>1, <3>2, <4>1 DEF Recording, ComesFirst, Precedes
    <3> QED  BY <1>k, <3>1, <3>2 DEF TypeOK
  <2> QED  BY <2>1, <2>2, <2>3, <2>4, <2>5
<1>2. ASSUME NEW i \in Instance, NEW s \in Slot, StartTick(i, s) PROVE Goal
  <2>1. disturbances = 0 /\ saved' = saved /\ status' = status /\ step' = step
    BY <1>2 DEF StartTick, table, world
  <2>2. ASSUME NEW v \in Worker, Recording(v, r) PROVE Recording(v, r)'
    <3>1. ~(v[1] = i /\ v[2] = s)
      <4> SUFFICES ASSUME v[1] = i, v[2] = s PROVE FALSE
        OBVIOUS
      <4>1. v = <<i, s, v[3]>> /\ v[3] \in Lead
        BY DEF Worker
      <4> QED  BY <1>2, <2>2, <4>1 DEF StartTick, Busy, Recording
    <3>2. group'[v] = group[v]
      BY <1>2, <3>1 DEF StartTick
    <3> QED  BY <2>1, <2>2, <3>2 DEF Recording, ComesFirst, Precedes
  <2> QED  BY <1>k, <2>1, <2>2 DEF TypeOK
<1>3. CASE \E l \in Lead : DeleteConversation(l)
  BY <1>3 DEF DeleteConversation, Disturb, TypeOK
<1>4. CASE \E i \in Instance : StepDown(i) \/ Crash(i)
  BY <1>4 DEF StepDown, Crash, Disturb, TypeOK
<1>5. CASE \/ \E l \in Lead, n \in 1 .. MaxBatch : Enqueue(l, n)
           \/ AdvanceClock
           \/ \E i \in Instance : BecomeLeader(i) \/ FinishTick(i)
           \/ \E q \in RowId : LateDelivery(q)
           \/ Quiet \/ UNCHANGED vars
  <2>1. disturbances = 0 /\ saved' = saved /\ group' = group /\ step' = step
    BY <1>5 DEF Enqueue, AdvanceClock, BecomeLeader, FinishTick, LateDelivery, Quiet, vars,
                process, world
  <2>2. status[r] = "SENT"
    BY <1>5 DEF Enqueue, AdvanceClock, BecomeLeader, FinishTick, LateDelivery, Quiet, vars,
                table
  <2>3. ASSUME NEW v \in Worker, Recording(v, r) PROVE Recording(v, r)'
    BY <2>1, <2>3 DEF Recording, ComesFirst, Precedes
  <2> QED  BY <1>k, <2>1, <2>2, <2>3 DEF TypeOK
<1> QED  BY <1>1, <1>2, <1>3, <1>4, <1>5 DEF Next

\* The chat shows what the lead received: without an error, a crash, a step-down or
\* a deletion, a SENT row that no worker holds has its BOT entry in the history.
THEOREM SentRowsAreRecorded == Spec => []SentIsRecorded
<1>1. Init => RecordInv
  BY DEF Init, RecordInv
<1>2. TypeOK /\ RecordInv /\ [Next]_vars => RecordInv'
  BY RecordStep
<1>3. TypeOK /\ RecordInv => SentIsRecorded
  BY DEF RecordInv, SentIsRecorded, Recording, Held, TypeOK
<1> QED  BY <1>1, <1>2, <1>3, TypeCorrect, PTL DEF Spec

-----------------------------------------------------------------------------
(* Duplicates *)

\* A row leaves PENDING for good.
LEMMA PendingIsKept ==
  ASSUME TypeOK, [Next]_vars, NEW r \in RowId, r <= lastId, status'[r] = "PENDING"
  PROVE  status[r] = "PENDING"
<1>1. ASSUME NEW l \in Lead, NEW n \in 1 .. MaxBatch, Enqueue(l, n)
      PROVE  status[r] = "PENDING"
  <2>1. r \notin lastId + 1 .. lastId + n
    BY <1>1 DEF TypeOK, RowId
  <2> QED  BY <1>1, <2>1 DEF Enqueue
<1>2. ASSUME NEW w \in Worker, NEW m \in group[w],
             MarkSent(w, m) \/ GiveUp(w, m) \/ Reschedule(w, m)
      PROVE  status[r] = "PENDING"
  BY <1>2 DEF MarkSent, GiveUp, Reschedule, TypeOK
<1>3. ASSUME NEW w \in Worker, NEW m \in group[w],
             \/ Send(w, m) \/ SendThrows(w, m) \/ SendTimesOut(w, m)
             \/ SaveHistory(w, m) \/ PersistThrows(w, m) \/ CatchThrows(w, m)
      PROVE  status[r] = "PENDING"
  BY <1>3 DEF Send, SendThrows, SendTimesOut, SaveHistory, PersistThrows, CatchThrows, table
<1>4. CASE \/ AdvanceClock
           \/ \E i \in Instance :
                \/ BecomeLeader(i) \/ StepDown(i)
                \/ \E s \in Slot : StartTick(i, s)
                \/ FinishTick(i) \/ Crash(i)
           \/ \E q \in RowId : LateDelivery(q)
           \/ \E l \in Lead : DeleteConversation(l)
           \/ Quiet \/ UNCHANGED vars
  BY <1>4 DEF AdvanceClock, BecomeLeader, StepDown, StartTick, FinishTick, Crash,
              LateDelivery, DeleteConversation, Quiet, vars, table, TypeOK
<1> QED  BY <1>1, <1>2, <1>3, <1>4 DEF Next, WorkerStep

\* A group that does not grow, at a message whose status is as before, stays as it is.
LEMMA OnceKept ==
  ASSUME TypeOK, GroupInv, OnceInv, [Next]_vars, NEW v \in Worker,
         \/ group'[v] = group[v] /\ step'[v] = step[v]
         \/ group'[v] \subseteq group[v] /\ step'[v] # "history"
  PROVE  /\ \A m, n \in group'[v] : m.id = n.id => m = n
         /\ \A m \in group'[v] :
              ComesFirst(m, group'[v]) /\ step'[v] = "history" => status'[m.id] # "PENDING"
<1>1. \A m \in group[v] : m.id \in RowId /\ m.id <= lastId
  BY DEF TypeOK, Message, GroupInv
<1> QED  BY <1>1, PendingIsKept DEF OnceInv

LEMMA OnceStep ==
  ASSUME TypeOK, StepInv, GroupInv, OnceInv, [Next]_vars
  PROVE  OnceInv'
<1> DEFINE Fine(v) ==
      /\ \A m, n \in group'[v] : m.id = n.id => m = n
      /\ \A m \in group'[v] :
           ComesFirst(m, group'[v]) /\ step'[v] = "history" => status'[m.id] # "PENDING"
<1> SUFFICES ASSUME NEW v \in Worker PROVE Fine(v)
  BY DEF OnceInv, ComesFirst, Precedes
<1>1. ASSUME NEW w \in Worker, WorkerStep(w) PROVE Fine(v)
  <2> PICK m \in group[w] : ComesFirst(m, group[w]) /\
           \/ Send(w, m) \/ SendThrows(w, m) \/ SendTimesOut(w, m)
           \/ MarkSent(w, m) \/ SaveHistory(w, m) \/ PersistThrows(w, m)
           \/ GiveUp(w, m) \/ Reschedule(w, m) \/ CatchThrows(w, m)
    BY <1>1 DEF WorkerStep
  <2>1. CASE v # w
    <3>1. group'[v] = group[v] /\ step'[v] = step[v]
      BY <2>1 DEF Send, SendThrows, SendTimesOut, MarkSent, SaveHistory, PersistThrows,
           GiveUp, Reschedule, CatchThrows, NextMessage, Abandon, Goto, TypeOK
    <3> QED  BY <3>1, OnceKept
  <2>2. CASE v = w /\ MarkSent(w, m)
    <3>1. group' = group /\ status'[m.id] = "SENT"
      BY <2>2 DEF MarkSent, TypeOK, Message
    <3>2. \A n \in group[v] : ComesFirst(n, group[v]) => n = m
      BY <2>2, FirstIsUnique DEF TypeOK
    <3> QED  BY <2>2, <3>1, <3>2 DEF OnceInv
  <2>3. CASE v = w /\ ~MarkSent(w, m)
    <3>1. group'[v] \subseteq group[v] /\ step'[v] # "history"
      BY <2>3 DEF Send, SendThrows, SendTimesOut, SaveHistory, PersistThrows,
           GiveUp, Reschedule, CatchThrows, NextMessage, Abandon, Goto, TypeOK
    <3> QED  BY <3>1, OnceKept
  <2> QED  BY <2>1, <2>2, <2>3
<1>2. ASSUME NEW i \in Instance, NEW s \in Slot, StartTick(i, s) PROVE Fine(v)
  <2>0. step' = step /\ status' = status
    BY <1>2 DEF StartTick, table
  <2>1. CASE v[1] = i /\ v[2] = s
    <3>1. group'[v] \subseteq ReadyMessages
      BY <1>2, <2>1 DEF StartTick, FindReadyToSend
    <3>2. \A m, n \in group'[v] : m.id = n.id => m = n
      BY <3>1 DEF ReadyMessages
    <3>3. v = <<i, s, v[3]>> /\ v[3] \in Lead
      BY <2>1 DEF Worker
    <3>4. step[v] = "send"
      BY <1>2, <3>3 DEF StartTick, Busy, StepInv
    <3> QED  BY <2>0, <3>2, <3>4
  <2>2. CASE ~(v[1] = i /\ v[2] = s)
    <3>1. group'[v] = group[v]
      BY <1>2, <2>2 DEF StartTick
    <3> QED  BY <2>0, <3>1, OnceKept
  <2> QED  BY <2>1, <2>2
<1>3. ASSUME NEW i \in Instance, Crash(i) PROVE Fine(v)
  <2>1. \/ group'[v] = group[v] /\ step'[v] = step[v]
        \/ group'[v] \subseteq group[v] /\ step'[v] # "history"
    BY <1>3 DEF Crash, TypeOK
  <2> QED  BY <2>1, OnceKept
<1>4. CASE \/ \E l \in Lead, n \in 1 .. MaxBatch : Enqueue(l, n)
           \/ AdvanceClock
           \/ \E i \in Instance : BecomeLeader(i) \/ StepDown(i) \/ FinishTick(i)
           \/ \E r \in RowId : LateDelivery(r)
           \/ \E l \in Lead : DeleteConversation(l)
           \/ Quiet \/ UNCHANGED vars
  <2>1. group' = group /\ step' = step
    BY <1>4 DEF Enqueue, AdvanceClock, BecomeLeader, StepDown, FinishTick, LateDelivery,
                DeleteConversation, Quiet, vars, process
  <2> QED  BY <2>1, OnceKept
<1> QED  BY <1>1, <1>2, <1>3, <1>4 DEF Next

\* A subset is no larger; smaller without one element; larger by one at most with one.
LEMMA CountSubset ==
  ASSUME NEW A, IsFiniteSet(A), NEW B, B \subseteq A
  PROVE  /\ IsFiniteSet(B) /\ Cardinality(A) \in Nat /\ Cardinality(B) \in Nat
         /\ Cardinality(B) <= Cardinality(A)
BY FS_Subset, FS_CardinalityType

LEMMA CountWithout ==
  ASSUME NEW A, IsFiniteSet(A), NEW B, NEW x \in A, B \subseteq A \ {x}
  PROVE  /\ IsFiniteSet(B) /\ Cardinality(A) \in Nat /\ Cardinality(B) \in Nat
         /\ Cardinality(B) <= Cardinality(A) - 1
<1>1. IsFiniteSet(A \ {x}) /\ Cardinality(A \ {x}) = Cardinality(A) - 1
  BY FS_RemoveElement
<1> QED  BY <1>1, CountSubset, FS_CardinalityType

LEMMA CountWith ==
  ASSUME NEW A, IsFiniteSet(A), NEW B, NEW x, B \subseteq A \cup {x}
  PROVE  /\ IsFiniteSet(B) /\ Cardinality(A) \in Nat /\ Cardinality(B) \in Nat
         /\ Cardinality(B) <= Cardinality(A) + 1
<1>1. /\ IsFiniteSet(A \cup {x}) /\ Cardinality(A) \in Nat
      /\ Cardinality(A \cup {x}) <= Cardinality(A) + 1
  <2>1. IsFiniteSet(A \cup {x}) /\ Cardinality(A) \in Nat
    BY FS_AddElement, FS_CardinalityType
  <2>2. Cardinality(A \cup {x}) = IF x \in A THEN Cardinality(A) ELSE Cardinality(A) + 1
    BY FS_AddElement
  <2> QED  BY <2>1, <2>2
<1> QED  BY <1>1, CountSubset

LEMMA InstancesCount ==
  /\ Cardinality(Instance) \in Nat \ {0}
  /\ \A r : /\ IsFiniteSet(Takers(r)) /\ Cardinality(Takers(r)) \in Nat
            /\ Cardinality(Takers(r)) <= Cardinality(Instance)
<1>1. Cardinality(Instance) \in Nat \ {0}
  BY OutboxAssumption, FS_CardinalityType, FS_EmptySet
<1>2. \A r : Takers(r) \subseteq Instance
  BY DEF Takers
<1> QED  BY <1>1, <1>2, CountSubset, OutboxAssumption

LEMMA RowsAreOld ==
  ASSUME TypeOK, [Next]_vars, NEW r \in 1 .. lastId
  PROVE  r \in RowId /\ r \in Nat /\ lastId \in Nat /\ r <= lastId /\ r <= lastId'
<1>1. r \in RowId /\ r \in Nat /\ lastId \in Nat /\ r <= lastId
  BY OutboxAssumption DEF TypeOK, RowId
<1>2. lastId' \in Nat
  BY TypeStep, OutboxAssumption DEF TypeOK
<1>3. CASE \E l \in Lead, n \in 1 .. MaxBatch : Enqueue(l, n)
  BY <1>1, <1>2, <1>3 DEF Enqueue
<1>4. CASE ~\E l \in Lead, n \in 1 .. MaxBatch : Enqueue(l, n)
  BY <1>1, <1>4, RowsKept
<1> QED  BY <1>1, <1>3, <1>4

\* What was deleted stays deleted, and never gets cheaper.
LEMMA PriceStep ==
  ASSUME TypeOK, OrderInv, [Next]_vars, NEW r \in 1 .. lastId
  PROVE  /\ Price(r) \in Nat \ {0} /\ Price(r)' \in Nat \ {0}
         /\ Price(r) <= Price(r)' /\ Price(r) <= Cardinality(Instance)
<1>1. ASSUME NEW q \in 1 .. lastId, toPhone[q] # toPhone[r], status[q] = "ABSENT"
      PROVE  q \in 1 .. lastId' /\ toPhone'[q] # toPhone'[r] /\ status'[q] = "ABSENT"
  <2>1. q \in RowId /\ r \in RowId /\ q <= lastId /\ r <= lastId /\ q \in Nat
        /\ q <= lastId' /\ lastId' \in Nat
    BY RowsAreOld, TypeStep, OutboxAssumption DEF TypeOK
  <2>2. CASE \E l \in Lead, n \in 1 .. MaxBatch : Enqueue(l, n)
    BY <1>1, <2>1, <2>2, EnqueueRows
  <2>3. CASE ~\E l \in Lead, n \in 1 .. MaxBatch : Enqueue(l, n)
    BY <1>1, <2>1, <2>3, RowsKept
  <2> QED  BY <2>1, <2>2, <2>3
<1>2. OtherLeadDeleted(r) => OtherLeadDeleted(r)'
  BY <1>1 DEF OtherLeadDeleted
<1> QED  BY <1>2, InstancesCount DEF Price

LEMMA ProductsGrow ==
  ASSUME NEW p \in Nat \ {0}, NEW q \in Nat \ {0}, p <= q,
         NEW d \in Nat, NEW e \in Nat, d <= e
  PROVE  /\ p * d \in Nat /\ q * e \in Nat /\ p * d + (e - d) <= q * e
         /\ e = d + 1 => p * d + q <= q * e
<1>1. PICK j \in Nat : q = p + j
  <2>1. q - p \in Nat /\ q = p + (q - p)
    OBVIOUS
  <2> QED  BY <2>1
<1>2. PICK k \in Nat : e = d + k
  <2>1. e - d \in Nat /\ e = d + (e - d)
    OBVIOUS
  <2> QED  BY <2>1
<1>3. p * d \in Nat /\ p * k \in Nat /\ j * d \in Nat /\ j * k \in Nat
  OBVIOUS
<1>4. q * e = p * d + p * k + j * d + j * k
  BY <1>1, <1>2
<1>5. p * k >= k
  OBVIOUS
<1>6. k = 1 => p * k = p /\ j * k = j
  OBVIOUS
<1> QED  BY <1>1, <1>2, <1>3, <1>4, <1>5, <1>6

LEMMA DisturbancesStep ==
  ASSUME TypeOK, [Next]_vars
  PROVE  /\ disturbances \in Nat /\ disturbances' \in Nat
         /\ disturbances' = disturbances \/ disturbances' = disturbances + 1
<1>1. disturbances \in Nat /\ disturbances' \in Nat
  BY TypeStep, OutboxAssumption DEF TypeOK
<1>2. disturbances' = disturbances \/ disturbances' = disturbances + 1
  BY DEF Next, WorkerStep, Enqueue, AdvanceClock, BecomeLeader, StepDown, StartTick,
     FinishTick, Crash, LateDelivery, DeleteConversation, Quiet, vars, Send, SendThrows,
     SendTimesOut, MarkSent, SaveHistory, PersistThrows, GiveUp, Reschedule, CatchThrows,
     Disturb
<1> QED  BY <1>1, <1>2

\* A row whose total grows by the disturbances at most stays within its budget.
LEMMA BudgetKept ==
  ASSUME TypeOK, OrderInv, [Next]_vars, NEW r \in 1 .. lastId, Budget(r),
         NEW S, IsFiniteSet(S), NEW T, IsFiniteSet(T),
         Senders(r)' \subseteq S, Takers(r)' \subseteq T,
         sends'[r] + late'[r] + Cardinality(S) + Cardinality(T)
           <= Total(r) + (disturbances' - disturbances)
  PROVE  Budget(r)'
<1>1. /\ IsFiniteSet(Senders(r)') /\ Cardinality(Senders(r)') \in Nat
      /\ Cardinality(S) \in Nat /\ Cardinality(Senders(r)') <= Cardinality(S)
      /\ IsFiniteSet(Takers(r)') /\ Cardinality(Takers(r)') \in Nat
      /\ Cardinality(T) \in Nat /\ Cardinality(Takers(r)') <= Cardinality(T)
  BY CountSubset
<1>2. r \in RowId
  BY RowsAreOld
<1>3. /\ sends[r] \in Nat /\ sends'[r] \in Nat /\ late[r] \in Nat /\ late'[r] \in Nat
  BY <1>2, TypeStep DEF TypeOK
<1>4. Cardinality(Senders(r)) \in Nat /\ Cardinality(Takers(r)) \in Nat
  BY FS_CardinalityType, InstancesCount DEF Budget
<1>5. /\ Price(r) * disturbances \in Nat /\ Price(r)' * disturbances' \in Nat
      /\ Price(r) * disturbances + (disturbances' - disturbances)
           <= Price(r)' * disturbances'
  BY DisturbancesStep, PriceStep, ProductsGrow
<1>6. Total(r)' = sends'[r] + late'[r] + Cardinality(Senders(r)') + Cardinality(Takers(r)')
  BY DEF Total
<1>7. Total(r)' <= Total(r) + (disturbances' - disturbances)
  BY <1>1, <1>3, <1>4, <1>6, DisturbancesStep DEF Total
<1>8. Total(r)' <= Cardinality(Instance) + Price(r)' * disturbances'
  <2>1. Total(r) <= Cardinality(Instance) + Price(r) * disturbances
    BY DEF Budget
  <2>2. Total(r) \in Nat /\ Total(r)' \in Nat
    BY <1>1, <1>3, <1>4, <1>6 DEF Total
  <2> HIDE DEF Total, Price, Budget
  <2> QED  BY <1>5, <1>7, <2>1, <2>2, DisturbancesStep, InstancesCount
<1> QED  BY <1>1, <1>8 DEF Budget

\* The workers of a tick that nothing touched keep a row as they did.
LEMMA TickKept ==
  ASSUME TypeOK, NEW i \in Instance, NEW s \in Slot, NEW r \in RowId,
         \A l \in Lead : /\ group'[<<i, s, l>>] = group[<<i, s, l>>]
                         /\ step'[<<i, s, l>>] = step[<<i, s, l>>],
         \A q \in RowId : status'[q] = "ABSENT" <=> status[q] = "ABSENT"
  PROVE  Keeps(i, s, r)' <=> Keeps(i, s, r)
<1>1. \A l \in Lead : \A m \in group[<<i, s, l>>] : m.id \in RowId
  BY DEF TypeOK, Message, Worker
<1> QED  BY <1>1 DEF Keeps, ComesFirst, Precedes

\* An instance in a tick is free for a row when the tick does not keep it.
LEMMA FreeInTick ==
  ASSUME TypeOK, NEW i \in Instance, NEW s \in Slot, NEW r
  PROVE  /\ running[i] = s => (Free(i, r) <=> ~Keeps(i, s, r))
         /\ running'[i] = s => (Free(i, r)' <=> ~Keeps(i, s, r)')
<1>1. s # NoTick
  BY OutboxAssumption
<1>2. running[i] = s => (Free(i, r) <=> ~Keeps(i, s, r))
  BY <1>1 DEF Free
<1>3. running'[i] = s => (Free(i, r)' <=> ~Keeps(i, s, r)')
  BY <1>1 DEF Free, Keeps
<1> QED  BY <1>2, <1>3

\* When the workers of one tick at most move and no row is deleted, only their
\* instance may become free to take a row again.
LEMMA OneTakerMore ==
  ASSUME TypeOK, [Next]_vars, NEW r \in 1 .. lastId, NEW i \in Instance, NEW s \in Slot,
         \A v \in Worker : ~(v[1] = i /\ v[2] = s) => group'[v] = group[v] /\ step'[v] = step[v],
         \A q \in RowId : status'[q] = "ABSENT" <=> status[q] = "ABSENT",
         running'[i] = running[i] \/ running[i] = s,
         \A j \in Instance \ {i} : running'[j] = running[j]
  PROVE  /\ Takers(r)' \subseteq Takers(r) \cup {i}
         /\ \/ Takers(r)' \subseteq Takers(r)
            \/ running[i] = s /\ Keeps(i, s, r) /\ status'[r] = "PENDING" /\ Free(i, r)'
<1>1. r \in RowId /\ (status'[r] = "PENDING" => status[r] = "PENDING")
  BY RowsAreOld, PendingIsKept
<1>2. ASSUME NEW j \in Instance, NEW u \in Slot, ~(j = i /\ u = s)
      PROVE  Keeps(j, u, r)' <=> Keeps(j, u, r)
  <2>1. \A l \in Lead : /\ group'[<<j, u, l>>] = group[<<j, u, l>>]
                        /\ step'[<<j, u, l>>] = step[<<j, u, l>>]
    BY <1>2 DEF Worker
  <2> QED  BY <1>1, <2>1, TickKept
<1>3. ASSUME NEW j \in Takers(r)', j \notin Takers(r)
      PROVE  j = i /\ running[i] = s /\ Keeps(i, s, r) /\ status'[r] = "PENDING" /\ Free(i, r)'
  <2>1. j \in Instance /\ status'[r] = "PENDING" /\ Free(j, r)'
    BY <1>3 DEF Takers
  <2>2. ~Free(j, r)
    BY <1>1, <1>3, <2>1 DEF Takers
  <2>3. PICK u \in Slot : running[j] = u
    BY <2>1, <2>2 DEF Free, TypeOK
  <2>4. Keeps(j, u, r)
    BY <2>1, <2>2, <2>3, FreeInTick
  <2>5. ~(running'[j] = u /\ Keeps(j, u, r)')
    BY <2>1, FreeInTick
  <2>6. j = i /\ u = s
    BY <1>2, <2>1, <2>3, <2>4, <2>5
  <2> QED  BY <2>1, <2>3, <2>4, <2>6
<1> QED  BY <1>3

\* A worker that sends, throws, drops its message or gives its group up is not going
\* to send more than before, and not the message it was at.
LEMMA SendersShrink ==
  ASSUME TypeOK, OnceInv, NEW w \in Worker, NEW m \in group[w], ComesFirst(m, group[w]),
         \A v \in Worker \ {w} : group'[v] = group[v] /\ step'[v] = step[v],
         \/ group'[w] = group[w] /\ step'[w] # "send"
         \/ group'[w] = group[w] \ {m}
         \/ group'[w] = {},
         NEW r
  PROVE  /\ Senders(r)' \subseteq Senders(r)
         /\ m.id = r \/ group'[w] = {} => w \notin Senders(r)'
<1>1. ASSUME NEW v \in Worker \ {w}, WillSend(v, r)' PROVE WillSend(v, r)
  BY <1>1 DEF WillSend, ComesFirst, Precedes
<1>2. ASSUME NEW n \in group'[w], n.id = r, ComesFirst(n, group'[w]) => step'[w] = "send"
      PROVE  WillSend(w, r) /\ m.id # r /\ group'[w] # {}
  <2>1. n \in group[w] /\ n # m
    <3>1. CASE group'[w] = group[w] /\ step'[w] # "send"
      BY <1>2, <3>1
    <3>2. CASE group'[w] = group[w] \ {m} \/ group'[w] = {}
      BY <1>2, <3>2
    <3> QED  BY <3>1, <3>2
  <2>2. ~ComesFirst(n, group[w])
    BY <2>1, FirstIsUnique DEF TypeOK
  <2>3. m.id # r
    BY <1>2, <2>1 DEF OnceInv
  <2> QED  BY <1>2, <2>1, <2>2, <2>3 DEF WillSend
<1>3. WillSend(w, r)' => WillSend(w, r) /\ m.id # r /\ group'[w] # {}
  BY <1>2 DEF WillSend, ComesFirst, Precedes
<1> QED  BY <1>1, <1>3 DEF Senders

\* A tick keeps a row while its workers go on with their messages.
LEMMA HeldStill ==
  ASSUME TypeOK, NEW w \in Worker, NEW m \in group[w], ComesFirst(m, group[w]),
         \A v \in Worker \ {w} : group'[v] = group[v] /\ step'[v] = step[v],
         \A q \in RowId : status'[q] = "ABSENT" <=> status[q] = "ABSENT",
         NEW i \in Instance, NEW s \in Slot, NEW r, Keeps(i, s, r),
         \/ group'[w] = group[w] /\ step'[w] # "catch"
         \/ group'[w] = group[w] \ {m} /\ step'[w] = "send" /\ m.id # r
         \/ group'[w] = {} /\ ~WillSend(w, r) /\ (m.id = r => step[w] = "catch")
  PROVE  Keeps(i, s, r)'
<1>1. ASSUME NEW l \in Lead
      PROVE  /\ <<i, s, l>> \in Worker /\ group'[<<i, s, l>>] \subseteq group[<<i, s, l>>]
             /\ \A n \in group[<<i, s, l>>] : n.id \in RowId
  <2>1. <<i, s, l>> \in Worker
    BY DEF Worker
  <2> QED  BY <2>1 DEF TypeOK, Message
<1>2. \A l \in Lead : \A n \in group'[<<i, s, l>>] : status'[n.id] # "ABSENT"
  BY <1>1 DEF Keeps
<1>3. PICK l \in Lead, n \in Message :
        /\ n \in group[<<i, s, l>>] /\ n.id = r
        /\ ComesFirst(n, group[<<i, s, l>>]) => step[<<i, s, l>>] # "catch"
  BY <1>1 DEF Keeps, TypeOK
<1>4. /\ n \in group'[<<i, s, l>>]
      /\ ComesFirst(n, group'[<<i, s, l>>]) => step'[<<i, s, l>>] # "catch"
  <2>1. CASE <<i, s, l>> # w
    BY <1>1, <1>3, <2>1
  <2>2. CASE <<i, s, l>> = w
    <3>1. CASE group'[w] = {}
      <4>1. n # m
        BY <1>3, <2>2, <3>1
      <4>2. ~ComesFirst(n, group[w])
        BY <1>3, <2>2, <4>1, FirstIsUnique DEF TypeOK
      <4> QED  BY <1>3, <2>2, <3>1, <4>2 DEF WillSend
    <3>2. CASE group'[w] = group[w] /\ step'[w] # "catch"
      BY <1>3, <2>2, <3>2
    <3>3. CASE group'[w] = group[w] \ {m} /\ step'[w] = "send" /\ m.id # r
      BY <1>3, <2>2, <3>3
    <3> QED  BY <3>1, <3>2, <3>3
  <2> QED  BY <2>1, <2>2
<1>5. /\ \E k \in Lead : \E o \in group'[<<i, s, k>>] :
            o.id = r /\ (ComesFirst(o, group'[<<i, s, k>>]) => step'[<<i, s, k>>] # "catch")
  BY <1>3, <1>4
<1> QED  BY <1>2, <1>5 DEF Keeps, ComesFirst, Precedes

\* Every step of a worker is within the budget of every row.
LEMMA WorkerBudget ==
  ASSUME TypeOK, OrderInv, OnceInv, [Next]_vars, NEW r \in 1 .. lastId, Budget(r),
         NEW w \in Worker, WorkerStep(w)
  PROVE  Budget(r)'
<1> PICK m \in group[w] : ComesFirst(m, group[w]) /\
         \/ Send(w, m) \/ SendThrows(w, m) \/ SendTimesOut(w, m)
         \/ MarkSent(w, m) \/ SaveHistory(w, m) \/ PersistThrows(w, m)
         \/ GiveUp(w, m) \/ Reschedule(w, m) \/ CatchThrows(w, m)
  BY DEF WorkerStep
<1>0. PICK i \in Instance, s \in Slot, l \in Lead : w = <<i, s, l>>
  BY DEF Worker
<1>1. m.id \in RowId /\ r \in RowId
  BY RowsAreOld DEF TypeOK, Message
<1>2. /\ \A v \in Worker \ {w} : group'[v] = group[v] /\ step'[v] = step[v]
      /\ \/ group'[w] = group[w] /\ step'[w] # "send"
         \/ group'[w] = group[w] \ {m} /\ step'[w] = "send"
         \/ group'[w] = {}
  BY DEF Send, SendThrows, SendTimesOut, MarkSent, SaveHistory, PersistThrows,
     GiveUp, Reschedule, CatchThrows, NextMessage, Abandon, Goto, TypeOK
<1>3. /\ Senders(r)' \subseteq Senders(r)
      /\ m.id = r \/ group'[w] = {} => w \notin Senders(r)'
  BY <1>2, SendersShrink
<1>4. \A q \in RowId : status'[q] = "ABSENT" <=> status[q] = "ABSENT"
  BY DEF Send, SendThrows, SendTimesOut, MarkSent, SaveHistory, PersistThrows,
     GiveUp, Reschedule, CatchThrows, table, TypeOK
<1>5. running' = running \/ (CatchThrows(w, m) /\ running' =
        [running EXCEPT ![i] = IF @ = s THEN NoTick ELSE @])
  BY <1>0 DEF Send, SendThrows, SendTimesOut, MarkSent, SaveHistory, PersistThrows,
     GiveUp, Reschedule, CatchThrows
<1>6. /\ Takers(r)' \subseteq Takers(r) \cup {i}
      /\ \/ Takers(r)' \subseteq Takers(r)
         \/ running[i] = s /\ Keeps(i, s, r) /\ status'[r] = "PENDING" /\ Free(i, r)'
  <2>1. \A v \in Worker : ~(v[1] = i /\ v[2] = s) => group'[v] = group[v] /\ step'[v] = step[v]
    BY <1>0, <1>2
  <2>2. /\ running'[i] = running[i] \/ running[i] = s
        /\ \A j \in Instance \ {i} : running'[j] = running[j]
    BY <1>5 DEF TypeOK
  <2> QED  BY <1>4, <2>1, <2>2, OneTakerMore
<1>7. /\ IsFiniteSet(Senders(r)) /\ IsFiniteSet(Takers(r))
      /\ Cardinality(Senders(r)) \in Nat /\ Cardinality(Takers(r)) \in Nat
      /\ disturbances \in Nat
      /\ sends[r] \in Nat /\ late[r] \in Nat /\ sends'[r] \in Nat /\ late'[r] \in Nat
  BY <1>1, InstancesCount, FS_CardinalityType, DisturbancesStep, TypeStep DEF Budget, TypeOK
<1>8. /\ IsFiniteSet(Takers(r) \cup {i}) /\ Cardinality(Takers(r) \cup {i}) \in Nat
      /\ Cardinality(Takers(r) \cup {i}) <= Cardinality(Takers(r)) + 1
  BY <1>7, CountWith
<1>9. w \in Senders(r) =>
        /\ IsFiniteSet(Senders(r) \ {w})
        /\ Cardinality(Senders(r) \ {w}) = Cardinality(Senders(r)) - 1
  BY <1>7, FS_RemoveElement
<1>10. step[w] = "send" /\ m.id = r => w \in Senders(r)
  BY DEF Senders, WillSend
\* Whatever the step leaves of its tick, a disturbance pays for it.
<1>11. ASSUME disturbances' = disturbances + 1, sends'[r] = sends[r],
              late'[r] = late[r] \/ (m.id = r /\ step[w] = "send" /\ late'[r] = late[r] + 1)
       PROVE  Budget(r)'
  <2>1. CASE late'[r] = late[r]
    <3>1. sends'[r] + late'[r] + Cardinality(Senders(r)) + Cardinality(Takers(r) \cup {i})
            <= Total(r) + (disturbances' - disturbances)
      BY <1>7, <1>8, <1>11, <2>1 DEF Total
    <3> QED  BY <1>3, <1>6, <1>7, <1>8, <3>1, BudgetKept
  <2>2. CASE m.id = r /\ step[w] = "send" /\ late'[r] = late[r] + 1
    <3>1. sends'[r] + late'[r] + Cardinality(Senders(r) \ {w}) + Cardinality(Takers(r) \cup {i})
            <= Total(r) + (disturbances' - disturbances)
      BY <1>7, <1>8, <1>9, <1>10, <1>11, <2>2 DEF Total
    <3>2. Senders(r)' \subseteq Senders(r) \ {w}
      BY <1>3, <2>2
    <3> QED  BY <1>6, <1>8, <1>9, <1>10, <2>2, <3>1, <3>2, BudgetKept
  <2> QED  BY <1>11, <2>1, <2>2
\* Without one, a tick that goes on keeps what it has.
<1>12. ASSUME disturbances' = disturbances, sends' = sends, late' = late,
              Takers(r)' \subseteq Takers(r)
       PROVE  Budget(r)'
  <2>1. sends'[r] + late'[r] + Cardinality(Senders(r)) + Cardinality(Takers(r))
          <= Total(r) + (disturbances' - disturbances)
    BY <1>7, <1>12 DEF Total
  <2> QED  BY <1>3, <1>7, <1>12, <2>1, BudgetKept
<1>13. ASSUME running' = running,
              \/ group'[w] = group[w] /\ step'[w] # "catch"
              \/ group'[w] = group[w] \ {m} /\ step'[w] = "send"
                 /\ (m.id = r => status'[r] # "PENDING")
              \/ group'[w] = {} /\ ~WillSend(w, r) /\ (m.id = r => step[w] = "catch")
       PROVE  Takers(r)' \subseteq Takers(r)
  <2> SUFFICES ASSUME running[i] = s, Keeps(i, s, r), status'[r] = "PENDING", Free(i, r)'
               PROVE  FALSE
    BY <1>6
  <2>1. Keeps(i, s, r)'
    BY <1>2, <1>4, <1>13, HeldStill
  <2> QED  BY <1>13, <2>1, FreeInTick
<1>14. CASE Send(w, m)
  <2>1. /\ step[w] = "send" /\ disturbances' = disturbances /\ late' = late
        /\ sends' = [sends EXCEPT ![m.id] = @ + 1] /\ running' = running
        /\ group'[w] = group[w] /\ step'[w] # "catch"
    BY <1>14 DEF Send, Goto, TypeOK
  <2>2. Takers(r)' \subseteq Takers(r)
    BY <1>13, <2>1
  <2>3. CASE m.id = r
    <3>1. sends'[r] = sends[r] + 1
      BY <1>1, <2>1, <2>3 DEF TypeOK
    <3>2. sends'[r] + late'[r] + Cardinality(Senders(r) \ {w}) + Cardinality(Takers(r))
            <= Total(r) + (disturbances' - disturbances)
      BY <1>7, <1>9, <1>10, <2>1, <2>3, <3>1 DEF Total
    <3>3. Senders(r)' \subseteq Senders(r) \ {w}
      BY <1>3, <2>3
    <3> QED  BY <1>7, <1>9, <1>10, <2>1, <2>2, <2>3, <3>2, <3>3, BudgetKept
  <2>4. CASE m.id # r
    <3>1. sends'[r] + late'[r] + Cardinality(Senders(r)) + Cardinality(Takers(r))
            <= Total(r) + (disturbances' - disturbances)
      BY <1>1, <1>7, <2>1, <2>4 DEF Total, TypeOK
    <3> QED  BY <1>3, <1>7, <2>2, <3>1, BudgetKept
  <2> QED  BY <2>3, <2>4
<1>15. CASE SendThrows(w, m) \/ SendTimesOut(w, m)
  <2>1. disturbances' = disturbances + 1 /\ sends' = sends /\ step[w] = "send"
        /\ (late' = late \/ late' = [late EXCEPT ![m.id] = @ + 1])
    BY <1>15 DEF SendThrows, SendTimesOut, Disturb
  <2>2. late'[r] = late[r] \/ (m.id = r /\ step[w] = "send" /\ late'[r] = late[r] + 1)
    BY <1>1, <2>1 DEF TypeOK
  <2> QED  BY <1>11, <2>1, <2>2
<1>16. CASE MarkSent(w, m)
  <2>1. /\ disturbances' = disturbances /\ sends' = sends /\ late' = late
        /\ running' = running /\ group'[w] = group[w] /\ step'[w] # "catch"
    BY <1>16 DEF MarkSent, Goto, world, TypeOK
  <2> QED  BY <1>12, <1>13, <2>1
<1>17. CASE SaveHistory(w, m)
  <2>1. /\ disturbances' = disturbances /\ sends' = sends /\ late' = late
        /\ running' = running /\ group'[w] = group[w] \ {m} /\ step'[w] = "send"
        /\ status' = status /\ step[w] = "history"
    BY <1>17 DEF SaveHistory, NextMessage, Goto, table, TypeOK
  <2>2. status[m.id] # "PENDING"
    BY <2>1 DEF OnceInv
  <2> QED  BY <1>12, <1>13, <2>1, <2>2
\* A deleted row ends the tick; its deletion was paid for.
<1>18. ASSUME status[m.id] = "ABSENT" PROVE Takers(r)' \subseteq Takers(r)
  <2>1. ~Keeps(i, s, r)
    BY <1>0, <1>18 DEF Keeps
  <2> QED  BY <1>6, <2>1
<1>19. CASE PersistThrows(w, m) \/ CatchThrows(w, m)
  <2>1. sends' = sends /\ late' = late
        /\ IF status[m.id] = "ABSENT" THEN disturbances' = disturbances
           ELSE disturbances' = disturbances + 1
    BY <1>19 DEF PersistThrows, CatchThrows, Disturb, world
  <2> QED  BY <1>11, <1>12, <1>18, <2>1
<1>20. CASE GiveUp(w, m) \/ Reschedule(w, m)
  <2>1. /\ disturbances' = disturbances /\ sends' = sends /\ late' = late
        /\ running' = running /\ group'[w] = {} /\ step[w] = "catch"
    BY <1>20 DEF GiveUp, Reschedule, Abandon, Goto, world, TypeOK
  <2>2. CASE ~WillSend(w, r)
    BY <1>12, <1>13, <2>1, <2>2
  <2>3. CASE WillSend(w, r)
    <3>1. w \in Senders(r)
      BY <2>3 DEF Senders
    <3>2. sends'[r] + late'[r] + Cardinality(Senders(r) \ {w}) + Cardinality(Takers(r) \cup {i})
            <= Total(r) + (disturbances' - disturbances)
      BY <1>7, <1>8, <1>9, <2>1, <3>1 DEF Total
    <3>3. Senders(r)' \subseteq Senders(r) \ {w}
      BY <1>3, <2>1
    <3> QED  BY <1>6, <1>8, <1>9, <3>1, <3>2, <3>3, BudgetKept
  <2> QED  BY <2>2, <2>3
<1> QED  BY <1>14, <1>15, <1>16, <1>17, <1>19, <1>20

\* An instance whose ticks nothing touched stays free for a row, or not.
LEMMA FreeKept ==
  ASSUME TypeOK, NEW r \in RowId, NEW j \in Instance, running'[j] = running[j],
         \A v \in Worker : v[1] = j => group'[v] = group[v] /\ step'[v] = step[v],
         \A v \in Worker : \A m \in group[v] :
           status'[m.id] = "ABSENT" <=> status[m.id] = "ABSENT"
  PROVE  Free(j, r)' <=> Free(j, r)
<1>1. CASE running[j] = NoTick
  BY <1>1 DEF Free
<1>2. CASE running[j] # NoTick
  <2>1. PICK s \in Slot : running[j] = s
    BY <1>2 DEF TypeOK
  <2>2. \A l \in Lead : /\ <<j, s, l>> \in Worker
                        /\ group'[<<j, s, l>>] = group[<<j, s, l>>]
                        /\ step'[<<j, s, l>>] = step[<<j, s, l>>]
    BY DEF Worker
  <2>3. Keeps(j, s, r)' <=> Keeps(j, s, r)
    BY <2>2 DEF Keeps, ComesFirst, Precedes
  <2> QED  BY <2>1, <2>3, FreeInTick
<1> QED  BY <1>1, <1>2

\* A tick that starts takes a row once for the instance that was free to take it.
LEMMA TickBudget ==
  ASSUME TypeOK, StepInv, OrderInv, [Next]_vars, NEW r \in 1 .. lastId, Budget(r),
         NEW i \in Instance, NEW s \in Slot, StartTick(i, s)
  PROVE  Budget(r)'
<1>0. r \in RowId
  BY RowsAreOld
<1>1. /\ running[i] = NoTick /\ running' = [running EXCEPT ![i] = s]
      /\ status' = status /\ step' = step /\ sends' = sends /\ late' = late
      /\ disturbances' = disturbances
  BY DEF StartTick, MayTick, table, world
<1>2. \A v \in Worker : ~(v[1] = i /\ v[2] = s) => group'[v] = group[v]
  BY DEF StartTick
<1>3. ASSUME NEW l \in Lead
      PROVE  /\ <<i, s, l>> \in Worker /\ group[<<i, s, l>>] = {}
             /\ step[<<i, s, l>>] = "send"
             /\ \A m \in group'[<<i, s, l>>] : status[m.id] = "PENDING" /\ toPhone[m.id] = l
  <2>1. <<i, s, l>> \in Worker
    BY DEF Worker
  <2>2. group[<<i, s, l>>] = {}
    BY DEF StartTick, Busy
  <2>3. group'[<<i, s, l>>] = {m \in FindReadyToSend : toPhone[m.id] = l}
    BY <2>1 DEF StartTick
  <2>4. \A m \in FindReadyToSend : status[m.id] = "PENDING"
    BY DEF FindReadyToSend, ReadyMessages, Ready
  <2> QED  BY <2>1, <2>2, <2>3, <2>4 DEF StepInv
<1>4. \A j \in Instance \ {i} : Free(j, r)' <=> Free(j, r)
  <2> SUFFICES ASSUME NEW j \in Instance \ {i} PROVE Free(j, r)' <=> Free(j, r)
    OBVIOUS
  <2>1. running'[j] = running[j]
    BY <1>1 DEF TypeOK
  <2> QED  BY <1>0, <1>1, <1>2, <2>1, FreeKept
<1>5. status[r] = "PENDING" => i \in Takers(r)
  BY <1>1 DEF Takers, Free
<1>6. Takers(r)' \subseteq Takers(r)
  BY <1>1, <1>4, <1>5 DEF Takers
<1>7. ASSUME NEW v \in Senders(r)', v \notin Senders(r)
      PROVE  v = <<i, s, toPhone[r]>> /\ v \in Worker /\ \E m \in group'[v] : m.id = r
  <2>1. v \in Worker /\ WillSend(v, r)'
    BY <1>7 DEF Senders
  <2>2. v[1] = i /\ v[2] = s
    BY <1>1, <1>2, <1>7, <2>1 DEF Senders, WillSend, ComesFirst, Precedes
  <2>3. v = <<i, s, v[3]>> /\ v[3] \in Lead
    BY <2>1, <2>2 DEF Worker
  <2>4. PICK m \in group'[v] : m.id = r
    BY <2>1 DEF WillSend
  <2>5. toPhone[r] = v[3]
    BY <1>3, <2>3, <2>4
  <2> QED  BY <2>1, <2>3, <2>4, <2>5
<1>8. /\ IsFiniteSet(Senders(r)) /\ IsFiniteSet(Takers(r))
      /\ Cardinality(Senders(r)) \in Nat /\ Cardinality(Takers(r)) \in Nat
      /\ sends[r] \in Nat /\ late[r] \in Nat /\ disturbances \in Nat
  BY <1>0, InstancesCount, FS_CardinalityType, DisturbancesStep DEF Budget, TypeOK
<1>9. CASE \E l \in Lead : \E m \in group'[<<i, s, l>>] : m.id = r
  <2>1. PICK l \in Lead : \E m \in group'[<<i, s, l>>] : m.id = r
    BY <1>9
  <2>2. status[r] = "PENDING" /\ i \in Takers(r)
    BY <1>3, <1>5, <2>1
  <2>3. Keeps(i, s, r)'
    <3>1. \A k \in Lead : \A m \in group'[<<i, s, k>>] : status'[m.id] # "ABSENT"
      BY <1>1, <1>3
    <3>2. step'[<<i, s, l>>] # "catch"
      BY <1>1, <1>3
    <3> QED  BY <2>1, <3>1, <3>2 DEF Keeps
  <2>4. ~Free(i, r)'
    <3>1. running'[i] = s
      BY <1>1 DEF TypeOK
    <3> QED  BY <2>3, <3>1, FreeInTick
  <2>5. Takers(r)' \subseteq Takers(r) \ {i}
    BY <1>6, <2>4 DEF Takers
  <2>6. Senders(r)' \subseteq Senders(r) \cup {<<i, s, toPhone[r]>>}
    BY <1>7
  <2>7. /\ IsFiniteSet(Takers(r) \ {i}) /\ Cardinality(Takers(r) \ {i}) \in Nat
        /\ Cardinality(Takers(r) \ {i}) <= Cardinality(Takers(r)) - 1
    BY <1>8, <2>2, CountWithout
  <2>8. /\ IsFiniteSet(Senders(r) \cup {<<i, s, toPhone[r]>>})
        /\ Cardinality(Senders(r) \cup {<<i, s, toPhone[r]>>}) \in Nat
        /\ Cardinality(Senders(r) \cup {<<i, s, toPhone[r]>>}) <= Cardinality(Senders(r)) + 1
    BY <1>8, CountWith
  <2>9. sends'[r] + late'[r] + Cardinality(Senders(r) \cup {<<i, s, toPhone[r]>>})
          + Cardinality(Takers(r) \ {i}) <= Total(r) + (disturbances' - disturbances)
    BY <1>1, <1>8, <2>7, <2>8 DEF Total
  <2> QED  BY <2>5, <2>6, <2>7, <2>8, <2>9, BudgetKept
<1>10. CASE ~\E l \in Lead : \E m \in group'[<<i, s, l>>] : m.id = r
  <2>1. Senders(r)' \subseteq Senders(r)
    BY <1>7, <1>10 DEF Worker
  <2>2. sends'[r] + late'[r] + Cardinality(Senders(r)) + Cardinality(Takers(r))
          <= Total(r) + (disturbances' - disturbances)
    BY <1>1, <1>8 DEF Total
  <2> QED  BY <1>6, <1>8, <2>1, <2>2, BudgetKept
<1> QED  BY <1>9, <1>10

\* The deletion of another lead is paid for every instance it may free.
LEMMA DeletionBudget ==
  ASSUME TypeOK, OrderInv, [Next]_vars, NEW r \in 1 .. lastId, Budget(r),
         NEW l \in Lead, DeleteConversation(l)
  PROVE  Budget(r)'
<1>0. r \in RowId /\ r \in Nat /\ r <= lastId
  BY RowsAreOld
<1>1. /\ disturbances' = disturbances + 1 /\ sends' = sends /\ late' = late
      /\ group' = group /\ step' = step /\ running' = running
      /\ toPhone' = toPhone /\ lastId' = lastId
      /\ \A q \in RowId : status'[q] = IF toPhone[q] = l THEN "ABSENT" ELSE status[q]
  BY DEF DeleteConversation, Disturb, process
<1>2. Senders(r)' \subseteq Senders(r)
  BY <1>1 DEF Senders, WillSend, ComesFirst, Precedes
<1>3. /\ IsFiniteSet(Senders(r)) /\ IsFiniteSet(Takers(r))
      /\ Cardinality(Senders(r)) \in Nat /\ Cardinality(Takers(r)) \in Nat
      /\ sends[r] \in Nat /\ late[r] \in Nat /\ disturbances \in Nat
  BY <1>0, InstancesCount, FS_CardinalityType, DisturbancesStep DEF Budget, TypeOK
<1>4. CASE toPhone[r] = l
  <2>1. Takers(r)' \subseteq Takers(r)
    BY <1>0, <1>1, <1>4 DEF Takers
  <2>2. sends'[r] + late'[r] + Cardinality(Senders(r)) + Cardinality(Takers(r))
          <= Total(r) + (disturbances' - disturbances)
    BY <1>1, <1>3 DEF Total
  <2> QED  BY <1>2, <1>3, <2>1, <2>2, BudgetKept
<1>5. CASE toPhone[r] # l
  <2>1. PICK q \in RowId : toPhone[q] = l /\ status[q] # "ABSENT"
    BY DEF DeleteConversation
  <2>2. q \in 1 .. lastId'
    BY <1>0, <1>1, <2>1, OutboxAssumption DEF OrderInv, FreshInv, RowId, TypeOK
  <2>3. status'[q] = "ABSENT" /\ toPhone'[q] # toPhone'[r]
    BY <1>1, <1>5, <2>1
  <2>4. Price(r)' = Cardinality(Instance)
    BY <2>2, <2>3 DEF Price, OtherLeadDeleted
  <2>5. Price(r) * disturbances + Cardinality(Instance) <= Price(r)' * disturbances'
        /\ Price(r) * disturbances \in Nat /\ Price(r)' * disturbances' \in Nat
    BY <1>1, <1>3, <2>4, PriceStep, ProductsGrow
  <2>6. /\ IsFiniteSet(Senders(r)') /\ Cardinality(Senders(r)') \in Nat
        /\ Cardinality(Senders(r)') <= Cardinality(Senders(r))
    BY <1>2, <1>3, CountSubset
  <2>7. Cardinality(Takers(r)') \in Nat /\ Cardinality(Takers(r)') <= Cardinality(Instance)
    <3>1. Takers(r)' \subseteq Instance
      BY DEF Takers
    <3> QED  BY <3>1, CountSubset, OutboxAssumption
  <2>8. Total(r) <= Cardinality(Instance) + Price(r) * disturbances
    BY DEF Budget
  <2>9. Total(r)' = sends[r] + late[r] + Cardinality(Senders(r)') + Cardinality(Takers(r)')
    BY <1>1 DEF Total
  <2>10. Total(r)' <= Total(r) + Cardinality(Instance)
    BY <1>3, <2>6, <2>7, <2>9, InstancesCount DEF Total
  <2>11. Total(r) \in Nat /\ Total(r)' \in Nat /\ Cardinality(Instance) \in Nat
    BY <1>3, <2>6, <2>7, <2>9, InstancesCount DEF Total
  <2>12. Total(r)' <= Cardinality(Instance) + Price(r)' * disturbances'
    <3> HIDE DEF Total, Price
    <3> QED  BY <2>5, <2>8, <2>10, <2>11
  <2> QED  BY <2>6, <2>12 DEF Budget
<1> QED  BY <1>4, <1>5

\* The other steps move no worker on, and free no instance without a disturbance.
LEMMA RestBudget ==
  ASSUME TypeOK, OrderInv, [Next]_vars, NEW r \in 1 .. lastId, Budget(r),
         \/ \E l \in Lead, n \in 1 .. MaxBatch : Enqueue(l, n)
         \/ AdvanceClock
         \/ \E i \in Instance : BecomeLeader(i) \/ StepDown(i) \/ FinishTick(i) \/ Crash(i)
         \/ \E q \in RowId : LateDelivery(q)
         \/ Quiet \/ UNCHANGED vars
  PROVE  Budget(r)'
<1>0. r \in RowId /\ (status'[r] = "PENDING" => status[r] = "PENDING")
  BY RowsAreOld, PendingIsKept
<1>1. /\ IsFiniteSet(Senders(r)) /\ IsFiniteSet(Takers(r))
      /\ Cardinality(Senders(r)) \in Nat /\ Cardinality(Takers(r)) \in Nat
      /\ sends[r] \in Nat /\ late[r] \in Nat /\ disturbances \in Nat
  BY <1>0, InstancesCount, FS_CardinalityType, DisturbancesStep DEF Budget, TypeOK
<1>2. \A v \in Worker : \A m \in group[v] :
        status'[m.id] = "ABSENT" <=> status[m.id] = "ABSENT"
  <2> SUFFICES ASSUME NEW v \in Worker, NEW m \in group[v]
               PROVE  status'[m.id] = "ABSENT" <=> status[m.id] = "ABSENT"
    OBVIOUS
  <2>1. m.id \in RowId /\ m.id <= lastId
    BY DEF TypeOK, Message, OrderInv, GroupInv
  <2>2. CASE \E l \in Lead, n \in 1 .. MaxBatch : Enqueue(l, n)
    BY <2>1, <2>2, EnqueueRows
  <2>3. CASE ~\E l \in Lead, n \in 1 .. MaxBatch : Enqueue(l, n)
    BY <2>3 DEF AdvanceClock, BecomeLeader, StepDown, FinishTick, Crash, LateDelivery,
                Quiet, vars, table
  <2> QED  BY <2>2, <2>3
<1>3. ASSUME NEW S, NEW T, Senders(r)' \subseteq S, Takers(r)' \subseteq T,
             S = Senders(r), T = Takers(r), sends'[r] + late'[r] = sends[r] + late[r]
      PROVE  Budget(r)'
  <2>1. sends'[r] + late'[r] + Cardinality(S) + Cardinality(T)
          <= Total(r) + (disturbances' - disturbances)
    BY <1>1, <1>3, DisturbancesStep DEF Total
  <2> QED  BY <1>1, <1>3, <2>1, BudgetKept
<1>4. ASSUME group' = group, step' = step, sends'[r] + late'[r] = sends[r] + late[r],
             \A j \in Instance : running'[j] = running[j]
                                 \/ (running'[j] = NoTick /\ Free(j, r))
      PROVE  Budget(r)'
  <2>1. Senders(r)' \subseteq Senders(r)
    BY <1>4 DEF Senders, WillSend, ComesFirst, Precedes
  <2>2. \A j \in Instance : running'[j] = running[j] => (Free(j, r)' <=> Free(j, r))
    BY <1>0, <1>2, <1>4, FreeKept
  <2>3. Takers(r)' \subseteq Takers(r)
    BY <1>0, <1>4, <2>2 DEF Takers
  <2> QED  BY <1>3, <1>4, <2>1, <2>3
<1>5. CASE \/ \E l \in Lead, n \in 1 .. MaxBatch : Enqueue(l, n)
           \/ AdvanceClock
           \/ \E i \in Instance : BecomeLeader(i) \/ StepDown(i)
           \/ Quiet \/ UNCHANGED vars
  <2>1. group' = group /\ step' = step /\ sends' = sends /\ late' = late /\ running' = running
    BY <1>5 DEF Enqueue, AdvanceClock, BecomeLeader, StepDown, Quiet, vars, process, world
  <2> QED  BY <1>4, <2>1
<1>6. ASSUME NEW q \in RowId, LateDelivery(q) PROVE Budget(r)'
  <2>1. group' = group /\ step' = step /\ running' = running
    BY <1>6 DEF LateDelivery, process
  <2>2. sends'[r] + late'[r] = sends[r] + late[r]
    BY <1>0, <1>1, <1>6 DEF LateDelivery, TypeOK
  <2> QED  BY <1>4, <2>1, <2>2
<1>7. ASSUME NEW i \in Instance, FinishTick(i) PROVE Budget(r)'
  <2>1. /\ group' = group /\ step' = step /\ sends' = sends /\ late' = late
        /\ running' = [running EXCEPT ![i] = NoTick]
    BY <1>7 DEF FinishTick, world
  <2>2. PICK s \in Slot : running[i] = s
    BY <1>7 DEF FinishTick, TypeOK
  <2>3. \A l \in Lead : group[<<i, s, l>>] = {}
    BY <1>7, <2>2 DEF FinishTick, Busy
  <2>4. ~Keeps(i, s, r)
    BY <2>3 DEF Keeps
  <2>5. Free(i, r)
    BY <2>2, <2>4, FreeInTick
  <2>6. \A j \in Instance : running'[j] = running[j] \/ (running'[j] = NoTick /\ Free(j, r))
    BY <2>1, <2>5 DEF TypeOK
  <2> QED  BY <1>4, <2>1, <2>6
<1>8. ASSUME NEW i \in Instance, Crash(i) PROVE Budget(r)'
  <2>1. /\ disturbances' = disturbances + 1 /\ sends' = sends
        /\ \A v \in Worker : IF v[1] = i THEN group'[v] = {}
                             ELSE group'[v] = group[v] /\ step'[v] = step[v]
        /\ \A j \in Instance \ {i} : running'[j] = running[j]
    BY <1>8 DEF Crash, Disturb, world, TypeOK
  <2>0. PICK S \in SUBSET Senders(r) :
          /\ \A w \in S : w[1] = i
          /\ IsFiniteSet(S) /\ Cardinality(S) \in Nat
          /\ late'[r] = late[r] + Cardinality(S)
    BY <1>0, <1>8, CrashLeaves
  <2>2. Senders(r)' \subseteq Senders(r) \ S
    <3> SUFFICES ASSUME NEW v \in Worker, WillSend(v, r)' PROVE WillSend(v, r) /\ v \notin S
      BY DEF Senders
    <3>1. v[1] # i
      BY <2>1 DEF WillSend
    <3> QED  BY <2>0, <2>1, <3>1 DEF WillSend, ComesFirst, Precedes
  <2>7. /\ IsFiniteSet(Senders(r) \ S) /\ Cardinality(Senders(r) \ S) \in Nat
        /\ Cardinality(Senders(r) \ S) = Cardinality(Senders(r)) - Cardinality(S)
    <3>1. Senders(r) \cap S = S
      BY <2>0
    <3>2. /\ IsFiniteSet(Senders(r) \ S)
          /\ Cardinality(Senders(r) \ S) = Cardinality(Senders(r)) - Cardinality(Senders(r) \cap S)
      <4> HIDE DEF Senders
      <4> QED  BY <1>1, FS_Difference
    <3>3. Cardinality(Senders(r) \ S) \in Nat
      BY <3>2, FS_CardinalityType
    <3> QED  BY <3>1, <3>2, <3>3
  <2>3. \A j \in Instance \ {i} : Free(j, r)' <=> Free(j, r)
    <3> SUFFICES ASSUME NEW j \in Instance \ {i} PROVE Free(j, r)' <=> Free(j, r)
      OBVIOUS
    <3> QED  BY <1>0, <1>2, <2>1, FreeKept
  <2>4. Takers(r)' \subseteq Takers(r) \cup {i}
    BY <1>0, <2>3 DEF Takers
  <2>5. /\ IsFiniteSet(Takers(r) \cup {i}) /\ Cardinality(Takers(r) \cup {i}) \in Nat
        /\ Cardinality(Takers(r) \cup {i}) <= Cardinality(Takers(r)) + 1
    BY <1>1, CountWith
  <2>6. sends'[r] + late'[r] + Cardinality(Senders(r) \ S) + Cardinality(Takers(r) \cup {i})
          <= Total(r) + (disturbances' - disturbances)
    BY <1>1, <2>0, <2>1, <2>5, <2>7 DEF Total
  <2> QED  BY <2>2, <2>4, <2>5, <2>6, <2>7, BudgetKept
<1> QED  BY <1>5, <1>6, <1>7, <1>8

\* A new row was never sent, and each instance may take it once.
LEMMA NewRowBudget ==
  ASSUME TypeOK, OrderInv, NEW l \in Lead, NEW n \in 1 .. MaxBatch, Enqueue(l, n),
         NEW r \in 1 .. lastId', r \notin 1 .. lastId
  PROVE  Budget(r)'
<1>t. TypeOK'
  BY TypeStep DEF Next
<1>0. r \in RowId /\ r > lastId
  BY <1>t, OutboxAssumption DEF TypeOK, RowId
<1>1. /\ group' = group /\ sends'[r] = 0 /\ late'[r] = 0 /\ disturbances' = disturbances
      /\ disturbances \in Nat
  BY <1>0, EnqueueRows, OutboxAssumption DEF OrderInv, FreshInv, Enqueue, TypeOK
<1>2. Senders(r)' = {}
  <2>1. \A v \in Worker : \A m \in group[v] : m.id # r
    BY <1>0, OutboxAssumption DEF OrderInv, GroupInv, TypeOK, Message, RowId
  <2> QED  BY <1>1, <2>1 DEF Senders, WillSend
<1>3. IsFiniteSet(Senders(r)') /\ Cardinality(Senders(r)') = 0
  BY <1>2, FS_EmptySet
<1>4. Cardinality(Takers(r)') \in Nat /\ Cardinality(Takers(r)') <= Cardinality(Instance)
  <2>1. Takers(r)' \subseteq Instance
    BY DEF Takers
  <2> QED  BY <2>1, CountSubset, OutboxAssumption
<1>5. Price(r)' \in Nat
  BY InstancesCount DEF Price
<1>6. Price(r)' * disturbances' \in Nat
  BY <1>1, <1>5
<1>7. Total(r)' = Cardinality(Takers(r)')
  BY <1>1, <1>3, <1>4 DEF Total
<1>8. Total(r)' <= Cardinality(Instance) + Price(r)' * disturbances'
  <2> HIDE DEF Total, Price
  <2> QED  BY <1>4, <1>6, <1>7, InstancesCount
<1> QED  BY <1>3, <1>8 DEF Budget

\* Every step keeps every row within its budget.
LEMMA BudgetStep ==
  ASSUME TypeOK, StepInv, OrderInv, OnceInv, BudgetInv, [Next]_vars
  PROVE  BudgetInv'
<1> SUFFICES ASSUME NEW r \in 1 .. lastId' PROVE Budget(r)'
  BY DEF BudgetInv
<1>1. CASE r \notin 1 .. lastId
  <2>1. lastId' # lastId
    BY <1>1
  <2>2. PICK l \in Lead, n \in 1 .. MaxBatch : Enqueue(l, n)
    BY <2>1, RowsKept
  <2> QED  BY <1>1, <2>2, NewRowBudget
<1>2. CASE r \in 1 .. lastId
  <2>1. Budget(r)
    BY <1>2 DEF BudgetInv
  <2>2. CASE \E w \in Worker : WorkerStep(w)
    BY <1>2, <2>1, <2>2, WorkerBudget
  <2>3. CASE \E i \in Instance, s \in Slot : StartTick(i, s)
    BY <1>2, <2>1, <2>3, TickBudget
  <2>4. CASE \E l \in Lead : DeleteConversation(l)
    BY <1>2, <2>1, <2>4, DeletionBudget
  <2>5. CASE \/ \E l \in Lead, n \in 1 .. MaxBatch : Enqueue(l, n)
             \/ AdvanceClock
             \/ \E i \in Instance :
                  BecomeLeader(i) \/ StepDown(i) \/ FinishTick(i) \/ Crash(i)
             \/ \E q \in RowId : LateDelivery(q)
             \/ Quiet \/ UNCHANGED vars
    BY <1>2, <2>1, <2>5, RestBudget
  <2> QED  BY <2>2, <2>3, <2>4, <2>5 DEF Next
<1> QED  BY <1>1, <1>2

\* Each instance sends a row once at most, and each further duplicate is paid for by
\* an error, a crash, a step-down or a deletion; once another lead was deleted, each
\* disturbance pays for one more of every instance.
THEOREM DuplicatesArePaidFor == Spec => []DuplicatesBounded
<1>1. Init => OnceInv /\ BudgetInv
  BY DEF Init, OnceInv, BudgetInv
<1>2. TypeOK /\ HandledInv /\ OrderInv /\ OnceInv /\ BudgetInv /\ [Next]_vars
        => OnceInv' /\ BudgetInv'
  BY OnceStep, BudgetStep DEF HandledInv, OrderInv
<1>3. TypeOK /\ BudgetInv => DuplicatesBounded
  <2> SUFFICES ASSUME TypeOK, BudgetInv, NEW r \in 1 .. lastId
               PROVE  sends[r] <= Cardinality(Instance) + Price(r) * disturbances
    BY DEF DuplicatesBounded
  <2>1. /\ Total(r) <= Cardinality(Instance) + Price(r) * disturbances
        /\ IsFiniteSet(Senders(r))
    BY DEF BudgetInv, Budget
  <2>2. sends[r] \in Nat /\ late[r] \in Nat /\ disturbances \in Nat
    BY OutboxAssumption DEF TypeOK, RowId
  <2>3. Cardinality(Senders(r)) \in Nat /\ Cardinality(Takers(r)) \in Nat
    BY <2>1, FS_CardinalityType, InstancesCount
  <2>4. sends[r] <= Total(r) /\ Total(r) \in Nat
    BY <2>2, <2>3 DEF Total
  <2>5. Price(r) \in Nat
    BY InstancesCount DEF Price
  <2>6. Price(r) * disturbances \in Nat
    BY <2>2, <2>5
  <2> HIDE DEF Total, Price
  <2> QED  BY <2>1, <2>2, <2>4, <2>6, InstancesCount
<1> QED
  BY <1>1, <1>2, <1>3, TypeCorrect, HandledCorrect, OrderCorrect, PTL DEF Spec
=============================================================================
