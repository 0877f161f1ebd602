-------------------------- MODULE FlowEngineProofs --------------------------
(***************************************************************************)
(* Proofs about the flow engine, for any instances, messages, flows and    *)
(* bounds.  TypeOK needs HandlerInv: what a handler at each of its steps   *)
(* knows about the entities it holds.                                      *)
(***************************************************************************)
EXTENDS FlowEngine, FiniteSetTheorems, SequenceTheorems, TLAPS

\* Steps before a conversation is known; steps only a message of the lead
\* reaches; steps that stand at a node.
Searching == {"idle", "findActive", "findLast", "createSilent", "create"}
Answering == At \ {"idle", "findActive", "createSilent", "record", "enqueue"}
Standing == {"answer", "finish", "advance", "walk", "saveProgress"}

\* What the handler of m, which says k, knows at a step about the entities L it
\* holds when n conversations were created.
Knows(m, k, n, step, L) ==
  /\ step # "idle" => L.plan \in Flows /\ k # -1
  /\ step # "idle" /\ m \notin PhoneMsg => L.plan.start \in Node
  /\ step \in Answering => m \notin PhoneMsg
  /\ step \notin Searching => L.conv \in 1 .. n
  /\ step \in Standing => L.node \in Node
  /\ step = "answer" => Matches(L.plan, L.node, k)

HandlerInv ==
  /\ \A p \in Process : Knows(p[2], text[p[2]], lastConv, at[p], local[p])
  /\ \A i \in Instance : \A m \in inbox[i] : text[m] # -1
  /\ \A c \in ConvId : c > lastConv => status[c] = "ABSENT"

Sound == TypeOK /\ HandlerInv

\* The part of TypeOK that is about the handlers.
HandlersTyped ==
  /\ inbox \in [Instance -> SUBSET Msg] /\ seen \in [Instance -> SUBSET Msg]
  /\ mutex \in [Instance -> Msg \cup {NoMsg}]
  /\ at \in [Process -> At] /\ local \in [Process -> Entities]
  /\ \A p \in Process : at[p] # "idle" => mutex[p[1]] = p[2]

\* Replies are enqueued by the one handler that recorded the message.
Replying(p) == at[p] = "enqueue" /\ Exists(p)
ReplyInv ==
  /\ \A m \in Msg : replied[m] <= 1 /\ (recorded[m] = 0 => replied[m] = 0)
  /\ \A p \in Process : Replying(p) => recorded[p[2]] # 0 /\ replied[p[2]] = 0
  /\ \A p, q \in Process : Replying(p) /\ Replying(q) /\ p[2] = q[2] => p = q

\* A handler about to create a conversation has seen that none is active, and
\* nobody else creates one: an operator's request reads and writes between two
\* handlers, or overlaps one.
OneInv ==
  \/ overlap
  \/ /\ \A c, d \in Active : c = d
     /\ \A p \in Process : at[p] \in {"findLast", "createSilent", "create"} => Active = {}
     /\ act # NoAct => Idle
     /\ act.kind = "toggle" => status[act.conv] \in {act.status, "ABSENT"}

\* While the operator's last word is off, the conversation the engine would find
\* is one with the automation off, and every handler keeps silent.
SilentRows ==
  /\ \A c \in Active : ~auto[c]
  /\ Active = {} => Finished # {} /\ \A c \in Finished : LastFinished(c) => ~auto[c]
SilentSteps == {"idle", "findActive", "findLast", "createSilent", "record"}
PauseInv ==
  \/ overlap
  \/ /\ \A p \in Process : at[p] # "idle" => local[p].paused = paused
     /\ act.kind = "toggle" => act.status = "ACTIVE" \/ Active = {}
     /\ paused =>
          /\ SilentRows
          /\ \A p \in Process :
               at[p] \in SilentSteps /\ (at[p] # "idle" => local[p].out = <<>>)

-----------------------------------------------------------------------------
(* Lemmas *)

\* What the engine reads from a flow.
LEMMA FlowType ==
  ASSUME NEW f \in Flows
  PROVE  /\ f.start \in Node \cup {None}
         /\ \A n \in Node : f.next[n] \in Node \cup {None} /\ f.stage[n] \in Stage \cup {None}
         /\ \A n \in Node : f.options[n] \in Seq(Node \cup {None})
BY EngineAssumption DEF Flow

\* An answer that matches leads to a node or nowhere.
LEMMA TargetType ==
  ASSUME NEW f \in Flows, NEW n \in Node, NEW k, Matches(f, n, k)
  PROVE  Target(f, n, k) \in Node \cup {None}
<1>1. CASE HasOptions(f, n)
  BY <1>1, FlowType, ElementOfSeq DEF Matches, Target
<1>2. CASE ~HasOptions(f, n)
  BY <1>2, FlowType DEF Target
<1> QED  BY <1>1, <1>2

\* One turn of the loop keeps the entities well-formed.
LEMMA AtNodeType ==
  ASSUME NEW L \in Entities, L.plan \in Flows, L.node \in Node
  PROVE  /\ AtNode(L) \in Entities
         /\ AtNode(L).plan = L.plan /\ AtNode(L).conv = L.conv
         /\ AtNode(L).node = L.node /\ AtNode(L).from = L.from
         /\ AtNode(L).waiting = L.waiting /\ AtNode(L).paused = L.paused
         /\ AtNode(L).visited = L.visited \cup {L.node}
<1>1. Append(L.out, <<"say", L.node>>) \in Seq(Entry)
  BY AppendProperties DEF Entities, Entry
<1>2. L.plan.stage[L.node] \in Stage \cup {None}
  BY FlowType
<1> QED  BY <1>1, <1>2 DEF AtNode, Entities

\* A handler that goes on keeps its types.
LEMMA GoOnTyped ==
  ASSUME TypeOK, NEW p \in Process, NEW step \in At, NEW L \in Entities,
         at[p] # "idle", GoOn(p, step, L)
  PROVE  HandlersTyped'
BY DEF TypeOK, HandlersTyped, GoOn, Elsewhere

LEMMA LeaveTyped ==
  ASSUME TypeOK, NEW p \in Process, at[p] # "idle", Leave(p)
  PROVE  HandlersTyped'
<1>1. Blank \in Entities
  BY EmptySeq, EngineAssumption DEF Blank, Entities
<1>2. p[1] \in Instance /\ p[2] \in Msg
  BY DEF Process
<1>3. ASSUME NEW q \in Process, at'[q] # "idle" PROVE mutex'[q[1]] = q[2]
  <2>1. q # p /\ at[q] # "idle"  BY <1>3 DEF Leave, TypeOK
  <2>2. mutex[q[1]] = q[2] /\ mutex[p[1]] = p[2]  BY <2>1 DEF TypeOK
  <2>3. q[1] # p[1]  BY <2>1, <2>2 DEF Process
  <2> QED  BY <2>2, <2>3, <1>2 DEF Leave, TypeOK, Process
<1>4. at' \in [Process -> At]  BY DEF Leave, TypeOK, At
<1> QED  BY <1>1, <1>2, <1>3, <1>4 DEF TypeOK, HandlersTyped, Leave, Elsewhere

\* What the other handlers know does not change when one goes on.
LEMMA GoOnKnows ==
  ASSUME Sound, NEW p \in Process, NEW step, NEW L,
         GoOn(p, step, L), lastConv' \in Nat, lastConv' >= lastConv,
         Knows(p[2], text[p[2]], lastConv', step, L)
  PROVE  \A q \in Process : Knows(q[2], text'[q[2]], lastConv', at'[q], local'[q])
<1> TAKE q \in Process
<1>1. CASE q = p
  BY <1>1 DEF GoOn, Elsewhere, Sound, TypeOK
<1>2. CASE q # p
  <2>1. Knows(q[2], text[q[2]], lastConv, at[q], local[q])
    BY DEF Sound, HandlerInv
  <2>2. at'[q] = at[q] /\ local'[q] = local[q] /\ text' = text
    BY <1>2 DEF GoOn, Elsewhere, Sound, TypeOK
  <2>3. lastConv \in Nat
    BY EngineAssumption DEF Sound, TypeOK
  <2> QED  BY <2>1, <2>2, <2>3 DEF Knows
<1> QED  BY <1>1, <1>2

\* A handler that leaves knows nothing, the others what they knew.
LEMMA LeaveKnows ==
  ASSUME Sound, NEW p \in Process, Leave(p), lastConv' = lastConv
  PROVE  \A q \in Process : Knows(q[2], text'[q[2]], lastConv', at'[q], local'[q])
<1> TAKE q \in Process
<1>1. Knows(q[2], text[q[2]], lastConv, at[q], local[q])
  BY DEF Sound, HandlerInv
<1>2. at'[q] = "idle" \/ (at'[q] = at[q] /\ local'[q] = local[q])
  BY DEF Leave, Sound, TypeOK
<1> QED  BY <1>1, <1>2 DEF Knows, Leave, Elsewhere, Searching, Answering, Standing

\* The rows outside the handlers.
RowsTyped ==
  /\ status \in [ConvId -> Status]
  /\ auto \in [ConvId -> BOOLEAN]
  /\ touched \in [ConvId -> [hour : 0 .. MaxHours, stamp : 0 .. stamp]]
  /\ progress \in [ConvId -> ProgressRow]
  /\ lastConv \in 0 .. MaxConv /\ stamp \in Nat
  /\ recorded \in [Msg -> 0 .. MaxConv]
  /\ answers \subseteq [conv : ConvId, node : Node, msg : Msg]
  /\ outbox \in [ConvId -> Seq(Entry)]
  /\ replied \in [Msg -> Nat]

\* A write of a conversation row brings a stamp of its own.
LEMMA StampTyped ==
  ASSUME TypeOK, NEW c \in ConvId, touched' = [touched EXCEPT ![c] = Stamp],
         stamp' = stamp + 1
  PROVE  /\ touched' \in [ConvId -> [hour : 0 .. MaxHours, stamp : 0 .. stamp']]
         /\ stamp' \in Nat
<1>1. \A d \in ConvId : touched[d] \in [hour : 0 .. MaxHours, stamp : 0 .. stamp']
  BY DEF TypeOK
<1>2. Stamp \in [hour : 0 .. MaxHours, stamp : 0 .. stamp']
  BY DEF TypeOK, Stamp
<1> QED  BY <1>1, <1>2 DEF TypeOK

\* A handler's step keeps the types, and what the handlers know stays true.
LEMMA HandlerStepSound ==
  ASSUME Sound, NEW p \in Process, HandlerStep(p)
  PROVE  Sound'
<1> DEFINE L == local[p]
           m == p[2]
           KnowNext == \A q \in Process : Knows(q[2], text'[q[2]], lastConv', at'[q], local'[q])
<1> USE EngineAssumption DEF Sound
<1>1. /\ m \in Msg /\ p[1] \in Instance /\ L \in Entities
      /\ Knows(m, text[m], lastConv, at[p], L) /\ lastConv \in Nat
  BY DEF Process, TypeOK, HandlerInv
<1>2. SUFFICES HandlersTyped' /\ RowsTyped' /\ KnowNext /\ UNCHANGED Elsewhere
               /\ \A c \in ConvId : c > lastConv' => status'[c] = "ABSENT"
  BY DEF HandlersTyped, RowsTyped, TypeOK, HandlerInv, Elsewhere, ghosts
<1>3. UNCHANGED <<conversations, progress, recorded, answers, outbox, replied>> =>
        RowsTyped' /\ lastConv' = lastConv
        /\ \A c \in ConvId : c > lastConv' => status'[c] = "ABSENT"
  BY DEF RowsTyped, TypeOK, conversations, HandlerInv
<1>4. ASSUME NEW step \in At, NEW M \in Entities, at[p] # "idle", GoOn(p, step, M),
             lastConv' \in Nat, lastConv' >= lastConv, Knows(m, text[m], lastConv', step, M)
      PROVE  HandlersTyped' /\ KnowNext /\ UNCHANGED Elsewhere
  BY <1>4, GoOnTyped, GoOnKnows DEF GoOn
<1>5. ASSUME Leave(p), at[p] # "idle", lastConv' = lastConv
      PROVE  HandlersTyped' /\ KnowNext /\ UNCHANGED Elsewhere
  BY <1>5, LeaveTyped, LeaveKnows DEF Leave
<1>6. CASE FindActive(p)
  <2>1. UNCHANGED <<conversations, progress, recorded, answers, outbox, replied>>
    BY <1>6 DEF FindActive
  <2>2. ASSUME GoOn(p, IF m \in PhoneMsg THEN "createSilent" ELSE "findLast", L)
        PROVE  HandlersTyped' /\ KnowNext /\ UNCHANGED Elsewhere
    <3>1. Knows(m, text[m], lastConv, IF m \in PhoneMsg THEN "createSilent" ELSE "findLast", L)
      BY <1>1, <1>6 DEF Knows, FindActive, Searching, Answering, Standing
    <3> QED  BY <1>1, <1>3, <1>4, <1>6, <2>1, <2>2, <3>1 DEF FindActive, At
  <2>3. ASSUME NEW c \in Active,
               GoOn(p, IF m \in PhoneMsg \/ ~auto[c] THEN "record" ELSE "findProgress",
                    [L EXCEPT !.conv = c])
        PROVE  HandlersTyped' /\ KnowNext /\ UNCHANGED Elsewhere
    <3>1. c \in 1 .. lastConv
      BY DEF Active, HandlerInv, ConvId, TypeOK
    <3>2. [L EXCEPT !.conv = c] \in Entities
      <4>1. c \in 0 .. MaxConv  BY DEF Active, ConvId
      <4> QED  BY <1>1, <4>1 DEF Entities
    <3>3. Knows(m, text[m], lastConv,
                IF m \in PhoneMsg \/ ~auto[c] THEN "record" ELSE "findProgress",
                [L EXCEPT !.conv = c])
      BY <1>1, <1>6, <3>1 DEF Knows, FindActive, Searching, Answering, Standing, Entities
    <3> QED  BY <1>1, <1>3, <1>4, <1>6, <2>1, <2>3, <3>2, <3>3 DEF FindActive, At
  <2> QED  BY <1>3, <1>6, <2>1, <2>2, <2>3 DEF FindActive
<1>7. CASE FindLastFinished(p)
  <2>1. UNCHANGED <<conversations, progress, recorded, answers, outbox, replied>>
    BY <1>7 DEF FindLastFinished
  <2>2. ASSUME FirstContact(p)
        PROVE  HandlersTyped' /\ KnowNext /\ UNCHANGED Elsewhere
    <3>1. Knows(m, text[m], lastConv, "create", L)
      BY <1>1, <1>7 DEF Knows, FindLastFinished, Searching, Answering, Standing, At
    <3> QED  BY <1>1, <1>3, <1>4, <1>5, <1>7, <2>1, <2>2, <3>1
             DEF FindLastFinished, FirstContact, At
  <2>3. ASSUME NEW c \in Finished, GoOn(p, "record", [L EXCEPT !.conv = c])
        PROVE  HandlersTyped' /\ KnowNext /\ UNCHANGED Elsewhere
    <3>1. c \in 1 .. lastConv
      BY DEF Finished, HandlerInv, ConvId, TypeOK
    <3>2. [L EXCEPT !.conv = c] \in Entities
      <4>1. c \in 0 .. MaxConv  BY DEF Finished, ConvId
      <4> QED  BY <1>1, <4>1 DEF Entities
    <3>3. Knows(m, text[m], lastConv, "record", [L EXCEPT !.conv = c])
      BY <1>1, <1>7, <3>1 DEF Knows, FindLastFinished, Searching, Answering, Standing, Entities
    <3> QED  BY <1>1, <1>3, <1>4, <1>7, <2>1, <2>3, <3>2, <3>3 DEF FindLastFinished, At
  <2>4. ASSUME GoOn(p, "createSilent", L)
        PROVE  HandlersTyped' /\ KnowNext /\ UNCHANGED Elsewhere
    <3>1. Knows(m, text[m], lastConv, "createSilent", L)
      BY <1>1, <1>7 DEF Knows, FindLastFinished, Searching, Answering, Standing
    <3> QED  BY <1>1, <1>3, <1>4, <1>7, <2>1, <2>4, <3>1 DEF FindLastFinished, At
  <2> QED  BY <1>3, <1>7, <2>1, <2>2, <2>3, <2>4 DEF FindLastFinished
<1>8. ASSUME NEW on \in BOOLEAN, NEW step \in {"record", "createProgress"},
             at[p] \in {"create", "createSilent"}, step = "createProgress" => m \notin PhoneMsg,
             CreateConversation(p, on, step)
      PROVE  HandlersTyped' /\ RowsTyped' /\ KnowNext /\ UNCHANGED Elsewhere
             /\ \A c \in ConvId : c > lastConv' => status'[c] = "ABSENT"
  <2> DEFINE c == lastConv + 1
  <2>1. c \in ConvId /\ lastConv' = c /\ lastConv' \in Nat /\ lastConv' >= lastConv
    BY <1>1, <1>8 DEF CreateConversation, ConvId
  <2>2. [L EXCEPT !.conv = c] \in Entities
    BY <1>1, <2>1 DEF ConvId, Entities
  <2>3. Knows(m, text[m], lastConv', step, [L EXCEPT !.conv = c])
    BY <1>1, <1>8, <2>1 DEF Knows, Searching, Answering, Standing, Entities, At
  <2>4. HandlersTyped' /\ KnowNext /\ UNCHANGED Elsewhere
    <3>1. GoOn(p, step, [L EXCEPT !.conv = c]) /\ step \in At /\ at[p] # "idle"
      BY <1>8 DEF CreateConversation, At
    <3> HIDE DEF KnowNext, c
    <3> QED  BY <1>4, <2>1, <2>2, <2>3, <3>1
  <2>5. RowsTyped'
    <3>1. /\ touched' \in [ConvId -> [hour : 0 .. MaxHours, stamp : 0 .. stamp']]
          /\ stamp' \in Nat
      BY <1>8, <2>1, StampTyped DEF CreateConversation
    <3>2. status' \in [ConvId -> Status] /\ auto' \in [ConvId -> BOOLEAN]
      BY <1>8 DEF CreateConversation, TypeOK, Status
    <3>3. lastConv' \in 0 .. MaxConv
      BY <2>1 DEF ConvId
    <3> QED  BY <1>8, <3>1, <3>2, <3>3 DEF CreateConversation, RowsTyped, TypeOK
  <2>6. \A d \in ConvId : d > lastConv' => status'[d] = "ABSENT"
    <3> TAKE d \in ConvId
    <3>1. d > c => d # c /\ d > lastConv  BY <1>1 DEF ConvId
    <3>2. d > lastConv => status[d] = "ABSENT"  BY DEF HandlerInv
    <3> HIDE DEF c
    <3> QED  BY <1>8, <2>1, <3>1, <3>2 DEF CreateConversation, TypeOK
  <2> QED  BY <2>4, <2>5, <2>6
<1>9. CASE CreateSilent(p)
  BY <1>8, <1>9 DEF CreateSilent
<1>10. CASE Create(p)
  <2>1. m \notin PhoneMsg
    BY <1>1, <1>10 DEF Create, Knows, Answering, At
  <2> QED  BY <1>8, <1>10, <2>1 DEF Create
<1>11. CASE CreateProgress(p)
  <2> DEFINE start == L.plan.start
             M == [L EXCEPT !.node = start, !.from = start]
  <2>1. start \in Node /\ L.conv \in ConvId
    BY <1>1, <1>11 DEF CreateProgress, Knows, Answering, Searching, At, ConvId, TypeOK
  <2>2. M \in Entities
    BY <1>1, <2>1 DEF Entities
  <2>3. Knows(m, text[m], lastConv, "walk", M)
    BY <1>1, <1>11, <2>1 DEF CreateProgress, Knows, Searching, Answering, Standing, Entities, At
  <2>4. HandlersTyped' /\ KnowNext /\ UNCHANGED Elsewhere
    BY <1>1, <1>4, <1>11, <2>2, <2>3 DEF CreateProgress, At, conversations
  <2>5. progress' \in [ConvId -> ProgressRow]
    BY <1>11, <2>1 DEF CreateProgress, TypeOK, ProgressRow, NoProgress
  <2>6. RowsTyped' /\ \A c \in ConvId : c > lastConv' => status'[c] = "ABSENT"
    BY <1>11, <2>5 DEF CreateProgress, RowsTyped, TypeOK, conversations, HandlerInv
  <2> QED  BY <2>4, <2>6
<1>12. CASE FindProgress(p)
  <2> DEFINE row == progress[L.conv]
             n == row.node
  <2>1. UNCHANGED <<conversations, progress, recorded, answers, outbox, replied>>
    BY <1>12 DEF FindProgress
  <2>2. L.conv \in ConvId /\ row \in ProgressRow /\ m \notin PhoneMsg /\ at[p] = "findProgress"
    BY <1>1, <1>12 DEF FindProgress, Knows, Answering, Searching, At, ConvId, TypeOK
  <2>3. CASE GoOn(p, "record", L)
    <3>1. Knows(m, text[m], lastConv, "record", L)
      BY <1>1, <2>2 DEF Knows, Searching, Answering, Standing
    <3> QED  BY <1>1, <1>3, <1>4, <2>1, <2>2, <2>3, <3>1 DEF At
  <2>4. CASE n # None /\ GoOn(p, "record", [L EXCEPT !.out = << <<"again", n>> >>])
    <3>1. << <<"again", n>> >> \in Seq(Entry)
      BY <2>2, <2>4 DEF ProgressRow, Entry
    <3>2. [L EXCEPT !.out = << <<"again", n>> >>] \in Entities
      BY <1>1, <3>1 DEF Entities
    <3>3. Knows(m, text[m], lastConv, "record", [L EXCEPT !.out = << <<"again", n>> >>])
      BY <1>1, <2>2 DEF Knows, Searching, Answering, Standing, Entities
    <3> QED  BY <1>1, <1>3, <1>4, <2>1, <2>2, <2>4, <3>2, <3>3 DEF At
  <2>5. CASE n # None /\ Matches(L.plan, n, text[m]) /\
             GoOn(p, "answer", [L EXCEPT !.node = n, !.waiting = TRUE, !.stage = row.stage])
    <3>1. [L EXCEPT !.node = n, !.waiting = TRUE, !.stage = row.stage] \in Entities
      BY <1>1, <2>2 DEF Entities, ProgressRow
    <3>2. Knows(m, text[m], lastConv, "answer",
                [L EXCEPT !.node = n, !.waiting = TRUE, !.stage = row.stage])
      BY <1>1, <2>2, <2>5 DEF Knows, Searching, Answering, Standing, Entities, ProgressRow, At
    <3> QED  BY <1>1, <1>3, <1>4, <2>1, <2>2, <2>5, <3>1, <3>2 DEF At
  <2> QED  BY <1>3, <1>12, <2>1, <2>3, <2>4, <2>5 DEF FindProgress
<1>13. CASE SaveAnswer(p)
  <2> DEFINE target == Target(L.plan, L.node, text[m])
  <2>1. /\ L.conv \in ConvId /\ L.node \in Node /\ L.plan \in Flows /\ m \notin PhoneMsg
        /\ at[p] = "answer" /\ Matches(L.plan, L.node, text[m]) /\ L.plan.start \in Node
        /\ L.conv \in 1 .. lastConv /\ text[m] # -1
    BY <1>1, <1>13 DEF SaveAnswer, Knows, Answering, Searching, Standing, At, ConvId, TypeOK
  <2>2. target \in Node \cup {None}
    BY <2>1, TargetType
  <2>3. HandlersTyped' /\ KnowNext /\ UNCHANGED Elsewhere
    <3>1. CASE GoOn(p, "finish", L)
      <4>1. Knows(m, text[m], lastConv, "finish", L)
        BY <2>1 DEF Knows
      <4> QED  BY <1>1, <1>4, <1>13, <2>1, <3>1, <4>1 DEF SaveAnswer, conversations, At
    <3>2. CASE target # None /\
               GoOn(p, "advance", [L EXCEPT !.node = target, !.waiting = FALSE, !.from = target])
      <4> DEFINE M == [L EXCEPT !.node = target, !.waiting = FALSE, !.from = target]
      <4>1. M \in Entities /\ M.plan = L.plan /\ M.node = target /\ M.conv = L.conv
        BY <1>1, <2>2 DEF Entities
      <4>2. Knows(m, text[m], lastConv, "advance", M)
        BY <2>1, <2>2, <3>2, <4>1 DEF Knows
      <4> HIDE DEF M
      <4> QED  BY <1>1, <1>4, <1>13, <2>1, <3>2, <4>1, <4>2 DEF SaveAnswer, conversations, At, M
    <3> QED  BY <1>13, <3>1, <3>2 DEF SaveAnswer
  <2>4. answers' \subseteq [conv : ConvId, node : Node, msg : Msg]
    <3>1. [conv |-> L.conv, node |-> L.node, msg |-> m] \in [conv : ConvId, node : Node, msg : Msg]
      BY <1>1, <2>1
    <3> QED  BY <1>13, <3>1 DEF SaveAnswer, TypeOK
  <2>5. RowsTyped' /\ \A c \in ConvId : c > lastConv' => status'[c] = "ABSENT"
    BY <1>13, <2>4 DEF SaveAnswer, RowsTyped, TypeOK, conversations, HandlerInv
  <2> QED  BY <2>3, <2>5
<1>14. ASSUME WriteFinished(p), UNCHANGED progress
       PROVE  /\ RowsTyped' /\ lastConv' = lastConv
              /\ \A c \in ConvId : c > lastConv' => status'[c] = "ABSENT"
  <2>1. CASE L.conv \in ConvId
    <3>1. /\ touched' \in [ConvId -> [hour : 0 .. MaxHours, stamp : 0 .. stamp']]
          /\ stamp' \in Nat
      BY <1>14, <2>1, StampTyped DEF WriteFinished
    <3>2. status' \in [ConvId -> Status] /\ auto' \in [ConvId -> BOOLEAN]
      BY <1>14 DEF WriteFinished, TypeOK, Status
    <3>3. \A c \in ConvId : status[c] = "ABSENT" => status'[c] = "ABSENT"
      BY <1>14, <2>1 DEF WriteFinished, Exists, TypeOK
    <3>4. \A c \in ConvId : c > lastConv' => status'[c] = "ABSENT"
      BY <1>14, <3>3 DEF WriteFinished, HandlerInv
    <3> QED  BY <1>14, <3>1, <3>2, <3>4 DEF WriteFinished, RowsTyped, TypeOK
  <2>2. CASE L.conv \notin ConvId
    <3>1. UNCHANGED <<status, auto, touched>> /\ stamp' = stamp + 1
      BY <1>14, <2>2 DEF WriteFinished, TypeOK
    <3>2. /\ touched' \in [ConvId -> [hour : 0 .. MaxHours, stamp : 0 .. stamp']]
          /\ stamp' \in Nat
      BY <3>1 DEF TypeOK
    <3> QED  BY <1>14, <3>1, <3>2 DEF WriteFinished, RowsTyped, TypeOK, HandlerInv
  <2> QED  BY <2>1, <2>2
<1>15. ASSUME NEW M \in Entities, WriteProgress(p, M)
       PROVE  /\ RowsTyped' /\ lastConv' = lastConv
              /\ \A c \in ConvId : c > lastConv' => status'[c] = "ABSENT"
  <2>1. [node |-> M.node, waiting |-> M.waiting, stage |-> M.stage] \in ProgressRow
    BY DEF Entities, ProgressRow
  <2>2. progress' \in [ConvId -> ProgressRow]
    BY <1>15, <2>1 DEF WriteProgress, TypeOK
  <2> QED  BY <1>15, <2>2 DEF WriteProgress, RowsTyped, TypeOK, conversations, HandlerInv
<1>16. ASSUME at[p] \in Standing
       PROVE  /\ L.node \in Node /\ L.plan \in Flows /\ L.conv \in 1 .. lastConv
              /\ m \notin PhoneMsg /\ L.plan.start \in Node /\ text[m] # -1 /\ at[p] # "idle"
  BY <1>1, <1>16 DEF Knows, Searching, Answering, Standing, At
<1>17. ASSUME at[p] \in Standing, NEW M \in Entities, NEW step \in {"record", "walk", "saveProgress"},
              M.plan = L.plan, M.conv = L.conv, step \in {"walk", "saveProgress"} => M.node \in Node,
              GoOn(p, step, M), lastConv' = lastConv
       PROVE  HandlersTyped' /\ KnowNext /\ UNCHANGED Elsewhere
  <2>1. Knows(m, text[m], lastConv, step, M)
    BY <1>16, <1>17 DEF Knows, Searching, Answering, Standing
  <2> HIDE DEF L
  <2> QED  BY <1>1, <1>4, <1>16, <1>17, <2>1 DEF At
<1>18. ASSUME at[p] \in Standing
       PROVE  /\ AtNode(L) \in Entities /\ AtNode(L).plan = L.plan /\ AtNode(L).conv = L.conv
              /\ AtNode(L).node = L.node /\ AtNode(L).node \in Node
  BY <1>1, <1>16, <1>18, AtNodeType
<1>19. CASE FinishUnanswered(p)
  <2>1. at[p] \in Standing  BY <1>19 DEF FinishUnanswered, Standing
  <2> QED  BY <1>1, <1>14, <1>17, <1>19, <2>1 DEF FinishUnanswered
<1>20. CASE Advance(p)
  <2>1. at[p] \in Standing  BY <1>20 DEF Advance, Standing
  <2> QED  BY <1>1, <1>15, <1>16, <1>17, <1>20, <2>1 DEF Advance
<1>21. CASE WalkCycle(p)
  <2>1. at[p] \in Standing  BY <1>21 DEF WalkCycle, Standing
  <2> QED  BY <1>1, <1>14, <1>16, <1>17, <1>21, <2>1 DEF WalkCycle
<1>22. CASE WalkLost(p)
  <2>1. at[p] \in Standing  BY <1>22 DEF WalkLost, Standing
  <2> QED  BY <1>1, <1>14, <1>17, <1>22, <2>1 DEF WalkLost
<1>23. CASE WalkEnd(p)
  <2>1. at[p] \in Standing  BY <1>23 DEF WalkEnd, InLoop, Standing
  <2> QED  BY <1>14, <1>17, <1>18, <1>23, <2>1 DEF WalkEnd
<1>24. CASE WalkOn(p)
  <2> DEFINE moved == [AtNode(L) EXCEPT !.node = L.plan.next[L.node], !.waiting = FALSE]
  <2>1. at[p] \in Standing  BY <1>24 DEF WalkOn, InLoop, Standing
  <2>2. L.plan.next[L.node] \in Node
    BY <1>16, <1>24, <2>1, FlowType DEF WalkOn, PassesOn
  <2>3. moved \in Entities /\ moved.plan = L.plan /\ moved.conv = L.conv /\ moved.node \in Node
    BY <1>18, <2>1, <2>2 DEF Entities
  <2>4. WriteProgress(p, moved) /\ GoOn(p, "walk", moved)
    BY <1>24 DEF WalkOn
  <2> HIDE DEF moved
  <2> QED  BY <1>15, <1>17, <2>1, <2>3, <2>4
<1>25. CASE WalkAsk(p)
  <2> DEFINE asked == [AtNode(L) EXCEPT !.waiting = TRUE]
  <2>1. at[p] \in Standing  BY <1>25 DEF WalkAsk, InLoop, Standing
  <2>2. asked \in Entities /\ asked.plan = L.plan /\ asked.conv = L.conv
    BY <1>18, <2>1 DEF Entities
  <2>3. WriteProgress(p, asked) /\ GoOn(p, "record", asked)
    BY <1>25 DEF WalkAsk
  <2> HIDE DEF asked
  <2> QED  BY <1>15, <1>17, <2>1, <2>2, <2>3
<1>26. CASE SaveProgress(p)
  <2>1. at[p] \in Standing  BY <1>26 DEF SaveProgress, Standing
  <2> QED  BY <1>1, <1>15, <1>17, <1>26, <2>1 DEF SaveProgress
<1>27. CASE RecordMessage(p)
  <2>1. at[p] = "record" /\ L.conv \in ConvId /\ lastConv' = lastConv
    BY <1>1, <1>27 DEF RecordMessage, Knows, Searching, ConvId, TypeOK, conversations
  <2>2. recorded' \in [Msg -> 0 .. MaxConv]
    <3>1. L.conv \in 0 .. MaxConv  BY <1>1 DEF Entities
    <3> HIDE DEF L
    <3> QED  BY <1>27, <3>1 DEF RecordMessage, TypeOK, L
  <2>3. Knows(m, text[m], lastConv, "enqueue", L)
    BY <1>1, <2>1 DEF Knows, Searching, Answering, Standing
  <2>4. HandlersTyped' /\ KnowNext /\ UNCHANGED Elsewhere
    BY <1>1, <1>4, <1>5, <1>27, <2>1, <2>3 DEF RecordMessage, At
  <2> QED
    BY <1>27, <2>2, <2>4 DEF RecordMessage, RowsTyped, TypeOK, conversations, HandlerInv
<1>28. CASE EnqueueReplies(p)
  <2>1. at[p] = "enqueue" /\ L.conv \in ConvId /\ lastConv' = lastConv
    BY <1>1, <1>28 DEF EnqueueReplies, Knows, Searching, ConvId, TypeOK, conversations
  <2>2. outbox[L.conv] \o L.out \in Seq(Entry)
    BY <1>1, <2>1, ConcatProperties DEF TypeOK, Entities
  <2>3. outbox' \in [ConvId -> Seq(Entry)] /\ replied' \in [Msg -> Nat]
    <3>1. outbox' = [outbox EXCEPT ![L.conv] = outbox[L.conv] \o L.out]
      BY <1>28 DEF EnqueueReplies
    <3>2. outbox \in [ConvId -> Seq(Entry)]  BY DEF TypeOK
    <3>3. outbox' \in [ConvId -> Seq(Entry)]
      <4> HIDE DEF L
      <4> QED  BY <2>2, <3>1, <3>2
    <3>4. replied' \in [Msg -> Nat]
      BY <1>1, <1>28 DEF EnqueueReplies, TypeOK
    <3> QED  BY <3>3, <3>4
  <2>4. HandlersTyped' /\ KnowNext /\ UNCHANGED Elsewhere
    BY <1>5, <1>28, <2>1 DEF EnqueueReplies
  <2> QED
    BY <1>28, <2>3, <2>4 DEF EnqueueReplies, RowsTyped, TypeOK, conversations, HandlerInv
<1>29. CASE Rejected(p)
  BY <1>3, <1>5, <1>29 DEF Rejected, conversations
<1> QED
  BY <1>6, <1>7, <1>9, <1>10, <1>11, <1>12, <1>13, <1>19, <1>20, <1>21, <1>22, <1>23,
     <1>24, <1>25, <1>26, <1>27, <1>28, <1>29 DEF HandlerStep

\* The system starts well.
LEMMA InitSound ==
  Init => Sound
<1> SUFFICES ASSUME Init PROVE Sound
  OBVIOUS
<1> USE EngineAssumption
<1>1. Blank \in Entities
  BY EmptySeq DEF Blank, Entities
<1>2. NoProgress \in ProgressRow
  BY DEF NoProgress, ProgressRow
<1>3. << >> \in Seq(Entry)
  BY EmptySeq
<1>4. TypeOK
  <2>1. MaxConv \in Nat /\ MaxOption \in Nat /\ MaxHours \in Nat
    OBVIOUS
  <2>2. /\ status \in [ConvId -> Status] /\ auto \in [ConvId -> BOOLEAN]
        /\ touched \in [ConvId -> [hour : 0 .. MaxHours, stamp : 0 .. stamp]]
        /\ lastConv \in 0 .. MaxConv /\ hour \in 0 .. MaxHours /\ stamp \in Nat
    BY <2>1 DEF Init, Status, Unread
  <2>3. /\ progress \in [ConvId -> ProgressRow] /\ outbox \in [ConvId -> Seq(Entry)]
        /\ recorded \in [Msg -> 0 .. MaxConv]
        /\ text \in [Msg -> -1 .. MaxOption] /\ replied \in [Msg -> Nat]
    BY <1>2, <1>3, <2>1 DEF Init
  <2>4. at \in [Process -> At] /\ local \in [Process -> Entities]
    BY <1>1 DEF Init, At
  <2>5. faults \in 0 .. MaxFaults
    BY DEF Init
  <2> QED  BY <2>2, <2>3, <2>4, <2>5 DEF Init, TypeOK, Act
<1>5. HandlerInv
  BY DEF Init, HandlerInv, Knows, Searching, Answering, Standing, Process
<1> QED  BY <1>4, <1>5 DEF Sound

\* Every step of the system keeps Sound.
LEMMA SoundStep ==
  ASSUME Sound, [Next]_vars
  PROVE  Sound'
<1> USE EngineAssumption DEF Sound
<1> DEFINE KnowNext == \A q \in Process : Knows(q[2], text'[q[2]], lastConv', at'[q], local'[q])
           Told == \A i \in Instance : \A m \in inbox'[i] : text'[m] # -1
           Absent == \A c \in ConvId : c > lastConv' => status'[c] = "ABSENT"
<1>1. UNCHANGED <<text, lastConv, at, local>> => KnowNext
  BY DEF HandlerInv
<1>2. UNCHANGED <<lastConv, status>> => Absent
  BY DEF HandlerInv
<1>3. UNCHANGED <<inbox, text>> => Told
  BY DEF HandlerInv
<1>4. Blank \in Entities /\ NoProgress \in ProgressRow
  BY EmptySeq DEF Blank, Entities, NoProgress, ProgressRow
<1>5. ASSUME NEW m \in Msg, NEW k \in 0 .. MaxOption, Publish(m, k) PROVE Sound'
  <2>1. inbox' \in [Instance -> SUBSET Msg] /\ seen' \in [Instance -> SUBSET Msg]
    BY <1>5 DEF Publish, TypeOK
  <2>2. text' \in [Msg -> -1 .. MaxOption]
    BY <1>5 DEF Publish, TypeOK
  <2>3. TypeOK'
    BY <1>5, <2>1, <2>2 DEF Publish, TypeOK, conversations, ghosts
  <2>4. \A x \in Msg : text[x] # -1 => text'[x] = text[x]
    BY <1>5 DEF Publish, TypeOK
  <2>5. KnowNext
    <3> TAKE q \in Process
    <3>1. q[2] \in Msg /\ Knows(q[2], text[q[2]], lastConv, at[q], local[q])
      BY DEF Process, HandlerInv
    <3>2. at' = at /\ local' = local /\ lastConv' = lastConv
      BY <1>5 DEF Publish, conversations
    <3> QED  BY <2>4, <3>1, <3>2 DEF Knows, Searching, Answering, Standing
  <2>6. Told
    BY <1>5, <2>1, <2>2, <2>4 DEF Publish, TypeOK, HandlerInv
  <2> QED  BY <1>2, <1>5, <2>3, <2>5, <2>6 DEF Publish, conversations, HandlerInv
<1>6. ASSUME NEW i \in Instance, NEW m \in Msg, Redeliver(i, m) PROVE Sound'
  <2>1. inbox' \in [Instance -> SUBSET Msg] /\ seen' \in [Instance -> SUBSET Msg]
    BY <1>6 DEF Redeliver, TypeOK
  <2>2. again' \in BOOLEAN
    BY <1>6 DEF Redeliver, TypeOK
  <2>3. TypeOK'
    BY <1>6, <2>1, <2>2 DEF Redeliver, TypeOK, conversations
  <2>4. Told
    BY <1>6 DEF Redeliver, TypeOK, HandlerInv
  <2> QED
    BY <1>1, <1>2, <1>6, <2>3, <2>4 DEF Redeliver, conversations, HandlerInv
<1>7. ASSUME NEW i \in Instance, NEW m \in Msg, Ignore(i, m) PROVE Sound'
  <2>1. inbox' \in [Instance -> SUBSET Msg]
    BY <1>7 DEF Ignore, TypeOK
  <2>2. TypeOK'
    BY <1>7, <2>1 DEF Ignore, TypeOK, conversations, ghosts
  <2>3. Told
    BY <1>7 DEF Ignore, TypeOK, HandlerInv
  <2> QED
    BY <1>1, <1>2, <1>7, <2>2, <2>3 DEF Ignore, conversations, HandlerInv
<1>8. ASSUME NEW i \in Instance, NEW m \in Msg, Load(i, m) PROVE Sound'
  <2> DEFINE p == <<i, m>>
             L == [Blank EXCEPT !.plan = flow, !.paused = paused]
  <2>1. p \in Process /\ p[1] = i /\ p[2] = m
    BY DEF Process
  <2>2. flow \in Flows /\ L \in Entities /\ L.plan = flow
    BY <1>4, <1>8 DEF Load, SomethingToDo, TypeOK, Entities
  <2>3. m \notin PhoneMsg => flow.start \in Node
    BY <1>8, <2>2, FlowType DEF Load, SomethingToDo
  <2>4. text[m] # -1
    BY <1>8 DEF Load, HandlerInv
  <2>5. inbox' \in [Instance -> SUBSET Msg] /\ mutex' \in [Instance -> Msg \cup {NoMsg}]
    BY <1>8 DEF Load, TypeOK
  <2>6. at' \in [Process -> At] /\ local' \in [Process -> Entities]
    <3> HIDE DEF L
    <3>1. local' = [local EXCEPT ![p] = L] /\ at' = [at EXCEPT ![p] = "findActive"]
      BY <1>8 DEF Load, L
    <3> QED  BY <2>2, <3>1 DEF TypeOK, At
  <2>7. ASSUME NEW q \in Process, at'[q] # "idle" PROVE mutex'[q[1]] = q[2]
    <3>1. CASE q = p
      BY <1>8, <2>1, <3>1 DEF Load, TypeOK
    <3>2. CASE q # p
      <4>1. at[q] # "idle" /\ mutex[q[1]] = q[2]
        BY <1>8, <2>1, <2>7, <3>2 DEF Load, TypeOK
      <4>2. q[1] # i
        BY <1>8, <4>1 DEF Load, MutexFree, Process
      <4> QED  BY <1>8, <4>1, <4>2 DEF Load, TypeOK, Process
    <3> QED  BY <3>1, <3>2
  <2>8. overlap' \in BOOLEAN
    BY <1>8 DEF Load, TypeOK
  <2>9. TypeOK'
    BY <1>8, <2>5, <2>6, <2>7, <2>8 DEF Load, TypeOK, conversations
  <2>10. KnowNext
    <3> TAKE q \in Process
    <3>1. CASE q = p
      <4>1. at'[q] = "findActive" /\ local'[q] = L
        BY <1>8, <2>1, <3>1 DEF Load, TypeOK
      <4>2. text' = text  BY <1>8 DEF Load
      <4> HIDE DEF L
      <4> QED  BY <2>1, <2>2, <2>3, <2>4, <3>1, <4>1, <4>2
               DEF Knows, Searching, Answering, Standing
    <3>2. CASE q # p
      <4>1. at'[q] = at[q] /\ local'[q] = local[q] /\ text' = text /\ lastConv' = lastConv
        BY <1>8, <3>2 DEF Load, TypeOK, conversations
      <4> QED  BY <4>1 DEF HandlerInv
    <3> QED  BY <3>1, <3>2
  <2>11. Told
    BY <1>8 DEF Load, TypeOK, HandlerInv
  <2> QED
    BY <1>2, <1>8, <2>9, <2>10, <2>11 DEF Load, conversations, HandlerInv
<1>9. ASSUME NEW p \in Process, Fail(p) PROVE Sound'
  <2>1. p[1] \in Instance /\ p[2] \in Msg
    BY DEF Process
  <2>2. /\ at' = [at EXCEPT ![p] = "idle"] /\ local' = [local EXCEPT ![p] = Blank]
        /\ mutex' = [mutex EXCEPT ![p[1]] = NoMsg] /\ at[p] # "idle"
    BY <1>9 DEF Fail
  <2>3. /\ at' \in [Process -> At] /\ local' \in [Process -> Entities]
        /\ mutex' \in [Instance -> Msg \cup {NoMsg}]
    BY <1>4, <2>2 DEF TypeOK, At
  <2>4. ASSUME NEW q \in Process, at'[q] # "idle" PROVE mutex'[q[1]] = q[2]
    <3>1. q # p /\ at[q] # "idle"  BY <2>2, <2>4 DEF TypeOK
    <3>2. mutex[q[1]] = q[2] /\ mutex[p[1]] = p[2]  BY <2>2, <3>1 DEF TypeOK
    <3>3. q[1] # p[1]  BY <3>1, <3>2 DEF Process
    <3> QED  BY <2>1, <2>2, <3>2, <3>3 DEF TypeOK, Process
  <2>5. TypeOK'
    <3>1. faults' \in 0 .. MaxFaults
      BY <1>9 DEF Fail, Fault, TypeOK
    <3> QED  BY <1>9, <2>3, <2>4, <3>1 DEF Fail, TypeOK, conversations, ghosts
  <2>6. KnowNext
    <3> TAKE q \in Process
    <3>1. at'[q] = "idle" \/ (at'[q] = at[q] /\ local'[q] = local[q])
      BY <2>2 DEF TypeOK
    <3>2. text' = text /\ lastConv' = lastConv
      BY <1>9 DEF Fail, conversations
    <3> QED  BY <3>1, <3>2 DEF HandlerInv, Knows, Searching, Answering, Standing
  <2> QED
    BY <1>2, <1>3, <1>9, <2>5, <2>6 DEF Fail, conversations, HandlerInv
<1>10. ASSUME NEW i \in Instance, Crash(i) PROVE Sound'
  <2>1. /\ at' \in [Process -> At] /\ local' \in [Process -> Entities]
        /\ mutex' \in [Instance -> Msg \cup {NoMsg}]
        /\ inbox' \in [Instance -> SUBSET Msg] /\ seen' \in [Instance -> SUBSET Msg]
    BY <1>4, <1>10 DEF Crash, TypeOK, At
  <2>2. ASSUME NEW q \in Process, at'[q] # "idle" PROVE mutex'[q[1]] = q[2]
    <3>1. q[1] # i /\ at[q] # "idle"  BY <1>10, <2>2 DEF Crash
    <3> QED  BY <1>10, <3>1 DEF Crash, TypeOK, Process
  <2>3. TypeOK'
    <3>1. faults' \in 0 .. MaxFaults
      BY <1>10 DEF Crash, Fault, TypeOK
    <3> QED  BY <1>10, <2>1, <2>2, <3>1 DEF Crash, TypeOK, conversations, ghosts
  <2>4. KnowNext
    <3> TAKE q \in Process
    <3>1. at'[q] = "idle" \/ (at'[q] = at[q] /\ local'[q] = local[q])
      BY <1>10 DEF Crash
    <3>2. text' = text /\ lastConv' = lastConv
      BY <1>10 DEF Crash, conversations
    <3> QED  BY <3>1, <3>2 DEF HandlerInv, Knows, Searching, Answering, Standing
  <2>5. Told
    BY <1>10 DEF Crash, TypeOK, HandlerInv
  <2> QED
    BY <1>2, <1>10, <2>3, <2>4, <2>5 DEF Crash, conversations, HandlerInv
<1>11. ASSUME NEW c \in ConvId, NEW on \in BOOLEAN, ToggleRead(c, on) PROVE Sound'
  <2>1. act' \in Act /\ overlap' \in BOOLEAN
    BY <1>11 DEF ToggleRead, Request, Act, Active, TypeOK
  <2>2. TypeOK'
    BY <1>11, <2>1 DEF ToggleRead, Untouched, handlers, conversations, TypeOK
  <2> QED
    BY <1>1, <1>2, <1>3, <1>11, <2>2
    DEF ToggleRead, Untouched, handlers, conversations, HandlerInv
<1>12. ASSUME NEW c \in ConvId, NEW st \in Stage, StageRead(c, st) PROVE Sound'
  <2>1. [progress[c] EXCEPT !.stage = st] \in ProgressRow
    <3>1. progress[c] \in ProgressRow  BY DEF TypeOK
    <3> QED  BY <3>1 DEF ProgressRow
  <2>2. act' \in Act /\ overlap' \in BOOLEAN
    BY <1>12, <2>1 DEF StageRead, Request, Act, TypeOK
  <2>3. TypeOK'
    BY <1>12, <2>2 DEF StageRead, Untouched, handlers, conversations, TypeOK
  <2> QED
    BY <1>1, <1>2, <1>3, <1>12, <2>3
    DEF StageRead, Untouched, handlers, conversations, HandlerInv
<1>13. ASSUME ToggleWrite PROVE Sound'
  <2>1. act.conv \in ConvId /\ act.status \in Status /\ act.on \in BOOLEAN
    BY <1>13 DEF ToggleWrite, TypeOK, Act, NoAct
  <2>2. /\ touched' \in [ConvId -> [hour : 0 .. MaxHours, stamp : 0 .. stamp']]
        /\ stamp' \in Nat
    BY <1>13, <2>1, StampTyped DEF ToggleWrite
  <2>3. /\ status' \in [ConvId -> Status] /\ auto' \in [ConvId -> BOOLEAN]
        /\ act' \in Act /\ paused' \in BOOLEAN
    BY <1>13, <2>1 DEF ToggleWrite, TypeOK, Act
  <2>4. TypeOK'
    BY <1>13, <2>2, <2>3 DEF ToggleWrite, Untouched, handlers, TypeOK
  <2>5. Absent
    BY <1>13, <2>1 DEF ToggleWrite, TypeOK, HandlerInv
  <2> QED
    BY <1>1, <1>3, <1>13, <2>4, <2>5 DEF ToggleWrite, Untouched, handlers, HandlerInv
<1>14. ASSUME StageWrite PROVE Sound'
  <2>1. act.conv \in ConvId /\ act.row \in ProgressRow
    BY <1>14 DEF StageWrite, TypeOK, Act, NoAct
  <2>2. progress' \in [ConvId -> ProgressRow] /\ act' \in Act
    BY <1>14, <2>1 DEF StageWrite, TypeOK, Act
  <2>3. TypeOK'
    BY <1>14, <2>2 DEF StageWrite, Untouched, handlers, conversations, ghosts, TypeOK
  <2> QED
    BY <1>1, <1>2, <1>3, <1>14, <2>3
    DEF StageWrite, Untouched, handlers, conversations, HandlerInv
<1>15. ASSUME WriteRejected PROVE Sound'
  <2>1. act' \in Act
    BY <1>15 DEF WriteRejected, Act
  <2>2. TypeOK'
    BY <1>15, <2>1 DEF WriteRejected, Untouched, handlers, conversations, ghosts, TypeOK
  <2> QED
    BY <1>1, <1>2, <1>3, <1>15, <2>2
    DEF WriteRejected, Untouched, handlers, conversations, HandlerInv
<1>16. ASSUME Delete PROVE Sound'
  <2>1. /\ status' \in [ConvId -> Status] /\ recorded' \in [Msg -> 0 .. MaxConv]
        /\ answers' \subseteq [conv : ConvId, node : Node, msg : Msg]
        /\ replied' \in [Msg -> Nat] /\ overlap' \in BOOLEAN /\ paused' \in BOOLEAN
    <3>1. recorded' \in [Msg -> 0 .. MaxConv]
      <4>1. 0 \in 0 .. MaxConv  OBVIOUS
      <4> QED  BY <1>16, <4>1 DEF Delete
    <3>2. overlap' \in BOOLEAN
      BY <1>16 DEF Delete, TypeOK
    <3> QED  BY <1>16, <3>1, <3>2 DEF Delete, Status
  <2>2. progress' \in [ConvId -> ProgressRow] /\ outbox' \in [ConvId -> Seq(Entry)]
    BY <1>4, <1>16, EmptySeq DEF Delete
  <2>3. TypeOK'
    BY <1>16, <2>1, <2>2 DEF Delete, handlers, TypeOK
  <2>4. Absent
    BY <1>16 DEF Delete
  <2> QED
    BY <1>1, <1>3, <1>16, <2>3, <2>4 DEF Delete, handlers, HandlerInv
<1>17. ASSUME NEW f \in Flows \cup {NoFlow}, EditFlow(f) PROVE Sound'
  <2>1. TypeOK'
    BY <1>17 DEF EditFlow, handlers, conversations, ghosts, TypeOK
  <2> QED
    BY <1>1, <1>2, <1>3, <1>17, <2>1 DEF EditFlow, handlers, conversations, HandlerInv
<1>18. ASSUME HourPasses PROVE Sound'
  <2>1. hour' \in 0 .. MaxHours /\ seen' \in [Instance -> SUBSET Msg]
    BY <1>18 DEF HourPasses, TypeOK
  <2>2. TypeOK'
    BY <1>18, <2>1 DEF HourPasses, conversations, ghosts, TypeOK
  <2> QED
    BY <1>1, <1>2, <1>3, <1>18, <2>2 DEF HourPasses, conversations, HandlerInv
<1>19. ASSUME UNCHANGED vars PROVE Sound'
  <2>1. TypeOK'
    BY <1>19 DEF vars, handlers, conversations, ghosts, TypeOK
  <2> QED
    BY <1>1, <1>2, <1>3, <1>19, <2>1 DEF vars, handlers, conversations, HandlerInv
<1> QED
  <2> HIDE DEF KnowNext, Told, Absent, Sound
  <2>1. ASSUME NEW p \in Process, HandlerStep(p) PROVE Sound'
    BY <2>1, HandlerStepSound
  <2> QED
    BY <1>5, <1>6, <1>7, <1>8, <1>9, <1>10, <1>11, <1>12, <1>13, <1>14, <1>15, <1>16,
       <1>17, <1>18, <1>19, <2>1 DEF Next, Quiet

\* What every handler knows, whatever the others, the operators and the faults do.
LEMMA EngineSound ==
  Spec => []Sound
BY InitSound, SoundStep, PTL DEF Spec

\* The entities, the rows, the mutexes and the operator's request keep their types,
\* and a handler runs only while it holds its lead's mutex: FlowEngine's TypeOK.
THEOREM EngineTypes ==
  Spec => []TypeOK
<1>1. Sound => TypeOK
  BY DEF Sound
<1> QED  BY <1>1, EngineSound, PTL

-----------------------------------------------------------------------------
(* Replies are enqueued once *)

\* A handler past the search holds a conversation that was created.
LEMMA HeldConversation ==
  ASSUME Sound, NEW p \in Process, at[p] \notin Searching
  PROVE  local[p].conv \in ConvId /\ local[p].conv <= lastConv
<1>1. local[p].conv \in 1 .. lastConv
  BY DEF Sound, HandlerInv, Knows
<1>2. lastConv \in 0 .. MaxConv /\ MaxConv \in Nat
  BY EngineAssumption DEF Sound, TypeOK
<1> QED  BY <1>1, <1>2 DEF ConvId

\* A step that starts no reply, records nothing and brings no conversation back.
LEMMA ReplyFrame ==
  ASSUME Sound, ReplyInv, UNCHANGED <<recorded, replied>>,
         \A p \in Process : at'[p] = "enqueue" => at[p] = "enqueue" /\ local'[p] = local[p],
         \A c \in ConvId : c <= lastConv /\ status'[c] # "ABSENT" => status[c] # "ABSENT"
  PROVE  ReplyInv'
<1>1. ASSUME NEW p \in Process, Replying(p)' PROVE Replying(p)
  <2>1. at[p] = "enqueue" /\ local'[p] = local[p]
    BY <1>1 DEF Replying
  <2>2. local[p].conv \in ConvId /\ local[p].conv <= lastConv
    BY <2>1, HeldConversation DEF Searching
  <2> QED  BY <1>1, <2>1, <2>2 DEF Replying, Exists
<1> QED  BY <1>1 DEF ReplyInv

\* Only RecordMessage leads to the step that enqueues.
LEMMA ReplyHandlerStep ==
  ASSUME Sound, ReplyInv, NEW p \in Process, HandlerStep(p)
  PROVE  ReplyInv'
<1> DEFINE L == local[p]
           m == p[2]
           NoReply == \A q \in Process : at'[q] = "enqueue" =>
                                           at[q] = "enqueue" /\ local'[q] = local[q]
           NoReturn == \A c \in ConvId : c <= lastConv /\ status'[c] # "ABSENT" =>
                                           status[c] # "ABSENT"
<1>1. m \in Msg /\ lastConv \in Nat
  BY EngineAssumption DEF Process, Sound, TypeOK
<1>2. ASSUME NEW step \in At \ {"enqueue"}, NEW M, GoOn(p, step, M)
      PROVE  NoReply
  BY <1>2 DEF GoOn, Sound, TypeOK
<1>3. ASSUME Leave(p)
      PROVE  NoReply
  BY <1>3 DEF Leave, Sound, TypeOK
<1>4. CASE FindActive(p) \/ FindLastFinished(p) \/ FindProgress(p) \/ Rejected(p)
  <2>1. NoReply
    BY <1>2, <1>3, <1>4 DEF FindActive, FindLastFinished, FindProgress, Rejected,
                            FirstContact, At
  <2> QED
    BY <1>4, <2>1, ReplyFrame DEF FindActive, FindLastFinished, FindProgress, Rejected,
                                  conversations
<1>5. CASE CreateSilent(p) \/ Create(p)
  <2>1. NoReply
    BY <1>2, <1>5 DEF CreateSilent, Create, CreateConversation, At
  <2>2. NoReturn
    <3>1. status' = [status EXCEPT ![lastConv + 1] = "ACTIVE"]
      BY <1>5 DEF CreateSilent, Create, CreateConversation
    <3>2. \A c \in ConvId : c <= lastConv => c # lastConv + 1
      BY <1>1 DEF ConvId
    <3> QED  BY <3>1, <3>2 DEF Sound, TypeOK
  <2> QED
    BY <1>5, <2>1, <2>2, ReplyFrame DEF CreateSilent, Create, CreateConversation
<1>6. CASE CreateProgress(p) \/ SaveAnswer(p)
  <2>1. NoReply
    BY <1>2, <1>6 DEF CreateProgress, SaveAnswer, At
  <2> QED
    BY <1>6, <2>1, ReplyFrame DEF CreateProgress, SaveAnswer, conversations
<1>7. CASE FinishUnanswered(p) \/ WalkCycle(p) \/ WalkLost(p) \/ WalkEnd(p)
  <2>1. NoReply
    BY <1>2, <1>7 DEF FinishUnanswered, WalkCycle, WalkLost, WalkEnd, At
  <2>2. WriteFinished(p)
    BY <1>7 DEF FinishUnanswered, WalkCycle, WalkLost, WalkEnd
  <2>3. NoReturn
    BY <2>2 DEF WriteFinished, Exists, Sound, TypeOK
  <2> QED
    BY <2>1, <2>2, <2>3, ReplyFrame DEF WriteFinished
<1>8. CASE Advance(p) \/ WalkOn(p) \/ WalkAsk(p) \/ SaveProgress(p)
  <2>1. NoReply
    BY <1>2, <1>8 DEF Advance, WalkOn, WalkAsk, SaveProgress, At
  <2> QED
    BY <1>8, <2>1, ReplyFrame DEF Advance, WalkOn, WalkAsk, SaveProgress, WriteProgress,
                                  conversations
<1>9. CASE RecordMessage(p)
  <2>1. /\ at[p] = "record" /\ recorded[m] = 0 /\ recorded' = [recorded EXCEPT ![m] = L.conv]
        /\ UNCHANGED <<status, replied>>
    BY <1>9 DEF RecordMessage, conversations
  <2>2. L.conv # 0 /\ L.conv \in ConvId
    BY <2>1, HeldConversation DEF Searching, ConvId
  <2>3. \A q \in Process : q # p => at'[q] = at[q] /\ local'[q] = local[q]
    BY <1>9 DEF RecordMessage, Leave, GoOn, Sound, TypeOK
  <2>4. \A q \in Process : q # p /\ Replying(q)' => Replying(q) /\ q[2] # m
    BY <2>1, <2>3 DEF Replying, Exists, ReplyInv
  <2>5. recorded'[m] # 0 /\ replied'[m] = 0
    BY <1>1, <2>1, <2>2 DEF ReplyInv, Sound, TypeOK
  <2>6. \A x \in Msg : x # m => recorded'[x] = recorded[x] /\ replied'[x] = replied[x]
    BY <2>1 DEF Sound, TypeOK
  <2>7. \A x \in Msg : replied'[x] <= 1 /\ (recorded'[x] = 0 => replied'[x] = 0)
    BY <2>5, <2>6 DEF ReplyInv
  <2>8. \A q \in Process : q[2] \in Msg
    BY DEF Process
  <2> QED  BY <2>4, <2>5, <2>6, <2>7, <2>8 DEF ReplyInv
<1>10. CASE EnqueueReplies(p)
  <2>1. /\ Replying(p) /\ replied' = [replied EXCEPT ![m] = @ + 1]
        /\ UNCHANGED <<status, recorded>>
    BY <1>10 DEF EnqueueReplies, Replying, conversations
  <2>2. at'[p] = "idle" /\ \A q \in Process : q # p => at'[q] = at[q] /\ local'[q] = local[q]
    BY <1>10 DEF EnqueueReplies, Leave, Sound, TypeOK
  <2>3. \A q \in Process : Replying(q)' => Replying(q) /\ q[2] # m
    BY <2>1, <2>2 DEF Replying, Exists, ReplyInv
  <2>4. replied'[m] = 1 /\ recorded[m] # 0
    BY <1>1, <2>1 DEF ReplyInv, Sound, TypeOK
  <2>5. \A x \in Msg : x # m => replied'[x] = replied[x]
    BY <2>1 DEF Sound, TypeOK
  <2>6. \A q \in Process : q[2] \in Msg
    BY DEF Process
  <2> QED  BY <2>1, <2>3, <2>4, <2>5, <2>6 DEF ReplyInv
<1> QED
  BY <1>4, <1>5, <1>6, <1>7, <1>8, <1>9, <1>10 DEF HandlerStep

\* Outside the handlers only a deletion touches the record of a message.
LEMMA ReplyStep ==
  ASSUME Sound, ReplyInv, [Next]_vars
  PROVE  ReplyInv'
<1> DEFINE NoReply == \A q \in Process : at'[q] = "enqueue" =>
                                           at[q] = "enqueue" /\ local'[q] = local[q]
<1>1. ASSUME NEW m \in Msg, NEW k \in 0 .. MaxOption, Publish(m, k) PROVE ReplyInv'
  BY <1>1, ReplyFrame DEF Publish, conversations
<1>2. ASSUME NEW i \in Instance, NEW m \in Msg, Redeliver(i, m) \/ Ignore(i, m)
      PROVE  ReplyInv'
  BY <1>2, ReplyFrame DEF Redeliver, Ignore, conversations
<1>3. ASSUME NEW i \in Instance, NEW m \in Msg, Load(i, m) PROVE ReplyInv'
  <2>1. NoReply
    BY <1>3 DEF Load, Sound, TypeOK, Process
  <2> QED  BY <1>3, <2>1, ReplyFrame DEF Load, conversations
<1>4. ASSUME NEW p \in Process, Fail(p) PROVE ReplyInv'
  <2>1. NoReply
    BY <1>4 DEF Fail, Sound, TypeOK
  <2> QED  BY <1>4, <2>1, ReplyFrame DEF Fail, conversations
<1>5. ASSUME NEW i \in Instance, Crash(i) PROVE ReplyInv'
  <2>1. NoReply
    BY <1>5 DEF Crash
  <2> QED  BY <1>5, <2>1, ReplyFrame DEF Crash, conversations
<1>6. ASSUME NEW c \in ConvId, NEW on \in BOOLEAN, ToggleRead(c, on) PROVE ReplyInv'
  BY <1>6, ReplyFrame DEF ToggleRead, Untouched, handlers, conversations
<1>7. ASSUME NEW c \in ConvId, NEW st \in Stage, StageRead(c, st) PROVE ReplyInv'
  BY <1>7, ReplyFrame DEF StageRead, Untouched, handlers, conversations
<1>8. ASSUME ToggleWrite PROVE ReplyInv'
  <2>1. \A c \in ConvId : status'[c] # "ABSENT" => status[c] # "ABSENT"
    BY <1>8 DEF ToggleWrite, Sound, TypeOK
  <2> QED  BY <1>8, <2>1, ReplyFrame DEF ToggleWrite, Untouched, handlers
<1>9. ASSUME StageWrite \/ WriteRejected PROVE ReplyInv'
  BY <1>9, ReplyFrame DEF StageWrite, WriteRejected, Untouched, handlers, conversations
<1>10. ASSUME Delete PROVE ReplyInv'
  <2>1. /\ recorded' = [m \in Msg |-> 0] /\ replied' = [m \in Msg |-> 0]
        /\ status' = [c \in ConvId |-> "ABSENT"] /\ at' = at /\ local' = local
    BY <1>10 DEF Delete, handlers
  <2>2. \A p \in Process : ~Replying(p)'
    <3> TAKE p \in Process
    <3>1. at[p] = "enqueue" => local[p].conv \in ConvId
      BY HeldConversation DEF Searching
    <3> QED  BY <2>1, <3>1 DEF Replying, Exists
  <2> QED  BY <2>1, <2>2 DEF ReplyInv
<1>11. ASSUME NEW f \in Flows \cup {NoFlow}, EditFlow(f) PROVE ReplyInv'
  BY <1>11, ReplyFrame DEF EditFlow, handlers, conversations
<1>12. ASSUME HourPasses PROVE ReplyInv'
  BY <1>12, ReplyFrame DEF HourPasses, conversations
<1>13. ASSUME UNCHANGED vars PROVE ReplyInv'
  BY <1>13, ReplyFrame DEF vars, handlers, conversations
<1>14. ASSUME NEW p \in Process, HandlerStep(p) PROVE ReplyInv'
  BY <1>14, ReplyHandlerStep
<1> QED
  BY <1>1, <1>2, <1>3, <1>4, <1>5, <1>6, <1>7, <1>8, <1>9, <1>10, <1>11, <1>12, <1>13,
     <1>14 DEF Next, Quiet

\* The replies to a message are enqueued at most once in the history of a lead, for
\* any number of instances that handle it, redeliveries, crashes and errors.
THEOREM EveryReplyOnce ==
  Spec => []RepliesOnce
<1>1. Init => ReplyInv
  BY DEF Init, ReplyInv, Replying
<1>2. ReplyInv => RepliesOnce
  BY DEF ReplyInv, RepliesOnce
<1> QED  BY <1>1, <1>2, EngineSound, ReplyStep, PTL DEF Spec

-----------------------------------------------------------------------------
(* One conversation at a time, in the process that holds the lead's socket *)

\* The mutex: one handler of the lead runs at a time.
LEMMA OneHandler ==
  ASSUME Sound, NEW i, Instance = {i}, NEW p \in Process, NEW q \in Process,
         at[p] # "idle", at[q] # "idle"
  PROVE  p = q
<1>1. p = <<i, p[2]>> /\ q = <<i, q[2]>>
  BY DEF Process
<1>2. mutex[i] = p[2] /\ mutex[i] = q[2]
  BY <1>1 DEF Sound, TypeOK
<1> QED  BY <1>1, <1>2

Creating(p) == at[p] \in {"findLast", "createSilent", "create"}

\* A step that makes no conversation active and leads no handler to a creation.
LEMMA OneFrame ==
  ASSUME Sound, OneInv, overlap' = overlap,
         \A c \in ConvId : status'[c] = "ACTIVE" => status[c] = "ACTIVE",
         \A p \in Process : Creating(p)' => Creating(p),
         act' # NoAct => Idle', act'.kind = "toggle" => status'[act'.conv] \in {act'.status, "ABSENT"}
  PROVE  OneInv'
<1>1. \A c \in Active' : c \in Active
  BY DEF Active
<1> QED  BY <1>1 DEF OneInv, Creating, Active

\* A handler's step, while no request is under way.
LEMMA OneHandlerStep ==
  ASSUME Sound, OneInv, NEW i, Instance = {i}, NEW p \in Process, HandlerStep(p)
  PROVE  OneInv'
<1> DEFINE Alive == \A c \in ConvId : status'[c] = "ACTIVE" => status[c] = "ACTIVE"
           Quieter == \A q \in Process : Creating(q)' => Creating(q)
<1>1. at[p] # "idle" /\ UNCHANGED <<overlap, act>>
  <2>1. at[p] # "idle"
    BY DEF HandlerStep, FindActive, FindLastFinished, CreateSilent, Create, CreateProgress,
           FindProgress, SaveAnswer, FinishUnanswered, Advance, WalkCycle, WalkLost, WalkEnd,
           WalkOn, WalkAsk, InLoop, SaveProgress, RecordMessage, EnqueueReplies, Rejected,
           Exists, Sound, HandlerInv, Knows
  <2>2. UNCHANGED Elsewhere
    BY DEF HandlerStep, FindActive, FindLastFinished, FirstContact, CreateSilent, Create,
           CreateConversation, CreateProgress, FindProgress, SaveAnswer, FinishUnanswered,
           Advance, WalkCycle, WalkLost, WalkEnd, WalkOn, WalkAsk, SaveProgress,
           RecordMessage, EnqueueReplies, Rejected, GoOn, Leave
  <2> QED  BY <2>1, <2>2 DEF Elsewhere, ghosts
<1>2. CASE overlap
  BY <1>1, <1>2 DEF OneInv
<1>3. CASE ~overlap
  <2>1. act = NoAct
    BY <1>1, <1>3 DEF OneInv, Idle
  <2>2. act' = NoAct /\ act'.kind # "toggle"
    BY <1>1, <2>1 DEF NoAct
  <2>3. ASSUME Alive, Quieter PROVE OneInv'
    BY <1>1, <2>2, <2>3, OneFrame
  <2>4. ASSUME NEW step \in At \ {"findLast", "createSilent", "create"}, NEW M,
               GoOn(p, step, M)
        PROVE  Quieter
    BY <2>4 DEF GoOn, Creating, Sound, TypeOK
  <2>5. ASSUME Leave(p) PROVE Quieter
    BY <2>5 DEF Leave, Creating, Sound, TypeOK
  <2>6. CASE FindActive(p)
    <3>1. status' = status
      BY <2>6 DEF FindActive, conversations
    <3>2. CASE Active = {}
      BY <1>1, <2>2, <3>1, <3>2 DEF OneInv, Active
    <3>3. CASE Active # {}
      <4>1. Quieter
        BY <2>4, <2>6, <3>3 DEF FindActive, At
      <4> QED  BY <2>3, <3>1, <4>1
    <3> QED  BY <3>2, <3>3
  <2>7. CASE FindLastFinished(p)
    <3>1. status' = status /\ Creating(p)
      BY <2>7 DEF FindLastFinished, conversations, Creating
    <3>2. \A q \in Process : q # p => at'[q] = at[q]
      BY <2>7 DEF FindLastFinished, FirstContact, GoOn, Leave, Sound, TypeOK
    <3>3. Quieter
      BY <3>1, <3>2 DEF Creating
    <3> QED  BY <2>3, <3>1, <3>3
  <2>8. CASE CreateSilent(p) \/ Create(p)
    <3>1. Active = {}
      BY <1>3, <2>8 DEF CreateSilent, Create, OneInv
    <3>2. \A c \in ConvId : status'[c] = "ACTIVE" => c = lastConv + 1
      BY <2>8, <3>1 DEF CreateSilent, Create, CreateConversation, Active, Sound, TypeOK
    <3>3. \A q \in Process : ~Creating(q)'
      <4> TAKE q \in Process
      <4>1. CASE q = p
        BY <2>8, <4>1 DEF CreateSilent, Create, CreateConversation, GoOn, Creating, Sound, TypeOK
      <4>2. CASE q # p
        <5>1. at[q] = "idle"
          BY <1>1, <4>2, OneHandler
        <5> QED
          BY <2>8, <4>2, <5>1 DEF CreateSilent, Create, CreateConversation, GoOn, Creating, Sound, TypeOK
      <4> QED  BY <4>1, <4>2
    <3> QED  BY <2>2, <3>2, <3>3 DEF OneInv, Active, Creating
  <2>9. CASE CreateProgress(p) \/ FindProgress(p) \/ SaveAnswer(p) \/ Rejected(p)
             \/ RecordMessage(p) \/ EnqueueReplies(p)
    <3>1. Quieter
      BY <2>4, <2>5, <2>9 DEF CreateProgress, FindProgress, SaveAnswer, Rejected,
                              RecordMessage, EnqueueReplies, At
    <3>2. status' = status
      BY <2>9 DEF CreateProgress, FindProgress, SaveAnswer, Rejected, RecordMessage,
                  EnqueueReplies, conversations
    <3> QED  BY <2>3, <3>1, <3>2
  <2>10. CASE FinishUnanswered(p) \/ WalkCycle(p) \/ WalkLost(p) \/ WalkEnd(p)
    <3>1. Quieter
      BY <2>4, <2>10 DEF FinishUnanswered, WalkCycle, WalkLost, WalkEnd, At
    <3>2. WriteFinished(p)
      BY <2>10 DEF FinishUnanswered, WalkCycle, WalkLost, WalkEnd
    <3>3. Alive
      BY <3>2 DEF WriteFinished, Sound, TypeOK
    <3> QED  BY <2>3, <3>1, <3>3
  <2>11. CASE Advance(p) \/ WalkOn(p) \/ WalkAsk(p) \/ SaveProgress(p)
    <3>1. Quieter
      BY <2>4, <2>11 DEF Advance, WalkOn, WalkAsk, SaveProgress, At
    <3>2. status' = status
      BY <2>11 DEF Advance, WalkOn, WalkAsk, SaveProgress, WriteProgress, conversations
    <3> QED  BY <2>3, <3>1, <3>2
  <2> QED
    BY <2>6, <2>7, <2>8, <2>9, <2>10, <2>11 DEF HandlerStep
<1> QED  BY <1>2, <1>3

\* Once a request has overlapped a handler, it has.
LEMMA OverlapStays ==
  ASSUME Sound, NEW i, Instance = {i}, [Next]_vars, overlap
  PROVE  overlap'
<1>1. ASSUME NEW p \in Process, HandlerStep(p) PROVE overlap'
  <2>1. UNCHANGED Elsewhere
    BY <1>1 DEF HandlerStep, FindActive, FindLastFinished, FirstContact, CreateSilent, Create,
           CreateConversation, CreateProgress, FindProgress, SaveAnswer, FinishUnanswered,
           Advance, WalkCycle, WalkLost, WalkEnd, WalkOn, WalkAsk, SaveProgress,
           RecordMessage, EnqueueReplies, Rejected, GoOn, Leave
  <2> QED  BY <2>1 DEF Elsewhere, ghosts
<1> QED
  BY <1>1 DEF Next, vars, ghosts, Publish, Redeliver, Ignore, Load, Fail, Crash, ToggleRead,
              StageRead, Request, ToggleWrite, StageWrite, WriteRejected, Delete, EditFlow,
              HourPasses, Quiet

\* The other steps: a message is taken only when no handler runs, an operator's
\* request that comes between two handlers writes back what it read.
LEMMA OneStep ==
  ASSUME Sound, OneInv, NEW i, Instance = {i}, [Next]_vars
  PROVE  OneInv'
<1>1. CASE overlap
  BY <1>1, OverlapStays DEF OneInv
<1>2. CASE ~overlap
  <2>1. /\ \A c, d \in Active : c = d
        /\ \A p \in Process : Creating(p) => Active = {}
        /\ act # NoAct => Idle
        /\ act.kind = "toggle" => status[act.conv] \in {act.status, "ABSENT"}
    BY <1>2 DEF OneInv, Creating
  <2>2. ASSUME UNCHANGED <<overlap, act, status, at>> PROVE OneInv'
    BY <2>1, <2>2, OneFrame DEF Creating, Idle
  <2>3. ASSUME NEW m \in Msg, NEW k \in 0 .. MaxOption, Publish(m, k) PROVE OneInv'
    BY <2>2, <2>3 DEF Publish, conversations, ghosts
  <2>4. ASSUME NEW j \in Instance, NEW m \in Msg, Redeliver(j, m) \/ Ignore(j, m)
        PROVE  OneInv'
    BY <2>2, <2>4 DEF Redeliver, Ignore, conversations, ghosts
  <2>5. ASSUME NEW j \in Instance, NEW m \in Msg, Load(j, m) PROVE OneInv'
    <3>1. CASE act # NoAct
      BY <2>5, <3>1 DEF Load, OneInv
    <3>2. CASE act = NoAct
      <4>1. overlap' = overlap /\ act' = act /\ status' = status /\ act.kind # "toggle"
        BY <2>5, <1>2, <3>2 DEF Load, conversations, NoAct, Sound, TypeOK
      <4>2. \A p \in Process : Creating(p)' => Creating(p)
        BY <2>5 DEF Load, Creating, Sound, TypeOK, Process
      <4> QED  BY <3>2, <4>1, <4>2, OneFrame
    <3> QED  BY <3>1, <3>2
  <2>6. ASSUME NEW p \in Process, Fail(p) PROVE OneInv'
    <3>1. at' = [at EXCEPT ![p] = "idle"] /\ UNCHANGED <<overlap, act, status>>
      BY <2>6 DEF Fail, conversations, ghosts
    <3>2. (\A q \in Process : Creating(q)' => Creating(q)) /\ (Idle => Idle')
      BY <3>1 DEF Creating, Idle, Sound, TypeOK
    <3> QED  BY <2>1, <3>1, <3>2, OneFrame
  <2>7. ASSUME NEW j \in Instance, Crash(j) PROVE OneInv'
    <3>1. /\ at' = [p \in Process |-> IF p[1] = j THEN "idle" ELSE at[p]]
          /\ UNCHANGED <<overlap, act, status>>
      BY <2>7 DEF Crash, conversations, ghosts
    <3>2. (\A q \in Process : Creating(q)' => Creating(q)) /\ (Idle => Idle')
      BY <3>1 DEF Creating, Idle
    <3> QED  BY <2>1, <3>1, <3>2, OneFrame
  <2>8. ASSUME NEW c \in ConvId, NEW on \in BOOLEAN, ToggleRead(c, on) PROVE OneInv'
    <3>1. overlap' = (overlap \/ ~Idle) /\ UNCHANGED <<at, status>>
      BY <2>8 DEF ToggleRead, Request, Untouched, handlers, conversations
    <3>2. act'.status = status[act'.conv]
      BY <2>8 DEF ToggleRead
    <3>3. CASE ~Idle
      BY <3>1, <3>3 DEF OneInv
    <3>4. CASE Idle
      <4>1. overlap' = overlap /\ Idle'
        BY <1>2, <3>1, <3>4 DEF Idle, Sound, TypeOK
      <4> QED  BY <3>1, <3>2, <4>1, OneFrame DEF Creating
    <3> QED  BY <3>3, <3>4
  <2>9. ASSUME NEW c \in ConvId, NEW st \in Stage, StageRead(c, st) PROVE OneInv'
    <3>1. overlap' = (overlap \/ ~Idle) /\ UNCHANGED <<at, status>> /\ act'.kind = "stage"
      BY <2>9 DEF StageRead, Request, Untouched, handlers, conversations
    <3>3. CASE ~Idle
      BY <3>1, <3>3 DEF OneInv
    <3>4. CASE Idle
      <4>1. overlap' = overlap /\ Idle'
        BY <1>2, <3>1, <3>4 DEF Idle, Sound, TypeOK
      <4> QED  BY <3>1, <4>1, OneFrame DEF Creating
    <3> QED  BY <3>3, <3>4
  <2>10. ASSUME ToggleWrite PROVE OneInv'
    <3>1. status[act.conv] = act.status /\ status' = status
      BY <2>1, <2>10 DEF ToggleWrite, Sound, TypeOK
    <3>2. act' = NoAct /\ UNCHANGED <<overlap, at>> /\ act'.kind # "toggle"
      BY <2>10 DEF ToggleWrite, Untouched, handlers, NoAct
    <3> QED  BY <3>1, <3>2, OneFrame DEF Creating
  <2>11. ASSUME StageWrite \/ WriteRejected PROVE OneInv'
    <3>1. act' = NoAct /\ UNCHANGED <<overlap, at, status>> /\ act'.kind # "toggle"
      BY <2>11 DEF StageWrite, WriteRejected, Untouched, handlers, NoAct, conversations, ghosts
    <3> QED  BY <3>1, OneFrame DEF Creating
  <2>12. ASSUME Delete PROVE OneInv'
    <3>1. /\ overlap' = (overlap \/ ~Idle) /\ UNCHANGED <<at, act>>
          /\ status' = [c \in ConvId |-> "ABSENT"]
      BY <2>12 DEF Delete, handlers
    <3>2. Active' = {}
      BY <3>1 DEF Active
    <3>3. act.kind = "toggle" => act.conv \in ConvId
      BY DEF Sound, TypeOK, Act, NoAct
    <3> QED  BY <1>2, <2>1, <3>1, <3>2, <3>3 DEF OneInv, Idle
  <2>13. ASSUME NEW f \in Flows \cup {NoFlow}, EditFlow(f) PROVE OneInv'
    BY <2>2, <2>13 DEF EditFlow, conversations, ghosts, handlers
  <2>14. ASSUME HourPasses PROVE OneInv'
    BY <2>2, <2>14 DEF HourPasses, conversations, ghosts
  <2>15. ASSUME UNCHANGED vars PROVE OneInv'
    BY <2>2, <2>15 DEF vars, conversations, ghosts, handlers
  <2>16. ASSUME NEW p \in Process, HandlerStep(p) PROVE OneInv'
    BY <2>16, OneHandlerStep
  <2> QED
    BY <2>3, <2>4, <2>5, <2>6, <2>7, <2>8, <2>9, <2>10, <2>11, <2>12, <2>13, <2>14, <2>15,
       <2>16 DEF Next, Quiet
<1> QED  BY <1>1, <1>2

\* With one process (legacy mode, or one API in proxy mode), a lead never has two
\* active conversations, whatever crashes, fails or is delivered again, unless an
\* operator's request came in the middle of a handler.
THEOREM OneConversation ==
  ASSUME NEW i, Instance = {i}
  PROVE  Spec => []OneActiveConversation
<1>1. Init => OneInv
  BY DEF Init, OneInv, Active, NoAct
<1>2. OneInv => OneActiveConversation
  <2>1. ASSUME \A c, d \in Active : c = d PROVE Cardinality(Active) <= 1
    <3>1. CASE Active = {}
      BY <3>1, FS_EmptySet
    <3>2. CASE Active # {}
      <4>1. PICK c : Active = {c}
        BY <2>1, <3>2
      <4> QED  BY <4>1, FS_Singleton
    <3> QED  BY <3>1, <3>2
  <2> QED  BY <2>1 DEF OneInv, OneActiveConversation
<1>3. Sound /\ OneInv /\ [Next]_vars => OneInv'
  BY OneStep
<1> QED  BY <1>1, <1>2, <1>3, EngineSound, PTL DEF Spec

-----------------------------------------------------------------------------
(* A paused lead gets no reply *)

\* A step of one handler: the others are where they were, no request is touched, and
\* the handler leaves or remembers what it knew of the pause.
LEMMA HandlerStepFrame ==
  ASSUME Sound, NEW p \in Process, HandlerStep(p)
  PROVE  /\ at[p] # "idle"
         /\ UNCHANGED <<overlap, act, paused, again, faults, text, inbox>>
         /\ \A q \in Process : q # p => at'[q] = at[q] /\ local'[q] = local[q]
         /\ at'[p] = "idle" \/ local'[p].paused = local[p].paused
<1> DEFINE L == local[p]
           Framed == /\ UNCHANGED <<overlap, act, paused, again, faults, text, inbox>>
                     /\ \A q \in Process : q # p => at'[q] = at[q] /\ local'[q] = local[q]
                     /\ at'[p] = "idle" \/ local'[p].paused = L.paused
<1>1. L \in Entities
  BY DEF Sound, TypeOK
<1>2. ASSUME NEW step, NEW M, M.paused = L.paused, GoOn(p, step, M) PROVE Framed
  BY <1>2 DEF GoOn, Elsewhere, ghosts, Sound, TypeOK
<1>3. ASSUME Leave(p) PROVE Framed
  BY <1>3 DEF Leave, Elsewhere, ghosts, Sound, TypeOK
<1>4. AtNode(L) \in [plan : {L.plan}, conv : {L.conv}, node : {L.node}, waiting : {L.waiting},
                     stage : {AtNode(L).stage}, visited : {AtNode(L).visited},
                     out : {AtNode(L).out}, from : {L.from}, paused : {L.paused}]
  BY <1>1 DEF AtNode, Entities
<1>5. at[p] # "idle"
  BY DEF HandlerStep, FindActive, FindLastFinished, CreateSilent, Create, CreateProgress,
         FindProgress, SaveAnswer, FinishUnanswered, Advance, WalkCycle, WalkLost, WalkEnd,
         WalkOn, WalkAsk, InLoop, SaveProgress, RecordMessage, EnqueueReplies, Rejected,
         Exists, Sound, HandlerInv, Knows
<1>6. Framed
  <2>1. CASE FindActive(p) \/ FindLastFinished(p)
    BY <1>1, <1>2, <1>3, <2>1 DEF FindActive, FindLastFinished, FirstContact, Entities
  <2>2. CASE CreateSilent(p) \/ Create(p)
    BY <1>1, <1>2, <2>2 DEF CreateSilent, Create, CreateConversation, Entities
  <2>3. CASE CreateProgress(p) \/ FindProgress(p) \/ SaveAnswer(p)
    BY <1>1, <1>2, <2>3 DEF CreateProgress, FindProgress, SaveAnswer, Entities
  <2>4. CASE FinishUnanswered(p) \/ Advance(p) \/ WalkCycle(p) \/ WalkLost(p) \/ SaveProgress(p)
    BY <1>2, <2>4 DEF FinishUnanswered, Advance, WalkCycle, WalkLost, SaveProgress
  <2>5. CASE WalkEnd(p)
    <3>1. AtNode(L).paused = L.paused
      BY <1>4
    <3>2. PICK step : GoOn(p, step, AtNode(L))
      BY <2>5 DEF WalkEnd
    <3> QED  BY <1>2, <3>1, <3>2
  <2>6. CASE WalkOn(p)
    <3> DEFINE M == [AtNode(L) EXCEPT !.node = L.plan.next[L.node], !.waiting = FALSE]
    <3>1. M.paused = L.paused
      BY <1>4
    <3>2. GoOn(p, "walk", M)
      BY <2>6 DEF WalkOn
    <3> QED  BY <1>2, <3>1, <3>2
  <2>7. CASE WalkAsk(p)
    <3> DEFINE M == [AtNode(L) EXCEPT !.waiting = TRUE]
    <3>1. M.paused = L.paused
      BY <1>4
    <3>2. GoOn(p, "record", M)
      BY <2>7 DEF WalkAsk
    <3> QED  BY <1>2, <3>1, <3>2
  <2>8. CASE RecordMessage(p) \/ EnqueueReplies(p) \/ Rejected(p)
    BY <1>2, <1>3, <2>8 DEF RecordMessage, EnqueueReplies, Rejected
  <2> QED
    BY <2>1, <2>2, <2>3, <2>4, <2>5, <2>6, <2>7, <2>8 DEF HandlerStep
<1> QED  BY <1>5, <1>6

\* A step that leaves the conversations and the pause alone.
LEMMA PauseFrame ==
  ASSUME PauseInv, UNCHANGED <<status, auto, touched, paused, overlap>>,
         act' = act \/ act'.kind # "toggle",
         \A p \in Process : at'[p] = "idle" \/ (at'[p] = at[p] /\ local'[p] = local[p])
  PROVE  PauseInv'
<1>1. Active' = Active /\ Finished' = Finished /\ \A c : LastFinished(c)' = LastFinished(c)
  BY DEF Active, Finished, LastFinished
<1> QED  BY <1>1 DEF PauseInv, SilentRows, SilentSteps

\* A handler of a paused lead finds a conversation switched off, creates one that is
\* switched off, and records the message.
LEMMA PauseHandlerStep ==
  ASSUME Sound, OneInv, PauseInv, NEW i, Instance = {i}, NEW p \in Process, HandlerStep(p)
  PROVE  PauseInv'
<1> DEFINE L == local[p]
<1>1. /\ at[p] # "idle" /\ UNCHANGED <<overlap, act, paused>> /\ L \in Entities
      /\ \A q \in Process : q # p => at'[q] = at[q] /\ local'[q] = local[q]
      /\ at'[p] = "idle" \/ local'[p].paused = L.paused
  BY HandlerStepFrame DEF Sound, TypeOK
<1>2. CASE overlap
  BY <1>1, <1>2 DEF PauseInv, SilentRows
<1>3. CASE ~overlap
  <2>1. act = NoAct /\ act' = NoAct /\ act'.kind # "toggle"
    BY <1>1, <1>3 DEF OneInv, Idle, NoAct
  <2>2. \A q \in Process : q # p => at'[q] = "idle"
    BY <1>1, OneHandler
  <2>3. \A q \in Process : at'[q] # "idle" => local'[q].paused = paused'
    BY <1>1, <1>3, <2>2 DEF PauseInv, SilentRows
  <2>4. CASE ~paused
    BY <1>1, <2>1, <2>3, <2>4 DEF PauseInv, SilentRows
  <2>5. CASE paused
    <3>1. /\ at[p] \in SilentSteps /\ L.out = <<>> /\ \A c \in Active : ~auto[c]
          /\ Active = {} => Finished # {} /\ \A c \in Finished : LastFinished(c) => ~auto[c]
      BY <1>1, <1>3, <2>5 DEF PauseInv, SilentRows
    <3>2. ASSUME SilentRows', at'[p] \in SilentSteps, at'[p] = "idle" \/ local'[p].out = <<>>
          PROVE  PauseInv'
      BY <1>1, <2>1, <2>2, <2>3, <3>2 DEF PauseInv, SilentRows, SilentSteps
    <3>3. ASSUME UNCHANGED <<status, auto, touched>> PROVE SilentRows'
      <4>1. Active' = Active /\ Finished' = Finished /\ \A c : LastFinished(c)' = LastFinished(c)
        BY <3>3 DEF Active, Finished, LastFinished
      <4> QED  BY <3>1, <3>3, <4>1 DEF SilentRows
    <3>4. ASSUME NEW step \in SilentSteps, NEW M, GoOn(p, step, M), M.out = <<>>
          PROVE  at'[p] \in SilentSteps /\ local'[p].out = <<>>
      BY <3>4 DEF GoOn, Sound, TypeOK
    <3>5. ASSUME Leave(p) PROVE at'[p] \in SilentSteps /\ at'[p] = "idle"
      BY <3>5 DEF Leave, SilentSteps, Sound, TypeOK
    <3>6. CASE FindActive(p)
      <4>1. SilentRows'
        BY <3>3, <3>6 DEF FindActive, conversations
      <4>2. at'[p] \in SilentSteps /\ local'[p].out = <<>>
        BY <1>1, <3>1, <3>4, <3>6 DEF FindActive, SilentSteps, Entities
      <4> QED  BY <3>2, <4>1, <4>2
    <3>7. CASE FindLastFinished(p)
      <4>1. SilentRows'
        BY <3>3, <3>7 DEF FindLastFinished, conversations
      <4>2. Active = {}
        BY <1>3, <3>7 DEF OneInv, FindLastFinished
      <4>3. \/ \E c \in Finished : GoOn(p, "record", [L EXCEPT !.conv = c])
            \/ GoOn(p, "createSilent", L)
        BY <3>1, <3>7, <4>2 DEF FindLastFinished
      <4>4. at'[p] \in SilentSteps /\ local'[p].out = <<>>
        BY <1>1, <3>1, <3>4, <4>3 DEF SilentSteps, Entities
      <4> QED  BY <3>2, <4>1, <4>4
    <3>8. CASE CreateSilent(p)
      <4> DEFINE c == lastConv + 1
      <4>1. /\ c \in ConvId /\ Active = {}
            /\ status' = [status EXCEPT ![c] = "ACTIVE"] /\ auto' = [auto EXCEPT ![c] = FALSE]
            /\ GoOn(p, "record", [L EXCEPT !.conv = c])
        BY <1>3, <3>8, EngineAssumption DEF CreateSilent, CreateConversation, OneInv, ConvId, Sound, TypeOK
      <4>2. Active' = {c} /\ ~auto'[c]
        BY <4>1 DEF Active, Sound, TypeOK
      <4>3. at'[p] \in SilentSteps /\ local'[p].out = <<>>
        BY <1>1, <3>1, <3>4, <4>1 DEF SilentSteps, Entities
      <4> QED  BY <3>2, <4>2, <4>3 DEF SilentRows
    <3>9. CASE RecordMessage(p) \/ Rejected(p)
      <4>1. SilentRows'
        BY <3>3, <3>9 DEF RecordMessage, Rejected, conversations
      <4> QED  BY <3>1, <3>2, <3>5, <3>9, <4>1 DEF RecordMessage, Rejected
    <3>10. at[p] \in SilentSteps =>
             ~(\/ Create(p) \/ CreateProgress(p) \/ FindProgress(p) \/ SaveAnswer(p)
               \/ FinishUnanswered(p) \/ Advance(p) \/ WalkCycle(p) \/ WalkLost(p)
               \/ WalkEnd(p) \/ WalkOn(p) \/ WalkAsk(p) \/ SaveProgress(p)
               \/ EnqueueReplies(p))
      BY DEF SilentSteps, Create, CreateProgress, FindProgress, SaveAnswer, FinishUnanswered,
             Advance, WalkCycle, WalkLost, WalkEnd, WalkOn, WalkAsk, InLoop, SaveProgress,
             EnqueueReplies
    <3> QED  BY <3>1, <3>6, <3>7, <3>8, <3>9, <3>10 DEF HandlerStep
  <2> QED  BY <2>4, <2>5
<1> QED  BY <1>2, <1>3

\* The operator's last word is written in the row that the engine finds next: the
\* active conversation, or else the one that is now the last to have been updated.
LEMMA PauseToggle ==
  ASSUME Sound, OneInv, PauseInv, NEW i, Instance = {i}, ToggleWrite
  PROVE  PauseInv'
<1> DEFINE c == act.conv
<1>1. overlap' = overlap /\ act' = NoAct /\ act'.kind # "toggle" /\ at' = at
  BY DEF ToggleWrite, Untouched, handlers, NoAct
<1>2. CASE overlap
  BY <1>1, <1>2 DEF PauseInv, SilentRows
<1>3. CASE ~overlap
  <2>1. /\ \A p \in Process : at'[p] = "idle"
        /\ c \in ConvId /\ act.kind = "toggle" /\ status[c] # "ABSENT"
        /\ act.status = "ACTIVE" \/ Active = {}
        /\ \A a, b \in Active : a = b
    <3>1. act # NoAct
      BY DEF ToggleWrite, NoAct
    <3>2. c \in ConvId
      BY DEF ToggleWrite, Sound, TypeOK, Act, NoAct
    <3> QED  BY <1>1, <1>3, <3>1, <3>2 DEF OneInv, PauseInv, SilentRows, Idle, ToggleWrite
  <2>2. status[c] = act.status /\ status' = status
    BY <1>3, <2>1 DEF ToggleWrite, OneInv, Sound, TypeOK
  <2>3. Active' = Active /\ Finished' = Finished
    BY <2>2 DEF Active, Finished
  <2>4. CASE ~paused'
    BY <1>1, <2>1, <2>4 DEF PauseInv, SilentRows
  <2>5. CASE paused'
    <3>1. ~auto'[c]
      BY <2>1, <2>5 DEF ToggleWrite, Sound, TypeOK
    <3>2. CASE Active # {}
      <4>1. \A d \in Active : d = c
        BY <2>1, <2>2, <3>2 DEF Active
      <4> QED  BY <1>1, <2>1, <2>3, <3>1, <3>2, <4>1 DEF PauseInv, SilentRows, SilentSteps
    <3>3. CASE Active = {}
      <4>1. c \in Finished
        BY <2>1, <3>3 DEF Active, Finished, Sound, TypeOK, Status
      <4>2. ASSUME NEW d \in Finished, d # c PROVE ~LastFinished(d)'
        <5>1. touched[d].stamp <= stamp /\ touched[d].stamp \in Nat /\ stamp \in Nat
          BY DEF Finished, Sound, TypeOK
        <5>2. touched'[c].stamp = stamp + 1 /\ touched'[d] = touched[d]
          BY <2>1, <4>2 DEF ToggleWrite, Stamp, Finished, Sound, TypeOK
        <5> QED  BY <2>3, <4>1, <5>1, <5>2 DEF LastFinished
      <4> QED  BY <1>1, <2>1, <2>3, <3>1, <3>3, <4>1, <4>2 DEF PauseInv, SilentRows, SilentSteps
    <3> QED  BY <3>2, <3>3
  <2> QED  BY <2>4, <2>5
<1> QED  BY <1>2, <1>3

\* The other steps.
LEMMA PauseStep ==
  ASSUME Sound, OneInv, PauseInv, NEW i, Instance = {i}, [Next]_vars
  PROVE  PauseInv'
<1>1. CASE overlap
  BY <1>1, OverlapStays DEF PauseInv, SilentRows
<1>2. CASE ~overlap
  <2>1. act # NoAct => Idle
    BY <1>2 DEF OneInv
  <2>2. ASSUME NEW m \in Msg, NEW k \in 0 .. MaxOption, Publish(m, k) PROVE PauseInv'
    BY <2>2, PauseFrame DEF Publish, conversations, ghosts
  <2>3. ASSUME NEW j \in Instance, NEW m \in Msg, Redeliver(j, m) \/ Ignore(j, m)
        PROVE  PauseInv'
    BY <2>3, PauseFrame DEF Redeliver, Ignore, conversations, ghosts
  <2>4. ASSUME NEW j \in Instance, NEW m \in Msg, Load(j, m) PROVE PauseInv'
    <3> DEFINE p == <<j, m>>
    <3>1. CASE act # NoAct
      BY <2>4, <3>1 DEF Load, PauseInv
    <3>2. CASE act = NoAct
      <4>1. overlap' = overlap /\ UNCHANGED <<act, status, auto, touched, paused>>
        BY <2>4, <1>2, <3>2 DEF Load, conversations, Sound, TypeOK
      <4>2. Active' = Active /\ Finished' = Finished /\ \A c : LastFinished(c)' = LastFinished(c)
        BY <4>1 DEF Active, Finished, LastFinished
      <4>3. at'[p] = "findActive" /\ local'[p].out = <<>> /\ local'[p].paused = paused
        BY <2>4 DEF Load, Blank, Sound, TypeOK, Process
      <4>4. \A q \in Process : q # p => at'[q] = at[q] /\ local'[q] = local[q]
        BY <2>4 DEF Load, Sound, TypeOK
      <4> HIDE DEF p
      <4> QED  BY <1>2, <4>1, <4>2, <4>3, <4>4 DEF PauseInv, SilentRows, SilentSteps
    <3> QED  BY <3>1, <3>2
  <2>5. ASSUME NEW p \in Process, Fail(p) PROVE PauseInv'
    <3>1. \A q \in Process : at'[q] = "idle" \/ (at'[q] = at[q] /\ local'[q] = local[q])
      BY <2>5 DEF Fail, Sound, TypeOK
    <3> QED  BY <2>5, <3>1, PauseFrame DEF Fail, conversations, ghosts
  <2>6. ASSUME NEW j \in Instance, Crash(j) PROVE PauseInv'
    <3>1. \A q \in Process : at'[q] = "idle" \/ (at'[q] = at[q] /\ local'[q] = local[q])
      BY <2>6 DEF Crash
    <3> QED  BY <2>6, <3>1, PauseFrame DEF Crash, conversations, ghosts
  <2>7. ASSUME NEW c \in ConvId, NEW on \in BOOLEAN, ToggleRead(c, on) PROVE PauseInv'
    <3>1. /\ overlap' = (overlap \/ ~Idle)
          /\ UNCHANGED <<at, local, status, auto, touched, paused>>
      BY <2>7 DEF ToggleRead, Request, Untouched, handlers, conversations
    <3>2. act'.status = "ACTIVE" \/ Active = {}
      BY <2>7 DEF ToggleRead, Active
    <3>3. Active' = Active /\ Finished' = Finished /\ \A d : LastFinished(d)' = LastFinished(d)
      BY <3>1 DEF Active, Finished, LastFinished
    <3> QED  BY <1>2, <3>1, <3>2, <3>3 DEF PauseInv, SilentRows, SilentSteps
  <2>8. ASSUME NEW c \in ConvId, NEW st \in Stage, StageRead(c, st) PROVE PauseInv'
    <3>1. /\ overlap' = (overlap \/ ~Idle) /\ act'.kind # "toggle"
          /\ UNCHANGED <<at, local, status, auto, touched, paused>>
      BY <2>8 DEF StageRead, Request, Untouched, handlers, conversations
    <3>2. CASE ~Idle
      BY <3>1, <3>2 DEF PauseInv, SilentRows
    <3>3. CASE Idle
      <4>1. overlap' = overlap
        BY <3>1, <3>3 DEF Sound, TypeOK
      <4> QED  BY <3>1, <4>1, PauseFrame
    <3> QED  BY <3>2, <3>3
  <2>9. ASSUME ToggleWrite PROVE PauseInv'
    BY <2>9, PauseToggle
  <2>10. ASSUME StageWrite \/ WriteRejected PROVE PauseInv'
    <3>1. act'.kind # "toggle" /\ UNCHANGED <<at, local, status, auto, touched, paused, overlap>>
      BY <2>10 DEF StageWrite, WriteRejected, Untouched, handlers, NoAct, conversations, ghosts
    <3> QED  BY <3>1, PauseFrame
  <2>11. ASSUME Delete PROVE PauseInv'
    <3>1. /\ overlap' = (overlap \/ ~Idle) /\ at' = at /\ paused' = FALSE
          /\ status' = [c \in ConvId |-> "ABSENT"]
      BY <2>11 DEF Delete, handlers
    <3>2. Active' = {}
      BY <3>1 DEF Active
    <3> QED  BY <3>1, <3>2 DEF PauseInv, SilentRows, Idle
  <2>12. ASSUME NEW f \in Flows \cup {NoFlow}, EditFlow(f) PROVE PauseInv'
    BY <2>12, PauseFrame DEF EditFlow, conversations, ghosts, handlers
  <2>13. ASSUME HourPasses PROVE PauseInv'
    BY <2>13, PauseFrame DEF HourPasses, conversations, ghosts
  <2>14. ASSUME UNCHANGED vars PROVE PauseInv'
    BY <2>14, PauseFrame DEF vars, conversations, ghosts, handlers
  <2>15. ASSUME NEW p \in Process, HandlerStep(p) PROVE PauseInv'
    BY <2>15, PauseHandlerStep
  <2> QED
    BY <2>2, <2>3, <2>4, <2>5, <2>6, <2>7, <2>8, <2>9, <2>10, <2>11, <2>12, <2>13, <2>14,
       <2>15 DEF Next, Quiet
<1> QED  BY <1>1, <1>2

\* With one process, a message that comes after the operator's last word was "off" gets
\* no reply, in this conversation or in those created later, until the operator turns
\* the automation on or deletes the lead (unless a request overlapped a handler).
THEOREM PausedLeadsStaySilent ==
  ASSUME NEW i, Instance = {i}
  PROVE  Spec => []PausedStaysPaused
<1>1. Init => OneInv /\ PauseInv
  BY DEF Init, OneInv, PauseInv, SilentRows, Active, NoAct
<1>2. PauseInv => PausedStaysPaused
  BY DEF PauseInv, SilentRows, PausedStaysPaused, SilentSteps
<1>3. Sound /\ OneInv /\ PauseInv /\ [Next]_vars => OneInv' /\ PauseInv'
  BY OneStep, PauseStep
<1> QED  BY <1>1, <1>2, <1>3, EngineSound, PTL DEF Spec

=============================================================================
