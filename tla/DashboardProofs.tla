-------------------------- MODULE DashboardProofs --------------------------
(***************************************************************************)
(* Proofs about the dashboard, for any numbers of requests at once, of     *)
(* rows and of requests cut short.                                         *)
(*                                                                         *)
(* A request is followed by its name and by the statement it is at; what   *)
(* it knows there is said of that pair. The first half is about requests   *)
(* that overlap as they like (StrandInv), the second about requests that   *)
(* are answered one after the other (AloneInv): what the tables are, and   *)
(* what each statement of a request leaves for the next. The last part     *)
(* follows the deletion of a stage among both (KeptInv).                   *)
(***************************************************************************)
EXTENDS Dashboard, SequenceTheorems, FiniteSetTheorems, WellFoundedInduction, TLAPS

\* A request is a record of these columns.
Columns == {"op", "todo", "set", "f", "n", "k", "s", "to", "c", "m", "targets",
            "list", "owner", "row", "used", "leads", "nodes"}
Shaped(r) == r = [x \in Columns |-> r[x]]

Statement ==
  {"LoadFlow", "SaveFlow", "NoFlowYet", "CreateFlowRow", "LoadNode", "CreateNodeRow",
   "SaveNode", "DropOptions", "AddOptions", "ClearNodeArrows", "ClearOptionArrows",
   "ForgetStart", "ReadSource", "CopyFlow",
   "LoadKanban", "SaveKanban", "CreateKanbanRow", "CreateStageRow", "ReadMaxOrder",
   "LoadStage", "SaveStage", "ListStages", "SaveOrder", "ReadUsage", "LoadTarget",
   "MoveLeads", "MoveNodes", "MoveFillNodes", "FlagStage", "SaveLead",
   "LoadForm", "SaveForm", "FlagForm", "CreateFormRow", "LockDropped", "UpsertFields",
   "SaveResponse", "FlagResponse", "FindByLeadPhone"}

\* The statement a request is at, and what may follow it: y is the statement after x
\* in a request named op, or its end.
At(r) == IF r.todo = <<>> THEN "end" ELSE Head(r.todo)
EditOps ==
  {"UpdateFlow", "UpdatePhone", "SetStartNode", "ActivateFlow", "DeactivateFlow", "DeleteFlow"}
FillOps == {"FillForm", "FillOldLink"}

FlowFollows(op, x, y) ==
  \/ op \in EditOps /\ \/ x = "LoadFlow" /\ y = "SaveFlow"
                       \/ x = "SaveFlow" /\ y = "end"
  \/ op = "CreateFlow" /\ \/ x = "NoFlowYet" /\ y = "CreateFlowRow"
                          \/ x = "CreateFlowRow" /\ y = "end"
  \/ op = "DuplicateFlow" /\ \/ x = "LoadFlow" /\ y = "ReadSource"
                             \/ x = "ReadSource" /\ y = "CopyFlow"
                             \/ x = "CopyFlow" /\ y = "end"
  \/ op = "CreateNode" /\ \/ x = "LoadFlow" /\ y = "CreateNodeRow"
                          \/ x = "CreateNodeRow" /\ y \in {"AddOptions", "end"}
                          \/ x = "AddOptions" /\ y = "end"
  \/ op = "UpdateNode" /\ \/ x = "LoadNode" /\ y = "LoadFlow"
                          \/ x = "LoadFlow" /\ y = "SaveNode"
                          \/ x = "SaveNode" /\ y = "DropOptions"
                          \/ x = "DropOptions" /\ y \in {"AddOptions", "end"}
                          \/ x = "AddOptions" /\ y = "end"
  \/ op = "DeleteNode" /\ \/ x = "LoadNode" /\ y = "LoadFlow"
                          \/ x = "LoadFlow" /\ y = "DropOptions"
                          \/ x = "DropOptions" /\ y = "ClearNodeArrows"
                          \/ x = "ClearNodeArrows" /\ y = "ClearOptionArrows"
                          \/ x = "ClearOptionArrows" /\ y = "ForgetStart"
                          \/ x = "ForgetStart" /\ y = "SaveNode"
                          \/ x = "SaveNode" /\ y = "end"
KanbanFollows(op, x, y) ==
  \/ op = "CreateKanban" /\ x \in {"CreateKanbanRow", "CreateStageRow"}
                         /\ y \in {"CreateStageRow", "end"}
  \/ op \in {"UpdateKanban", "DeleteKanban"} /\ \/ x = "LoadKanban" /\ y = "SaveKanban"
                                                \/ x = "SaveKanban" /\ y = "end"
  \/ op = "CreateStage" /\ \/ x = "LoadKanban" /\ y = "ReadMaxOrder"
                           \/ x = "ReadMaxOrder" /\ y = "CreateStageRow"
                           \/ x = "CreateStageRow" /\ y = "end"
  \/ op = "UpdateStage" /\ \/ x = "LoadKanban" /\ y = "LoadStage"
                           \/ x = "LoadStage" /\ y = "SaveStage"
                           \/ x = "SaveStage" /\ y = "end"
  \/ op = "ReorderStages" /\ \/ x = "LoadKanban" /\ y = "ListStages"
                             \/ x = "ListStages" /\ y \in {"SaveOrder", "end"}
                             \/ x = "SaveOrder" /\ y \in {"SaveOrder", "end"}
  \/ op = "DeleteStage" /\ \/ x = "LoadKanban" /\ y = "LoadStage"
                           \/ x = "LoadStage" /\ y = "ReadUsage"
                           \/ x = "ReadUsage" /\ y = "LoadTarget"
                           \/ x = "LoadTarget" /\ y = "MoveLeads"
                           \/ x = "MoveLeads" /\ y = "MoveNodes"
                           \/ x = "MoveNodes" /\ y = "MoveFillNodes"
                           \/ x = "MoveFillNodes" /\ y = "FlagStage"
                           \/ x = "FlagStage" /\ y = "end"
  \/ op = "MoveLead" /\ \/ x = "LoadKanban" /\ y = "LoadStage"
                        \/ x = "LoadStage" /\ y = "SaveLead"
                        \/ x = "SaveLead" /\ y = "end"
  \/ op = "LeadReachesNode" /\ \/ x = "LoadNode" /\ y = "SaveLead"
                               \/ x = "SaveLead" /\ y = "end"
FormFollows(op, x, y) ==
  \/ op = "CreateForm" /\ x = "CreateFormRow" /\ y = "end"
  \/ op = "UpdateForm" /\ \/ x = "LoadForm" /\ y = "SaveForm"
                          \/ x = "SaveForm" /\ y = "LockDropped"
                          \/ x = "LockDropped" /\ y = "UpsertFields"
                          \/ x = "UpsertFields" /\ y = "end"
  \/ op = "SetFormActive" /\ \/ x = "LoadForm" /\ y = "SaveForm"
                             \/ x = "SaveForm" /\ y = "end"
  \/ op = "DeleteForm" /\ \/ x = "LoadForm" /\ y = "FlagForm"
                          \/ x = "FlagForm" /\ y = "end"
  \/ op = "DeleteResponse" /\ \/ x = "LoadForm" /\ y = "FlagResponse"
                              \/ x = "FlagResponse" /\ y = "end"
  \/ op \in FillOps /\ \/ x = "LoadForm" /\ y = "SaveResponse"
                       \/ x = "SaveResponse" /\ y \in {"FindByLeadPhone", "end"}
                       \/ x = "FindByLeadPhone" /\ y = "SaveLead"
                       \/ x = "SaveLead" /\ y = "end"
Follows(op, x, y) == FlowFollows(op, x, y) \/ KanbanFollows(op, x, y) \/ FormFollows(op, x, y)

Left(r) == 1 .. Len(r.todo)
Chained(r) ==
  /\ r.todo \in Seq(Statement)
  /\ \A i \in Left(r) : Follows(r.op, r.todo[i], IF i = Len(r.todo) THEN "end" ELSE r.todo[i + 1])

\* Rows of the tables of nodes and of stages.
NodeColumns == {"is", "flow", "next", "stage"}
NodeRow(row) == row = [x \in NodeColumns |-> row[x]]
StageRow(row) == row = [x \in {"is", "kanban", "order"} |-> row[x]]
LiveStage(row) == StageRow(row) /\ row.is = "live"

\* What requests know of the rows they loaded, whatever else is under way.
KnowsNode(r) ==
  r.op \in {"UpdateNode", "DeleteNode"} /\ At(r) # "end" =>
    /\ DOMAIN r.set \subseteq NodeColumns /\ r.n \in Node
    /\ At(r) # "LoadNode" => NodeRow(r.row)
KnowsStage(r) == r.op = "UpdateStage" /\ At(r) = "SaveStage" => LiveStage(r.row)
KnowsTarget(r) == r.op = "DeleteStage" /\ At(r) # "end" => r.to # r.s
KnowsList(r) ==
  r.op = "ReorderStages" =>
    /\ At(r) \in {"LoadKanban", "ListStages"} => r.list \in Seq(Stage)
    /\ At(r) = "SaveOrder" =>
         /\ DOMAIN r.list \subseteq Nat /\ IsFiniteSet(DOMAIN r.list)
         /\ Cardinality(DOMAIN r.list) = Len(r.todo)
         /\ \A i \in DOMAIN r.list : LiveStage(r.list[i].row)
Knows(r) == KnowsNode(r) /\ KnowsStage(r) /\ KnowsTarget(r) /\ KnowsList(r)

RequestInv(r) == Shaped(r) /\ Chained(r)
RequestsInv ==
  /\ request = [q \in Request |-> request[q]]
  /\ \A q \in Request : RequestInv(request[q]) /\ Knows(request[q])
DomainsInv ==
  /\ flow = [f \in Flow |-> flow[f]] /\ node = [n \in Node |-> node[n]]
  /\ option = [n \in Node |-> option[n]] /\ kanban = [k \in Kanban |-> kanban[k]]
  /\ stage = [s \in Stage |-> stage[s]] /\ form = [m \in Form |-> form[m]]
  /\ field = [x \in Field |-> field[x]] /\ response = [x \in Response |-> response[x]]
  /\ lead = [c \in Conv |-> lead[c]]
RowsInv ==
  /\ DomainsInv
  /\ \A s \in Stage : StageRow(stage[s])
  /\ \A n \in Node : NodeRow(node[n])
StrandInv == RequestsInv /\ RowsInv

-----------------------------------------------------------------------------
(* Lemmas *)

\* A request that is over has nothing left to do.
LEMMA EndedKnows ==
  ASSUME NEW r, NEW op
  PROVE  /\ RequestInv(Ended(r, op)) /\ Knows(Ended(r, op)) /\ At(Ended(r, op)) = "end"
         /\ Ended(r, op).op = op /\ Ended(r, op).m = r.m /\ Ended(r, op).targets = r.targets
         /\ Ended(r, op).todo = <<>>
         /\ RequestInv(Blank) /\ Knows(Blank) /\ Blank.todo = <<>> /\ Blank.op = "none"
<1>1. /\ Shaped(Ended(r, op)) /\ Ended(r, op).todo = <<>> /\ Ended(r, op).op = op
      /\ Ended(r, op).m = r.m /\ Ended(r, op).targets = r.targets
  BY DEF Ended, Blank, Shaped, Columns
<1>2. Shaped(Blank) /\ Blank.todo = <<>> /\ Blank.op = "none"
  BY DEF Blank, Shaped, Columns
<1>3. \A x : x.todo = <<>> => Chained(x) /\ At(x) = "end"
  BY DEF Left, Chained, At
<1>4. \A x : At(x) = "end" => Knows(x)
  BY DEF Knows, KnowsNode, KnowsStage, KnowsTarget, KnowsList
<1> QED  BY <1>1, <1>2, <1>3, <1>4 DEF RequestInv

\* What is left of a chain is one.
LEMMA ChainGoesOn ==
  ASSUME NEW r, RequestInv(r), r.todo # <<>>,
         NEW M, Shaped(M), M.op = r.op, M.todo = r.todo,
         NEW N, N = IF Len(M.todo) = 1 THEN Ended(M, M.op) ELSE [M EXCEPT !.todo = Tail(@)]
  PROVE  /\ RequestInv(N) /\ N.op = r.op /\ Follows(r.op, Head(r.todo), At(N))
         /\ N.m = M.m /\ N.targets = M.targets
         /\ At(N) # "end" => /\ \A x \in Columns \ {"todo"} : N[x] = M[x]
                             /\ N.todo = Tail(r.todo)
         /\ At(N) = "end" <=> Len(r.todo) = 1
<1> DEFINE t == r.todo
           u == Tail(t)
<1>1. /\ t \in Seq(Statement) /\ Len(t) \in Nat /\ Len(t) > 0 /\ Head(t) = t[1]
      /\ \A i \in 1 .. Len(t) : t[i] \in Statement
  <2>1. t \in Seq(Statement) /\ t # <<>>
    BY DEF RequestInv, Chained
  <2> HIDE DEF t
  <2> QED  BY <2>1
<1>2. /\ u \in Seq(Statement) /\ Len(u) = Len(t) - 1
      /\ \A i \in 1 .. Len(t) - 1 : u[i] = t[i + 1]
  <2>1. t \in Seq(Statement) /\ t # <<>>
    BY DEF RequestInv, Chained
  <2> HIDE DEF t
  <2>2. Len(t) \in Nat /\ Len(t) > 0
    BY <2>1
  <2>3. u \in Seq(Statement) /\ Len(u) = Len(t) - 1
    BY <2>1
  <2>4. \A i \in 1 .. Len(t) - 1 : u[i] = t[i + 1]
    BY <2>1, <2>2
  <2> QED  BY <2>3, <2>4
<1>3. \A i \in 1 .. Len(t) : Follows(r.op, t[i], IF i = Len(t) THEN "end" ELSE t[i + 1])
  BY DEF RequestInv, Chained, Left
<1>4. N = IF Len(t) = 1 THEN Ended(M, M.op) ELSE [M EXCEPT !.todo = u]
  OBVIOUS
<1>5. t = r.todo /\ M.todo = t /\ u = Tail(r.todo)
  OBVIOUS
<1> HIDE DEF t, u
<1>6. CASE Len(t) = 1
  <2>1. N = Ended(M, M.op)
    BY <1>4, <1>6
  <2>2. Follows(r.op, t[1], "end")
    BY <1>3, <1>6
  <2> QED  BY <1>1, <1>5, <1>6, <2>1, <2>2, EndedKnows
<1>7. CASE Len(t) # 1
  <2>1. N = [M EXCEPT !.todo = u]
    BY <1>4, <1>7
  <2>2. Shaped(N) /\ N.todo = u /\ N.op = r.op /\ \A x \in Columns \ {"todo"} : N[x] = M[x]
    BY <2>1 DEF Shaped, Columns
  <2>3. N.m = M.m /\ N.targets = M.targets
    BY <2>2 DEF Columns
  <2> DEFINE n == Len(t)
  <2>4. n \in Nat /\ n > 1 /\ Len(u) = n - 1
    BY <1>1, <1>2, <1>7
  <2>5. At(N) = t[2]
    <3>1. u # <<>> /\ Head(u) = u[1]
      BY <1>2, <2>4
    <3>2. u[1] = t[2]
      BY <1>2, <2>4
    <3> QED  BY <2>2, <3>1, <3>2 DEF At
  <2>6. Follows(r.op, t[1], At(N))
    BY <1>3, <2>4, <2>5
  <2>7. At(N) # "end"
    <3>1. t[2] \in Statement
      BY <1>1, <2>4
    <3> QED  BY <2>5, <3>1 DEF Statement
  <2>8. ASSUME NEW i \in Left(N)
        PROVE  Follows(N.op, N.todo[i], IF i = Len(N.todo) THEN "end" ELSE N.todo[i + 1])
    <3>0. Len(N.todo) = n - 1 /\ i \in 1 .. Len(N.todo)
      <4>1. i \in 1 .. Len(N.todo)
        BY <2>8 DEF Left
      <4> HIDE DEF n
      <4> QED  BY <2>2, <2>4, <4>1
    <3> HIDE DEF n
    <3>1. i \in 1 .. n - 1 /\ Len(N.todo) = n - 1 /\ i \in Nat
      BY <2>4, <3>0
    <3>2. i + 1 \in 1 .. n /\ (i # n - 1 => i + 1 \in 1 .. n - 1) /\ (i + 1 = n <=> i = n - 1)
      BY <2>4, <3>1
    <3>3. \A j \in 1 .. n - 1 : u[j] = t[j + 1]
      BY <1>2 DEF n
    <3>4. u[i] = t[i + 1] /\ (i # n - 1 => u[i + 1] = t[(i + 1) + 1])
      BY <3>1, <3>2, <3>3
    <3>5. Follows(r.op, t[i + 1], IF i + 1 = n THEN "end" ELSE t[(i + 1) + 1])
      BY <1>3, <3>2 DEF n
    <3> QED  BY <2>2, <3>1, <3>2, <3>4, <3>5
  <2>9. Chained(N)
    BY <1>2, <2>2, <2>8 DEF Chained
  <2> QED  BY <1>1, <1>5, <1>7, <2>2, <2>3, <2>6, <2>7, <2>9 DEF RequestInv
<1> QED  BY <1>6, <1>7

\* Request r was at statement x, became M by it and is N now.
After(r, x, M, N) ==
  /\ RequestInv(N) /\ N.op = r.op /\ Follows(r.op, x, At(N))
  /\ N.m = M.m /\ N.targets = M.targets
  /\ At(N) # "end" => /\ \A c \in Columns \ {"todo"} : N[c] = M[c]
                      /\ N.todo = Tail(r.todo)
  /\ At(N) = "end" <=> Len(r.todo) = 1
Alike(r, M) == Shaped(M) /\ M.op = r.op /\ M.todo = r.todo
OnlyOne(q) ==
  /\ request' = [request EXCEPT ![q] = request'[q]]
  /\ \A p \in Request : p # q => request'[p] = request[p]

\* A request that does a statement goes on to the next one.
LEMMA Continued ==
  ASSUME RequestsInv, NEW q \in Request, NEW x, Does(q, x),
         NEW M, Continue(q, M), Alike(request[q], M)
  PROVE  /\ OnlyOne(q) /\ After(request[q], x, M, request'[q])
         /\ At(request[q]) = x /\ x # "end" /\ x \in Statement
<1> DEFINE r == request[q]
           N == IF Len(M.todo) = 1 THEN Ended(M, M.op) ELSE [M EXCEPT !.todo = Tail(@)]
<1>1. RequestInv(r) /\ r.todo # <<>> /\ Head(r.todo) = x
  BY DEF RequestsInv, Does, InFlight
<1>2. request' = [request EXCEPT ![q] = N] /\ request'[q] = N
  BY DEF Continue, RequestsInv
<1>3. After(r, x, M, N)
  <2> HIDE DEF r
  <2>1. Shaped(M) /\ M.op = r.op /\ M.todo = r.todo
    BY DEF Alike, r
  <2> QED  BY <1>1, <2>1, ChainGoesOn DEF After
<1>4. x \in Statement
  BY <1>1 DEF RequestInv, Chained
<1>5. \A p \in Request : p # q => request'[p] = request[p]
  BY <1>2 DEF RequestsInv
<1> QED  BY <1>1, <1>2, <1>3, <1>4, <1>5 DEF OnlyOne, At, Statement

\* A request that is refused, or cut short, is over.
LEMMA Refused ==
  ASSUME RequestsInv, NEW q \in Request, NEW op,
         request' = [request EXCEPT ![q] = Ended(@, op)]
  PROVE  RequestsInv' /\ OnlyOne(q) /\ request'[q] = Ended(request[q], op)
<1>1. request'[q] = Ended(request[q], op) /\ \A p \in Request : p # q => request'[p] = request[p]
  BY DEF RequestsInv
<1> QED  BY <1>1, EndedKnows DEF RequestsInv, OnlyOne

\* What a request knows outlives the statements that have nothing to do with it.
Keeps(r, x, M) ==
  /\ r.op \in {"UpdateNode", "DeleteNode"} =>
       M.set = r.set /\ M.n = r.n /\ IF x = "LoadNode" THEN NodeRow(M.row) ELSE M.row = r.row
  /\ r.op = "UpdateStage" /\ x = "LoadStage" => LiveStage(M.row)
  /\ r.op = "DeleteStage" => M.to = r.to /\ M.s = r.s
  /\ r.op = "ReorderStages" => x \notin {"ListStages", "SaveOrder"} /\ M.list = r.list

\* What a request knows is known to what it goes on as.
LEMMA StillKnows ==
  ASSUME NEW r, NEW x, NEW M, NEW N, Knows(r), At(r) = x, x # "end", After(r, x, M, N),
         Keeps(r, x, M)
  PROVE  Knows(N)
<1>1. /\ N.op = r.op /\ Follows(r.op, x, At(N))
      /\ At(N) # "end" => N.set = M.set /\ N.n = M.n /\ N.row = M.row /\ N.to = M.to /\ N.s = M.s
                          /\ N.list = M.list
  BY DEF After, Columns
<1> DEFINE y == At(N)
<1> HIDE DEF y
<1>2. y = At(N)
  BY DEF y
<1>3. KnowsNode(N)
  <2>1. CASE r.op \in {"UpdateNode", "DeleteNode"}
    <3>1. y # "LoadNode"
      BY <1>1, <1>2, <2>1 DEF Follows, FlowFollows, KanbanFollows, FormFollows, EditOps, FillOps
    <3> QED  BY <1>1, <1>2, <2>1, <3>1 DEF Knows, KnowsNode, Keeps
  <2> QED  BY <1>1, <2>1 DEF KnowsNode
<1>4. KnowsStage(N)
  <2>1. r.op = "UpdateStage" /\ y = "SaveStage" => x = "LoadStage"
    BY <1>1, <1>2 DEF Follows, FlowFollows, KanbanFollows, FormFollows, EditOps, FillOps
  <2> QED  BY <1>1, <1>2, <2>1 DEF KnowsStage, Keeps
<1>5. KnowsTarget(N)
  BY <1>1 DEF Knows, KnowsTarget, Keeps
<1>6. KnowsList(N)
  <2>1. CASE r.op = "ReorderStages"
    <3>1. y \notin {"LoadKanban", "SaveOrder"} /\ (y = "ListStages" => x = "LoadKanban")
      BY <1>1, <1>2, <2>1
      DEF Keeps, Follows, FlowFollows, KanbanFollows, FormFollows, EditOps, FillOps
    <3> QED  BY <1>1, <1>2, <2>1, <3>1 DEF Knows, KnowsList, Keeps
  <2> QED  BY <1>1, <2>1 DEF KnowsList
<1> QED  BY <1>3, <1>4, <1>5, <1>6 DEF Knows

\* The requests after one of them did a statement.
LEMMA GoesOn ==
  ASSUME RequestsInv, NEW q \in Request, NEW x, Does(q, x),
         NEW M, Continue(q, M), Alike(request[q], M), Keeps(request[q], x, M)
  PROVE  RequestsInv'
<1>1. /\ OnlyOne(q) /\ After(request[q], x, M, request'[q])
      /\ At(request[q]) = x /\ x # "end"
  BY Continued
<1>2. Knows(request'[q])
  BY <1>1, StillKnows DEF RequestsInv
<1>3. RequestInv(request'[q])
  BY <1>1 DEF After
<1> QED  BY <1>1, <1>2, <1>3 DEF RequestsInv, OnlyOne

\* The same for a request that only ticks the statement off.
LEMMA TicksOff ==
  ASSUME RequestsInv, NEW q \in Request, NEW x, Does(q, x), Continue(q, request[q]),
         x \notin {"ListStages", "SaveOrder", "LoadStage", "LoadNode"}
  PROVE  RequestsInv'
<1>1. Alike(request[q], request[q])
  BY DEF Alike, RequestsInv, RequestInv
<1>2. Keeps(request[q], x, request[q])
  BY DEF Keeps
<1> QED  BY <1>1, <1>2, GoesOn

-----------------------------------------------------------------------------
(* The requests, when they arrive *)

\* What a request is made of.
LEMMA AskShape ==
  ASSUME NEW op, NEW todo, NEW sent, DOMAIN sent \subseteq Columns \ {"op", "todo"}
  PROVE  /\ Shaped(Ask(op, todo, sent)) /\ Ask(op, todo, sent).todo = todo
         /\ Ask(op, todo, sent).op = op
         /\ \A x \in Columns \ {"op", "todo"} :
              Ask(op, todo, sent)[x] = IF x \in DOMAIN sent THEN sent[x] ELSE Blank[x]
<1>1. DOMAIN Blank = Columns
  BY DEF Blank, Columns
<1> QED  BY <1>1 DEF Ask, Over, Shaped, Columns

\* A list of statements is a chain, for a name.
Chain(op, todo) ==
  /\ todo \in Seq(Statement)
  /\ \A i \in 1 .. Len(todo) : Follows(op, todo[i], IF i = Len(todo) THEN "end" ELSE todo[i + 1])

\* A request that arrives is a chain.
LEMMA AskInv ==
  ASSUME NEW op, NEW todo, NEW sent, DOMAIN sent \subseteq Columns \ {"op", "todo"},
         Chain(op, todo)
  PROVE  RequestInv(Ask(op, todo, sent))
BY AskShape DEF Chain, RequestInv, Chained, Left

\* The lists of the editor.
LEMMA FlowChains ==
  /\ Chain("CreateFlow", <<"NoFlowYet", "CreateFlowRow">>)
  /\ \A op \in EditOps : Chain(op, <<"LoadFlow", "SaveFlow">>)
  /\ Chain("DuplicateFlow", <<"LoadFlow", "ReadSource", "CopyFlow">>)
  /\ Chain("CreateNode", <<"LoadFlow", "CreateNodeRow">>)
  /\ Chain("CreateNode", <<"LoadFlow", "CreateNodeRow", "AddOptions">>)
  /\ Chain("UpdateNode", <<"LoadNode", "LoadFlow", "SaveNode", "DropOptions">>)
  /\ Chain("UpdateNode", <<"LoadNode", "LoadFlow", "SaveNode", "DropOptions", "AddOptions">>)
  /\ Chain("DeleteNode", <<"LoadNode", "LoadFlow", "DropOptions", "ClearNodeArrows",
                           "ClearOptionArrows", "ForgetStart", "SaveNode">>)
<1>1. Chain("CreateFlow", <<"NoFlowYet", "CreateFlowRow">>)
  BY DEF Chain, Follows, FlowFollows, Statement
<1>2. \A op \in EditOps : Chain(op, <<"LoadFlow", "SaveFlow">>)
  BY DEF Chain, Follows, FlowFollows, Statement
<1>3. Chain("DuplicateFlow", <<"LoadFlow", "ReadSource", "CopyFlow">>)
  BY DEF Chain, Follows, FlowFollows, Statement
<1>4. Chain("CreateNode", <<"LoadFlow", "CreateNodeRow">>)
  BY DEF Chain, Follows, FlowFollows, Statement
<1>5. Chain("CreateNode", <<"LoadFlow", "CreateNodeRow", "AddOptions">>)
  BY DEF Chain, Follows, FlowFollows, Statement
<1>6. Chain("UpdateNode", <<"LoadNode", "LoadFlow", "SaveNode", "DropOptions">>)
  BY DEF Chain, Follows, FlowFollows, Statement
<1>7. Chain("UpdateNode", <<"LoadNode", "LoadFlow", "SaveNode", "DropOptions", "AddOptions">>)
  BY DEF Chain, Follows, FlowFollows, Statement
<1>8. Chain("DeleteNode", <<"LoadNode", "LoadFlow", "DropOptions", "ClearNodeArrows",
                            "ClearOptionArrows", "ForgetStart", "SaveNode">>)
  BY DEF Chain, Follows, FlowFollows, Statement
<1> QED  BY <1>1, <1>2, <1>3, <1>4, <1>5, <1>6, <1>7, <1>8

\* The lists of the boards.
LEMMA KanbanChains ==
  /\ \A x \in Nat : Chain("CreateKanban", <<"CreateKanbanRow">> \o [i \in 1 .. x |-> "CreateStageRow"])
  /\ Chain("UpdateKanban", <<"LoadKanban", "SaveKanban">>)
  /\ Chain("DeleteKanban", <<"LoadKanban", "SaveKanban">>)
  /\ Chain("CreateStage", <<"LoadKanban", "ReadMaxOrder", "CreateStageRow">>)
  /\ Chain("UpdateStage", <<"LoadKanban", "LoadStage", "SaveStage">>)
  /\ Chain("ReorderStages", <<"LoadKanban", "ListStages">>)
  /\ Chain("DeleteStage",
           <<"LoadKanban", "LoadStage", "ReadUsage", "LoadTarget",
             "MoveLeads", "MoveNodes", "MoveFillNodes", "FlagStage">>)
  /\ Chain("MoveLead", <<"LoadKanban", "LoadStage", "SaveLead">>)
  /\ Chain("LeadReachesNode", <<"LoadNode", "SaveLead">>)
<1>1. ASSUME NEW x \in Nat
      PROVE  Chain("CreateKanban", <<"CreateKanbanRow">> \o [i \in 1 .. x |-> "CreateStageRow"])
  <2> DEFINE a == <<"CreateKanbanRow">>
             b == [i \in 1 .. x |-> "CreateStageRow"]
             c == a \o b
  <2>1. a \in Seq(Statement) /\ Len(a) = 1 /\ a[1] = "CreateKanbanRow"
    BY DEF Statement
  <2>2. b \in Seq(Statement) /\ Len(b) = x /\ \A i \in 1 .. x : b[i] = "CreateStageRow"
    BY DEF Statement
  <2>3. c \in Seq(Statement) /\ Len(c) = 1 + x
    <3> HIDE DEF a, b
    <3>1. a \o b \in Seq(Statement)
      BY <2>1, <2>2
    <3>2. Len(a \o b) = Len(a) + Len(b)
      BY <2>1, <2>2, ConcatProperties
    <3> QED  BY <2>1, <2>2, <3>1, <3>2
  <2>4. c[1] = "CreateKanbanRow" /\ \A i \in 2 .. 1 + x : c[i] = "CreateStageRow"
    <3> HIDE DEF a, b
    <3>1. \A i \in 1 .. Len(a) + Len(b) : c[i] = IF i <= Len(a) THEN a[i] ELSE b[i - Len(a)]
      BY <2>1, <2>2, ConcatProperties
    <3> HIDE DEF c
    <3>2. c[1] = "CreateKanbanRow"
      BY <2>1, <2>2, <3>1
    <3>3. ASSUME NEW i \in 2 .. 1 + x PROVE c[i] = "CreateStageRow"
      <4>1. i \in 1 .. Len(a) + Len(b) /\ ~(i <= Len(a)) /\ i - Len(a) \in 1 .. x
        BY <2>1, <2>2
      <4> QED  BY <2>2, <3>1, <4>1
    <3> QED  BY <3>2, <3>3
  <2> HIDE DEF c
  <2>5. ASSUME NEW i \in 1 .. Len(c)
        PROVE  Follows("CreateKanban", c[i], IF i = Len(c) THEN "end" ELSE c[i + 1])
    <3>1. c[i] \in {"CreateKanbanRow", "CreateStageRow"}
      BY <2>3, <2>4
    <3>2. i # Len(c) => c[i + 1] = "CreateStageRow"
      BY <2>3, <2>4
    <3> QED  BY <3>1, <3>2 DEF Follows, KanbanFollows
  <2> QED  BY <2>3, <2>5 DEF Chain, c
<1>2. Chain("UpdateKanban", <<"LoadKanban", "SaveKanban">>)
  BY DEF Chain, Follows, KanbanFollows, Statement
<1>3. Chain("DeleteKanban", <<"LoadKanban", "SaveKanban">>)
  BY DEF Chain, Follows, KanbanFollows, Statement
<1>4. Chain("CreateStage", <<"LoadKanban", "ReadMaxOrder", "CreateStageRow">>)
  BY DEF Chain, Follows, KanbanFollows, Statement
<1>5. Chain("UpdateStage", <<"LoadKanban", "LoadStage", "SaveStage">>)
  BY DEF Chain, Follows, KanbanFollows, Statement
<1>6. Chain("ReorderStages", <<"LoadKanban", "ListStages">>)
  BY DEF Chain, Follows, KanbanFollows, Statement
<1>7. Chain("DeleteStage",
            <<"LoadKanban", "LoadStage", "ReadUsage", "LoadTarget",
             "MoveLeads", "MoveNodes", "MoveFillNodes", "FlagStage">>)
  BY DEF Chain, Follows, KanbanFollows, Statement
<1>8. Chain("MoveLead", <<"LoadKanban", "LoadStage", "SaveLead">>)
  BY DEF Chain, Follows, KanbanFollows, Statement
<1>9. Chain("LeadReachesNode", <<"LoadNode", "SaveLead">>)
  BY DEF Chain, Follows, KanbanFollows, Statement
<1> QED  BY <1>1, <1>2, <1>3, <1>4, <1>5, <1>6, <1>7, <1>8, <1>9

\* The lists of the forms.
LEMMA FormChains ==
  /\ Chain("CreateForm", <<"CreateFormRow">>)
  /\ Chain("UpdateForm", <<"LoadForm", "SaveForm", "LockDropped", "UpsertFields">>)
  /\ Chain("SetFormActive", <<"LoadForm", "SaveForm">>)
  /\ Chain("DeleteForm", <<"LoadForm", "FlagForm">>)
  /\ Chain("DeleteResponse", <<"LoadForm", "FlagResponse">>)
  /\ \A op \in FillOps :
       /\ Chain(op, <<"LoadForm", "SaveResponse">>)
       /\ Chain(op, <<"LoadForm", "SaveResponse", "FindByLeadPhone", "SaveLead">>)
<1>1. Chain("CreateForm", <<"CreateFormRow">>)
  BY DEF Chain, Follows, FormFollows, Statement
<1>2. Chain("UpdateForm", <<"LoadForm", "SaveForm", "LockDropped", "UpsertFields">>)
  BY DEF Chain, Follows, FormFollows, Statement
<1>3. Chain("SetFormActive", <<"LoadForm", "SaveForm">>)
  BY DEF Chain, Follows, FormFollows, Statement
<1>4. Chain("DeleteForm", <<"LoadForm", "FlagForm">>)
  BY DEF Chain, Follows, FormFollows, Statement
<1>5. Chain("DeleteResponse", <<"LoadForm", "FlagResponse">>)
  BY DEF Chain, Follows, FormFollows, Statement
<1>6. ASSUME NEW op \in FillOps PROVE Chain(op, <<"LoadForm", "SaveResponse">>)
  BY DEF Chain, Follows, FormFollows, Statement
<1>7. ASSUME NEW op \in FillOps
      PROVE  Chain(op, <<"LoadForm", "SaveResponse", "FindByLeadPhone", "SaveLead">>)
  BY DEF Chain, Follows, FormFollows, Statement
<1> QED  BY <1>1, <1>2, <1>3, <1>4, <1>5, <1>6, <1>7

\* A list with one or two statements more.
LEMMA LongerLists ==
  /\ <<"LoadFlow", "CreateNodeRow">> \o <<"AddOptions">>
       = <<"LoadFlow", "CreateNodeRow", "AddOptions">>
  /\ <<"LoadNode", "LoadFlow", "SaveNode", "DropOptions">> \o <<"AddOptions">>
       = <<"LoadNode", "LoadFlow", "SaveNode", "DropOptions", "AddOptions">>
  /\ <<"LoadForm", "SaveResponse">> \o <<"FindByLeadPhone", "SaveLead">>
       = <<"LoadForm", "SaveResponse", "FindByLeadPhone", "SaveLead">>
  /\ <<"LoadFlow", "CreateNodeRow">> \o <<>> = <<"LoadFlow", "CreateNodeRow">>
  /\ <<"LoadNode", "LoadFlow", "SaveNode", "DropOptions">> \o <<>>
       = <<"LoadNode", "LoadFlow", "SaveNode", "DropOptions">>
  /\ <<"LoadForm", "SaveResponse">> \o <<>> = <<"LoadForm", "SaveResponse">>
<1>1. ASSUME NEW s \in Seq(Statement), NEW t \in Seq(Statement), NEW u \in Seq(Statement),
             Len(u) = Len(s) + Len(t),
             \A i \in 1 .. Len(s) + Len(t) : u[i] = IF i <= Len(s) THEN s[i] ELSE t[i - Len(s)]
      PROVE  s \o t = u
  <2>1. s \o t \in Seq(Statement) /\ Len(s \o t) = Len(s) + Len(t)
    BY <1>1
  <2>2. \A i \in 1 .. Len(s) + Len(t) : (s \o t)[i] = IF i <= Len(s) THEN s[i] ELSE t[i - Len(s)]
    BY <1>1, ConcatProperties
  <2> DEFINE v == s \o t
  <2> HIDE DEF v
  <2>3. v = u
    BY <1>1, <2>1, <2>2, SeqEqual DEF v
  <2> QED  BY <2>3 DEF v
<1>2. <<"LoadFlow", "CreateNodeRow">> \o <<"AddOptions">>
        = <<"LoadFlow", "CreateNodeRow", "AddOptions">>
  <2> DEFINE s == <<"LoadFlow", "CreateNodeRow">>
             t == <<"AddOptions">>
             u == <<"LoadFlow", "CreateNodeRow", "AddOptions">>
  <2>1. s \in Seq(Statement) /\ t \in Seq(Statement) /\ u \in Seq(Statement)
    BY DEF Statement
  <2>2. Len(s) = 2 /\ Len(t) = 1 /\ Len(u) = 3
    OBVIOUS
  <2>3. u[1] = s[1] /\ u[2] = s[2] /\ u[3] = t[1]
    OBVIOUS
  <2> HIDE DEF s, t, u
  <2>4. \A i \in 1 .. 3 : u[i] = IF i <= 2 THEN s[i] ELSE t[i - 2]
    BY <2>3
  <2>5. Len(u) = Len(s) + Len(t)
        /\ \A i \in 1 .. Len(s) + Len(t) : u[i] = IF i <= Len(s) THEN s[i] ELSE t[i - Len(s)]
    BY <2>2, <2>4
  <2>6. s \o t = u
    BY <1>1, <2>1, <2>5
  <2> QED  BY <2>6 DEF s, t, u
<1>3. <<"LoadNode", "LoadFlow", "SaveNode", "DropOptions">> \o <<"AddOptions">>
        = <<"LoadNode", "LoadFlow", "SaveNode", "DropOptions", "AddOptions">>
  <2> DEFINE s == <<"LoadNode", "LoadFlow", "SaveNode", "DropOptions">>
             t == <<"AddOptions">>
             u == <<"LoadNode", "LoadFlow", "SaveNode", "DropOptions", "AddOptions">>
  <2>1. s \in Seq(Statement) /\ t \in Seq(Statement) /\ u \in Seq(Statement)
    BY DEF Statement
  <2>2. Len(s) = 4 /\ Len(t) = 1 /\ Len(u) = 5
    OBVIOUS
  <2>3. u[1] = s[1] /\ u[2] = s[2] /\ u[3] = s[3] /\ u[4] = s[4] /\ u[5] = t[1]
    OBVIOUS
  <2> HIDE DEF s, t, u
  <2>4. \A i \in 1 .. 5 : u[i] = IF i <= 4 THEN s[i] ELSE t[i - 4]
    BY <2>3
  <2>5. Len(u) = Len(s) + Len(t)
        /\ \A i \in 1 .. Len(s) + Len(t) : u[i] = IF i <= Len(s) THEN s[i] ELSE t[i - Len(s)]
    BY <2>2, <2>4
  <2>6. s \o t = u
    BY <1>1, <2>1, <2>5
  <2> QED  BY <2>6 DEF s, t, u
<1>4. <<"LoadForm", "SaveResponse">> \o <<"FindByLeadPhone", "SaveLead">>
        = <<"LoadForm", "SaveResponse", "FindByLeadPhone", "SaveLead">>
  <2> DEFINE s == <<"LoadForm", "SaveResponse">>
             t == <<"FindByLeadPhone", "SaveLead">>
             u == <<"LoadForm", "SaveResponse", "FindByLeadPhone", "SaveLead">>
  <2>1. s \in Seq(Statement) /\ t \in Seq(Statement) /\ u \in Seq(Statement)
    BY DEF Statement
  <2>2. Len(s) = 2 /\ Len(t) = 2 /\ Len(u) = 4
    OBVIOUS
  <2>3. u[1] = s[1] /\ u[2] = s[2] /\ u[3] = t[1] /\ u[4] = t[2]
    OBVIOUS
  <2> HIDE DEF s, t, u
  <2>4. \A i \in 1 .. 4 : u[i] = IF i <= 2 THEN s[i] ELSE t[i - 2]
    BY <2>3
  <2>5. Len(u) = Len(s) + Len(t)
        /\ \A i \in 1 .. Len(s) + Len(t) : u[i] = IF i <= Len(s) THEN s[i] ELSE t[i - Len(s)]
    BY <2>2, <2>4
  <2>6. s \o t = u
    BY <1>1, <2>1, <2>5
  <2> QED  BY <2>6 DEF s, t, u
<1>5. \A s \in Seq(Statement) : s \o <<>> = s
  BY ConcatEmptySeq
<1>6. /\ <<"LoadFlow", "CreateNodeRow">> \in Seq(Statement)
      /\ <<"LoadNode", "LoadFlow", "SaveNode", "DropOptions">> \in Seq(Statement)
      /\ <<"LoadForm", "SaveResponse">> \in Seq(Statement)
  BY DEF Statement
<1> QED  BY <1>2, <1>3, <1>4, <1>5, <1>6

-----------------------------------------------------------------------------
(* What the editor asks. *)

FlowColumns == {"is", "active", "phone", "start", "kanban"}
AsksEdit(r) ==
  /\ r.op \in EditOps /\ At(r) = "LoadFlow" /\ r.f \in Live(flow)
  /\ DOMAIN r.set \subseteq FlowColumns
  /\ "start" \in DOMAIN r.set => r.set.start \in NodesOf(r.f)
  /\ "is" \in DOMAIN r.set => r.set.is = "deleted"
  /\ "kanban" \in DOMAIN r.set => r.op = "UpdateFlow"
AsksCreateFlow(r) == r.op = "CreateFlow" /\ At(r) = "NoFlowYet" /\ r.k \in Live(kanban)
AsksDuplicate(r) == r.op = "DuplicateFlow" /\ At(r) = "LoadFlow" /\ r.f \in Live(flow)
AsksCreateNode(r) ==
  /\ r.op = "CreateNode" /\ At(r) = "LoadFlow" /\ r.f \in Live(flow) /\ r.s = None
  /\ r.to \in Arrows(r.f) /\ r.targets \subseteq Arrows(r.f)
AsksUpdateNode(r) ==
  /\ r.op = "UpdateNode" /\ At(r) = "LoadNode" /\ r.n \in Live(node)
  /\ DOMAIN r.set \subseteq {"next", "stage"}
  /\ "next" \in DOMAIN r.set => r.set.next \in Arrows(node[r.n].flow) \union {node[r.n].next}
  /\ "stage" \in DOMAIN r.set => r.set.stage \in StageChoices(node[r.n].flow)
  /\ r.targets \subseteq Arrows(node[r.n].flow) \union {o.next : o \in option[r.n]}
AsksDeleteNode(r) ==
  r.op = "DeleteNode" /\ At(r) = "LoadNode" /\ r.n \in Live(node) /\ r.set = [is |-> "deleted"]

\* The edits of a flow, when they arrive: of a live flow, with columns of flows.
LEMMA EditAsked ==
  ASSUME NEW op \in EditOps, NEW f \in Live(flow), NEW set, DOMAIN set \subseteq FlowColumns,
         "start" \in DOMAIN set => set.start \in NodesOf(f),
         "is" \in DOMAIN set => set.is = "deleted",
         "kanban" \in DOMAIN set => op = "UpdateFlow"
  PROVE  RequestInv(EditFlow(op, f, set)) /\ AsksEdit(EditFlow(op, f, set))
<1> DEFINE todo == <<"LoadFlow", "SaveFlow">>
           sent == [f |-> f, set |-> set]
           r == Ask(op, todo, sent)
<1>1. DOMAIN sent \subseteq Columns \ {"op", "todo"}
  BY DEF Columns
<1>2. Chain(op, todo)
  BY FlowChains
<1>3. RequestInv(r)
  BY <1>1, <1>2, AskInv
<1>4. r.todo = todo /\ r.op = op /\ r.f = f /\ r.set = set
  BY <1>1, AskShape DEF Columns
<1>5. Head(todo) = "LoadFlow" /\ todo # <<>>
  OBVIOUS
<1> HIDE DEF todo, r
<1>6. AsksEdit(r)
  BY <1>4, <1>5 DEF AsksEdit, At
<1> QED  BY <1>3, <1>6 DEF EditFlow, r, todo

\* Each of the six edits is one.
LEMMA EditsAsked ==
  ASSUME NEW r \in UpdateFlow \union UpdatePhone \union SetStartNode \union ActivateFlow
                     \union DeactivateFlow \union DeleteFlow
  PROVE  RequestInv(r) /\ AsksEdit(r)
<1> USE DEF FlowColumns
<1>1. CASE r \in UpdateFlow
  <2>1. PICK f \in Live(flow), k \in Live(kanban) : r = EditFlow("UpdateFlow", f, [kanban |-> k])
    BY <1>1 DEF UpdateFlow
  <2> QED  BY <2>1, EditAsked DEF EditOps
<1>2. CASE r \in UpdatePhone
  <2>1. PICK f \in Live(flow), p \in Phone : r = EditFlow("UpdatePhone", f, [phone |-> p])
    BY <1>2 DEF UpdatePhone
  <2> QED  BY <2>1, EditAsked DEF EditOps
<1>3. CASE r \in SetStartNode
  <2>1. PICK f \in Live(flow) : r \in {EditFlow("SetStartNode", f, [start |-> n]) : n \in NodesOf(f)}
    BY <1>3 DEF SetStartNode
  <2>2. PICK n \in NodesOf(f) : r = EditFlow("SetStartNode", f, [start |-> n])
    BY <2>1
  <2> QED  BY <2>2, EditAsked DEF EditOps
<1>4. CASE r \in ActivateFlow
  <2>1. PICK f \in Live(flow) : r = EditFlow("ActivateFlow", f, [active |-> TRUE])
    BY <1>4 DEF ActivateFlow
  <2> QED  BY <2>1, EditAsked DEF EditOps
<1>5. CASE r \in DeactivateFlow
  <2>1. PICK f \in Live(flow) : r = EditFlow("DeactivateFlow", f, [active |-> FALSE])
    BY <1>5 DEF DeactivateFlow
  <2> QED  BY <2>1, EditAsked DEF EditOps
<1>6. CASE r \in DeleteFlow
  <2>1. PICK f \in Live(flow) : r = EditFlow("DeleteFlow", f, [is |-> "deleted", active |-> FALSE])
    BY <1>6 DEF DeleteFlow
  <2> QED  BY <2>1, EditAsked DEF EditOps
<1> QED  BY <1>1, <1>2, <1>3, <1>4, <1>5, <1>6

\* A flow is created for a live kanban.
LEMMA CreateFlowAsked ==
  ASSUME NEW r \in CreateFlow
  PROVE  RequestInv(r) /\ AsksCreateFlow(r)
<1> DEFINE todo == <<"NoFlowYet", "CreateFlowRow">>
<1>1. PICK p \in Phone \union {None}, k \in Live(kanban) : r = Ask("CreateFlow", todo, [to |-> p, k |-> k])
  BY SMTT(60) DEF CreateFlow
<1>2. DOMAIN [to |-> p, k |-> k] \subseteq Columns \ {"op", "todo"}
  BY DEF Columns
<1>3. Head(todo) = "NoFlowYet" /\ todo # <<>> /\ Chain("CreateFlow", todo)
  BY FlowChains
<1> HIDE DEF todo
<1>4. RequestInv(r)
  BY <1>1, <1>2, <1>3, AskInv
<1>5. r.todo = todo /\ r.op = "CreateFlow" /\ r.k = k
  BY <1>1, <1>2, AskShape DEF Columns
<1> QED  BY <1>3, <1>4, <1>5 DEF AsksCreateFlow, At

\* A live flow is duplicated.
LEMMA DuplicateAsked ==
  ASSUME NEW r \in DuplicateFlow
  PROVE  RequestInv(r) /\ AsksDuplicate(r)
<1> DEFINE todo == <<"LoadFlow", "ReadSource", "CopyFlow">>
<1>1. PICK f \in Live(flow) : r = Ask("DuplicateFlow", todo, [f |-> f])
  BY DEF DuplicateFlow
<1>2. DOMAIN [f |-> f] \subseteq Columns \ {"op", "todo"}
  BY DEF Columns
<1>3. Head(todo) = "LoadFlow" /\ todo # <<>> /\ Chain("DuplicateFlow", todo)
  BY FlowChains
<1> HIDE DEF todo
<1>4. RequestInv(r)
  BY <1>1, <1>2, <1>3, AskInv
<1>5. r.todo = todo /\ r.op = "DuplicateFlow" /\ r.f = f
  BY <1>1, <1>2, AskShape DEF Columns
<1> QED  BY <1>3, <1>4, <1>5 DEF AsksDuplicate, At

\* A node is created in a live flow, with arrows to nodes of it.
LEMMA CreateNodeAsked ==
  ASSUME NEW r \in CreateNode
  PROVE  RequestInv(r) /\ AsksCreateNode(r)
<1> DEFINE todo(targets) == <<"LoadFlow", "CreateNodeRow">> \o IfAny(targets)
           E(f) == Arrows(f) \X {{}} \union {None} \X OptionSets(f)
           S(f, e) == Ask("CreateNode", todo(e[2]), [f |-> f, to |-> e[1], targets |-> e[2]])
<1>1. PICK f \in Live(flow) : r \in {S(f, e) : e \in E(f)}
  BY DEF CreateNode
<1>2. PICK e \in E(f) : r = S(f, e)
  BY <1>1
<1>3. e[1] \in Arrows(f) /\ e[2] \subseteq Arrows(f)
  BY <1>2 DEF OptionSets, Arrows
<1>4. DOMAIN [f |-> f, to |-> e[1], targets |-> e[2]] \subseteq Columns \ {"op", "todo"}
  BY DEF Columns
<1>5. Head(todo(e[2])) = "LoadFlow" /\ todo(e[2]) # <<>> /\ Chain("CreateNode", todo(e[2]))
  <2>1. \/ todo(e[2]) = <<"LoadFlow", "CreateNodeRow">>
        \/ todo(e[2]) = <<"LoadFlow", "CreateNodeRow", "AddOptions">>
    BY LongerLists DEF IfAny
  <2> HIDE DEF todo
  <2> QED  BY <2>1, FlowChains
<1> HIDE DEF todo
<1>6. RequestInv(r)
  BY <1>2, <1>4, <1>5, AskInv
<1>7. r.todo = todo(e[2]) /\ r.op = "CreateNode" /\ r.f = f /\ r.to = e[1] /\ r.targets = e[2]
      /\ r.s = None
  BY <1>2, <1>4, AskShape DEF Columns, Blank
<1> QED  BY <1>3, <1>5, <1>6, <1>7 DEF AsksCreateNode, At

\* A live node is updated, with columns of nodes and arrows to nodes of its flow.
LEMMA UpdateNodeAsked ==
  ASSUME NEW r \in UpdateNode
  PROVE  RequestInv(r) /\ AsksUpdateNode(r)
<1> DEFINE todo(targets) == <<"LoadNode", "LoadFlow", "SaveNode", "DropOptions">> \o IfAny(targets)
           asIs(n) == [next |-> node[n].next]
           shown(n) == {o.next : o \in option[n]}
           E(n) == {[next |-> a] : a \in Arrows(node[n].flow)} \X {shown(n)}
                     \union {Over(asIs(n), [stage |-> s]) : s \in StageChoices(node[n].flow)}
                              \X {shown(n)}
                     \union {asIs(n)} \X OptionSets(node[n].flow)
           S(n, e) == Ask("UpdateNode", todo(e[2]), [n |-> n, set |-> e[1], targets |-> e[2]])
<1>1. PICK n \in {x \in Live(node) : flow[node[x].flow].is = "live"} : r \in {S(n, e) : e \in E(n)}
  BY DEF UpdateNode
<1>2. PICK e \in E(n) : r = S(n, e)
  BY <1>1
<1>3. e[2] \subseteq Arrows(node[n].flow) \union shown(n)
  <2>1. e[2] = shown(n) \/ e[2] \in OptionSets(node[n].flow)
    BY <1>2
  <2> QED  BY <2>1 DEF OptionSets
<1>4. /\ DOMAIN e[1] \subseteq {"next", "stage"}
      /\ "next" \in DOMAIN e[1] => e[1].next \in Arrows(node[n].flow) \union {node[n].next}
      /\ "stage" \in DOMAIN e[1] => e[1].stage \in StageChoices(node[n].flow)
  <2>1. \/ e[1] \in {[next |-> a] : a \in Arrows(node[n].flow)}
        \/ e[1] \in {Over(asIs(n), [stage |-> s]) : s \in StageChoices(node[n].flow)}
        \/ e[1] = asIs(n)
    BY <1>2
  <2>2. CASE e[1] \in {[next |-> a] : a \in Arrows(node[n].flow)}
    BY <2>2
  <2>3. CASE e[1] \in {Over(asIs(n), [stage |-> s]) : s \in StageChoices(node[n].flow)}
    BY <2>3 DEF Over
  <2>4. CASE e[1] = asIs(n)
    BY <2>4
  <2> QED  BY <2>1, <2>2, <2>3, <2>4
<1> HIDE DEF E
<1>5. DOMAIN [n |-> n, set |-> e[1], targets |-> e[2]] \subseteq Columns \ {"op", "todo"}
  BY DEF Columns
<1>6. Head(todo(e[2])) = "LoadNode" /\ todo(e[2]) # <<>> /\ Chain("UpdateNode", todo(e[2]))
  <2>1. \/ todo(e[2]) = <<"LoadNode", "LoadFlow", "SaveNode", "DropOptions">>
        \/ todo(e[2]) = <<"LoadNode", "LoadFlow", "SaveNode", "DropOptions", "AddOptions">>
    BY LongerLists DEF IfAny
  <2> HIDE DEF todo
  <2> QED  BY <2>1, FlowChains
<1> HIDE DEF todo
<1>7. RequestInv(r)
  BY <1>2, <1>5, <1>6, AskInv
<1>8. r.todo = todo(e[2]) /\ r.op = "UpdateNode" /\ r.n = n /\ r.set = e[1] /\ r.targets = e[2]
  BY <1>2, <1>5, AskShape DEF Columns
<1>9. AsksUpdateNode(r)
  <2>1. r.op = "UpdateNode" /\ At(r) = "LoadNode" /\ r.n \in Live(node)
    BY <1>1, <1>6, <1>8 DEF At
  <2> QED  BY <1>3, <1>4, <1>8, <2>1 DEF AsksUpdateNode
<1> QED  BY <1>7, <1>9

\* A live node is deleted.
LEMMA DeleteNodeAsked ==
  ASSUME NEW r \in DeleteNode
  PROVE  RequestInv(r) /\ AsksDeleteNode(r)
<1> DEFINE todo == <<"LoadNode", "LoadFlow", "DropOptions", "ClearNodeArrows",
                     "ClearOptionArrows", "ForgetStart", "SaveNode">>
<1>1. PICK n \in Live(node) : r = Ask("DeleteNode", todo, [n |-> n, set |-> [is |-> "deleted"]])
  BY DEF DeleteNode
<1>2. DOMAIN [n |-> n, set |-> [is |-> "deleted"]] \subseteq Columns \ {"op", "todo"}
  BY DEF Columns
<1>3. Head(todo) = "LoadNode" /\ todo # <<>> /\ Chain("DeleteNode", todo)
  BY FlowChains
<1> HIDE DEF todo
<1>4. RequestInv(r)
  BY <1>1, <1>2, <1>3, AskInv
<1>5. r.todo = todo /\ r.op = "DeleteNode" /\ r.n = n /\ r.set = [is |-> "deleted"]
  BY <1>1, <1>2, AskShape DEF Columns
<1> QED  BY <1>3, <1>4, <1>5 DEF AsksDeleteNode, At

-----------------------------------------------------------------------------
(* What the boards ask. *)

AsksCreateKanban(r) ==
  r.op = "CreateKanban" /\ At(r) = "CreateKanbanRow"
AsksSaveKanban(r) ==
  /\ r.op \in {"UpdateKanban", "DeleteKanban"} /\ At(r) = "LoadKanban" /\ r.k \in Live(kanban)
  /\ r.set = <<>> \/ r.set = [is |-> "deleted"]
AsksCreateStage(r) == r.op = "CreateStage" /\ At(r) = "LoadKanban" /\ r.k \in Live(kanban)
AsksUpdateStage(r) ==
  r.op = "UpdateStage" /\ At(r) = "LoadKanban" /\ r.s \in Live(stage) /\ r.k = stage[r.s].kanban
AsksReorder(r) ==
  /\ r.op = "ReorderStages" /\ At(r) = "LoadKanban" /\ r.k \in Live(kanban)
  /\ r.list \in [1 .. Cardinality(StagesOf(r.k)) -> StagesOf(r.k)]
  /\ \A i, j \in DOMAIN r.list : r.list[i] = r.list[j] => i = j
AsksDeleteStage(r) ==
  /\ r.op = "DeleteStage" /\ At(r) = "LoadKanban"
  /\ r.s \in Live(stage) /\ r.k = stage[r.s].kanban
  /\ r.to \in (Live(stage) \ {r.s}) \union {None}
AsksMoveLead(r) ==
  /\ r.op = "MoveLead" /\ At(r) = "LoadKanban"
  /\ r.k \in Live(kanban) /\ r.s \in StagesOf(r.k) /\ r.c \in Cards(r.k)
AsksReachNode(r) ==
  /\ r.op = "LeadReachesNode" /\ At(r) = "LoadNode"
  /\ r.n \in Live(node) /\ r.c \in Conv /\ FlowOf(r.c) = node[r.n].flow

\* A kanban is created with its stages.
LEMMA CreateKanbanAsked ==
  ASSUME NEW r \in CreateKanban
  PROVE  RequestInv(r) /\ AsksCreateKanban(r)
<1> DEFINE todo(x) == <<"CreateKanbanRow">> \o [i \in 1 .. x |-> "CreateStageRow"]
<1>1. PICK x \in 0 .. 2 : r = Ask("CreateKanban", todo(x), <<>>)
  BY DEF CreateKanban
<1>2. DOMAIN <<>> \subseteq Columns \ {"op", "todo"}
  OBVIOUS
<1>3. Chain("CreateKanban", todo(x))
  BY KanbanChains
<1>4. Head(todo(x)) = "CreateKanbanRow" /\ todo(x) # <<>>
  <2> DEFINE a == <<"CreateKanbanRow">>
             b == [i \in 1 .. x |-> "CreateStageRow"]
  <2>1. a \in Seq(Statement) /\ b \in Seq(Statement) /\ Len(a) = 1 /\ Len(b) = x
        /\ a[1] = "CreateKanbanRow"
    BY DEF Statement
  <2> HIDE DEF a, b
  <2>2. Len(a \o b) = 1 + x /\ (a \o b)[1] = "CreateKanbanRow" /\ a \o b \in Seq(Statement)
    <3>1. x \in Nat /\ 1 \in 1 .. 1 + x
      OBVIOUS
    <3>2. Len(a \o b) = Len(a) + Len(b) /\ a \o b \in Seq(Statement)
      BY <2>1, ConcatProperties
    <3>3. \A i \in 1 .. Len(a) + Len(b) : (a \o b)[i] = IF i <= Len(a) THEN a[i] ELSE b[i - Len(a)]
      BY <2>1, ConcatProperties
    <3> QED  BY <2>1, <3>1, <3>2, <3>3
  <2>3. Head(a \o b) = (a \o b)[1] /\ a \o b # <<>>
    BY <2>1, <2>2
  <2> QED  BY <2>2, <2>3 DEF a, b
<1> HIDE DEF todo
<1>5. RequestInv(r)
  BY <1>1, <1>2, <1>3, AskInv
<1>6. r.todo = todo(x) /\ r.op = "CreateKanban"
  BY <1>1, <1>2, AskShape DEF Columns
<1> QED  BY <1>4, <1>5, <1>6 DEF AsksCreateKanban, At

\* A live kanban is saved or deleted.
LEMMA SaveKanbanAsked ==
  ASSUME NEW r \in UpdateKanban \union DeleteKanban
  PROVE  RequestInv(r) /\ AsksSaveKanban(r)
<1> DEFINE todo == <<"LoadKanban", "SaveKanban">>
<1>1. /\ Head(todo) = "LoadKanban" /\ todo # <<>>
      /\ Chain("UpdateKanban", todo) /\ Chain("DeleteKanban", todo)
  BY KanbanChains
<1>2. CASE r \in UpdateKanban
  <2>1. PICK k \in Live(kanban) : r = Ask("UpdateKanban", todo, [k |-> k])
    BY <1>2 DEF UpdateKanban
  <2>2. DOMAIN [k |-> k] \subseteq Columns \ {"op", "todo"}
    BY DEF Columns
  <2> HIDE DEF todo
  <2>3. RequestInv(r)
    BY <1>1, <2>1, <2>2, AskInv
  <2>4. r.todo = todo /\ r.op = "UpdateKanban" /\ r.k = k /\ r.set = <<>>
    BY <2>1, <2>2, AskShape DEF Columns, Blank
  <2> QED  BY <1>1, <2>3, <2>4 DEF AsksSaveKanban, At
<1>3. CASE r \in DeleteKanban
  <2>1. PICK k \in Live(kanban) : r = Ask("DeleteKanban", todo, [k |-> k, set |-> [is |-> "deleted"]])
    BY <1>3 DEF DeleteKanban
  <2>2. DOMAIN [k |-> k, set |-> [is |-> "deleted"]] \subseteq Columns \ {"op", "todo"}
    BY DEF Columns
  <2> HIDE DEF todo
  <2>3. RequestInv(r)
    BY <1>1, <2>1, <2>2, AskInv
  <2>4. r.todo = todo /\ r.op = "DeleteKanban" /\ r.k = k /\ r.set = [is |-> "deleted"]
    BY <2>1, <2>2, AskShape DEF Columns
  <2> QED  BY <1>1, <2>3, <2>4 DEF AsksSaveKanban, At
<1> QED  BY <1>2, <1>3

\* A stage is created in a live kanban.
LEMMA CreateStageAsked ==
  ASSUME NEW r \in CreateStage
  PROVE  RequestInv(r) /\ AsksCreateStage(r)
<1> DEFINE todo == <<"LoadKanban", "ReadMaxOrder", "CreateStageRow">>
<1>1. PICK k \in Live(kanban) : r = Ask("CreateStage", todo, [k |-> k])
  BY DEF CreateStage
<1>2. DOMAIN [k |-> k] \subseteq Columns \ {"op", "todo"}
  BY DEF Columns
<1>3. Head(todo) = "LoadKanban" /\ todo # <<>> /\ Chain("CreateStage", todo)
  BY KanbanChains
<1> HIDE DEF todo
<1>4. RequestInv(r)
  BY <1>1, <1>2, <1>3, AskInv
<1>5. r.todo = todo /\ r.op = "CreateStage" /\ r.k = k
  BY <1>1, <1>2, AskShape DEF Columns
<1> QED  BY <1>3, <1>4, <1>5 DEF AsksCreateStage, At

\* A live stage is updated.
LEMMA UpdateStageAsked ==
  ASSUME NEW r \in UpdateStage
  PROVE  RequestInv(r) /\ AsksUpdateStage(r)
<1> DEFINE todo == <<"LoadKanban", "LoadStage", "SaveStage">>
<1>1. PICK s \in Live(stage) : r = Ask("UpdateStage", todo, [k |-> stage[s].kanban, s |-> s])
  BY DEF UpdateStage
<1>2. DOMAIN [k |-> stage[s].kanban, s |-> s] \subseteq Columns \ {"op", "todo"}
  BY DEF Columns
<1>3. Head(todo) = "LoadKanban" /\ todo # <<>> /\ Chain("UpdateStage", todo)
  BY KanbanChains
<1> HIDE DEF todo
<1>4. RequestInv(r)
  BY <1>1, <1>2, <1>3, AskInv
<1>5. r.todo = todo /\ r.op = "UpdateStage" /\ r.k = stage[s].kanban /\ r.s = s
  BY <1>1, <1>2, AskShape DEF Columns
<1> QED  BY <1>3, <1>4, <1>5 DEF AsksUpdateStage, At

\* A reordering lists stages, each once.
LEMMA ReorderAsked ==
  ASSUME NEW r \in ReorderStages
  PROVE  RequestInv(r) /\ AsksReorder(r)
<1> DEFINE todo == <<"LoadKanban", "ListStages">>
           L(k) == {x \in [1 .. Cardinality(StagesOf(k)) -> StagesOf(k)] :
                      \A i, j \in DOMAIN x : x[i] = x[j] => i = j}
<1>1. PICK k \in Live(kanban) : r \in {Ask("ReorderStages", todo, [k |-> k, list |-> l]) : l \in L(k)}
  BY DEF ReorderStages
<1>2. PICK l \in L(k) : r = Ask("ReorderStages", todo, [k |-> k, list |-> l])
  BY <1>1
<1>3. DOMAIN [k |-> k, list |-> l] \subseteq Columns \ {"op", "todo"}
  BY DEF Columns
<1>4. Head(todo) = "LoadKanban" /\ todo # <<>> /\ Chain("ReorderStages", todo)
  BY KanbanChains
<1> HIDE DEF todo
<1>5. RequestInv(r)
  BY <1>2, <1>3, <1>4, AskInv
<1>6. r.todo = todo /\ r.op = "ReorderStages" /\ r.k = k /\ r.list = l
  BY <1>2, <1>3, AskShape DEF Columns
<1>7. /\ l \in [1 .. Cardinality(StagesOf(k)) -> StagesOf(k)]
      /\ \A i, j \in DOMAIN l : l[i] = l[j] => i = j
  BY <1>2
<1> HIDE DEF L
<1>8. At(r) = "LoadKanban"
  BY <1>4, <1>6 DEF At
<1> QED  BY <1>1, <1>5, <1>6, <1>7, <1>8 DEF AsksReorder

\* A live stage is deleted for another one, or for none.
LEMMA DeleteStageAsked ==
  ASSUME NEW r \in DeleteStage
  PROVE  RequestInv(r) /\ AsksDeleteStage(r)
<1> DEFINE todo == <<"LoadKanban", "LoadStage", "ReadUsage", "LoadTarget",
             "MoveLeads", "MoveNodes", "MoveFillNodes", "FlagStage">>
           S(s, t) == Ask("DeleteStage", todo, [k |-> stage[s].kanban, s |-> s, to |-> t])
<1>1. PICK s \in Live(stage) : r \in {S(s, t) : t \in (Live(stage) \ {s}) \union {None}}
  BY DEF DeleteStage
<1>2. PICK t \in (Live(stage) \ {s}) \union {None} : r = S(s, t)
  BY <1>1
<1>3. DOMAIN [k |-> stage[s].kanban, s |-> s, to |-> t] \subseteq Columns \ {"op", "todo"}
  BY DEF Columns
<1>4. Head(todo) = "LoadKanban" /\ todo # <<>> /\ Chain("DeleteStage", todo)
  BY KanbanChains
<1> HIDE DEF todo
<1>5. RequestInv(r)
  BY <1>2, <1>3, <1>4, AskInv
<1>6. r.todo = todo /\ r.op = "DeleteStage" /\ r.k = stage[s].kanban /\ r.s = s /\ r.to = t
  BY <1>2, <1>3, AskShape DEF Columns
<1> QED  BY <1>2, <1>4, <1>5, <1>6 DEF AsksDeleteStage, At

\* A card is moved to a stage of its kanban.
LEMMA MoveLeadAsked ==
  ASSUME NEW r \in MoveLead
  PROVE  RequestInv(r) /\ AsksMoveLead(r)
<1> DEFINE todo == <<"LoadKanban", "LoadStage", "SaveLead">>
           S(k, s, c) == Ask("MoveLead", todo, [k |-> k, s |-> s, c |-> c])
<1>1. PICK k \in Live(kanban) : r \in {S(k, s, c) : s \in StagesOf(k), c \in Cards(k)}
  BY DEF MoveLead
<1>2. PICK s \in StagesOf(k), c \in Cards(k) : r = S(k, s, c)
  BY <1>1
<1>3. DOMAIN [k |-> k, s |-> s, c |-> c] \subseteq Columns \ {"op", "todo"}
  BY DEF Columns
<1>4. Head(todo) = "LoadKanban" /\ todo # <<>> /\ Chain("MoveLead", todo)
  BY KanbanChains
<1> HIDE DEF todo
<1>5. RequestInv(r)
  BY <1>2, <1>3, <1>4, AskInv
<1>6. r.todo = todo /\ r.op = "MoveLead" /\ r.k = k /\ r.s = s /\ r.c = c
  BY <1>2, <1>3, AskShape DEF Columns
<1> QED  BY <1>2, <1>4, <1>5, <1>6 DEF AsksMoveLead, At

\* A lead reaches a live node that has a stage.
LEMMA ReachNodeAsked ==
  ASSUME NEW r \in LeadReachesNode
  PROVE  RequestInv(r) /\ AsksReachNode(r)
<1> DEFINE todo == <<"LoadNode", "SaveLead">>
           S(n, c) == Ask("LeadReachesNode", todo, [n |-> n, c |-> c])
<1>1. PICK n \in {x \in Live(node) : node[x].stage # None} :
        r \in {S(n, c) : c \in {x \in Conv : FlowOf(x) = node[n].flow}}
  BY DEF LeadReachesNode
<1>2. PICK c \in {x \in Conv : FlowOf(x) = node[n].flow} : r = S(n, c)
  BY <1>1
<1>3. DOMAIN [n |-> n, c |-> c] \subseteq Columns \ {"op", "todo"}
  BY DEF Columns
<1>4. Head(todo) = "LoadNode" /\ todo # <<>> /\ Chain("LeadReachesNode", todo)
  BY KanbanChains
<1> HIDE DEF todo
<1>5. RequestInv(r)
  BY <1>2, <1>3, <1>4, AskInv
<1>6. r.todo = todo /\ r.op = "LeadReachesNode" /\ r.n = n /\ r.c = c
  BY <1>2, <1>3, AskShape DEF Columns
<1> QED  BY <1>2, <1>4, <1>5, <1>6 DEF AsksReachNode, At

-----------------------------------------------------------------------------
(* What the forms ask. *)

AsksCreateForm(r) == r.op = "CreateForm" /\ At(r) = "CreateFormRow"
AsksUpdateForm(r) ==
  /\ r.op = "UpdateForm" /\ At(r) = "LoadForm" /\ r.m \in Live(form) /\ r.set = <<>>
  /\ Listed(r) \subseteq FieldsOf(r.m) \union {0}
AsksFormActive(r) ==
  /\ r.op = "SetFormActive" /\ At(r) = "LoadForm" /\ r.m \in Live(form)
  /\ DOMAIN r.set \subseteq {"open"}
AsksDeleteForm(r) == r.op = "DeleteForm" /\ At(r) = "LoadForm" /\ r.m \in Live(form)
AsksDeleteResponse(r) ==
  r.op = "DeleteResponse" /\ At(r) = "LoadForm" /\ r.n \in Live(response)
AsksFill(r) ==
  /\ At(r) = "LoadForm" /\ r.op = IF r.s = None \/ r.s \in Live(stage) THEN "FillForm" ELSE "FillOldLink"
  /\ r.m \in Live(form) /\ r.c \in Conv /\ r.targets = FieldsOf(r.m)
  /\ r.s \in {node[n].stage : n \in Live(node)} \union {x \in Stage : stage[x].is = "deleted"}
               \union {None}

\* The list of a set has its elements.
LEMMA ListOfSet ==
  ASSUME NEW S, IsFiniteSet(S)
  PROVE  {SetToSeq(S)[i] : i \in DOMAIN SetToSeq(S)} \subseteq S
<1>1. PICK f \in Bijection(1 .. Cardinality(S), S) : TRUE
  BY FS_CardinalityType DEF ExistsBijection
<1>2. f \in [1 .. Cardinality(S) -> S] /\ IsInjective(f)
  BY <1>1 DEF Bijection, Injection, IsInjective
<1>3. SetToSeq(S) \in [1 .. Cardinality(S) -> S]
  BY <1>2 DEF SetToSeq
<1> QED  BY <1>3

\* The requests on forms and responses that write one row.
LEMMA FormsAsked ==
  ASSUME NEW r
  PROVE  /\ r \in CreateForm => RequestInv(r) /\ AsksCreateForm(r)
         /\ r \in SetFormActive => RequestInv(r) /\ AsksFormActive(r)
         /\ r \in DeleteForm => RequestInv(r) /\ AsksDeleteForm(r)
         /\ r \in DeleteResponse => RequestInv(r) /\ AsksDeleteResponse(r)
<1>1. ASSUME r \in CreateForm PROVE RequestInv(r) /\ AsksCreateForm(r)
  <2> DEFINE todo == <<"CreateFormRow">>
  <2>1. r = Ask("CreateForm", todo, <<>>)
    BY <1>1 DEF CreateForm
  <2>2. DOMAIN <<>> \subseteq Columns \ {"op", "todo"}
    OBVIOUS
  <2>3. Head(todo) = "CreateFormRow" /\ todo # <<>> /\ Chain("CreateForm", todo)
    BY FormChains
  <2> HIDE DEF todo
  <2>4. RequestInv(r)
    BY <2>1, <2>2, <2>3, AskInv
  <2>5. r.todo = todo /\ r.op = "CreateForm"
    BY <2>1, <2>2, AskShape DEF Columns
  <2> QED  BY <2>3, <2>4, <2>5 DEF AsksCreateForm, At
<1>2. ASSUME r \in SetFormActive PROVE RequestInv(r) /\ AsksFormActive(r)
  <2> DEFINE todo == <<"LoadForm", "SaveForm">>
  <2>1. PICK m \in Live(form), on \in BOOLEAN :
          r = Ask("SetFormActive", todo, [m |-> m, set |-> [open |-> on]])
    BY <1>2 DEF SetFormActive
  <2>2. DOMAIN [m |-> m, set |-> [open |-> on]] \subseteq Columns \ {"op", "todo"}
    BY DEF Columns
  <2>3. Head(todo) = "LoadForm" /\ todo # <<>> /\ Chain("SetFormActive", todo)
    BY FormChains
  <2> HIDE DEF todo
  <2>4. RequestInv(r)
    BY <2>1, <2>2, <2>3, AskInv
  <2>5. r.todo = todo /\ r.op = "SetFormActive" /\ r.m = m /\ r.set = [open |-> on]
    BY <2>1, <2>2, AskShape DEF Columns
  <2> QED  BY <2>3, <2>4, <2>5 DEF AsksFormActive, At
<1>3. ASSUME r \in DeleteForm PROVE RequestInv(r) /\ AsksDeleteForm(r)
  <2> DEFINE todo == <<"LoadForm", "FlagForm">>
  <2>1. PICK m \in Live(form) : r = Ask("DeleteForm", todo, [m |-> m])
    BY <1>3 DEF DeleteForm
  <2>2. DOMAIN [m |-> m] \subseteq Columns \ {"op", "todo"}
    BY DEF Columns
  <2>3. Head(todo) = "LoadForm" /\ todo # <<>> /\ Chain("DeleteForm", todo)
    BY FormChains
  <2> HIDE DEF todo
  <2>4. RequestInv(r)
    BY <2>1, <2>2, <2>3, AskInv
  <2>5. r.todo = todo /\ r.op = "DeleteForm" /\ r.m = m
    BY <2>1, <2>2, AskShape DEF Columns
  <2> QED  BY <2>3, <2>4, <2>5 DEF AsksDeleteForm, At
<1>4. ASSUME r \in DeleteResponse PROVE RequestInv(r) /\ AsksDeleteResponse(r)
  <2> DEFINE todo == <<"LoadForm", "FlagResponse">>
  <2>1. PICK x \in Live(response) :
          r = Ask("DeleteResponse", todo, [m |-> response[x].form, n |-> x])
    BY <1>4 DEF DeleteResponse
  <2>2. DOMAIN [m |-> response[x].form, n |-> x] \subseteq Columns \ {"op", "todo"}
    BY DEF Columns
  <2>3. Head(todo) = "LoadForm" /\ todo # <<>> /\ Chain("DeleteResponse", todo)
    BY FormChains
  <2> HIDE DEF todo
  <2>4. RequestInv(r)
    BY <2>1, <2>2, <2>3, AskInv
  <2>5. r.todo = todo /\ r.op = "DeleteResponse" /\ r.n = x
    BY <2>1, <2>2, AskShape DEF Columns
  <2> QED  BY <2>3, <2>4, <2>5 DEF AsksDeleteResponse, At
<1> QED  BY <1>1, <1>2, <1>3, <1>4

\* A form is edited with its fields, a new one or one less.
LEMMA UpdateFormAsked ==
  ASSUME NEW r \in UpdateForm, field = [x \in Field |-> field[x]]
  PROVE  RequestInv(r) /\ AsksUpdateForm(r)
<1> DEFINE todo == <<"LoadForm", "SaveForm", "LockDropped", "UpsertFields">>
           Sets(m) == {FieldsOf(m) \union {0}} \union {FieldsOf(m) \ {x} : x \in FieldsOf(m)}
           L(m) == {SetToSeq(S) : S \in Sets(m)}
<1>1. PICK m \in Live(form) : r \in {Ask("UpdateForm", todo, [m |-> m, list |-> l]) : l \in L(m)}
  BY DEF UpdateForm
<1>2. PICK S \in Sets(m) : r = Ask("UpdateForm", todo, [m |-> m, list |-> SetToSeq(S)])
  BY <1>1
<1>3. S \subseteq FieldsOf(m) \union {0} /\ IsFiniteSet(S)
  <2>1. S \subseteq FieldsOf(m) \union {0}
    BY <1>2
  <2>2. FieldsOf(m) \subseteq Field
    BY DEF FieldsOf, Live
  <2>3. IsFiniteSet(Field \union {0})
    BY TablesAssumption, FS_AddElement
  <2> QED  BY <2>1, <2>2, <2>3, FS_Subset
<1>4. {SetToSeq(S)[i] : i \in DOMAIN SetToSeq(S)} \subseteq FieldsOf(m) \union {0}
  BY <1>3, ListOfSet
<1>5. DOMAIN [m |-> m, list |-> SetToSeq(S)] \subseteq Columns \ {"op", "todo"}
  BY DEF Columns
<1>6. Head(todo) = "LoadForm" /\ todo # <<>> /\ Chain("UpdateForm", todo)
  BY FormChains
<1> HIDE DEF todo
<1>7. RequestInv(r)
  BY <1>2, <1>5, <1>6, AskInv
<1>8. r.todo = todo /\ r.op = "UpdateForm" /\ r.m = m /\ r.list = SetToSeq(S) /\ r.set = <<>>
  BY <1>2, <1>5, AskShape DEF Columns, Blank
<1> QED  BY <1>4, <1>6, <1>7, <1>8 DEF AsksUpdateForm, At, Listed

\* A form is filled with the fields it shows.
LEMMA FillAsked ==
  ASSUME NEW r \in FillForm
  PROVE  RequestInv(r) /\ AsksFill(r)
<1> DEFINE todo(s) == <<"LoadForm", "SaveResponse">> \o
                        IF s = None THEN <<>> ELSE <<"FindByLeadPhone", "SaveLead">>
           name(s) == IF s = None \/ s \in Live(stage) THEN "FillForm" ELSE "FillOldLink"
           Leads == {x \in Conv : \A y \in Conv : PhoneOf[y] = PhoneOf[x] => y <= x}
<1>1. PICK m \in {x \in Live(form) : Offered(x)} : r \in {Filled(m, s, c) : s \in Links, c \in Leads}
  BY DEF FillForm
<1>2. PICK s \in Links, c \in Leads : r = Filled(m, s, c)
  BY <1>1
<1> DEFINE sent == [m |-> m, s |-> s, c |-> c, targets |-> FieldsOf(m)]
<1>0. r = Ask(name(s), todo(s), sent)
  BY <1>2 DEF Filled
<1>3. DOMAIN sent \subseteq Columns \ {"op", "todo"}
  BY DEF Columns
<1>4. Head(todo(s)) = "LoadForm" /\ todo(s) # <<>> /\ Chain(name(s), todo(s))
  <2>1. \/ todo(s) = <<"LoadForm", "SaveResponse">>
        \/ todo(s) = <<"LoadForm", "SaveResponse", "FindByLeadPhone", "SaveLead">>
    BY LongerLists
  <2>2. name(s) \in FillOps
    BY DEF FillOps
  <2> HIDE DEF todo, name
  <2> QED  BY <2>1, <2>2, FormChains
<1> HIDE DEF todo
<1>5. RequestInv(r)
  BY <1>0, <1>3, <1>4, AskInv
<1>6. r.todo = todo(s) /\ r.op = name(s) /\ r.m = m /\ r.s = s /\ r.c = c /\ r.targets = FieldsOf(m)
  BY <1>0, <1>3, AskShape DEF Columns
<1>7. AsksFill(r)
  <2>1. At(r) = "LoadForm"
    BY <1>4, <1>6 DEF At
  <2> QED  BY <1>1, <1>2, <1>6, <2>1 DEF AsksFill, Links
<1> QED  BY <1>5, <1>7

-----------------------------------------------------------------------------
(* Smallest and greatest numbers *)

\* A set of numbers that is not empty has a least one.
LEMMA Smallest ==
  ASSUME NEW S, S \subseteq Nat, S # {}
  PROVE  Min(S) \in S /\ \A y \in S : Min(S) <= y
<1>1. PICK x \in S : \A y \in S : ~(<<y, x>> \in OpToRel(<, Nat))
  BY WFMin, NatLessThanWellFounded, Zenon
<1>2. ASSUME NEW y \in S PROVE x <= y
  <2>1. x \in Nat /\ y \in Nat
    OBVIOUS
  <2>2. ~(y < x)
    BY <1>1, <2>1 DEF OpToRel
  <2> QED  BY <2>1, <2>2
<1> QED  BY <1>2 DEF Min

\* A finite set of numbers has a greatest one: those above it are the fewest.
LEMMA Greatest ==
  ASSUME NEW S, S \subseteq Nat, S # {}, IsFiniteSet(S)
  PROVE  Max(S) \in S /\ \A y \in S : Max(S) >= y
<1> DEFINE above(x) == {y \in S : y > x}
           T == {above(x) : x \in S}
           R == StrictSubsetOrdering(S)
<1>1. IsWellFoundedOn(R, SUBSET S)
  BY FS_StrictSubsetOrderingWellFounded, FS_FiniteSubsetsOfFinite
<1>2. T \subseteq SUBSET S /\ T # {}
  OBVIOUS
<1>3. PICK A \in T : \A B \in T : ~(<<B, A>> \in R)
  <2> HIDE DEF R, T
  <2> QED  BY <1>1, <1>2, WFMin, Zenon
<1>4. PICK x \in S : A = above(x)
  BY <1>3
<1>5. above(x) = {}
  <2>1. SUFFICES ASSUME NEW y \in above(x) PROVE FALSE
    BY Zenon
  <2>2. y \in S /\ x \in Nat /\ y \in Nat /\ y > x
    BY <2>1
  <2>3. above(y) \subseteq above(x) /\ y \notin above(y) /\ y \in above(x)
    <3>1. ASSUME NEW z \in above(y) PROVE z \in above(x)
      <4>1. z \in S /\ z \in Nat /\ z > y
        OBVIOUS
      <4> QED  BY <2>2, <4>1
    <3>2. ~(y > y)
      BY <2>2
    <3>3. y \notin above(y)
      BY <3>2
    <3> QED  BY <2>1, <3>1, <3>3
  <2>4. above(y) # above(x)
    BY <2>3, Zenon
  <2>5. <<above(y), above(x)>> \in R
    <3>1. above(y) \in SUBSET S /\ above(x) \in SUBSET S
      OBVIOUS
    <3> HIDE DEF above
    <3> QED  BY <2>3, <2>4, <3>1 DEF StrictSubsetOrdering
  <2>6. above(y) \in T
    BY <2>2
  <2> HIDE DEF R, T, above
  <2> QED  BY <1>3, <1>4, <2>5, <2>6, Zenon
<1>6. \A y \in S : x >= y
  BY <1>5
<1> QED  BY <1>6 DEF Max

-----------------------------------------------------------------------------
(* A request arrives. *)

AskedFlow(r) ==
  \/ AsksEdit(r) \/ AsksCreateFlow(r) \/ AsksDuplicate(r)
  \/ AsksCreateNode(r) \/ AsksUpdateNode(r) \/ AsksDeleteNode(r)
AskedKanban(r) ==
  \/ AsksCreateKanban(r) \/ AsksSaveKanban(r) \/ AsksCreateStage(r) \/ AsksUpdateStage(r)
  \/ AsksReorder(r) \/ AsksDeleteStage(r) \/ AsksMoveLead(r) \/ AsksReachNode(r)
AskedForm(r) ==
  \/ AsksCreateForm(r) \/ AsksUpdateForm(r) \/ AsksFormActive(r) \/ AsksDeleteForm(r)
  \/ AsksDeleteResponse(r) \/ AsksFill(r)
Asked(r) == AskedFlow(r) \/ AskedKanban(r) \/ AskedForm(r)

\* These are all the requests that arrive.
LEMMA EveryRequestAsked ==
  ASSUME NEW r \in Requests, DomainsInv
  PROVE  RequestInv(r) /\ Asked(r)
<1>1. CASE r \in FlowRequests
  <2>1. \/ r \in UpdateFlow \union UpdatePhone \union SetStartNode \union ActivateFlow
                   \union DeactivateFlow \union DeleteFlow
        \/ r \in CreateFlow \/ r \in DuplicateFlow
        \/ r \in CreateNode \/ r \in UpdateNode \/ r \in DeleteNode
    BY <1>1 DEF FlowRequests
  <2>2. RequestInv(r) /\ AskedFlow(r)
    BY <2>1, EditsAsked, CreateFlowAsked, DuplicateAsked, CreateNodeAsked, UpdateNodeAsked,
       DeleteNodeAsked DEF AskedFlow
  <2> QED  BY <2>2 DEF Asked
<1>2. CASE r \in KanbanRequests
  <2>1. \/ r \in CreateKanban \/ r \in UpdateKanban \union DeleteKanban \/ r \in CreateStage
        \/ r \in UpdateStage \/ r \in ReorderStages \/ r \in DeleteStage
        \/ r \in MoveLead \/ r \in LeadReachesNode
    BY <1>2 DEF KanbanRequests
  <2>2. RequestInv(r) /\ AskedKanban(r)
    BY <2>1, CreateKanbanAsked, SaveKanbanAsked, CreateStageAsked, UpdateStageAsked, ReorderAsked,
       DeleteStageAsked, MoveLeadAsked, ReachNodeAsked DEF AskedKanban
  <2> QED  BY <2>2 DEF Asked
<1>3. CASE r \in FormRequests
  <2>1. \/ r \in CreateForm \/ r \in UpdateForm \/ r \in SetFormActive \/ r \in DeleteForm
        \/ r \in DeleteResponse \/ r \in FillForm
    BY <1>3 DEF FormRequests
  <2>2. field = [x \in Field |-> field[x]]
    BY DEF DomainsInv
  <2>3. RequestInv(r) /\ AskedForm(r)
    BY <2>1, <2>2, FormsAsked, UpdateFormAsked, FillAsked DEF AskedForm
  <2> QED  BY <2>3 DEF Asked
<1> QED  BY <1>1, <1>2, <1>3 DEF Requests

\* A request that arrives knows what it should.
LEMMA AskedKnows ==
  ASSUME NEW r, Asked(r), DomainsInv
  PROVE  Knows(r)
<1>1. CASE AskedFlow(r)
  <2>1. r.op \notin {"UpdateStage", "DeleteStage", "ReorderStages"}
    BY <1>1 DEF AskedFlow, AsksEdit, AsksCreateFlow, AsksDuplicate, AsksCreateNode,
                AsksUpdateNode, AsksDeleteNode, EditOps
  <2>2. r.op \in {"UpdateNode", "DeleteNode"} =>
          DOMAIN r.set \subseteq NodeColumns /\ r.n \in Node /\ At(r) = "LoadNode"
    BY <1>1 DEF Live, DomainsInv, AskedFlow, AsksEdit, AsksCreateFlow, AsksDuplicate, AsksCreateNode,
                AsksUpdateNode, AsksDeleteNode, EditOps, NodeColumns
  <2> QED  BY <2>1, <2>2 DEF Knows, KnowsNode, KnowsStage, KnowsTarget, KnowsList
<1>2. CASE AskedForm(r)
  <2>1. r.op \notin {"UpdateNode", "DeleteNode", "UpdateStage", "DeleteStage", "ReorderStages"}
    BY <1>2 DEF AskedForm, AsksCreateForm, AsksUpdateForm, AsksFormActive, AsksDeleteForm,
                AsksDeleteResponse, AsksFill
  <2> QED  BY <2>1 DEF Knows, KnowsNode, KnowsStage, KnowsTarget, KnowsList
<1>3. CASE AskedKanban(r)
  <2> USE DEF Knows, KnowsNode, KnowsStage, KnowsTarget, KnowsList
  <2>1. CASE AsksReorder(r)
    <3>1. r.list \in Seq(Stage)
      <4>1. StagesOf(r.k) \subseteq Stage
        BY DEF StagesOf, Live, DomainsInv
      <4>2. Cardinality(StagesOf(r.k)) \in Nat
        BY <4>1, TablesAssumption, FS_Subset, FS_CardinalityType
      <4> QED  BY <2>1, <4>1, <4>2 DEF AsksReorder
    <3> QED  BY <2>1, <3>1 DEF AsksReorder
  <2>2. CASE AsksDeleteStage(r)
    <3>1. r.to # r.s
      <4>1. r.s \in Stage /\ None \notin Stage
        BY <2>2, TablesAssumption DEF AsksDeleteStage, Live, DomainsInv
      <4> QED  BY <2>2, <4>1 DEF AsksDeleteStage
    <3> QED  BY <2>2, <3>1 DEF AsksDeleteStage
  <2>3. CASE AsksUpdateStage(r)
    BY <2>3 DEF AsksUpdateStage
  <2>4. CASE ~(AsksReorder(r) \/ AsksDeleteStage(r) \/ AsksUpdateStage(r))
    <3>1. r.op \notin {"UpdateNode", "DeleteNode", "UpdateStage", "DeleteStage", "ReorderStages"}
      BY <1>3, <2>4 DEF AskedKanban, AsksCreateKanban, AsksSaveKanban, AsksCreateStage,
                        AsksMoveLead, AsksReachNode
    <3> QED  BY <3>1
  <2> QED  BY <2>1, <2>2, <2>3, <2>4
<1> QED  BY <1>1, <1>2, <1>3 DEF Asked

\* The row of the next request was a blank one.
LEMMA Arrives ==
  ASSUME StrandInv, Arrive
  PROVE  /\ StrandInv'
         /\ \E q \in Request : /\ request[q].op = "none"
                               /\ OnlyOne(q) /\ RequestInv(request'[q]) /\ Asked(request'[q])
<1> DEFINE q == Min(Unasked)
<1>1. q \in Request /\ request[q].op = "none"
  <2>1. Unasked \subseteq Nat /\ Unasked # {}
    BY TablesAssumption DEF Unasked, Arrive
  <2> QED  BY <2>1, Smallest DEF Unasked
<1>2. PICK r \in Requests : request' = [request EXCEPT ![q] = r]
  BY DEF Arrive
<1> HIDE DEF q
<1>3. RequestInv(r) /\ Asked(r) /\ Knows(r)
  BY <1>2, EveryRequestAsked, AskedKnows DEF StrandInv, RowsInv
<1>4. request'[q] = r /\ (\A p \in Request : p # q => request'[p] = request[p])
      /\ request' = [p \in Request |-> request'[p]]
  BY <1>1, <1>2 DEF StrandInv, RequestsInv
<1>5. RequestsInv'
  BY <1>3, <1>4 DEF StrandInv, RequestsInv
<1>6. RowsInv'
  BY DEF Arrive, tables, StrandInv, RowsInv, DomainsInv
<1> QED  BY <1>1, <1>2, <1>3, <1>4, <1>5, <1>6 DEF StrandInv, OnlyOne

-----------------------------------------------------------------------------
(* The statements, for the requests *)

\* A statement belongs to the request that does it.
LEMMA OpOf ==
  ASSUME RequestsInv, NEW q \in Request, NEW x, Does(q, x)
  PROVE  /\ \E y : Follows(request[q].op, x, y)
         /\ RequestInv(request[q]) /\ Knows(request[q]) /\ Shaped(request[q])
         /\ At(request[q]) = x /\ x \in Statement
         /\ request[q].todo # <<>> /\ Len(request[q].todo) \in Nat /\ Len(request[q].todo) > 0
<1> DEFINE t == request[q].todo
<1>1. RequestInv(request[q]) /\ Knows(request[q]) /\ t # <<>> /\ Head(t) = x
  BY DEF RequestsInv, Does, InFlight
<1>2. t \in Seq(Statement) /\ \A i \in 1 .. Len(t) :
        Follows(request[q].op, t[i], IF i = Len(t) THEN "end" ELSE t[i + 1])
  BY <1>1 DEF RequestInv, Chained, Left
<1>3. At(request[q]) = x /\ Shaped(request[q])
  BY <1>1 DEF At, RequestInv
<1> HIDE DEF t
<1>4. Len(t) \in Nat /\ Len(t) > 0 /\ Head(t) = t[1] /\ 1 \in 1 .. Len(t) /\ t[1] \in Statement
  BY <1>1, <1>2
<1>5. \E y : Follows(request[q].op, x, y)
  BY <1>1, <1>2, <1>4
<1> QED  BY <1>1, <1>3, <1>4, <1>5 DEF t

\* A refusal leaves the other requests alone.
LEMMA RefuseKeeps ==
  ASSUME RequestsInv, NEW q \in Request, Refuse(q)
  PROVE  RequestsInv' /\ OnlyOne(q) /\ request'[q] = Ended(request[q], "refused")
BY Refused DEF Refuse

\* Which requests do a statement.
LEMMA OpsOf ==
  ASSUME NEW op, NEW y
  PROVE  /\ Follows(op, "LoadNode", y) => op \in {"UpdateNode", "DeleteNode", "LeadReachesNode"}
         /\ Follows(op, "LoadFlow", y) =>
              op \in EditOps \union {"DuplicateFlow", "CreateNode", "UpdateNode", "DeleteNode"}
         /\ Follows(op, "SaveFlow", y) => op \in EditOps
         /\ Follows(op, "NoFlowYet", y) => op = "CreateFlow"
         /\ Follows(op, "CreateFlowRow", y) => op = "CreateFlow"
         /\ Follows(op, "CreateNodeRow", y) => op = "CreateNode"
         /\ Follows(op, "SaveNode", y) => op \in {"UpdateNode", "DeleteNode"}
         /\ Follows(op, "DropOptions", y) => op \in {"UpdateNode", "DeleteNode"}
         /\ Follows(op, "AddOptions", y) => op \in {"UpdateNode", "CreateNode"}
         /\ Follows(op, "ClearNodeArrows", y) => op = "DeleteNode"
         /\ Follows(op, "ClearOptionArrows", y) => op = "DeleteNode"
         /\ Follows(op, "ForgetStart", y) => op = "DeleteNode"
         /\ Follows(op, "ReadSource", y) => op = "DuplicateFlow"
         /\ Follows(op, "CopyFlow", y) => op = "DuplicateFlow"
         /\ Follows(op, "LoadKanban", y) =>
              op \in {"UpdateKanban", "DeleteKanban", "CreateStage", "UpdateStage", "ReorderStages",
                      "DeleteStage", "MoveLead"}
         /\ Follows(op, "SaveKanban", y) => op \in {"UpdateKanban", "DeleteKanban"}
         /\ Follows(op, "CreateKanbanRow", y) => op = "CreateKanban"
         /\ Follows(op, "CreateStageRow", y) => op \in {"CreateKanban", "CreateStage"}
         /\ Follows(op, "ReadMaxOrder", y) => op = "CreateStage"
         /\ Follows(op, "LoadStage", y) => op \in {"UpdateStage", "DeleteStage", "MoveLead"}
         /\ Follows(op, "SaveStage", y) => op = "UpdateStage"
         /\ Follows(op, "ListStages", y) => op = "ReorderStages"
         /\ Follows(op, "SaveOrder", y) => op = "ReorderStages"
         /\ Follows(op, "ReadUsage", y) => op = "DeleteStage"
         /\ Follows(op, "LoadTarget", y) => op = "DeleteStage"
         /\ Follows(op, "MoveLeads", y) => op = "DeleteStage"
         /\ Follows(op, "MoveNodes", y) => op = "DeleteStage"
         /\ Follows(op, "MoveFillNodes", y) => op = "DeleteStage"
         /\ Follows(op, "FlagStage", y) => op = "DeleteStage"
         /\ Follows(op, "SaveLead", y) => op \in FillOps \union {"MoveLead", "LeadReachesNode"}
         /\ Follows(op, "LoadForm", y) =>
              op \in FillOps \union {"UpdateForm", "SetFormActive", "DeleteForm", "DeleteResponse"}
         /\ Follows(op, "SaveForm", y) => op \in {"UpdateForm", "SetFormActive"}
         /\ Follows(op, "FlagForm", y) => op = "DeleteForm"
         /\ Follows(op, "CreateFormRow", y) => op = "CreateForm"
         /\ Follows(op, "LockDropped", y) => op = "UpdateForm"
         /\ Follows(op, "UpsertFields", y) => op = "UpdateForm"
         /\ Follows(op, "SaveResponse", y) => op \in FillOps
         /\ Follows(op, "FlagResponse", y) => op = "DeleteResponse"
         /\ Follows(op, "FindByLeadPhone", y) => op \in FillOps
<1>1. ASSUME NEW x, FlowFollows(op, x, y) \/ KanbanFollows(op, x, y)
      PROVE  x \in {"LoadNode", "LoadFlow", "SaveFlow", "NoFlowYet", "CreateFlowRow",
                    "CreateNodeRow", "SaveNode", "DropOptions", "AddOptions", "ClearNodeArrows",
                    "ClearOptionArrows", "ForgetStart", "ReadSource", "CopyFlow",
                    "LoadKanban", "SaveKanban", "CreateKanbanRow", "CreateStageRow",
                    "ReadMaxOrder", "LoadStage", "SaveStage", "ListStages", "SaveOrder",
                    "ReadUsage", "LoadTarget", "MoveLeads", "MoveNodes", "MoveFillNodes",
                    "FlagStage", "SaveLead"}
  BY <1>1 DEF FlowFollows, KanbanFollows
<1> USE DEF Follows, FlowFollows, KanbanFollows, FormFollows
<1> QED  OBVIOUS

\* The statements of the editor leave requests that know what they should.
LEMMA FlowStatementRequests ==
  ASSUME StrandInv, NEW q \in Request, FlowStatement(q)
  PROVE  RequestsInv'
<1> DEFINE r == request[q]
<1>0. RequestsInv /\ r = request[q]
  BY DEF StrandInv
<1> HIDE DEF r
<1>1. CASE LoadFlow(q)
  <2> DEFINE M == [r EXCEPT !.owner = flow[r.f]]
  <2>1. Does(q, "LoadFlow") /\ (Refuse(q) \/ Continue(q, M))
    BY <1>0, <1>1 DEF LoadFlow
  <2>2. Shaped(r)
    BY <1>0, <2>1, OpOf
  <2>3. Alike(r, M) /\ Keeps(r, "LoadFlow", M)
    BY <2>2 DEF Alike, Shaped, Columns, Keeps
  <2> HIDE DEF M
  <2> QED  BY <1>0, <2>1, <2>3, RefuseKeeps, GoesOn
<1>2. CASE SaveFlow(q) \/ NoFlowYet(q) \/ CreateFlowRow(q) \/ SaveNode(q) \/ DropOptions(q)
           \/ AddOptions(q) \/ ClearNodeArrows(q) \/ ClearOptionArrows(q) \/ ForgetStart(q)
           \/ CopyFlow(q) \/ CopyRefused(q)
  <2>1. Refuse(q) \/ \E x \in {"SaveFlow", "NoFlowYet", "CreateFlowRow", "SaveNode", "DropOptions",
                              "AddOptions", "ClearNodeArrows", "ClearOptionArrows", "ForgetStart",
                              "CopyFlow"} : Does(q, x) /\ Continue(q, request[q])
    BY <1>2 DEF SaveFlow, NoFlowYet, CreateFlowRow, SaveNode, DropOptions, AddOptions,
                ClearNodeArrows, ClearOptionArrows, ForgetStart, CopyFlow, CopyRefused
  <2> QED  BY <1>0, <2>1, RefuseKeeps, TicksOff
<1>3. CASE LoadNode(q)
  <2> DEFINE M == [r EXCEPT !.row = node[r.n], !.f = node[r.n].flow, !.s = node[r.n].stage]
  <2>1. Does(q, "LoadNode") /\ (Refuse(q) \/ Continue(q, M))
    BY <1>0, <1>3 DEF LoadNode
  <2>2. Shaped(r) /\ Knows(r) /\ At(r) = "LoadNode" /\ \E y : Follows(r.op, "LoadNode", y)
    BY <1>0, <2>1, OpOf
  <2>3. r.op \in {"UpdateNode", "DeleteNode", "LeadReachesNode"}
    BY <2>2, OpsOf
  <2>4. r.op \in {"UpdateNode", "DeleteNode"} => NodeRow(node[r.n])
    BY <2>2 DEF StrandInv, Knows, KnowsNode, RowsInv
  <2>5. Alike(r, M) /\ M.row = node[r.n] /\ M.set = r.set /\ M.n = r.n /\ M.list = r.list
    BY <2>2 DEF Alike, Shaped, Columns
  <2> HIDE DEF M
  <2>6. Keeps(r, "LoadNode", M)
    BY <2>3, <2>4, <2>5 DEF Keeps
  <2> QED  BY <1>0, <2>1, <2>5, <2>6, RefuseKeeps, GoesOn
<1>4. CASE CreateNodeRow(q)
  <2> DEFINE M == [r EXCEPT !.n = Fresh(node)]
  <2>1. Does(q, "CreateNodeRow") /\ Continue(q, M)
    BY <1>0, <1>4 DEF CreateNodeRow
  <2>2. Shaped(r) /\ \E y : Follows(r.op, "CreateNodeRow", y)
    BY <1>0, <2>1, OpOf
  <2>3. r.op = "CreateNode"
    BY <2>2, OpsOf
  <2>4. Alike(r, M) /\ Keeps(r, "CreateNodeRow", M)
    BY <2>2, <2>3 DEF Alike, Shaped, Columns, Keeps
  <2> HIDE DEF M
  <2> QED  BY <1>0, <2>1, <2>4, GoesOn
<1>5. CASE ReadSource(q)
  <2> DEFINE M == [r EXCEPT !.owner = flow[r.f],
                            !.row = [n \in NodesOf(r.f) |-> Over(node[n], [options |-> option[n]])]]
  <2>1. Does(q, "ReadSource") /\ (Refuse(q) \/ Continue(q, M))
    BY <1>0, <1>5 DEF ReadSource
  <2>2. Shaped(r) /\ \E y : Follows(r.op, "ReadSource", y)
    BY <1>0, <2>1, OpOf
  <2>3. r.op = "DuplicateFlow"
    BY <2>2, OpsOf
  <2>4. Alike(r, M) /\ Keeps(r, "ReadSource", M)
    BY <2>2, <2>3 DEF Alike, Shaped, Columns, Keeps
  <2> HIDE DEF M
  <2> QED  BY <1>0, <2>1, <2>4, RefuseKeeps, GoesOn
<1> QED  BY <1>1, <1>2, <1>3, <1>4, <1>5 DEF FlowStatement

\* So do those of the forms.
LEMMA FormStatementRequests ==
  ASSUME StrandInv, NEW q \in Request, FormStatement(q)
  PROVE  RequestsInv'
<1> DEFINE r == request[q]
<1>0. RequestsInv /\ r = request[q]
  BY DEF StrandInv
<1> HIDE DEF r
<1>1. CASE LoadForm(q)
  <2> DEFINE M == [r EXCEPT !.row = form[r.m]]
  <2>1. Does(q, "LoadForm") /\ (Refuse(q) \/ Continue(q, M))
    BY <1>0, <1>1 DEF LoadForm, Load
  <2>2. Shaped(r) /\ \E y : Follows(r.op, "LoadForm", y)
    BY <1>0, <2>1, OpOf
  <2>3. r.op \notin {"UpdateNode", "DeleteNode"}
    BY <2>2, OpsOf DEF FillOps
  <2>4. Alike(r, M) /\ Keeps(r, "LoadForm", M)
    BY <2>2, <2>3 DEF Alike, Shaped, Columns, Keeps
  <2> HIDE DEF M
  <2> QED  BY <1>0, <2>1, <2>4, RefuseKeeps, GoesOn
<1>2. CASE SaveForm(q) \/ FlagForm(q) \/ CreateFormRow(q) \/ SaveResponse(q) \/ FlagResponse(q)
  <2>1. \E x \in {"SaveForm", "FlagForm", "CreateFormRow", "SaveResponse", "FlagResponse"} :
          Does(q, x) /\ Continue(q, request[q])
    BY <1>2 DEF SaveForm, FlagForm, CreateFormRow, SaveResponse, FlagResponse
  <2> QED  BY <1>0, <2>1, TicksOff
<1>3. ASSUME NEW x \in {"LockDropped", "UpsertFields"}, NEW T, Does(q, x),
             Continue(q, [r EXCEPT !.targets = T])
      PROVE  RequestsInv'
  <2> DEFINE M == [r EXCEPT !.targets = T]
  <2>1. Shaped(r)
    BY <1>0, <1>3, OpOf
  <2>2. Alike(r, M) /\ Keeps(r, x, M)
    BY <2>1 DEF Alike, Shaped, Columns, Keeps
  <2>3. Continue(q, M)
    BY <1>3
  <2> HIDE DEF M
  <2> QED  BY <1>0, <1>3, <2>2, <2>3, GoesOn
<1>4. CASE LockDropped(q) \/ UpsertFields(q)
  <2>1. CASE LockDropped(q)
    BY <1>0, <1>3, <2>1 DEF LockDropped
  <2>2. CASE UpsertFields(q)
    BY <1>0, <1>3, <2>2 DEF UpsertFields
  <2> QED  BY <1>4, <2>1, <2>2
<1>5. CASE FindByLeadPhone(q)
  <2>1. PICK c : Does(q, "FindByLeadPhone") /\ (Refuse(q) \/ Continue(q, [r EXCEPT !.c = c]))
    BY <1>0, <1>5 DEF FindByLeadPhone
  <2> DEFINE M == [r EXCEPT !.c = c]
  <2>2. Shaped(r)
    BY <1>0, <2>1, OpOf
  <2>3. Alike(r, M) /\ Keeps(r, "FindByLeadPhone", M)
    BY <2>2 DEF Alike, Shaped, Columns, Keeps
  <2>4. Refuse(q) \/ Continue(q, M)
    BY <2>1
  <2> HIDE DEF M
  <2> QED  BY <1>0, <2>1, <2>3, <2>4, RefuseKeeps, GoesOn
<1> QED  BY <1>1, <1>2, <1>4, <1>5 DEF FormStatement

\* The list of a reordering becomes the list of its saves.
LEMMA ListStagesRequests ==
  ASSUME StrandInv, NEW q \in Request, ListStages(q)
  PROVE  RequestsInv' /\ At(request'[q]) \in {"SaveOrder", "end"}
<1> DEFINE r == request[q]
           Placed(i) == [stage[r.list[i]] EXCEPT !.order = i - 1]
           moved == {i \in DOMAIN r.list : Placed(i) # stage[r.list[i]]}
           saves == [i \in 1 .. Cardinality(moved) |-> "SaveOrder"]
           M == [r EXCEPT !.list = [i \in moved |-> [id |-> r.list[i], row |-> Placed(i)]],
                          !.todo = <<@[1]>> \o saves]
<1>1. Does(q, "ListStages")
  BY DEF ListStages
<1>2. CASE Refuse(q)
  BY <1>2, RefuseKeeps, EndedKnows DEF StrandInv
<1>3. CASE ~Refuse(q)
  <2>1. Continue(q, M) /\ \A i \in DOMAIN r.list : r.list[i] \in StagesOf(r.k)
    BY <1>3 DEF ListStages
  <2>2. r.op = "ReorderStages" /\ Knows(r) /\ Shaped(r) /\ At(r) = "ListStages"
        /\ r.todo # <<>> /\ r.todo \in Seq(Statement)
    <3>1. /\ \E y : Follows(r.op, "ListStages", y)
          /\ Knows(r) /\ Shaped(r) /\ At(r) = "ListStages" /\ r.todo # <<>> /\ RequestInv(r)
      BY <1>1, OpOf DEF StrandInv
    <3> HIDE DEF r
    <3>2. r.op = "ReorderStages"
      BY <3>1, OpsOf
    <3> QED  BY <3>1, <3>2 DEF RequestInv, Chained
  <2>3. r.list \in Seq(Stage)
    BY <2>2 DEF Knows, KnowsList
  <2>4. IsFiniteSet(moved) /\ moved \subseteq Nat /\ Cardinality(moved) \in Nat
    <3>1. DOMAIN r.list = 1 .. Len(r.list) /\ Len(r.list) \in Nat
      BY <2>3
    <3>2. IsFiniteSet(1 .. Len(r.list)) /\ 1 .. Len(r.list) \subseteq Nat
      BY <3>1, FS_Interval
    <3>3. moved \subseteq 1 .. Len(r.list)
      BY <3>1
    <3> HIDE DEF moved
    <3> QED  BY <3>2, <3>3, FS_Subset, FS_CardinalityType
  <2>5. r.todo[1] = "ListStages"
    BY <2>2 DEF At
  <2> DEFINE c == Cardinality(moved)
             a == <<"ListStages">>
             t == a \o saves
  <2>6. /\ a \in Seq(Statement) /\ Len(a) = 1 /\ a[1] = "ListStages"
        /\ saves \in Seq(Statement) /\ Len(saves) = c /\ \A i \in 1 .. c : saves[i] = "SaveOrder"
    <3> HIDE DEF moved
    <3> QED  BY <2>4 DEF Statement
  <2>7. t \in Seq(Statement) /\ Len(t) = 1 + c /\ t[1] = "ListStages"
        /\ \A i \in 2 .. 1 + c : t[i] = "SaveOrder"
    <3> HIDE DEF a, saves, moved
    <3>1. Len(a \o saves) = Len(a) + Len(saves) /\ a \o saves \in Seq(Statement)
      BY <2>6, ConcatProperties
    <3>2. \A i \in 1 .. Len(a) + Len(saves) :
            (a \o saves)[i] = IF i <= Len(a) THEN a[i] ELSE saves[i - Len(a)]
      BY <2>6, ConcatProperties
    <3>3. c \in Nat
      BY <2>4
    <3> HIDE DEF c
    <3>4. 1 \in 1 .. 1 + c /\ \A i \in 2 .. 1 + c : i \in 1 .. 1 + c /\ ~(i <= 1) /\ i - 1 \in 1 .. c
      BY <3>3
    <3> QED  BY <2>6, <3>1, <3>2, <3>3, <3>4
  <2>8. /\ Shaped(M) /\ M.op = r.op /\ M.todo = t
        /\ M.list = [i \in moved |-> [id |-> r.list[i], row |-> Placed(i)]]
    <3> HIDE DEF moved, saves, Placed
    <3> QED  BY <2>2, <2>5 DEF Shaped, Columns
  <2> HIDE DEF t
  <2>9. RequestInv(M)
    <3>1. c \in Nat
      BY <2>4
    <3> HIDE DEF c, M
    <3>2. ASSUME NEW i \in 1 .. 1 + c
          PROVE  Follows("ReorderStages", t[i], IF i = 1 + c THEN "end" ELSE t[i + 1])
      <4>1. t[i] \in {"ListStages", "SaveOrder"}
        BY <2>7, <3>1
      <4>2. i # 1 + c => t[i + 1] = "SaveOrder"
        BY <2>7, <3>1
      <4> QED  BY <4>1, <4>2 DEF Follows, KanbanFollows
    <3> QED  BY <2>2, <2>7, <2>8, <3>2 DEF RequestInv, Chained, Left
  <2> DEFINE N == IF Len(M.todo) = 1 THEN Ended(M, M.op) ELSE [M EXCEPT !.todo = Tail(@)]
  <2>10. M.todo # <<>> /\ Head(t) = t[1] /\ Len(Tail(t)) = c
    <3>1. c \in Nat
      BY <2>4
    <3> HIDE DEF c
    <3>2. t # <<>>
      BY <2>7, <3>1
    <3>3. Head(t) = t[1] /\ Len(Tail(t)) = Len(t) - 1
      BY <2>7, <3>2, HeadTailProperties
    <3> HIDE DEF M
    <3> QED  BY <2>7, <2>8, <3>1, <3>2, <3>3
  <2>11. /\ RequestInv(N) /\ N.op = "ReorderStages"
         /\ Follows("ReorderStages", Head(M.todo), At(N))
         /\ At(N) # "end" => N.list = M.list /\ N.todo = Tail(M.todo)
    <3> HIDE DEF M, N
    <3>1. N = IF Len(M.todo) = 1 THEN Ended(M, M.op) ELSE [M EXCEPT !.todo = Tail(@)]
      BY DEF N
    <3>2. RequestInv(M) /\ Shaped(M) /\ M.todo # <<>> /\ M.op = "ReorderStages"
      BY <2>2, <2>8, <2>9, <2>10
    <3>3. After(M, Head(M.todo), M, N)
      <4> HIDE DEF r, Placed, moved, saves, c, a
      <4> QED  BY <3>1, <3>2, ChainGoesOn DEF After
    <3> QED  BY <3>2, <3>3 DEF After, Columns
  <2>12. Head(M.todo) = "ListStages" /\ (N.todo = Tail(M.todo) => Len(N.todo) = c)
    <3> HIDE DEF M, N, c
    <3> QED  BY <2>7, <2>8, <2>10
  <2>13. \A i \in moved : LiveStage(M.list[i].row)
    <3>1. ASSUME NEW i \in moved PROVE LiveStage(Placed(i))
      <4>1. stage[r.list[i]].is = "live" /\ StageRow(stage[r.list[i]])
        BY <2>1 DEF StagesOf, Live, StrandInv, RowsInv, DomainsInv
      <4> QED  BY <4>1 DEF LiveStage, StageRow
    <3> HIDE DEF moved, Placed
    <3> QED  BY <2>8, <3>1
  <2> HIDE DEF M, N, moved
  <2>14. At(N) \in {"SaveOrder", "end"}
    BY <2>11, <2>12 DEF Follows, FlowFollows, KanbanFollows, FormFollows, EditOps, FillOps
  <2>15. Knows(N)
    <3>1. KnowsList(N)
      BY <2>4, <2>8, <2>11, <2>12, <2>13, <2>14 DEF KnowsList
    <3> QED  BY <2>11, <3>1 DEF Knows, KnowsNode, KnowsStage, KnowsTarget
  <2>16. request' = [request EXCEPT ![q] = N]
    BY <2>1 DEF Continue, N
  <2> QED  BY <2>11, <2>14, <2>15, <2>16 DEF StrandInv, RequestsInv
<1> QED  BY <1>2, <1>3

\* A reordering saves the row of its least place, a live one, and keeps the others.
LEMMA SaveOrderRequests ==
  ASSUME StrandInv, NEW q \in Request, SaveOrder(q)
  PROVE  /\ RequestsInv'
         /\ LiveStage(request[q].list[Min(DOMAIN request[q].list)].row)
         /\ Min(DOMAIN request[q].list) \in DOMAIN request[q].list
<1> DEFINE r == request[q]
           D == DOMAIN r.list
           i == Min(D)
           M == [r EXCEPT !.list = [j \in D \ {i} |-> r.list[j]]]
<1>1. Does(q, "SaveOrder") /\ Continue(q, M)
  BY DEF SaveOrder
<1>2. Knows(r) /\ Shaped(r) /\ At(r) = "SaveOrder" /\ Len(r.todo) \in Nat /\ Len(r.todo) > 0
  BY <1>1, OpOf DEF StrandInv
<1>3. r.op = "ReorderStages"
  BY <1>1, OpOf
  DEF StrandInv, Follows, FlowFollows, KanbanFollows, FormFollows, EditOps, FillOps
<1>4. /\ D \subseteq Nat /\ IsFiniteSet(D) /\ Cardinality(D) = Len(r.todo)
      /\ \A j \in D : LiveStage(r.list[j].row)
  BY <1>2, <1>3 DEF Knows, KnowsList
<1>5. i \in D
  <2>1. D # {}
    BY <1>2, <1>4, FS_EmptySet
  <2> HIDE DEF D
  <2> QED  BY <1>4, <2>1, Smallest
<1>6. Alike(r, M) /\ M.list = [j \in D \ {i} |-> r.list[j]]
  <2> HIDE DEF D, i
  <2> QED  BY <1>2 DEF Alike, Shaped, Columns
<1> HIDE DEF M
<1>7. OnlyOne(q) /\ After(r, "SaveOrder", M, request'[q])
  BY <1>1, <1>6, Continued DEF StrandInv
<1> DEFINE N == request'[q]
<1>8. /\ N.op = "ReorderStages" /\ Follows("ReorderStages", "SaveOrder", At(N))
      /\ At(N) # "end" => N.list = M.list /\ N.todo = Tail(r.todo)
  BY <1>3, <1>7 DEF After, Columns
<1>9. r.todo \in Seq(Statement) /\ Len(Tail(r.todo)) = Len(r.todo) - 1
  <2>1. r.todo \in Seq(Statement) /\ r.todo # <<>>
    BY <1>1, OpOf DEF StrandInv, RequestInv, Chained
  <2> QED  BY <2>1, HeadTailProperties
<1>10. IsFiniteSet(D \ {i}) /\ Cardinality(D \ {i}) = Cardinality(D) - 1
  <2> HIDE DEF D, i
  <2> QED  BY <1>4, <1>5, FS_RemoveElement
<1> HIDE DEF D, i, N
<1>11. DOMAIN M.list = D \ {i} /\ \A j \in D \ {i} : M.list[j] = r.list[j]
  BY <1>6
<1>12. KnowsList(N)
  <2>1. At(N) \in {"SaveOrder", "end"}
    BY <1>8 DEF Follows, FlowFollows, KanbanFollows, FormFollows, EditOps, FillOps
  <2> QED  BY <1>4, <1>8, <1>9, <1>10, <1>11, <2>1 DEF KnowsList
<1>13. Knows(N)
  BY <1>8, <1>12 DEF Knows, KnowsNode, KnowsStage, KnowsTarget
<1>14. RequestsInv'
  BY <1>7, <1>13 DEF StrandInv, RequestsInv, OnlyOne, After, N
<1> QED  BY <1>4, <1>5, <1>14 DEF D, i

\* What the statements that move rows make of their request.
LEMMA MovesAlike ==
  ASSUME RequestsInv, NEW q \in Request, MoveLeads(q) \/ MoveNodes(q) \/ MoveFillNodes(q)
  PROVE  \E x, M : /\ Does(q, x) /\ Continue(q, M) /\ Alike(request[q], M)
                   /\ M.to = request[q].to /\ M.s = request[q].s
                   /\ M.k = request[q].k /\ M.used = request[q].used
                   /\ \/ x = "MoveLeads" /\ M.leads = {c \in Conv : lead[c] = request[q].s}
                      \/ x = "MoveNodes" /\ M.leads = request[q].leads
                      \/ /\ x = "MoveFillNodes" /\ M.leads = request[q].leads
                         /\ M.nodes = NodesOn(request[q].s)
<1>1. PICK r : r = request[q]
  OBVIOUS
<1>2. Shaped(r)
  BY <1>1 DEF RequestsInv, RequestInv
<1>3. CASE MoveLeads(q)
  <2> DEFINE on == {c \in Conv : lead[c] = r.s}
             M == [r EXCEPT !.leads = on]
  <2>1. Does(q, "MoveLeads") /\ Continue(q, M)
    BY <1>1, <1>3 DEF MoveLeads
  <2>2. M.leads = on /\ Alike(r, M) /\ M.to = r.to /\ M.s = r.s /\ M.k = r.k /\ M.used = r.used
    <3> HIDE DEF on
    <3> QED  BY <1>2 DEF Alike, Shaped, Columns
  <2> HIDE DEF M
  <2> QED  BY <1>1, <2>1, <2>2
<1>4. CASE MoveNodes(q)
  <2>1. PICK some : Does(q, "MoveNodes") /\ Continue(q, [r EXCEPT !.nodes = some])
    BY <1>1, <1>4 DEF MoveNodes
  <2> DEFINE M == [r EXCEPT !.nodes = some]
  <2>2. M.leads = r.leads /\ Alike(r, M) /\ M.to = r.to /\ M.s = r.s /\ M.k = r.k /\ M.used = r.used
    BY <1>2 DEF Alike, Shaped, Columns
  <2>3. Continue(q, M)
    BY <2>1
  <2> HIDE DEF M
  <2> QED  BY <1>1, <2>1, <2>2, <2>3
<1>5. CASE MoveFillNodes(q)
  <2> DEFINE M == [r EXCEPT !.nodes = NodesOn(r.s)]
  <2>1. Does(q, "MoveFillNodes") /\ Continue(q, M)
    BY <1>1, <1>5 DEF MoveFillNodes
  <2>2. /\ M.nodes = NodesOn(r.s) /\ M.leads = r.leads
        /\ Alike(r, M) /\ M.to = r.to /\ M.s = r.s /\ M.k = r.k /\ M.used = r.used
    BY <1>2 DEF Alike, Shaped, Columns
  <2> HIDE DEF M
  <2> QED  BY <1>1, <2>1, <2>2
<1> QED  BY <1>3, <1>4, <1>5

\* The statements of the boards leave requests that know what they should.
LEMMA KanbanStatementRequests ==
  ASSUME StrandInv, NEW q \in Request, KanbanStatement(q)
  PROVE  RequestsInv'
<1> DEFINE r == request[q]
<1>0. RequestsInv /\ r = request[q]
  BY DEF StrandInv
<1> HIDE DEF r
<1>1. CASE LoadKanban(q)
  <2> DEFINE M == [r EXCEPT !.row = kanban[r.k]]
  <2>1. Does(q, "LoadKanban") /\ (Refuse(q) \/ Continue(q, M))
    BY <1>0, <1>1 DEF LoadKanban, Load
  <2>2. Shaped(r) /\ \E y : Follows(r.op, "LoadKanban", y)
    BY <1>0, <2>1, OpOf
  <2>3. r.op \notin {"UpdateNode", "DeleteNode"}
    BY <2>2, OpsOf
  <2>4. Alike(r, M) /\ Keeps(r, "LoadKanban", M)
    BY <2>2, <2>3 DEF Alike, Shaped, Columns, Keeps
  <2> HIDE DEF M
  <2> QED  BY <1>0, <2>1, <2>4, RefuseKeeps, GoesOn
<1>2. CASE SaveKanban(q) \/ SaveStage(q) \/ SaveLead(q) \/ FlagStage(q) \/ LoadTarget(q)
  <2>1. Refuse(q) \/ \E x \in {"SaveKanban", "SaveStage", "SaveLead", "FlagStage",
                              "LoadTarget"} : Does(q, x) /\ Continue(q, request[q])
    BY <1>2 DEF SaveKanban, SaveStage, SaveLead, FlagStage, LoadTarget
  <2> QED  BY <1>0, <2>1, RefuseKeeps, TicksOff
<1>3. CASE CreateKanbanRow(q)
  <2> DEFINE M == [r EXCEPT !.k = Fresh(kanban), !.to = 0]
  <2>1. Does(q, "CreateKanbanRow") /\ Continue(q, M)
    BY <1>0, <1>3 DEF CreateKanbanRow
  <2>2. Shaped(r) /\ \E y : Follows(r.op, "CreateKanbanRow", y)
    BY <1>0, <2>1, OpOf
  <2>3. r.op = "CreateKanban"
    BY <2>2, OpsOf
  <2>4. Alike(r, M) /\ Keeps(r, "CreateKanbanRow", M)
    BY <2>2, <2>3 DEF Alike, Shaped, Columns, Keeps
  <2> HIDE DEF M
  <2> QED  BY <1>0, <2>1, <2>4, GoesOn
<1>4. CASE CreateStageRow(q)
  <2> DEFINE M == [r EXCEPT !.to = @ + 1]
  <2>1. Does(q, "CreateStageRow") /\ Continue(q, M)
    BY <1>0, <1>4 DEF CreateStageRow
  <2>2. Shaped(r) /\ \E y : Follows(r.op, "CreateStageRow", y)
    BY <1>0, <2>1, OpOf
  <2>3. r.op \in {"CreateKanban", "CreateStage"}
    BY <2>2, OpsOf
  <2>4. Alike(r, M) /\ Keeps(r, "CreateStageRow", M)
    BY <2>2, <2>3 DEF Alike, Shaped, Columns, Keeps
  <2> HIDE DEF M
  <2> QED  BY <1>0, <2>1, <2>4, GoesOn
<1>5. CASE ReadMaxOrder(q)
  <2> DEFINE M == [r EXCEPT !.to = MaxOrder(r.k) + 1]
  <2>1. Does(q, "ReadMaxOrder") /\ Continue(q, M)
    BY <1>0, <1>5 DEF ReadMaxOrder
  <2>2. Shaped(r) /\ \E y : Follows(r.op, "ReadMaxOrder", y)
    BY <1>0, <2>1, OpOf
  <2>3. r.op = "CreateStage"
    BY <2>2, OpsOf
  <2>4. Alike(r, M) /\ Keeps(r, "ReadMaxOrder", M)
    BY <2>2, <2>3 DEF Alike, Shaped, Columns, Keeps
  <2> HIDE DEF M
  <2> QED  BY <1>0, <2>1, <2>4, GoesOn
<1>6. CASE LoadStage(q)
  <2> DEFINE M == [r EXCEPT !.row = stage[r.s]]
  <2>1. Does(q, "LoadStage") /\ (Refuse(q) \/ (Continue(q, M) /\ r.s \in StagesOf(r.k)))
    BY <1>0, <1>6 DEF LoadStage
  <2>2. Shaped(r) /\ \E y : Follows(r.op, "LoadStage", y)
    BY <1>0, <2>1, OpOf
  <2>3. r.op \in {"UpdateStage", "DeleteStage", "MoveLead"}
    BY <2>2, OpsOf
  <2>4. Alike(r, M) /\ M.row = stage[r.s] /\ M.to = r.to /\ M.s = r.s
    BY <2>2 DEF Alike, Shaped, Columns
  <2>5. r.s \in StagesOf(r.k) => LiveStage(stage[r.s])
    BY DEF StagesOf, Live, LiveStage, StrandInv, RowsInv, DomainsInv
  <2> HIDE DEF M
  <2>6. r.s \in StagesOf(r.k) => Keeps(r, "LoadStage", M)
    BY <2>3, <2>4, <2>5 DEF Keeps
  <2> QED  BY <1>0, <2>1, <2>4, <2>6, RefuseKeeps, GoesOn
<1>7. CASE ReadUsage(q)
  <2> DEFINE M == [r EXCEPT !.used = Used(r.s)]
  <2>1. Does(q, "ReadUsage") /\ (Refuse(q) \/ Continue(q, M))
    BY <1>0, <1>7 DEF ReadUsage
  <2>2. Shaped(r) /\ \E y : Follows(r.op, "ReadUsage", y)
    BY <1>0, <2>1, OpOf
  <2>3. r.op = "DeleteStage"
    BY <2>2, OpsOf
  <2>4. Alike(r, M) /\ Keeps(r, "ReadUsage", M)
    BY <2>2, <2>3 DEF Alike, Shaped, Columns, Keeps
  <2> HIDE DEF M
  <2> QED  BY <1>0, <2>1, <2>4, RefuseKeeps, GoesOn
<1>8. CASE ListStages(q)
  BY <1>8, ListStagesRequests
<1>9. CASE SaveOrder(q)
  BY <1>9, SaveOrderRequests
<1>10. CASE MoveLeads(q) \/ MoveNodes(q) \/ MoveFillNodes(q)
  <2>1. PICK x, M : /\ Does(q, x) /\ Continue(q, M) /\ Alike(r, M) /\ M.to = r.to /\ M.s = r.s
                    /\ x \in {"MoveLeads", "MoveNodes", "MoveFillNodes"}
    BY <1>0, <1>10, MovesAlike DEF StrandInv
  <2>2. \E y : Follows(r.op, x, y)
    BY <1>0, <2>1, OpOf
  <2>3. r.op = "DeleteStage"
    BY <2>1, <2>2, OpsOf
  <2>4. Keeps(r, x, M)
    BY <2>1, <2>3 DEF Keeps
  <2> QED  BY <1>0, <2>1, <2>4, GoesOn
<1> QED  BY <1>1, <1>2, <1>3, <1>4, <1>5, <1>6, <1>7, <1>8, <1>9, <1>10 DEF KanbanStatement

-----------------------------------------------------------------------------
(* The rows *)

\* Rows written with columns of rows are rows.
LEMMA RowsWritten ==
  /\ \A row, set : NodeRow(row) /\ DOMAIN set \subseteq NodeColumns => NodeRow(Over(set, row))
  /\ \A f, n, s : NodeRow(NewNode(f, n, s)) /\ NewNode(f, n, s).is = "live"
                  /\ NewNode(f, n, s).stage = s
  /\ \A k, i : StageRow(NewStage(k, i)) /\ NewStage(k, i).is = "live"
  /\ \A row, x : NodeRow(row) => NodeRow([row EXCEPT !.next = x]) /\ NodeRow([row EXCEPT !.stage = x])
  /\ \A row, x : StageRow(row) => StageRow([row EXCEPT !.is = x])
<1>1. ASSUME NEW row, NEW set, NodeRow(row), DOMAIN set \subseteq NodeColumns
      PROVE  NodeRow(Over(set, row))
  <2>1. DOMAIN row = NodeColumns
    BY <1>1 DEF NodeRow
  <2>2. DOMAIN set \union DOMAIN row = NodeColumns
    BY <1>1, <2>1
  <2> QED  BY <2>2 DEF NodeRow, Over
<1>2. \A f, n, s : NodeRow(NewNode(f, n, s)) /\ NewNode(f, n, s).is = "live"
                   /\ NewNode(f, n, s).stage = s
  BY DEF NodeRow, NewNode, NodeColumns
<1>3. \A k, i : StageRow(NewStage(k, i)) /\ NewStage(k, i).is = "live"
  BY DEF StageRow, NewStage
<1>4. \A row, x : NodeRow(row) =>
        NodeRow([row EXCEPT !.next = x]) /\ NodeRow([row EXCEPT !.stage = x])
  BY DEF NodeRow, NodeColumns
<1>5. \A row, x : StageRow(row) => StageRow([row EXCEPT !.is = x])
  BY DEF StageRow
<1> QED  BY <1>1, <1>2, <1>3, <1>4, <1>5

\* The row a request writes over a node.
LEMMA SavedNode ==
  ASSUME StrandInv, NEW q \in Request, Does(q, "SaveNode")
  PROVE  NodeRow(Over(request[q].set, request[q].row))
<1> DEFINE r == request[q]
<1>1. (\E y : Follows(r.op, "SaveNode", y)) /\ Knows(r) /\ At(r) = "SaveNode"
  BY OpOf DEF StrandInv
<1>2. r.op \in {"UpdateNode", "DeleteNode"}
  BY <1>1, OpsOf
<1>3. DOMAIN r.set \subseteq NodeColumns /\ NodeRow(r.row)
  BY <1>1, <1>2 DEF Knows, KnowsNode
<1> QED  BY <1>3, RowsWritten

\* The statements of the editor write rows.
LEMMA FlowStatementRows ==
  ASSUME StrandInv, NEW q \in Request, FlowStatement(q)
  PROVE  RowsInv' /\ stage' = stage /\ lead' = lead
<1>0. RowsInv /\ DomainsInv
  BY DEF StrandInv, RowsInv
<1>1. CASE LoadFlow(q) \/ LoadNode(q) \/ NoFlowYet(q) \/ ReadSource(q) \/ CopyRefused(q)
  BY <1>0, <1>1
  DEF LoadFlow, LoadNode, NoFlowYet, ReadSource, CopyRefused, tables, RowsInv, DomainsInv
<1>2. CASE SaveFlow(q) \/ CreateFlowRow(q) \/ ForgetStart(q)
  <2>1. /\ UNCHANGED <<node, option, kanban, stage, form, field, response, lead>>
        /\ flow' = flow \/ \E f, row : flow' = [flow EXCEPT ![f] = row]
    BY <1>2 DEF SaveFlow, CreateFlowRow, ForgetStart
  <2> QED  BY <1>0, <2>1 DEF RowsInv, DomainsInv
<1>3. CASE CreateNodeRow(q) \/ SaveNode(q)
  <2>1. /\ UNCHANGED <<flow, option, kanban, stage, form, field, response, lead>>
        /\ \E n, row : node' = [node EXCEPT ![n] = row] /\ NodeRow(row)
    <3>1. CASE CreateNodeRow(q)
      BY <3>1, RowsWritten DEF CreateNodeRow
    <3>2. CASE SaveNode(q)
      <4> DEFINE row == Over(request[q].set, request[q].row)
      <4>1. NodeRow(row)
        BY <3>2, SavedNode DEF SaveNode
      <4>2. node' = [node EXCEPT ![request[q].n] = row]
            /\ UNCHANGED <<flow, option, kanban, stage, form, field, response, lead>>
        BY <3>2 DEF SaveNode
      <4> HIDE DEF row
      <4> QED  BY <4>1, <4>2
    <3> QED  BY <1>3, <3>1, <3>2
  <2> QED  BY <1>0, <2>1 DEF RowsInv, DomainsInv
<1>4. CASE DropOptions(q) \/ AddOptions(q) \/ ClearOptionArrows(q)
  <2>1. /\ UNCHANGED <<flow, node, kanban, stage, form, field, response, lead>>
        /\ option' = [n \in Node |-> option'[n]]
    <3>1. CASE DropOptions(q)
      BY <1>0, <3>1 DEF DropOptions, DomainsInv
    <3>2. CASE AddOptions(q)
      BY <1>0, <3>2 DEF AddOptions, DomainsInv
    <3>3. CASE ClearOptionArrows(q)
      BY <3>3 DEF ClearOptionArrows
    <3> QED  BY <1>4, <3>1, <3>2, <3>3
  <2> QED  BY <1>0, <2>1 DEF RowsInv, DomainsInv
<1>5. CASE ClearNodeArrows(q)
  <2>1. /\ UNCHANGED <<flow, option, kanban, stage, form, field, response, lead>>
        /\ node' = [x \in Node |->
             IF node[x].next = request[q].n THEN [node[x] EXCEPT !.next = None] ELSE node[x]]
    BY <1>5 DEF ClearNodeArrows
  <2>2. \A n \in Node : NodeRow(node'[n])
    BY <1>0, <2>1, RowsWritten DEF RowsInv
  <2>3. node' = [x \in Node |-> node'[x]]
    BY <2>1
  <2> QED  BY <1>0, <2>1, <2>2, <2>3 DEF RowsInv, DomainsInv
<1>6. CASE CopyFlow(q)
  <2> DEFINE r == request[q]
             rows == r.row
             new == Fresh(flow)
             Copies == {m \in [DOMAIN rows -> Absent(node)] :
                          \A a, b \in DOMAIN rows : a < b => m[a] < m[b]}
             copy == CHOOSE m \in Copies : TRUE
             Of(x) == CHOOSE n \in DOMAIN rows : copy[n] = x
             New == {copy[n] : n \in DOMAIN rows}
             row(x) == NewNode(new, Remapped(copy, rows[Of(x)].next), rows[Of(x)].stage)
             opts(x) == {[o EXCEPT !.next = Remapped(copy, @)] : o \in rows[Of(x)].options}
             frow == [NewFlow(None, r.owner.kanban)
                        EXCEPT !.start = Remapped(copy, r.owner.start)]
  <2>1. /\ UNCHANGED <<kanban, stage, form, field, response, lead>>
        /\ flow' = [flow EXCEPT ![new] = frow]
        /\ node' = [x \in Node |-> IF x \in New THEN row(x) ELSE node[x]]
        /\ option' = [x \in Node |-> IF x \in New THEN opts(x) ELSE option[x]]
    BY <1>6 DEF CopyFlow
  <2>2. \A x : NodeRow(row(x))
    BY RowsWritten
  <2> HIDE DEF frow, new, row, opts, New
  <2>3. /\ flow' = [f \in Flow |-> flow'[f]] /\ node' = [n \in Node |-> node'[n]]
        /\ option' = [n \in Node |-> option'[n]]
    BY <1>0, <2>1 DEF DomainsInv
  <2>4. \A n \in Node : NodeRow(node'[n])
    BY <1>0, <2>1, <2>2 DEF RowsInv
  <2> QED  BY <1>0, <2>1, <2>3, <2>4 DEF RowsInv, DomainsInv
<1> QED  BY <1>1, <1>2, <1>3, <1>4, <1>5, <1>6 DEF FlowStatement

\* So do those of the forms.
LEMMA FormStatementRows ==
  ASSUME StrandInv, NEW q \in Request, FormStatement(q)
  PROVE  RowsInv' /\ stage' = stage /\ lead' = lead
<1>0. RowsInv /\ DomainsInv
  BY DEF StrandInv, RowsInv
<1>1. /\ UNCHANGED <<flow, node, option, kanban, stage, lead>>
      /\ form' = form \/ \E m, row : form' = [form EXCEPT ![m] = row]
      /\ response' = response \/ \E m, row : response' = [response EXCEPT ![m] = row]
      /\ field' = field \/ field' = [x \in Field |-> field'[x]]
  <2>1. CASE LoadForm(q) \/ LockDropped(q) \/ FindByLeadPhone(q)
    BY <2>1 DEF LoadForm, Load, LockDropped, FindByLeadPhone, tables
  <2>2. CASE SaveForm(q) \/ CreateFormRow(q)
    BY <2>2 DEF SaveForm, CreateFormRow
  <2>3. CASE FlagForm(q)
    BY <2>3 DEF FlagForm
  <2>4. CASE SaveResponse(q)
    BY <2>4 DEF SaveResponse
  <2>5. CASE FlagResponse(q)
    BY <2>5 DEF FlagResponse
  <2>6. CASE UpsertFields(q)
    BY <2>6 DEF UpsertFields
  <2> QED  BY <2>1, <2>2, <2>3, <2>4, <2>5, <2>6 DEF FormStatement
<1>2. /\ form' = [m \in Form |-> form'[m]] /\ field' = [x \in Field |-> field'[x]]
      /\ response' = [x \in Response |-> response'[x]]
  BY <1>0, <1>1 DEF DomainsInv
<1> QED  BY <1>0, <1>1, <1>2 DEF RowsInv, DomainsInv

\* So do those of the boards: a stage is deleted by the flag alone.
LEMMA KanbanStatementRows ==
  ASSUME StrandInv, NEW q \in Request, KanbanStatement(q)
  PROVE  /\ RowsInv'
         /\ \/ \A s \in Stage : /\ stage[s].is = "live" => stage'[s].is = "live"
                                /\ stage'[s].is = "deleted" => stage[s].is = "deleted"
            \/ FlagStage(q)
<1> DEFINE r == request[q]
<1>0. RowsInv /\ DomainsInv /\ RequestsInv
  BY DEF StrandInv, RowsInv
<1>1. CASE LoadKanban(q) \/ ReadMaxOrder(q) \/ LoadStage(q) \/ ListStages(q) \/ ReadUsage(q)
           \/ LoadTarget(q) \/ MoveLeads(q) \/ MoveNodes(q) \/ MoveFillNodes(q)
  <2>1. UNCHANGED tables
    BY <1>1 DEF LoadKanban, Load, ReadMaxOrder, LoadStage, ListStages, ReadUsage, LoadTarget,
                MoveLeads, MoveNodes, MoveFillNodes
  <2> QED  BY <1>0, <2>1 DEF tables, RowsInv, DomainsInv
<1>2. CASE SaveKanban(q) \/ CreateKanbanRow(q)
  <2>1. /\ UNCHANGED <<flow, node, option, stage, form, field, response, lead>>
        /\ \E k, row : kanban' = [kanban EXCEPT ![k] = row]
    BY <1>2 DEF SaveKanban, CreateKanbanRow
  <2> QED  BY <1>0, <2>1 DEF RowsInv, DomainsInv
<1>3. CASE SaveLead(q)
  <2>1. /\ UNCHANGED <<flow, node, option, kanban, stage, form, field, response>>
        /\ lead' = lead \/ \E c, s : lead' = [lead EXCEPT ![c] = s]
    BY <1>3 DEF SaveLead
  <2> QED  BY <1>0, <2>1 DEF RowsInv, DomainsInv
<1>4. ASSUME NEW s, NEW row, LiveStage(row), stage' = [stage EXCEPT ![s] = row],
             UNCHANGED <<flow, node, option, kanban, form, field, response, lead>>
      PROVE  /\ RowsInv'
             /\ \A x \in Stage : /\ stage[x].is = "live" => stage'[x].is = "live"
                                 /\ stage'[x].is = "deleted" => stage[x].is = "deleted"
  BY <1>0, <1>4 DEF LiveStage, RowsInv, DomainsInv
<1>5. CASE CreateStageRow(q)
  <2> DEFINE row == NewStage(r.k, r.to)
  <2>1. LiveStage(row)
    BY RowsWritten DEF LiveStage
  <2>2. stage' = [stage EXCEPT ![Fresh(stage)] = row]
        /\ UNCHANGED <<flow, node, option, kanban, form, field, response, lead>>
    BY <1>5 DEF CreateStageRow
  <2> HIDE DEF row
  <2> QED  BY <1>4, <2>1, <2>2
<1>6. CASE SaveStage(q)
  <2>1. Does(q, "SaveStage") /\ stage' = [stage EXCEPT ![r.s] = r.row]
        /\ UNCHANGED <<flow, node, option, kanban, form, field, response, lead>>
    BY <1>6 DEF SaveStage
  <2>2. (\E y : Follows(r.op, "SaveStage", y)) /\ Knows(r) /\ At(r) = "SaveStage"
    BY <1>0, <2>1, OpOf
  <2>3. LiveStage(r.row)
    BY <2>2, OpsOf DEF Knows, KnowsStage
  <2> HIDE DEF r
  <2> QED  BY <1>4, <2>1, <2>3
<1>7. CASE SaveOrder(q)
  <2> DEFINE e == r.list[Min(DOMAIN r.list)]
  <2>1. LiveStage(e.row)
    BY <1>7, SaveOrderRequests
  <2>2. stage' = [stage EXCEPT ![e.id] = e.row]
        /\ UNCHANGED <<flow, node, option, kanban, form, field, response, lead>>
    BY <1>7 DEF SaveOrder
  <2> HIDE DEF e
  <2> QED  BY <1>4, <2>1, <2>2
<1>8. CASE FlagStage(q)
  <2>1. PICK target :
          /\ UNCHANGED <<flow, option, kanban, form, field, response>>
          /\ lead' = [c \in Conv |-> IF c \in r.leads THEN target ELSE lead[c]]
          /\ node' = [n \in Node |-> IF n \in r.nodes THEN [node[n] EXCEPT !.stage = target]
                                      ELSE node[n]]
          /\ stage' = [stage EXCEPT ![r.s].is = "deleted"]
    BY <1>8 DEF FlagStage
  <2> HIDE DEF r
  <2>2. \A n \in Node : NodeRow(node'[n])
    BY <1>0, <2>1, RowsWritten DEF RowsInv
  <2>3. \A s \in Stage : StageRow(stage'[s])
    BY <1>0, <2>1, RowsWritten DEF RowsInv, DomainsInv
  <2>4. /\ node' = [n \in Node |-> node'[n]] /\ lead' = [c \in Conv |-> lead'[c]]
        /\ stage' = [s \in Stage |-> stage'[s]]
    BY <1>0, <2>1 DEF DomainsInv
  <2> QED  BY <1>0, <1>8, <2>1, <2>2, <2>3, <2>4 DEF RowsInv, DomainsInv
<1> QED  BY <1>0, <1>1, <1>2, <1>3, <1>5, <1>6, <1>7, <1>8
         DEF KanbanStatement, tables, LoadKanban, Load, ReadMaxOrder, LoadStage, ListStages,
             ReadUsage, LoadTarget, MoveLeads, MoveNodes, MoveFillNodes, SaveKanban,
             CreateKanbanRow, SaveLead

\* A request cut short changes no row.
LEMMA AbortRows ==
  ASSUME StrandInv, NEW q \in Request, Abort(q)
  PROVE  StrandInv' /\ stage' = stage
<1>1. /\ UNCHANGED tables
      /\ \E op : request' = [request EXCEPT ![q] = Ended(@, op)]
  <2>1. CASE request[q].op = "ReorderStages"
    BY <2>1 DEF Abort, StrandInv, RequestsInv
  <2>2. CASE request[q].op # "ReorderStages"
    BY <2>2 DEF Abort, StrandInv, RequestsInv
  <2> QED  BY <2>1, <2>2
<1>2. RequestsInv'
  BY <1>1, Refused DEF StrandInv
<1>3. RowsInv'
  BY <1>1 DEF StrandInv, RowsInv, DomainsInv, tables
<1> QED  BY <1>1, <1>2, <1>3 DEF StrandInv, tables

\* The behaviour starts with rows, and with no request.
LEMMA StrandInit == DashboardInit => StrandInv
<1> SUFFICES ASSUME DashboardInit PROVE StrandInv
  OBVIOUS
<1>1. RequestsInv
  <2>1. request = [q \in Request |-> Blank]
    BY DEF DashboardInit
  <2> QED  BY <2>1, EndedKnows DEF RequestsInv
<1>2. \A f, n, s, x : NodeRow([NewNode(f, n, s) EXCEPT !.is = x])
  BY DEF NodeRow, NewNode, NodeColumns
<1>3. \A n \in Node : NodeRow(node[n])
  <2>1. node = [n \in Node |->
          CASE n = 1 -> NewNode(1, 2, 1)
            [] n = 2 -> NewNode(1, None, None)
            [] OTHER -> [NewNode(None, None, None) EXCEPT !.is = "absent"]]
    BY DEF DashboardInit
  <2> QED  BY <1>2, <2>1, RowsWritten
<1>4. \A s \in Stage : StageRow(stage[s])
  <2>1. stage = [s \in Stage |->
          CASE s <= 2 -> NewStage(1, s - 1)
            [] s = 3 -> NewStage(2, 0)
            [] s = 4 -> [NewStage(1, 2) EXCEPT !.is = "deleted"]
            [] OTHER -> [NewStage(None, 0) EXCEPT !.is = "absent"]]
    BY DEF DashboardInit
  <2> QED  BY <2>1, RowsWritten
<1>5. DomainsInv
  <2>1. flow = [f \in Flow |-> flow[f]]
    <3> DEFINE row(f) ==
                 IF f = 1
               THEN [NewFlow(CHOOSE p \in Phone : TRUE, 1) EXCEPT !.start = 1, !.active = TRUE]
               ELSE [NewFlow(None, None) EXCEPT !.is = "absent"]
    <3>1. flow = [f \in Flow |-> row(f)]
      BY DEF DashboardInit
    <3> HIDE DEF row
    <3> QED  BY <3>1
  <2>2. node = [n \in Node |-> node[n]]
    <3> DEFINE row(n) ==
                 CASE n = 1 -> NewNode(1, 2, 1)
                [] n = 2 -> NewNode(1, None, None)
                [] OTHER -> [NewNode(None, None, None) EXCEPT !.is = "absent"]
    <3>1. node = [n \in Node |-> row(n)]
      BY DEF DashboardInit
    <3> HIDE DEF row
    <3> QED  BY <3>1
  <2>3. option = [n \in Node |-> option[n]]
    BY DEF DashboardInit
  <2>4. kanban = [k \in Kanban |-> kanban[k]]
    BY DEF DashboardInit
  <2>5. stage = [s \in Stage |-> stage[s]]
    <3> DEFINE row(s) ==
                 CASE s <= 2 -> NewStage(1, s - 1)
                [] s = 3 -> NewStage(2, 0)
                [] s = 4 -> [NewStage(1, 2) EXCEPT !.is = "deleted"]
                [] OTHER -> [NewStage(None, 0) EXCEPT !.is = "absent"]
    <3>1. stage = [s \in Stage |-> row(s)]
      BY DEF DashboardInit
    <3> HIDE DEF row
    <3> QED  BY <3>1
  <2>6. form = [m \in Form |-> form[m]]
    BY DEF DashboardInit
  <2>7. field = [x \in Field |-> field[x]]
    BY DEF DashboardInit
  <2>8. response = [x \in Response |-> response[x]]
    BY DEF DashboardInit
  <2>9. lead = [c \in Conv |-> lead[c]]
    BY DEF DashboardInit
  <2> QED  BY <2>1, <2>2, <2>3, <2>4, <2>5, <2>6, <2>7, <2>8, <2>9 DEF DomainsInv
<1> QED  BY <1>1, <1>3, <1>4, <1>5 DEF StrandInv, RowsInv

\* One step keeps the invariant.
LEMMA StrandStep ==
  ASSUME StrandInv, [DashboardNext]_vars
  PROVE  StrandInv'
<1>1. CASE UNCHANGED vars
  BY <1>1 DEF vars, tables, StrandInv, RowsInv, DomainsInv, RequestsInv
<1>2. CASE Arrive
  BY <1>2, Arrives
<1>3. ASSUME NEW q \in Request, FlowStatement(q) PROVE StrandInv'
  BY <1>3, FlowStatementRequests, FlowStatementRows DEF StrandInv
<1>4. ASSUME NEW q \in Request, FormStatement(q) PROVE StrandInv'
  BY <1>4, FormStatementRequests, FormStatementRows DEF StrandInv
<1>5. ASSUME NEW q \in Request, KanbanStatement(q) PROVE StrandInv'
  BY <1>5, KanbanStatementRequests, KanbanStatementRows DEF StrandInv
<1>6. ASSUME NEW q \in Request, Abort(q) PROVE StrandInv'
  BY <1>6, AbortRows
<1> QED  BY <1>1, <1>2, <1>3, <1>4, <1>5, <1>6 DEF DashboardNext

\* Whatever overlaps, the requests are chains of statements that know what they
\* loaded, and the tables hold rows.
THEOREM StrandInvariant == DashboardSpec => []StrandInv
<1>1. StrandInv /\ [DashboardNext]_vars => StrandInv'
  BY StrandStep
<1> QED  BY StrandInit, <1>1, PTL DEF DashboardSpec

-----------------------------------------------------------------------------
(* One request at a time *)

\* No two requests are under way.
Alone == \A p, q \in InFlight : p = q

\* The editor: arrows and starts lead to nodes of their flow, an option is of one
\* edit, a node not created yet has none.
FlowRow(row) == row = [x \in FlowColumns |-> row[x]]
OptionRow(o) == o = [x \in {"by", "next"} |-> o[x]]
FlowsInv ==
  /\ \A f \in Flow : FlowRow(flow[f]) /\ flow[f].start \in Arrows(f)
  /\ \A n \in Live(node) : /\ node[n].flow \in Flow \ Absent(flow)
                           /\ node[n].next \in Arrows(node[n].flow)
                           /\ \A o \in option[n] : o.next \in Arrows(node[n].flow)
  /\ \A n \in Node : \A o, p \in option[n] : OptionRow(o) /\ o.by = p.by
  /\ \A n \in Absent(node) : option[n] = {}

\* What the requests of the editor know of the tables while they are alone.
KnowsEdit(r, y) ==
  /\ r.f \in Live(flow) /\ DOMAIN r.set \subseteq FlowColumns
  /\ "start" \in DOMAIN r.set => r.set.start \in NodesOf(r.f)
  /\ "is" \in DOMAIN r.set => r.set.is = "deleted"
  /\ "kanban" \in DOMAIN r.set => r.op = "UpdateFlow"
  /\ y = "SaveFlow" => r.owner = flow[r.f]
KnowsSource(r, y) ==
  /\ r.f \in Live(flow)
  /\ y = "CopyFlow" =>
       /\ r.owner = flow[r.f]
       /\ r.row = [n \in NodesOf(r.f) |-> Over(node[n], [options |-> option[n]])]
KnowsNewNode(r, y) ==
  /\ r.f \in Live(flow) /\ r.s = None
  /\ r.to \in Arrows(r.f) /\ r.targets \subseteq Arrows(r.f)
  /\ y = "AddOptions" => r.n \in NodesOf(r.f) /\ option[r.n] = {}
KnowsEdited(r, y) ==
  /\ r.n \in Live(node) /\ DOMAIN r.set \subseteq {"next", "stage"}
  /\ "next" \in DOMAIN r.set => r.set.next \in Arrows(node[r.n].flow)
  /\ r.targets \subseteq Arrows(node[r.n].flow)
  /\ y \in {"LoadFlow", "SaveNode"} => r.row = node[r.n]
  /\ y = "AddOptions" => option[r.n] = {}
KnowsDoomed(r, y) ==
  /\ r.n \in Live(node) /\ r.set = [is |-> "deleted"]
  /\ y # "LoadNode" => r.f = node[r.n].flow
  /\ y \in {"DropOptions", "ClearNodeArrows", "ClearOptionArrows", "ForgetStart"} =>
       r.owner = flow[r.f]
  /\ y \in {"ClearOptionArrows", "ForgetStart", "SaveNode"} => \A x \in Node : node[x].next # r.n
  /\ y \in {"ForgetStart", "SaveNode"} => \A x \in Node : \A o \in option[x] : o.next # r.n
  /\ y = "SaveNode" => flow[r.f].start # r.n
FlowKnows(r) ==
  At(r) # "end" => /\ r.op \in EditOps => KnowsEdit(r, At(r))
                   /\ r.op = "DuplicateFlow" => KnowsSource(r, At(r))
                   /\ r.op = "CreateNode" => KnowsNewNode(r, At(r))
                   /\ r.op = "UpdateNode" => KnowsEdited(r, At(r))
                   /\ r.op = "DeleteNode" => KnowsDoomed(r, At(r))

\* The forms: a form shows the fields of one edit, an answer is to a field of its form.
FormRow(row) == row = [x \in {"is", "open"} |-> row[x]]
FieldRow(row) == row = [x \in {"is", "form"} |-> row[x]]
ResponseRow(row) == row = [x \in {"is", "form", "answers"} |-> row[x]]
Answers(a, m) == a \in Field /\ field[a].is # "absent" /\ field[a].form = m
EditsOf(m) ==
  {request[q].targets : q \in {x \in Request : /\ request[x].op = "UpdateForm"
                                               /\ request[x].todo = <<>> /\ request[x].m = m}}
FormsInv ==
  /\ \A m \in Form : FormRow(form[m])
  /\ \A x \in Field : FieldRow(field[x])
  /\ \A x \in Response : ResponseRow(response[x])
  /\ \A m \in Absent(form) : FieldsOf(m) = {}
  /\ \A m \in Live(form) : FieldsOf(m) \in {{}, {1, 2}} \union EditsOf(m)
  /\ \A x \in Live(response) : \A a \in response[x].answers : Answers(a, response[x].form)
KnowsFields(r, y) ==
  /\ r.m \in Live(form) /\ r.set = <<>> /\ Listed(r) \subseteq FieldsOf(r.m) \union {0}
  /\ y = "SaveForm" => r.row = form[r.m]
  /\ y = "UpsertFields" => r.targets = FieldsOf(r.m) \ Listed(r)
KnowsForm(r, y) ==
  /\ r.m \in Live(form) /\ DOMAIN r.set \subseteq {"open"}
  /\ y = "SaveForm" => r.row = form[r.m]
FormKnows(r) ==
  At(r) # "end" => /\ r.op = "UpdateForm" => KnowsFields(r, At(r))
                   /\ r.op = "SetFormActive" => KnowsForm(r, At(r))
                   /\ r.op \in FillOps => \A a \in r.targets : Answers(a, r.m)

\* The boards: the stages of a kanban have a place each, unless their new places are
\* being saved or a reordering was cut short.
KanbanRow(row) == row = [x \in {"is"} |-> row[x]]
Ordered(k) == \A s, t \in StagesOf(k) : stage[s].order = stage[t].order => s = t
Reorders(r, k) == r.op = "ReorderStages" /\ At(r) = "SaveOrder" /\ r.k = k
StagesInv ==
  /\ \A k \in Kanban : KanbanRow(kanban[k])
  /\ \A s \in Stage : stage[s].order \in Nat
  /\ \A k \in Absent(kanban) : StagesOf(k) = {}
  /\ (\A q \in Request : request[q].op # "abortedOrder") =>
       \A k \in Live(kanban) : Ordered(k) \/ \E q \in Request : Reorders(request[q], k)
KnowsKanban(r, y) ==
  /\ r.k \in Live(kanban) /\ (r.set = <<>> \/ r.set = [is |-> "deleted"])
  /\ y = "SaveKanban" => r.row = kanban[r.k]
\* The next stage comes after the others.
IsNext(r, y) ==
  y = "CreateStageRow" =>
    r.k \in Live(kanban) /\ r.to \in Nat /\ \A s \in StagesOf(r.k) : stage[s].order < r.to
\* l is the new order: the places in the list of r are still to be saved.
Places(r, l) ==
  /\ DOMAIN l \subseteq Nat \ {0} /\ DOMAIN r.list \subseteq DOMAIN l
  /\ {l[i] : i \in DOMAIN l} = StagesOf(r.k)
  /\ \A i, j \in DOMAIN l : l[i] = l[j] => i = j
  /\ \A i \in DOMAIN r.list :
       r.list[i].id = l[i] /\ r.list[i].row = [stage[l[i]] EXCEPT !.order = i - 1]
  /\ \A i \in DOMAIN l \ DOMAIN r.list : stage[l[i]].order = i - 1
KnowsPlaces(r, y) ==
  /\ y \in {"LoadKanban", "ListStages"} => \A i, j \in DOMAIN r.list : r.list[i] = r.list[j] => i = j
  /\ y = "SaveOrder" => \E l : Places(r, l)
KnowsRow(r, y) == r.s \in Live(stage) /\ (y = "SaveStage" => r.row = stage[r.s])
StageKnows(r) ==
  At(r) # "end" => /\ r.op \in {"UpdateKanban", "DeleteKanban"} => KnowsKanban(r, At(r))
                   /\ r.op \in {"CreateKanban", "CreateStage"} => IsNext(r, At(r))
                   /\ r.op = "CreateStage" => r.k \in Live(kanban)
                   /\ r.op = "ReorderStages" => KnowsPlaces(r, At(r))
                   /\ r.op = "UpdateStage" => KnowsRow(r, At(r))

\* The leads: while their flow lives, they and its nodes are on stages of its kanban,
\* as the flows copied from it are.
First == Min(Flow)
Home == flow[First].kanban
Quiet ==
  \A q \in Request : request[q].todo = <<>> => request[q].op \notin {"UpdateFlow", "FillOldLink"}
Placed(s) == s \in StagesOf(Home) \union {None}
LeadsInv ==
  /\ First \in Flow \ Absent(flow)
  /\ Quiet /\ First \in Live(flow) =>
       /\ \A f \in Flow \ Absent(flow) : flow[f].kanban = Home
       /\ \A c \in Conv : Placed(lead[c])
       /\ \A n \in Live(node) : Placed(node[n].stage)
OnNode(s) == s = None \/ \E n \in Live(node) : s = node[n].stage
Moving == {"MoveLeads", "MoveNodes", "MoveFillNodes", "FlagStage"}
KnowsDeleted(r, y) ==
  /\ r.s \in Live(stage) /\ r.k = stage[r.s].kanban
  /\ y \in Moving \union {"LoadTarget"} => r.used = Used(r.s) /\ (r.used => r.to # None)
  /\ y \in Moving => r.to \in (StagesOf(r.k) \ {r.s}) \union {None}
  /\ y \in Moving \ {"MoveLeads"} => r.leads = {c \in Conv : lead[c] = r.s}
  /\ y = "FlagStage" => r.nodes = NodesOn(r.s)
LeadKnows(r) ==
  At(r) # "end" =>
    /\ r.op = "CreateFlow" => (At(r) = "CreateFlowRow" => Live(flow) = {})
    /\ r.op = "UpdateNode" =>
         ("stage" \in DOMAIN r.set => r.set.stage \in StageChoices(node[r.n].flow))
    /\ r.op = "DeleteStage" => KnowsDeleted(r, At(r))
    /\ r.op = "MoveLead" => r.s \in StagesOf(Home) /\ r.c \in Conv
    /\ r.op = "LeadReachesNode" =>
         IF At(r) = "SaveLead" THEN OnNode(r.s) ELSE r.n \in Live(node)
    /\ r.op = "FillForm" => OnNode(r.s)

KnowsAlone(r) == FlowKnows(r) /\ FormKnows(r) /\ StageKnows(r) /\ LeadKnows(r)
TablesInv == FlowsInv /\ FormsInv /\ StagesInv /\ LeadsInv
AloneInv ==
  ~overlap => Alone /\ TablesInv /\ \A q \in Request : KnowsAlone(request[q])

-----------------------------------------------------------------------------
(* A statement of a request that is alone *)

FlowOps == EditOps \union {"CreateFlow", "DuplicateFlow", "CreateNode", "UpdateNode", "DeleteNode"}
KanbanOps == {"CreateKanban", "UpdateKanban", "DeleteKanban", "CreateStage", "UpdateStage",
              "ReorderStages", "DeleteStage", "MoveLead"}
FormOps == {"CreateForm", "UpdateForm", "SetFormActive", "DeleteForm", "DeleteResponse"}

\* A request keeps its name until it ends.
Named(q) ==
  /\ OnlyOne(q)
  /\ request'[q].op = request[q].op \/ (request'[q].todo = <<>> /\ request'[q].op = "refused")

\* What stays of the name, and which statement it is at.
LEMMA StaysNamed ==
  ASSUME RequestsInv, NEW q \in Request, NEW x, Does(q, x),
         NEW M, Shaped(request[q]) => Shaped(M) /\ M.op = request[q].op,
         Refuse(q) \/ Continue(q, M)
  PROVE  Named(q) /\ \E y : Follows(request[q].op, x, y)
<1>1. Shaped(M) /\ M.op = request[q].op /\ \E y : Follows(request[q].op, x, y)
  BY OpOf
<1>2. CASE Refuse(q)
  BY <1>1, <1>2, RefuseKeeps, EndedKnows DEF Named
<1>3. CASE Continue(q, M)
  <2> DEFINE N == IF Len(M.todo) = 1 THEN Ended(M, M.op) ELSE [M EXCEPT !.todo = Tail(@)]
  <2>1. N.op = M.op
    <3>1. Ended(M, M.op).op = M.op
      BY EndedKnows
    <3>2. [M EXCEPT !.todo = Tail(@)].op = M.op
      BY <1>1 DEF Shaped, Columns
    <3> QED  BY <3>1, <3>2
  <2>2. request' = [request EXCEPT ![q] = N]
    BY <1>3 DEF Continue
  <2> HIDE DEF N
  <2> QED  BY <1>1, <2>1, <2>2 DEF Named, OnlyOne, RequestsInv
<1> QED  BY <1>1, <1>2, <1>3

\* Which requests do the statements of the editor.
LEMMA FlowStatementOps ==
  ASSUME StrandInv, NEW q \in Request, FlowStatement(q)
  PROVE  Named(q) /\ request[q].op \in FlowOps \union {"LeadReachesNode"}
<1> DEFINE r == request[q]
<1>1. PICK x, M : /\ Does(q, x) /\ (Refuse(q) \/ Continue(q, M))
                  /\ Shaped(r) => Shaped(M) /\ M.op = r.op
                  /\ x \in {"LoadFlow", "SaveFlow", "NoFlowYet", "CreateFlowRow", "LoadNode",
                            "CreateNodeRow", "SaveNode", "DropOptions", "AddOptions",
                            "ClearNodeArrows", "ClearOptionArrows", "ForgetStart", "ReadSource",
                            "CopyFlow"}
  <2> DEFINE P(x, M) == /\ Does(q, x) /\ (Refuse(q) \/ Continue(q, M))
                        /\ Shaped(r) => Shaped(M) /\ M.op = r.op
  <2>1. CASE LoadFlow(q)
    <3>1. P("LoadFlow", [r EXCEPT !.owner = flow[r.f]])
      BY <2>1 DEF LoadFlow, Shaped, Columns
    <3> QED  BY <3>1
  <2>2. CASE LoadNode(q)
    <3>1. P("LoadNode", [r EXCEPT !.row = node[r.n], !.f = node[r.n].flow, !.s = node[r.n].stage])
      BY <2>2 DEF LoadNode, Shaped, Columns
    <3> QED  BY <3>1
  <2>3. CASE CreateNodeRow(q)
    <3>1. P("CreateNodeRow", [r EXCEPT !.n = Fresh(node)])
      BY <2>3 DEF CreateNodeRow, Shaped, Columns
    <3> QED  BY <3>1
  <2>4. CASE ReadSource(q)
    <3>1. P("ReadSource", [r EXCEPT !.owner = flow[r.f],
                !.row = [n \in NodesOf(r.f) |-> Over(node[n], [options |-> option[n]])]])
      BY <2>4 DEF ReadSource, Shaped, Columns
    <3> QED  BY <3>1
  <2>5. CASE SaveFlow(q) \/ NoFlowYet(q) \/ CreateFlowRow(q) \/ SaveNode(q) \/ DropOptions(q)
             \/ AddOptions(q) \/ ClearNodeArrows(q) \/ ClearOptionArrows(q) \/ ForgetStart(q)
             \/ CopyFlow(q) \/ CopyRefused(q)
    <3>1. \E x \in {"SaveFlow", "NoFlowYet", "CreateFlowRow", "SaveNode", "DropOptions", "AddOptions",
                    "ClearNodeArrows", "ClearOptionArrows", "ForgetStart", "CopyFlow"} : P(x, r)
      BY <2>5 DEF SaveFlow, NoFlowYet, CreateFlowRow, SaveNode, DropOptions, AddOptions,
                  ClearNodeArrows, ClearOptionArrows, ForgetStart, CopyFlow, CopyRefused
    <3> QED  BY <3>1
  <2> QED  BY <2>1, <2>2, <2>3, <2>4, <2>5 DEF FlowStatement
<1>2. Named(q) /\ \E y : Follows(r.op, x, y)
  BY <1>1, StaysNamed DEF StrandInv
<1> QED  BY <1>1, <1>2, OpsOf DEF FlowOps

\* Which do those of the forms.
LEMMA FormStatementOps ==
  ASSUME StrandInv, NEW q \in Request, FormStatement(q)
  PROVE  Named(q) /\ request[q].op \in FormOps \union FillOps
<1> DEFINE r == request[q]
<1>1. PICK x, M : /\ Does(q, x) /\ (Refuse(q) \/ Continue(q, M))
                  /\ Shaped(r) => Shaped(M) /\ M.op = r.op
                  /\ x \in {"LoadForm", "SaveForm", "FlagForm", "CreateFormRow", "LockDropped",
                            "UpsertFields", "SaveResponse", "FlagResponse", "FindByLeadPhone"}
  <2> DEFINE P(x, M) == /\ Does(q, x) /\ (Refuse(q) \/ Continue(q, M))
                        /\ Shaped(r) => Shaped(M) /\ M.op = r.op
  <2>1. CASE LoadForm(q)
    <3>1. P("LoadForm", [r EXCEPT !.row = form[r.m]])
      BY <2>1 DEF LoadForm, Load, Shaped, Columns
    <3> QED  BY <3>1
  <2>2. \A T : Shaped(r) => Shaped([r EXCEPT !.targets = T]) /\ [r EXCEPT !.targets = T].op = r.op
    BY DEF Shaped, Columns
  <2>3. CASE LockDropped(q)
    <3>1. \E T : Continue(q, [r EXCEPT !.targets = T]) /\ Does(q, "LockDropped")
      BY <2>3 DEF LockDropped
    <3> QED  BY <2>2, <3>1
  <2>4. CASE UpsertFields(q)
    <3>1. \E T : Continue(q, [r EXCEPT !.targets = T]) /\ Does(q, "UpsertFields")
      BY <2>4 DEF UpsertFields
    <3> QED  BY <2>2, <3>1
  <2>5. CASE FindByLeadPhone(q)
    <3>1. \E c : Does(q, "FindByLeadPhone") /\ (Refuse(q) \/ Continue(q, [r EXCEPT !.c = c]))
      BY <2>5 DEF FindByLeadPhone
    <3>2. \A T : Shaped(r) => Shaped([r EXCEPT !.c = T]) /\ [r EXCEPT !.c = T].op = r.op
      BY DEF Shaped, Columns
    <3> QED  BY <3>1, <3>2
  <2>6. CASE SaveForm(q) \/ FlagForm(q) \/ CreateFormRow(q) \/ SaveResponse(q) \/ FlagResponse(q)
    <3>1. \E x \in {"SaveForm", "FlagForm", "CreateFormRow", "SaveResponse", "FlagResponse"} : P(x, r)
      BY <2>6 DEF SaveForm, FlagForm, CreateFormRow, SaveResponse, FlagResponse
    <3> QED  BY <3>1
  <2> QED  BY <2>1, <2>3, <2>4, <2>5, <2>6 DEF FormStatement
<1>2. Named(q) /\ \E y : Follows(r.op, x, y)
  BY <1>1, StaysNamed DEF StrandInv
<1> QED  BY <1>1, <1>2, OpsOf DEF FormOps

\* Which do those of the boards.
LEMMA KanbanStatementOps ==
  ASSUME StrandInv, NEW q \in Request, KanbanStatement(q)
  PROVE  Named(q) /\ request[q].op \in KanbanOps \union FillOps \union {"LeadReachesNode"}
<1> DEFINE r == request[q]
<1>1. PICK x, M : /\ Does(q, x) /\ (Refuse(q) \/ Continue(q, M))
                  /\ Shaped(r) => Shaped(M) /\ M.op = r.op
                  /\ x \in {"LoadKanban", "SaveKanban", "CreateKanbanRow", "CreateStageRow",
                            "ReadMaxOrder", "LoadStage", "SaveStage", "ListStages", "SaveOrder",
                            "ReadUsage", "LoadTarget", "MoveLeads", "MoveNodes",
                            "MoveFillNodes", "FlagStage", "SaveLead"}
  <2> DEFINE P(x, M) == /\ Does(q, x) /\ (Refuse(q) \/ Continue(q, M))
                        /\ Shaped(r) => Shaped(M) /\ M.op = r.op
  <2>1. CASE LoadKanban(q)
    <3>1. P("LoadKanban", [r EXCEPT !.row = kanban[r.k]])
      BY <2>1 DEF LoadKanban, Load, Shaped, Columns
    <3> QED  BY <3>1
  <2>2. CASE CreateKanbanRow(q)
    <3>1. P("CreateKanbanRow", [r EXCEPT !.k = Fresh(kanban), !.to = 0])
      BY <2>2 DEF CreateKanbanRow, Shaped, Columns
    <3> QED  BY <3>1
  <2>3. CASE CreateStageRow(q)
    <3>1. P("CreateStageRow", [r EXCEPT !.to = @ + 1])
      BY <2>3 DEF CreateStageRow, Shaped, Columns
    <3> QED  BY <3>1
  <2>4. CASE ReadMaxOrder(q)
    <3>1. P("ReadMaxOrder", [r EXCEPT !.to = MaxOrder(r.k) + 1])
      BY <2>4 DEF ReadMaxOrder, Shaped, Columns
    <3> QED  BY <3>1
  <2>5. CASE LoadStage(q)
    <3>1. P("LoadStage", [r EXCEPT !.row = stage[r.s]])
      BY <2>5 DEF LoadStage, Shaped, Columns
    <3> QED  BY <3>1
  <2>6. CASE ReadUsage(q)
    <3>1. P("ReadUsage", [r EXCEPT !.used = Used(r.s)])
      BY <2>6 DEF ReadUsage, Shaped, Columns
    <3> QED  BY <3>1
  <2>7. \A l, t : Shaped(r) => /\ Shaped([r EXCEPT !.list = l, !.todo = t])
                               /\ [r EXCEPT !.list = l, !.todo = t].op = r.op
                               /\ Shaped([r EXCEPT !.list = l]) /\ [r EXCEPT !.list = l].op = r.op
    <3>1. \A l : Shaped(r) => Shaped([r EXCEPT !.list = l]) /\ [r EXCEPT !.list = l].op = r.op
      BY DEF Shaped, Columns
    <3>2. \A l, t : Shaped(r) => Shaped([r EXCEPT !.list = l, !.todo = t])
      BY DEF Shaped, Columns
    <3>3. \A l, t : Shaped(r) => [r EXCEPT !.list = l, !.todo = t].op = r.op
      BY DEF Shaped, Columns
    <3> QED  BY <3>1, <3>2, <3>3
  <2>8. CASE ListStages(q)
    <3>1. Does(q, "ListStages")
          /\ (Refuse(q) \/ \E l, t : Continue(q, [r EXCEPT !.list = l, !.todo = t]))
      BY <2>8 DEF ListStages
    <3> QED  BY <2>7, <3>1
  <2>9. CASE SaveOrder(q)
    <3>1. Does(q, "SaveOrder") /\ \E l : Continue(q, [r EXCEPT !.list = l])
      BY <2>9 DEF SaveOrder
    <3> QED  BY <2>7, <3>1
  <2>10. CASE SaveKanban(q) \/ SaveStage(q) \/ SaveLead(q) \/ FlagStage(q) \/ LoadTarget(q)
    <3>1. \E x \in {"SaveKanban", "SaveStage", "SaveLead", "FlagStage", "LoadTarget"} : P(x, r)
      BY <2>10 DEF SaveKanban, SaveStage, SaveLead, FlagStage, LoadTarget
    <3> QED  BY <3>1
  <2>11. CASE MoveLeads(q) \/ MoveNodes(q) \/ MoveFillNodes(q)
    <3>1. \E x, M : /\ Does(q, x) /\ Continue(q, M) /\ Alike(r, M)
                    /\ x \in {"MoveLeads", "MoveNodes", "MoveFillNodes"}
      BY <2>11, MovesAlike DEF StrandInv
    <3> QED  BY <3>1 DEF Alike
  <2> QED  BY <2>1, <2>2, <2>3, <2>4, <2>5, <2>6, <2>8, <2>9, <2>10, <2>11 DEF KanbanStatement
<1>2. Named(q) /\ \E y : Follows(r.op, x, y)
  BY <1>1, StaysNamed DEF StrandInv
<1> QED  BY <1>1, <1>2, OpsOf DEF KanbanOps

\* A request that went on from x as M is N now.
Went(r, x, M, N) ==
  /\ N.op = r.op /\ At(r) = x /\ x # "end" /\ Follows(r.op, x, At(N))
  /\ N.m = M.m /\ N.targets = M.targets
  /\ At(N) # "end" =>
       /\ N.set = M.set /\ N.f = M.f /\ N.n = M.n /\ N.k = M.k /\ N.s = M.s /\ N.to = M.to
       /\ N.c = M.c /\ N.list = M.list /\ N.owner = M.owner /\ N.row = M.row /\ N.used = M.used
       /\ N.leads = M.leads /\ N.nodes = M.nodes

\* So is every request that goes on.
LEMMA GoesTo ==
  ASSUME StrandInv, NEW q \in Request, NEW x, Does(q, x),
         NEW M, Continue(q, M), Alike(request[q], M)
  PROVE  Went(request[q], x, M, request'[q])
<1>1. After(request[q], x, M, request'[q]) /\ At(request[q]) = x /\ x # "end"
  BY Continued DEF StrandInv
<1> QED  BY <1>1 DEF After, Went, Columns

\* The same for a request that only ticks the statement off.
LEMMA TicksTo ==
  ASSUME StrandInv, NEW q \in Request, NEW x, Does(q, x), Continue(q, request[q])
  PROVE  Went(request[q], x, request[q], request'[q])
BY GoesTo, OpOf DEF Alike, StrandInv

\* A request that is refused is over.
LEMMA RefusedEnds ==
  ASSUME StrandInv, NEW q \in Request, Refuse(q)
  PROVE  At(request'[q]) = "end"
BY RefuseKeeps, EndedKnows DEF StrandInv

\* The order of the statements of the editor's requests.
LEMMA FlowOrder ==
  ASSUME NEW op, NEW x, NEW y, Follows(op, x, y)
  PROVE  /\ op \in EditOps => \/ x = "LoadFlow" /\ y = "SaveFlow"
                              \/ x = "SaveFlow" /\ y = "end"
         /\ op = "DuplicateFlow" => \/ x = "LoadFlow" /\ y = "ReadSource"
                                    \/ x = "ReadSource" /\ y = "CopyFlow"
                                    \/ x = "CopyFlow" /\ y = "end"
         /\ op = "CreateNode" => \/ x = "LoadFlow" /\ y = "CreateNodeRow"
                                 \/ x = "CreateNodeRow" /\ y \in {"AddOptions", "end"}
                                 \/ x = "AddOptions" /\ y = "end"
         /\ op = "UpdateNode" => \/ x = "LoadNode" /\ y = "LoadFlow"
                                 \/ x = "LoadFlow" /\ y = "SaveNode"
                                 \/ x = "SaveNode" /\ y = "DropOptions"
                                 \/ x = "DropOptions" /\ y \in {"AddOptions", "end"}
                                 \/ x = "AddOptions" /\ y = "end"
         /\ op = "DeleteNode" => \/ x = "LoadNode" /\ y = "LoadFlow"
                                 \/ x = "LoadFlow" /\ y = "DropOptions"
                                 \/ x = "DropOptions" /\ y = "ClearNodeArrows"
                                 \/ x = "ClearNodeArrows" /\ y = "ClearOptionArrows"
                                 \/ x = "ClearOptionArrows" /\ y = "ForgetStart"
                                 \/ x = "ForgetStart" /\ y = "SaveNode"
                                 \/ x = "SaveNode" /\ y = "end"
BY DEF Follows, FlowFollows, KanbanFollows, FormFollows, EditOps, FillOps

\* What the editor knows does not change while its tables do not.
LEMMA FlowKnowsSame ==
  ASSUME UNCHANGED <<flow, node, option>>
  PROVE  /\ FlowsInv => FlowsInv'
         /\ \A r : FlowKnows(r) => FlowKnows(r)'
<1>1. ASSUME FlowsInv PROVE FlowsInv'
  BY <1>1 DEF FlowsInv, Live, Absent, Arrows, NodesOf
<1>2. ASSUME NEW r, FlowKnows(r) PROVE FlowKnows(r)'
  BY <1>2 DEF FlowKnows, KnowsEdit, KnowsSource, KnowsNewNode, KnowsEdited, KnowsDoomed,
              Live, Arrows, NodesOf
<1> QED  BY <1>1, <1>2

-----------------------------------------------------------------------------
(* The editor alone *)

\* The statements of the editor that load.
LEMMA FlowLoads ==
  ASSUME StrandInv, FlowsInv, NEW q \in Request, FlowKnows(request[q]),
         LoadFlow(q) \/ LoadNode(q) \/ NoFlowYet(q) \/ ReadSource(q) \/ CopyRefused(q)
  PROVE  FlowsInv' /\ FlowKnows(request[q])'
<1> DEFINE r == request[q]
<1>0. PICK N : N = request'[q]
  OBVIOUS
<1>1. UNCHANGED <<flow, node, option>>
  BY DEF LoadFlow, LoadNode, NoFlowYet, ReadSource, CopyRefused, tables
<1>2. FlowsInv' /\ \A x : FlowKnows(x) => FlowKnows(x)'
  BY <1>1, FlowKnowsSame
<1>3. Shaped(r)
  BY DEF StrandInv, RequestsInv, RequestInv
<1>4. At(N) = "end" => FlowKnows(N)
  BY DEF FlowKnows
<1>5. CASE LoadFlow(q)
  <2> DEFINE M == [r EXCEPT !.owner = flow[r.f]]
  <2>1. Does(q, "LoadFlow") /\ (Refuse(q) \/ (Continue(q, M) /\ flow[r.f].is = "live"))
    BY <1>5 DEF LoadFlow
  <2>2. CASE Refuse(q)
    BY <1>0, <1>2, <1>4, <2>2, RefusedEnds
  <2>3. CASE Continue(q, M)
    <3>1. Alike(r, M) /\ M.owner = flow[r.f] /\ M.f = r.f /\ M.set = r.set /\ M.n = r.n /\ M.s = r.s
          /\ M.to = r.to /\ M.targets = r.targets /\ M.row = r.row
      BY <1>3 DEF Alike, Shaped, Columns
    <3> HIDE DEF M
    <3>2. Went(r, "LoadFlow", M, N)
      BY <1>0, <2>1, <2>3, <3>1, GoesTo
    <3> HIDE DEF r
    <3> DEFINE y == At(N)
    <3>3. /\ y # "end" => N.owner = flow[r.f] /\ N.f = r.f /\ N.set = r.set /\ N.n = r.n
                          /\ N.s = r.s /\ N.to = r.to /\ N.row = r.row
          /\ N.op = r.op /\ N.targets = r.targets /\ Follows(r.op, "LoadFlow", y)
          /\ At(r) = "LoadFlow"
      BY <3>1, <3>2 DEF Went
    <3> HIDE DEF y
    <3>4. FlowKnows(r)
      BY DEF r
    <3>5. r.op \in EditOps => KnowsEdit(N, y)
      BY <3>3, <3>4, FlowOrder DEF FlowKnows, KnowsEdit
    <3>6. r.op = "DuplicateFlow" => KnowsSource(N, y)
      BY <3>3, <3>4, FlowOrder DEF FlowKnows, KnowsSource
    <3>7. r.op = "CreateNode" => KnowsNewNode(N, y)
      BY <3>3, <3>4, FlowOrder DEF FlowKnows, KnowsNewNode
    <3>8. r.op = "UpdateNode" => KnowsEdited(N, y)
      BY <3>3, <3>4, FlowOrder DEF FlowKnows, KnowsEdited
    <3>9. r.op = "DeleteNode" => KnowsDoomed(N, y)
      BY <3>3, <3>4, FlowOrder DEF FlowKnows, KnowsDoomed
    <3>10. FlowKnows(N)
      BY <3>3, <3>5, <3>6, <3>7, <3>8, <3>9 DEF FlowKnows, y
    <3> QED  BY <1>0, <1>2, <3>10
  <2> QED  BY <2>1, <2>2, <2>3
<1>6. CASE LoadNode(q)
  <2> DEFINE M == [r EXCEPT !.row = node[r.n], !.f = node[r.n].flow, !.s = node[r.n].stage]
  <2>1. Does(q, "LoadNode") /\ (Refuse(q) \/ Continue(q, M))
    BY <1>6 DEF LoadNode
  <2>2. CASE Refuse(q)
    BY <1>0, <1>2, <1>4, <2>2, RefusedEnds
  <2>3. CASE Continue(q, M)
    <3>1. Alike(r, M) /\ M.row = node[r.n] /\ M.f = node[r.n].flow /\ M.set = r.set /\ M.n = r.n
          /\ M.targets = r.targets
      BY <1>3 DEF Alike, Shaped, Columns
    <3> HIDE DEF M
    <3>2. Went(r, "LoadNode", M, N)
      BY <1>0, <2>1, <2>3, <3>1, GoesTo
    <3> HIDE DEF r
    <3> DEFINE y == At(N)
    <3>3. /\ y # "end" => N.f = node[r.n].flow /\ N.set = r.set /\ N.n = r.n /\ N.row = node[r.n]
          /\ N.op = r.op /\ N.targets = r.targets /\ Follows(r.op, "LoadNode", y)
          /\ At(r) = "LoadNode"
      BY <3>1, <3>2 DEF Went
    <3> HIDE DEF y
    <3>4. FlowKnows(r)
      BY DEF r
    <3>5. r.op \in {"UpdateNode", "DeleteNode", "LeadReachesNode"}
      BY <3>3, OpsOf
    <3>6. r.op = "UpdateNode" => KnowsEdited(N, y)
      BY <3>3, <3>4, FlowOrder DEF FlowKnows, KnowsEdited
    <3>7. r.op = "DeleteNode" => KnowsDoomed(N, y)
      BY <3>3, <3>4, FlowOrder DEF FlowKnows, KnowsDoomed
    <3>8. FlowKnows(N)
      BY <3>3, <3>5, <3>6, <3>7 DEF FlowKnows, y, EditOps
    <3> QED  BY <1>0, <1>2, <3>8
  <2> QED  BY <2>1, <2>2, <2>3
<1>7. CASE NoFlowYet(q) \/ CopyRefused(q)
  <2>1. Refuse(q) \/ (Does(q, "NoFlowYet") /\ Continue(q, r))
    BY <1>7 DEF NoFlowYet, CopyRefused
  <2>2. CASE Refuse(q)
    BY <1>0, <1>2, <1>4, <2>2, RefusedEnds
  <2>3. CASE Does(q, "NoFlowYet") /\ Continue(q, r)
    <3>1. N.op = r.op /\ Follows(r.op, "NoFlowYet", At(N))
      BY <1>0, <2>3, TicksTo DEF Went
    <3>2. N.op = "CreateFlow"
      BY <3>1, OpsOf
    <3> QED  BY <1>0, <1>2, <3>2 DEF FlowKnows, EditOps
  <2> QED  BY <2>1, <2>2, <2>3
<1>8. CASE ReadSource(q)
  <2> DEFINE rows == [n \in NodesOf(r.f) |-> Over(node[n], [options |-> option[n]])]
             M == [r EXCEPT !.owner = flow[r.f], !.row = rows]
  <2>1. Does(q, "ReadSource") /\ (Refuse(q) \/ Continue(q, M))
    BY <1>8 DEF ReadSource
  <2>2. CASE Refuse(q)
    BY <1>0, <1>2, <1>4, <2>2, RefusedEnds
  <2>3. CASE Continue(q, M)
    <3>1. Alike(r, M) /\ M.owner = flow[r.f] /\ M.f = r.f /\ M.row = rows
      BY <1>3 DEF Alike, Shaped, Columns
    <3> HIDE DEF M
    <3>2. Went(r, "ReadSource", M, N)
      BY <1>0, <2>1, <2>3, <3>1, GoesTo
    <3>3. /\ At(N) # "end" => N.owner = flow[r.f] /\ N.f = r.f /\ N.row = rows
          /\ N.op = r.op /\ Follows(r.op, "ReadSource", At(N)) /\ At(r) = "ReadSource"
      BY <3>1, <3>2 DEF Went
    <3>4. r.op = "DuplicateFlow"
      BY <3>3, OpsOf
    <3>5. At(N) # "end" => KnowsSource(N, At(N))
      BY <3>3, <3>4 DEF FlowKnows, KnowsSource
    <3>6. FlowKnows(N)
      BY <3>3, <3>4, <3>5 DEF FlowKnows, EditOps
    <3> QED  BY <1>0, <1>2, <3>6
  <2> QED  BY <2>1, <2>2, <2>3
<1> QED  BY <1>5, <1>6, <1>7, <1>8

\* A flow that is saved, or created, starts at a node of its own, or at none.
LEMMA FlowsKept ==
  ASSUME FlowsInv, DomainsInv, DomainsInv', UNCHANGED <<node, option>>,
         \A f \in Flow : FlowRow(flow'[f]) /\ flow'[f].start \in Arrows(f),
         \A f \in Flow : flow[f].is # "absent" => flow'[f].is # "absent"
  PROVE  FlowsInv'
<1>1. \A f : Arrows(f)' = Arrows(f)
  BY DEF Arrows, NodesOf, Live
<1>2. DOMAIN flow = Flow /\ DOMAIN flow' = Flow
  BY DEF DomainsInv
<1>3. Absent(flow)' \subseteq Absent(flow)
  BY <1>2 DEF Absent
<1>4. Live(node)' = Live(node) /\ Absent(node)' = Absent(node)
  BY DEF Live, Absent
<1>5. \A f \in Flow : FlowRow(flow'[f]) /\ flow'[f].start \in Arrows(f)'
  BY <1>1
<1>6. (\A n \in Live(node) : /\ node[n].flow \in Flow \ Absent(flow)
                             /\ node[n].next \in Arrows(node[n].flow)
                             /\ \A o \in option[n] : o.next \in Arrows(node[n].flow))'
  BY <1>1, <1>3, <1>4 DEF FlowsInv
<1>7. /\ \A n \in Node : \A o, p \in option'[n] : OptionRow(o) /\ o.by = p.by
      /\ \A n \in Absent(node)' : option'[n] = {}
  BY <1>4 DEF FlowsInv
<1> QED  BY <1>5, <1>6, <1>7 DEF FlowsInv

\* The row of a flow after an edit.
LEMMA EditedFlow ==
  ASSUME NEW row, FlowRow(row), NEW set, DOMAIN set \subseteq FlowColumns
  PROVE  /\ FlowRow(Over(set, row))
         /\ \A x \in FlowColumns : Over(set, row)[x] = IF x \in DOMAIN set THEN set[x] ELSE row[x]
<1>1. DOMAIN row = FlowColumns
  BY DEF FlowRow
<1> QED  BY <1>1 DEF FlowRow, Over

\* An edit of a flow is saved over the row it loaded.
LEMMA SaveFlowAlone ==
  ASSUME StrandInv, FlowsInv, NEW q \in Request, FlowKnows(request[q]), SaveFlow(q)
  PROVE  FlowsInv' /\ FlowKnows(request[q])'
<1> DEFINE r == request[q]
<1>0. PICK N : N = request'[q]
  OBVIOUS
<1>1. /\ Does(q, "SaveFlow") /\ Continue(q, r) /\ flow' = [flow EXCEPT ![r.f] = Over(r.set, r.owner)]
      /\ UNCHANGED <<node, option>>
  BY DEF SaveFlow
<1>2. Went(r, "SaveFlow", r, N)
  BY <1>0, <1>1, TicksTo
<1>3. DomainsInv /\ DomainsInv'
  <2>1. FlowStatement(q)
    BY DEF FlowStatement
  <2> QED  BY <2>1, FlowStatementRows DEF StrandInv, RowsInv
<1> HIDE DEF r
<1>4. r.op \in EditOps /\ N.op = r.op /\ At(N) = "end"
  BY <1>2, OpsOf, FlowOrder DEF Went
<1>5. KnowsEdit(r, "SaveFlow")
  BY <1>2, <1>4 DEF FlowKnows, Went, r
<1>6. DOMAIN flow = Flow
  BY <1>3 DEF DomainsInv
<1>7. r.f \in Flow /\ flow[r.f].is = "live" /\ r.owner = flow[r.f] /\ DOMAIN r.set \subseteq FlowColumns
  BY <1>5, <1>6 DEF KnowsEdit, Live
<1>8. \A f \in Flow : FlowRow(flow[f]) /\ flow[f].start \in Arrows(f)
  BY DEF FlowsInv
<1> DEFINE row == Over(r.set, flow[r.f])
<1>9. flow' = [flow EXCEPT ![r.f] = row]
  BY <1>1, <1>7
<1>10. FlowRow(row) /\ \A x \in FlowColumns : row[x] = IF x \in DOMAIN r.set THEN r.set[x] ELSE flow[r.f][x]
  BY <1>7, <1>8, EditedFlow
<1>11. row.start \in Arrows(r.f)
  BY <1>5, <1>7, <1>8, <1>10 DEF KnowsEdit, Arrows, FlowColumns
<1>12. row.is # "absent"
  BY <1>5, <1>7, <1>10 DEF KnowsEdit, FlowColumns
<1> HIDE DEF row
<1>13. \A f \in Flow : flow'[f] = IF f = r.f THEN row ELSE flow[f]
  BY <1>6, <1>7, <1>9
<1>14. \A f \in Flow : FlowRow(flow'[f]) /\ flow'[f].start \in Arrows(f)
  BY <1>8, <1>10, <1>11, <1>13
<1>15. FlowsInv'
  BY <1>1, <1>3, <1>12, <1>13, <1>14, FlowsKept
<1> QED  BY <1>0, <1>4, <1>15 DEF FlowKnows

\* A new flow starts nowhere.
LEMMA CreateFlowAlone ==
  ASSUME StrandInv, FlowsInv, NEW q \in Request, CreateFlowRow(q)
  PROVE  FlowsInv' /\ FlowKnows(request[q])'
<1> DEFINE r == request[q]
           row == NewFlow(r.to, r.k)
<1>0. PICK N : N = request'[q]
  OBVIOUS
<1>1. /\ Does(q, "CreateFlowRow") /\ Continue(q, r) /\ flow' = [flow EXCEPT ![Fresh(flow)] = row]
      /\ UNCHANGED <<node, option>>
  BY DEF CreateFlowRow
<1>2. Went(r, "CreateFlowRow", r, N)
  BY <1>0, <1>1, TicksTo
<1>3. DomainsInv /\ DomainsInv'
  <2>1. FlowStatement(q)
    BY DEF FlowStatement
  <2> QED  BY <2>1, FlowStatementRows DEF StrandInv, RowsInv
<1>4. N.op = "CreateFlow"
  BY <1>2, OpsOf DEF Went
<1>5. FlowRow(row) /\ row.start = None /\ row.is = "live"
  BY DEF FlowRow, NewFlow, FlowColumns
<1> HIDE DEF row
<1>6. \A f \in Flow : flow'[f] = row \/ flow'[f] = flow[f]
  BY <1>1, <1>3 DEF DomainsInv
<1>7. \A f \in Flow : FlowRow(flow'[f]) /\ flow'[f].start \in Arrows(f)
  BY <1>5, <1>6 DEF FlowsInv, Arrows
<1>8. FlowsInv'
  BY <1>1, <1>3, <1>5, <1>6, <1>7, FlowsKept
<1> QED  BY <1>0, <1>4, <1>8 DEF FlowKnows, EditOps

\* The flow that started at the node to be deleted starts nowhere.
LEMMA ForgetStartAlone ==
  ASSUME StrandInv, FlowsInv, NEW q \in Request, FlowKnows(request[q]), ForgetStart(q)
  PROVE  FlowsInv' /\ FlowKnows(request[q])'
<1> DEFINE r == request[q]
<1>0. PICK N : N = request'[q]
  OBVIOUS
<1>1. /\ Does(q, "ForgetStart") /\ Continue(q, r)
      /\ flow' = IF r.owner.start = r.n THEN [flow EXCEPT ![r.f] = [r.owner EXCEPT !.start = None]]
                                        ELSE flow
      /\ UNCHANGED <<node, option>>
  BY DEF ForgetStart
<1>2. Went(r, "ForgetStart", r, N)
  BY <1>0, <1>1, TicksTo
<1>3. DomainsInv /\ DomainsInv'
  <2>1. FlowStatement(q)
    BY DEF FlowStatement
  <2> QED  BY <2>1, FlowStatementRows DEF StrandInv, RowsInv
<1> HIDE DEF r
<1>4. r.op = "DeleteNode" /\ N.op = r.op /\ At(N) = "SaveNode" /\ N.f = r.f /\ N.n = r.n /\ N.set = r.set
  BY <1>2, OpsOf, FlowOrder DEF Went
<1>5. KnowsDoomed(r, "ForgetStart")
  BY <1>2, <1>4 DEF FlowKnows, Went, r
<1>6. DOMAIN flow = Flow /\ DOMAIN node = Node
  BY <1>3 DEF DomainsInv
<1>7. r.n \in Live(node) /\ r.n \in Node /\ r.f = node[r.n].flow /\ r.f \in Flow /\ r.owner = flow[r.f]
  BY <1>5, <1>6 DEF KnowsDoomed, Live, FlowsInv
<1>8. None # r.n
  BY <1>7, TablesAssumption
<1>9. \A f \in Flow : FlowRow(flow[f]) /\ flow[f].start \in Arrows(f)
  BY DEF FlowsInv
<1> DEFINE row == [flow[r.f] EXCEPT !.start = None]
<1>10. FlowRow(row) /\ row.start = None /\ row.is = flow[r.f].is
  BY <1>7, <1>9 DEF FlowRow, FlowColumns
<1>11. flow' = IF flow[r.f].start = r.n THEN [flow EXCEPT ![r.f] = row] ELSE flow
  BY <1>1, <1>7
<1> HIDE DEF row
<1>12. \A f \in Flow : flow'[f] = flow[f] \/ (f = r.f /\ flow'[f] = row)
  BY <1>6, <1>7, <1>11
<1>13. \A f \in Flow : FlowRow(flow'[f]) /\ flow'[f].start \in Arrows(f)
  BY <1>9, <1>10, <1>12 DEF Arrows
<1>14. FlowsInv'
  BY <1>1, <1>3, <1>10, <1>12, <1>13, FlowsKept
<1>15. flow'[r.f].start # r.n
  BY <1>6, <1>7, <1>8, <1>10, <1>11
<1>16. KnowsDoomed(N, "SaveNode")'
  BY <1>1, <1>4, <1>5, <1>15 DEF KnowsDoomed, Live
<1>17. FlowKnows(N)'
  BY <1>4, <1>16 DEF FlowKnows, EditOps
<1> QED  BY <1>0, <1>14, <1>17

\* What is asked of the rows, a row at a time.
LEMMA FlowsMade ==
  ASSUME DomainsInv',
         \A f \in Flow : FlowRow(flow'[f]) /\ flow'[f].start \in Arrows(f)',
         \A n \in Node : node'[n].is = "live" =>
           \E f \in Flow : /\ node'[n].flow = f /\ flow'[f].is # "absent"
                           /\ node'[n].next \in Arrows(f)'
                           /\ \A o \in option'[n] : o.next \in Arrows(f)',
         \A n \in Node : \A o, p \in option'[n] : OptionRow(o) /\ o.by = p.by,
         \A n \in Node : node'[n].is = "absent" => option'[n] = {}
  PROVE  FlowsInv'
<1>1. DOMAIN flow' = Flow /\ DOMAIN node' = Node
  BY DEF DomainsInv
<1>2. Live(node)' = {n \in Node : node'[n].is = "live"}
      /\ Absent(node)' = {n \in Node : node'[n].is = "absent"}
      /\ Absent(flow)' = {f \in Flow : flow'[f].is = "absent"}
  BY <1>1 DEF Live, Absent
<1>3. (\A n \in Live(node) : /\ node[n].flow \in Flow \ Absent(flow)
                             /\ node[n].next \in Arrows(node[n].flow)
                             /\ \A o \in option[n] : o.next \in Arrows(node[n].flow))'
  <2>1. SUFFICES ASSUME NEW n \in Live(node)'
                 PROVE  (/\ node[n].flow \in Flow \ Absent(flow)
                         /\ node[n].next \in Arrows(node[n].flow)
                         /\ \A o \in option[n] : o.next \in Arrows(node[n].flow))'
    OBVIOUS
  <2>2. PICK f \in Flow : /\ node'[n].flow = f /\ flow'[f].is # "absent"
                          /\ node'[n].next \in Arrows(f)'
                          /\ \A o \in option'[n] : o.next \in Arrows(f)'
    BY <1>2, <2>1
  <2> QED  BY <1>2, <2>2
<1>4. (\A n \in Absent(node) : option[n] = {})'
  BY <1>2
<1> QED  BY <1>3, <1>4 DEF FlowsInv

\* What was asked of the rows before.
LEMMA FlowsHad ==
  ASSUME FlowsInv, DomainsInv
  PROVE  /\ \A f \in Flow : FlowRow(flow[f]) /\ flow[f].start \in Arrows(f)
         /\ \A n \in Node : node[n].is = "live" =>
              \E f \in Flow : /\ node[n].flow = f /\ flow[f].is # "absent"
                              /\ node[n].next \in Arrows(f)
                              /\ \A o \in option[n] : o.next \in Arrows(f)
         /\ \A n \in Node : \A o, p \in option[n] : OptionRow(o) /\ o.by = p.by
         /\ \A n \in Node : node[n].is = "absent" => option[n] = {}
         /\ DOMAIN flow = Flow /\ DOMAIN node = Node /\ DOMAIN option = Node
         /\ \A f : NodesOf(f) = {n \in Node : node[n].is = "live" /\ node[n].flow = f}
<1>1. DOMAIN flow = Flow /\ DOMAIN node = Node /\ DOMAIN option = Node
  BY DEF DomainsInv
<1>2. Live(node) = {n \in Node : node[n].is = "live"}
      /\ Absent(node) = {n \in Node : node[n].is = "absent"}
      /\ Absent(flow) = {f \in Flow : flow[f].is = "absent"}
  BY <1>1 DEF Live, Absent
<1>3. \A n \in Live(node) : \E f \in Flow : /\ node[n].flow = f /\ flow[f].is # "absent"
                                            /\ node[n].next \in Arrows(f)
                                            /\ \A o \in option[n] : o.next \in Arrows(f)
  BY <1>2 DEF FlowsInv
<1>4. \A f : NodesOf(f) = {n \in Node : node[n].is = "live" /\ node[n].flow = f}
  BY <1>2 DEF NodesOf
<1> QED  BY <1>1, <1>2, <1>3, <1>4 DEF FlowsInv

\* The nodes of a flow after a step.
LEMMA NodesNow ==
  ASSUME DomainsInv'
  PROVE  /\ \A f : NodesOf(f)' = {n \in Node : node'[n].is = "live" /\ node'[n].flow = f}
         /\ \A f : Arrows(f)' = NodesOf(f)' \union {None}
         /\ Live(node)' = {n \in Node : node'[n].is = "live"}
         /\ DOMAIN flow' = Flow /\ DOMAIN node' = Node /\ DOMAIN option' = Node
<1>1. DOMAIN flow' = Flow /\ DOMAIN node' = Node /\ DOMAIN option' = Node
  BY DEF DomainsInv
<1>2. Live(node)' = {n \in Node : node'[n].is = "live"}
  BY <1>1 DEF Live
<1> QED  BY <1>1, <1>2 DEF NodesOf, Arrows

\* The domains, before and after a statement of the editor.
LEMMA FlowDomains ==
  ASSUME StrandInv, NEW q \in Request, FlowStatement(q)
  PROVE  DomainsInv /\ DomainsInv'
BY FlowStatementRows DEF StrandInv, RowsInv

\* A row that is not there yet gets the least id.
LEMMA FreshRow ==
  ASSUME NEW table, DOMAIN table \subseteq Nat, Absent(table) # {}
  PROVE  Fresh(table) \in DOMAIN table /\ table[Fresh(table)].is = "absent"
<1>1. Absent(table) \subseteq Nat
  BY DEF Absent
<1> QED  BY <1>1, Smallest DEF Fresh, Absent

\* A new node leads to a node of its flow and has no option yet.
LEMMA CreateNodeAlone ==
  ASSUME StrandInv, FlowsInv, NEW q \in Request, FlowKnows(request[q]), CreateNodeRow(q)
  PROVE  FlowsInv' /\ FlowKnows(request[q])'
<1>0. PICK r, N, m : r = request[q] /\ N = request'[q] /\ m = Fresh(node)
  OBVIOUS
<1> DEFINE row == NewNode(r.f, r.to, r.s)
           M == [r EXCEPT !.n = m]
<1>1. /\ Does(q, "CreateNodeRow") /\ Continue(q, M) /\ node' = [node EXCEPT ![m] = row]
      /\ Absent(node) # {} /\ flow' = flow /\ option' = option
  BY <1>0 DEF CreateNodeRow
<1>2. DomainsInv /\ DomainsInv'
  BY FlowDomains DEF FlowStatement
<1>3. Shaped(r)
  BY <1>0 DEF StrandInv, RequestsInv, RequestInv
<1>4. Alike(r, M) /\ M.n = m /\ M.f = r.f /\ M.to = r.to /\ M.s = r.s /\ M.targets = r.targets
  BY <1>3 DEF Alike, Shaped, Columns
<1>5. row.is = "live" /\ row.flow = r.f /\ row.next = r.to
  BY DEF NewNode
<1> HIDE DEF M, row
<1>6. Went(r, "CreateNodeRow", M, N)
  BY <1>0, <1>1, <1>4, GoesTo
<1> DEFINE y == At(N)
<1>7. /\ y # "end" => N.n = m /\ N.f = r.f /\ N.to = r.to /\ N.s = r.s
      /\ N.op = r.op /\ N.targets = r.targets /\ Follows(r.op, "CreateNodeRow", y)
      /\ At(r) = "CreateNodeRow"
  BY <1>4, <1>6 DEF Went
<1> HIDE DEF y
<1>8. r.op = "CreateNode" /\ FlowKnows(r)
  BY <1>0, <1>7, OpsOf
<1>9. r.f \in Live(flow) /\ r.s = None /\ r.to \in Arrows(r.f) /\ r.targets \subseteq Arrows(r.f)
  BY <1>7, <1>8 DEF FlowKnows, KnowsNewNode
<1>10. m \in Node /\ node[m].is = "absent"
  BY <1>0, <1>1, <1>2, FreshRow, TablesAssumption DEF DomainsInv
<1>11. r.f \in Flow /\ flow[r.f].is = "live"
  BY <1>2, <1>9 DEF Live, DomainsInv
<1>12. \A n \in Node : node'[n] = IF n = m THEN row ELSE node[n]
  BY <1>1, <1>2, <1>10 DEF DomainsInv
<1>13. \A f : NodesOf(f) \subseteq NodesOf(f)' /\ Arrows(f) \subseteq Arrows(f)'
  BY <1>2, <1>10, <1>12, FlowsHad, NodesNow DEF Arrows
<1>14. m \in NodesOf(r.f)' /\ option'[m] = {}
  BY <1>1, <1>2, <1>5, <1>10, <1>12, FlowsHad, NodesNow
<1>15. r.to \in Arrows(r.f)'
  BY <1>9, <1>13
<1>16. FlowsInv'
  <2>1. \A f \in Flow : FlowRow(flow'[f]) /\ flow'[f].start \in Arrows(f)'
    BY <1>1, <1>2, <1>13, FlowsHad
  <2>2. ASSUME NEW n \in Node, node'[n].is = "live"
        PROVE  \E f \in Flow : /\ node'[n].flow = f /\ flow'[f].is # "absent"
                               /\ node'[n].next \in Arrows(f)'
                               /\ \A o \in option'[n] : o.next \in Arrows(f)'
    <3>1. CASE n = m
      BY <1>1, <1>5, <1>11, <1>12, <1>14, <1>15, <3>1
    <3>2. CASE n # m
      <4>1. PICK f \in Flow : /\ node[n].flow = f /\ flow[f].is # "absent"
                              /\ node[n].next \in Arrows(f)
                              /\ \A o \in option[n] : o.next \in Arrows(f)
        BY <1>2, <1>12, <2>2, <3>2, FlowsHad
      <4> QED  BY <1>1, <1>12, <1>13, <3>2, <4>1
    <3> QED  BY <3>1, <3>2
  <2>3. /\ \A n \in Node : \A o, p \in option'[n] : OptionRow(o) /\ o.by = p.by
        /\ \A n \in Node : node'[n].is = "absent" => option'[n] = {}
    BY <1>1, <1>2, <1>5, <1>12, FlowsHad
  <2> QED  BY <1>2, <2>1, <2>2, <2>3, FlowsMade
<1>17. y # "end" => KnowsNewNode(N, y)'
  BY <1>1, <1>7, <1>9, <1>13, <1>14 DEF KnowsNewNode, Live
<1>18. FlowKnows(N)'
  BY <1>7, <1>8, <1>17 DEF FlowKnows, EditOps, y
<1> QED  BY <1>0, <1>16, <1>18

\* A node that is updated keeps its flow and leads to a node of it.
LEMMA UpdateNodeAlone ==
  ASSUME StrandInv, FlowsInv, NEW q \in Request, FlowKnows(request[q]), SaveNode(q),
         request[q].op = "UpdateNode"
  PROVE  FlowsInv' /\ FlowKnows(request[q])'
<1>0. PICK r, N : r = request[q] /\ N = request'[q]
  OBVIOUS
<1> DEFINE row == Over(r.set, r.row)
<1>1. /\ Does(q, "SaveNode") /\ Continue(q, request[q]) /\ node' = [node EXCEPT ![r.n] = row]
      /\ flow' = flow /\ option' = option
  BY <1>0 DEF SaveNode
<1>2. DomainsInv /\ DomainsInv' /\ \A n \in Node : NodeRow(node[n])
  BY FlowDomains DEF FlowStatement, StrandInv, RowsInv
<1>3. Went(r, "SaveNode", r, N)
  BY <1>0, <1>1, TicksTo
<1>4. KnowsEdited(r, "SaveNode")
  BY <1>0, <1>3 DEF FlowKnows, Went
<1>5. r.n \in Node /\ node[r.n].is = "live" /\ r.row = node[r.n] /\ DOMAIN r.set \subseteq {"next", "stage"}
  BY <1>2, <1>4 DEF KnowsEdited, Live, DomainsInv
<1>6. PICK f \in Flow : /\ node[r.n].flow = f /\ flow[f].is # "absent"
                        /\ node[r.n].next \in Arrows(f)
                        /\ \A o \in option[r.n] : o.next \in Arrows(f)
  BY <1>2, <1>5, FlowsHad
<1>7. /\ "next" \in DOMAIN r.set => r.set.next \in Arrows(f)
      /\ r.targets \subseteq Arrows(f)
  BY <1>4, <1>6 DEF KnowsEdited
<1>8. row.is = "live" /\ row.flow = f /\ row.next \in Arrows(f)
  <2>1. DOMAIN node[r.n] = NodeColumns
    BY <1>2, <1>5 DEF NodeRow
  <2> QED  BY <1>5, <1>6, <1>7, <2>1 DEF Over, NodeColumns
<1> HIDE DEF row
<1>9. \A n \in Node : node'[n] = IF n = r.n THEN row ELSE node[n]
  BY <1>1, <1>2, <1>5 DEF DomainsInv
<1>10. \A g : NodesOf(g)' = NodesOf(g) /\ Arrows(g)' = Arrows(g)
  <2>1. \A n \in Node : /\ node'[n].is = "live" <=> node[n].is = "live"
                        /\ node'[n].flow = node[n].flow
    BY <1>5, <1>6, <1>8, <1>9
  <2>2. /\ \A g : NodesOf(g) = {n \in Node : node[n].is = "live" /\ node[n].flow = g}
        /\ \A g : NodesOf(g)' = {n \in Node : node'[n].is = "live" /\ node'[n].flow = g}
    BY <1>2, FlowsHad, NodesNow
  <2>3. \A g : NodesOf(g)' = NodesOf(g)
    BY <2>1, <2>2
  <2> QED  BY <1>2, <2>3, NodesNow DEF Arrows
<1>11. FlowsInv'
  <2>1. ASSUME NEW n \in Node, node'[n].is = "live"
        PROVE  \E g \in Flow : /\ node'[n].flow = g /\ flow'[g].is # "absent"
                               /\ node'[n].next \in Arrows(g)'
                               /\ \A o \in option'[n] : o.next \in Arrows(g)'
    <3>1. CASE n = r.n
      BY <1>1, <1>6, <1>8, <1>9, <1>10, <3>1
    <3>2. CASE n # r.n
      <4>1. PICK g \in Flow : /\ node[n].flow = g /\ flow[g].is # "absent"
                              /\ node[n].next \in Arrows(g)
                              /\ \A o \in option[n] : o.next \in Arrows(g)
        BY <1>2, <1>9, <2>1, <3>2, FlowsHad
      <4> QED  BY <1>1, <1>9, <1>10, <3>2, <4>1
    <3> QED  BY <3>1, <3>2
  <2>2. \A g \in Flow : FlowRow(flow'[g]) /\ flow'[g].start \in Arrows(g)'
    BY <1>1, <1>2, <1>10, FlowsHad
  <2>3. /\ \A n \in Node : \A o, p \in option'[n] : OptionRow(o) /\ o.by = p.by
        /\ \A n \in Node : node'[n].is = "absent" => option'[n] = {}
    BY <1>1, <1>2, <1>8, <1>9, FlowsHad
  <2> QED  BY <1>2, <2>1, <2>2, <2>3, FlowsMade
<1>12. N.op = "UpdateNode" /\ At(N) = "DropOptions" /\ N.n = r.n /\ N.set = r.set /\ N.targets = r.targets
  BY <1>0, <1>3, FlowOrder DEF Went
<1>13. node'[r.n].flow = f /\ r.n \in Live(node)'
  BY <1>2, <1>5, <1>8, <1>9, NodesNow
<1>14. KnowsEdited(N, "DropOptions")'
  BY <1>5, <1>7, <1>10, <1>12, <1>13 DEF KnowsEdited
<1>15. FlowKnows(N)'
  BY <1>12, <1>14 DEF FlowKnows, EditOps
<1> QED  BY <1>0, <1>11, <1>15

\* When a node is deleted nothing leads to it any more.
LEMMA DeleteNodeAlone ==
  ASSUME StrandInv, FlowsInv, NEW q \in Request, FlowKnows(request[q]), SaveNode(q),
         request[q].op = "DeleteNode"
  PROVE  FlowsInv' /\ FlowKnows(request[q])'
<1>0. PICK r, N : r = request[q] /\ N = request'[q]
  OBVIOUS
<1> DEFINE row == Over(r.set, r.row)
<1>1. /\ Does(q, "SaveNode") /\ Continue(q, request[q]) /\ node' = [node EXCEPT ![r.n] = row]
      /\ flow' = flow /\ option' = option
  BY <1>0 DEF SaveNode
<1>2. DomainsInv /\ DomainsInv'
  BY FlowDomains DEF FlowStatement
<1>3. Went(r, "SaveNode", r, N)
  BY <1>0, <1>1, TicksTo
<1>4. KnowsDoomed(r, "SaveNode")
  BY <1>0, <1>3 DEF FlowKnows, Went
<1>5. /\ r.n \in Node /\ node[r.n].is = "live" /\ r.set = [is |-> "deleted"]
      /\ \A x \in Node : node[x].next # r.n
      /\ \A x \in Node : \A o \in option[x] : o.next # r.n
      /\ flow[node[r.n].flow].start # r.n
  BY <1>2, <1>4 DEF KnowsDoomed, Live, DomainsInv
<1>6. row.is = "deleted"
  BY <1>5 DEF Over
<1> HIDE DEF row
<1>7. \A n \in Node : node'[n] = IF n = r.n THEN row ELSE node[n]
  BY <1>1, <1>2, <1>5 DEF DomainsInv
<1>8. \A g : NodesOf(g)' = NodesOf(g) \ {r.n}
  BY <1>2, <1>6, <1>7, FlowsHad, NodesNow
<1>9. \A g : \A x \in Arrows(g) : x # r.n => x \in Arrows(g)'
  BY <1>2, <1>8, NodesNow DEF Arrows
<1>10. \A g \in Flow : flow[g].start # r.n
  <2>1. None # r.n
    BY <1>5, TablesAssumption
  <2>2. \A g \in Flow : flow[g].start = r.n => r.n \in NodesOf(g)
    BY <1>2, <2>1, FlowsHad DEF Arrows
  <2>3. \A g \in Flow : flow[g].start = r.n => node[r.n].flow = g
    BY <2>2 DEF NodesOf
  <2> QED  BY <1>5, <2>3
<1>11. FlowsInv'
  <2>1. ASSUME NEW n \in Node, node'[n].is = "live"
        PROVE  \E g \in Flow : /\ node'[n].flow = g /\ flow'[g].is # "absent"
                               /\ node'[n].next \in Arrows(g)'
                               /\ \A o \in option'[n] : o.next \in Arrows(g)'
    <3>1. n # r.n
      BY <1>6, <1>7, <2>1
    <3>2. PICK g \in Flow : /\ node[n].flow = g /\ flow[g].is # "absent"
                            /\ node[n].next \in Arrows(g)
                            /\ \A o \in option[n] : o.next \in Arrows(g)
      BY <1>2, <1>7, <2>1, <3>1, FlowsHad
    <3> QED  BY <1>1, <1>5, <1>7, <1>9, <3>1, <3>2
  <2>2. \A g \in Flow : FlowRow(flow'[g]) /\ flow'[g].start \in Arrows(g)'
    BY <1>1, <1>2, <1>9, <1>10, FlowsHad
  <2>3. /\ \A n \in Node : \A o, p \in option'[n] : OptionRow(o) /\ o.by = p.by
        /\ \A n \in Node : node'[n].is = "absent" => option'[n] = {}
    BY <1>1, <1>2, <1>6, <1>7, FlowsHad
  <2> QED  BY <1>2, <2>1, <2>2, <2>3, FlowsMade
<1>12. At(N) = "end"
  BY <1>0, <1>3, FlowOrder DEF Went
<1> QED  BY <1>0, <1>11, <1>12 DEF FlowKnows

\* The options of a node are all dropped before new ones are written.
LEMMA DropOptionsAlone ==
  ASSUME StrandInv, FlowsInv, NEW q \in Request, FlowKnows(request[q]), DropOptions(q)
  PROVE  FlowsInv' /\ FlowKnows(request[q])'
<1>0. PICK r, N : r = request[q] /\ N = request'[q]
  OBVIOUS
<1>1. /\ Does(q, "DropOptions") /\ Continue(q, request[q]) /\ option' = [option EXCEPT ![r.n] = {}]
      /\ flow' = flow /\ node' = node
  BY <1>0 DEF DropOptions
<1>2. DomainsInv /\ DomainsInv'
  BY FlowDomains DEF FlowStatement
<1>3. Went(r, "DropOptions", r, N)
  BY <1>0, <1>1, TicksTo
<1>4. \A n \in Node : option'[n] = IF n = r.n THEN {} ELSE option[n]
  BY <1>1, <1>2 DEF DomainsInv
<1>5. \A g : NodesOf(g)' = NodesOf(g) /\ Arrows(g)' = Arrows(g) /\ Live(node)' = Live(node)
                /\ Live(flow)' = Live(flow)
  BY <1>1 DEF NodesOf, Arrows, Live
<1>6. FlowsInv'
  <2>1. ASSUME NEW n \in Node, node'[n].is = "live"
        PROVE  \E g \in Flow : /\ node'[n].flow = g /\ flow'[g].is # "absent"
                               /\ node'[n].next \in Arrows(g)'
                               /\ \A o \in option'[n] : o.next \in Arrows(g)'
    BY <1>1, <1>2, <1>4, <1>5, <2>1, FlowsHad
  <2>2. \A g \in Flow : FlowRow(flow'[g]) /\ flow'[g].start \in Arrows(g)'
    BY <1>1, <1>2, <1>5, FlowsHad
  <2>3. /\ \A n \in Node : \A o, p \in option'[n] : OptionRow(o) /\ o.by = p.by
        /\ \A n \in Node : node'[n].is = "absent" => option'[n] = {}
    BY <1>1, <1>2, <1>4, FlowsHad
  <2> QED  BY <1>2, <2>1, <2>2, <2>3, FlowsMade
<1>7. FlowKnows(r)
  BY <1>0
<1> DEFINE y == At(N)
<1>8. /\ y # "end" => N.f = r.f /\ N.set = r.set /\ N.n = r.n /\ N.owner = r.owner
      /\ N.op = r.op /\ N.targets = r.targets /\ Follows(r.op, "DropOptions", y)
      /\ At(r) = "DropOptions" /\ r.op \in {"UpdateNode", "DeleteNode"}
  BY <1>3, OpsOf DEF Went
<1> HIDE DEF y
<1>9. ASSUME r.op = "UpdateNode", y # "end" PROVE KnowsEdited(N, y)'
  <2>1. KnowsEdited(r, "DropOptions") /\ y = "AddOptions"
    BY <1>7, <1>8, <1>9, FlowOrder DEF FlowKnows
  <2>2. PICK f : f = node[r.n].flow
    OBVIOUS
  <2>3. r.n \in Node
    BY <1>2, <2>1 DEF KnowsEdited, Live, DomainsInv
  <2> QED  BY <1>1, <1>4, <1>5, <1>8, <2>1, <2>2, <2>3 DEF KnowsEdited
<1>10. ASSUME r.op = "DeleteNode", y # "end" PROVE KnowsDoomed(N, y)'
  <2>1. KnowsDoomed(r, "DropOptions") /\ y = "ClearNodeArrows"
    BY <1>7, <1>8, <1>10, FlowOrder DEF FlowKnows
  <2> QED  BY <1>1, <1>5, <1>8, <2>1 DEF KnowsDoomed
<1>11. FlowKnows(N)'
  BY <1>8, <1>9, <1>10 DEF FlowKnows, EditOps, y
<1> QED  BY <1>0, <1>6, <1>11

\* The options written are all of one edit.
LEMMA AddOptionsAlone ==
  ASSUME StrandInv, FlowsInv, NEW q \in Request, FlowKnows(request[q]), AddOptions(q)
  PROVE  FlowsInv' /\ FlowKnows(request[q])'
<1>0. PICK r, N : r = request[q] /\ N = request'[q]
  OBVIOUS
<1> DEFINE new == {[by |-> q, next |-> t] : t \in r.targets}
<1>1. /\ Does(q, "AddOptions") /\ Continue(q, request[q])
      /\ option' = [option EXCEPT ![r.n] = @ \union new]
      /\ flow' = flow /\ node' = node
  BY <1>0 DEF AddOptions
<1>2. DomainsInv /\ DomainsInv'
  BY FlowDomains DEF FlowStatement
<1>3. Went(r, "AddOptions", r, N)
  BY <1>0, <1>1, TicksTo
<1>4. FlowKnows(r)
  BY <1>0
<1>5. /\ N.op = r.op /\ r.op \in {"UpdateNode", "CreateNode"} /\ At(N) = "end"
      /\ At(r) = "AddOptions"
  BY <1>3, OpsOf, FlowOrder DEF Went
<1>6. r.n \in Node /\ node[r.n].is = "live" /\ option[r.n] = {} /\ r.targets \subseteq Arrows(node[r.n].flow)
  <2>1. CASE r.op = "UpdateNode"
    BY <1>2, <1>4, <1>5, <2>1 DEF FlowKnows, KnowsEdited, Live, DomainsInv
  <2>2. CASE r.op = "CreateNode"
    BY <1>2, <1>4, <1>5, <2>2, FlowsHad DEF FlowKnows, KnowsNewNode
  <2> QED  BY <1>5, <2>1, <2>2
<1>7. \A o \in new : OptionRow(o) /\ o.by = q /\ o.next \in r.targets
  BY DEF OptionRow
<1> HIDE DEF new
<1>8. \A n \in Node : option'[n] = IF n = r.n THEN new ELSE option[n]
  BY <1>1, <1>2, <1>6 DEF DomainsInv
<1>9. \A g : Arrows(g)' = Arrows(g)
  BY <1>1 DEF NodesOf, Arrows, Live
<1>10. FlowsInv'
  <2>1. ASSUME NEW n \in Node, node'[n].is = "live"
        PROVE  \E g \in Flow : /\ node'[n].flow = g /\ flow'[g].is # "absent"
                               /\ node'[n].next \in Arrows(g)'
                               /\ \A o \in option'[n] : o.next \in Arrows(g)'
    <3>1. PICK g \in Flow : /\ node[n].flow = g /\ flow[g].is # "absent"
                            /\ node[n].next \in Arrows(g)
                            /\ \A o \in option[n] : o.next \in Arrows(g)
      BY <1>1, <1>2, <2>1, FlowsHad
    <3>2. \A o \in option'[n] : o.next \in Arrows(g)
      BY <1>6, <1>7, <1>8, <3>1
    <3> QED  BY <1>1, <1>9, <3>1, <3>2
  <2>2. \A g \in Flow : FlowRow(flow'[g]) /\ flow'[g].start \in Arrows(g)'
    BY <1>1, <1>2, <1>9, FlowsHad
  <2>3. /\ \A n \in Node : \A o, p \in option'[n] : OptionRow(o) /\ o.by = p.by
        /\ \A n \in Node : node'[n].is = "absent" => option'[n] = {}
    BY <1>1, <1>2, <1>6, <1>7, <1>8, FlowsHad
  <2> QED  BY <1>2, <2>1, <2>2, <2>3, FlowsMade
<1> QED  BY <1>0, <1>5, <1>10 DEF FlowKnows

\* No node leads to the one to be deleted any more.
LEMMA ClearNodesAlone ==
  ASSUME StrandInv, FlowsInv, NEW q \in Request, FlowKnows(request[q]), ClearNodeArrows(q)
  PROVE  FlowsInv' /\ FlowKnows(request[q])'
<1>0. PICK r, N : r = request[q] /\ N = request'[q]
  OBVIOUS
<1>1. /\ Does(q, "ClearNodeArrows") /\ Continue(q, request[q])
      /\ node' = [x \in Node |->
                    IF node[x].next = r.n THEN [node[x] EXCEPT !.next = None] ELSE node[x]]
      /\ flow' = flow /\ option' = option
  BY <1>0 DEF ClearNodeArrows
<1>2. DomainsInv /\ DomainsInv' /\ \A n \in Node : NodeRow(node[n])
  BY FlowDomains DEF FlowStatement, StrandInv, RowsInv
<1>3. Went(r, "ClearNodeArrows", r, N)
  BY <1>0, <1>1, TicksTo
<1>4. /\ N.op = "DeleteNode" /\ r.op = "DeleteNode" /\ At(N) = "ClearOptionArrows"
      /\ N.n = r.n /\ N.f = r.f /\ N.set = r.set /\ N.owner = r.owner
  BY <1>3, OpsOf, FlowOrder DEF Went
<1>5. KnowsDoomed(r, "ClearNodeArrows")
  BY <1>0, <1>3, <1>4 DEF FlowKnows, Went
<1>6. \A n \in Node : /\ node'[n].is = node[n].is /\ node'[n].flow = node[n].flow
                      /\ node'[n].next = IF node[n].next = r.n THEN None ELSE node[n].next
  BY <1>1, <1>2 DEF NodeRow, NodeColumns
<1>7. \A g : NodesOf(g)' = NodesOf(g) /\ Arrows(g)' = Arrows(g) /\ Live(node)' = Live(node)
  <2>1. /\ \A g : NodesOf(g) = {n \in Node : node[n].is = "live" /\ node[n].flow = g}
        /\ \A g : NodesOf(g)' = {n \in Node : node'[n].is = "live" /\ node'[n].flow = g}
        /\ Live(node)' = {n \in Node : node'[n].is = "live"}
        /\ Live(node) = {n \in Node : node[n].is = "live"}
    BY <1>2, FlowsHad, NodesNow DEF Live
  <2>2. \A g : NodesOf(g)' = NodesOf(g)
    BY <1>6, <2>1
  <2>3. Live(node)' = Live(node)
    BY <1>6, <2>1
  <2> QED  BY <1>2, <2>2, <2>3, NodesNow DEF Arrows
<1>8. r.n \in Node /\ r.n \in Live(node)
  BY <1>2, <1>5 DEF KnowsDoomed, Live, DomainsInv
<1>9. FlowsInv'
  <2>1. ASSUME NEW n \in Node, node'[n].is = "live"
        PROVE  \E g \in Flow : /\ node'[n].flow = g /\ flow'[g].is # "absent"
                               /\ node'[n].next \in Arrows(g)'
                               /\ \A o \in option'[n] : o.next \in Arrows(g)'
    <3>1. PICK g \in Flow : /\ node[n].flow = g /\ flow[g].is # "absent"
                            /\ node[n].next \in Arrows(g)
                            /\ \A o \in option[n] : o.next \in Arrows(g)
      BY <1>2, <1>6, <2>1, FlowsHad
    <3>2. node'[n].next \in Arrows(g)
      BY <1>6, <3>1 DEF Arrows
    <3> QED  BY <1>1, <1>6, <1>7, <3>1, <3>2
  <2>2. \A g \in Flow : FlowRow(flow'[g]) /\ flow'[g].start \in Arrows(g)'
    BY <1>1, <1>2, <1>7, FlowsHad
  <2>3. /\ \A n \in Node : \A o, p \in option'[n] : OptionRow(o) /\ o.by = p.by
        /\ \A n \in Node : node'[n].is = "absent" => option'[n] = {}
    BY <1>1, <1>2, <1>6, FlowsHad
  <2> QED  BY <1>2, <2>1, <2>2, <2>3, FlowsMade
<1>10. node'[r.n].flow = node[r.n].flow /\ \A x \in Node : node'[x].next # r.n
  BY <1>6, <1>8, TablesAssumption
<1>11. KnowsDoomed(N, "ClearOptionArrows")'
  BY <1>1, <1>4, <1>5, <1>7, <1>8, <1>10 DEF KnowsDoomed
<1>12. FlowKnows(N)'
  BY <1>4, <1>11 DEF FlowKnows, EditOps
<1> QED  BY <1>0, <1>9, <1>12

\* Nor does an option.
LEMMA ClearOptionsAlone ==
  ASSUME StrandInv, FlowsInv, NEW q \in Request, FlowKnows(request[q]), ClearOptionArrows(q)
  PROVE  FlowsInv' /\ FlowKnows(request[q])'
<1>0. PICK r, N : r = request[q] /\ N = request'[q]
  OBVIOUS
<1> DEFINE cut(o) == IF o.next = r.n THEN [o EXCEPT !.next = None] ELSE o
<1>1. /\ Does(q, "ClearOptionArrows") /\ Continue(q, request[q])
      /\ option' = [x \in Node |-> {cut(o) : o \in option[x]}]
      /\ flow' = flow /\ node' = node
  BY <1>0 DEF ClearOptionArrows
<1>2. DomainsInv /\ DomainsInv'
  BY FlowDomains DEF FlowStatement
<1>3. Went(r, "ClearOptionArrows", r, N)
  BY <1>0, <1>1, TicksTo
<1>4. /\ N.op = "DeleteNode" /\ r.op = "DeleteNode" /\ At(N) = "ForgetStart"
      /\ N.n = r.n /\ N.f = r.f /\ N.set = r.set /\ N.owner = r.owner
  BY <1>3, OpsOf, FlowOrder DEF Went
<1>5. KnowsDoomed(r, "ClearOptionArrows")
  BY <1>0, <1>3, <1>4 DEF FlowKnows, Went
<1>6. r.n \in Node /\ r.n \in Live(node) /\ r.n # None
  BY <1>2, <1>5, TablesAssumption DEF KnowsDoomed, Live, DomainsInv
<1>7. \A o : OptionRow(o) => /\ OptionRow(cut(o)) /\ cut(o).by = o.by /\ cut(o).next # r.n
                             /\ cut(o).next \in {o.next, None}
  BY <1>6 DEF OptionRow
<1> HIDE DEF cut
<1>8. \A x \in Node : option'[x] = {cut(o) : o \in option[x]}
  BY <1>1
<1>9. \A g : Arrows(g)' = Arrows(g) /\ Live(node)' = Live(node)
  BY <1>1 DEF NodesOf, Arrows, Live
<1>10. FlowsInv'
  <2>1. ASSUME NEW n \in Node, node'[n].is = "live"
        PROVE  \E g \in Flow : /\ node'[n].flow = g /\ flow'[g].is # "absent"
                               /\ node'[n].next \in Arrows(g)'
                               /\ \A o \in option'[n] : o.next \in Arrows(g)'
    <3>1. PICK g \in Flow : /\ node[n].flow = g /\ flow[g].is # "absent"
                            /\ node[n].next \in Arrows(g)
                            /\ \A o \in option[n] : o.next \in Arrows(g)
      BY <1>1, <1>2, <2>1, FlowsHad
    <3>2. \A o \in option[n] : OptionRow(o)
      BY <1>2, FlowsHad
    <3>3. \A o \in option'[n] : o.next \in Arrows(g)
      BY <1>7, <1>8, <3>1, <3>2 DEF Arrows
    <3> QED  BY <1>1, <1>9, <3>1, <3>3
  <2>2. \A g \in Flow : FlowRow(flow'[g]) /\ flow'[g].start \in Arrows(g)'
    BY <1>1, <1>2, <1>9, FlowsHad
  <2>3. ASSUME NEW n \in Node, NEW o \in option'[n], NEW p \in option'[n]
        PROVE  OptionRow(o) /\ o.by = p.by
    <3>1. PICK a, b : a \in option[n] /\ b \in option[n] /\ o = cut(a) /\ p = cut(b)
      BY <1>8
    <3>2. OptionRow(a) /\ OptionRow(b) /\ a.by = b.by
      BY <1>2, <3>1, FlowsHad
    <3> QED  BY <1>7, <3>1, <3>2
  <2>4. \A n \in Node : node'[n].is = "absent" => option'[n] = {}
    BY <1>1, <1>2, <1>8, FlowsHad
  <2> QED  BY <1>2, <2>1, <2>2, <2>3, <2>4, FlowsMade
<1>11. ASSUME NEW x \in Node, NEW o \in option'[x] PROVE o.next # r.n
  <2>1. PICK a \in option[x] : o = cut(a)
    BY <1>8
  <2>2. OptionRow(a)
    BY <1>2, FlowsHad
  <2> QED  BY <1>7, <2>1, <2>2
<1>12. KnowsDoomed(N, "ForgetStart")'
  BY <1>1, <1>4, <1>5, <1>9, <1>11 DEF KnowsDoomed
<1>13. FlowKnows(N)'
  BY <1>4, <1>12 DEF FlowKnows, EditOps
<1> QED  BY <1>0, <1>10, <1>13

\* What a duplication writes: copies of the nodes it read, in a flow of its own.
Copied(r, new, copy, of) ==
  /\ new \in Absent(flow) /\ copy \in [DOMAIN r.row -> Absent(node)]
  /\ \A n \in DOMAIN r.row : of[copy[n]] \in DOMAIN r.row /\ copy[of[copy[n]]] = copy[n]
  /\ flow' = [flow EXCEPT ![new] = [NewFlow(None, r.owner.kanban)
                                      EXCEPT !.start = Remapped(copy, r.owner.start)]]
  /\ \A x \in Node :
       IF x \in {copy[n] : n \in DOMAIN r.row}
       THEN /\ node'[x] = NewNode(new, Remapped(copy, r.row[of[x]].next), r.row[of[x]].stage)
            /\ option'[x] =
                 {[o EXCEPT !.next = Remapped(copy, @)] : o \in r.row[of[x]].options}
       ELSE node'[x] = node[x] /\ option'[x] = option[x]

\* CopyFlow writes that much and no more.
LEMMA CopyWrites ==
  ASSUME StrandInv, NEW q \in Request, CopyFlow(q)
  PROVE  /\ Does(q, "CopyFlow") /\ Continue(q, request[q])
         /\ \E new, copy, of : Copied(request[q], new, copy, of)
<1> DEFINE r == request[q]
           rows == r.row
           D == DOMAIN rows
           Copies == {m \in [D -> Absent(node)] : \A a, b \in D : a < b => m[a] < m[b]}
           copy == CHOOSE m \in Copies : TRUE
           Of(x) == CHOOSE n \in D : copy[n] = x
           New == {copy[n] : n \in D}
           new == Fresh(flow)
           was(n) == {[o EXCEPT !.next = Remapped(copy, @)] : o \in rows[n].options}
           made(n) == NewNode(new, Remapped(copy, rows[n].next), rows[n].stage)
           first == [NewFlow(None, r.owner.kanban) EXCEPT !.start = Remapped(copy, r.owner.start)]
<1>1. /\ Does(q, "CopyFlow") /\ Continue(q, r) /\ Absent(flow) # {} /\ Copies # {}
      /\ flow' = [flow EXCEPT ![new] = first]
      /\ node' = [x \in Node |-> IF x \in New THEN made(Of(x)) ELSE node[x]]
      /\ option' = [x \in Node |-> IF x \in New THEN was(Of(x)) ELSE option[x]]
  <2>1. /\ Does(q, "CopyFlow") /\ Continue(q, r) /\ Absent(flow) # {} /\ Copies # {}
        /\ flow' = [flow EXCEPT ![new] = first]
    BY DEF CopyFlow
  <2>2. node' = [x \in Node |-> IF x \in New THEN made(Of(x)) ELSE node[x]]
    BY DEF CopyFlow
  <2>3. option' = [x \in Node |-> IF x \in New THEN was(Of(x)) ELSE option[x]]
    BY DEF CopyFlow
  <2> QED  BY <2>1, <2>2, <2>3
<1>2. new \in Absent(flow)
  BY <1>1, FreshRow, TablesAssumption DEF StrandInv, RowsInv, DomainsInv, Absent
<1>3. copy \in Copies
  BY <1>1
<1>4. copy \in [D -> Absent(node)]
  BY <1>3
<1> HIDE DEF copy, Copies, r
<1>5. \A n \in D : Of(copy[n]) \in D /\ copy[Of(copy[n])] = copy[n]
  OBVIOUS
<1> HIDE DEF Of, was, made, new, first
<1> DEFINE of == [x \in New |-> Of(x)]
<1>6. \A x \in New : of[x] = Of(x)
  OBVIOUS
<1> HIDE DEF of
<1>7. \A n \in D : of[copy[n]] \in D /\ copy[of[copy[n]]] = copy[n]
  BY <1>5, <1>6
<1>8. \A x \in Node : IF x \in New THEN node'[x] = made(of[x]) /\ option'[x] = was(of[x])
                      ELSE node'[x] = node[x] /\ option'[x] = option[x]
  BY <1>1, <1>6
<1>9. Copied(r, new, copy, of)
  BY <1>1, <1>2, <1>4, <1>7, <1>8 DEF Copied, was, made, first
<1> QED  BY <1>1, <1>9 DEF r

\* The arrows of a copy lead to copies.
LEMMA CopyFlowAlone ==
  ASSUME StrandInv, FlowsInv, NEW q \in Request, FlowKnows(request[q]), CopyFlow(q)
  PROVE  FlowsInv' /\ FlowKnows(request[q])'
<1>0. PICK r, N : r = request[q] /\ N = request'[q]
  OBVIOUS
<1>1. /\ Does(q, "CopyFlow") /\ Continue(q, request[q])
      /\ \E new, copy, of : Copied(r, new, copy, of)
  BY <1>0, CopyWrites
<1>2. PICK new, copy, of : Copied(r, new, copy, of)
  BY <1>1
<1>3. DomainsInv /\ DomainsInv' /\ \A n \in Node : NodeRow(node[n])
  BY FlowDomains DEF FlowStatement, StrandInv, RowsInv
<1>4. Went(r, "CopyFlow", r, N)
  BY <1>0, <1>1, TicksTo
<1>5. r.op = "DuplicateFlow" /\ At(N) = "end"
  BY <1>4, OpsOf, FlowOrder DEF Went
<1>6. KnowsSource(r, "CopyFlow")
  BY <1>0, <1>4, <1>5 DEF FlowKnows, Went
<1>7. /\ DOMAIN r.row = NodesOf(r.f)
      /\ \A n \in NodesOf(r.f) : r.row[n].options = option[n]
  <2>1. \A n \in NodesOf(r.f) : DOMAIN node[n] = NodeColumns
    BY <1>3, FlowsHad DEF NodeRow
  <2>2. \A n \in NodesOf(r.f) : Over(node[n], [options |-> option[n]]).options = option[n]
    BY <2>1 DEF Over, NodeColumns
  <2>3. r.row = [n \in NodesOf(r.f) |-> Over(node[n], [options |-> option[n]])]
    BY <1>6 DEF KnowsSource
  <2> QED  BY <2>2, <2>3
<1> DEFINE New == {copy[n] : n \in NodesOf(r.f)}
           Rem(n) == Remapped(copy, n)
           turned(o) == [o EXCEPT !.next = Remapped(copy, @)]
<1>8. /\ new \in Flow /\ flow[new].is = "absent" /\ copy \in [NodesOf(r.f) -> Absent(node)]
      /\ \A x \in New : x \in Node /\ node[x].is = "absent" /\ of[x] \in NodesOf(r.f)
  <2>1. DOMAIN flow = Flow /\ DOMAIN node = Node
    BY <1>3 DEF DomainsInv
  <2>2. /\ new \in Absent(flow) /\ copy \in [NodesOf(r.f) -> Absent(node)]
        /\ \A n \in NodesOf(r.f) : of[copy[n]] \in NodesOf(r.f)
    BY <1>2, <1>7 DEF Copied
  <2>3. \A n \in NodesOf(r.f) : copy[n] \in Absent(node)
    BY <2>2
  <2>4. \A x \in New : x \in Absent(node) /\ of[x] \in NodesOf(r.f)
    BY <2>2, <2>3
  <2> QED  BY <2>1, <2>2, <2>4 DEF Absent
<1>9. \A n : Rem(n) \in New \union {None}
  BY <1>8 DEF Remapped
<1>10. \A o : OptionRow(o) => /\ OptionRow(turned(o)) /\ turned(o).by = o.by
                              /\ turned(o).next = Rem(o.next)
  BY DEF OptionRow
<1>11. PICK first : /\ flow' = [flow EXCEPT ![new] = first] /\ FlowRow(first)
                    /\ first.start \in New \union {None} /\ first.is = "live"
  <2> DEFINE first == [NewFlow(None, r.owner.kanban) EXCEPT !.start = Rem(r.owner.start)]
  <2>1. flow' = [flow EXCEPT ![new] = first]
    BY <1>2 DEF Copied
  <2>2. FlowRow(first) /\ first.start = Rem(r.owner.start) /\ first.is = "live"
    BY DEF NewFlow, FlowRow, FlowColumns
  <2> QED  BY <1>9, <2>1, <2>2
<1>12. \A x \in New : /\ node'[x].is = "live" /\ node'[x].flow = new
                      /\ node'[x].next \in New \union {None}
                      /\ option'[x] = {turned(o) : o \in option[of[x]]}
  <2>1. ASSUME NEW x \in New
        PROVE  /\ node'[x] = NewNode(new, Rem(r.row[of[x]].next), r.row[of[x]].stage)
               /\ option'[x] = {turned(o) : o \in r.row[of[x]].options}
    BY <1>2, <1>7, <1>8 DEF Copied
  <2> HIDE DEF New, Rem, turned
  <2>2. ASSUME NEW x \in New
        PROVE  /\ node'[x].is = "live" /\ node'[x].flow = new
               /\ node'[x].next \in New \union {None}
    <3>1. \A f, n, s : /\ NewNode(f, n, s).is = "live" /\ NewNode(f, n, s).flow = f
                       /\ NewNode(f, n, s).next = n
      BY DEF NewNode
    <3>2. PICK n, s : node'[x] = NewNode(new, Rem(n), s)
      BY <2>1
    <3> QED  BY <1>9, <3>1, <3>2
  <2>3. ASSUME NEW x \in New
        PROVE  option'[x] = {turned(o) : o \in option[of[x]]}
    <3>1. r.row[of[x]].options = option[of[x]]
      BY <1>7, <1>8
    <3>2. option'[x] = {turned(o) : o \in r.row[of[x]].options}
      BY <2>1
    <3> QED  BY <3>1, <3>2
  <2> QED  BY <2>2, <2>3
<1>13. \A x \in Node \ New : node'[x] = node[x] /\ option'[x] = option[x]
  BY <1>2, <1>7 DEF Copied
<1> HIDE DEF New, Rem, turned
<1>14. \A f \in Flow : flow'[f] = IF f = new THEN first ELSE flow[f]
  BY <1>3, <1>11 DEF DomainsInv
<1>15. New \union {None} \subseteq Arrows(new)'
  BY <1>3, <1>8, <1>12, NodesNow
<1>16. \A f : Arrows(f) \subseteq Arrows(f)'
  <2>1. \A f : NodesOf(f) \subseteq NodesOf(f)'
    <3>1. ASSUME NEW f, NEW n \in NodesOf(f) PROVE n \in NodesOf(f)'
      <4>1. n \in Node /\ node[n].is = "live" /\ node[n].flow = f
        BY <1>3, FlowsHad
      <4>2. n \notin New
        BY <1>8, <4>1
      <4> QED  BY <1>3, <1>13, <4>1, <4>2, NodesNow
    <3> QED  BY <3>1
  <2> QED  BY <1>3, <2>1, NodesNow DEF Arrows
<1>17. \A f \in Flow : FlowRow(flow'[f]) /\ flow'[f].start \in Arrows(f)'
  BY <1>3, <1>11, <1>14, <1>15, <1>16, FlowsHad
<1>18. ASSUME NEW n \in Node, n \in New
       PROVE  \A o \in option'[n] : /\ OptionRow(o) /\ o.next \in New \union {None}
                                    /\ \A p \in option'[n] : o.by = p.by
  <2>0. of[n] \in Node
    BY <1>3, <1>8, <1>18, FlowsHad
  <2>1. SUFFICES ASSUME NEW o \in option'[n], NEW p \in option'[n]
                 PROVE  OptionRow(o) /\ o.next \in New \union {None} /\ o.by = p.by
    OBVIOUS
  <2>2. PICK a, b : /\ a \in option[of[n]] /\ b \in option[of[n]]
                    /\ o = turned(a) /\ p = turned(b)
    BY <1>12, <1>18, <2>1
  <2>3. OptionRow(a) /\ OptionRow(b) /\ a.by = b.by
    BY <1>3, <2>0, <2>2, FlowsHad
  <2> QED  BY <1>9, <1>10, <2>2, <2>3
<1>19. ASSUME NEW n \in Node, node'[n].is = "live"
       PROVE  \E g \in Flow : /\ node'[n].flow = g /\ flow'[g].is # "absent"
                              /\ node'[n].next \in Arrows(g)'
                              /\ \A o \in option'[n] : o.next \in Arrows(g)'
  <2>1. CASE n \in New
    <3>1. node'[n].flow = new /\ flow'[new].is # "absent" /\ node'[n].next \in Arrows(new)'
      BY <1>8, <1>11, <1>12, <1>14, <1>15, <2>1
    <3>2. \A o \in option'[n] : o.next \in Arrows(new)'
      BY <1>15, <1>18, <2>1
    <3> QED  BY <1>8, <3>1, <3>2
  <2>2. CASE n \notin New
    <3>1. PICK g \in Flow : /\ node[n].flow = g /\ flow[g].is # "absent"
                            /\ node[n].next \in Arrows(g)
                            /\ \A o \in option[n] : o.next \in Arrows(g)
      BY <1>3, <1>13, <1>19, <2>2, FlowsHad
    <3> QED  BY <1>8, <1>13, <1>14, <1>16, <2>2, <3>1
  <2> QED  BY <2>1, <2>2
<1>20. \A n \in Node : \A o, p \in option'[n] : OptionRow(o) /\ o.by = p.by
  <2>1. ASSUME NEW n \in Node, n \notin New
        PROVE  \A o, p \in option'[n] : OptionRow(o) /\ o.by = p.by
    BY <1>3, <1>13, <2>1, FlowsHad
  <2> QED  BY <1>18, <2>1
<1>21. \A n \in Node : node'[n].is = "absent" => option'[n] = {}
  BY <1>3, <1>12, <1>13, FlowsHad
<1>22. FlowsInv'
  BY <1>3, <1>17, <1>19, <1>20, <1>21, FlowsMade
<1> QED  BY <1>0, <1>5, <1>22 DEF FlowKnows

\* The boards change the stages of nodes only.
LEMMA BoardsKeepNodes ==
  ASSUME StrandInv, NEW q \in Request, KanbanStatement(q)
  PROVE  /\ flow' = flow /\ option' = option /\ DomainsInv'
         /\ UNCHANGED <<form, field, response>>
         /\ \A n \in Node : /\ node'[n].is = node[n].is /\ node'[n].flow = node[n].flow
                            /\ node'[n].next = node[n].next
<1>1. RowsInv'
  BY KanbanStatementRows
<1>2. DOMAIN node = Node /\ \A n \in Node : NodeRow(node[n])
  BY DEF StrandInv, RowsInv, DomainsInv
<1>3. CASE FlagStage(q)
  <2>1. PICK moved, target :
          node' = [n \in Node |-> IF n \in moved THEN [node[n] EXCEPT !.stage = target] ELSE node[n]]
    BY <1>3 DEF FlagStage
  <2>2. \A n \in Node : /\ node'[n].is = node[n].is /\ node'[n].flow = node[n].flow
                        /\ node'[n].next = node[n].next
    BY <1>2, <2>1 DEF NodeRow, NodeColumns
  <2> QED  BY <1>1, <1>3, <2>2 DEF RowsInv, FlagStage
<1>4. CASE ~FlagStage(q)
  <2>1. UNCHANGED <<flow, node, option, form, field, response>>
    BY <1>4 DEF KanbanStatement, LoadKanban, Load, SaveKanban, CreateKanbanRow, CreateStageRow,
                ReadMaxOrder, LoadStage, SaveStage, ListStages, SaveOrder, ReadUsage, LoadTarget,
                MoveLeads, MoveNodes, MoveFillNodes, SaveLead, tables
  <2> QED  BY <1>1, <2>1 DEF RowsInv
<1> QED  BY <1>3, <1>4

\* The forms change nothing of flows, nodes and boards.
LEMMA FormsKeepFlows ==
  ASSUME NEW q \in Request, FormStatement(q)
  PROVE  UNCHANGED <<flow, node, option, kanban, stage, lead>>
BY DEF FormStatement, LoadForm, Load, SaveForm, FlagForm, CreateFormRow, LockDropped, UpsertFields,
       SaveResponse, FlagResponse, FindByLeadPhone, tables

\* The editor changes nothing of boards and forms.
LEMMA EditorKeeps ==
  ASSUME NEW q \in Request, FlowStatement(q)
  PROVE  UNCHANGED <<kanban, stage, form, field, response, lead>>
BY DEF FlowStatement, LoadFlow, SaveFlow, NoFlowYet, CreateFlowRow, LoadNode, CreateNodeRow, SaveNode,
       DropOptions, AddOptions, ClearNodeArrows, ClearOptionArrows, ForgetStart, ReadSource, CopyFlow,
       CopyRefused, tables

\* A request that is not of the editor knows nothing of its tables.
LEMMA NotOfTheEditor ==
  ASSUME NEW q \in Request, Named(q), request[q].op \notin FlowOps
  PROVE  FlowKnows(request[q])'
<1>0. PICK N : N = request'[q]
  OBVIOUS
<1>1. At(N) = "end" \/ N.op \notin FlowOps
  BY <1>0 DEF Named, At
<1>2. FlowKnows(N)'
  BY <1>1 DEF FlowKnows, FlowOps
<1> QED  BY <1>0, <1>2

\* Requests that are alone keep what the editor's tables promise.
LEMMA FlowAlone ==
  ASSUME StrandInv, FlowsInv, NEW q \in Request, FlowKnows(request[q]),
         FlowStatement(q) \/ KanbanStatement(q) \/ FormStatement(q)
  PROVE  FlowsInv' /\ FlowKnows(request[q])'
<1>1. CASE FlowStatement(q)
  <2>1. CASE LoadFlow(q) \/ LoadNode(q) \/ NoFlowYet(q) \/ ReadSource(q) \/ CopyRefused(q)
    BY <2>1, FlowLoads
  <2>2. CASE SaveFlow(q) \/ CreateFlowRow(q) \/ CreateNodeRow(q) \/ DropOptions(q) \/ AddOptions(q)
    BY <2>2, SaveFlowAlone, CreateFlowAlone, CreateNodeAlone, DropOptionsAlone, AddOptionsAlone
  <2>3. CASE ClearNodeArrows(q) \/ ClearOptionArrows(q) \/ ForgetStart(q) \/ CopyFlow(q)
    BY <2>3, ClearNodesAlone, ClearOptionsAlone, ForgetStartAlone, CopyFlowAlone
  <2>4. CASE SaveNode(q)
    <3>1. Does(q, "SaveNode")
      BY <2>4 DEF SaveNode
    <3>2. request[q].op \in {"UpdateNode", "DeleteNode"}
      BY <3>1, OpOf, OpsOf DEF StrandInv
    <3> QED  BY <2>4, <3>2, UpdateNodeAlone, DeleteNodeAlone
  <2> QED  BY <1>1, <2>1, <2>2, <2>3, <2>4 DEF FlowStatement
<1>2. CASE FormStatement(q)
  <2>1. UNCHANGED <<flow, node, option>>
    BY <1>2, FormsKeepFlows
  <2>2. Named(q) /\ request[q].op \notin FlowOps
    BY <1>2, FormStatementOps DEF FormOps, FillOps, FlowOps, EditOps
  <2> QED  BY <2>1, <2>2, FlowKnowsSame, NotOfTheEditor
<1>3. CASE KanbanStatement(q)
  <2>1. /\ flow' = flow /\ option' = option /\ DomainsInv'
        /\ \A n \in Node : /\ node'[n].is = node[n].is /\ node'[n].flow = node[n].flow
                           /\ node'[n].next = node[n].next
    BY <1>3, BoardsKeepNodes
  <2>2. Named(q) /\ request[q].op \notin FlowOps
    BY <1>3, KanbanStatementOps DEF KanbanOps, FillOps, FlowOps, EditOps
  <2>3. DomainsInv
    BY DEF StrandInv, RowsInv
  <2>4. \A g : Arrows(g)' = Arrows(g)
    <3>1. /\ \A g : NodesOf(g) = {n \in Node : node[n].is = "live" /\ node[n].flow = g}
          /\ \A g : NodesOf(g)' = {n \in Node : node'[n].is = "live" /\ node'[n].flow = g}
      BY <2>1, <2>3, FlowsHad, NodesNow
    <3>2. \A g : NodesOf(g)' = NodesOf(g)
      BY <2>1, <3>1
    <3> QED  BY <2>1, <3>2, NodesNow DEF Arrows
  <2>5. FlowsInv'
    BY <2>1, <2>3, <2>4, FlowsHad, FlowsMade
  <2> QED  BY <2>2, <2>5, NotOfTheEditor
<1> QED  BY <1>1, <1>2, <1>3

-----------------------------------------------------------------------------
(* The forms alone *)

\* The order of the statements of the requests on forms.
LEMMA FormOrder ==
  ASSUME NEW op, NEW x, NEW y, Follows(op, x, y)
  PROVE  /\ op = "UpdateForm" => \/ x = "LoadForm" /\ y = "SaveForm"
                                 \/ x = "SaveForm" /\ y = "LockDropped"
                                 \/ x = "LockDropped" /\ y = "UpsertFields"
                                 \/ x = "UpsertFields" /\ y = "end"
         /\ op = "SetFormActive" => \/ x = "LoadForm" /\ y = "SaveForm"
                                    \/ x = "SaveForm" /\ y = "end"
         /\ op \in FillOps => \/ x = "LoadForm" /\ y = "SaveResponse"
                              \/ x = "SaveResponse" /\ y \in {"FindByLeadPhone", "end"}
                              \/ x = "FindByLeadPhone" /\ y = "SaveLead"
                              \/ x = "SaveLead" /\ y = "end"
BY DEF Follows, FlowFollows, KanbanFollows, FormFollows, EditOps, FillOps

\* A request at its end has nothing left to do.
LEMMA EndIsEmpty ==
  ASSUME NEW r, RequestInv(r), At(r) = "end"
  PROVE  r.todo = <<>>
<1>1. r.todo \in Seq(Statement)
  BY DEF RequestInv, Chained
<1>2. r.todo # <<>> => Head(r.todo) \in Statement
  BY <1>1
<1>3. "end" \notin Statement
  BY DEF Statement
<1> QED  BY <1>2, <1>3 DEF At

\* What is asked of the rows, a row at a time.
LEMMA FormsMade ==
  ASSUME DomainsInv',
         \A m \in Form : FormRow(form'[m]),
         \A x \in Field : FieldRow(field'[x]),
         \A x \in Response : ResponseRow(response'[x]),
         \A m \in Form : form'[m].is = "absent" => FieldsOf(m)' = {},
         \A m \in Form : form'[m].is = "live" => FieldsOf(m)' \in {{}, {1, 2}} \union EditsOf(m)',
         \A x \in Response : response'[x].is = "live" =>
           \A a \in response'[x].answers : /\ a \in Field /\ field'[a].is # "absent"
                                           /\ field'[a].form = response'[x].form
  PROVE  FormsInv'
<1>1. DOMAIN form' = Form /\ DOMAIN response' = Response
  BY DEF DomainsInv
<1>2. Live(form)' = {m \in Form : form'[m].is = "live"}
      /\ Absent(form)' = {m \in Form : form'[m].is = "absent"}
      /\ Live(response)' = {x \in Response : response'[x].is = "live"}
  BY <1>1 DEF Live, Absent
<1>3. (\A x \in Live(response) : \A a \in response[x].answers : Answers(a, response[x].form))'
  BY <1>2 DEF Answers
<1> QED  BY <1>2, <1>3 DEF FormsInv

\* What was asked of the rows before.
LEMMA FormsHad ==
  ASSUME FormsInv, DomainsInv
  PROVE  /\ \A m \in Form : FormRow(form[m])
         /\ \A x \in Field : FieldRow(field[x])
         /\ \A x \in Response : ResponseRow(response[x])
         /\ \A m \in Form : form[m].is = "absent" => FieldsOf(m) = {}
         /\ \A m \in Form : form[m].is = "live" => FieldsOf(m) \in {{}, {1, 2}} \union EditsOf(m)
         /\ \A x \in Response : response[x].is = "live" =>
              \A a \in response[x].answers : /\ a \in Field /\ field[a].is # "absent"
                                             /\ field[a].form = response[x].form
         /\ DOMAIN form = Form /\ DOMAIN field = Field /\ DOMAIN response = Response
         /\ \A m : FieldsOf(m) = {x \in Field : field[x].is = "live" /\ field[x].form = m}
<1>1. DOMAIN form = Form /\ DOMAIN field = Field /\ DOMAIN response = Response
  BY DEF DomainsInv
<1>2. Live(form) = {m \in Form : form[m].is = "live"}
      /\ Absent(form) = {m \in Form : form[m].is = "absent"}
      /\ Live(response) = {x \in Response : response[x].is = "live"}
  BY <1>1 DEF Live, Absent
<1>3. \A m : FieldsOf(m) = {x \in Field : field[x].is = "live" /\ field[x].form = m}
  BY <1>1 DEF FieldsOf, Live
<1> QED  BY <1>1, <1>2, <1>3 DEF FormsInv, Answers

\* The fields of a form after a step.
LEMMA FieldsNow ==
  ASSUME DomainsInv'
  PROVE  /\ \A m : FieldsOf(m)' = {x \in Field : field'[x].is = "live" /\ field'[x].form = m}
         /\ Live(form)' = {m \in Form : form'[m].is = "live"}
         /\ DOMAIN form' = Form /\ DOMAIN field' = Field /\ DOMAIN response' = Response
<1>1. DOMAIN form' = Form /\ DOMAIN field' = Field /\ DOMAIN response' = Response
  BY DEF DomainsInv
<1>2. Live(form)' = {m \in Form : form'[m].is = "live"}
  BY <1>1 DEF Live
<1> QED  BY <1>1, <1>2 DEF FieldsOf, Live

\* The edits that ended are still there.
LEMMA EditsStay ==
  ASSUME NEW q \in Request, OnlyOne(q), request[q].todo # <<>> \/ request[q].op = "none"
  PROVE  \A m : EditsOf(m) \subseteq EditsOf(m)'
<1>1. ASSUME NEW m,
             NEW p \in {x \in Request : /\ request[x].op = "UpdateForm"
                                        /\ request[x].todo = <<>> /\ request[x].m = m}
      PROVE  p \in Request /\ request'[p] = request[p]
  BY <1>1 DEF OnlyOne
<1> QED  BY <1>1 DEF EditsOf

\* Nothing changes in the forms while their tables do not.
LEMMA FormsSame ==
  ASSUME StrandInv, FormsInv, DomainsInv', UNCHANGED <<form, field, response>>,
         NEW q \in Request, OnlyOne(q), request[q].todo # <<>> \/ request[q].op = "none"
  PROVE  FormsInv'
<1>1. DomainsInv
  BY DEF StrandInv, RowsInv
<1>2. \A m : EditsOf(m) \subseteq EditsOf(m)'
  BY EditsStay
<1>3. \A m : FieldsOf(m)' = FieldsOf(m)
  BY DEF FieldsOf, Live
<1> QED  BY <1>1, <1>2, <1>3, FormsHad, FormsMade

\* A statement of the forms: its request, the others and the domains.
LEMMA FormDomains ==
  ASSUME StrandInv, NEW q \in Request, FormStatement(q)
  PROVE  DomainsInv /\ DomainsInv' /\ OnlyOne(q)
BY FormStatementRows, FormStatementOps DEF StrandInv, RowsInv, Named

\* The statements of the forms that load.
LEMMA FormLoads ==
  ASSUME StrandInv, FormsInv, NEW q \in Request, FormKnows(request[q]),
         LoadForm(q) \/ LockDropped(q) \/ FindByLeadPhone(q)
  PROVE  FormsInv' /\ FormKnows(request[q])'
<1>0. PICK r, N : r = request[q] /\ N = request'[q]
  OBVIOUS
<1>1. UNCHANGED <<form, field, response>> /\ r.todo # <<>>
  BY <1>0 DEF LoadForm, Load, LockDropped, FindByLeadPhone, tables, Does, InFlight
<1>2. DomainsInv /\ DomainsInv' /\ OnlyOne(q)
  BY FormDomains DEF FormStatement
<1>3. FormsInv'
  BY <1>0, <1>1, <1>2, FormsSame
<1>4. Shaped(r) /\ FormKnows(r)
  BY <1>0 DEF StrandInv, RequestsInv, RequestInv
<1>5. At(N) = "end" => FormKnows(N)'
  BY DEF FormKnows
<1>6. \A m : FieldsOf(m)' = FieldsOf(m) /\ Live(form)' = Live(form)
  BY <1>1 DEF FieldsOf, Live
<1>7. \A a, m : Answers(a, m)' = Answers(a, m)
  BY <1>1 DEF Answers
<1> DEFINE y == At(N)
<1>8. CASE LoadForm(q)
  <2> DEFINE M == [r EXCEPT !.row = form[r.m]]
  <2>1. Does(q, "LoadForm") /\ (Refuse(q) \/ Continue(q, M))
    BY <1>0, <1>8 DEF LoadForm, Load
  <2>2. CASE Refuse(q)
    BY <1>0, <1>3, <1>5, <2>2, RefusedEnds
  <2>3. CASE Continue(q, M)
    <3>1. Alike(r, M) /\ M.m = r.m /\ M.targets = r.targets /\ M.set = r.set /\ M.list = r.list
          /\ M.row = form[r.m]
      BY <1>4 DEF Alike, Shaped, Columns
    <3> HIDE DEF M
    <3>2. Went(r, "LoadForm", M, N)
      BY <1>0, <2>1, <2>3, <3>1, GoesTo
    <3>3. /\ y # "end" => N.set = r.set /\ N.list = r.list /\ N.row = form[r.m]
          /\ N.m = r.m /\ N.targets = r.targets /\ N.op = r.op /\ Follows(r.op, "LoadForm", y)
          /\ At(r) = "LoadForm"
      BY <3>1, <3>2 DEF Went
    <3> HIDE DEF y
    <3>4. r.op = "UpdateForm" => KnowsFields(N, y)'
      BY <1>1, <1>4, <1>6, <3>3, FormOrder DEF FormKnows, KnowsFields, Listed
    <3>5. r.op = "SetFormActive" => KnowsForm(N, y)'
      BY <1>1, <1>4, <1>6, <3>3, FormOrder DEF FormKnows, KnowsForm
    <3>6. r.op \in FillOps => \A a \in N.targets : Answers(a, N.m)'
      BY <1>4, <1>7, <3>3 DEF FormKnows
    <3>7. FormKnows(N)'
      BY <3>3, <3>4, <3>5, <3>6 DEF FormKnows, y
    <3> QED  BY <1>0, <1>3, <3>7
  <2> QED  BY <2>1, <2>2, <2>3
<1>9. CASE LockDropped(q)
  <2> DEFINE dropped == FieldsOf(r.m) \ Listed(r)
             M == [r EXCEPT !.targets = dropped]
  <2>1. Does(q, "LockDropped") /\ Continue(q, M)
    BY <1>0, <1>9 DEF LockDropped
  <2>2. Alike(r, M) /\ M.m = r.m /\ M.targets = dropped /\ M.set = r.set /\ M.list = r.list
    BY <1>4 DEF Alike, Shaped, Columns
  <2> HIDE DEF M
  <2>3. Went(r, "LockDropped", M, N)
    BY <1>0, <2>1, <2>2, GoesTo
  <2>4. /\ y # "end" => N.set = r.set /\ N.list = r.list
        /\ N.m = r.m /\ N.targets = dropped /\ N.op = r.op /\ Follows(r.op, "LockDropped", y)
        /\ At(r) = "LockDropped"
    BY <2>2, <2>3 DEF Went
  <2> HIDE DEF y
  <2>5. r.op = "UpdateForm" /\ y = "UpsertFields"
    BY <2>4, OpsOf, FormOrder
  <2>6. KnowsFields(r, "LockDropped")
    BY <1>4, <2>4, <2>5 DEF FormKnows
  <2>7. KnowsFields(N, y)'
    BY <1>6, <2>4, <2>5, <2>6 DEF KnowsFields, Listed
  <2>8. FormKnows(N)'
    BY <2>4, <2>5, <2>7 DEF FormKnows, FillOps, y
  <2> QED  BY <1>0, <1>3, <2>8
<1>10. CASE FindByLeadPhone(q)
  <2>1. PICK c : Does(q, "FindByLeadPhone") /\ (Refuse(q) \/ Continue(q, [r EXCEPT !.c = c]))
    BY <1>0, <1>10 DEF FindByLeadPhone
  <2> DEFINE M == [r EXCEPT !.c = c]
  <2>2. CASE Refuse(q)
    BY <1>0, <1>3, <1>5, <2>2, RefusedEnds
  <2>3. CASE Continue(q, M)
    <3>1. Alike(r, M) /\ M.m = r.m /\ M.targets = r.targets
      BY <1>4 DEF Alike, Shaped, Columns
    <3> HIDE DEF M
    <3>2. Went(r, "FindByLeadPhone", M, N)
      BY <1>0, <2>1, <2>3, <3>1, GoesTo
    <3>3. /\ N.m = r.m /\ N.targets = r.targets /\ N.op = r.op /\ r.op \in FillOps
          /\ At(r) = "FindByLeadPhone"
      BY <3>1, <3>2, OpsOf DEF Went
    <3>4. \A a \in N.targets : Answers(a, N.m)'
      BY <1>4, <1>7, <3>3 DEF FormKnows
    <3>5. FormKnows(N)'
      BY <3>3, <3>4 DEF FormKnows, FillOps
    <3> QED  BY <1>0, <1>3, <3>5
  <2> QED  BY <2>1, <2>2, <2>3
<1> QED  BY <1>8, <1>9, <1>10

\* A form that is created, saved or deleted keeps its fields.
LEMMA FormsKept ==
  ASSUME StrandInv, FormsInv, DomainsInv', UNCHANGED <<field, response>>,
         NEW q \in Request, OnlyOne(q), request[q].todo # <<>>,
         \A m \in Form : /\ FormRow(form'[m])
                         /\ form'[m].is = "live" => form[m].is = "live" \/ form[m].is = "absent"
                         /\ form'[m].is = "absent" => form[m].is = "absent"
  PROVE  FormsInv'
<1>1. DomainsInv
  BY DEF StrandInv, RowsInv
<1>2. \A m : EditsOf(m) \subseteq EditsOf(m)'
  BY EditsStay
<1>3. \A m : FieldsOf(m)' = FieldsOf(m)
  BY DEF FieldsOf, Live
<1>4. \A m \in Form : form'[m].is = "live" => FieldsOf(m)' \in {{}, {1, 2}} \union EditsOf(m)'
  BY <1>1, <1>2, <1>3, FormsHad
<1>5. \A m \in Form : form'[m].is = "absent" => FieldsOf(m)' = {}
  BY <1>1, <1>3, FormsHad
<1> QED  BY <1>1, <1>4, <1>5, FormsHad, FormsMade

\* A form is saved as it was loaded but for the switch.
LEMMA SaveFormAlone ==
  ASSUME StrandInv, FormsInv, NEW q \in Request, FormKnows(request[q]), SaveForm(q)
  PROVE  FormsInv' /\ FormKnows(request[q])'
<1>0. PICK r, N : r = request[q] /\ N = request'[q]
  OBVIOUS
<1> DEFINE row == Over(r.set, r.row)
<1>1. /\ Does(q, "SaveForm") /\ Continue(q, request[q]) /\ form' = [form EXCEPT ![r.m] = row]
      /\ UNCHANGED <<field, response>> /\ r.todo # <<>>
  BY <1>0 DEF SaveForm, Does, InFlight
<1>2. DomainsInv /\ DomainsInv' /\ OnlyOne(q)
  BY FormDomains DEF FormStatement
<1>3. Went(r, "SaveForm", r, N)
  BY <1>0, <1>1, TicksTo
<1>4. FormKnows(r)
  BY <1>0
<1> DEFINE y == At(N)
<1>5. /\ y # "end" => N.set = r.set /\ N.list = r.list /\ N.row = r.row
      /\ N.m = r.m /\ N.targets = r.targets /\ N.op = r.op /\ Follows(r.op, "SaveForm", y)
      /\ At(r) = "SaveForm" /\ r.op \in {"UpdateForm", "SetFormActive"}
  BY <1>3, OpsOf DEF Went
<1> HIDE DEF y
<1>6. r.m \in Form /\ form[r.m].is = "live" /\ r.row = form[r.m] /\ DOMAIN r.set \subseteq {"open"}
  <2>1. CASE r.op = "UpdateForm"
    BY <1>2, <1>4, <1>5, <2>1 DEF FormKnows, KnowsFields, Live, DomainsInv
  <2>2. CASE r.op = "SetFormActive"
    BY <1>2, <1>4, <1>5, <2>2 DEF FormKnows, KnowsForm, Live, DomainsInv
  <2> QED  BY <1>5, <2>1, <2>2
<1>7. FormRow(row) /\ row.is = "live"
  <2>1. FormRow(form[r.m])
    BY <1>2, <1>6, FormsHad
  <2>2. DOMAIN form[r.m] = {"is", "open"}
    BY <2>1 DEF FormRow
  <2> QED  BY <1>6, <2>2 DEF Over, FormRow
<1> HIDE DEF row
<1>8. \A m \in Form : form'[m] = IF m = r.m THEN row ELSE form[m]
  BY <1>1, <1>2 DEF DomainsInv
<1>9. FormsInv'
  <2>1. \A m \in Form : /\ FormRow(form'[m])
                        /\ form'[m].is = "live" => form[m].is = "live" \/ form[m].is = "absent"
                        /\ form'[m].is = "absent" => form[m].is = "absent"
    BY <1>2, <1>6, <1>7, <1>8, FormsHad
  <2> QED  BY <1>0, <1>1, <1>2, <2>1, FormsKept
<1>10. r.m \in Live(form)' /\ \A m : FieldsOf(m)' = FieldsOf(m)
  BY <1>1, <1>2, <1>6, <1>7, <1>8, FieldsNow DEF FieldsOf, Live
<1>11. ASSUME r.op = "UpdateForm", y # "end" PROVE KnowsFields(N, y)'
  BY <1>4, <1>5, <1>10, <1>11, FormOrder DEF FormKnows, KnowsFields, Listed
<1>12. r.op = "SetFormActive" => y = "end"
  BY <1>5, FormOrder
<1>13. FormKnows(N)'
  BY <1>5, <1>11, <1>12 DEF FormKnows, FillOps, y
<1> QED  BY <1>0, <1>9, <1>13

\* A request on forms that knows nothing.
LEMMA NoFormKnown ==
  ASSUME NEW q \in Request, Named(q), request[q].op \notin {"UpdateForm", "SetFormActive"} \union FillOps
  PROVE  FormKnows(request[q])'
<1>0. PICK N : N = request'[q]
  OBVIOUS
<1>1. At(N) = "end" \/ N.op \notin {"UpdateForm", "SetFormActive"} \union FillOps
  BY <1>0 DEF Named, At
<1>2. FormKnows(N)'
  BY <1>1 DEF FormKnows
<1> QED  BY <1>0, <1>2

\* A form is deleted, or created without fields.
LEMMA FlagFormAlone ==
  ASSUME StrandInv, FormsInv, NEW q \in Request, FlagForm(q) \/ CreateFormRow(q)
  PROVE  FormsInv' /\ FormKnows(request[q])'
<1>0. PICK r : r = request[q]
  OBVIOUS
<1>1. UNCHANGED <<field, response>> /\ r.todo # <<>>
  BY <1>0 DEF FlagForm, CreateFormRow, Does, InFlight
<1>2. DomainsInv /\ DomainsInv' /\ OnlyOne(q) /\ Named(q)
  BY FormDomains, FormStatementOps DEF FormStatement
<1>3. r.op \in {"DeleteForm", "CreateForm"}
  <2>1. Does(q, "FlagForm") \/ Does(q, "CreateFormRow")
    BY DEF FlagForm, CreateFormRow
  <2> QED  BY <1>0, <2>1, OpOf, OpsOf DEF StrandInv
<1>4. FormKnows(request[q])'
  BY <1>0, <1>2, <1>3, NoFormKnown DEF FillOps
<1>5. \A m \in Form : FormRow(form[m])
  BY <1>2, FormsHad
<1>6. CASE FlagForm(q)
  <2> DEFINE row == [form[r.m] EXCEPT !.is = "deleted"]
  <2>1. form' = [form EXCEPT ![r.m] = row]
    BY <1>0, <1>6 DEF FlagForm
  <2>2. r.m \in Form => FormRow(row) /\ row.is = "deleted"
    BY <1>5 DEF FormRow
  <2> HIDE DEF row
  <2>3. \A m \in Form : form'[m] = IF m = r.m THEN row ELSE form[m]
    BY <1>2, <2>1 DEF DomainsInv
  <2>4. \A m \in Form : /\ FormRow(form'[m])
                        /\ form'[m].is = "live" => form[m].is = "live" \/ form[m].is = "absent"
                        /\ form'[m].is = "absent" => form[m].is = "absent"
    BY <1>5, <2>2, <2>3
  <2> QED  BY <1>0, <1>1, <1>2, <1>4, <2>4, FormsKept
<1>7. CASE CreateFormRow(q)
  <2> DEFINE row == [is |-> "live", open |-> FALSE]
  <2>1. form' = [form EXCEPT ![Fresh(form)] = row] /\ Absent(form) # {}
    BY <1>7 DEF CreateFormRow
  <2>2. Fresh(form) \in Form /\ form[Fresh(form)].is = "absent"
    BY <1>2, <2>1, FreshRow, TablesAssumption DEF DomainsInv
  <2>3. FormRow(row) /\ row.is = "live"
    BY DEF FormRow
  <2> HIDE DEF row
  <2>4. \A m \in Form : form'[m] = IF m = Fresh(form) THEN row ELSE form[m]
    BY <1>2, <2>1 DEF DomainsInv
  <2>5. \A m \in Form : /\ FormRow(form'[m])
                        /\ form'[m].is = "live" => form[m].is = "live" \/ form[m].is = "absent"
                        /\ form'[m].is = "absent" => form[m].is = "absent"
    BY <1>5, <2>2, <2>3, <2>4
  <2> QED  BY <1>0, <1>1, <1>2, <1>4, <2>5, FormsKept
<1> QED  BY <1>6, <1>7

\* Responses are kept with answers to fields of their form.
LEMMA ResponsesKept ==
  ASSUME StrandInv, FormsInv, DomainsInv', UNCHANGED <<form, field>>,
         NEW q \in Request, OnlyOne(q), request[q].todo # <<>>,
         \A x \in Response :
           /\ ResponseRow(response'[x])
           /\ response'[x].is = "live" =>
                \A a \in response'[x].answers : /\ a \in Field /\ field[a].is # "absent"
                                                /\ field[a].form = response'[x].form
  PROVE  FormsInv'
<1>1. DomainsInv
  BY DEF StrandInv, RowsInv
<1>2. \A m : EditsOf(m) \subseteq EditsOf(m)'
  BY EditsStay
<1>3. \A m : FieldsOf(m)' = FieldsOf(m)
  BY DEF FieldsOf, Live
<1>4. \A m \in Form : form'[m].is = "live" => FieldsOf(m)' \in {{}, {1, 2}} \union EditsOf(m)'
  BY <1>1, <1>2, <1>3, FormsHad
<1>5. \A m \in Form : form'[m].is = "absent" => FieldsOf(m)' = {}
  BY <1>1, <1>3, FormsHad
<1> QED  BY <1>1, <1>4, <1>5, FormsHad, FormsMade

\* A response is saved with its answers, or deleted.
LEMMA ResponseAlone ==
  ASSUME StrandInv, FormsInv, NEW q \in Request, FormKnows(request[q]),
         SaveResponse(q) \/ FlagResponse(q)
  PROVE  FormsInv' /\ FormKnows(request[q])'
<1>0. PICK r, N : r = request[q] /\ N = request'[q]
  OBVIOUS
<1>1. UNCHANGED <<form, field>> /\ r.todo # <<>> /\ Continue(q, request[q])
  BY <1>0 DEF SaveResponse, FlagResponse, Does, InFlight
<1>2. DomainsInv /\ DomainsInv' /\ OnlyOne(q) /\ Named(q)
  BY FormDomains, FormStatementOps DEF FormStatement
<1>3. \A a, m : Answers(a, m)' = Answers(a, m)
  BY <1>1 DEF Answers
<1>4. \A x \in Response :
        /\ ResponseRow(response[x])
        /\ response[x].is = "live" =>
             \A a \in response[x].answers : /\ a \in Field /\ field[a].is # "absent"
                                            /\ field[a].form = response[x].form
  BY <1>2, FormsHad
<1>5. CASE SaveResponse(q)
  <2> DEFINE row == [is |-> "live", form |-> r.m, answers |-> r.targets]
  <2>1. /\ response' = [response EXCEPT ![Fresh(response)] = row] /\ Does(q, "SaveResponse")
    BY <1>0, <1>5 DEF SaveResponse
  <2>2. Went(r, "SaveResponse", r, N)
    BY <1>0, <1>1, <2>1, TicksTo
  <2>3. r.op \in FillOps /\ N.op = r.op /\ N.m = r.m /\ N.targets = r.targets /\ At(r) = "SaveResponse"
    BY <2>2, OpsOf DEF Went
  <2>4. \A a \in r.targets : Answers(a, r.m)
    BY <1>0, <2>3 DEF FormKnows
  <2>5. ResponseRow(row) /\ row.form = r.m /\ row.answers = r.targets
    BY DEF ResponseRow
  <2> HIDE DEF row
  <2>6. \A x \in Response : response'[x] = row \/ response'[x] = response[x]
    BY <1>2, <2>1 DEF DomainsInv
  <2>7. \A x \in Response :
          /\ ResponseRow(response'[x])
          /\ response'[x].is = "live" =>
               \A a \in response'[x].answers : /\ a \in Field /\ field[a].is # "absent"
                                               /\ field[a].form = response'[x].form
    BY <1>4, <2>4, <2>5, <2>6 DEF Answers
  <2>8. FormsInv'
    BY <1>0, <1>1, <1>2, <2>7, ResponsesKept
  <2>9. FormKnows(N)'
    BY <1>3, <2>3, <2>4 DEF FormKnows, FillOps
  <2> QED  BY <1>0, <2>8, <2>9
<1>6. CASE FlagResponse(q)
  <2> DEFINE row == [response[r.n] EXCEPT !.is = "deleted"]
  <2>1. /\ response' = [response EXCEPT ![r.n] = row] /\ Does(q, "FlagResponse")
    BY <1>0, <1>6 DEF FlagResponse
  <2>2. r.op = "DeleteResponse"
    BY <1>0, <2>1, OpOf, OpsOf DEF StrandInv
  <2>3. r.n \in Response => ResponseRow(row) /\ row.is = "deleted"
    BY <1>4 DEF ResponseRow
  <2> HIDE DEF row
  <2>4. \A x \in Response : response'[x] = IF x = r.n THEN row ELSE response[x]
    BY <1>2, <2>1 DEF DomainsInv
  <2>5. \A x \in Response :
          /\ ResponseRow(response'[x])
          /\ response'[x].is = "live" =>
               \A a \in response'[x].answers : /\ a \in Field /\ field[a].is # "absent"
                                               /\ field[a].form = response'[x].form
    BY <1>4, <2>3, <2>4
  <2> QED  BY <1>0, <1>1, <1>2, <2>2, <2>5, ResponsesKept, NoFormKnown DEF FillOps
<1> QED  BY <1>5, <1>6

\* The fields of a form become those that were saved.
LEMMA UpsertAlone ==
  ASSUME StrandInv, FormsInv, NEW q \in Request, FormKnows(request[q]), UpsertFields(q)
  PROVE  FormsInv' /\ FormKnows(request[q])'
<1>0. PICK r, N : r = request[q] /\ N = request'[q]
  OBVIOUS
<1> DEFINE listed == Listed(r) \ {0}
           new == IF 0 \in Listed(r) THEN {Fresh(field)} ELSE {}
           fresh == [is |-> "live", form |-> r.m]
           gone(x) == [field[x] EXCEPT !.is = "deleted"]
           M == [r EXCEPT !.targets = listed \union new]
<1>1. /\ Does(q, "UpsertFields") /\ Continue(q, M)
      /\ 0 \in Listed(r) => Absent(field) # {}
      /\ field' = [x \in Field |-> CASE x \in r.targets -> gone(x)
                                     [] x \in listed \union new -> fresh
                                     [] OTHER -> field[x]]
      /\ UNCHANGED <<form, response>> /\ r.todo # <<>>
  BY <1>0 DEF UpsertFields, Does, InFlight
<1>2. DomainsInv /\ DomainsInv' /\ OnlyOne(q)
  BY FormDomains DEF FormStatement
<1>3. Shaped(r) /\ FormKnows(r)
  BY <1>0 DEF StrandInv, RequestsInv, RequestInv
<1>4. Alike(r, M) /\ M.m = r.m /\ M.targets = listed \union new
  BY <1>3 DEF Alike, Shaped, Columns
<1>5. fresh.is = "live" /\ fresh.form = r.m /\ FieldRow(fresh)
  BY DEF FieldRow
<1>6. \A x \in Field : /\ FieldRow(field[x])
                       /\ FieldRow(gone(x)) /\ gone(x).is = "deleted" /\ gone(x).form = field[x].form
  BY <1>2, FormsHad DEF FieldRow
<1> DEFINE now(x) == CASE x \in r.targets -> gone(x)
                       [] x \in listed \union new -> fresh
                       [] OTHER -> field[x]
<1>7. \A x \in Field : field'[x] = now(x)
  BY <1>1
<1> HIDE DEF M, fresh, gone
<1>8. ASSUME NEW x, x \in r.targets => x \notin listed \union new
      PROVE  /\ x \in r.targets => now(x) = gone(x)
             /\ x \notin r.targets /\ x \in listed \union new => now(x) = fresh
             /\ x \notin r.targets /\ x \notin listed \union new => now(x) = field[x]
  <2> HIDE DEF listed, new
  <2> QED  BY <1>8
<1> HIDE DEF now
<1>9. Went(r, "UpsertFields", M, N)
  BY <1>0, <1>1, <1>4, GoesTo
<1>10. /\ N.op = r.op /\ r.op = "UpdateForm" /\ At(N) = "end" /\ N.m = r.m
       /\ N.targets = listed \union new /\ At(r) = "UpsertFields"
  BY <1>4, <1>9, OpsOf, FormOrder DEF Went
<1>11. /\ r.m \in Form /\ form[r.m].is = "live"
       /\ r.targets = FieldsOf(r.m) \ Listed(r) /\ Listed(r) \subseteq FieldsOf(r.m) \union {0}
  BY <1>2, <1>3, <1>10 DEF FormKnows, KnowsFields, Live, DomainsInv
<1>12. \A x \in new : x \in Field /\ field[x].is = "absent"
  <2>1. ASSUME 0 \in Listed(r)
        PROVE  Fresh(field) \in Field /\ field[Fresh(field)].is = "absent"
    <3>1. DOMAIN field = Field /\ Field \subseteq Nat
      BY <1>2, TablesAssumption DEF DomainsInv
    <3>2. Absent(field) # {}
      BY <1>1, <2>1
    <3> QED  BY <3>1, <3>2, FreshRow
  <2> QED  BY <2>1
<1> HIDE DEF new
<1>13. \A m : FieldsOf(m) = {x \in Field : field[x].is = "live" /\ field[x].form = m}
  BY <1>2, FormsHad
<1>14. /\ \A x \in r.targets : x \in Field /\ field[x].is = "live" /\ field[x].form = r.m /\ x \notin listed
       /\ \A x \in listed : x \in Field /\ field[x].is = "live" /\ field[x].form = r.m
       /\ \A x \in FieldsOf(r.m) : x \in r.targets \/ x \in listed \/ x = 0
  BY <1>11, <1>13
<1> HIDE DEF listed
<1>15. \A x \in Field :
         /\ x \in r.targets => /\ field'[x].is = "deleted" /\ field'[x].form = field[x].form
                               /\ field[x].is = "live" /\ field[x].form = r.m
         /\ x \in listed \union new => field'[x].is = "live" /\ field'[x].form = r.m
         /\ x \notin r.targets /\ x \notin listed \union new => field'[x] = field[x]
         /\ FieldRow(field'[x])
  <2> SUFFICES ASSUME NEW x \in Field
               PROVE  /\ x \in r.targets => /\ field'[x].is = "deleted" /\ field'[x].form = field[x].form
                                            /\ field[x].is = "live" /\ field[x].form = r.m
                      /\ x \in listed \union new => field'[x].is = "live" /\ field'[x].form = r.m
                      /\ x \notin r.targets /\ x \notin listed \union new => field'[x] = field[x]
                      /\ FieldRow(field'[x])
    OBVIOUS
  <2>1. CASE x \in r.targets
    <3>1. x \notin listed \union new
      BY <1>12, <1>14, <2>1
    <3> QED  BY <1>6, <1>7, <1>8, <1>14, <2>1, <3>1
  <2>2. CASE x \notin r.targets /\ x \in listed \union new
    BY <1>5, <1>7, <1>8, <2>2
  <2>3. CASE x \notin r.targets /\ x \notin listed \union new
    BY <1>6, <1>7, <1>8, <2>3
  <2> QED  BY <2>1, <2>2, <2>3
<1>16. 0 \notin Field
  BY TablesAssumption
<1>17. \A m : FieldsOf(m)' = {x \in Field : field'[x].is = "live" /\ field'[x].form = m}
  BY <1>2, FieldsNow
<1>18. FieldsOf(r.m)' = listed \union new
  BY <1>12, <1>13, <1>14, <1>15, <1>16, <1>17
<1>19. \A m : m # r.m => FieldsOf(m)' = FieldsOf(m)
  <2>1. ASSUME NEW m, m # r.m, NEW x \in Field
        PROVE  (field'[x].is = "live" /\ field'[x].form = m) <=> (field[x].is = "live" /\ field[x].form = m)
    BY <1>12, <1>14, <1>15, <2>1
  <2> QED  BY <1>13, <1>17, <2>1
<1>20. N.targets \in EditsOf(r.m)'
  <2>1. N.todo = <<>>
    <3>1. RequestInv(N)
      BY <1>0, FormStatementRequests DEF FormStatement, RequestsInv
    <3> QED  BY <1>10, <3>1, EndIsEmpty
  <2>2. q \in {x \in Request : /\ request'[x].op = "UpdateForm"
                               /\ request'[x].todo = <<>> /\ request'[x].m = r.m}
    BY <1>0, <1>10, <2>1
  <2> QED  BY <1>0, <2>2 DEF EditsOf
<1>21. \A m \in Form : form'[m].is = "live" => FieldsOf(m)' \in {{}, {1, 2}} \union EditsOf(m)'
  <2>1. \A m : EditsOf(m) \subseteq EditsOf(m)'
    BY <1>0, <1>1, <1>2, EditsStay
  <2> QED  BY <1>1, <1>2, <1>10, <1>18, <1>19, <1>20, <2>1, FormsHad
<1>22. \A m \in Form : form'[m].is = "absent" => FieldsOf(m)' = {}
  BY <1>1, <1>2, <1>11, <1>19, FormsHad
<1>23. \A x \in Field : field[x].is # "absent" => field'[x].is # "absent" /\ field'[x].form = field[x].form
  <2> SUFFICES ASSUME NEW x \in Field, field[x].is # "absent"
               PROVE  field'[x].is # "absent" /\ field'[x].form = field[x].form
    OBVIOUS
  <2> QED  BY <1>12, <1>14, <1>15
<1>24. \A x \in Response : response'[x].is = "live" =>
         \A a \in response'[x].answers : /\ a \in Field /\ field'[a].is # "absent"
                                         /\ field'[a].form = response'[x].form
  BY <1>1, <1>2, <1>23, FormsHad
<1>25. FormsInv'
  <2>1. /\ \A m \in Form : FormRow(form'[m])
        /\ \A x \in Response : ResponseRow(response'[x])
    BY <1>1, <1>2, FormsHad
  <2> QED  BY <1>2, <1>15, <1>21, <1>22, <1>24, <2>1, FormsMade
<1> QED  BY <1>0, <1>10, <1>25 DEF FormKnows

\* Requests that are alone keep what the tables of the forms promise.
LEMMA FormAlone ==
  ASSUME StrandInv, FormsInv, NEW q \in Request, FormKnows(request[q]),
         FlowStatement(q) \/ KanbanStatement(q) \/ FormStatement(q)
  PROVE  FormsInv' /\ FormKnows(request[q])'
<1>0. request[q].todo # <<>>
  <2>1. \E x : Does(q, x)
    BY DEF FlowStatement, KanbanStatement, FormStatement,
           LoadFlow, SaveFlow, NoFlowYet, CreateFlowRow, LoadNode, CreateNodeRow, SaveNode,
           DropOptions, AddOptions, ClearNodeArrows, ClearOptionArrows, ForgetStart, ReadSource,
           CopyFlow, CopyRefused, LoadKanban, Load, SaveKanban, CreateKanbanRow, CreateStageRow,
           ReadMaxOrder, LoadStage, SaveStage, ListStages, SaveOrder, ReadUsage, LoadTarget,
           MoveLeads, MoveNodes, MoveFillNodes, FlagStage, SaveLead, LoadForm, SaveForm, FlagForm,
           CreateFormRow, LockDropped, UpsertFields, SaveResponse, FlagResponse, FindByLeadPhone
  <2> QED  BY <2>1 DEF Does, InFlight
<1>1. CASE FormStatement(q)
  <2>1. CASE LoadForm(q) \/ LockDropped(q) \/ FindByLeadPhone(q)
    BY <2>1, FormLoads
  <2>2. CASE SaveForm(q) \/ FlagForm(q) \/ CreateFormRow(q)
    BY <2>2, SaveFormAlone, FlagFormAlone
  <2>3. CASE UpsertFields(q) \/ SaveResponse(q) \/ FlagResponse(q)
    BY <2>3, UpsertAlone, ResponseAlone
  <2> QED  BY <1>1, <2>1, <2>2, <2>3 DEF FormStatement
<1>2. CASE FlowStatement(q)
  <2>1. UNCHANGED <<form, field, response>> /\ DomainsInv' /\ Named(q)
    BY <1>2, EditorKeeps, FlowDomains, FlowStatementOps
  <2>2. request[q].op \notin {"UpdateForm", "SetFormActive"} \union FillOps
    BY <1>2, FlowStatementOps DEF FlowOps, EditOps, FillOps
  <2> QED  BY <1>0, <2>1, <2>2, FormsSame, NoFormKnown DEF Named
<1>3. CASE KanbanStatement(q)
  <2>1. UNCHANGED <<form, field, response>> /\ DomainsInv' /\ Named(q)
    BY <1>3, BoardsKeepNodes, KanbanStatementOps
  <2>2. FormsInv'
    BY <1>0, <2>1, FormsSame DEF Named
  <2>3. request[q].op \in KanbanOps \union FillOps \union {"LeadReachesNode"}
    BY <1>3, KanbanStatementOps
  <2>4. CASE request[q].op \in FillOps
    <3>1. PICK x : Does(q, x) /\ (SaveLead(q) \/ x \in
              {"LoadKanban", "SaveKanban", "CreateKanbanRow", "CreateStageRow", "ReadMaxOrder",
               "LoadStage", "SaveStage", "ListStages", "SaveOrder", "ReadUsage", "LoadTarget",
               "MoveLeads", "MoveNodes", "MoveFillNodes", "FlagStage"})
      BY <1>3 DEF KanbanStatement, LoadKanban, Load, SaveKanban, CreateKanbanRow, CreateStageRow,
                  ReadMaxOrder, LoadStage, SaveStage, ListStages, SaveOrder, ReadUsage, LoadTarget,
                  MoveLeads, MoveNodes, MoveFillNodes, FlagStage, SaveLead
    <3>2. PICK y : Follows(request[q].op, x, y)
      BY <3>1, OpOf DEF StrandInv
    <3>3. SaveLead(q)
      BY <2>4, <3>1, <3>2, FormOrder
    <3>4. PICK N : N = request'[q]
      OBVIOUS
    <3>5. Went(request[q], "SaveLead", request[q], N)
      BY <3>3, <3>4, TicksTo DEF SaveLead
    <3>6. At(N) = "end"
      BY <2>4, <3>5, FormOrder DEF Went
    <3> QED  BY <2>2, <3>4, <3>6 DEF FormKnows
  <2>5. CASE request[q].op \notin FillOps
    <3>1. request[q].op \notin {"UpdateForm", "SetFormActive"} \union FillOps
      BY <2>3, <2>5 DEF KanbanOps
    <3> QED  BY <2>1, <2>2, <3>1, NoFormKnown
  <2> QED  BY <2>4, <2>5
<1> QED  BY <1>1, <1>2, <1>3

-----------------------------------------------------------------------------
(* The boards alone *)

\* The order of the statements of the requests on boards.
LEMMA BoardOrder ==
  ASSUME NEW op, NEW x, NEW y, Follows(op, x, y)
  PROVE  /\ op = "CreateKanban" => y \in {"CreateStageRow", "end"}
         /\ op \in {"UpdateKanban", "DeleteKanban"} => \/ x = "LoadKanban" /\ y = "SaveKanban"
                                                       \/ x = "SaveKanban" /\ y = "end"
         /\ op = "CreateStage" => \/ x = "LoadKanban" /\ y = "ReadMaxOrder"
                                  \/ x = "ReadMaxOrder" /\ y = "CreateStageRow"
                                  \/ x = "CreateStageRow" /\ y = "end"
         /\ op = "UpdateStage" => \/ x = "LoadKanban" /\ y = "LoadStage"
                                  \/ x = "LoadStage" /\ y = "SaveStage"
                                  \/ x = "SaveStage" /\ y = "end"
         /\ op = "ReorderStages" => \/ x = "LoadKanban" /\ y = "ListStages"
                                    \/ x = "ListStages" /\ y \in {"SaveOrder", "end"}
                                    \/ x = "SaveOrder" /\ y \in {"SaveOrder", "end"}
         /\ op = "DeleteStage" => \/ x = "LoadKanban" /\ y = "LoadStage"
                                  \/ x = "LoadStage" /\ y = "ReadUsage"
                                  \/ x = "ReadUsage" /\ y = "LoadTarget"
                                  \/ x = "LoadTarget" /\ y = "MoveLeads"
                                  \/ x = "MoveLeads" /\ y = "MoveNodes"
                                  \/ x = "MoveNodes" /\ y = "MoveFillNodes"
                                  \/ x = "MoveFillNodes" /\ y = "FlagStage"
                                  \/ x = "FlagStage" /\ y = "end"
         /\ op = "MoveLead" => \/ x = "LoadKanban" /\ y = "LoadStage"
                               \/ x = "LoadStage" /\ y = "SaveLead"
                               \/ x = "SaveLead" /\ y = "end"
         /\ op = "LeadReachesNode" => \/ x = "LoadNode" /\ y = "SaveLead"
                                      \/ x = "SaveLead" /\ y = "end"
BY DEF Follows, FlowFollows, KanbanFollows, FormFollows, EditOps, FillOps

\* No reordering was cut short.
NoCut == \A q \in Request : request[q].op # "abortedOrder"

\* What is asked of the rows, a row at a time.
LEMMA StagesMade ==
  ASSUME DomainsInv', NEW q \in Request,
         \A k \in Kanban : KanbanRow(kanban'[k]),
         \A s \in Stage : stage'[s].order \in Nat,
         \A k \in Kanban : kanban'[k].is = "absent" => StagesOf(k)' = {},
         NoCut' => \A k \in Kanban : kanban'[k].is = "live" =>
                     Ordered(k)' \/ Reorders(request'[q], k)
  PROVE  StagesInv'
<1>1. DOMAIN kanban' = Kanban
  BY DEF DomainsInv
<1>2. Live(kanban)' = {k \in Kanban : kanban'[k].is = "live"}
      /\ Absent(kanban)' = {k \in Kanban : kanban'[k].is = "absent"}
  BY <1>1 DEF Live, Absent
<1>3. ((\A p \in Request : request[p].op # "abortedOrder") =>
         \A k \in Live(kanban) : Ordered(k) \/ \E p \in Request : Reorders(request[p], k))'
  BY <1>2 DEF NoCut, Reorders
<1> QED  BY <1>2, <1>3 DEF StagesInv

\* What was asked of the rows before.
LEMMA StagesHad ==
  ASSUME StagesInv, DomainsInv
  PROVE  /\ \A k \in Kanban : KanbanRow(kanban[k])
         /\ \A s \in Stage : stage[s].order \in Nat
         /\ \A k \in Kanban : kanban[k].is = "absent" => StagesOf(k) = {}
         /\ NoCut => \A k \in Kanban : kanban[k].is = "live" =>
                       Ordered(k) \/ \E q \in Request : Reorders(request[q], k)
         /\ DOMAIN kanban = Kanban /\ DOMAIN stage = Stage
         /\ \A k : StagesOf(k) = {s \in Stage : stage[s].is = "live" /\ stage[s].kanban = k}
<1>1. DOMAIN kanban = Kanban /\ DOMAIN stage = Stage
  BY DEF DomainsInv
<1>2. Live(kanban) = {k \in Kanban : kanban[k].is = "live"}
      /\ Absent(kanban) = {k \in Kanban : kanban[k].is = "absent"}
  BY <1>1 DEF Live, Absent
<1>3. \A k : StagesOf(k) = {s \in Stage : stage[s].is = "live" /\ stage[s].kanban = k}
  BY <1>1 DEF StagesOf, Live
<1> QED  BY <1>1, <1>2, <1>3 DEF StagesInv, NoCut

\* The stages of a kanban after a step.
LEMMA StagesNow ==
  ASSUME DomainsInv'
  PROVE  /\ \A k : StagesOf(k)' = {s \in Stage : stage'[s].is = "live" /\ stage'[s].kanban = k}
         /\ Live(kanban)' = {k \in Kanban : kanban'[k].is = "live"}
         /\ Live(stage)' = {s \in Stage : stage'[s].is = "live"}
         /\ DOMAIN kanban' = Kanban /\ DOMAIN stage' = Stage
<1>1. DOMAIN kanban' = Kanban /\ DOMAIN stage' = Stage
  BY DEF DomainsInv
<1>2. Live(kanban)' = {k \in Kanban : kanban'[k].is = "live"}
      /\ Live(stage)' = {s \in Stage : stage'[s].is = "live"}
  BY <1>1 DEF Live
<1> QED  BY <1>1, <1>2 DEF StagesOf, Live

\* The request q does a statement and nobody else is under way.
AloneHere(q) ==
  /\ Named(q) /\ request[q].op # "abortedOrder"
  /\ \A p \in Request : p # q => request[p].todo = <<>>

\* Unless they are being saved the places were in order.
LEMMA WereOrdered ==
  ASSUME DomainsInv, StagesInv, NEW q \in Request, AloneHere(q),
         request[q].op # "ReorderStages" \/ At(request[q]) # "SaveOrder"
  PROVE  NoCut' => \A k \in Kanban : kanban[k].is = "live" => Ordered(k)
<1>1. NoCut' => NoCut
  BY DEF NoCut, AloneHere, Named, OnlyOne
<1>2. \A p \in Request : \A k : ~Reorders(request[p], k)
  BY DEF Reorders, AloneHere, At
<1> QED  BY <1>1, <1>2, StagesHad

\* Nothing changes on the boards while their tables do not.
LEMMA StagesSame ==
  ASSUME DomainsInv, DomainsInv', StagesInv, NEW q \in Request, AloneHere(q),
         request[q].op # "ReorderStages" \/ At(request[q]) # "SaveOrder",
         UNCHANGED <<kanban, stage>>
  PROVE  StagesInv'
<1>1. \A k : StagesOf(k)' = StagesOf(k) /\ (Ordered(k) <=> Ordered(k)')
  BY DEF StagesOf, Live, Ordered
<1>2. NoCut' => \A k \in Kanban : kanban[k].is = "live" => Ordered(k)
  BY WereOrdered
<1>3. NoCut' => \A k \in Kanban : kanban'[k].is = "live" => Ordered(k)' \/ Reorders(request'[q], k)
  BY <1>1, <1>2
<1> QED  BY <1>1, <1>3, StagesHad, StagesMade

KnowingOps ==
  {"CreateKanban", "UpdateKanban", "DeleteKanban", "CreateStage", "ReorderStages", "UpdateStage"}

\* A request on other things knows nothing of places.
LEMMA NoStageKnown ==
  ASSUME NEW q \in Request, Named(q), request[q].op \notin KnowingOps
  PROVE  StageKnows(request[q])'
<1>0. PICK N : N = request'[q]
  OBVIOUS
<1>1. At(N) = "end" \/ N.op \notin KnowingOps
  BY <1>0 DEF Named, At
<1>2. StageKnows(N)'
  BY <1>1 DEF StageKnows, KnowingOps
<1> QED  BY <1>0, <1>2

\* A statement of the boards: the domains.
LEMMA BoardDomains ==
  ASSUME StrandInv, NEW q \in Request, KanbanStatement(q)
  PROVE  DomainsInv /\ DomainsInv' /\ Named(q)
BY KanbanStatementRows, KanbanStatementOps DEF StrandInv, RowsInv

\* What a request knows of the highest place.
LEMMA MaxOrderIsHighest ==
  ASSUME DomainsInv, StagesInv, NEW k
  PROVE  MaxOrder(k) \in Nat /\ \A s \in StagesOf(k) : stage[s].order <= MaxOrder(k)
<1> DEFINE S == {stage[s].order : s \in StagesOf(k)}
<1>1. StagesOf(k) \subseteq Stage /\ IsFiniteSet(Stage) /\ \A s \in Stage : stage[s].order \in Nat
  BY StagesHad, TablesAssumption
<1>2. IsFiniteSet(StagesOf(k))
  BY <1>1, FS_Subset
<1>3. IsFiniteSet(S)
  <2> DEFINE g == [s \in StagesOf(k) |-> stage[s].order]
  <2>1. g \in Surjection(StagesOf(k), S)
    BY DEF Surjection
  <2> HIDE DEF g, S
  <2> QED  BY <1>2, <2>1, FS_Surjection
<1>4. IsFiniteSet(S \union {0})
  BY <1>3, FS_AddElement
<1>5. S \union {0} \subseteq Nat /\ S \union {0} # {}
  BY <1>1
<1>6. Max(S \union {0}) \in S \union {0} /\ \A y \in S \union {0} : Max(S \union {0}) >= y
  BY <1>4, <1>5, Greatest
<1>7. MaxOrder(k) = Max(S \union {0})
  BY DEF MaxOrder
<1>8. MaxOrder(k) \in Nat /\ \A y \in S : MaxOrder(k) >= y
  BY <1>5, <1>6, <1>7
<1> QED  BY <1>1, <1>8

\* The statements of the boards that load.
LEMMA BoardLoads ==
  ASSUME StrandInv, StagesInv, NEW q \in Request, AloneHere(q), StageKnows(request[q]),
         LoadKanban(q) \/ ReadMaxOrder(q) \/ LoadStage(q) \/ ReadUsage(q) \/ LoadTarget(q)
           \/ SaveLead(q) \/ MoveLeads(q) \/ MoveNodes(q) \/ MoveFillNodes(q)
  PROVE  StagesInv' /\ StageKnows(request[q])'
<1>0. PICK r, N : r = request[q] /\ N = request'[q]
  OBVIOUS
<1>1. /\ UNCHANGED <<kanban, stage>>
      /\ \E x : /\ Does(q, x)
                /\ x \in {"LoadKanban", "ReadMaxOrder", "LoadStage", "ReadUsage", "LoadTarget", "SaveLead",
                          "MoveLeads", "MoveNodes", "MoveFillNodes"}
  BY DEF LoadKanban, Load, ReadMaxOrder, LoadStage, ReadUsage, LoadTarget, SaveLead, MoveLeads,
         MoveNodes, MoveFillNodes, tables
<1>2. DomainsInv /\ DomainsInv' /\ Named(q)
  BY BoardDomains DEF KanbanStatement
<1>3. At(request[q]) # "SaveOrder"
  BY <1>1, OpOf DEF StrandInv
<1>4. StagesInv'
  BY <1>1, <1>2, <1>3, StagesSame
<1>5. Shaped(r) /\ StageKnows(r)
  BY <1>0 DEF StrandInv, RequestsInv, RequestInv
<1>6. At(N) = "end" => StageKnows(N)'
  BY DEF StageKnows
<1>7. \A k : StagesOf(k)' = StagesOf(k) /\ Live(kanban)' = Live(kanban) /\ Live(stage)' = Live(stage)
  BY <1>1 DEF StagesOf, Live
<1> DEFINE y == At(N)
<1>8. CASE LoadKanban(q)
  <2> DEFINE M == [r EXCEPT !.row = kanban[r.k]]
  <2>1. Does(q, "LoadKanban") /\ (Refuse(q) \/ Continue(q, M))
    BY <1>0, <1>8 DEF LoadKanban, Load
  <2>2. CASE Refuse(q)
    BY <1>0, <1>4, <1>6, <2>2, RefusedEnds
  <2>3. CASE Continue(q, M)
    <3>1. Alike(r, M) /\ M.k = r.k /\ M.s = r.s /\ M.to = r.to /\ M.set = r.set /\ M.list = r.list
          /\ M.row = kanban[r.k]
      BY <1>5 DEF Alike, Shaped, Columns
    <3> HIDE DEF M
    <3>2. Went(r, "LoadKanban", M, N)
      BY <1>0, <2>1, <2>3, <3>1, GoesTo
    <3>3. /\ y # "end" => N.set = r.set /\ N.list = r.list /\ N.row = kanban[r.k] /\ N.k = r.k
                          /\ N.s = r.s /\ N.to = r.to
          /\ N.op = r.op /\ Follows(r.op, "LoadKanban", y) /\ At(r) = "LoadKanban"
      BY <3>1, <3>2 DEF Went
    <3> HIDE DEF y
    <3>4. r.op \in {"UpdateKanban", "DeleteKanban"} => KnowsKanban(N, y)'
      BY <1>1, <1>5, <1>7, <3>3, BoardOrder DEF StageKnows, KnowsKanban
    <3>5. r.op \in {"CreateKanban", "CreateStage"} => IsNext(N, y)'
      BY <3>3, BoardOrder, OpsOf DEF IsNext
    <3>6. r.op = "CreateStage" => y # "end" /\ N.k \in Live(kanban)'
      BY <1>5, <1>7, <3>3, BoardOrder DEF StageKnows
    <3>7. r.op = "ReorderStages" => KnowsPlaces(N, y)'
      BY <1>5, <3>3, BoardOrder DEF StageKnows, KnowsPlaces
    <3>8. r.op = "UpdateStage" => KnowsRow(N, y)'
      BY <1>5, <1>7, <3>3, BoardOrder DEF StageKnows, KnowsRow
    <3>9. StageKnows(N)'
      BY <3>3, <3>4, <3>5, <3>6, <3>7, <3>8 DEF StageKnows, y
    <3> QED  BY <1>0, <1>4, <3>9
  <2> QED  BY <2>1, <2>2, <2>3
<1>9. CASE ReadMaxOrder(q)
  <2> DEFINE M == [r EXCEPT !.to = MaxOrder(r.k) + 1]
  <2>1. Does(q, "ReadMaxOrder") /\ Continue(q, M)
    BY <1>0, <1>9 DEF ReadMaxOrder
  <2>2. Alike(r, M) /\ M.k = r.k /\ M.to = MaxOrder(r.k) + 1
    BY <1>5 DEF Alike, Shaped, Columns
  <2> HIDE DEF M
  <2>3. Went(r, "ReadMaxOrder", M, N)
    BY <1>0, <2>1, <2>2, GoesTo
  <2>4. /\ y # "end" => N.k = r.k /\ N.to = MaxOrder(r.k) + 1
        /\ N.op = r.op /\ Follows(r.op, "ReadMaxOrder", y) /\ At(r) = "ReadMaxOrder"
    BY <2>2, <2>3 DEF Went
  <2> HIDE DEF y
  <2>5. r.op = "CreateStage" /\ y = "CreateStageRow"
    BY <2>4, BoardOrder, OpsOf
  <2>6. r.k \in Live(kanban)
    BY <1>5, <2>4, <2>5 DEF StageKnows
  <2>7. N.to \in Nat /\ \A s \in StagesOf(r.k) : stage[s].order < N.to
    <3>1. MaxOrder(r.k) \in Nat /\ \A s \in StagesOf(r.k) : stage[s].order <= MaxOrder(r.k)
      BY <1>2, MaxOrderIsHighest
    <3>2. \A s \in StagesOf(r.k) : stage[s].order \in Nat
      BY <1>2, StagesHad
    <3> QED  BY <2>4, <2>5, <3>1, <3>2
  <2>8. IsNext(N, y)'
    BY <1>1, <1>7, <2>4, <2>5, <2>6, <2>7 DEF IsNext
  <2>9. StageKnows(N)'
    BY <1>7, <2>4, <2>5, <2>6, <2>8 DEF StageKnows, y
  <2> QED  BY <1>0, <1>4, <2>9
<1>10. CASE LoadStage(q)
  <2> DEFINE M == [r EXCEPT !.row = stage[r.s]]
  <2>1. Does(q, "LoadStage") /\ (Refuse(q) \/ Continue(q, M))
    BY <1>0, <1>10 DEF LoadStage
  <2>2. CASE Refuse(q)
    BY <1>0, <1>4, <1>6, <2>2, RefusedEnds
  <2>3. CASE Continue(q, M)
    <3>1. Alike(r, M) /\ M.s = r.s /\ M.row = stage[r.s]
      BY <1>5 DEF Alike, Shaped, Columns
    <3> HIDE DEF M
    <3>2. Went(r, "LoadStage", M, N)
      BY <1>0, <2>1, <2>3, <3>1, GoesTo
    <3>3. /\ y # "end" => N.s = r.s /\ N.row = stage[r.s]
          /\ N.op = r.op /\ Follows(r.op, "LoadStage", y) /\ At(r) = "LoadStage"
      BY <3>1, <3>2 DEF Went
    <3> HIDE DEF y
    <3>4. r.op \in {"UpdateStage", "DeleteStage", "MoveLead"}
      BY <3>3, OpsOf
    <3>5. r.op = "UpdateStage" => KnowsRow(N, y)'
      BY <1>1, <1>5, <1>7, <3>3, BoardOrder DEF StageKnows, KnowsRow
    <3>6. StageKnows(N)'
      BY <3>3, <3>4, <3>5 DEF StageKnows, y
    <3> QED  BY <1>0, <1>4, <3>6
  <2> QED  BY <2>1, <2>2, <2>3
<1>11. CASE \/ ReadUsage(q) \/ LoadTarget(q) \/ SaveLead(q)
            \/ MoveLeads(q) \/ MoveNodes(q) \/ MoveFillNodes(q)
  <2>1. \E x \in {"ReadUsage", "LoadTarget", "SaveLead", "MoveLeads", "MoveNodes", "MoveFillNodes"} :
          Does(q, x)
    BY <1>11 DEF ReadUsage, LoadTarget, SaveLead, MoveLeads, MoveNodes, MoveFillNodes
  <2>2. request[q].op \in {"DeleteStage", "MoveLead", "LeadReachesNode"} \union FillOps
    BY <2>1, OpOf, OpsOf DEF StrandInv
  <2> QED  BY <1>2, <1>4, <2>2, NoStageKnown DEF KnowingOps, FillOps
<1> QED  BY <1>8, <1>9, <1>10, <1>11

\* A kanban is saved as it was loaded, or deleted.
LEMMA SaveKanbanAlone ==
  ASSUME StrandInv, StagesInv, NEW q \in Request, AloneHere(q), StageKnows(request[q]), SaveKanban(q)
  PROVE  StagesInv' /\ StageKnows(request[q])'
<1>0. PICK r, N : r = request[q] /\ N = request'[q]
  OBVIOUS
<1> DEFINE row == Over(r.set, r.row)
<1>1. /\ Does(q, "SaveKanban") /\ Continue(q, request[q]) /\ kanban' = [kanban EXCEPT ![r.k] = row]
      /\ stage' = stage
  BY <1>0 DEF SaveKanban
<1>2. DomainsInv /\ DomainsInv' /\ Named(q)
  BY BoardDomains DEF KanbanStatement
<1>3. Went(r, "SaveKanban", r, N)
  BY <1>0, <1>1, TicksTo
<1>4. r.op \in {"UpdateKanban", "DeleteKanban"} /\ At(N) = "end" /\ At(r) = "SaveKanban"
  BY <1>3, OpsOf, BoardOrder DEF Went
<1>5. KnowsKanban(r, "SaveKanban")
  BY <1>0, <1>4 DEF StageKnows
<1>6. r.k \in Kanban /\ kanban[r.k].is = "live" /\ r.row = kanban[r.k]
      /\ (r.set = <<>> \/ r.set = [is |-> "deleted"])
  BY <1>2, <1>5 DEF KnowsKanban, Live, DomainsInv
<1>7. KanbanRow(row) /\ row.is # "absent"
  <2>1. DOMAIN kanban[r.k] = {"is"} /\ KanbanRow(kanban[r.k])
    BY <1>2, <1>6, StagesHad DEF KanbanRow
  <2>2. DOMAIN <<>> = {}
    OBVIOUS
  <2> QED  BY <1>6, <2>1, <2>2 DEF Over, KanbanRow
<1> HIDE DEF row
<1>8. \A k \in Kanban : kanban'[k] = IF k = r.k THEN row ELSE kanban[k]
  BY <1>1, <1>2 DEF DomainsInv
<1>9. \A k : StagesOf(k)' = StagesOf(k) /\ (Ordered(k) <=> Ordered(k)')
  BY <1>1 DEF StagesOf, Live, Ordered
<1>10. NoCut' => \A k \in Kanban : kanban[k].is = "live" => Ordered(k)
  BY <1>0, <1>2, <1>4, WereOrdered
<1>11. NoCut' => \A k \in Kanban : kanban'[k].is = "live" => Ordered(k)' \/ Reorders(request'[q], k)
  BY <1>6, <1>8, <1>9, <1>10
<1>12. \A k \in Kanban : KanbanRow(kanban'[k]) /\ (kanban'[k].is = "absent" => StagesOf(k)' = {})
  BY <1>2, <1>7, <1>8, <1>9, StagesHad
<1>13. \A s \in Stage : stage'[s].order \in Nat
  BY <1>1, <1>2, StagesHad
<1>14. StagesInv'
  BY <1>2, <1>11, <1>12, <1>13, StagesMade
<1> QED  BY <1>0, <1>4, <1>14 DEF StageKnows

\* A new kanban has no stages.
LEMMA CreateKanbanAlone ==
  ASSUME StrandInv, StagesInv, NEW q \in Request, AloneHere(q), CreateKanbanRow(q)
  PROVE  StagesInv' /\ StageKnows(request[q])'
<1>0. PICK r, N, n : r = request[q] /\ N = request'[q] /\ n = Fresh(kanban)
  OBVIOUS
<1> DEFINE M == [r EXCEPT !.k = n, !.to = 0]
           row == [is |-> "live"]
<1>1. /\ Does(q, "CreateKanbanRow") /\ Continue(q, M) /\ kanban' = [kanban EXCEPT ![n] = row]
      /\ Absent(kanban) # {} /\ stage' = stage
  BY <1>0 DEF CreateKanbanRow
<1>2. DomainsInv /\ DomainsInv' /\ Named(q)
  BY BoardDomains DEF KanbanStatement
<1>3. Shaped(r)
  BY <1>0 DEF StrandInv, RequestsInv, RequestInv
<1>4. Alike(r, M) /\ M.k = n /\ M.to = 0
  BY <1>3 DEF Alike, Shaped, Columns
<1> HIDE DEF M
<1>5. Went(r, "CreateKanbanRow", M, N)
  BY <1>0, <1>1, <1>4, GoesTo
<1>6. /\ At(N) # "end" => N.k = n /\ N.to = 0
      /\ N.op = r.op /\ r.op = "CreateKanban" /\ At(r) = "CreateKanbanRow"
  BY <1>4, <1>5, OpsOf DEF Went
<1>7. n \in Kanban /\ kanban[n].is = "absent"
  <2>1. DOMAIN kanban = Kanban /\ Kanban \subseteq Nat
    BY <1>2, TablesAssumption DEF DomainsInv
  <2> QED  BY <1>0, <1>1, <2>1, FreshRow
<1>8. KanbanRow(row) /\ row.is = "live"
  BY DEF KanbanRow
<1> HIDE DEF row
<1>9. \A k \in Kanban : kanban'[k] = IF k = n THEN row ELSE kanban[k]
  BY <1>1, <1>2 DEF DomainsInv
<1>10. \A k : StagesOf(k)' = StagesOf(k) /\ (Ordered(k) <=> Ordered(k)')
  BY <1>1 DEF StagesOf, Live, Ordered
<1>11. StagesOf(n) = {}
  BY <1>2, <1>7, StagesHad
<1>12. NoCut' => \A k \in Kanban : kanban[k].is = "live" => Ordered(k)
  BY <1>0, <1>2, <1>6, WereOrdered
<1>13. NoCut' => \A k \in Kanban : kanban'[k].is = "live" => Ordered(k)' \/ Reorders(request'[q], k)
  <2>1. Ordered(n)
    BY <1>11 DEF Ordered
  <2> QED  BY <1>9, <1>10, <1>12, <2>1
<1>14. \A k \in Kanban : KanbanRow(kanban'[k]) /\ (kanban'[k].is = "absent" => StagesOf(k)' = {})
  BY <1>2, <1>8, <1>9, <1>10, StagesHad
<1>15. \A s \in Stage : stage'[s].order \in Nat
  BY <1>1, <1>2, StagesHad
<1>16. StagesInv'
  BY <1>2, <1>13, <1>14, <1>15, StagesMade
<1>17. At(N) # "end" => IsNext(N, At(N))'
  <2>1. n \in Live(kanban)'
    BY <1>2, <1>7, <1>8, <1>9, StagesNow
  <2>2. StagesOf(n)' = {}
    BY <1>10, <1>11
  <2> QED  BY <1>6, <2>1, <2>2 DEF IsNext
<1>18. StageKnows(N)'
  BY <1>6, <1>17 DEF StageKnows
<1> QED  BY <1>0, <1>16, <1>18

\* A new stage comes after the others of its kanban.
LEMMA CreateStageAlone ==
  ASSUME StrandInv, StagesInv, NEW q \in Request, AloneHere(q), StageKnows(request[q]),
         CreateStageRow(q)
  PROVE  StagesInv' /\ StageKnows(request[q])'
<1>0. PICK r, N, n : r = request[q] /\ N = request'[q] /\ n = Fresh(stage)
  OBVIOUS
<1> DEFINE M == [r EXCEPT !.to = @ + 1]
           row == NewStage(r.k, r.to)
<1>1. /\ Does(q, "CreateStageRow") /\ Continue(q, M) /\ stage' = [stage EXCEPT ![n] = row]
      /\ Absent(stage) # {} /\ kanban' = kanban
  BY <1>0 DEF CreateStageRow
<1>2. DomainsInv /\ DomainsInv' /\ Named(q)
  BY BoardDomains DEF KanbanStatement
<1>3. Shaped(r) /\ StageKnows(r)
  BY <1>0 DEF StrandInv, RequestsInv, RequestInv
<1>4. Alike(r, M) /\ M.k = r.k /\ M.to = r.to + 1
  BY <1>3 DEF Alike, Shaped, Columns
<1> HIDE DEF M
<1>5. Went(r, "CreateStageRow", M, N)
  BY <1>0, <1>1, <1>4, GoesTo
<1>6. /\ At(N) # "end" => N.k = r.k /\ N.to = r.to + 1
      /\ N.op = r.op /\ r.op \in {"CreateKanban", "CreateStage"} /\ At(r) = "CreateStageRow"
  BY <1>4, <1>5, OpsOf DEF Went
<1>7. n \in Stage /\ stage[n].is = "absent"
  <2>1. DOMAIN stage = Stage /\ Stage \subseteq Nat
    BY <1>2, TablesAssumption DEF DomainsInv
  <2> QED  BY <1>0, <1>1, <2>1, FreshRow
<1>8. r.k \in Live(kanban) /\ r.to \in Nat /\ \A s \in StagesOf(r.k) : stage[s].order < r.to
  BY <1>3, <1>6 DEF StageKnows, IsNext
<1>9. row.is = "live" /\ row.kanban = r.k /\ row.order = r.to
  BY DEF NewStage
<1> HIDE DEF row
<1>10. \A s \in Stage : stage'[s] = IF s = n THEN row ELSE stage[s]
  BY <1>1, <1>2 DEF DomainsInv
<1>11. \A s \in Stage : stage[s].order \in Nat /\ stage'[s].order \in Nat
  BY <1>2, <1>8, <1>9, <1>10, StagesHad
<1>12. /\ \A k : StagesOf(k) = {s \in Stage : stage[s].is = "live" /\ stage[s].kanban = k}
       /\ \A k : StagesOf(k)' = {s \in Stage : stage'[s].is = "live" /\ stage'[s].kanban = k}
  BY <1>2, StagesHad, StagesNow
<1>13. \A k : \A s \in StagesOf(k)' : (s \in StagesOf(k) /\ s # n) \/ (s = n /\ k = r.k)
  BY <1>9, <1>10, <1>12
<1>14. \A k : \A s \in StagesOf(k) : s \in Stage /\ s # n
  BY <1>7, <1>12
<1>15. ASSUME NEW k \in Kanban, Ordered(k) PROVE Ordered(k)'
  <2>1. ASSUME NEW s \in StagesOf(k)', NEW t \in StagesOf(k)', stage'[s].order = stage'[t].order
        PROVE  s = t
    <3>1. s \in Stage /\ t \in Stage
      BY <1>12, <2>1
    <3>2. CASE s # n /\ t # n
      BY <1>10, <1>13, <1>15, <2>1, <3>1, <3>2 DEF Ordered
    <3>3. CASE s = n /\ t # n
      BY <1>8, <1>9, <1>10, <1>11, <1>13, <2>1, <3>1, <3>3
    <3>4. CASE s # n /\ t = n
      BY <1>8, <1>9, <1>10, <1>11, <1>13, <2>1, <3>1, <3>4
    <3> QED  BY <3>2, <3>3, <3>4
  <2> QED  BY <2>1 DEF Ordered
<1>16. NoCut' => \A k \in Kanban : kanban[k].is = "live" => Ordered(k)
  BY <1>0, <1>2, <1>6, WereOrdered
<1>17. NoCut' => \A k \in Kanban : kanban'[k].is = "live" => Ordered(k)' \/ Reorders(request'[q], k)
  BY <1>1, <1>15, <1>16
<1>18. r.k \in Kanban /\ kanban[r.k].is = "live"
  BY <1>2, <1>8 DEF Live, DomainsInv
<1>19. \A k \in Kanban : KanbanRow(kanban'[k]) /\ (kanban'[k].is = "absent" => StagesOf(k)' = {})
  <2>1. ASSUME NEW k \in Kanban, kanban'[k].is = "absent" PROVE StagesOf(k)' = {}
    <3>1. StagesOf(k) = {} /\ k # r.k
      BY <1>1, <1>2, <1>18, <2>1, StagesHad
    <3> QED  BY <1>13, <3>1
  <2> QED  BY <1>1, <1>2, <2>1, StagesHad
<1>20. StagesInv'
  BY <1>2, <1>11, <1>17, <1>19, StagesMade
<1>21. At(N) # "end" => r.k \in Live(kanban)' /\ IsNext(N, At(N))'
  <2>1. r.k \in Live(kanban)'
    BY <1>1, <1>8 DEF Live
  <2>2. \A s \in StagesOf(r.k)' : stage'[s].order < r.to + 1
    BY <1>8, <1>9, <1>10, <1>11, <1>12, <1>13
  <2> QED  BY <1>6, <1>8, <2>1, <2>2 DEF IsNext
<1>22. StageKnows(N)'
  BY <1>6, <1>21 DEF StageKnows
<1> QED  BY <1>0, <1>20, <1>22

\* A stage is saved as it was loaded.
LEMMA SaveStageAlone ==
  ASSUME StrandInv, StagesInv, NEW q \in Request, AloneHere(q), StageKnows(request[q]), SaveStage(q)
  PROVE  StagesInv' /\ StageKnows(request[q])'
<1>0. PICK r, N : r = request[q] /\ N = request'[q]
  OBVIOUS
<1>1. /\ Does(q, "SaveStage") /\ Continue(q, request[q]) /\ stage' = [stage EXCEPT ![r.s] = r.row]
      /\ kanban' = kanban
  BY <1>0 DEF SaveStage
<1>2. DomainsInv /\ DomainsInv' /\ Named(q)
  BY BoardDomains DEF KanbanStatement
<1>3. Went(r, "SaveStage", r, N)
  BY <1>0, <1>1, TicksTo
<1>4. r.op = "UpdateStage" /\ At(N) = "end" /\ At(r) = "SaveStage"
  BY <1>3, OpsOf, BoardOrder DEF Went
<1>5. r.row = stage[r.s]
  BY <1>0, <1>4 DEF StageKnows, KnowsRow
<1>6. stage' = stage
  BY <1>1, <1>2, <1>5 DEF DomainsInv
<1>7. StagesInv'
  BY <1>0, <1>1, <1>2, <1>4, <1>6, StagesSame
<1> QED  BY <1>0, <1>4, <1>7 DEF StageKnows

\* A stage that is deleted leaves the others their places.
LEMMA DeleteStageAlone ==
  ASSUME StrandInv, StagesInv, NEW q \in Request, AloneHere(q), FlagStage(q)
  PROVE  StagesInv' /\ StageKnows(request[q])'
<1>0. PICK r : r = request[q]
  OBVIOUS
<1> DEFINE row == [stage[r.s] EXCEPT !.is = "deleted"]
<1>1. /\ Does(q, "FlagStage") /\ stage' = [stage EXCEPT ![r.s] = row] /\ kanban' = kanban
  BY <1>0 DEF FlagStage
<1>2. DomainsInv /\ DomainsInv' /\ Named(q) /\ \A s \in Stage : StageRow(stage[s])
  BY BoardDomains DEF KanbanStatement, StrandInv, RowsInv
<1>3. request[q].op = "DeleteStage"
  BY <1>1, OpOf, OpsOf DEF StrandInv
<1>4. r.s \in Stage => row.is = "deleted" /\ row.order = stage[r.s].order
  BY <1>2 DEF StageRow
<1> HIDE DEF row
<1>5. \A s \in Stage : stage'[s] = IF s = r.s THEN row ELSE stage[s]
  BY <1>1, <1>2 DEF DomainsInv
<1>6. \A s \in Stage : stage'[s].order = stage[s].order /\ stage'[s].order \in Nat
  BY <1>2, <1>4, <1>5, StagesHad
<1>7. /\ \A k : StagesOf(k) = {s \in Stage : stage[s].is = "live" /\ stage[s].kanban = k}
      /\ \A k : StagesOf(k)' = {s \in Stage : stage'[s].is = "live" /\ stage'[s].kanban = k}
  BY <1>2, StagesHad, StagesNow
<1>8. \A k : StagesOf(k)' \subseteq StagesOf(k) /\ StagesOf(k) \subseteq Stage
  BY <1>4, <1>5, <1>7
<1>9. \A k : Ordered(k) => Ordered(k)'
  BY <1>6, <1>8 DEF Ordered
<1>10. NoCut' => \A k \in Kanban : kanban[k].is = "live" => Ordered(k)
  BY <1>2, <1>3, WereOrdered
<1>11. NoCut' => \A k \in Kanban : kanban'[k].is = "live" => Ordered(k)' \/ Reorders(request'[q], k)
  BY <1>1, <1>9, <1>10
<1>12. \A k \in Kanban : KanbanRow(kanban'[k]) /\ (kanban'[k].is = "absent" => StagesOf(k)' = {})
  BY <1>1, <1>2, <1>8, StagesHad
<1>13. StagesInv'
  BY <1>2, <1>6, <1>11, <1>12, StagesMade
<1> QED  BY <1>2, <1>3, <1>13, NoStageKnown DEF KnowingOps

\* As many stages as the kanban has, each once: all of them.
LEMMA WholeList ==
  ASSUME NEW S, IsFiniteSet(S), NEW l \in Seq(S), Len(l) = Cardinality(S),
         \A i, j \in DOMAIN l : l[i] = l[j] => i = j
  PROVE  {l[i] : i \in DOMAIN l} = S
<1>1. DOMAIN l = 1 .. Len(l) /\ Len(l) \in Nat /\ l \in [1 .. Len(l) -> S]
  OBVIOUS
<1>2. IsFiniteSet(1 .. Len(l)) /\ Cardinality(1 .. Len(l)) = Len(l)
  BY <1>1, FS_Interval
<1>3. l \in Injection(1 .. Len(l), S)
  BY <1>1 DEF Injection, IsInjective
<1>4. l \in Surjection(1 .. Len(l), S)
  BY <1>2, <1>3, FS_Injection
<1> QED  BY <1>1, <1>4 DEF Surjection

\* The list of a reordering becomes that of the places to be saved.
LEMMA ListStagesAlone ==
  ASSUME StrandInv, StagesInv, NEW q \in Request, AloneHere(q), StageKnows(request[q]),
         ListStages(q)
  PROVE  StagesInv' /\ StageKnows(request[q])'
<1>0. PICK r, N : r = request[q] /\ N = request'[q]
  OBVIOUS
<1> DEFINE l == r.list
           placed(i) == [stage[l[i]] EXCEPT !.order = i - 1]
           moved == {i \in DOMAIN l : placed(i) # stage[l[i]]}
           list == [i \in moved |-> [id |-> l[i], row |-> placed(i)]]
<1>1. Does(q, "ListStages") /\ UNCHANGED <<kanban, stage>>
  BY DEF ListStages, tables
<1>2. DomainsInv /\ DomainsInv' /\ Named(q) /\ \A s \in Stage : StageRow(stage[s])
  BY BoardDomains DEF KanbanStatement, StrandInv, RowsInv
<1>3. At(r) = "ListStages" /\ Shaped(r) /\ Knows(r) /\ \E y : Follows(r.op, "ListStages", y)
  BY <1>0, <1>1, OpOf DEF StrandInv
<1>4. r.op = "ReorderStages"
  BY <1>3, OpsOf
<1>5. StagesInv'
  BY <1>0, <1>1, <1>2, <1>3, StagesSame
<1>6. At(N) \in {"SaveOrder", "end"}
  BY <1>0, ListStagesRequests
<1>7. N.op \in {"ReorderStages", "refused"}
  BY <1>0, <1>2, <1>4 DEF Named
<1>8. ASSUME At(N) = "SaveOrder" PROVE \E x : Places(N, x)'
  <2>1. ~Refuse(q)
    BY <1>0, <1>8, RefusedEnds
  <2>2. /\ Len(l) = Cardinality(StagesOf(r.k)) /\ \A i \in DOMAIN l : l[i] \in StagesOf(r.k)
        /\ \E t : Continue(q, [r EXCEPT !.list = list, !.todo = t])
    <3> HIDE DEF list
    <3>1. /\ ~(\/ Len(l) # Cardinality(StagesOf(r.k))
               \/ \E i \in DOMAIN l : l[i] \notin StagesOf(r.k))
          /\ \E t : Continue(q, [r EXCEPT !.list = list, !.todo = t])
      BY <1>0, <2>1 DEF ListStages, list
    <3> QED  BY <3>1
  <2>3. PICK t : Continue(q, [r EXCEPT !.list = list, !.todo = t])
    BY <2>2
  <2> HIDE DEF list
  <2>4. N.list = list /\ N.k = r.k
    <3> DEFINE M == [r EXCEPT !.list = list, !.todo = t]
    <3>1. M.list = list /\ M.k = r.k /\ Shaped(M)
      BY <1>3 DEF Shaped, Columns
    <3> HIDE DEF M
    <3>2. N = IF Len(M.todo) = 1 THEN Ended(M, M.op) ELSE [M EXCEPT !.todo = Tail(@)]
      BY <1>0, <2>3 DEF Continue, M, StrandInv, RequestsInv
    <3>3. N # Ended(M, M.op)
      BY <1>8, EndedKnows
    <3> QED  BY <3>1, <3>2, <3>3 DEF Shaped, Columns
  <2>5. /\ l \in Seq(Stage) /\ \A i, j \in DOMAIN l : l[i] = l[j] => i = j
    BY <1>0, <1>3, <1>4 DEF Knows, KnowsList, StageKnows, KnowsPlaces
  <2>6. DOMAIN l \subseteq Nat \ {0} /\ DOMAIN l = 1 .. Len(l) /\ l \in Seq(StagesOf(r.k))
    <3>1. DOMAIN l = 1 .. Len(l) /\ Len(l) \in Nat
      BY <2>5
    <3>2. \A i \in 1 .. Len(l) : l[i] \in StagesOf(r.k)
      BY <2>2, <3>1
    <3> QED  BY <2>5, <3>1, <3>2
  <2>7. {l[i] : i \in DOMAIN l} = StagesOf(r.k)
    <3>1. StagesOf(r.k) \subseteq Stage /\ IsFiniteSet(Stage)
      BY <1>2, StagesHad, TablesAssumption
    <3>2. IsFiniteSet(StagesOf(r.k))
      BY <3>1, FS_Subset
    <3> HIDE DEF l
    <3> QED  BY <2>2, <2>5, <2>6, <3>2, WholeList
  <2>8. DOMAIN list = moved /\ \A i \in moved : list[i].id = l[i] /\ list[i].row = placed(i)
    BY DEF list
  <2>9. \A i \in DOMAIN l \ moved : stage[l[i]].order = i - 1
    <3>1. ASSUME NEW i \in DOMAIN l \ moved PROVE stage[l[i]].order = i - 1
      <4>1. l[i] \in Stage /\ StageRow(stage[l[i]])
        BY <1>2, <2>5, <2>6
      <4>2. placed(i).order = i - 1
        BY <4>1 DEF StageRow
      <4>3. placed(i) = stage[l[i]]
        OBVIOUS
      <4> QED  BY <4>2, <4>3
    <3> QED  BY <3>1
  <2>10. moved \subseteq DOMAIN l
    OBVIOUS
  <2>11. PICK x : x = l
    OBVIOUS
  <2>12. PICK L : L = list
    OBVIOUS
  <2>13. /\ \A i \in DOMAIN L : L[i].id = x[i] /\ L[i].row = [stage[x[i]] EXCEPT !.order = i - 1]
         /\ \A i \in DOMAIN x \ DOMAIN L : stage[x[i]].order = i - 1
         /\ DOMAIN L \subseteq DOMAIN x /\ DOMAIN x \subseteq Nat \ {0}
         /\ {x[i] : i \in DOMAIN x} = StagesOf(r.k)
         /\ \A i, j \in DOMAIN x : x[i] = x[j] => i = j
    <3> HIDE DEF l, moved
    <3>1. DOMAIN L = moved
          /\ \A i \in moved : L[i].id = x[i] /\ L[i].row = [stage[x[i]] EXCEPT !.order = i - 1]
      BY <2>8, <2>11, <2>12
    <3>2. \A i \in DOMAIN x \ moved : stage[x[i]].order = i - 1
      BY <2>9, <2>11
    <3>3. moved \subseteq DOMAIN x /\ DOMAIN x \subseteq Nat \ {0}
      BY <2>6, <2>10, <2>11
    <3>4. {x[i] : i \in DOMAIN x} = StagesOf(r.k) /\ \A i, j \in DOMAIN x : x[i] = x[j] => i = j
      BY <2>5, <2>7, <2>11
    <3> QED  BY <3>1, <3>2, <3>3, <3>4
  <2>14. StagesOf(r.k)' = StagesOf(r.k)
    BY <1>1 DEF StagesOf, Live
  <2>15. N.list = L /\ stage' = stage
    BY <1>1, <2>4, <2>12
  <2> HIDE DEF l, moved, placed
  <2>16. Places(N, x)'
    BY <2>4, <2>13, <2>14, <2>15 DEF Places
  <2> QED  BY <2>16
<1>9. StageKnows(N)'
  BY <1>6, <1>7, <1>8 DEF StageKnows, KnowsPlaces
<1> QED  BY <1>0, <1>5, <1>9

\* A reordering saves one more place: the last one leaves the kanban in order.
LEMMA SaveOrderAlone ==
  ASSUME StrandInv, StagesInv, NEW q \in Request, AloneHere(q), StageKnows(request[q]),
         SaveOrder(q)
  PROVE  StagesInv' /\ StageKnows(request[q])'
<1>0. PICK r, N, L, i : r = request[q] /\ N = request'[q] /\ L = r.list /\ i = Min(DOMAIN r.list)
  OBVIOUS
<1> DEFINE M == [r EXCEPT !.list = [j \in DOMAIN L \ {i} |-> L[j]]]
<1>1. /\ Does(q, "SaveOrder") /\ Continue(q, M) /\ kanban' = kanban
      /\ stage' = [stage EXCEPT ![L[i].id] = L[i].row]
  <2>1. /\ Does(q, "SaveOrder") /\ kanban' = kanban
        /\ stage' = [stage EXCEPT ![r.list[i].id] = r.list[i].row]
        /\ Continue(q, [r EXCEPT !.list = [j \in DOMAIN @ \ {i} |-> @[j]]])
    BY <1>0 DEF SaveOrder
  <2> QED  BY <1>0, <2>1
<1>2. DomainsInv /\ DomainsInv' /\ Named(q) /\ \A s \in Stage : StageRow(stage[s])
  BY BoardDomains DEF KanbanStatement, StrandInv, RowsInv
<1>3. /\ At(r) = "SaveOrder" /\ Shaped(r) /\ Knows(r) /\ (\E y : Follows(r.op, "SaveOrder", y))
      /\ Len(r.todo) \in Nat
  BY <1>0, <1>1, OpOf DEF StrandInv
<1>4. r.op = "ReorderStages" /\ i \in DOMAIN L
  <2>1. r.op = "ReorderStages"
    BY <1>3, OpsOf
  <2> QED  BY <1>0, <2>1, SaveOrderRequests
<1>5. PICK l : Places(r, l)
  BY <1>0, <1>3, <1>4 DEF StageKnows, KnowsPlaces
<1>6. Alike(r, M) /\ M.k = r.k /\ M.list = [j \in DOMAIN L \ {i} |-> L[j]]
  BY <1>3 DEF Alike, Shaped, Columns
<1> HIDE DEF M
<1>7. /\ N.op = "ReorderStages" /\ At(N) \in {"SaveOrder", "end"}
      /\ At(N) # "end" => N.k = r.k /\ N.list = [j \in DOMAIN L \ {i} |-> L[j]]
  <2>1. Went(r, "SaveOrder", M, N)
    BY <1>0, <1>1, <1>6, GoesTo
  <2>2. N.op = r.op /\ Follows(r.op, "SaveOrder", At(N))
        /\ (At(N) # "end" => N.k = M.k /\ N.list = M.list)
    BY <2>1 DEF Went
  <2>3. At(N) \in {"SaveOrder", "end"}
    BY <1>4, <2>2, BoardOrder
  <2> QED  BY <1>4, <1>6, <2>2, <2>3
<1>8. At(N) = "end" => DOMAIN L = {i}
  <2>1. At(N) = "end" => Len(r.todo) = 1
    BY <1>0, <1>1, <1>6, Continued DEF After, StrandInv
  <2>2. Cardinality(DOMAIN L) = Len(r.todo) /\ IsFiniteSet(DOMAIN L)
    BY <1>0, <1>3, <1>4 DEF Knows, KnowsList
  <2>3. Cardinality(DOMAIN L \ {i}) = Cardinality(DOMAIN L) - 1 /\ IsFiniteSet(DOMAIN L \ {i})
    BY <1>4, <2>2, FS_RemoveElement
  <2>4. Len(r.todo) = 1 => DOMAIN L \ {i} = {}
    BY <2>2, <2>3, FS_EmptySet
  <2> QED  BY <1>4, <2>1, <2>4
<1>9. /\ DOMAIN l \subseteq Nat \ {0} /\ DOMAIN L \subseteq DOMAIN l
      /\ {l[j] : j \in DOMAIN l} = StagesOf(r.k)
      /\ \A j, m \in DOMAIN l : l[j] = l[m] => j = m
      /\ \A j \in DOMAIN L : L[j].id = l[j] /\ L[j].row = [stage[l[j]] EXCEPT !.order = j - 1]
      /\ \A j \in DOMAIN l \ DOMAIN L : stage[l[j]].order = j - 1
  BY <1>0, <1>5 DEF Places
<1>10. /\ \A k : StagesOf(k) = {s \in Stage : stage[s].is = "live" /\ stage[s].kanban = k}
       /\ \A k : StagesOf(k)' = {s \in Stage : stage'[s].is = "live" /\ stage'[s].kanban = k}
  BY <1>2, StagesHad, StagesNow
<1>11. \A j \in DOMAIN l : l[j] \in StagesOf(r.k) /\ l[j] \in Stage
  BY <1>9, <1>10
<1>12. \A s \in Stage : stage'[s] = IF s = l[i] THEN [stage[s] EXCEPT !.order = i - 1] ELSE stage[s]
  <2>1. L[i].id = l[i] /\ L[i].row = [stage[l[i]] EXCEPT !.order = i - 1]
    BY <1>4, <1>9
  <2> QED  BY <1>1, <1>2, <2>1 DEF DomainsInv
<1>13. /\ \A s \in Stage : stage'[s].is = stage[s].is /\ stage'[s].kanban = stage[s].kanban
       /\ stage'[l[i]].order = i - 1
       /\ \A s \in Stage : s # l[i] => stage'[s] = stage[s]
  <2>1. PICK s : s = l[i]
    OBVIOUS
  <2>2. s \in Stage /\ StageRow(stage[s])
    BY <1>2, <1>4, <1>9, <1>11, <2>1
  <2>3. stage'[s] = [stage[s] EXCEPT !.order = i - 1]
    BY <1>12, <2>1, <2>2
  <2>4. stage'[s].is = stage[s].is /\ stage'[s].kanban = stage[s].kanban /\ stage'[s].order = i - 1
    BY <2>2, <2>3 DEF StageRow
  <2>5. \A t \in Stage : t # s => stage'[t] = stage[t]
    BY <1>12, <2>1
  <2> QED  BY <2>1, <2>4, <2>5
<1>14. \A k : StagesOf(k)' = StagesOf(k)
  BY <1>10, <1>13
<1>15. \A s \in Stage : stage'[s].order \in Nat
  <2>1. i - 1 \in Nat
    BY <1>4, <1>9
  <2>2. \A s \in Stage : stage[s].order \in Nat
    BY <1>2, StagesHad
  <2> QED  BY <1>4, <1>9, <1>11, <1>13, <2>1, <2>2
<1>16. ASSUME NEW k \in Kanban, k # r.k, NoCut', kanban[k].is = "live" PROVE Ordered(k)'
  <2>1. NoCut
    BY <1>16 DEF NoCut, AloneHere, Named, OnlyOne
  <2>2. \A p \in Request : ~Reorders(request[p], k)
    BY <1>0, <1>16 DEF Reorders, AloneHere, At
  <2>3. Ordered(k)
    BY <1>2, <1>16, <2>1, <2>2, StagesHad
  <2>4. \A s \in StagesOf(k) : stage'[s] = stage[s]
    BY <1>4, <1>9, <1>10, <1>11, <1>13, <1>16
  <2> QED  BY <1>14, <2>3, <2>4 DEF Ordered
<1>17. CASE At(N) = "SaveOrder"
  <2>1. N.k = r.k /\ N.list = [j \in DOMAIN L \ {i} |-> L[j]]
    BY <1>7, <1>17
  <2>2. PICK K : K = N.list
    OBVIOUS
  <2>3. DOMAIN K = DOMAIN L \ {i} /\ \A j \in DOMAIN K : K[j] = L[j]
    BY <2>1, <2>2
  <2>4. \A j \in DOMAIN K : K[j].id = l[j] /\ K[j].row = [stage'[l[j]] EXCEPT !.order = j - 1]
    <3>1. \A j \in DOMAIN K : j \in DOMAIN L /\ l[j] # l[i]
      BY <1>4, <1>9, <2>3
    <3>2. \A j \in DOMAIN K : stage'[l[j]] = stage[l[j]]
      BY <1>9, <1>11, <1>13, <3>1
    <3> QED  BY <1>9, <2>3, <3>1, <3>2
  <2>5. \A j \in DOMAIN l \ DOMAIN K : stage'[l[j]].order = j - 1
    <3>1. ASSUME NEW j \in DOMAIN l \ DOMAIN K, j # i PROVE stage'[l[j]].order = j - 1
      <4>1. j \in DOMAIN l \ DOMAIN L /\ l[j] # l[i]
        BY <1>4, <1>9, <2>3, <3>1
      <4> QED  BY <1>9, <1>11, <1>13, <4>1
    <3> QED  BY <1>13, <3>1
  <2>6. Places(N, l)'
    <3>1. DOMAIN K \subseteq DOMAIN l /\ {l[j] : j \in DOMAIN l} = StagesOf(r.k)'
      BY <1>9, <1>14, <2>3
    <3> QED  BY <1>9, <2>1, <2>2, <2>4, <2>5, <3>1 DEF Places
  <2>7. \A k \in Kanban : k = r.k => Reorders(N, k)
    BY <1>7, <1>17, <2>1 DEF Reorders
  <2>8. NoCut' => \A k \in Kanban : kanban'[k].is = "live" => Ordered(k)' \/ Reorders(request'[q], k)
    BY <1>0, <1>1, <1>16, <2>7
  <2>9. \A k \in Kanban : KanbanRow(kanban'[k]) /\ (kanban'[k].is = "absent" => StagesOf(k)' = {})
    BY <1>1, <1>2, <1>14, StagesHad
  <2>10. StagesInv'
    BY <1>2, <1>15, <2>8, <2>9, StagesMade
  <2>11. StageKnows(N)'
    BY <1>7, <1>17, <2>6 DEF StageKnows, KnowsPlaces
  <2> QED  BY <1>0, <2>10, <2>11
<1>18. CASE At(N) = "end"
  <2>1. \A j \in DOMAIN l : stage'[l[j]].order = j - 1
    <3>1. ASSUME NEW j \in DOMAIN l, j # i PROVE stage'[l[j]].order = j - 1
      <4>1. j \in DOMAIN l \ DOMAIN L /\ l[j] # l[i]
        BY <1>4, <1>8, <1>9, <1>18, <3>1
      <4> QED  BY <1>9, <1>11, <1>13, <4>1
    <3> QED  BY <1>13, <3>1
  <2>2. Ordered(r.k)'
    <3>1. ASSUME NEW s \in StagesOf(r.k), NEW t \in StagesOf(r.k), stage'[s].order = stage'[t].order
          PROVE  s = t
      <4>1. PICK a, b \in DOMAIN l : s = l[a] /\ t = l[b]
        BY <1>9
      <4>2. a - 1 = b - 1 /\ a \in Nat /\ b \in Nat
        BY <1>9, <2>1, <3>1, <4>1
      <4> QED  BY <4>1, <4>2
    <3> QED  BY <1>14, <3>1 DEF Ordered
  <2>3. PICK h : h = r.k
    OBVIOUS
  <2>4. NoCut' => \A k \in Kanban : kanban'[k].is = "live" => Ordered(k)' \/ Reorders(request'[q], k)
    BY <1>1, <1>16, <2>2, <2>3
  <2>5. \A k \in Kanban : KanbanRow(kanban'[k]) /\ (kanban'[k].is = "absent" => StagesOf(k)' = {})
    BY <1>1, <1>2, <1>14, StagesHad
  <2>6. StagesInv'
    BY <1>2, <1>15, <2>4, <2>5, StagesMade
  <2> QED  BY <1>0, <1>18, <2>6 DEF StageKnows
<1> QED  BY <1>7, <1>17, <1>18

\* Requests that are alone keep what the boards promise.
LEMMA StageAlone ==
  ASSUME StrandInv, StagesInv, NEW q \in Request, AloneHere(q), StageKnows(request[q]),
         FlowStatement(q) \/ KanbanStatement(q) \/ FormStatement(q)
  PROVE  StagesInv' /\ StageKnows(request[q])'
<1>1. CASE KanbanStatement(q)
  <2>1. CASE LoadKanban(q) \/ ReadMaxOrder(q) \/ LoadStage(q) \/ ReadUsage(q) \/ LoadTarget(q)
             \/ SaveLead(q) \/ MoveLeads(q) \/ MoveNodes(q) \/ MoveFillNodes(q)
    BY <2>1, BoardLoads
  <2>2. CASE SaveKanban(q) \/ CreateKanbanRow(q) \/ CreateStageRow(q) \/ SaveStage(q)
    BY <2>2, SaveKanbanAlone, CreateKanbanAlone, CreateStageAlone, SaveStageAlone
  <2>3. CASE FlagStage(q) \/ ListStages(q) \/ SaveOrder(q)
    BY <2>3, DeleteStageAlone, ListStagesAlone, SaveOrderAlone
  <2> QED  BY <1>1, <2>1, <2>2, <2>3 DEF KanbanStatement
<1>2. CASE FlowStatement(q) \/ FormStatement(q)
  <2>1. UNCHANGED <<kanban, stage>> /\ DomainsInv /\ DomainsInv' /\ Named(q)
    BY <1>2, EditorKeeps, FormsKeepFlows, FlowDomains, FormDomains DEF AloneHere
  <2>2. request[q].op \in FlowOps \union FormOps \union FillOps \union {"LeadReachesNode"}
    BY <1>2, FlowStatementOps, FormStatementOps
  <2>3. request[q].op \notin KnowingOps
    BY <2>2 DEF FlowOps, EditOps, FormOps, FillOps, KnowingOps
  <2> QED  BY <2>1, <2>3, StagesSame, NoStageKnown DEF KnowingOps
<1> QED  BY <1>1, <1>2

-----------------------------------------------------------------------------
(* The leads alone *)

\* What is asked of leads and nodes while the first flow is linked to kanban h.
Settled(h) ==
  /\ \A f \in Flow : flow[f].is # "absent" => flow[f].kanban = h
  /\ \A c \in Conv : lead[c] \in StagesOf(h) \union {None}
  /\ \A n \in Node : node[n].is = "live" => node[n].stage \in StagesOf(h) \union {None}
Ruled == Quiet /\ flow[First].is = "live"

\* The least of the flows is one.
LEMMA FirstIsFlow == First \in Flow
<1>1. Flow \subseteq Nat /\ Flow # {}
  BY TablesAssumption
<1> QED  BY <1>1, Smallest DEF First

\* What was asked of them before.
LEMMA LeadsHad ==
  ASSUME LeadsInv, DomainsInv
  PROVE  /\ flow[First].is # "absent"
         /\ Ruled => \E h : Home = h /\ Settled(h)
<1>1. DOMAIN flow = Flow /\ DOMAIN node = Node
  BY DEF DomainsInv
<1>2. /\ Absent(flow) = {f \in Flow : flow[f].is = "absent"}
      /\ Live(flow) = {f \in Flow : flow[f].is = "live"}
      /\ Live(node) = {n \in Node : node[n].is = "live"}
  BY <1>1 DEF Absent, Live
<1>3. flow[First].is # "absent"
  BY <1>2, FirstIsFlow DEF LeadsInv
<1>4. Ruled => Settled(Home)
  BY <1>2, FirstIsFlow DEF LeadsInv, Ruled, Settled, Placed
<1> QED  BY <1>3, <1>4

\* What is asked of them after a step.
LEMMA LeadsMade ==
  ASSUME DomainsInv', flow'[First].is # "absent", Ruled' => \E h : Settled(h)'
  PROVE  LeadsInv'
<1>1. DOMAIN flow' = Flow /\ DOMAIN node' = Node
  BY DEF DomainsInv
<1>2. /\ Absent(flow)' = {f \in Flow : flow'[f].is = "absent"}
      /\ Live(flow)' = {f \in Flow : flow'[f].is = "live"}
      /\ Live(node)' = {n \in Node : node'[n].is = "live"}
  BY <1>1 DEF Absent, Live
<1>3. ASSUME Quiet', First \in Live(flow)'
      PROVE  /\ \A f \in (Flow \ Absent(flow))' : flow'[f].kanban = Home'
             /\ \A c \in Conv : Placed(lead[c])'
             /\ \A n \in Live(node)' : Placed(node[n].stage)'
  <2>1. flow'[First].is = "live"
    BY <1>2, <1>3
  <2>2. PICK h : Settled(h)'
    BY <1>3, <2>1 DEF Ruled
  <2>3. Home' = h
    BY <2>1, <2>2, FirstIsFlow DEF Settled, Home
  <2>4. PICK x : x = Home'
    OBVIOUS
  <2>5. StagesOf(Home)' = StagesOf(h)'
    BY <2>3 DEF StagesOf
  <2> QED  BY <1>2, <2>2, <2>3, <2>5 DEF Settled, Placed
<1> QED  BY <1>2, <1>3, FirstIsFlow DEF LeadsInv

\* While the requests were quiet after a statement they were before.
LEMMA WereQuiet ==
  ASSUME NEW q \in Request, Named(q), request[q].todo # <<>>
  PROVE  /\ Quiet' => Quiet
         /\ Quiet' /\ request'[q].todo = <<>> =>
              request'[q].op \notin {"UpdateFlow", "FillOldLink"}
<1>1. Quiet' => Quiet
  BY DEF Quiet, Named, OnlyOne
<1> QED  BY <1>1 DEF Quiet

\* Nothing changes for the leads while flows, nodes and leads do not and no stage is lost.
LEMMA LeadsSame ==
  ASSUME DomainsInv, DomainsInv', LeadsInv, NEW q \in Request, Named(q), request[q].todo # <<>>,
         UNCHANGED <<flow, node, lead>>, \A k : StagesOf(k) \subseteq StagesOf(k)'
  PROVE  LeadsInv'
<1>1. flow'[First].is # "absent"
  BY LeadsHad
<1>2. Ruled' => Ruled
  BY WereQuiet DEF Ruled
<1>3. \A h : Settled(h) => Settled(h)'
  BY DEF Settled
<1> QED  BY <1>1, <1>2, <1>3, LeadsHad, LeadsMade

LeadOps == {"CreateFlow", "UpdateNode", "DeleteStage", "MoveLead", "LeadReachesNode", "FillForm"}

\* A request on other things knows nothing of leads.
LEMMA NoLeadKnown ==
  ASSUME NEW q \in Request, Named(q), request[q].op \notin LeadOps
  PROVE  LeadKnows(request[q])'
<1>0. PICK N : N = request'[q]
  OBVIOUS
<1>1. At(N) = "end" \/ N.op \notin LeadOps
  BY <1>0 DEF Named, At
<1>2. LeadKnows(N)'
  BY <1>1 DEF LeadKnows, LeadOps
<1> QED  BY <1>0, <1>2

\* Only the deletion of a stage takes a stage from a kanban.
LEMMA StagesStay ==
  ASSUME StrandInv, StagesInv, NEW q \in Request, StageKnows(request[q]), KanbanStatement(q),
         ~FlagStage(q)
  PROVE  \A k : StagesOf(k) \subseteq StagesOf(k)'
<1>0. PICK r : r = request[q]
  OBVIOUS
<1>1. DomainsInv /\ DomainsInv' /\ \A s \in Stage : StageRow(stage[s])
  BY BoardDomains DEF StrandInv, RowsInv
<1>2. \A s \in Stage : stage[s].is = "live" => stage'[s].is = "live"
  <2>1. \A s \in Stage : /\ stage[s].is = "live" => stage'[s].is = "live"
                         /\ stage'[s].is = "deleted" => stage[s].is = "deleted"
    BY KanbanStatementRows
  <2> QED  BY <2>1
<1>3. \A s \in Stage : stage[s].is = "live" => stage'[s].kanban = stage[s].kanban
  <2>1. CASE CreateStageRow(q)
    <3>1. PICK n, row : stage' = [stage EXCEPT ![n] = row] /\ n = Fresh(stage) /\ Absent(stage) # {}
      BY <2>1 DEF CreateStageRow
    <3>2. n \in Stage /\ stage[n].is = "absent"
      <4>1. DOMAIN stage = Stage /\ Stage \subseteq Nat
        BY <1>1, TablesAssumption DEF DomainsInv
      <4> QED  BY <3>1, <4>1, FreshRow
    <3> QED  BY <1>1, <3>1, <3>2 DEF DomainsInv
  <2>2. CASE SaveStage(q)
    <3>1. Does(q, "SaveStage") /\ stage' = [stage EXCEPT ![r.s] = r.row]
      BY <1>0, <2>2 DEF SaveStage
    <3>2. r.op = "UpdateStage" /\ At(r) = "SaveStage"
      BY <1>0, <3>1, OpOf, OpsOf DEF StrandInv
    <3>3. r.row = stage[r.s]
      BY <1>0, <3>2 DEF StageKnows, KnowsRow
    <3> QED  BY <1>1, <3>1, <3>3 DEF DomainsInv
  <2>3. CASE SaveOrder(q)
    <3>1. PICK i : i = Min(DOMAIN r.list)
      OBVIOUS
    <3>2. Does(q, "SaveOrder") /\ stage' = [stage EXCEPT ![r.list[i].id] = r.list[i].row]
      BY <1>0, <2>3, <3>1 DEF SaveOrder
    <3>3. r.op = "ReorderStages" /\ At(r) = "SaveOrder"
      BY <1>0, <3>2, OpOf, OpsOf DEF StrandInv
    <3>4. PICK l : Places(r, l)
      BY <1>0, <3>3 DEF StageKnows, KnowsPlaces
    <3>5. i \in DOMAIN r.list
      BY <1>0, <2>3, <3>1, SaveOrderRequests
    <3>6. /\ r.list[i].row = [stage[l[i]] EXCEPT !.order = i - 1]
          /\ r.list[i].id = l[i]
      BY <3>4, <3>5 DEF Places
    <3>7. l[i] \in Stage => r.list[i].row.kanban = stage[l[i]].kanban
      BY <1>1, <3>6 DEF StageRow
    <3> QED  BY <1>1, <3>2, <3>6, <3>7 DEF DomainsInv
  <2>4. CASE ~(CreateStageRow(q) \/ SaveStage(q) \/ SaveOrder(q))
    <3>1. stage' = stage
      BY <2>4 DEF KanbanStatement, LoadKanban, Load, SaveKanban, CreateKanbanRow,
                  ReadMaxOrder, LoadStage, ListStages, ReadUsage, LoadTarget, MoveLeads, MoveNodes,
                  MoveFillNodes, SaveLead, tables
    <3> QED  BY <3>1
  <2> QED  BY <2>1, <2>2, <2>3, <2>4
<1>4. /\ \A k : StagesOf(k) = {s \in Stage : stage[s].is = "live" /\ stage[s].kanban = k}
      /\ \A k : StagesOf(k)' = {s \in Stage : stage'[s].is = "live" /\ stage'[s].kanban = k}
  BY <1>1, StagesHad, StagesNow
<1> QED  BY <1>2, <1>3, <1>4

\* A statement on flows that keeps their kanbans, or that is the link to another one.
LEMMA FlowsLeads ==
  ASSUME DomainsInv, DomainsInv', LeadsInv, NEW q \in Request, Named(q), request[q].todo # <<>>,
         UNCHANGED <<node, stage, lead>>,
         \A f \in Flow : flow[f].is # "absent" => flow'[f].is # "absent",
         Quiet' => \A f \in Flow : /\ flow'[f].kanban = flow[f].kanban
                                   /\ flow'[f].is = "live" => flow[f].is = "live"
                                   /\ flow'[f].is # "absent" => flow[f].is # "absent"
  PROVE  LeadsInv'
<1>1. flow'[First].is # "absent"
  BY LeadsHad, FirstIsFlow
<1>2. \A k : StagesOf(k)' = StagesOf(k)
  BY DEF StagesOf, Live
<1>3. Ruled' => Ruled
  BY WereQuiet, FirstIsFlow DEF Ruled
<1>4. \A h : Settled(h) /\ Quiet' => Settled(h)'
  BY <1>2 DEF Settled
<1>5. Ruled' => Quiet'
  BY DEF Ruled
<1> QED  BY <1>1, <1>3, <1>4, <1>5, LeadsHad, LeadsMade

\* An edit keeps the kanban of a flow, unless it links the flow to another one.
LEMMA SaveFlowLeads ==
  ASSUME StrandInv, FlowsInv, LeadsInv, NEW q \in Request, FlowKnows(request[q]), SaveFlow(q)
  PROVE  LeadsInv' /\ LeadKnows(request[q])'
<1>0. PICK r, N : r = request[q] /\ N = request'[q]
  OBVIOUS
<1> DEFINE row == Over(r.set, r.owner)
<1>1. /\ Does(q, "SaveFlow") /\ Continue(q, request[q]) /\ flow' = [flow EXCEPT ![r.f] = row]
      /\ UNCHANGED <<node, stage, lead>>
  BY <1>0 DEF SaveFlow
<1>2. DomainsInv /\ DomainsInv' /\ Named(q)
  BY FlowDomains, FlowStatementOps DEF FlowStatement
<1>3. Went(r, "SaveFlow", r, N) /\ request[q].todo # <<>>
  BY <1>0, <1>1, TicksTo DEF Does, InFlight
<1>4. r.op \in EditOps /\ N.op = r.op /\ At(N) = "end" /\ At(r) = "SaveFlow"
  BY <1>3, OpsOf, FlowOrder DEF Went
<1>5. N.todo = <<>>
  <2>1. RequestInv(N)
    BY <1>0, FlowStatementRequests DEF FlowStatement, RequestsInv
  <2> QED  BY <1>4, <2>1, EndIsEmpty
<1>6. KnowsEdit(r, "SaveFlow")
  BY <1>0, <1>4 DEF FlowKnows
<1>7. /\ r.f \in Flow /\ flow[r.f].is = "live" /\ r.owner = flow[r.f] /\ DOMAIN r.set \subseteq FlowColumns
      /\ "is" \in DOMAIN r.set => r.set.is = "deleted"
      /\ "kanban" \in DOMAIN r.set => r.op = "UpdateFlow"
      /\ FlowRow(flow[r.f])
  BY <1>2, <1>6, FlowsHad DEF KnowsEdit, Live, DomainsInv
<1>8. /\ row.is # "absent"
      /\ r.op # "UpdateFlow" => row.kanban = flow[r.f].kanban
  BY <1>7, EditedFlow DEF FlowColumns
<1> HIDE DEF row
<1>9. \A f \in Flow : flow'[f] = IF f = r.f THEN row ELSE flow[f]
  BY <1>1, <1>2 DEF DomainsInv
<1>10. Quiet' => r.op # "UpdateFlow"
  BY <1>0, <1>2, <1>3, <1>4, <1>5, WereQuiet
<1>11. LeadsInv'
  BY <1>1, <1>2, <1>3, <1>7, <1>8, <1>9, <1>10, FlowsLeads
<1> QED  BY <1>0, <1>4, <1>11 DEF LeadKnows

\* A node that is deleted takes the start from its flow, nothing else.
LEMMA ForgetStartLeads ==
  ASSUME StrandInv, FlowsInv, LeadsInv, NEW q \in Request, FlowKnows(request[q]), ForgetStart(q)
  PROVE  LeadsInv' /\ LeadKnows(request[q])'
<1>0. PICK r : r = request[q]
  OBVIOUS
<1> DEFINE row == [r.owner EXCEPT !.start = None]
<1>1. /\ Does(q, "ForgetStart")
      /\ flow' = IF r.owner.start = r.n THEN [flow EXCEPT ![r.f] = row] ELSE flow
      /\ UNCHANGED <<node, stage, lead>>
  BY <1>0 DEF ForgetStart
<1>2. DomainsInv /\ DomainsInv' /\ Named(q)
  BY FlowDomains, FlowStatementOps DEF FlowStatement
<1>3. r.op = "DeleteNode" /\ At(r) = "ForgetStart" /\ request[q].todo # <<>>
  BY <1>0, <1>1, OpOf, OpsOf DEF StrandInv
<1>4. r.f = node[r.n].flow /\ r.n \in Live(node) /\ r.owner = flow[r.f]
  BY <1>0, <1>3 DEF FlowKnows, KnowsDoomed
<1>5. r.f \in Flow /\ FlowRow(flow[r.f])
  <2>1. r.n \in Node /\ node[r.n].is = "live"
    BY <1>2, <1>4 DEF Live, DomainsInv
  <2> QED  BY <1>2, <1>4, <2>1, FlowsHad
<1>6. row.is = flow[r.f].is /\ row.kanban = flow[r.f].kanban
  BY <1>4, <1>5 DEF FlowRow, FlowColumns
<1> HIDE DEF row
<1>7. \A f \in Flow : flow'[f].is = flow[f].is /\ flow'[f].kanban = flow[f].kanban
  BY <1>1, <1>2, <1>6 DEF DomainsInv
<1>8. LeadsInv'
  BY <1>1, <1>2, <1>3, <1>7, <1>0, FlowsLeads
<1>9. request[q].op \notin LeadOps
  BY <1>0, <1>3 DEF LeadOps
<1> QED  BY <1>2, <1>8, <1>9, NoLeadKnown

\* A flow is created when there is none.
LEMMA CreateFlowLeads ==
  ASSUME StrandInv, LeadsInv, NEW q \in Request, LeadKnows(request[q]), CreateFlowRow(q)
  PROVE  LeadsInv' /\ LeadKnows(request[q])'
<1>0. PICK r, N, m : r = request[q] /\ N = request'[q] /\ m = Fresh(flow)
  OBVIOUS
<1>1. /\ Does(q, "CreateFlowRow") /\ Continue(q, request[q]) /\ Absent(flow) # {}
      /\ flow' = [flow EXCEPT ![m] = NewFlow(r.to, r.k)]
  BY <1>0 DEF CreateFlowRow
<1>2. DomainsInv /\ DomainsInv'
  BY FlowDomains DEF FlowStatement
<1>3. Went(r, "CreateFlowRow", r, N)
  BY <1>0, <1>1, TicksTo
<1>4. r.op = "CreateFlow" /\ N.op = "CreateFlow" /\ At(r) = "CreateFlowRow"
      /\ Follows("CreateFlow", "CreateFlowRow", At(N))
  BY <1>3, OpsOf DEF Went
<1>5. Live(flow) = {}
  BY <1>0, <1>4 DEF LeadKnows
<1>6. At(N) = "end"
  BY <1>4 DEF Follows, FlowFollows, KanbanFollows, FormFollows, EditOps, FillOps
<1>7. m \in Flow /\ flow[m].is = "absent"
  <2>1. DOMAIN flow = Flow /\ Flow \subseteq Nat
    BY <1>2, TablesAssumption DEF DomainsInv
  <2> QED  BY <1>0, <1>1, <2>1, FreshRow
<1>8. flow'[First] = flow[First] /\ flow[First].is # "absent" /\ flow[First].is # "live"
  BY <1>1, <1>2, <1>5, <1>7, FirstIsFlow, LeadsHad DEF Live, DomainsInv
<1>9. LeadsInv'
  BY <1>2, <1>8, LeadsMade DEF Ruled
<1> QED  BY <1>0, <1>6, <1>9 DEF LeadKnows

\* A statement on nodes that puts them on no other stage of the board.
LEMMA NodesLeads ==
  ASSUME DomainsInv, DomainsInv', LeadsInv, NEW q \in Request, Named(q), request[q].todo # <<>>,
         UNCHANGED <<flow, stage, lead>>,
         \A h : Settled(h) /\ Home = h => \A n \in Node :
           node'[n].is = "live" => node'[n].stage \in StagesOf(h) \union {None}
  PROVE  LeadsInv'
<1>1. flow'[First].is # "absent"
  BY LeadsHad
<1>2. \A k : StagesOf(k)' = StagesOf(k)
  BY DEF StagesOf, Live
<1>3. Ruled' => Ruled
  BY WereQuiet DEF Ruled
<1>4. \A h : Settled(h) /\ Home = h => Settled(h)'
  BY <1>2 DEF Settled
<1> QED  BY <1>1, <1>3, <1>4, LeadsHad, LeadsMade

\* A node starts without a stage.
LEMMA CreateNodeLeads ==
  ASSUME StrandInv, LeadsInv, NEW q \in Request, FlowKnows(request[q]), CreateNodeRow(q)
  PROVE  LeadsInv' /\ LeadKnows(request[q])'
<1>0. PICK r, m : r = request[q] /\ m = Fresh(node)
  OBVIOUS
<1> DEFINE row == NewNode(r.f, r.to, r.s)
<1>1. /\ Does(q, "CreateNodeRow") /\ node' = [node EXCEPT ![m] = row] /\ UNCHANGED <<flow, stage, lead>>
  BY <1>0 DEF CreateNodeRow
<1>2. DomainsInv /\ DomainsInv' /\ Named(q)
  BY FlowDomains, FlowStatementOps DEF FlowStatement
<1>3. r.op = "CreateNode" /\ At(r) = "CreateNodeRow" /\ request[q].todo # <<>>
  BY <1>0, <1>1, OpOf, OpsOf DEF StrandInv
<1>4. r.s = None
  BY <1>0, <1>3 DEF FlowKnows, KnowsNewNode
<1>5. row.stage = None
  BY <1>4, RowsWritten
<1> HIDE DEF row
<1>6. \A n \in Node : node'[n] = IF n = m THEN row ELSE node[n]
  BY <1>1, <1>2 DEF DomainsInv
<1>7. LeadsInv'
  <2>1. \A h : Settled(h) /\ Home = h => \A n \in Node :
           node'[n].is = "live" => node'[n].stage \in StagesOf(h) \union {None}
    BY <1>5, <1>6 DEF Settled
  <2> QED  BY <1>1, <1>2, <1>3, <2>1, NodesLeads
<1>8. request[q].op \notin LeadOps
  BY <1>0, <1>3 DEF LeadOps
<1> QED  BY <1>2, <1>7, <1>8, NoLeadKnown

\* A node that loses its arrow keeps its stage.
LEMMA ClearNodesLeads ==
  ASSUME StrandInv, LeadsInv, NEW q \in Request, ClearNodeArrows(q)
  PROVE  LeadsInv' /\ LeadKnows(request[q])'
<1>0. PICK r : r = request[q]
  OBVIOUS
<1>1. /\ Does(q, "ClearNodeArrows") /\ UNCHANGED <<flow, stage, lead>>
      /\ node' = [x \in Node |-> IF node[x].next = r.n THEN [node[x] EXCEPT !.next = None] ELSE node[x]]
  BY <1>0 DEF ClearNodeArrows
<1>2. DomainsInv /\ DomainsInv' /\ Named(q) /\ \A n \in Node : NodeRow(node[n])
  BY FlowDomains, FlowStatementOps DEF FlowStatement, StrandInv, RowsInv
<1>3. request[q].op = "DeleteNode" /\ request[q].todo # <<>>
  BY <1>1, OpOf, OpsOf DEF StrandInv
<1>4. \A n \in Node : node'[n].is = node[n].is /\ node'[n].stage = node[n].stage
  BY <1>1, <1>2 DEF NodeRow, NodeColumns
<1>5. LeadsInv'
  <2>1. \A h : Settled(h) /\ Home = h => \A n \in Node :
           node'[n].is = "live" => node'[n].stage \in StagesOf(h) \union {None}
    BY <1>4 DEF Settled
  <2> QED  BY <1>1, <1>2, <1>3, <2>1, NodesLeads
<1>6. request[q].op \notin LeadOps
  BY <1>3 DEF LeadOps
<1> QED  BY <1>2, <1>5, <1>6, NoLeadKnown

\* A node is put on a stage of the kanban of its flow, or deleted.
LEMMA SaveNodeLeads ==
  ASSUME StrandInv, FlowsInv, LeadsInv, NEW q \in Request, FlowKnows(request[q]),
         LeadKnows(request[q]), SaveNode(q)
  PROVE  LeadsInv'
<1>0. PICK r : r = request[q]
  OBVIOUS
<1> DEFINE row == Over(r.set, r.row)
<1>1. /\ Does(q, "SaveNode") /\ node' = [node EXCEPT ![r.n] = row] /\ UNCHANGED <<flow, stage, lead>>
  BY <1>0 DEF SaveNode
<1>2. DomainsInv /\ DomainsInv' /\ Named(q) /\ \A n \in Node : NodeRow(node[n])
  BY FlowDomains, FlowStatementOps DEF FlowStatement, StrandInv, RowsInv
<1>3. r.op \in {"UpdateNode", "DeleteNode"} /\ At(r) = "SaveNode" /\ request[q].todo # <<>>
  BY <1>0, <1>1, OpOf, OpsOf DEF StrandInv
<1>4. r.n \in Node /\ node[r.n].is = "live"
  <2>1. r.n \in Live(node)
    BY <1>0, <1>3 DEF FlowKnows, KnowsEdited, KnowsDoomed
  <2> QED  BY <1>2, <2>1 DEF Live, DomainsInv
<1>5. \A n \in Node : n # r.n => node'[n] = node[n]
  BY <1>1, <1>2 DEF DomainsInv
<1>6. node'[r.n] = row
  BY <1>1, <1>2, <1>4 DEF DomainsInv
<1>7. ASSUME NEW h, Settled(h), node'[r.n].is = "live"
      PROVE  node'[r.n].stage \in StagesOf(h) \union {None}
  <2>1. CASE r.op = "UpdateNode"
    <3>1. /\ DOMAIN r.set \subseteq {"next", "stage"} /\ r.row = node[r.n]
          /\ "stage" \in DOMAIN r.set => r.set.stage \in StageChoices(node[r.n].flow)
      BY <1>0, <1>3, <2>1 DEF FlowKnows, KnowsEdited, LeadKnows
    <3>2. row.stage = IF "stage" \in DOMAIN r.set THEN r.set.stage ELSE node[r.n].stage
      <4>1. DOMAIN node[r.n] = NodeColumns
        BY <1>2, <1>4 DEF NodeRow
      <4> QED  BY <3>1, <4>1 DEF Over, NodeColumns
    <3>3. PICK f \in Flow : node[r.n].flow = f /\ flow[f].is # "absent"
      BY <1>2, <1>4, FlowsHad
    <3>4. StageChoices(node[r.n].flow) = StagesOf(h) \union {None}
      BY <1>7, <3>3 DEF StageChoices, Settled
    <3>5. node[r.n].stage \in StagesOf(h) \union {None}
      BY <1>4, <1>7 DEF Settled
    <3> QED  BY <1>6, <3>1, <3>2, <3>4, <3>5
  <2>2. CASE r.op = "DeleteNode"
    <3>1. r.set = [is |-> "deleted"]
      BY <1>0, <1>3, <2>2 DEF FlowKnows, KnowsDoomed
    <3>2. row.is = "deleted"
      BY <3>1 DEF Over
    <3> QED  BY <1>6, <1>7, <3>2
  <2> QED  BY <1>3, <2>1, <2>2
<1> HIDE DEF row
<1>8. \A h : Settled(h) /\ Home = h => \A n \in Node :
         node'[n].is = "live" => node'[n].stage \in StagesOf(h) \union {None}
  BY <1>5, <1>7 DEF Settled
<1> QED  BY <1>1, <1>2, <1>3, <1>8, NodesLeads

\* The copy of a flow has its kanban and its nodes the stages.
LEMMA CopyFlowLeads ==
  ASSUME StrandInv, FlowsInv, LeadsInv, NEW q \in Request, FlowKnows(request[q]), CopyFlow(q)
  PROVE  LeadsInv' /\ LeadKnows(request[q])'
<1>0. PICK r : r = request[q]
  OBVIOUS
<1>1. Does(q, "CopyFlow") /\ \E new, copy, of : Copied(r, new, copy, of)
  BY <1>0, CopyWrites
<1>2. PICK new, copy, of : Copied(r, new, copy, of)
  BY <1>1
<1>3. DomainsInv /\ DomainsInv' /\ Named(q) /\ \A n \in Node : NodeRow(node[n])
  BY FlowDomains, FlowStatementOps DEF FlowStatement, StrandInv, RowsInv
<1>4. UNCHANGED <<stage, lead>>
  BY DEF CopyFlow
<1>5. r.op = "DuplicateFlow" /\ At(r) = "CopyFlow" /\ request[q].todo # <<>>
  BY <1>0, <1>1, OpOf, OpsOf DEF StrandInv
<1>6. KnowsSource(r, "CopyFlow")
  BY <1>0, <1>5 DEF FlowKnows
<1>7. /\ r.f \in Flow /\ flow[r.f].is = "live" /\ r.owner = flow[r.f]
      /\ DOMAIN r.row = NodesOf(r.f)
      /\ \A n \in NodesOf(r.f) : n \in Node /\ node[n].is = "live" /\ r.row[n].stage = node[n].stage
  <2>1. \A n \in NodesOf(r.f) : n \in Node /\ node[n].is = "live" /\ DOMAIN node[n] = NodeColumns
    BY <1>3, FlowsHad DEF NodeRow
  <2>2. \A n \in NodesOf(r.f) : Over(node[n], [options |-> option[n]]).stage = node[n].stage
    BY <2>1 DEF Over, NodeColumns
  <2>3. r.row = [n \in NodesOf(r.f) |-> Over(node[n], [options |-> option[n]])]
    BY <1>6 DEF KnowsSource
  <2>4. r.f \in Flow /\ flow[r.f].is = "live" /\ r.owner = flow[r.f]
    BY <1>3, <1>6 DEF KnowsSource, Live, DomainsInv
  <2> QED  BY <2>1, <2>2, <2>3, <2>4
<1>8. new \in Flow /\ flow[new].is = "absent"
  BY <1>2, <1>3 DEF Copied, Absent, DomainsInv
<1>9. PICK first : flow' = [flow EXCEPT ![new] = first] /\ first.kanban = flow[r.f].kanban
  <2> DEFINE first == [NewFlow(None, r.owner.kanban) EXCEPT !.start = Remapped(copy, r.owner.start)]
  <2>1. flow' = [flow EXCEPT ![new] = first]
    BY <1>2 DEF Copied
  <2>2. first.kanban = flow[r.f].kanban
    BY <1>7 DEF NewFlow
  <2> QED  BY <2>1, <2>2
<1>10. \A f \in Flow : flow'[f] = IF f = new THEN first ELSE flow[f]
  BY <1>3, <1>9 DEF DomainsInv
<1>11. \A x \in Node : node'[x] = node[x] \/ \E n \in NodesOf(r.f) : node'[x].stage = node[n].stage
  <2>1. SUFFICES ASSUME NEW x \in Node
                 PROVE  node'[x] = node[x] \/ \E n \in NodesOf(r.f) : node'[x].stage = node[n].stage
    OBVIOUS
  <2>2. CASE x \in {copy[n] : n \in DOMAIN r.row}
    <3>1. of[x] \in NodesOf(r.f)
      BY <1>2, <1>7, <2>2 DEF Copied
    <3>2. \E a, b : node'[x] = NewNode(a, b, r.row[of[x]].stage)
      BY <1>2, <2>2 DEF Copied
    <3>3. node'[x].stage = r.row[of[x]].stage
      BY <3>2, RowsWritten
    <3> QED  BY <1>7, <3>1, <3>3
  <2>3. CASE x \notin {copy[n] : n \in DOMAIN r.row}
    BY <1>2, <2>3 DEF Copied
  <2> QED  BY <2>2, <2>3
<1>12. \A k : StagesOf(k)' = StagesOf(k)
  BY <1>4 DEF StagesOf, Live
<1>13. ASSUME NEW h, Settled(h) PROVE Settled(h)'
  <2>1. flow[r.f].kanban = h
    BY <1>7, <1>13 DEF Settled
  <2>2. \A f \in Flow : flow'[f].is # "absent" => flow'[f].kanban = h
    BY <1>9, <1>10, <1>13, <2>1 DEF Settled
  <2>3. \A c \in Conv : lead'[c] \in StagesOf(h)' \union {None}
    BY <1>4, <1>12, <1>13 DEF Settled
  <2>4. \A n \in NodesOf(r.f) : node[n].stage \in StagesOf(h) \union {None}
    BY <1>7, <1>13 DEF Settled
  <2>5. \A n \in Node : node'[n].is = "live" => node'[n].stage \in StagesOf(h)' \union {None}
    BY <1>11, <1>12, <1>13, <2>4 DEF Settled
  <2> QED  BY <2>2, <2>3, <2>5 DEF Settled
<1>14. flow'[First] = flow[First] /\ flow[First].is # "absent"
  BY <1>3, <1>8, <1>10, FirstIsFlow, LeadsHad
<1>15. Ruled' => Ruled
  BY <1>3, <1>5, <1>14, WereQuiet DEF Ruled
<1>16. LeadsInv'
  BY <1>3, <1>13, <1>14, <1>15, LeadsHad, LeadsMade
<1>17. request[q].op \notin LeadOps
  BY <1>0, <1>5 DEF LeadOps
<1> QED  BY <1>3, <1>16, <1>17, NoLeadKnown

\* What is on a stage that is deleted moves to another one of the same kanban.
LEMMA DeleteStageLeads ==
  ASSUME StrandInv, LeadsInv, NEW q \in Request, LeadKnows(request[q]), FlagStage(q)
  PROVE  LeadsInv' /\ LeadKnows(request[q])'
<1>0. PICK r, N : r = request[q] /\ N = request'[q]
  OBVIOUS
<1> DEFINE target == IF r.used THEN r.to ELSE None
           Moved(s) == IF s = r.s THEN target ELSE s
<1>1. /\ Does(q, "FlagStage") /\ Continue(q, request[q]) /\ flow' = flow
      /\ lead' = [c \in Conv |-> IF c \in r.leads THEN target ELSE lead[c]]
      /\ node' = [n \in Node |-> IF n \in r.nodes THEN [node[n] EXCEPT !.stage = target] ELSE node[n]]
      /\ stage' = [stage EXCEPT ![r.s].is = "deleted"]
  BY <1>0 DEF FlagStage
<1>2. DomainsInv /\ DomainsInv' /\ Named(q) /\ (\A s \in Stage : StageRow(stage[s]))
      /\ \A n \in Node : NodeRow(node[n])
  BY BoardDomains DEF KanbanStatement, StrandInv, RowsInv
<1>3. Went(r, "FlagStage", r, N) /\ request[q].todo # <<>>
  BY <1>0, <1>1, TicksTo DEF Does, InFlight
<1>4. r.op = "DeleteStage" /\ At(r) = "FlagStage" /\ At(N) = "end"
  BY <1>3, OpsOf, BoardOrder DEF Went
<1>5. KnowsDeleted(r, "FlagStage") /\ r.leads = {c \in Conv : lead[c] = r.s} /\ r.nodes = NodesOn(r.s)
  BY <1>0, <1>4 DEF LeadKnows, KnowsDeleted, Moving
<1>6. /\ r.s \in Stage /\ r.s # None
      /\ target \in (StagesOf(stage[r.s].kanban) \ {r.s}) \union {None}
  <2>1. r.s \in Stage
    BY <1>2, <1>5 DEF KnowsDeleted, Live, DomainsInv
  <2>2. r.s # None
    BY <2>1, TablesAssumption
  <2> QED  BY <1>5, <2>1, <2>2 DEF KnowsDeleted, Moving
<1>7. \A k : StagesOf(k) \ {r.s} \subseteq StagesOf(k)'
  <2>1. \A s \in Stage : s # r.s => stage'[s] = stage[s]
    BY <1>1, <1>2 DEF DomainsInv
  <2>2. /\ \A k : StagesOf(k)' = {s \in Stage : stage'[s].is = "live" /\ stage'[s].kanban = k}
        /\ \A k : StagesOf(k) = {s \in Stage : stage[s].is = "live" /\ stage[s].kanban = k}
    <3>1. DOMAIN stage = Stage
      BY <1>2 DEF DomainsInv
    <3> QED  BY <1>2, <3>1, StagesNow DEF StagesOf, Live
  <2> QED  BY <2>1, <2>2
<1>8. \A h : \A s \in StagesOf(h) \union {None} : Moved(s) \in StagesOf(h)' \union {None}
  <2>1. ASSUME NEW h, NEW s \in StagesOf(h) \union {None}
        PROVE  Moved(s) \in StagesOf(h)' \union {None}
    <3>1. CASE s = r.s
      <4>1. stage[r.s].kanban = h
        BY <1>6, <3>1 DEF StagesOf
      <4>2. target \in (StagesOf(h) \ {r.s}) \union {None}
        BY <1>6, <4>1
      <4> QED  BY <1>7, <3>1, <4>2
    <3>2. CASE s # r.s
      BY <1>7, <3>2
    <3> QED  BY <3>1, <3>2
  <2> QED  BY <2>1
<1>9. \A n \in Node : node'[n].is = node[n].is /\ node'[n].stage = Moved(node[n].stage)
  <2> HIDE DEF target
  <2> QED  BY <1>1, <1>2, <1>5 DEF NodeRow, NodeColumns, NodesOn
<1>10. \A c \in Conv : lead'[c] = Moved(lead[c])
  <2> HIDE DEF target
  <2> QED  BY <1>1, <1>5
<1> HIDE DEF Moved
<1>11. ASSUME NEW h, Settled(h) PROVE Settled(h)'
  <2>1. \A c \in Conv : lead'[c] \in StagesOf(h)' \union {None}
    BY <1>8, <1>10, <1>11 DEF Settled
  <2>2. \A n \in Node : node'[n].is = "live" => node'[n].stage \in StagesOf(h)' \union {None}
    BY <1>8, <1>9, <1>11 DEF Settled
  <2>3. \A f \in Flow : flow'[f].is # "absent" => flow'[f].kanban = h
    BY <1>1, <1>11 DEF Settled
  <2> QED  BY <2>1, <2>2, <2>3 DEF Settled
<1>12. Ruled' => Ruled
  BY <1>1, <1>2, <1>3, WereQuiet DEF Ruled
<1>13. LeadsInv'
  BY <1>1, <1>2, <1>11, <1>12, LeadsHad, LeadsMade
<1> QED  BY <1>0, <1>4, <1>13 DEF LeadKnows

\* A lead comes to a stage of its board, unless an old link brings it elsewhere.
LEMMA SaveLeadLeads ==
  ASSUME StrandInv, LeadsInv, NEW q \in Request, LeadKnows(request[q]), SaveLead(q)
  PROVE  LeadsInv' /\ LeadKnows(request[q])'
<1>0. PICK r, N : r = request[q] /\ N = request'[q]
  OBVIOUS
<1>1. /\ Does(q, "SaveLead") /\ Continue(q, request[q]) /\ UNCHANGED <<flow, node, stage>>
      /\ lead' = IF r.s = None THEN lead ELSE [lead EXCEPT ![r.c] = r.s]
  BY <1>0 DEF SaveLead
<1>2. DomainsInv /\ DomainsInv' /\ Named(q)
  BY BoardDomains DEF KanbanStatement
<1>3. Went(r, "SaveLead", r, N) /\ request[q].todo # <<>>
  BY <1>0, <1>1, TicksTo DEF Does, InFlight
<1>4. r.op \in FillOps \union {"MoveLead", "LeadReachesNode"} /\ At(r) = "SaveLead"
      /\ At(N) = "end" /\ N.op = r.op
  BY <1>3, OpsOf, BoardOrder, FormOrder DEF Went
<1>5. N.todo = <<>>
  <2>1. RequestInv(N)
    BY <1>0, KanbanStatementRequests DEF KanbanStatement, RequestsInv
  <2> QED  BY <1>4, <2>1, EndIsEmpty
<1>6. Quiet' => r.op # "FillOldLink"
  BY <1>0, <1>2, <1>3, <1>4, <1>5, WereQuiet
<1>7. \A k : StagesOf(k)' = StagesOf(k)
  BY <1>1 DEF StagesOf, Live
<1>8. ASSUME NEW h, Settled(h), Home = h, Quiet' PROVE Settled(h)'
  <2>1. r.s \in StagesOf(h) \union {None}
    <3>1. CASE r.op = "MoveLead"
      BY <1>0, <1>4, <1>8, <3>1 DEF LeadKnows
    <3>2. CASE r.op # "MoveLead"
      <4>1. OnNode(r.s)
        BY <1>0, <1>4, <1>6, <1>8, <3>2 DEF LeadKnows, FillOps
      <4>2. Live(node) = {n \in Node : node[n].is = "live"}
        BY <1>2 DEF Live, DomainsInv
      <4> QED  BY <1>8, <4>1, <4>2 DEF OnNode, Settled
    <3> QED  BY <3>1, <3>2
  <2>2. \A c \in Conv : lead'[c] = lead[c] \/ lead'[c] = r.s
    BY <1>1, <1>2 DEF DomainsInv
  <2> QED  BY <1>1, <1>7, <1>8, <2>1, <2>2 DEF Settled
<1>9. Ruled' => Ruled /\ Quiet'
  BY <1>1, <1>2, <1>3, WereQuiet DEF Ruled
<1>10. LeadsInv'
  BY <1>1, <1>2, <1>8, <1>9, LeadsHad, LeadsMade
<1> QED  BY <1>0, <1>4, <1>10 DEF LeadKnows

\* A flow is created after a look for others.
LEMMA NoFlowKnows ==
  ASSUME StrandInv, NEW q \in Request, NoFlowYet(q)
  PROVE  LeadKnows(request[q])'
<1>0. PICK r, N : r = request[q] /\ N = request'[q]
  OBVIOUS
<1>1. /\ Refuse(q) \/ (Does(q, "NoFlowYet") /\ Continue(q, request[q]) /\ Live(flow) = {})
      /\ flow' = flow
  BY DEF NoFlowYet, tables
<1>2. CASE Refuse(q)
  BY <1>2, RefusedEnds DEF LeadKnows
<1>3. CASE Does(q, "NoFlowYet") /\ Continue(q, request[q]) /\ Live(flow) = {}
  <2>1. Went(r, "NoFlowYet", r, N)
    BY <1>0, <1>3, TicksTo
  <2>2. N.op = "CreateFlow"
    BY <2>1, OpsOf DEF Went
  <2>3. Live(flow)' = {}
    BY <1>1, <1>3 DEF Live
  <2>4. LeadKnows(N)'
    BY <2>2, <2>3 DEF LeadKnows
  <2> QED  BY <1>0, <2>4
<1> QED  BY <1>1, <1>2, <1>3

\* The stage of an update stays one of the kanban of the flow.
LEMMA UpdateNodeKnows ==
  ASSUME StrandInv, FlowsInv, NEW q \in Request, FlowKnows(request[q]), LeadKnows(request[q]),
         FlowStatement(q), request[q].op = "UpdateNode"
  PROVE  LeadKnows(request[q])'
<1>0. PICK r, N : r = request[q] /\ N = request'[q]
  OBVIOUS
<1>1. PICK x, M : /\ Does(q, x) /\ (Refuse(q) \/ Continue(q, M))
                  /\ Shaped(r) => Alike(r, M) /\ M.set = r.set /\ M.n = r.n
                  /\ \/ LoadNode(q) \/ LoadFlow(q) \/ SaveNode(q) \/ DropOptions(q) \/ AddOptions(q)
                     \/ x \in {"SaveFlow", "NoFlowYet", "CreateFlowRow", "CreateNodeRow", "CopyFlow",
                               "ClearNodeArrows", "ClearOptionArrows", "ForgetStart", "ReadSource"}
  <2> DEFINE P(x, M) == /\ Does(q, x) /\ (Refuse(q) \/ Continue(q, M))
                        /\ Shaped(r) => Alike(r, M) /\ M.set = r.set /\ M.n = r.n
  <2>1. CASE LoadFlow(q)
    <3>1. P("LoadFlow", [r EXCEPT !.owner = flow[r.f]])
      BY <1>0, <2>1 DEF LoadFlow, Alike, Shaped, Columns
    <3> QED  BY <2>1, <3>1
  <2>2. CASE LoadNode(q)
    <3>1. P("LoadNode", [r EXCEPT !.row = node[r.n], !.f = node[r.n].flow, !.s = node[r.n].stage])
      BY <1>0, <2>2 DEF LoadNode, Alike, Shaped, Columns
    <3> QED  BY <2>2, <3>1
  <2>3. CASE SaveNode(q) \/ DropOptions(q) \/ AddOptions(q)
    <3>1. \E x : P(x, r)
      BY <1>0, <2>3 DEF SaveNode, DropOptions, AddOptions, Alike
    <3> QED  BY <2>3, <3>1
  <2>4. CASE SaveFlow(q) \/ NoFlowYet(q) \/ CreateFlowRow(q) \/ CreateNodeRow(q) \/ ClearNodeArrows(q)
             \/ ClearOptionArrows(q) \/ ForgetStart(q) \/ ReadSource(q) \/ CopyFlow(q) \/ CopyRefused(q)
    <3>1. \E x : /\ Does(q, x)
                 /\ x \in {"SaveFlow", "NoFlowYet", "CreateFlowRow", "CreateNodeRow", "CopyFlow",
                           "ClearNodeArrows", "ClearOptionArrows", "ForgetStart", "ReadSource"}
      BY <2>4 DEF SaveFlow, NoFlowYet, CreateFlowRow, CreateNodeRow, ClearNodeArrows,
                  ClearOptionArrows, ForgetStart, ReadSource, CopyFlow, CopyRefused
    <3>2. PICK x : /\ Does(q, x)
                   /\ x \in {"SaveFlow", "NoFlowYet", "CreateFlowRow", "CreateNodeRow", "CopyFlow",
                             "ClearNodeArrows", "ClearOptionArrows", "ForgetStart", "ReadSource"}
      BY <3>1
    <3>3. \E y : Follows("UpdateNode", x, y)
      BY <3>2, OpOf DEF StrandInv
    <3> QED  BY <3>2, <3>3, FlowOrder
  <2> QED  BY <2>1, <2>2, <2>3, <2>4 DEF FlowStatement
<1>2. Shaped(r) /\ At(r) = x /\ \E y : Follows("UpdateNode", x, y)
  BY <1>0, <1>1, OpOf DEF StrandInv
<1>3. LoadNode(q) \/ LoadFlow(q) \/ SaveNode(q) \/ DropOptions(q) \/ AddOptions(q)
  BY <1>1, <1>2, FlowOrder
<1>4. flow' = flow /\ stage' = stage /\ DomainsInv /\ DomainsInv' /\ \A n \in Node : NodeRow(node[n])
  <2>1. flow' = flow /\ stage' = stage
    BY <1>3 DEF LoadNode, LoadFlow, SaveNode, DropOptions, AddOptions, tables
  <2> QED  BY <2>1, FlowDomains DEF StrandInv, RowsInv
<1>5. node'[r.n].flow = node[r.n].flow
  <2>1. CASE SaveNode(q)
    <3>1. Does(q, "SaveNode") /\ node' = [node EXCEPT ![r.n] = Over(r.set, r.row)]
      BY <1>0, <2>1 DEF SaveNode
    <3>2. At(r) = "SaveNode"
      BY <1>0, <3>1, OpOf DEF StrandInv
    <3>3. r.n \in Node /\ r.row = node[r.n] /\ DOMAIN r.set \subseteq {"next", "stage"}
      BY <1>0, <1>4, <3>2 DEF FlowKnows, KnowsEdited, Live, DomainsInv
    <3>4. Over(r.set, r.row).flow = node[r.n].flow
      <4>1. DOMAIN node[r.n] = NodeColumns
        BY <1>4, <3>3 DEF NodeRow
      <4> QED  BY <3>3, <4>1 DEF Over, NodeColumns
    <3> QED  BY <1>4, <3>1, <3>3, <3>4 DEF DomainsInv
  <2>2. CASE ~SaveNode(q)
    <3>1. node' = node
      BY <1>3, <2>2 DEF LoadNode, LoadFlow, DropOptions, AddOptions, tables
    <3> QED  BY <3>1
  <2> QED  BY <2>1, <2>2
<1>6. CASE Refuse(q)
  BY <1>6, RefusedEnds DEF LeadKnows
<1>7. CASE Continue(q, M)
  <2>1. Went(r, x, M, N)
    BY <1>0, <1>1, <1>2, <1>7, GoesTo
  <2>2. N.op = "UpdateNode" /\ (At(N) # "end" => N.set = r.set /\ N.n = r.n)
    BY <1>0, <1>1, <1>2, <2>1 DEF Went
  <2>3. "stage" \in DOMAIN r.set => r.set.stage \in StageChoices(node[r.n].flow)
    BY <1>0, <1>2, <2>1 DEF LeadKnows, Went
  <2>4. PICK f : f = node[r.n].flow
    OBVIOUS
  <2>5. StageChoices(f)' = StageChoices(f)
    BY <1>4 DEF StageChoices, StagesOf, Live
  <2>6. At(N) # "end" /\ "stage" \in DOMAIN r.set => \E g : node'[N.n].flow = g /\ r.set.stage \in StageChoices(g)'
    BY <1>5, <2>2, <2>3, <2>4, <2>5
  <2>7. At(N) # "end" /\ "stage" \in DOMAIN r.set => (r.set.stage \in StageChoices(node[N.n].flow))'
    <3>1. ASSUME NEW g, node'[N.n].flow = g
          PROVE  StageChoices(node[N.n].flow)' = StageChoices(g)'
      BY <3>1 DEF StageChoices
    <3> QED  BY <2>6, <3>1
  <2>8. LeadKnows(N)'
    BY <2>2, <2>7 DEF LeadKnows
  <2> QED  BY <1>0, <2>8
<1> QED  BY <1>1, <1>6, <1>7

\* What the deletion of a stage and the move of a card know is known after their reads.
LEMMA BoardReadsKnow ==
  ASSUME StrandInv, NEW q \in Request, LeadKnows(request[q]),
         \/ LoadKanban(q) \/ LoadStage(q) \/ ReadUsage(q) \/ LoadTarget(q)
         \/ MoveLeads(q) \/ MoveNodes(q) \/ MoveFillNodes(q),
         request[q].op \in {"DeleteStage", "MoveLead"}
  PROVE  LeadKnows(request[q])'
<1>0. PICK r, N : r = request[q] /\ N = request'[q]
  OBVIOUS
<1>1. UNCHANGED tables
  BY DEF LoadKanban, Load, LoadStage, ReadUsage, LoadTarget, MoveLeads, MoveNodes, MoveFillNodes
<1> DEFINE on == {c \in Conv : lead[c] = r.s}
           Guard(x) == /\ x = "ReadUsage" => ~(Used(r.s) /\ r.to = None)
                       /\ x = "LoadTarget" => r.to = None \/ r.to \in StagesOf(r.k) \ {r.s}
           Columned(x, M) == /\ Alike(r, M) /\ M.s = r.s /\ M.k = r.k /\ M.to = r.to /\ M.c = r.c
                             /\ M.used = IF x = "ReadUsage" THEN Used(r.s) ELSE r.used
                             /\ x = "MoveLeads" => M.leads = on
                             /\ x \in {"MoveNodes", "MoveFillNodes"} => M.leads = r.leads
                             /\ x = "MoveFillNodes" => M.nodes = NodesOn(r.s)
<1> HIDE DEF on
<1>2. PICK x, M : /\ Does(q, x) /\ (Refuse(q) \/ (Continue(q, M) /\ Guard(x)))
                  /\ Shaped(r) => Columned(x, M)
  <2> DEFINE P(x, M) == /\ Does(q, x) /\ (Refuse(q) \/ (Continue(q, M) /\ Guard(x)))
                        /\ Shaped(r) => Columned(x, M)
  <2>1. CASE LoadKanban(q)
    <3>1. P("LoadKanban", [r EXCEPT !.row = kanban[r.k]])
      BY <1>0, <2>1 DEF LoadKanban, Load, Alike, Shaped, Columns
    <3> QED  BY <3>1
  <2>2. CASE LoadStage(q)
    <3>1. P("LoadStage", [r EXCEPT !.row = stage[r.s]])
      BY <1>0, <2>2 DEF LoadStage, Alike, Shaped, Columns
    <3> QED  BY <3>1
  <2>3. CASE ReadUsage(q)
    <3>1. P("ReadUsage", [r EXCEPT !.used = Used(r.s)])
      BY <1>0, <2>3 DEF ReadUsage, Alike, Shaped, Columns
    <3> QED  BY <3>1
  <2>4. CASE LoadTarget(q)
    <3>1. P("LoadTarget", r)
      BY <1>0, <2>4 DEF LoadTarget, Alike
    <3> QED  BY <3>1
  <2>5. CASE MoveLeads(q)
    <3>1. P("MoveLeads", [r EXCEPT !.leads = on])
      BY <1>0, <2>5 DEF MoveLeads, Alike, Shaped, Columns, on
    <3> QED  BY <3>1
  <2>6. CASE MoveNodes(q)
    <3>1. PICK some : Does(q, "MoveNodes") /\ Continue(q, [r EXCEPT !.nodes = some])
      BY <1>0, <2>6 DEF MoveNodes
    <3>2. P("MoveNodes", [r EXCEPT !.nodes = some])
      BY <3>1 DEF Alike, Shaped, Columns
    <3> QED  BY <3>2
  <2>7. CASE MoveFillNodes(q)
    <3>1. P("MoveFillNodes", [r EXCEPT !.nodes = NodesOn(r.s)])
      BY <1>0, <2>7 DEF MoveFillNodes, Alike, Shaped, Columns
    <3> QED  BY <3>1
  <2> QED  BY <2>1, <2>2, <2>3, <2>4, <2>5, <2>6, <2>7
<1>3. Shaped(r) /\ At(r) = x /\ x # "end"
  BY <1>0, <1>2, OpOf DEF StrandInv, Statement
<1>4. CASE Refuse(q)
  BY <1>4, RefusedEnds DEF LeadKnows
<1>5. CASE Continue(q, M) /\ Guard(x)
  <2>1. Columned(x, M)
    BY <1>2, <1>3
  <2>2. Went(r, x, M, N)
    BY <1>0, <1>2, <1>5, <2>1, GoesTo
  <2> DEFINE y == At(N)
  <2>3. /\ N.op = r.op /\ Follows(r.op, x, y)
        /\ y # "end" => /\ N.s = r.s /\ N.k = r.k /\ N.to = r.to /\ N.c = r.c
                        /\ N.used = IF x = "ReadUsage" THEN Used(r.s) ELSE r.used
                        /\ x = "MoveLeads" => N.leads = on
                        /\ x \in {"MoveNodes", "MoveFillNodes"} => N.leads = r.leads
                        /\ x = "MoveFillNodes" => N.nodes = NodesOn(r.s)
    BY <2>1, <2>2 DEF Went
  <2>4. /\ \A k : StagesOf(k)' = StagesOf(k) /\ Live(stage)' = Live(stage)
        /\ \A s : Used(s)' = Used(s)
        /\ Home' = Home
    BY <1>1 DEF tables, StagesOf, Live, Used, Home
  <2> HIDE DEF y
  <2>5. CASE r.op = "DeleteStage"
    <3>1. KnowsDeleted(r, x)
      BY <1>0, <1>3, <2>5 DEF LeadKnows
    <3>2. \/ x = "LoadKanban" /\ y = "LoadStage"
          \/ x = "LoadStage" /\ y = "ReadUsage"
          \/ x = "ReadUsage" /\ y = "LoadTarget"
          \/ x = "LoadTarget" /\ y = "MoveLeads"
          \/ x = "MoveLeads" /\ y = "MoveNodes"
          \/ x = "MoveNodes" /\ y = "MoveFillNodes"
          \/ x = "MoveFillNodes" /\ y = "FlagStage"
          \/ x = "FlagStage" /\ y = "end"
      BY <2>3, <2>5, BoardOrder
    <3>3. y # "end" => KnowsDeleted(N, y)
      BY <1>5, <2>3, <3>1, <3>2 DEF KnowsDeleted, Moving, on
    <3>4. y # "end" => KnowsDeleted(N, y)'
      <4>1. stage' = stage /\ lead' = lead /\ \A s : NodesOn(s)' = NodesOn(s)
        BY <1>1 DEF tables, NodesOn
      <4> QED  BY <2>4, <3>3, <4>1 DEF KnowsDeleted
    <3>5. LeadKnows(N)'
      BY <2>3, <2>5, <3>4 DEF LeadKnows, y
    <3> QED  BY <1>0, <3>5
  <2>6. CASE r.op = "MoveLead"
    <3>1. r.s \in StagesOf(Home) /\ r.c \in Conv
      BY <1>0, <1>3, <2>6 DEF LeadKnows
    <3>2. r.s \in StagesOf(Home)'
      BY <1>1, <3>1 DEF tables, StagesOf, Live, Home
    <3>3. LeadKnows(N)'
      BY <2>3, <2>6, <3>1, <3>2 DEF LeadKnows, y
    <3> QED  BY <1>0, <3>3
  <2> QED  BY <1>0, <2>5, <2>6
<1> QED  BY <1>2, <1>4, <1>5

\* The engine records the stage of the node it read.
LEMMA ReachNodeKnows ==
  ASSUME StrandInv, NEW q \in Request, LeadKnows(request[q]), LoadNode(q),
         request[q].op = "LeadReachesNode"
  PROVE  LeadKnows(request[q])'
<1>0. PICK r, N : r = request[q] /\ N = request'[q]
  OBVIOUS
<1> DEFINE M == [r EXCEPT !.row = node[r.n], !.f = node[r.n].flow, !.s = node[r.n].stage]
<1>1. /\ Does(q, "LoadNode") /\ node' = node
      /\ Refuse(q) \/ (Continue(q, M) /\ node[r.n].is = "live")
  BY <1>0 DEF LoadNode, tables
<1>2. Shaped(r)
  BY <1>0, <1>1, OpOf DEF StrandInv
<1>3. CASE Refuse(q)
  BY <1>3, RefusedEnds DEF LeadKnows
<1>4. CASE Continue(q, M) /\ node[r.n].is = "live"
  <2>1. Alike(r, M) /\ M.s = node[r.n].stage /\ M.n = r.n
    BY <1>2 DEF Alike, Shaped, Columns
  <2> HIDE DEF M
  <2>2. Went(r, "LoadNode", M, N)
    BY <1>0, <1>1, <1>4, <2>1, GoesTo
  <2>3. N.op = "LeadReachesNode" /\ (At(N) # "end" => N.s = node[r.n].stage)
    BY <1>0, <2>1, <2>2 DEF Went
  <2>4. r.n \in Live(node)
    <3>1. At(r) = "LoadNode"
      BY <1>0, <1>1, OpOf DEF StrandInv
    <3> QED  BY <1>0, <3>1 DEF LeadKnows
  <2>5. At(N) # "end" => OnNode(N.s)'
    BY <1>1, <2>3, <2>4 DEF OnNode, Live
  <2>6. At(N) \in {"SaveLead", "end"}
    BY <1>0, <2>2, BoardOrder DEF Went
  <2>7. LeadKnows(N)'
    BY <2>3, <2>5, <2>6 DEF LeadKnows
  <2> QED  BY <1>0, <2>7
<1> QED  BY <1>1, <1>3, <1>4

\* A form that is filled names the stage of a node, or none.
LEMMA FillKnows ==
  ASSUME StrandInv, NEW q \in Request, LeadKnows(request[q]),
         LoadForm(q) \/ SaveResponse(q) \/ FindByLeadPhone(q), request[q].op = "FillForm"
  PROVE  LeadKnows(request[q])'
<1>0. PICK r, N : r = request[q] /\ N = request'[q]
  OBVIOUS
<1>1. node' = node
  BY DEF LoadForm, Load, SaveResponse, FindByLeadPhone, tables
<1>2. PICK x, M : /\ Does(q, x) /\ (Refuse(q) \/ Continue(q, M))
                  /\ Shaped(r) => Alike(r, M) /\ M.s = r.s
  <2> DEFINE P(x, M) == /\ Does(q, x) /\ (Refuse(q) \/ Continue(q, M))
                        /\ Shaped(r) => Alike(r, M) /\ M.s = r.s
  <2>1. CASE LoadForm(q)
    <3>1. P("LoadForm", [r EXCEPT !.row = form[r.m]])
      BY <1>0, <2>1 DEF LoadForm, Load, Alike, Shaped, Columns
    <3> QED  BY <3>1
  <2>2. CASE SaveResponse(q)
    <3>1. P("SaveResponse", r)
      BY <1>0, <2>2 DEF SaveResponse, Alike
    <3> QED  BY <3>1
  <2>3. CASE FindByLeadPhone(q)
    <3>1. \E c : Does(q, "FindByLeadPhone") /\ (Refuse(q) \/ Continue(q, [r EXCEPT !.c = c]))
      BY <1>0, <2>3 DEF FindByLeadPhone
    <3>2. \A c : Shaped(r) => Alike(r, [r EXCEPT !.c = c]) /\ [r EXCEPT !.c = c].s = r.s
      BY DEF Alike, Shaped, Columns
    <3> QED  BY <3>1, <3>2
  <2> QED  BY <2>1, <2>2, <2>3
<1>3. Shaped(r) /\ At(r) = x /\ x # "end"
  BY <1>0, <1>2, OpOf DEF StrandInv, Statement
<1>4. CASE Refuse(q)
  BY <1>4, RefusedEnds DEF LeadKnows
<1>5. CASE Continue(q, M)
  <2>1. Went(r, x, M, N)
    BY <1>0, <1>2, <1>3, <1>5, GoesTo
  <2>2. N.op = "FillForm" /\ (At(N) # "end" => N.s = r.s)
    BY <1>0, <1>2, <1>3, <2>1 DEF Went
  <2>3. OnNode(r.s)
    BY <1>0, <1>3 DEF LeadKnows
  <2>4. OnNode(r.s)'
    BY <1>1, <2>3 DEF OnNode, Live
  <2>5. At(N) # "end" => OnNode(N.s)'
    BY <2>2, <2>4 DEF OnNode
  <2>6. LeadKnows(N)'
    BY <2>2, <2>5 DEF LeadKnows
  <2> QED  BY <1>0, <2>6
<1> QED  BY <1>2, <1>4, <1>5

\* Requests that are alone keep what the boards promise of the leads.
LEMMA LeadAlone ==
  ASSUME StrandInv, FlowsInv, StagesInv, LeadsInv, NEW q \in Request, FlowKnows(request[q]),
         StageKnows(request[q]), LeadKnows(request[q]),
         FlowStatement(q) \/ KanbanStatement(q) \/ FormStatement(q)
  PROVE  LeadsInv' /\ LeadKnows(request[q])'
<1>1. CASE FlowStatement(q)
  <2>1. CASE SaveFlow(q) \/ ForgetStart(q) \/ CreateFlowRow(q) \/ CreateNodeRow(q)
             \/ ClearNodeArrows(q) \/ CopyFlow(q)
    BY <2>1, SaveFlowLeads, ForgetStartLeads, CreateFlowLeads, CreateNodeLeads, ClearNodesLeads,
       CopyFlowLeads
  <2>2. Named(q) /\ request[q].op \in FlowOps \union {"LeadReachesNode"} /\ DomainsInv /\ DomainsInv'
    BY <1>1, FlowStatementOps, FlowDomains
  <2>3. CASE SaveNode(q)
    <3>1. LeadsInv'
      BY <2>3, SaveNodeLeads
    <3>2. request[q].op \in {"UpdateNode", "DeleteNode"}
      BY <2>3, OpOf, OpsOf DEF SaveNode, StrandInv
    <3> QED  BY <1>1, <2>2, <3>1, <3>2, UpdateNodeKnows, NoLeadKnown DEF LeadOps
  <2>4. CASE LoadFlow(q) \/ LoadNode(q) \/ NoFlowYet(q) \/ ReadSource(q) \/ CopyRefused(q)
             \/ DropOptions(q) \/ AddOptions(q) \/ ClearOptionArrows(q)
    <3>1. /\ UNCHANGED <<flow, node, stage, lead>>
          /\ \E x \in {"LoadFlow", "LoadNode", "NoFlowYet", "ReadSource", "CopyFlow", "DropOptions",
                       "AddOptions", "ClearOptionArrows"} :
               Does(q, x) /\ (x = "NoFlowYet" => NoFlowYet(q)) /\ (x = "LoadNode" => LoadNode(q))
      BY <2>4 DEF LoadFlow, LoadNode, NoFlowYet, ReadSource, CopyRefused, DropOptions, AddOptions,
                  ClearOptionArrows, tables
    <3>2. \A k : StagesOf(k)' = StagesOf(k)
      BY <3>1 DEF StagesOf, Live
    <3>3. request[q].todo # <<>>
      BY <3>1 DEF Does, InFlight
    <3>4. LeadsInv'
      BY <2>2, <3>1, <3>2, <3>3, LeadsSame
    <3>5. request[q].op = "CreateFlow" => NoFlowYet(q)
      BY <3>1, OpOf, OpsOf DEF StrandInv, EditOps
    <3>6. request[q].op = "LeadReachesNode" => LoadNode(q)
      BY <3>1, OpOf, OpsOf DEF StrandInv, EditOps
    <3>7. CASE request[q].op \in {"CreateFlow", "LeadReachesNode", "UpdateNode"}
      BY <1>1, <3>4, <3>5, <3>6, <3>7, NoFlowKnows, ReachNodeKnows, UpdateNodeKnows
    <3>8. CASE request[q].op \notin {"CreateFlow", "LeadReachesNode", "UpdateNode"}
      <4>1. request[q].op \notin LeadOps
        BY <2>2, <3>8 DEF FlowOps, EditOps, LeadOps
      <4> QED  BY <2>2, <3>4, <4>1, NoLeadKnown
    <3> QED  BY <3>7, <3>8
  <2> QED  BY <1>1, <2>1, <2>3, <2>4 DEF FlowStatement
<1>2. CASE KanbanStatement(q)
  <2>1. CASE FlagStage(q) \/ SaveLead(q)
    BY <2>1, DeleteStageLeads, SaveLeadLeads
  <2>2. CASE ~(FlagStage(q) \/ SaveLead(q))
    <3>1. Named(q) /\ DomainsInv /\ DomainsInv'
      BY <1>2, BoardDomains
    <3>2. /\ UNCHANGED <<flow, node, lead>>
          /\ \E x : /\ Does(q, x)
                    /\ \/ LoadKanban(q) \/ LoadStage(q) \/ ReadUsage(q) \/ LoadTarget(q)
                       \/ MoveLeads(q) \/ MoveNodes(q) \/ MoveFillNodes(q)
                       \/ x \in {"SaveKanban", "CreateKanbanRow", "CreateStageRow", "ReadMaxOrder",
                                 "SaveStage", "ListStages", "SaveOrder"}
                    /\ x \in {"LoadKanban", "LoadStage", "ReadUsage", "LoadTarget", "MoveLeads",
                                "MoveNodes", "MoveFillNodes", "SaveKanban",
                              "CreateKanbanRow", "CreateStageRow", "ReadMaxOrder", "SaveStage",
                              "ListStages", "SaveOrder"}
      BY <1>2, <2>2
      DEF KanbanStatement, LoadKanban, Load, SaveKanban, CreateKanbanRow, CreateStageRow,
          ReadMaxOrder, LoadStage, SaveStage, ListStages, SaveOrder, ReadUsage, LoadTarget,
          MoveLeads, MoveNodes, MoveFillNodes, tables
    <3>3. request[q].todo # <<>>
      BY <3>2 DEF Does, InFlight
    <3>4. LeadsInv'
      BY <1>2, <2>2, <3>1, <3>2, <3>3, StagesStay, LeadsSame
    <3>5. PICK x, y : /\ Follows(request[q].op, x, y)
                      /\ \/ LoadKanban(q) \/ LoadStage(q) \/ ReadUsage(q) \/ LoadTarget(q)
                         \/ MoveLeads(q) \/ MoveNodes(q) \/ MoveFillNodes(q)
                         \/ x \in {"SaveKanban", "CreateKanbanRow", "CreateStageRow", "ReadMaxOrder",
                                   "SaveStage", "ListStages", "SaveOrder"}
                      /\ x \in {"LoadKanban", "LoadStage", "ReadUsage", "LoadTarget", "MoveLeads",
                                "MoveNodes", "MoveFillNodes", "SaveKanban",
                                "CreateKanbanRow", "CreateStageRow", "ReadMaxOrder", "SaveStage",
                                "ListStages", "SaveOrder"}
      BY <3>2, OpOf DEF StrandInv
    <3>6. CASE request[q].op \in {"DeleteStage", "MoveLead"}
      <4>1. \/ LoadKanban(q) \/ LoadStage(q) \/ ReadUsage(q) \/ LoadTarget(q)
            \/ MoveLeads(q) \/ MoveNodes(q) \/ MoveFillNodes(q)
        BY <3>5, <3>6, OpsOf
      <4> QED  BY <3>4, <3>6, <4>1, BoardReadsKnow
    <3>7. CASE request[q].op \notin {"DeleteStage", "MoveLead"}
      <4>1. request[q].op \notin LeadOps
        BY <3>5, <3>7, OpsOf DEF LeadOps
      <4> QED  BY <3>1, <3>4, <4>1, NoLeadKnown
    <3> QED  BY <3>6, <3>7
  <2> QED  BY <2>1, <2>2
<1>3. CASE FormStatement(q)
  <2>1. UNCHANGED <<flow, node, stage, lead>> /\ DomainsInv /\ DomainsInv' /\ Named(q)
    BY <1>3, FormsKeepFlows, FormDomains, FormStatementOps
  <2>2. \E x : /\ Does(q, x)
              /\ \/ LoadForm(q) \/ SaveResponse(q) \/ FindByLeadPhone(q)
                 \/ x \in {"SaveForm", "FlagForm", "CreateFormRow", "LockDropped", "UpsertFields",
                           "FlagResponse"}
    BY <1>3 DEF FormStatement, LoadForm, Load, SaveForm, FlagForm, CreateFormRow, LockDropped,
                UpsertFields, SaveResponse, FlagResponse, FindByLeadPhone
  <2>3. request[q].todo # <<>>
    BY <2>2 DEF Does, InFlight
  <2>4. \A k : StagesOf(k)' = StagesOf(k)
    BY <2>1 DEF StagesOf, Live
  <2>5. LeadsInv'
    BY <2>1, <2>3, <2>4, LeadsSame
  <2>6. CASE request[q].op = "FillForm"
    <3>1. LoadForm(q) \/ SaveResponse(q) \/ FindByLeadPhone(q)
      BY <2>2, <2>6, OpOf, OpsOf DEF StrandInv
    <3> QED  BY <2>5, <2>6, <3>1, FillKnows
  <2>7. CASE request[q].op # "FillForm"
    <3>1. request[q].op \notin LeadOps
      BY <1>3, <2>7, FormStatementOps DEF FormOps, FillOps, LeadOps
    <3> QED  BY <2>1, <2>5, <3>1, NoLeadKnown
  <2> QED  BY <2>6, <2>7
<1> QED  BY <1>1, <1>2, <1>3

-----------------------------------------------------------------------------
(* A request arrives, or is cut short *)

\* A request that is over knows nothing.
LEMMA RestKnows ==
  ASSUME NEW p, (request[p].todo = <<>>)'
  PROVE  KnowsAlone(request[p])'
<1>0. PICK N : N = request'[p]
  OBVIOUS
<1>1. At(N) = "end"
  BY <1>0 DEF At
<1>2. FlowKnows(N)' /\ FormKnows(N)' /\ StageKnows(N)' /\ LeadKnows(N)'
  BY <1>1 DEF FlowKnows, FormKnows, StageKnows, LeadKnows
<1> QED  BY <1>0, <1>2 DEF KnowsAlone

\* The boards while nothing is done to them and no place is being saved.
LEMMA BoardsRest ==
  ASSUME DomainsInv, DomainsInv', StagesInv, NEW q \in Request, UNCHANGED <<kanban, stage>>,
         NoCut' => NoCut /\ \A p \in Request : \A k : ~Reorders(request[p], k)
  PROVE  StagesInv'
<1>1. \A k : StagesOf(k)' = StagesOf(k) /\ (Ordered(k) <=> Ordered(k)')
  BY DEF StagesOf, Live, Ordered
<1>2. NoCut' => \A k \in Kanban : kanban[k].is = "live" => Ordered(k)
  BY StagesHad
<1>3. NoCut' => \A k \in Kanban : kanban'[k].is = "live" => Ordered(k)' \/ Reorders(request'[q], k)
  BY <1>1, <1>2
<1> QED  BY <1>1, <1>3, StagesHad, StagesMade

\* The leads while nothing is done to them.
LEMMA LeadsRest ==
  ASSUME DomainsInv, DomainsInv', LeadsInv, UNCHANGED <<flow, node, stage, lead>>, Quiet' => Quiet
  PROVE  LeadsInv'
<1>1. flow'[First].is # "absent"
  BY LeadsHad
<1>2. Ruled' => Ruled
  BY DEF Ruled
<1>3. \A k : StagesOf(k)' = StagesOf(k)
  BY DEF StagesOf, Live
<1>4. \A h : Settled(h) => Settled(h)'
  BY <1>3 DEF Settled
<1> QED  BY <1>1, <1>2, <1>4, LeadsHad, LeadsMade

\* The tables while nothing is done to them: a request arrives at rest, or one is cut short.
LEMMA TablesRest ==
  ASSUME StrandInv, DomainsInv', TablesInv, NEW q \in Request, OnlyOne(q), UNCHANGED tables,
         request[q].todo # <<>> \/ (request[q].op = "none" /\ request'[q].todo # <<>>),
         \A p \in Request : p # q => request[p].todo = <<>>,
         request[q].todo # <<>> =>
           (request'[q].op = "abortedOrder" <=> request[q].op = "ReorderStages"),
         request[q].op \notin {"abortedOrder"}
  PROVE  TablesInv'
<1>1. DomainsInv
  BY DEF StrandInv, RowsInv
<1>2. FlowsInv' /\ FormsInv'
  BY FlowKnowsSame, FormsSame DEF TablesInv, tables
<1>3. NoCut' => NoCut
  BY DEF NoCut, OnlyOne
<1>4. ASSUME NoCut', NEW p \in Request, NEW k PROVE ~Reorders(request[p], k)
  <2>1. CASE p = q
    BY <1>4, <2>1 DEF NoCut, Reorders, At
  <2>2. CASE p # q
    BY <2>2 DEF Reorders, At
  <2> QED  BY <2>1, <2>2
<1>5. StagesInv'
  BY <1>1, <1>3, <1>4, BoardsRest DEF TablesInv, tables
<1>6. Quiet' => Quiet
  BY DEF Quiet, OnlyOne
<1>7. LeadsInv'
  BY <1>1, <1>6, LeadsRest DEF TablesInv, tables
<1> QED  BY <1>2, <1>5, <1>7 DEF TablesInv

\* What a request of the editor knows on arrival, of tables that are whole.
LEMMA AskedFlowKnows ==
  ASSUME DomainsInv, TablesInv, NEW r, AskedFlow(r)
  PROVE  KnowsAlone(r)
<1>1. FormKnows(r) /\ StageKnows(r)
  BY DEF AskedFlow, AsksEdit, AsksCreateFlow, AsksDuplicate, AsksCreateNode, AsksUpdateNode,
         AsksDeleteNode, EditOps, FillOps, FormKnows, StageKnows
<1>2. CASE ~AsksUpdateNode(r)
  <2>1. FlowKnows(r)
    BY <1>2 DEF AskedFlow, AsksEdit, AsksCreateFlow, AsksDuplicate, AsksCreateNode,
           AsksDeleteNode, EditOps, FlowKnows, KnowsEdit, KnowsSource, KnowsNewNode, KnowsDoomed
  <2>2. LeadKnows(r)
    BY <1>2 DEF AskedFlow, AsksEdit, AsksCreateFlow, AsksDuplicate, AsksCreateNode,
           AsksDeleteNode, EditOps, LeadKnows
  <2> QED  BY <1>1, <2>1, <2>2 DEF KnowsAlone
<1>3. CASE AsksUpdateNode(r)
  <2>1. node[r.n].next \in Arrows(node[r.n].flow)
        /\ \A o \in option[r.n] : o.next \in Arrows(node[r.n].flow)
    BY <1>3 DEF AsksUpdateNode, TablesInv, FlowsInv
  <2>2. KnowsEdited(r, At(r))
    BY <1>3, <2>1 DEF AsksUpdateNode, KnowsEdited
  <2>3. FlowKnows(r) /\ LeadKnows(r)
    BY <1>3, <2>2 DEF AsksUpdateNode, FlowKnows, LeadKnows, EditOps
  <2> QED  BY <1>1, <2>3 DEF KnowsAlone
<1> QED  BY <1>2, <1>3

\* What a request of the boards knows on arrival.
LEMMA AskedKanbanKnows ==
  ASSUME DomainsInv, TablesInv, NEW r, AskedKanban(r)
  PROVE  KnowsAlone(r)
<1> USE DEF AsksCreateKanban, AsksSaveKanban, AsksCreateStage, AsksUpdateStage, AsksReorder,
            AsksDeleteStage, AsksMoveLead, AsksReachNode
<1>1. FlowKnows(r) /\ FormKnows(r)
  BY DEF AskedKanban, EditOps, FillOps, FormKnows, FlowKnows
<1>2. StageKnows(r)
  BY DEF AskedKanban, StageKnows, KnowsKanban, IsNext, KnowsPlaces, KnowsRow
<1>3. CASE ~AsksMoveLead(r)
  <2>1. LeadKnows(r)
    BY <1>3 DEF AskedKanban, LeadKnows, KnowsDeleted, Moving
  <2> QED  BY <1>1, <1>2, <2>1 DEF KnowsAlone
<1>4. CASE AsksMoveLead(r)
  <2>1. r.c \in Conv /\ flow[First].kanban = r.k
    BY <1>4 DEF Cards, Carded, FlowOf, First
  <2>2. LeadKnows(r)
    BY <1>4, <2>1 DEF LeadKnows, Home
  <2> QED  BY <1>1, <1>2, <2>2 DEF KnowsAlone
<1> QED  BY <1>3, <1>4

\* What a request of the forms knows on arrival.
LEMMA AskedFormKnows ==
  ASSUME DomainsInv, TablesInv, NEW r, AskedForm(r)
  PROVE  KnowsAlone(r)
<1>1. FlowKnows(r) /\ StageKnows(r)
  BY DEF AskedForm, AsksCreateForm, AsksUpdateForm, AsksFormActive, AsksDeleteForm,
         AsksDeleteResponse, AsksFill, EditOps, FlowKnows, StageKnows
<1>2. CASE ~AsksFill(r)
  <2>1. FormKnows(r) /\ LeadKnows(r)
    BY <1>2 DEF AskedForm, AsksCreateForm, AsksUpdateForm, AsksFormActive, AsksDeleteForm,
           AsksDeleteResponse, FillOps, FormKnows, LeadKnows, KnowsFields, KnowsForm
  <2> QED  BY <1>1, <2>1 DEF KnowsAlone
<1>3. CASE AsksFill(r)
  <2>1. \A a \in r.targets : Answers(a, r.m)
    <3>1. DOMAIN field = Field
      BY DEF DomainsInv
    <3>2. \A a \in FieldsOf(r.m) : a \in Field /\ field[a].is = "live" /\ field[a].form = r.m
      BY <3>1 DEF FieldsOf, Live
    <3> QED  BY <1>3, <3>2 DEF AsksFill, Answers
  <2>2. r.op = "FillForm" => OnNode(r.s)
    <3>1. \A x \in Stage : stage[x].is = "deleted" => x \notin Live(stage)
      BY DEF Live
    <3> QED  BY <1>3, <3>1, TablesAssumption DEF AsksFill, OnNode
  <2>3. FormKnows(r) /\ LeadKnows(r)
    BY <1>3, <2>1, <2>2 DEF AsksFill, FormKnows, LeadKnows, FillOps
  <2> QED  BY <1>1, <2>3 DEF KnowsAlone
<1> QED  BY <1>2, <1>3

\* What a request knows does not change while the tables do not.
LEMMA KnowsSame ==
  ASSUME UNCHANGED tables, NEW r, KnowsAlone(r)
  PROVE  KnowsAlone(r)'
<1>1. FlowKnows(r)'
  BY FlowKnowsSame DEF KnowsAlone, tables
<1>2. FormKnows(r)'
  BY DEF KnowsAlone, tables, FormKnows, KnowsFields, KnowsForm, Answers, FieldsOf, Live
<1>3. StageKnows(r)'
  <2> DEFINE y == At(r)
  <2>1. kanban' = kanban /\ stage' = stage
    BY DEF tables
  <2>2. Live(kanban)' = Live(kanban) /\ Live(stage)' = Live(stage) /\ \A k : StagesOf(k)' = StagesOf(k)
    BY <2>1 DEF Live, StagesOf
  <2>3. KnowsKanban(r, y) => KnowsKanban(r, y)'
    BY <2>1, <2>2 DEF KnowsKanban
  <2>4. IsNext(r, y) => IsNext(r, y)'
    BY <2>1, <2>2 DEF IsNext
  <2>5. \A l : Places(r, l) => Places(r, l)'
    BY <2>1, <2>2 DEF Places
  <2>6. KnowsPlaces(r, y) => KnowsPlaces(r, y)'
    BY <2>5 DEF KnowsPlaces
  <2>7. KnowsRow(r, y) => KnowsRow(r, y)'
    BY <2>1, <2>2 DEF KnowsRow
  <2> QED  BY <2>2, <2>3, <2>4, <2>6, <2>7 DEF KnowsAlone, StageKnows
<1>4. LeadKnows(r)'
  <2>1. flow' = flow /\ node' = node /\ stage' = stage /\ lead' = lead
    BY DEF tables
  <2>2. (\A s : NodesOn(s)' = NodesOn(s)) /\ \A y : KnowsDeleted(r, y) => KnowsDeleted(r, y)'
    BY <2>1 DEF NodesOn, KnowsDeleted, Used, StagesOf, Live
  <2> QED  BY <2>1, <2>2 DEF KnowsAlone, LeadKnows, StageChoices, OnNode, Home, StagesOf, Live
<1> QED  BY <1>1, <1>2, <1>3, <1>4 DEF KnowsAlone

\* A request arrives when none is under way.
LEMMA ArrivesAlone ==
  ASSUME StrandInv, AloneInv, Arrive
  PROVE  AloneInv'
<1> SUFFICES ASSUME ~overlap'
             PROVE  Alone' /\ TablesInv' /\ \A q \in Request : KnowsAlone(request[q])'
  BY DEF AloneInv
<1>1. ~overlap /\ AtRest /\ UNCHANGED tables
  BY DEF Arrive
<1>2. TablesInv /\ \A p \in Request : request[p].todo = <<>>
  BY <1>1 DEF AloneInv, AtRest, InFlight
<1>3. StrandInv' /\ DomainsInv /\ DomainsInv'
  BY Arrives DEF StrandInv, RowsInv
<1>4. PICK q \in Request : /\ request[q].op = "none"
                           /\ OnlyOne(q) /\ RequestInv(request'[q]) /\ Asked(request'[q])
  BY Arrives
<1>5. PICK N : N = request'[q]
  OBVIOUS
<1>6. KnowsAlone(N)
  BY <1>2, <1>3, <1>4, <1>5, AskedFlowKnows, AskedKanbanKnows, AskedFormKnows DEF Asked
<1>7. KnowsAlone(N)'
  BY <1>1, <1>6, KnowsSame
<1>8. request'[q].todo # <<>>
  <2>1. At(N) # "end"
    BY <1>4, <1>5 DEF Asked, AskedFlow, AsksEdit, AsksCreateFlow, AsksDuplicate, AsksCreateNode,
           AsksUpdateNode, AsksDeleteNode, AskedKanban, AsksCreateKanban, AsksSaveKanban,
           AsksCreateStage, AsksUpdateStage, AsksReorder, AsksDeleteStage, AsksMoveLead,
           AsksReachNode, AskedForm, AsksCreateForm, AsksUpdateForm, AsksFormActive, AsksDeleteForm,
           AsksDeleteResponse, AsksFill
  <2> QED  BY <1>5, <2>1 DEF At
<1>9. TablesInv'
  BY <1>1, <1>2, <1>3, <1>4, <1>8, TablesRest
<1>10. \A p \in Request : p # q => request'[p].todo = <<>>
  BY <1>2, <1>4 DEF OnlyOne
<1>11. Alone'
  BY <1>10 DEF Alone, InFlight
<1>12. ASSUME NEW p \in Request PROVE KnowsAlone(request[p])'
  <2>1. CASE p = q
    BY <1>5, <1>7, <2>1
  <2>2. CASE p # q
    BY <1>10, <2>2, RestKnows
  <2> QED  BY <2>1, <2>2
<1> QED  BY <1>9, <1>11, <1>12

\* A request that is cut short leaves the tables whole, but for the places it was saving.
LEMMA AbortAlone ==
  ASSUME StrandInv, AloneInv, NEW q \in Request, Abort(q)
  PROVE  AloneInv'
<1> SUFFICES ASSUME ~overlap'
             PROVE  Alone' /\ TablesInv' /\ \A p \in Request : KnowsAlone(request[p])'
  BY DEF AloneInv
<1>1. ~overlap /\ UNCHANGED tables /\ q \in InFlight
  BY DEF Abort, history
<1>2. PICK op : /\ request' = [request EXCEPT ![q] = Ended(@, op)]
                /\ op = IF request[q].op = "ReorderStages" THEN "abortedOrder" ELSE "aborted"
  BY DEF Abort, StrandInv, RequestsInv
<1>3. OnlyOne(q) /\ request'[q] = Ended(request[q], op)
  BY <1>2, Refused DEF StrandInv
<1>4. request'[q].todo = <<>> /\ request'[q].op = op
  BY <1>3, EndedKnows
<1>5. TablesInv /\ request[q].todo # <<>> /\ \A p \in Request : p # q => request[p].todo = <<>>
  BY <1>1 DEF AloneInv, Alone, InFlight
<1>6. request[q].op # "abortedOrder"
  <2>1. \E x, y : Follows(request[q].op, x, y)
    BY <1>1, OpOf DEF Does, StrandInv
  <2> QED  BY <2>1 DEF Follows, FlowFollows, KanbanFollows, FormFollows, EditOps, FillOps
<1>7. DomainsInv'
  BY AbortRows DEF StrandInv, RowsInv
<1>8. TablesInv'
  BY <1>1, <1>2, <1>3, <1>4, <1>5, <1>6, <1>7, TablesRest
<1>9. \A p \in Request : request'[p].todo = <<>>
  BY <1>3, <1>4, <1>5 DEF OnlyOne
<1>10. Alone'
  BY <1>9 DEF Alone, InFlight
<1> QED  BY <1>8, <1>9, <1>10, RestKnows

\* A statement of a request that is alone.
LEMMA StatementAlone ==
  ASSUME StrandInv, AloneInv, NEW q \in Request,
         FlowStatement(q) \/ KanbanStatement(q) \/ FormStatement(q)
  PROVE  AloneInv'
<1> SUFFICES ASSUME ~overlap'
             PROVE  Alone' /\ TablesInv' /\ \A p \in Request : KnowsAlone(request[p])'
  BY DEF AloneInv
<1>1. (\E x : Does(q, x)) /\ overlap' = overlap
  BY DEF FlowStatement, KanbanStatement, FormStatement, tables, history,
         LoadFlow, SaveFlow, NoFlowYet, CreateFlowRow, LoadNode, CreateNodeRow, SaveNode,
         DropOptions, AddOptions, ClearNodeArrows, ClearOptionArrows, ForgetStart, ReadSource,
         CopyFlow, CopyRefused, LoadKanban, Load, SaveKanban, CreateKanbanRow, CreateStageRow,
         ReadMaxOrder, LoadStage, SaveStage, ListStages, SaveOrder, ReadUsage, LoadTarget,
         MoveLeads, MoveNodes, MoveFillNodes, FlagStage, SaveLead, LoadForm, SaveForm, FlagForm,
         CreateFormRow, LockDropped, UpsertFields, SaveResponse, FlagResponse, FindByLeadPhone
<1>2. /\ q \in InFlight /\ Alone /\ TablesInv
      /\ \A p \in Request : KnowsAlone(request[p])
  BY <1>1 DEF Does, AloneInv
<1>3. \A p \in Request : p # q => request[p].todo = <<>>
  BY <1>2 DEF Alone, InFlight
<1>4. Named(q) /\ request[q].op # "abortedOrder"
  BY FlowStatementOps, KanbanStatementOps, FormStatementOps
  DEF FlowOps, EditOps, KanbanOps, FormOps, FillOps
<1>5. AloneHere(q)
  BY <1>3, <1>4 DEF AloneHere
<1>6. FlowKnows(request[q]) /\ FormKnows(request[q]) /\ StageKnows(request[q])
      /\ LeadKnows(request[q]) /\ FlowsInv /\ FormsInv /\ StagesInv /\ LeadsInv
  BY <1>2 DEF KnowsAlone, TablesInv
<1>7. FlowsInv' /\ FlowKnows(request[q])'
  BY <1>6, FlowAlone
<1>8. FormsInv' /\ FormKnows(request[q])'
  BY <1>6, FormAlone
<1>9. StagesInv' /\ StageKnows(request[q])'
  BY <1>5, <1>6, StageAlone
<1>10. LeadsInv' /\ LeadKnows(request[q])'
  BY <1>6, LeadAlone
<1>11. \A p \in Request : p # q => request'[p].todo = <<>>
  BY <1>3, <1>4 DEF Named, OnlyOne
<1>12. Alone'
  BY <1>11 DEF Alone, InFlight
<1>13. ASSUME NEW p \in Request PROVE KnowsAlone(request[p])'
  <2>1. CASE p = q
    BY <1>7, <1>8, <1>9, <1>10, <2>1 DEF KnowsAlone
  <2>2. CASE p # q
    BY <1>11, <2>2, RestKnows
  <2> QED  BY <2>1, <2>2
<1> QED  BY <1>7, <1>8, <1>9, <1>10, <1>12, <1>13 DEF TablesInv

\* Nothing happens.
LEMMA NothingAlone ==
  ASSUME StrandInv, AloneInv, UNCHANGED vars
  PROVE  AloneInv'
<1> SUFFICES ASSUME ~overlap'
             PROVE  Alone' /\ TablesInv' /\ \A p \in Request : KnowsAlone(request[p])'
  BY DEF AloneInv
<1>1. ~overlap /\ UNCHANGED tables /\ request' = request
  BY DEF vars, history
<1>2. Alone /\ TablesInv /\ \A p \in Request : KnowsAlone(request[p])
  BY <1>1 DEF AloneInv
<1>3. Alone'
  BY <1>1, <1>2 DEF Alone, InFlight
<1>4. \A p \in Request : KnowsAlone(request[p])'
  <2> SUFFICES ASSUME NEW p \in Request PROVE KnowsAlone(request[p])'
    OBVIOUS
  <2>1. PICK r : r = request[p]
    OBVIOUS
  <2> QED  BY <1>1, <1>2, <2>1, KnowsSame
<1>5. flow' = flow /\ node' = node /\ option' = option /\ kanban' = kanban /\ stage' = stage
      /\ form' = form /\ field' = field /\ response' = response /\ lead' = lead
  BY <1>1 DEF tables
<1>6. FlowsInv'
  BY <1>2, <1>5, FlowKnowsSame DEF TablesInv
<1>7. FormsInv'
  BY <1>1, <1>2, <1>5 DEF TablesInv, FormsInv, FieldsOf, Live, Absent, EditsOf, Answers
<1>8. StagesInv'
  BY <1>1, <1>2, <1>5 DEF TablesInv, StagesInv, Ordered, StagesOf, Live, Absent, Reorders, At
<1>9. LeadsInv'
  BY <1>1, <1>2, <1>5
  DEF TablesInv, LeadsInv, Quiet, Home, First, Placed, StagesOf, Live, Absent
<1> QED  BY <1>3, <1>4, <1>6, <1>7, <1>8, <1>9 DEF TablesInv

\* One step keeps what requests promise that are answered one after the other.
LEMMA AloneStep ==
  ASSUME StrandInv, AloneInv, [DashboardNext]_vars
  PROVE  AloneInv'
BY NothingAlone, ArrivesAlone, StatementAlone, AbortAlone DEF DashboardNext

\* No row has the id None, a lone conversation among them.
LEMMA NoneIsNoId ==
  /\ None \notin Flow /\ None \notin Node /\ None \notin Kanban /\ None \notin Stage
  /\ None \notin Form /\ None \notin Field /\ None \notin Response /\ None \notin Conv
BY TablesAssumption

\* The dashboard starts with tables that are whole.
LEMMA AloneInit == DashboardInit => AloneInv
<1> SUFFICES ASSUME DashboardInit PROVE AloneInv
  OBVIOUS
<1>1. DomainsInv
  BY StrandInit DEF StrandInv, RowsInv
<1>2. \A q \in Request : request[q].todo = <<>> /\ request[q].op = "none"
  BY EndedKnows DEF DashboardInit
<1>3. Alone
  BY <1>2 DEF Alone, InFlight
<1>4. \A q \in Request : KnowsAlone(request[q])
  BY <1>2 DEF KnowsAlone, FlowKnows, FormKnows, StageKnows, LeadKnows, At
<1>5. \A n \in Node : /\ n = 1 => node[n] = NewNode(1, 2, 1)
                      /\ n = 2 => node[n] = NewNode(1, None, None)
                      /\ n \notin {1, 2} => node[n].is = "absent"
  <2>1. node = [n \in Node |->
          CASE n = 1 -> NewNode(1, 2, 1)
            [] n = 2 -> NewNode(1, None, None)
            [] OTHER -> [NewNode(None, None, None) EXCEPT !.is = "absent"]]
    BY DEF DashboardInit
  <2>2. [NewNode(None, None, None) EXCEPT !.is = "absent"].is = "absent"
    BY DEF NewNode
  <2> QED  BY <2>1, <2>2
<1>6. \A n \in Node : option[n] = IF n = 1 THEN {[by |-> 0, next |-> 2]} ELSE {}
  BY DEF DashboardInit
<1>7. NodesOf(1) = {1, 2}
  <2>1. Live(node) = {1, 2}
    BY <1>1, <1>5, TablesAssumption DEF Live, DomainsInv, NewNode
  <2> QED  BY <1>5, <2>1, TablesAssumption DEF NodesOf, NewNode
<1>8. \A f \in Flow : /\ f = 1 => flow[f].start = 1 /\ flow[f].is = "live" /\ flow[f].kanban = 1
                      /\ f # 1 => flow[f].start = None /\ flow[f].is = "absent"
                      /\ FlowRow(flow[f])
  <2> DEFINE phone == CHOOSE p \in Phone : TRUE
             a == [NewFlow(phone, 1) EXCEPT !.start = 1, !.active = TRUE]
             b == [NewFlow(None, None) EXCEPT !.is = "absent"]
  <2>1. flow = [f \in Flow |-> IF f = 1 THEN a ELSE b]
    BY DEF DashboardInit
  <2> HIDE DEF phone
  <2>2. FlowRow(a) /\ a.start = 1 /\ a.is = "live" /\ a.kanban = 1
    BY DEF NewFlow, FlowRow, FlowColumns
  <2>3. FlowRow(b) /\ b.start = None /\ b.is = "absent"
    BY DEF NewFlow, FlowRow, FlowColumns
  <2> HIDE DEF a, b
  <2>4. \A f \in Flow : flow[f] = IF f = 1 THEN a ELSE b
    BY <2>1
  <2> QED  BY <2>2, <2>3, <2>4
<1>9. FlowsInv
  <2>1. \A f \in Flow : FlowRow(flow[f]) /\ flow[f].start \in Arrows(f)
    BY <1>7, <1>8 DEF Arrows
  <2>2. Live(node) \subseteq {1, 2} /\ 1 \notin Absent(node)
    BY <1>1, <1>5, TablesAssumption DEF Live, Absent, DomainsInv, NewNode
  <2>3. 1 \in Flow \ Absent(flow)
    BY <1>1, <1>8, TablesAssumption DEF Absent, DomainsInv
  <2>4. \A n \in Live(node) : /\ node[n].flow = 1 /\ node[n].next \in {2, None}
                              /\ \A o \in option[n] : o.next = 2
    BY <1>5, <1>6, <2>2, TablesAssumption DEF NewNode
  <2>5. \A n \in Node : \A o, p \in option[n] : OptionRow(o) /\ o.by = p.by
    BY <1>6 DEF OptionRow
  <2>6. \A n \in Absent(node) : option[n] = {}
    BY <1>1, <1>6, <2>2 DEF Absent, DomainsInv
  <2> QED  BY <1>7, <2>1, <2>3, <2>4, <2>5, <2>6 DEF FlowsInv, Arrows
<1>10. FormsInv
  <2>1. \A m \in Form : form[m] = IF m = 1 THEN [is |-> "live", open |-> TRUE]
                                  ELSE [is |-> "absent", open |-> FALSE]
    BY DEF DashboardInit
  <2>2. \A x \in Field : field[x] = IF x <= 2 THEN [is |-> "live", form |-> 1]
                                    ELSE [is |-> "absent", form |-> None]
    BY DEF DashboardInit
  <2>3. \A x \in Response :
          response[x] = IF x = 1 THEN [is |-> "live", form |-> 1, answers |-> {1, 2}]
                        ELSE [is |-> "absent", form |-> None, answers |-> {}]
    BY DEF DashboardInit
  <2>4. \A m \in Form : FormRow(form[m])
    BY <2>1 DEF FormRow
  <2>5. \A x \in Field : FieldRow(field[x])
    BY <2>2 DEF FieldRow
  <2>6. \A x \in Response : ResponseRow(response[x])
    BY <2>3 DEF ResponseRow
  <2>7. Field \subseteq Nat \ {0} /\ {1, 2} \subseteq Field
    BY TablesAssumption
  <2>8. Live(field) = {1, 2}
    BY <1>1, <2>2, <2>7 DEF Live, DomainsInv
  <2>9. \A m : FieldsOf(m) = {x \in {1, 2} : m = 1}
    BY <2>2, <2>7, <2>8 DEF FieldsOf
  <2>10. Absent(form) = Form \ {1} /\ Live(form) \subseteq {1}
    BY <1>1, <2>1 DEF Absent, Live, DomainsInv
  <2>11. \A x \in Live(response) : x = 1 /\ response[x].form = 1 /\ response[x].answers = {1, 2}
    BY <1>1, <2>3 DEF Live, DomainsInv
  <2>12. \A x \in Live(response) : \A a \in response[x].answers : Answers(a, response[x].form)
    BY <2>2, <2>7, <2>11 DEF Answers
  <2> QED  BY <2>4, <2>5, <2>6, <2>9, <2>10, <2>12 DEF FormsInv
<1>11. \A s \in Stage : /\ s = 1 => stage[s] = NewStage(1, 0)
                        /\ s = 2 => stage[s] = NewStage(1, 1)
                        /\ s = 3 => stage[s] = NewStage(2, 0)
                        /\ s = 4 => stage[s] = [NewStage(1, 2) EXCEPT !.is = "deleted"]
                        /\ s \notin 1 .. 4 => stage[s] = [NewStage(None, 0) EXCEPT !.is = "absent"]
  <2>1. \A s \in Stage : s \in Nat \ {0}
    BY TablesAssumption
  <2>2. stage = [s \in Stage |->
          CASE s <= 2 -> NewStage(1, s - 1)
            [] s = 3 -> NewStage(2, 0)
            [] s = 4 -> [NewStage(1, 2) EXCEPT !.is = "deleted"]
            [] OTHER -> [NewStage(None, 0) EXCEPT !.is = "absent"]]
    BY DEF DashboardInit
  <2>3. \A s \in Stage : s <= 2 <=> s \in {1, 2}
    BY <2>1
  <2>4. 1 .. 4 = {1, 2, 3, 4} /\ 1 - 1 = 0 /\ 2 - 1 = 1
    OBVIOUS
  <2> QED  BY <2>2, <2>3, <2>4
<1>12. \A k : StagesOf(k) = {s \in 1 .. 3 : k = IF s = 3 THEN 2 ELSE 1}
  <2>1. 1 .. 3 = {1, 2, 3} /\ {1, 2, 3} \subseteq Stage /\ 1 .. 4 = {1, 2, 3, 4}
    BY TablesAssumption
  <2>2. Live(stage) = {1, 2, 3}
    BY <1>1, <1>11, <2>1 DEF Live, DomainsInv, NewStage
  <2>3. stage[1].kanban = 1 /\ stage[2].kanban = 1 /\ stage[3].kanban = 2
    BY <1>11, <2>1 DEF NewStage
  <2> QED  BY <2>1, <2>2, <2>3 DEF StagesOf
<1>13. StagesInv
  <2>1. \A k \in Kanban : kanban[k] = [is |-> IF k <= 2 THEN "live" ELSE "absent"]
    BY DEF DashboardInit
  <2>2. \A k \in Kanban : KanbanRow(kanban[k])
    <3>1. \A v : KanbanRow([is |-> v])
      BY DEF KanbanRow
    <3> QED  BY <2>1, <3>1
  <2>3. \A s \in Stage : stage[s].order \in Nat
    BY <1>11 DEF NewStage
  <2>4. \A k \in Absent(kanban) : StagesOf(k) = {}
    BY <1>1, <1>12, <2>1 DEF Absent, DomainsInv
  <2>5. stage[1].order = 0 /\ stage[2].order = 1
    BY <1>11, TablesAssumption DEF NewStage
  <2>6. \A k : Ordered(k)
    BY <1>12, <2>5 DEF Ordered
  <2> QED  BY <2>2, <2>3, <2>4, <2>6 DEF StagesInv
<1>14. LeadsInv
  <2>1. First = 1
    <3>1. Flow \subseteq Nat \ {0} /\ 1 \in Flow
      BY TablesAssumption
    <3>2. Flow \subseteq Nat /\ Flow # {}
      BY <3>1
    <3>3. First \in Flow /\ First <= 1
      BY <3>1, <3>2, Smallest DEF First
    <3> QED  BY <3>1, <3>3
  <2>2. 1 \in Flow \ Absent(flow) /\ Flow \ Absent(flow) = {1} /\ Home = 1
    BY <1>1, <1>8, <2>1, TablesAssumption DEF Absent, DomainsInv, Home
  <2>3. \A c \in Conv : lead[c] \in {2, None}
    BY DEF DashboardInit
  <2>4. \A n \in Live(node) : node[n].stage \in {1, None}
    BY <1>1, <1>5 DEF Live, DomainsInv, NewNode
  <2>5. 1 \in StagesOf(1) /\ 2 \in StagesOf(1)
    BY <1>12
  <2> QED  BY <1>8, <2>1, <2>2, <2>3, <2>4, <2>5 DEF LeadsInv, Placed
<1> QED  BY <1>3, <1>4, <1>9, <1>10, <1>13, <1>14 DEF AloneInv, TablesInv

\* The tables are whole at rest.
LEMMA AloneIsWhole == StrandInv /\ AloneInv => TablesStayWhole
<1> SUFFICES ASSUME StrandInv, AloneInv, ~overlap, AtRest
             PROVE  /\ ArrowsLeadSomewhere /\ OptionsAreOfOneEdit /\ FieldsAreOfOneEdit
                    /\ AnswersHaveAColumn /\ StagesAreOrdered
  BY DEF TablesStayWhole
<1>1. FlowsInv /\ FormsInv /\ StagesInv /\ DomainsInv
  BY DEF AloneInv, TablesInv, StrandInv, RowsInv
<1>2. \A q \in Request : request[q].todo = <<>>
  BY DEF AtRest, InFlight
<1>3. ArrowsLeadSomewhere
  <2> SUFFICES ASSUME NEW f \in Live(flow)
               PROVE  /\ flow[f].start \in Arrows(f)
                      /\ \A n \in NodesOf(f) : /\ node[n].next \in Arrows(f)
                                               /\ \A o \in option[n] : o.next \in Arrows(f)
    BY DEF ArrowsLeadSomewhere, GetDetails, Arrows
  <2>1. f \in Flow
    BY <1>1 DEF Live, DomainsInv
  <2>2. \A n \in NodesOf(f) : n \in Live(node) /\ node[n].flow = f
    BY DEF NodesOf
  <2> QED  BY <1>1, <2>1, <2>2 DEF FlowsInv
<1>4. OptionsAreOfOneEdit
  BY <1>1 DEF FlowsInv, OptionsAreOfOneEdit
<1>5. FieldsAreOfOneEdit
  <2> SUFFICES ASSUME NEW m \in Live(form)
               PROVE  FieldsOf(m) \in {{}, {1, 2}} \union
                        {request[q].targets :
                           q \in {x \in Request : request[x].op = "UpdateForm" /\ request[x].m = m}}
    BY DEF FieldsAreOfOneEdit
  <2>1. FieldsOf(m) \in {{}, {1, 2}} \union EditsOf(m)
    BY <1>1 DEF FormsInv
  <2> QED  BY <2>1 DEF EditsOf
<1>6. AnswersHaveAColumn
  <2> SUFFICES ASSUME NEW m \in Live(form), NEW x \in Live(response), response[x].form = m
               PROVE  response[x].answers \intersect Live(field) \subseteq FieldsOf(m)
    BY DEF AnswersHaveAColumn, ListResponses
  <2>1. \A a \in response[x].answers : field[a].form = m
    BY <1>1 DEF FormsInv, Answers
  <2> QED  BY <2>1 DEF FieldsOf
<1>7. StagesAreOrdered
  <2>1. \A q \in Request : \A k : ~Reorders(request[q], k)
    BY <1>2 DEF Reorders, At
  <2> QED  BY <1>1, <2>1 DEF StagesAreOrdered, StagesInv, Ordered
<1> QED  BY <1>3, <1>4, <1>5, <1>6, <1>7

\* The board shows every lead.
LEMMA AloneIsShown == StrandInv /\ AloneInv => BoardShowsEveryLead
<1> SUFFICES ASSUME StrandInv, AloneInv, ~overlap, AtRest,
                    \A q \in Request : request[q].op \notin {"UpdateFlow", "FillOldLink"},
                    NEW c \in Conv, lead[c] # None, First \in Live(flow)
             PROVE  Cardinality({s \in DOMAIN Board(Home) : CardOf(c) \in Board(Home)[s]}) = 1
  BY DEF BoardShowsEveryLead, FlowOf, First, Home
<1>1. LeadsInv /\ DomainsInv /\ Quiet
  BY DEF AloneInv, TablesInv, StrandInv, RowsInv, Quiet
<1>2. \A d \in Conv : lead[d] \in StagesOf(Home) \union {None}
  BY <1>1 DEF LeadsInv, Placed
<1> DEFINE own == {d \in Conv : PhoneOf[d] = PhoneOf[c] /\ lead[d] # None}
<1>3. own \subseteq Nat /\ own # {} /\ IsFiniteSet(own)
  <2>1. Conv \subseteq Nat /\ IsFiniteSet(Conv)
    BY TablesAssumption
  <2> QED  BY <2>1, FS_Subset
<1>4. PICK m \in own : m = CardOf(c) /\ \A d \in own : m >= d
  BY <1>3, Greatest DEF CardOf
<1>5. Carded(Home) = {d \in Conv : lead[d] # None}
  BY DEF Carded, FlowOf, First, Home, Live
<1>6. m \in Cards(Home)
  <2>1. \A d \in Carded(Home) : PhoneOf[d] = PhoneOf[m] => d \in own
    BY <1>4, <1>5
  <2>2. \A d \in own : d <= m
    BY <1>3, <1>4
  <2> QED  BY <1>4, <1>5, <2>1, <2>2 DEF Cards
<1> DEFINE columns == {s \in DOMAIN Board(Home) : CardOf(c) \in Board(Home)[s]}
<1>7. columns = {lead[m]}
  <2>1. \A s : s \in columns <=> s = lead[m]
    BY <1>2, <1>4, <1>6 DEF Board
  <2> HIDE DEF columns
  <2> QED  BY <2>1
<1>8. Cardinality({lead[m]}) = 1
  BY FS_Singleton
<1> HIDE DEF columns
<1>9. Cardinality(columns) = 1
  BY <1>7, <1>8
<1> QED  BY <1>9 DEF columns

\* Requests answered one after the other, each of them cut short anywhere, keep the
\* tables whole and know what they loaded.
THEOREM AloneInvariant == DashboardSpec => []AloneInv
<1>1. StrandInv /\ AloneInv /\ [DashboardNext]_vars => AloneInv'
  BY AloneStep
<1> QED  BY StrandInvariant, AloneInit, <1>1, PTL DEF DashboardSpec

\* So at rest every arrow leads to a node of its flow, options and fields are of one edit,
\* every answer has a column and the stages of a board have a place each.
THEOREM TablesWhole == DashboardSpec => []TablesStayWhole
BY StrandInvariant, AloneInvariant, AloneIsWhole, PTL

\* And a lead with a stage has one card, in one column, of the board of its flow.
THEOREM LeadsShown == DashboardSpec => []BoardShowsEveryLead
BY StrandInvariant, AloneInvariant, AloneIsShown, PTL

-----------------------------------------------------------------------------
(* What the deletion of a stage leaves behind, whatever overlaps it *)

\* The stages that were deleted, and the statements at which a deletion has already
\* looked for the conversations on its stage.
Gone == {s \in Stage : stage[s].is = "deleted"}
Swept == {"MoveNodes", "MoveFillNodes", "FlagStage"}

\* A row that was not put on its stage too late is on none that was deleted, and is held
\* by every request that deletes it and has looked for such rows.
LeadKept(c) ==
  lead[c] # None =>
    /\ lead[c] \notin Gone
    /\ \A p \in Request : At(request[p]) \in Swept /\ request[p].s = lead[c] => c \in request[p].leads
NodeKept(n) ==
  node[n].stage # None =>
    /\ node[n].stage \notin Gone
    /\ \A p \in Request :
         At(request[p]) = "FlagStage" /\ request[p].s = node[n].stage => n \in request[p].nodes
KeptInv ==
  /\ \A c \in Conv \ lateLeads : LeadKept(c)
  /\ \A n \in Live(node) \ lateNodes : NodeKept(n)
  /\ ~overlap => lateNodes = {}

\* A step of q leaves a row where it was, or puts it where nobody has looked for it.
Clear(q, s, past) ==
  s \notin Gone' /\ \A p \in Request \ {q} : At(request[p]) \in past => request[p].s # s
LeadStays(q, c) ==
  \/ c \notin lateLeads /\ lead'[c] = lead[c] /\ (lead[c] \in Gone' => lead[c] \in Gone)
  \/ lead'[c] # None => Clear(q, lead'[c], Swept)
NodeStays(q, n) ==
  \/ /\ n \in Live(node) \ lateNodes /\ node'[n].stage = node[n].stage
     /\ node[n].stage \in Gone' => node[n].stage \in Gone
  \/ node'[n].stage # None => Clear(q, node'[n].stage, {"FlagStage"})
HoldsLeads(q) ==
  \A c \in Conv \ lateLeads' :
    lead'[c] # None /\ At(request'[q]) \in Swept /\ request'[q].s = lead'[c] =>
      c \in request'[q].leads
HoldsNodes(q) ==
  \A n \in Live(node)' \ lateNodes' :
    node'[n].stage # None /\ At(request'[q]) = "FlagStage" /\ request'[q].s = node'[n].stage =>
      n \in request'[q].nodes

\* Such a step keeps what is said of the rows.
LEMMA RowsKept ==
  ASSUME KeptInv, NEW q \in Request, OnlyOne(q), HoldsLeads(q), HoldsNodes(q),
         \A c \in Conv \ lateLeads' : LeadStays(q, c),
         \A n \in Live(node)' \ lateNodes' : NodeStays(q, n),
         ~overlap' => lateNodes' = {}
  PROVE  KeptInv'
<1>1. ASSUME NEW c \in Conv \ lateLeads', lead'[c] # None
      PROVE  /\ lead'[c] \notin Gone'
             /\ \A p \in Request :
                  At(request'[p]) \in Swept /\ request'[p].s = lead'[c] => c \in request'[p].leads
  <2>1. lead'[c] \notin Gone' /\ \A p \in Request \ {q} :
          At(request[p]) \in Swept /\ request[p].s = lead'[c] => c \in request[p].leads
    <3>1. CASE c \notin lateLeads /\ lead'[c] = lead[c] /\ (lead[c] \in Gone' => lead[c] \in Gone)
      BY <1>1, <3>1 DEF KeptInv, LeadKept
    <3>2. CASE Clear(q, lead'[c], Swept)
      BY <3>2 DEF Clear
    <3> QED  BY <1>1, <3>1, <3>2 DEF LeadStays
  <2>2. \A p \in Request \ {q} : request'[p] = request[p]
    BY DEF OnlyOne
  <2>3. ASSUME NEW p \in Request, At(request'[p]) \in Swept, request'[p].s = lead'[c]
        PROVE  c \in request'[p].leads
    <3>1. CASE p = q
      BY <1>1, <2>3, <3>1 DEF HoldsLeads
    <3>2. CASE p # q
      <4>1. PICK r : r = request'[p]
        OBVIOUS
      <4>2. request[p] = r
        BY <2>2, <3>2, <4>1
      <4> QED  BY <2>1, <2>3, <3>2, <4>1, <4>2
    <3> QED  BY <3>1, <3>2
  <2> QED  BY <2>1, <2>3
<1>2. ASSUME NEW n \in Live(node)' \ lateNodes', node'[n].stage # None
      PROVE  /\ node'[n].stage \notin Gone'
             /\ \A p \in Request : At(request'[p]) = "FlagStage" /\ request'[p].s = node'[n].stage
                                     => n \in request'[p].nodes
  <2>1. node'[n].stage \notin Gone' /\ \A p \in Request \ {q} :
          At(request[p]) = "FlagStage" /\ request[p].s = node'[n].stage => n \in request[p].nodes
    <3>1. CASE /\ n \in Live(node) \ lateNodes /\ node'[n].stage = node[n].stage
               /\ node[n].stage \in Gone' => node[n].stage \in Gone
      BY <1>2, <3>1 DEF KeptInv, NodeKept
    <3>2. CASE Clear(q, node'[n].stage, {"FlagStage"})
      BY <3>2 DEF Clear
    <3> QED  BY <1>2, <3>1, <3>2 DEF NodeStays
  <2>2. \A p \in Request \ {q} : request'[p] = request[p]
    BY DEF OnlyOne
  <2>3. ASSUME NEW p \in Request, At(request'[p]) = "FlagStage", request'[p].s = node'[n].stage
        PROVE  n \in request'[p].nodes
    <3>1. CASE p = q
      BY <1>2, <2>3, <3>1 DEF HoldsNodes
    <3>2. CASE p # q
      <4>1. PICK r : r = request'[p]
        OBVIOUS
      <4>2. request[p] = r
        BY <2>2, <3>2, <4>1
      <4> QED  BY <2>1, <2>3, <3>2, <4>1, <4>2
    <3> QED  BY <3>1, <3>2
  <2> QED  BY <2>1, <2>3
<1>3. \A r : At(r)' = At(r')
  BY DEF At
<1>4. (\A c \in Conv \ lateLeads : LeadKept(c))'
  BY <1>1, <1>3 DEF LeadKept, At
<1>5. (\A n \in Live(node) \ lateNodes : NodeKept(n))'
  BY <1>2, <1>3 DEF NodeKept, At
<1> QED  BY <1>4, <1>5 DEF KeptInv

\* So does one that moves no row and after which q has not looked.
LEMMA NothingMoves ==
  ASSUME KeptInv, NEW q \in Request, OnlyOne(q), At(request'[q]) \notin Swept,
         lead' = lead, Gone' \subseteq Gone, UNCHANGED <<lateLeads, lateNodes>>,
         \A n \in Live(node)' : n \in Live(node) /\ node'[n].stage = node[n].stage,
         overlap => overlap'
  PROVE  KeptInv'
<1>1. HoldsLeads(q) /\ HoldsNodes(q)
  BY DEF HoldsLeads, HoldsNodes, Swept
<1>2. \A c \in Conv \ lateLeads' : LeadStays(q, c)
  BY DEF LeadStays
<1>3. \A n \in Live(node)' \ lateNodes' : NodeStays(q, n)
  BY DEF NodeStays
<1>4. ~overlap' => lateNodes' = {}
  BY DEF KeptInv
<1> QED  BY <1>1, <1>2, <1>3, <1>4, RowsKept

\* A row that is not too late for a deletion is put where no other one has looked.
LEMMA InTime ==
  ASSUME NEW q \in Request, NEW s, NEW past, past \subseteq Swept, ~TooLate(q, s, past), s # None
  PROVE  /\ s \in Gone => ~overlap /\ request[q].op # "FillOldLink"
         /\ \A p \in Request \ {q} : At(request[p]) \in past => request[p].s # s
<1>1. "end" \notin past
  BY DEF Swept
<1>2. ASSUME NEW p \in Request \ {q}, At(request[p]) \in past PROVE request[p].s # s
  <2>1. p \in InFlight \ {q} /\ Head(request[p].todo) \in past
    BY <1>1, <1>2 DEF At, InFlight
  <2> QED  BY <2>1 DEF TooLate
<1>3. s \in Gone => ~overlap /\ request[q].op # "FillOldLink"
  BY DEF Gone, TooLate
<1> QED  BY <1>2, <1>3

\* A request that is alone is not too late.
LEMMA AloneIsInTime ==
  ASSUME AloneInv, ~overlap, NEW q \in InFlight, request[q].op # "FillOldLink", NEW s, NEW past
  PROVE  ~TooLate(q, s, past)
BY DEF AloneInv, Alone, TooLate

\* The statements that move rows are those of a deletion.
LEMMA OnlyDeletionSweeps ==
  ASSUME NEW N, RequestInv(N), At(N) \in Moving
  PROVE  N.op = "DeleteStage"
<1> DEFINE t == N.todo
<1>1. t # <<>> /\ Head(t) \in Moving
  BY DEF At, Moving
<1>2. /\ t \in Seq(Statement)
      /\ \A i \in 1 .. Len(t) : Follows(N.op, t[i], IF i = Len(t) THEN "end" ELSE t[i + 1])
  BY DEF RequestInv, Chained, Left
<1> HIDE DEF t
<1>3. Len(t) \in Nat /\ Len(t) > 0 /\ Head(t) = t[1] /\ 1 \in 1 .. Len(t)
  BY <1>1, <1>2
<1>4. \E y : Follows(N.op, Head(t), y)
  BY <1>2, <1>3
<1> QED  BY <1>1, <1>4, OpsOf DEF Moving

\* No other request has looked after a statement, and a deletion only after those that look.
LEMMA StatementSweepsNot ==
  ASSUME StrandInv, NEW q \in Request,
         \/ FlowStatement(q) \/ FormStatement(q)
         \/ KanbanStatement(q) /\ ~MoveLeads(q) /\ ~MoveNodes(q) /\ ~MoveFillNodes(q)
  PROVE  OnlyOne(q) /\ At(request'[q]) \notin Swept
<1>0. PICK r, N : r = request[q] /\ N = request'[q]
  OBVIOUS
<1>1. Named(q) /\ RequestInv(N)
  BY <1>0, FlowStatementOps, FormStatementOps, KanbanStatementOps, FlowStatementRequests,
     FormStatementRequests, KanbanStatementRequests DEF RequestsInv
<1>2. At(N) \in Swept => N.op = "DeleteStage" /\ r.op = "DeleteStage"
  <2>1. At(N) \in Swept => N.op = "DeleteStage"
    BY <1>1, OnlyDeletionSweeps DEF Swept, Moving
  <2> QED  BY <1>0, <1>1, <2>1 DEF Named
<1>3. CASE FlowStatement(q) \/ FormStatement(q)
  BY <1>0, <1>1, <1>2, <1>3, FlowStatementOps, FormStatementOps
  DEF Named, FlowOps, FormOps, FillOps, EditOps
<1>4. CASE /\ KanbanStatement(q) /\ ~MoveLeads(q) /\ ~MoveNodes(q) /\ ~MoveFillNodes(q)
           /\ At(N) \in Swept
  <2>1. Shaped(r)
    BY <1>0 DEF StrandInv, RequestsInv, RequestInv
  <2>2. \E x, M : /\ Does(q, x) /\ Continue(q, M) /\ Alike(r, M)
                  /\ x \notin {"MoveLeads", "MoveNodes", "MoveFillNodes"}
    <3> DEFINE P(x, M) == Does(q, x) /\ Continue(q, M) /\ Alike(r, M)
    <3>1. ~Refuse(q)
      <4>1. "end" \notin Swept
        BY DEF Swept
      <4> QED  BY <1>0, <1>4, <4>1, RefusedEnds
    <3>2. CASE LoadKanban(q)
      <4>1. P("LoadKanban", [r EXCEPT !.row = kanban[r.k]])
        BY <1>0, <2>1, <3>1, <3>2 DEF LoadKanban, Load, Alike, Shaped, Columns
      <4> QED  BY <4>1
    <3>3. CASE LoadStage(q)
      <4>1. P("LoadStage", [r EXCEPT !.row = stage[r.s]])
        BY <1>0, <2>1, <3>1, <3>3 DEF LoadStage, Alike, Shaped, Columns
      <4> QED  BY <4>1
    <3>4. CASE ReadUsage(q)
      <4>1. P("ReadUsage", [r EXCEPT !.used = Used(r.s)])
        BY <1>0, <2>1, <3>1, <3>4 DEF ReadUsage, Alike, Shaped, Columns
      <4> QED  BY <4>1
    <3>5. CASE LoadTarget(q) \/ FlagStage(q)
      <4>1. P("LoadTarget", r) \/ P("FlagStage", r)
        BY <1>0, <2>1, <3>1, <3>5 DEF LoadTarget, FlagStage, Alike
      <4> QED  BY <4>1
    <3>6. CASE \/ SaveKanban(q) \/ CreateKanbanRow(q) \/ CreateStageRow(q) \/ ReadMaxOrder(q)
               \/ SaveStage(q) \/ ListStages(q) \/ SaveOrder(q) \/ SaveLead(q)
      <4>1. PICK x \in {"SaveKanban", "CreateKanbanRow", "CreateStageRow", "ReadMaxOrder",
                        "SaveStage", "ListStages", "SaveOrder", "SaveLead"} : Does(q, x)
        BY <3>6 DEF SaveKanban, CreateKanbanRow, CreateStageRow, ReadMaxOrder, SaveStage, ListStages,
                    SaveOrder, SaveLead
      <4>2. \E y : Follows(r.op, x, y)
        BY <1>0, <4>1, OpOf DEF StrandInv
      <4>3. r.op # "DeleteStage"
        BY <4>1, <4>2, OpsOf DEF FillOps
      <4> QED  BY <1>2, <1>4, <4>3
    <3> QED  BY <1>4, <3>2, <3>3, <3>4, <3>5, <3>6 DEF KanbanStatement
  <2>3. PICK x, M : /\ Does(q, x) /\ Continue(q, M) /\ Alike(r, M)
                    /\ x \notin {"MoveLeads", "MoveNodes", "MoveFillNodes"}
    BY <2>2
  <2>4. Follows(r.op, x, At(N))
    BY <1>0, <2>3, GoesTo DEF Went
  <2>5. At(N) \notin Swept
    BY <1>2, <1>4, <2>3, <2>4, BoardOrder DEF Swept
  <2> QED  BY <1>4, <2>5
<1> QED  BY <1>0, <1>1, <1>3, <1>4 DEF Named

\* The stages as they are after a statement that deletes none.
LEMMA NoneGoes ==
  ASSUME StrandInv, NEW q \in Request,
         FlowStatement(q) \/ FormStatement(q) \/ (KanbanStatement(q) /\ ~FlagStage(q))
  PROVE  Gone' \subseteq Gone
<1>1. CASE FlowStatement(q) \/ FormStatement(q)
  BY <1>1, FlowStatementRows, FormStatementRows DEF Gone
<1>2. CASE KanbanStatement(q) /\ ~FlagStage(q)
  <2>1. \A s \in Stage : stage'[s].is = "deleted" => stage[s].is = "deleted"
    BY <1>2, KanbanStatementRows
  <2> QED  BY <2>1 DEF Gone
<1> QED  BY <1>1, <1>2

\* The statements that put no row on a stage.
LEMMA OthersKeep ==
  ASSUME StrandInv, KeptInv, NEW q \in Request,
         \/ FlowStatement(q) /\ ~CreateNodeRow(q) /\ ~SaveNode(q) /\ ~CopyFlow(q)
         \/ FormStatement(q)
         \/ /\ KanbanStatement(q) /\ ~MoveLeads(q) /\ ~MoveNodes(q) /\ ~MoveFillNodes(q)
            /\ ~FlagStage(q) /\ ~SaveLead(q)
  PROVE  KeptInv'
<1>1. OnlyOne(q) /\ At(request'[q]) \notin Swept /\ Gone' \subseteq Gone
  BY StatementSweepsNot, NoneGoes
<1>2. DomainsInv /\ \A n \in Node : NodeRow(node[n])
  BY DEF StrandInv, RowsInv
<1>3. /\ lead' = lead /\ UNCHANGED history
      /\ \/ node' = node
         \/ ClearNodeArrows(q)
  <2>1. CASE FlowStatement(q) /\ ~CreateNodeRow(q) /\ ~SaveNode(q) /\ ~CopyFlow(q)
    BY <2>1 DEF FlowStatement, tables, LoadFlow, SaveFlow, NoFlowYet, CreateFlowRow, LoadNode,
       DropOptions, AddOptions, ClearNodeArrows, ClearOptionArrows, ForgetStart, ReadSource, CopyRefused
  <2>2. CASE FormStatement(q)
    BY <2>2 DEF FormStatement, tables, LoadForm, Load, SaveForm, FlagForm, CreateFormRow, LockDropped,
       UpsertFields, SaveResponse, FlagResponse, FindByLeadPhone
  <2>3. CASE /\ KanbanStatement(q) /\ ~MoveLeads(q) /\ ~MoveNodes(q) /\ ~MoveFillNodes(q)
             /\ ~FlagStage(q) /\ ~SaveLead(q)
    BY <2>3 DEF KanbanStatement, tables, LoadKanban, Load, SaveKanban, CreateKanbanRow,
       CreateStageRow, ReadMaxOrder, LoadStage, SaveStage, ListStages, SaveOrder, ReadUsage, LoadTarget
  <2> QED  BY <2>1, <2>2, <2>3
<1>4. \A n \in Live(node)' : n \in Live(node) /\ node'[n].stage = node[n].stage
  <2>1. CASE node' = node
    BY <2>1 DEF Live
  <2>2. CASE ClearNodeArrows(q)
    <3>1. node' = [x \in Node |-> IF node[x].next = request[q].n THEN [node[x] EXCEPT !.next = None]
                                  ELSE node[x]]
      BY <2>2 DEF ClearNodeArrows
    <3>2. \A x \in Node : node'[x].is = node[x].is /\ node'[x].stage = node[x].stage
      BY <1>2, <3>1 DEF NodeRow, NodeColumns
    <3>3. DOMAIN node' = Node /\ DOMAIN node = Node
      BY <1>2, <3>1 DEF DomainsInv
    <3> QED  BY <3>2, <3>3 DEF Live
  <2> QED  BY <1>3, <2>1, <2>2
<1> QED  BY <1>1, <1>3, <1>4, NothingMoves DEF history

\* A deletion that looks for rows holds those it finds.
LEMMA MovesKeep ==
  ASSUME StrandInv, KeptInv, NEW q \in Request, MoveLeads(q) \/ MoveNodes(q) \/ MoveFillNodes(q)
  PROVE  KeptInv'
<1>0. PICK r, N : r = request[q] /\ N = request'[q]
  OBVIOUS
<1>1. PICK x, M : /\ Does(q, x) /\ Continue(q, M) /\ Alike(r, M) /\ M.s = r.s
                  /\ \/ x = "MoveLeads" /\ M.leads = {c \in Conv : lead[c] = r.s}
                     \/ x = "MoveNodes" /\ M.leads = r.leads
                     \/ /\ x = "MoveFillNodes" /\ M.leads = r.leads
                        /\ M.nodes = NodesOn(r.s)
  BY <1>0, MovesAlike DEF StrandInv
<1>2. UNCHANGED tables /\ UNCHANGED history
  BY DEF MoveLeads, MoveNodes, MoveFillNodes
<1>3. OnlyOne(q) /\ Went(r, x, M, N)
  BY <1>0, <1>1, GoesTo, Continued DEF StrandInv
<1>4. r.op = "DeleteStage" /\ At(r) = x
  BY <1>1, <1>3, OpsOf DEF Went
<1>5. /\ x = "MoveLeads" => At(N) = "MoveNodes"
      /\ x = "MoveNodes" => At(N) = "MoveFillNodes"
      /\ x = "MoveFillNodes" => At(N) = "FlagStage"
  BY <1>3, <1>4, BoardOrder DEF Went
<1>6. At(N) # "end" /\ N.s = r.s /\ N.leads = M.leads /\ N.nodes = M.nodes
  BY <1>1, <1>3, <1>5 DEF Went
<1>7. /\ lead' = lead /\ node' = node /\ stage' = stage
      /\ lateLeads' = lateLeads /\ lateNodes' = lateNodes /\ overlap' = overlap
  BY <1>2 DEF tables, history
<1>8. Live(node)' = Live(node) /\ Gone' = Gone /\ DOMAIN node = Node
  BY <1>7 DEF Live, Gone, StrandInv, RowsInv, DomainsInv
<1>9. \A c \in Conv \ lateLeads' : LeadStays(q, c)
  BY <1>7, <1>8 DEF LeadStays
<1>10. \A n \in Live(node)' \ lateNodes' : NodeStays(q, n)
  BY <1>7, <1>8 DEF NodeStays
<1>11. HoldsLeads(q)
  <2> SUFFICES ASSUME NEW c \in Conv \ lateLeads, lead[c] # None, r.s = lead[c]
               PROVE  c \in N.leads
    BY <1>0, <1>6, <1>7 DEF HoldsLeads
  <2>1. CASE x = "MoveLeads"
    BY <1>1, <1>6, <2>1
  <2>2. CASE x # "MoveLeads"
    <3>1. At(r) \in Swept /\ N.leads = r.leads
      BY <1>1, <1>4, <1>6, <2>2 DEF Swept
    <3> QED  BY <1>0, <3>1 DEF KeptInv, LeadKept
  <2> QED  BY <2>1, <2>2
<1>12. HoldsNodes(q)
  BY <1>0, <1>1, <1>5, <1>6, <1>7, <1>8 DEF HoldsNodes, NodesOn, Live
<1> QED  BY <1>3, <1>7, <1>9, <1>10, <1>11, <1>12, RowsKept DEF KeptInv

\* A new node is on no stage that a deletion has looked at.
LEMMA CreateNodeKeeps ==
  ASSUME StrandInv, AloneInv, KeptInv, NEW q \in Request, CreateNodeRow(q)
  PROVE  KeptInv'
<1>0. PICK r, m : r = request[q] /\ m = Fresh(node)
  OBVIOUS
<1>1. /\ Does(q, "CreateNodeRow") /\ node' = [node EXCEPT ![m] = NewNode(r.f, r.to, r.s)]
      /\ Absent(node) # {}
      /\ lateNodes' = IF LateNode(q, r.s) THEN lateNodes \union {m} ELSE lateNodes
      /\ lead' = lead /\ stage' = stage /\ overlap' = overlap /\ lateLeads' = lateLeads
  BY <1>0 DEF CreateNodeRow
<1>2. OnlyOne(q) /\ At(request'[q]) \notin Swept
  BY StatementSweepsNot DEF FlowStatement
<1>3. DomainsInv /\ Gone' = Gone
  BY <1>1 DEF StrandInv, RowsInv, Gone
<1>4. m \in Node /\ node[m].is = "absent"
  BY <1>0, <1>1, <1>3, FreshRow, TablesAssumption DEF DomainsInv
<1>5. DOMAIN node' = Node /\ \A n \in Node : n # m => node'[n] = node[n]
  BY <1>1, <1>3 DEF DomainsInv
<1>6. node'[m].stage = r.s
  BY <1>1, <1>3, <1>4, RowsWritten DEF DomainsInv
<1>7. ~overlap => r.s = None
  <2>1. ASSUME ~overlap PROVE FlowKnows(r)
    BY <1>0, <2>1 DEF AloneInv, KnowsAlone
  <2>2. At(r) = "CreateNodeRow" /\ r.op = "CreateNode"
    <3>1. At(r) = "CreateNodeRow" /\ \E y : Follows(r.op, "CreateNodeRow", y)
      BY <1>0, <1>1, OpOf DEF StrandInv
    <3> QED  BY <3>1, OpsOf
  <2> QED  BY <2>1, <2>2 DEF FlowKnows, KnowsNewNode
<1>8. ~LateNode(q, r.s) => r.s = None \/ Clear(q, r.s, {"FlagStage"})
  <2>1. ASSUME ~LateNode(q, r.s), r.s # None PROVE Clear(q, r.s, {"FlagStage"})
    <3> DEFINE past == {"MoveFillNodes", "FlagStage"}
    <3>1. past \subseteq Swept /\ ~TooLate(q, r.s, past)
      BY <2>1 DEF LateNode, Swept
    <3> HIDE DEF past
    <3>2. /\ r.s \in Gone => ~overlap
          /\ \A p \in Request \ {q} : At(request[p]) \in past => request[p].s # r.s
      BY <2>1, <3>1, InTime
    <3> QED  BY <1>3, <1>7, <2>1, <3>2 DEF Clear, past
  <2> QED  BY <2>1
<1>9. \A n \in Live(node)' \ lateNodes' : NodeStays(q, n)
  <2> SUFFICES ASSUME NEW n \in Live(node)' \ lateNodes' PROVE NodeStays(q, n)
    OBVIOUS
  <2>1. n \in Node /\ node'[n].is = "live"
    BY <1>5 DEF Live
  <2>2. CASE n = m
    BY <1>1, <1>6, <1>8, <2>2 DEF NodeStays
  <2>3. CASE n # m
    <3>1. node'[n] = node[n] /\ n \in Live(node)
      BY <1>3, <1>5, <2>1, <2>3 DEF Live, DomainsInv
    <3>2. n \notin lateNodes
      BY <1>1
    <3> QED  BY <1>3, <3>1, <3>2 DEF NodeStays
  <2> QED  BY <2>2, <2>3
<1>10. \A c \in Conv \ lateLeads' : LeadStays(q, c)
  BY <1>1, <1>3 DEF LeadStays
<1>11. HoldsLeads(q) /\ HoldsNodes(q)
  BY <1>2 DEF HoldsLeads, HoldsNodes, Swept
<1>12. ~overlap' => lateNodes' = {}
  <2>1. ~LateNode(q, None)
    BY DEF LateNode, TooLate
  <2> QED  BY <1>1, <1>7, <2>1 DEF KeptInv
<1> QED  BY <1>2, <1>9, <1>10, <1>11, <1>12, RowsKept

\* A node that is written back is on no stage that a deletion has looked at, unless it is
\* late for it; a request that is alone writes the stage its node has, or one of its board.
LEMMA SaveNodeKeeps ==
  ASSUME StrandInv, AloneInv, KeptInv, NEW q \in Request, SaveNode(q)
  PROVE  KeptInv'
<1>0. PICK r, row : r = request[q] /\ row = Over(r.set, r.row)
  OBVIOUS
<1>1. /\ Does(q, "SaveNode") /\ node' = [node EXCEPT ![r.n] = row]
      /\ lateNodes' = IF LateNode(q, row.stage) THEN lateNodes \union {r.n} ELSE lateNodes \ {r.n}
      /\ lead' = lead /\ stage' = stage /\ overlap' = overlap /\ lateLeads' = lateLeads
  BY <1>0 DEF SaveNode
<1>2. OnlyOne(q) /\ At(request'[q]) \notin Swept
  BY StatementSweepsNot DEF FlowStatement
<1>3. DomainsInv /\ Gone' = Gone /\ \A n \in Node : NodeRow(node[n])
  BY <1>1 DEF StrandInv, RowsInv, Gone
<1>4. At(r) = "SaveNode" /\ r.op \in {"UpdateNode", "DeleteNode"} /\ r.n \in Node /\ q \in InFlight
  <2>1. At(r) = "SaveNode" /\ Knows(r) /\ \E y : Follows(r.op, "SaveNode", y)
    BY <1>0, <1>1, OpOf DEF StrandInv
  <2>2. r.op \in {"UpdateNode", "DeleteNode"}
    BY <2>1, OpsOf
  <2> QED  BY <1>1, <2>1, <2>2 DEF Knows, KnowsNode, Does
<1>5. DOMAIN node' = Node /\ node'[r.n] = row /\ \A n \in Node : n # r.n => node'[n] = node[n]
  BY <1>1, <1>3, <1>4 DEF DomainsInv
<1>6. ASSUME ~overlap, row.is = "live" PROVE row.stage = None \/ row.stage \notin Gone
  <2>1. FlowKnows(r) /\ LeadKnows(r) /\ lateNodes = {}
    BY <1>0, <1>6 DEF AloneInv, KnowsAlone, KeptInv
  <2>2. CASE r.op = "DeleteNode"
    <3>1. r.set = [is |-> "deleted"]
      BY <1>4, <2>1, <2>2 DEF FlowKnows, KnowsDoomed
    <3>2. row.is = "deleted"
      BY <1>0, <3>1 DEF Over
    <3> QED  BY <1>6, <3>2
  <2>3. CASE r.op = "UpdateNode"
    <3>1. /\ r.n \in Live(node) /\ r.row = node[r.n]
          /\ "stage" \in DOMAIN r.set => r.set.stage \in StageChoices(node[r.n].flow)
      BY <1>4, <2>1, <2>3 DEF FlowKnows, KnowsEdited, LeadKnows
    <3>2. row.stage = IF "stage" \in DOMAIN r.set THEN r.set.stage ELSE node[r.n].stage
      <4>1. DOMAIN node[r.n] = NodeColumns
        BY <1>3, <1>4 DEF NodeRow
      <4> QED  BY <1>0, <3>1, <4>1 DEF Over, NodeColumns
    <3>3. node[r.n].stage = None \/ node[r.n].stage \notin Gone
      BY <2>1, <3>1 DEF KeptInv, NodeKept
    <3>4. \A f : \A s \in StageChoices(f) : s = None \/ s \notin Gone
      BY DEF StageChoices, StagesOf, Live, Gone
    <3> QED  BY <3>1, <3>2, <3>3, <3>4
  <2> QED  BY <1>4, <2>2, <2>3
<1>7. ~LateNode(q, row.stage) /\ row.is = "live" =>
        row.stage = None \/ Clear(q, row.stage, {"FlagStage"})
  <2>1. ASSUME ~LateNode(q, row.stage), row.stage # None, row.is = "live"
        PROVE  Clear(q, row.stage, {"FlagStage"})
    <3> DEFINE past == {"MoveFillNodes", "FlagStage"}
    <3>1. past \subseteq Swept /\ ~TooLate(q, row.stage, past)
      BY <2>1 DEF LateNode, Swept
    <3> HIDE DEF past
    <3>2. /\ row.stage \in Gone => ~overlap
          /\ \A p \in Request \ {q} : At(request[p]) \in past => request[p].s # row.stage
      BY <2>1, <3>1, InTime
    <3> QED  BY <1>3, <1>6, <2>1, <3>2 DEF Clear, past
  <2> QED  BY <2>1
<1>8. \A n \in Live(node)' \ lateNodes' : NodeStays(q, n)
  <2> SUFFICES ASSUME NEW n \in Live(node)' \ lateNodes' PROVE NodeStays(q, n)
    OBVIOUS
  <2>1. n \in Node /\ node'[n].is = "live"
    BY <1>5 DEF Live
  <2>2. CASE n = r.n
    BY <1>1, <1>5, <1>7, <2>1, <2>2 DEF NodeStays
  <2>3. CASE n # r.n
    <3>1. node'[n] = node[n] /\ n \in Live(node)
      BY <1>3, <1>5, <2>1, <2>3 DEF Live, DomainsInv
    <3>2. n \notin lateNodes
      BY <1>1, <2>3
    <3> QED  BY <1>3, <3>1, <3>2 DEF NodeStays
  <2> QED  BY <2>2, <2>3
<1>9. \A c \in Conv \ lateLeads' : LeadStays(q, c)
  BY <1>1, <1>3 DEF LeadStays
<1>10. HoldsLeads(q) /\ HoldsNodes(q)
  BY <1>2 DEF HoldsLeads, HoldsNodes, Swept
<1>11. ~overlap' => lateNodes' = {}
  <2>1. ASSUME ~overlap PROVE ~LateNode(q, row.stage)
    BY <1>0, <1>4, <2>1, AloneIsInTime DEF LateNode
  <2> QED  BY <1>1, <2>1 DEF KeptInv
<1> QED  BY <1>2, <1>8, <1>9, <1>10, <1>11, RowsKept

\* The copies that are not late for a deletion.
LEMMA CopyIsLate ==
  ASSUME StrandInv, NEW q \in Request, CopyFlow(q)
  PROVE  /\ \A x \in Node \ lateNodes' :
              /\ x \notin lateNodes
              /\ \/ node'[x] = node[x]
                 \/ \E n \in DOMAIN request[q].row :
                      /\ node'[x].stage = request[q].row[n].stage
                      /\ ~LateNode(q, request[q].row[n].stage)
         /\ (\A s : ~LateNode(q, s)) => lateNodes' = lateNodes
         /\ DOMAIN node' = Node
<1> DEFINE r == request[q]
           rows == r.row
           D == DOMAIN rows
           Copies == {m \in [D -> Absent(node)] : \A a, b \in D : a < b => m[a] < m[b]}
           copy == CHOOSE m \in Copies : TRUE
           Of(x) == CHOOSE n \in D : copy[n] = x
           New == {copy[n] : n \in D}
           new == Fresh(flow)
           made(n) == NewNode(new, Remapped(copy, rows[n].next), rows[n].stage)
           late == {x \in New : LateNode(q, rows[Of(x)].stage)}
<1>1. node' = [x \in Node |-> IF x \in New THEN made(Of(x)) ELSE node[x]]
  BY DEF CopyFlow
<1>2. lateNodes' = lateNodes \union late
  BY DEF CopyFlow
<1> HIDE DEF copy, Copies, r
<1>3. \A n \in D : Of(copy[n]) \in D
  OBVIOUS
<1> HIDE DEF Of
<1>4. \A n \in D : made(n).stage = rows[n].stage
  BY RowsWritten
<1> HIDE DEF made, new
<1>5. \A x \in New : Of(x) \in D
  BY <1>3
<1>6. ASSUME NEW x \in Node \ lateNodes'
      PROVE  /\ x \notin lateNodes
             /\ node'[x] = node[x] \/ \E n \in D : node'[x].stage = rows[n].stage
                                                   /\ ~LateNode(q, rows[n].stage)
  <2>1. CASE x \in New
    <3>1. node'[x] = made(Of(x)) /\ Of(x) \in D /\ ~LateNode(q, rows[Of(x)].stage)
      BY <1>1, <1>2, <1>5, <1>6, <2>1
    <3> QED  BY <1>2, <1>4, <1>6, <3>1
  <2>2. CASE x \notin New
    BY <1>1, <1>2, <1>6, <2>2
  <2> QED  BY <2>1, <2>2
<1>7. (\A s : ~LateNode(q, s)) => lateNodes' = lateNodes
  BY <1>2
<1>8. DOMAIN node' = Node
  BY <1>1
<1> QED  BY <1>6, <1>7, <1>8 DEF r

\* A copy is on no stage that a deletion has looked at, unless it is late for it.
LEMMA CopyFlowKeeps ==
  ASSUME StrandInv, AloneInv, KeptInv, NEW q \in Request, CopyFlow(q)
  PROVE  KeptInv'
<1>0. PICK r : r = request[q]
  OBVIOUS
<1>1. /\ Does(q, "CopyFlow") /\ lead' = lead /\ stage' = stage
      /\ overlap' = overlap /\ lateLeads' = lateLeads
  BY DEF CopyFlow
<1>2. OnlyOne(q) /\ At(request'[q]) \notin Swept
  BY StatementSweepsNot DEF FlowStatement
<1>3. DomainsInv /\ Gone' = Gone /\ \A n \in Node : NodeRow(node[n])
  BY <1>1 DEF StrandInv, RowsInv, Gone
<1>4. At(r) = "CopyFlow" /\ r.op = "DuplicateFlow" /\ q \in InFlight
  <2>1. At(r) = "CopyFlow" /\ \E y : Follows(r.op, "CopyFlow", y)
    BY <1>0, <1>1, OpOf DEF StrandInv
  <2> QED  BY <1>1, <2>1, OpsOf DEF Does
<1>5. ASSUME ~overlap
      PROVE  \A n \in DOMAIN r.row : r.row[n].stage = None \/ r.row[n].stage \notin Gone
  <2>1. KnowsSource(r, "CopyFlow") /\ lateNodes = {}
    BY <1>0, <1>4, <1>5 DEF AloneInv, KnowsAlone, KeptInv, FlowKnows
  <2>2. r.row = [n \in NodesOf(r.f) |-> Over(node[n], [options |-> option[n]])]
    BY <2>1 DEF KnowsSource
  <2>3. \A n \in NodesOf(r.f) : n \in Node /\ n \in Live(node) /\ DOMAIN node[n] = NodeColumns
    BY <1>3 DEF NodesOf, Live, DomainsInv, NodeRow
  <2>4. \A n \in NodesOf(r.f) : Over(node[n], [options |-> option[n]]).stage = node[n].stage
    BY <2>3 DEF Over, NodeColumns
  <2>5. \A n \in NodesOf(r.f) : node[n].stage = None \/ node[n].stage \notin Gone
    BY <2>1, <2>3 DEF KeptInv, NodeKept
  <2> QED  BY <2>2, <2>4, <2>5
<1>6. ASSUME NEW n \in DOMAIN r.row, ~LateNode(q, r.row[n].stage), r.row[n].stage # None
      PROVE  Clear(q, r.row[n].stage, {"FlagStage"})
  <2> DEFINE past == {"MoveFillNodes", "FlagStage"}
  <2>0. PICK s : s = r.row[n].stage
    OBVIOUS
  <2>1. past \subseteq Swept /\ ~TooLate(q, s, past)
    BY <1>6, <2>0 DEF LateNode, Swept
  <2> HIDE DEF past
  <2>2. /\ s \in Gone => ~overlap
        /\ \A p \in Request \ {q} : At(request[p]) \in past => request[p].s # s
    BY <1>6, <2>0, <2>1, InTime
  <2> QED  BY <1>3, <1>5, <1>6, <2>0, <2>2 DEF Clear, past
<1>7. \A n \in Live(node)' \ lateNodes' : NodeStays(q, n)
  <2> SUFFICES ASSUME NEW n \in Live(node)' \ lateNodes' PROVE NodeStays(q, n)
    OBVIOUS
  <2>1. n \in Node /\ node'[n].is = "live"
    BY CopyIsLate DEF Live
  <2>2. /\ n \notin lateNodes
        /\ node'[n] = node[n] \/ \E m \in DOMAIN r.row : /\ node'[n].stage = r.row[m].stage
                                                         /\ ~LateNode(q, r.row[m].stage)
    BY <1>0, <2>1, CopyIsLate
  <2>3. CASE node'[n] = node[n]
    BY <1>3, <2>1, <2>2, <2>3 DEF NodeStays, Live, DomainsInv
  <2>4. CASE node'[n] # node[n]
    BY <1>6, <2>2, <2>4 DEF NodeStays
  <2> QED  BY <2>3, <2>4
<1>8. \A c \in Conv \ lateLeads' : LeadStays(q, c)
  BY <1>1, <1>3 DEF LeadStays
<1>9. HoldsLeads(q) /\ HoldsNodes(q)
  BY <1>2 DEF HoldsLeads, HoldsNodes, Swept
<1>10. ~overlap' => lateNodes' = {}
  <2>1. ASSUME ~overlap PROVE \A s : ~LateNode(q, s)
    BY <1>0, <1>4, <2>1, AloneIsInTime DEF LateNode
  <2> QED  BY <1>1, <2>1, CopyIsLate DEF KeptInv
<1> QED  BY <1>2, <1>7, <1>8, <1>9, <1>10, RowsKept

\* A lead comes to a stage that no deletion has looked at, unless it is late for it; the
\* stages that a request alone brings leads to are those of a board or of a node.
LEMMA SaveLeadKeeps ==
  ASSUME StrandInv, AloneInv, KeptInv, NEW q \in Request, SaveLead(q)
  PROVE  KeptInv'
<1>0. PICK r : r = request[q]
  OBVIOUS
<1>1. /\ Does(q, "SaveLead")
      /\ node' = node /\ stage' = stage /\ overlap' = overlap /\ lateNodes' = lateNodes
      /\ lead' = IF r.s = None THEN lead ELSE [lead EXCEPT ![r.c] = r.s]
      /\ lateLeads' = IF r.s = None THEN lateLeads
                      ELSE IF LateLead(q, r.s) THEN lateLeads \union {r.c} ELSE lateLeads \ {r.c}
  BY <1>0 DEF SaveLead
<1>2. OnlyOne(q) /\ At(request'[q]) \notin Swept
  <2>1. KanbanStatement(q) /\ ~MoveLeads(q) /\ ~MoveNodes(q) /\ ~MoveFillNodes(q)
    BY <1>1 DEF KanbanStatement, MoveLeads, MoveNodes, MoveFillNodes, Does
  <2> QED  BY <2>1, StatementSweepsNot
<1>3. DomainsInv /\ Gone' = Gone /\ Live(node)' = Live(node)
  BY <1>1 DEF StrandInv, RowsInv, Gone, Live
<1>4. At(r) = "SaveLead" /\ r.op \in FillOps \union {"MoveLead", "LeadReachesNode"}
  <2>1. At(r) = "SaveLead" /\ \E y : Follows(r.op, "SaveLead", y)
    BY <1>0, <1>1, OpOf DEF StrandInv
  <2> QED  BY <2>1, OpsOf
<1>5. ASSUME ~overlap, r.op # "FillOldLink", r.s # None PROVE r.s \notin Gone
  <2>1. LeadKnows(r) /\ lateNodes = {}
    BY <1>0, <1>5 DEF AloneInv, KnowsAlone, KeptInv
  <2>2. CASE r.op = "MoveLead"
    <3>1. r.s \in StagesOf(Home)
      BY <1>4, <2>1, <2>2 DEF LeadKnows
    <3> QED  BY <3>1 DEF StagesOf, Live, Gone
  <2>3. CASE r.op # "MoveLead"
    <3>1. OnNode(r.s)
      BY <1>4, <1>5, <2>1, <2>3 DEF LeadKnows, FillOps
    <3> QED  BY <1>5, <2>1, <3>1 DEF OnNode, KeptInv, NodeKept
  <2> QED  BY <2>2, <2>3
<1>6. ~LateLead(q, r.s) /\ r.s # None => Clear(q, r.s, Swept)
  <2>1. ASSUME ~LateLead(q, r.s), r.s # None PROVE Clear(q, r.s, Swept)
    <3>1. ~TooLate(q, r.s, Swept)
      BY <2>1 DEF LateLead, Swept
    <3>2. /\ r.s \in Gone => ~overlap /\ r.op # "FillOldLink"
          /\ \A p \in Request \ {q} : At(request[p]) \in Swept => request[p].s # r.s
      BY <1>0, <2>1, <3>1, InTime
    <3> QED  BY <1>3, <1>5, <2>1, <3>2 DEF Clear
  <2> QED  BY <2>1
<1>7. \A c \in Conv \ lateLeads' : LeadStays(q, c)
  <2> SUFFICES ASSUME NEW c \in Conv \ lateLeads' PROVE LeadStays(q, c)
    OBVIOUS
  <2>1. CASE r.s = None \/ c # r.c
    <3>1. c \notin lateLeads /\ lead'[c] = lead[c]
      BY <1>1, <1>3, <2>1 DEF DomainsInv
    <3> QED  BY <1>3, <3>1 DEF LeadStays
  <2>2. CASE r.s # None /\ c = r.c
    <3>1. ~LateLead(q, r.s) /\ lead'[c] = r.s
      BY <1>1, <1>3, <2>2 DEF DomainsInv
    <3> QED  BY <1>6, <2>2, <3>1 DEF LeadStays
  <2> QED  BY <2>1, <2>2
<1>8. \A n \in Live(node)' \ lateNodes' : NodeStays(q, n)
  BY <1>1, <1>3 DEF NodeStays
<1>9. HoldsLeads(q) /\ HoldsNodes(q)
  BY <1>2 DEF HoldsLeads, HoldsNodes, Swept
<1> QED  BY <1>1, <1>2, <1>7, <1>8, <1>9, RowsKept DEF KeptInv

\* The rows a deletion holds go to its target, and no other row that came in time is on
\* the stage it flags.
LEMMA FlagStageKeeps ==
  ASSUME StrandInv, AloneInv, KeptInv, NEW q \in Request, FlagStage(q)
  PROVE  KeptInv'
<1>0. PICK r, target : r = request[q] /\ target = IF r.used THEN r.to ELSE None
  OBVIOUS
<1>1. /\ Does(q, "FlagStage") /\ overlap' = overlap
      /\ lead' = [c \in Conv |-> IF c \in r.leads THEN target ELSE lead[c]]
      /\ node' = [n \in Node |-> IF n \in r.nodes THEN [node[n] EXCEPT !.stage = target] ELSE node[n]]
      /\ stage' = [stage EXCEPT ![r.s].is = "deleted"]
      /\ lateLeads' = IF LateLead(q, target) THEN lateLeads \union r.leads ELSE lateLeads \ r.leads
      /\ lateNodes' = IF LateNode(q, target) THEN lateNodes \union r.nodes ELSE lateNodes \ r.nodes
  BY <1>0 DEF FlagStage
<1>2. OnlyOne(q) /\ At(request'[q]) \notin Swept
  <2>1. KanbanStatement(q) /\ ~MoveLeads(q) /\ ~MoveNodes(q) /\ ~MoveFillNodes(q)
    BY <1>1 DEF KanbanStatement, MoveLeads, MoveNodes, MoveFillNodes, Does
  <2> QED  BY <2>1, StatementSweepsNot
<1>3. DomainsInv /\ (\A n \in Node : NodeRow(node[n])) /\ \A s \in Stage : StageRow(stage[s])
  BY DEF StrandInv, RowsInv
<1>4. Gone' \subseteq Gone \union {r.s}
  BY <1>1, <1>3 DEF Gone, DomainsInv
<1>5. At(r) = "FlagStage" /\ r.op = "DeleteStage" /\ Knows(r) /\ q \in InFlight
  <2>1. At(r) = "FlagStage" /\ Knows(r) /\ \E y : Follows(r.op, "FlagStage", y)
    BY <1>0, <1>1, OpOf DEF StrandInv
  <2> QED  BY <1>1, <2>1, OpsOf DEF Does
<1>6. target # None => target # r.s
  BY <1>0, <1>5 DEF Knows, KnowsTarget
<1>7. ASSUME ~overlap, target # None PROVE target \notin Gone
  <2>1. KnowsDeleted(r, "FlagStage")
    BY <1>0, <1>5, <1>7 DEF AloneInv, KnowsAlone, LeadKnows
  <2>2. target \in StagesOf(r.k)
    BY <1>0, <1>7, <2>1 DEF KnowsDeleted, Moving
  <2> QED  BY <2>2 DEF StagesOf, Live, Gone
<1>8. \A past \in SUBSET Swept :
        ~TooLate(q, target, past) /\ target # None => Clear(q, target, past)
  <2>1. ASSUME NEW past \in SUBSET Swept, ~TooLate(q, target, past), target # None
        PROVE  Clear(q, target, past)
    <3>1. /\ target \in Gone => ~overlap
          /\ \A p \in Request \ {q} : At(request[p]) \in past => request[p].s # target
      BY <2>1, InTime
    <3> QED  BY <1>4, <1>6, <1>7, <2>1, <3>1 DEF Clear
  <2> QED  BY <2>1
<1>9. /\ ~LateLead(q, target) /\ target # None => Clear(q, target, Swept)
      /\ ~LateNode(q, target) /\ target # None => Clear(q, target, {"FlagStage"})
  <2>1. {"MoveFillNodes", "FlagStage"} \in SUBSET Swept /\ Swept \in SUBSET Swept
    BY DEF Swept
  <2>2. ~LateLead(q, target) /\ target # None => Clear(q, target, Swept)
    BY <1>8, <2>1 DEF LateLead, Swept
  <2>3. ~LateNode(q, target) /\ target # None => Clear(q, target, {"MoveFillNodes", "FlagStage"})
    BY <1>8, <2>1 DEF LateNode
  <2> QED  BY <2>2, <2>3 DEF Clear
<1>10. \A c \in Conv \ lateLeads' : LeadStays(q, c)
  <2> SUFFICES ASSUME NEW c \in Conv \ lateLeads' PROVE LeadStays(q, c)
    OBVIOUS
  <2>1. CASE c \in r.leads
    <3>1. lead'[c] = target /\ ~LateLead(q, target)
      BY <1>1, <2>1
    <3> QED  BY <1>9, <3>1 DEF LeadStays
  <2>2. CASE c \notin r.leads
    <3>1. lead'[c] = lead[c] /\ c \notin lateLeads
      BY <1>1, <2>2
    <3>2. lead[c] # None => lead[c] # r.s
      BY <1>0, <1>5, <2>2, <3>1 DEF KeptInv, LeadKept, Swept
    <3> QED  BY <1>4, <2>2, <3>1, <3>2 DEF LeadStays, Clear, KeptInv, LeadKept
  <2> QED  BY <2>1, <2>2
<1>11. \A n \in Live(node)' \ lateNodes' : NodeStays(q, n)
  <2> SUFFICES ASSUME NEW n \in Live(node)' \ lateNodes' PROVE NodeStays(q, n)
    OBVIOUS
  <2>1. n \in Node
    BY <1>1 DEF Live
  <2>2. CASE n \in r.nodes
    <3>1. ~LateNode(q, target)
      BY <1>1, <2>2
    <3>2. node'[n].stage = target
      BY <1>1, <1>3, <2>1, <2>2 DEF NodeRow, NodeColumns
    <3> QED  BY <1>9, <3>1, <3>2 DEF NodeStays
  <2>3. CASE n \notin r.nodes
    <3>1. node'[n] = node[n] /\ n \notin lateNodes
      BY <1>1, <2>1, <2>3
    <3>2. n \in Live(node) \ lateNodes
      BY <1>3, <2>1, <3>1 DEF Live, DomainsInv
    <3>3. node[n].stage # None => node[n].stage # r.s
      BY <1>0, <1>5, <2>3, <3>2 DEF KeptInv, NodeKept
    <3> QED  BY <1>4, <3>1, <3>2, <3>3 DEF NodeStays
  <2> QED  BY <2>2, <2>3
<1>12. HoldsLeads(q) /\ HoldsNodes(q)
  BY <1>2 DEF HoldsLeads, HoldsNodes, Swept
<1>13. ~overlap' => lateNodes' = {}
  <2>1. ASSUME ~overlap PROVE ~LateNode(q, target)
    BY <1>0, <1>5, <2>1, AloneIsInTime DEF LateNode
  <2> QED  BY <1>1, <2>1 DEF KeptInv
<1> QED  BY <1>2, <1>10, <1>11, <1>12, <1>13, RowsKept

\* One step keeps what is said of the rows that were not too late.
LEMMA KeptStep ==
  ASSUME StrandInv, AloneInv, KeptInv, [DashboardNext]_vars
  PROVE  KeptInv'
<1>1. CASE UNCHANGED vars
  BY <1>1 DEF vars, tables, history, KeptInv, LeadKept, NodeKept, Gone, Live, At
<1>2. CASE Arrive
  <2>1. PICK q \in Request : OnlyOne(q) /\ RequestInv(request'[q]) /\ Asked(request'[q])
    BY <1>2, Arrives
  <2>2. At(request'[q]) \notin Swept
    BY <2>1 DEF Asked, AskedFlow, AsksEdit, AsksCreateFlow, AsksDuplicate, AsksCreateNode,
           AsksUpdateNode, AsksDeleteNode, AskedKanban, AsksCreateKanban, AsksSaveKanban,
           AsksCreateStage, AsksUpdateStage, AsksReorder, AsksDeleteStage, AsksMoveLead,
           AsksReachNode, AskedForm, AsksCreateForm, AsksUpdateForm, AsksFormActive, AsksDeleteForm,
           AsksDeleteResponse, AsksFill, Swept
  <2>3. /\ lead' = lead /\ node' = node /\ stage' = stage /\ UNCHANGED <<lateLeads, lateNodes>>
        /\ overlap => overlap'
    BY <1>2 DEF Arrive, tables
  <2>4. Gone' \subseteq Gone /\ Live(node)' = Live(node)
    BY <2>3 DEF Gone, Live
  <2> QED  BY <2>1, <2>2, <2>3, <2>4, NothingMoves
<1>3. ASSUME NEW q \in Request, FlowStatement(q) PROVE KeptInv'
  BY <1>3, OthersKeep, CreateNodeKeeps, SaveNodeKeeps, CopyFlowKeeps
<1>4. ASSUME NEW q \in Request, FormStatement(q) PROVE KeptInv'
  BY <1>4, OthersKeep
<1>5. ASSUME NEW q \in Request, KanbanStatement(q) PROVE KeptInv'
  BY <1>5, OthersKeep, MovesKeep, SaveLeadKeeps, FlagStageKeeps
<1>6. ASSUME NEW q \in Request, Abort(q) PROVE KeptInv'
  <2>1. UNCHANGED tables /\ UNCHANGED history
        /\ \E op : request' = [request EXCEPT ![q] = Ended(@, op)]
    <3>1. CASE request[q].op = "ReorderStages"
      BY <1>6, <3>1 DEF Abort, StrandInv, RequestsInv
    <3>2. CASE request[q].op # "ReorderStages"
      BY <1>6, <3>2 DEF Abort, StrandInv, RequestsInv
    <3> QED  BY <3>1, <3>2
  <2>2. OnlyOne(q) /\ At(request'[q]) = "end"
    <3>1. PICK op : request' = [request EXCEPT ![q] = Ended(@, op)]
      BY <2>1
    <3>2. OnlyOne(q) /\ request'[q] = Ended(request[q], op)
      BY <3>1, Refused DEF StrandInv
    <3> QED  BY <3>2, EndedKnows
  <2>3. /\ lead' = lead /\ node' = node /\ stage' = stage /\ UNCHANGED <<lateLeads, lateNodes>>
        /\ overlap' = overlap
    BY <2>1 DEF tables, history
  <2>4. Gone' \subseteq Gone /\ Live(node)' = Live(node) /\ At(request'[q]) \notin Swept
    BY <2>2, <2>3 DEF Gone, Live, Swept
  <2> QED  BY <2>2, <2>3, <2>4, NothingMoves
<1> QED  BY <1>1, <1>2, <1>3, <1>4, <1>5, <1>6 DEF DashboardNext

\* It starts with rows on stages that are not deleted.
LEMMA KeptInit == DashboardInit => KeptInv
<1> SUFFICES ASSUME DashboardInit PROVE KeptInv
  OBVIOUS
<1>1. DomainsInv /\ AloneInv /\ ~overlap /\ lateLeads = {} /\ lateNodes = {}
  BY StrandInit, AloneInit DEF StrandInv, RowsInv, DashboardInit
<1>2. \A q \in Request : At(request[q]) \notin Swept
  BY EndedKnows DEF DashboardInit, At, Swept
<1>3. \A k : \A s \in StagesOf(k) : s \notin Gone
  BY DEF StagesOf, Live, Gone
<1>4. Quiet /\ First \in Live(flow)
  <2>1. Quiet
    BY EndedKnows DEF DashboardInit, Quiet
  <2>2. First = 1
    <3>1. Flow \subseteq Nat \ {0} /\ 1 \in Flow
      BY TablesAssumption
    <3>2. Flow \subseteq Nat /\ Flow # {}
      BY <3>1
    <3>3. First \in Flow /\ First <= 1
      BY <3>1, <3>2, Smallest DEF First
    <3> QED  BY <3>1, <3>3
  <2>3. flow[1].is = "live"
    BY TablesAssumption DEF DashboardInit, NewFlow
  <2> QED  BY <1>1, <2>1, <2>2, <2>3, TablesAssumption DEF Live, DomainsInv
<1>5. LeadsInv
  BY <1>1 DEF AloneInv, TablesInv
<1>6. /\ \A c \in Conv : lead[c] # None => lead[c] \notin Gone
      /\ \A n \in Live(node) : node[n].stage # None => node[n].stage \notin Gone
  BY <1>3, <1>4, <1>5 DEF LeadsInv, Placed
<1> QED  BY <1>1, <1>2, <1>6 DEF KeptInv, LeadKept, NodeKept, Swept

\* A row on a stage that was deleted came too late for the deletion.
LEMMA KeptIsKept == KeptInv => OnlyLateWritersStrand
<1> SUFFICES ASSUME KeptInv PROVE OnlyLateWritersStrand
  OBVIOUS
<1>1. None \notin Gone
  BY NoneIsNoId DEF Gone
<1> QED  BY <1>1 DEF OnlyLateWritersStrand, KeptInv, LeadKept, NodeKept, Gone

\* Whatever overlaps the deletion of a stage, a lead or a node that is on a deleted stage was
\* put there after the statement of its deletion that looks for such rows.
THEOREM DeletedStagesAreLeft == DashboardSpec => []OnlyLateWritersStrand
<1>1. StrandInv /\ AloneInv /\ KeptInv /\ [DashboardNext]_vars => KeptInv'
  BY KeptStep
<1>2. DashboardSpec => []KeptInv
  BY StrandInvariant, AloneInvariant, KeptInit, <1>1, PTL DEF DashboardSpec
<1> QED  BY <1>2, KeptIsKept, PTL
=============================================================================
