-------------------------- MODULE DashboardTables --------------------------
(* The tables the dashboard edits and the requests that edit them.          *)
(*                                                                          *)
(* Every HTTP request of the API is a list of awaited database statements:  *)
(* it loads rows into entities, checks them, changes the entities and saves *)
(* whole rows. Nothing locks a row between the load and the save, so the    *)
(* statements of two requests interleave. A request is a record: the        *)
(* statements left to do, what the client sent, and the rows loaded so far. *)
(* Rows are never removed: deletion is a flag on the row. The one account   *)
(* modelled owns every row.                                                 *)
EXTENDS Naturals, Sequences, FiniteSets, FiniteSetsExt, TLC

CONSTANTS
  Request,    \* the HTTP requests of a behaviour
  Flow, Node, Kanban, Stage, Form, Field, Response,   \* row ids: numbers
  Conv,       \* conversations, numbered by their last update
  PhoneOf,    \* the phone number of a conversation's lead
  None,
  MaxAborts   \* bound: requests that die between two statements

\* Ids are numbers, the rows a behaviour starts with among them.
ASSUME TablesAssumption ==
  /\ \A ids \in {Request, Flow, Node, Kanban, Stage, Form, Field, Response, Conv} :
       ids \subseteq Nat \ {0} /\ IsFiniteSet(ids) /\ None \notin ids
  /\ 1 \in Flow /\ {1, 2} \subseteq Node /\ {1, 2} \subseteq Kanban
  /\ 1 .. 4 \subseteq Stage /\ 1 \in Form /\ {1, 2} \subseteq Field

VARIABLES
  flow, node, option, kanban, stage, form, field, response,   \* the tables
  lead,       \* conversation_progress: the stage of each conversation
  request,
  overlap,    \* history: two requests were in flight at the same time
  lateLeads,  \* history: the conversations, and the nodes, that were put on their
  lateNodes   \* stage when its deletion no longer looked for them

tables == <<flow, node, option, kanban, stage, form, field, response, lead>>
history == <<overlap, lateLeads, lateNodes>>
vars == <<tables, request, history>>

----------------------------------------------------------------------------
(* Rows *)

Live(table) == {i \in DOMAIN table : table[i].is = "live"}
Absent(table) == {i \in DOMAIN table : table[i].is = "absent"}
Fresh(table) == Min(Absent(table))      \* the id a new row gets

StagesOf(k) == {s \in Live(stage) : stage[s].kanban = k}
NodesOf(f) == {n \in Live(node) : node[n].flow = f}
FieldsOf(m) == {x \in Live(field) : field[x].form = m}

\* FlowEntity's default is inactive: only the activation switches it on.
NewFlow(phone, k) ==
  [is |-> "live", active |-> FALSE, phone |-> phone, start |-> None, kanban |-> k]
NewNode(f, next, s) == [is |-> "live", flow |-> f, next |-> next, stage |-> s]
NewStage(k, order) == [is |-> "live", kanban |-> k, order |-> order]

----------------------------------------------------------------------------
(* Requests *)

Blank ==
  [op |-> "none", todo |-> <<>>, set |-> <<>>, f |-> None, n |-> None,
   k |-> None, s |-> None, to |-> None, c |-> None, m |-> None,
   targets |-> {}, list |-> <<>>, owner |-> None, row |-> None, used |-> FALSE,
   leads |-> {}, nodes |-> {}]

\* The columns of a row with those that are set put over them.
Over(set, row) ==
  [x \in DOMAIN set \union DOMAIN row |-> IF x \in DOMAIN set THEN set[x] ELSE row[x]]

\* A request of the API: its name, its statements and what the client sent.
Ask(op, todo, sent) == [Over(sent, Blank) EXCEPT !.op = op, !.todo = todo]

InFlight == {q \in Request : request[q].todo # <<>>}
Unasked == {q \in Request : request[q].op = "none"}
AtRest == InFlight = {}

\* What stays of a request that ended: the properties ask what was done.
Ended(r, op) == [Blank EXCEPT !.op = op, !.m = r.m, !.targets = r.targets]

Does(q, statement) == q \in InFlight /\ Head(request[q].todo) = statement
Continue(q, r) ==
  request' = [request EXCEPT ![q] =
     IF Len(r.todo) = 1 THEN Ended(r, r.op) ELSE [r EXCEPT !.todo = Tail(@)]]
Refuse(q) == request' = [request EXCEPT ![q] = Ended(@, "refused")]

\* findUnique where isDeleted = false: the entity, or the request is refused.
Load(q, statement, row) ==
  /\ Does(q, statement)
  /\ IF row.is = "live" THEN Continue(q, [request[q] EXCEPT !.row = row])
     ELSE Refuse(q)
  /\ UNCHANGED <<tables, history>>

----------------------------------------------------------------------------
(* The transaction that deletes a stage has several statements under READ   *)
(* COMMITTED: each sees what others committed before it, nobody sees the    *)
(* rows it has moved until it commits, and who wants to write one of them   *)
(* waits. request[q].leads and request[q].nodes are the rows q has moved.   *)

LeadsHeld(q) == UNION {request[p].leads : p \in InFlight \ {q}}
NodesHeld(q) == UNION {request[p].nodes : p \in InFlight \ {q}}

\* History: q puts a row on stage s, and s is deleted or its deletion is past the
\* statement that looks for such rows.
TooLate(q, s, past) ==
  /\ s # None
  /\ \/ stage[s].is = "deleted" /\ (overlap \/ request[q].op = "FillOldLink")
     \/ \E p \in InFlight \ {q} : request[p].s = s /\ Head(request[p].todo) \in past
LateLead(q, s) == TooLate(q, s, {"MoveNodes", "MoveFillNodes", "FlagStage"})
LateNode(q, s) == TooLate(q, s, {"MoveFillNodes", "FlagStage"})

----------------------------------------------------------------------------
\* A statement rejects or the process dies: what was committed stays, and an open
\* transaction is rolled back.
Abort(q) ==
  /\ q \in InFlight
  /\ Cardinality({p \in Request : request[p].op \in {"aborted", "abortedOrder"}}) < MaxAborts
  /\ request' = [request EXCEPT ![q] =
       Ended(@, IF @.op = "ReorderStages" THEN "abortedOrder" ELSE "aborted")]
  /\ UNCHANGED <<tables, history>>
=============================================================================
