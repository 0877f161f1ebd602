----------------------------- MODULE FlowEditor -----------------------------
(* Flows, their nodes and the options of a question, as the editor of the   *)
(* dashboard changes them: use-cases/flow, use-cases/flow-node and their     *)
(* repositories.                                                            *)
EXTENDS DashboardTables

CONSTANT Phone   \* numbers a flow can be given

----------------------------------------------------------------------------
(* Statements on flows. The rest of a row is written back as it was loaded. *)

LoadFlow(q) ==
  /\ Does(q, "LoadFlow")
  /\ LET r == request[q] IN
     IF /\ flow[r.f].is = "live"
        /\ r.op = "ActivateFlow" => flow[r.f].phone # None /\ flow[r.f].start # None
     THEN Continue(q, [r EXCEPT !.owner = flow[r.f]])
     ELSE Refuse(q)
  /\ UNCHANGED <<tables, history>>

SaveFlow(q) ==
  /\ Does(q, "SaveFlow")
  /\ LET r == request[q] IN
     flow' = [flow EXCEPT ![r.f] = Over(r.set, r.owner)] /\ Continue(q, r)
  /\ UNCHANGED <<node, option, kanban, stage, form, field, response, lead, history>>

\* Any flow that is not deleted is a conflict: one flow per account.
NoFlowYet(q) ==
  /\ Does(q, "NoFlowYet")
  /\ IF Live(flow) = {} THEN Continue(q, request[q]) ELSE Refuse(q)
  /\ UNCHANGED <<tables, history>>

CreateFlowRow(q) ==
  /\ Does(q, "CreateFlowRow")
  /\ Absent(flow) # {}
  /\ flow' = [flow EXCEPT ![Fresh(flow)] = NewFlow(request[q].to, request[q].k)]
  /\ Continue(q, request[q])
  /\ UNCHANGED <<node, option, kanban, stage, form, field, response, lead, history>>

----------------------------------------------------------------------------
(* Statements on nodes and options *)

\* The node, and with it its flow, which the editor loads next, and its stage,
\* which the engine records.
LoadNode(q) ==
  /\ Does(q, "LoadNode")
  /\ LET r == request[q] IN
     IF node[r.n].is = "live"
     THEN Continue(q, [r EXCEPT !.row = node[r.n], !.f = node[r.n].flow, !.s = node[r.n].stage])
     ELSE Refuse(q)
  /\ UNCHANGED <<tables, history>>

CreateNodeRow(q) ==
  /\ Does(q, "CreateNodeRow")
  /\ Absent(node) # {}
  /\ LET r == request[q] IN
     /\ node' = [node EXCEPT ![Fresh(node)] = NewNode(r.f, r.to, r.s)]
     /\ lateNodes' = IF LateNode(q, r.s) THEN lateNodes \union {Fresh(node)} ELSE lateNodes
     /\ Continue(q, [r EXCEPT !.n = Fresh(node)])
  /\ UNCHANGED <<flow, option, kanban, stage, form, field, response, lead, overlap, lateLeads>>

SaveNode(q) ==
  /\ Does(q, "SaveNode")
  /\ LET r == request[q]  row == Over(r.set, r.row) IN
     /\ r.n \notin NodesHeld(q)
     /\ node' = [node EXCEPT ![r.n] = row]
     /\ lateNodes' = IF LateNode(q, row.stage) THEN lateNodes \union {r.n} ELSE lateNodes \ {r.n}
     /\ Continue(q, r)
  /\ UNCHANGED <<flow, option, kanban, stage, form, field, response, lead, overlap, lateLeads>>

\* option[n] are the options of n that are not deleted, with the request that
\* wrote them.
DropOptions(q) ==
  /\ Does(q, "DropOptions")
  /\ option' = [option EXCEPT ![request[q].n] = {}]
  /\ Continue(q, request[q])
  /\ UNCHANGED <<flow, node, kanban, stage, form, field, response, lead, history>>

AddOptions(q) ==
  /\ Does(q, "AddOptions")
  /\ LET r == request[q] IN
     /\ option' = [option EXCEPT ![r.n] =
          @ \union {[by |-> q, next |-> t] : t \in r.targets}]
     /\ Continue(q, r)
  /\ UNCHANGED <<flow, node, kanban, stage, form, field, response, lead, history>>

\* Nodes that lead to the deleted one lead nowhere, deleted nodes included.
ClearNodeArrows(q) ==
  /\ Does(q, "ClearNodeArrows")
  /\ \A x \in NodesHeld(q) : node[x].next # request[q].n
  /\ node' = [x \in Node |->
       IF node[x].next = request[q].n THEN [node[x] EXCEPT !.next = None] ELSE node[x]]
  /\ Continue(q, request[q])
  /\ UNCHANGED <<flow, option, kanban, stage, form, field, response, lead, history>>

ClearOptionArrows(q) ==
  /\ Does(q, "ClearOptionArrows")
  /\ option' = [x \in Node |->
       {IF o.next = request[q].n THEN [o EXCEPT !.next = None] ELSE o : o \in option[x]}]
  /\ Continue(q, request[q])
  /\ UNCHANGED <<flow, node, kanban, stage, form, field, response, lead, history>>

ForgetStartSkipped(q) ==
  /\ Does(q, "ForgetStart")
  /\ Continue(q, request[q])
  /\ UNCHANGED <<tables, history>>
\* The flow is written back, as it was loaded, only if it started at the node.
ForgetStart(q) ==
  /\ Does(q, "ForgetStart")
  /\ LET r == request[q] IN
     /\ flow' = IF r.owner.start = r.n
                THEN [flow EXCEPT ![r.f] = [r.owner EXCEPT !.start = None]] ELSE flow
     /\ Continue(q, r)
  /\ UNCHANGED <<node, option, kanban, stage, form, field, response, lead, history>>

----------------------------------------------------------------------------
(* Duplication: one read of the whole flow, then one transaction. *)

ReadSource(q) ==
  /\ Does(q, "ReadSource")
  /\ LET r == request[q] IN
     IF flow[r.f].is = "live"
     THEN Continue(q, [r EXCEPT !.owner = flow[r.f],
            !.row = [n \in NodesOf(r.f) |-> Over(node[n], [options |-> option[n]])]])
     ELSE Refuse(q)
  /\ UNCHANGED <<tables, history>>

\* An arrow is remapped to the copy of its target; a target that was not
\* read with the source leaves none.
Remapped(copy, n) == IF n \in DOMAIN copy THEN copy[n] ELSE None

\* flow_nodes.defaultNextNodeId is a foreign key that Postgres checks row by
\* row: a node can only be inserted after the copy of its next node. The
\* source is read without an order, so any order can be the one tried.
Insertable(rows) ==
  \E place \in [DOMAIN rows -> 1 .. Cardinality(DOMAIN rows)] :
    \A n \in DOMAIN rows :
      rows[n].next \in DOMAIN rows \ {n} => place[rows[n].next] < place[n]

CopyFlow(q) ==
  /\ Does(q, "CopyFlow")
  /\ LET r == request[q]
         rows == r.row
         new == Fresh(flow)
         Copies == {m \in [DOMAIN rows -> Absent(node)] :
                      \A a, b \in DOMAIN rows : a < b => m[a] < m[b]}
     IN /\ Absent(flow) # {} /\ Copies # {} /\ Insertable(rows)
        /\ LET copy == CHOOSE m \in Copies : TRUE
               Of(x) == CHOOSE n \in DOMAIN rows : copy[n] = x
               New == {copy[n] : n \in DOMAIN rows}
           IN /\ flow' = [flow EXCEPT ![new] =
                   [NewFlow(None, r.owner.kanban)
                      EXCEPT !.start = Remapped(copy, r.owner.start)]]
              /\ node' = [x \in Node |->
                   IF x \in New
                   THEN NewNode(new, Remapped(copy, rows[Of(x)].next), rows[Of(x)].stage)
                   ELSE node[x]]
              /\ option' = [x \in Node |->
                   IF x \in New
                   THEN {[o EXCEPT !.next = Remapped(copy, @)] : o \in rows[Of(x)].options}
                   ELSE option[x]]
              /\ lateNodes' = lateNodes \union {x \in New : LateNode(q, rows[Of(x)].stage)}
              /\ Continue(q, r)
  /\ UNCHANGED <<kanban, stage, form, field, response, lead, overlap, lateLeads>>

\* The transaction inserted a node before the one it leads to: rolled back.
CopyRefused(q) ==
  /\ Does(q, "CopyFlow")
  /\ LET rows == request[q].row IN
     \E n \in DOMAIN rows : rows[n].next \in DOMAIN rows \ {n}
  /\ Refuse(q)
  /\ UNCHANGED <<tables, history>>

----------------------------------------------------------------------------
(* getDetails: what the page of a flow, and the engine, read.               *)

GetDetails(f) ==
  [start |-> flow[f].start,
   nodes |-> [n \in NodesOf(f) |->
                [next |-> node[n].next, stage |-> node[n].stage, options |-> option[n]]]]

----------------------------------------------------------------------------
(* The requests. The client sends ids of the page it has loaded.            *)

CreateFlow ==
  {Ask("CreateFlow", <<"NoFlowYet", "CreateFlowRow">>, [to |-> p, k |-> k]) :
     p \in Phone \union {None}, k \in Live(kanban)}

\* load, change the entity, save the whole row
EditFlow(op, f, set) == Ask(op, <<"LoadFlow", "SaveFlow">>, [f |-> f, set |-> set])

UpdateFlow == {EditFlow("UpdateFlow", f, [kanban |-> k]) : f \in Live(flow), k \in Live(kanban)}
UpdatePhone == {EditFlow("UpdatePhone", f, [phone |-> p]) : f \in Live(flow), p \in Phone}
SetStartNode ==
  UNION {{EditFlow("SetStartNode", f, [start |-> n]) : n \in NodesOf(f)} : f \in Live(flow)}
ActivateFlow == {EditFlow("ActivateFlow", f, [active |-> TRUE]) : f \in Live(flow)}
DeactivateFlow == {EditFlow("DeactivateFlow", f, [active |-> FALSE]) : f \in Live(flow)}
DeleteFlow ==
  {EditFlow("DeleteFlow", f, [is |-> "deleted", active |-> FALSE]) : f \in Live(flow)}
DuplicateFlow ==
  {Ask("DuplicateFlow", <<"LoadFlow", "ReadSource", "CopyFlow">>, [f |-> f]) : f \in Live(flow)}

Arrows(f) == NodesOf(f) \union {None}
StageChoices(f) == StagesOf(flow[f].kanban) \union {None}

\* Only a multiple choice has options: at most one here, leading to a node or to none.
OptionSets(f) == {{}} \union {{t} : t \in Arrows(f)}
IfAny(targets) == IF targets = {} THEN <<>> ELSE <<"AddOptions">>

CreateNode ==
  UNION {{Ask("CreateNode", <<"LoadFlow", "CreateNodeRow">> \o IfAny(e[2]),
              [f |-> f, to |-> e[1], targets |-> e[2]]) :
            e \in Arrows(f) \X {{}} \union {None} \X OptionSets(f)} : f \in Live(flow)}

\* The editor changes the next node, the stage or the options. The stage is
\* written only when the page sends it; the options are always replaced.
UpdateNode ==
  UNION {{Ask("UpdateNode",
              <<"LoadNode", "LoadFlow", "SaveNode", "DropOptions">> \o IfAny(e[2]),
              [n |-> n, set |-> e[1], targets |-> e[2]]) :
            e \in LET f == node[n].flow
                      asIs == [next |-> node[n].next]
                      shown == {o.next : o \in option[n]}
                  IN {[next |-> a] : a \in Arrows(f)} \X {shown}
                     \union {Over(asIs, [stage |-> s]) : s \in StageChoices(f)} \X {shown}
                     \union {asIs} \X OptionSets(f)}
         : n \in {x \in Live(node) : flow[node[x].flow].is = "live"}}

DeleteNode ==
  {Ask("DeleteNode",
       <<"LoadNode", "LoadFlow", "DropOptions", "ClearNodeArrows", "ClearOptionArrows",
         "ForgetStart", "SaveNode">>,
       [n |-> n, set |-> [is |-> "deleted"]]) : n \in Live(node)}

FlowRequests ==
  CreateFlow \union UpdateFlow \union UpdatePhone \union SetStartNode \union ActivateFlow
    \union DeactivateFlow \union DeleteFlow \union DuplicateFlow
    \union CreateNode \union UpdateNode \union DeleteNode

FlowStatement(q) ==
  \/ LoadFlow(q) \/ SaveFlow(q) \/ NoFlowYet(q) \/ CreateFlowRow(q)
  \/ LoadNode(q) \/ CreateNodeRow(q) \/ SaveNode(q)
  \/ DropOptions(q) \/ AddOptions(q) \/ ClearNodeArrows(q) \/ ClearOptionArrows(q)
  \/ ForgetStart(q) \/ ReadSource(q) \/ CopyFlow(q) \/ CopyRefused(q)
=============================================================================
