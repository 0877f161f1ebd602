---------------------------- MODULE KanbanBoard ----------------------------
(* Kanbans, their stages and the stage of each conversation: the use cases  *)
(* of use-cases/kanban, their repositories, and the board the page shows.   *)
EXTENDS DashboardTables

----------------------------------------------------------------------------
(* Statements *)

LoadKanban(q) == Load(q, "LoadKanban", kanban[request[q].k])

SaveKanban(q) ==
  /\ Does(q, "SaveKanban")
  /\ LET r == request[q] IN
     kanban' = [kanban EXCEPT ![r.k] = Over(r.set, r.row)] /\ Continue(q, r)
  /\ UNCHANGED <<flow, node, option, stage, form, field, response, lead, history>>

CreateKanbanRow(q) ==
  /\ Does(q, "CreateKanbanRow")
  /\ Absent(kanban) # {}
  /\ kanban' = [kanban EXCEPT ![Fresh(kanban)] = [is |-> "live"]]
  /\ Continue(q, [request[q] EXCEPT !.k = Fresh(kanban), !.to = 0])
  /\ UNCHANGED <<flow, node, option, stage, form, field, response, lead, history>>

\* stageRepository.create; request[q].to is the order of the new stage.
CreateStageRow(q) ==
  /\ Does(q, "CreateStageRow")
  /\ Absent(stage) # {}
  /\ LET r == request[q] IN
     /\ stage' = [stage EXCEPT ![Fresh(stage)] = NewStage(r.k, r.to)]
     /\ Continue(q, [r EXCEPT !.to = @ + 1])
  /\ UNCHANGED <<flow, node, option, kanban, form, field, response, lead, history>>

\* The highest order of the kanban, 0 when it has no stage.
MaxOrder(k) == Max({stage[s].order : s \in StagesOf(k)} \union {0})

ReadMaxOrder(q) ==
  /\ Does(q, "ReadMaxOrder")
  /\ LET r == request[q] IN Continue(q, [r EXCEPT !.to = MaxOrder(r.k) + 1])
  /\ UNCHANGED <<tables, history>>

\* The stage of the URL must be a stage of the kanban of the URL.
LoadStage(q) ==
  /\ Does(q, "LoadStage")
  /\ LET r == request[q] IN
     IF r.s \in StagesOf(r.k) THEN Continue(q, [r EXCEPT !.row = stage[r.s]])
     ELSE Refuse(q)
  /\ UNCHANGED <<tables, history>>

SaveStage(q) ==
  /\ Does(q, "SaveStage")
  /\ LET r == request[q] IN
     stage' = [stage EXCEPT ![r.s] = r.row] /\ Continue(q, r)
  /\ UNCHANGED <<flow, node, option, kanban, form, field, response, lead, history>>

\* The list must name the stages of the kanban; the stages whose place changes
\* are saved one by one, as they were loaded here.
ListStages(q) ==
  /\ Does(q, "ListStages")
  /\ LET r == request[q]
         Placed(i) == [stage[r.list[i]] EXCEPT !.order = i - 1]
         moved == {i \in DOMAIN r.list : Placed(i) # stage[r.list[i]]}
     IN IF \/ Len(r.list) # Cardinality(StagesOf(r.k))
           \/ \E i \in DOMAIN r.list : r.list[i] \notin StagesOf(r.k)
        THEN Refuse(q)
        ELSE Continue(q, [r EXCEPT
               !.list = [i \in moved |-> [id |-> r.list[i], row |-> Placed(i)]],
               !.todo = <<@[1]>> \o [i \in 1 .. Cardinality(moved) |-> "SaveOrder"]])
  /\ UNCHANGED <<tables, history>>

SaveOrder(q) ==
  /\ Does(q, "SaveOrder")
  /\ LET r == request[q]  i == Min(DOMAIN r.list) IN
     /\ stage' = [stage EXCEPT ![r.list[i].id] = r.list[i].row]
     /\ Continue(q, [r EXCEPT !.list = [j \in DOMAIN @ \ {i} |-> @[j]]])
  /\ UNCHANGED <<flow, node, option, kanban, form, field, response, lead, history>>

\* Conversations and nodes on the stage, deleted nodes included: without a
\* target the client is told to choose one.
Used(s) == \/ \E c \in Conv : lead[c] = s
           \/ \E n \in Node : node[n].is # "absent" /\ node[n].stage = s
ReadUsage(q) ==
  /\ Does(q, "ReadUsage")
  /\ LET r == request[q] IN
     IF Used(r.s) /\ r.to = None THEN Refuse(q)
     ELSE Continue(q, [r EXCEPT !.used = Used(r.s)])
  /\ UNCHANGED <<tables, history>>

\* The target is not looked for in the kanban.
LoadTargetAnywhere(q) ==
  /\ Does(q, "LoadTarget")
  /\ LET r == request[q] IN
     IF r.to = None \/ r.to \in Live(stage) \ {r.s} THEN Continue(q, r) ELSE Refuse(q)
  /\ UNCHANGED <<tables, history>>
LoadTarget(q) ==
  /\ Does(q, "LoadTarget")
  /\ LET r == request[q] IN
     IF r.to = None \/ r.to \in StagesOf(r.k) \ {r.s} THEN Continue(q, r) ELSE Refuse(q)
  /\ UNCHANGED <<tables, history>>

\* The transaction: the conversations on the stage, the nodes whose kanbanStageId
\* it is, those whose postFillKanbanStageId it is, and the flag. One column of the
\* model stands for the two of a node, so the first sweep of the nodes may leave any.
MoveLeads(q) ==
  /\ Does(q, "MoveLeads")
  /\ LET r == request[q]  on == {c \in Conv : lead[c] = r.s} IN
     /\ on \intersect LeadsHeld(q) = {}
     /\ Continue(q, [r EXCEPT !.leads = on])
  /\ UNCHANGED <<tables, history>>

NodesOn(s) == {n \in Node : node[n].stage = s}
MoveNodes(q) ==
  /\ Does(q, "MoveNodes")
  /\ LET r == request[q] IN
     \E some \in SUBSET NodesOn(r.s) :
       some \intersect NodesHeld(q) = {} /\ Continue(q, [r EXCEPT !.nodes = some])
  /\ UNCHANGED <<tables, history>>

\* mutant: the stage a lead gets when it has filled the form is forgotten
MoveFillNodesNot(q) ==
  /\ Does(q, "MoveFillNodes")
  /\ Continue(q, request[q])
  /\ UNCHANGED <<tables, history>>
MoveFillNodes(q) ==
  /\ Does(q, "MoveFillNodes")
  /\ LET r == request[q] IN
     /\ NodesOn(r.s) \intersect NodesHeld(q) = {}
     /\ Continue(q, [r EXCEPT !.nodes = NodesOn(r.s)])
  /\ UNCHANGED <<tables, history>>

\* The last statement and the commit: the rows moved are on the target, or on none
\* if the usage read before was zero.
FlagStage(q) ==
  /\ Does(q, "FlagStage")
  /\ LET r == request[q]
         target == IF r.used THEN r.to ELSE None
     IN /\ lead' = [c \in Conv |-> IF c \in r.leads THEN target ELSE lead[c]]
        /\ node' = [n \in Node |-> IF n \in r.nodes THEN [node[n] EXCEPT !.stage = target]
                                   ELSE node[n]]
        /\ stage' = [stage EXCEPT ![r.s].is = "deleted"]
        /\ lateLeads' = IF LateLead(q, target) THEN lateLeads \union r.leads
                        ELSE lateLeads \ r.leads
        /\ lateNodes' = IF LateNode(q, target) THEN lateNodes \union r.nodes
                        ELSE lateNodes \ r.nodes
        /\ Continue(q, r)
  /\ UNCHANGED <<flow, option, kanban, form, field, response, overlap>>

\* The progress row of the conversation is saved with the stage. (Its other
\* columns are FlowEngine's.) The stage is not looked at again.
SaveLead(q) ==
  /\ Does(q, "SaveLead")
  /\ LET r == request[q] IN
     /\ r.s # None => r.c \notin LeadsHeld(q)
     /\ lead' = IF r.s = None THEN lead ELSE [lead EXCEPT ![r.c] = r.s]
     /\ lateLeads' = IF r.s = None THEN lateLeads
                     ELSE IF LateLead(q, r.s) THEN lateLeads \union {r.c} ELSE lateLeads \ {r.c}
     /\ Continue(q, r)
  /\ UNCHANGED <<flow, node, option, kanban, stage, form, field, response, overlap, lateNodes>>

----------------------------------------------------------------------------
(* The board: one card for each phone number, that of its conversation      *)
(* updated last among those of the kanban's flows that have a stage, in the *)
(* column of its stage.                                                     *)

FlowOf(c) == Min(Flow)      \* the conversations are those of the first flow
Carded(k) ==
  {c \in Conv : /\ flow[FlowOf(c)].is = "live" /\ flow[FlowOf(c)].kanban = k
                /\ lead[c] # None}
Cards(k) == {c \in Carded(k) : \A d \in Carded(k) : PhoneOf[d] = PhoneOf[c] => d <= c}
Board(k) == [s \in StagesOf(k) |-> {c \in Cards(k) : lead[c] = s}]

----------------------------------------------------------------------------
(* The requests *)

CreateKanban ==
  {Ask("CreateKanban", <<"CreateKanbanRow">> \o [i \in 1 .. x |-> "CreateStageRow"], <<>>) :
     x \in 0 .. 2}
UpdateKanban ==
  {Ask("UpdateKanban", <<"LoadKanban", "SaveKanban">>, [k |-> k]) : k \in Live(kanban)}
DeleteKanban ==
  {Ask("DeleteKanban", <<"LoadKanban", "SaveKanban">>, [k |-> k, set |-> [is |-> "deleted"]]) :
     k \in Live(kanban)}
CreateStage ==
  {Ask("CreateStage", <<"LoadKanban", "ReadMaxOrder", "CreateStageRow">>, [k |-> k]) :
     k \in Live(kanban)}
UpdateStage ==
  {Ask("UpdateStage", <<"LoadKanban", "LoadStage", "SaveStage">>,
       [k |-> stage[s].kanban, s |-> s]) : s \in Live(stage)}
ReorderStages ==
  UNION {{Ask("ReorderStages", <<"LoadKanban", "ListStages">>, [k |-> k, list |-> l]) :
            l \in {x \in [1 .. Cardinality(StagesOf(k)) -> StagesOf(k)] :
                     \A i, j \in DOMAIN x : x[i] = x[j] => i = j}} : k \in Live(kanban)}
DeleteStage ==
  UNION {{Ask("DeleteStage",
              <<"LoadKanban", "LoadStage", "ReadUsage", "LoadTarget",
                "MoveLeads", "MoveNodes", "MoveFillNodes", "FlagStage">>,
              [k |-> stage[s].kanban, s |-> s, to |-> t]) :
            t \in (Live(stage) \ {s}) \union {None}} : s \in Live(stage)}
\* A card is dragged from one column of the board to another.
MoveLead ==
  UNION {{Ask("MoveLead", <<"LoadKanban", "LoadStage", "SaveLead">>,
              [k |-> k, s |-> s, c |-> c]) :
            s \in StagesOf(k), c \in Cards(k)} : k \in Live(kanban)}

\* External to the dashboard: the engine reaches a node and records its stage.
LeadReachesNode ==
  UNION {{Ask("LeadReachesNode", <<"LoadNode", "SaveLead">>,
              [n |-> n, c |-> c]) :
            c \in {x \in Conv : FlowOf(x) = node[n].flow}} :
         n \in {x \in Live(node) : node[x].stage # None}}

KanbanRequests ==
  CreateKanban \union UpdateKanban \union DeleteKanban \union CreateStage \union UpdateStage
    \union ReorderStages \union DeleteStage \union MoveLead \union LeadReachesNode

KanbanStatement(q) ==
  \/ LoadKanban(q) \/ SaveKanban(q) \/ CreateKanbanRow(q) \/ CreateStageRow(q)
  \/ ReadMaxOrder(q) \/ LoadStage(q) \/ SaveStage(q) \/ ListStages(q) \/ SaveOrder(q)
  \/ ReadUsage(q) \/ LoadTarget(q) \/ SaveLead(q)
  \/ MoveLeads(q) \/ MoveNodes(q) \/ MoveFillNodes(q) \/ FlagStage(q)
=============================================================================
