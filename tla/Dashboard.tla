----------------------------- MODULE Dashboard -----------------------------
(* The dashboard of one account: the editor of flows, the kanban boards and *)
(* the forms over the tables they share.                                    *)
(*                                                                          *)
(* A behaviour is a chain of requests, each answered before the next one is *)
(* sent, or a pair of requests whose statements interleave.                 *)
EXTENDS FlowEditor, KanbanBoard, FormBuilder

DashboardInit ==
  /\ flow = [f \in Flow |-> IF f = 1
       THEN [NewFlow(CHOOSE p \in Phone : TRUE, 1) EXCEPT !.start = 1, !.active = TRUE]
       ELSE [NewFlow(None, None) EXCEPT !.is = "absent"]]
  /\ node = [n \in Node |->
       CASE n = 1 -> NewNode(1, 2, 1)
         [] n = 2 -> NewNode(1, None, None)
         [] OTHER -> [NewNode(None, None, None) EXCEPT !.is = "absent"]]
  /\ option = [n \in Node |-> IF n = 1 THEN {[by |-> 0, next |-> 2]} ELSE {}]
  /\ kanban = [k \in Kanban |-> [is |-> IF k <= 2 THEN "live" ELSE "absent"]]
  /\ stage = [s \in Stage |->
       CASE s <= 2 -> NewStage(1, s - 1)
         [] s = 3 -> NewStage(2, 0)
         [] s = 4 -> [NewStage(1, 2) EXCEPT !.is = "deleted"]
         [] OTHER -> [NewStage(None, 0) EXCEPT !.is = "absent"]]
  /\ form = [m \in Form |->
       IF m = 1 THEN [is |-> "live", open |-> TRUE] ELSE [is |-> "absent", open |-> FALSE]]
  /\ field = [x \in Field |->
       IF x <= 2 THEN [is |-> "live", form |-> 1] ELSE [is |-> "absent", form |-> None]]
  /\ response = [x \in Response |->
       IF x = 1 THEN [is |-> "live", form |-> 1, answers |-> {1, 2}]
       ELSE [is |-> "absent", form |-> None, answers |-> {}]]
  /\ lead = [c \in Conv |-> IF c = 1 THEN 2 ELSE None]
  /\ request = [q \in Request |-> Blank]
  /\ overlap = FALSE /\ lateLeads = {} /\ lateNodes = {}

Requests == FlowRequests \union KanbanRequests \union FormRequests

\* The next request arrives: into a dashboard at rest, or next to the first.
Arrive ==
  /\ Unasked # {}
  /\ \/ AtRest /\ ~overlap
     \/ InFlight = {Min(Request)} /\ Unasked = Request \ {Min(Request)}
  /\ \E r \in Requests : request' = [request EXCEPT ![Min(Unasked)] = r]
  /\ overlap' = (overlap \/ ~AtRest)
  /\ UNCHANGED <<tables, lateLeads, lateNodes>>

DashboardNext ==
  \/ Arrive
  \/ \E q \in Request :
       FlowStatement(q) \/ KanbanStatement(q) \/ FormStatement(q) \/ Abort(q)

DashboardSpec == DashboardInit /\ [][DashboardNext]_vars

----------------------------------------------------------------------------
(* Properties *)

\* Every arrow of the editor ends at a node of the same flow that exists, and
\* so does the start.
ArrowsLeadSomewhere ==
  \A f \in Live(flow) :
    LET shown == GetDetails(f)  targets == DOMAIN shown.nodes \union {None} IN
    /\ shown.start \in targets
    /\ \A n \in DOMAIN shown.nodes :
         /\ shown.nodes[n].next \in targets
         /\ \A o \in shown.nodes[n].options : o.next \in targets
\* A question shows the options of one edit.
OptionsAreOfOneEdit ==
  \A n \in Node : \A o, p \in option[n] : o.by = p.by
\* A form shows the fields of one edit: the initial ones or those a request saved.
FieldsAreOfOneEdit ==
  \A m \in Live(form) :
    FieldsOf(m) \in {{}, {1, 2}} \union
      {request[q].targets : q \in {x \in Request : request[x].op = "UpdateForm" /\ request[x].m = m}}
\* The table of responses has a column for every answer it shows.
AnswersHaveAColumn ==
  \A m \in Live(form) :
    LET shown == ListResponses(m) IN \A x \in DOMAIN shown : shown[x] \subseteq FieldsOf(m)
\* The columns of a board have a place each, unless a reordering was cut short.
StagesAreOrdered ==
  (\A q \in Request : request[q].op # "abortedOrder") =>
    \A k \in Live(kanban) : \A s, t \in StagesOf(k) : stage[s].order = stage[t].order => s = t

\* What each request relies on of the others. Requests that are answered one
\* after the other keep the tables whole, whatever they are and wherever one
\* of them is cut short: the order of the statements of a request, that of
\* delete-node above all, leaves nothing that refers to a deleted row.
TablesStayWhole ==
  ~overlap /\ AtRest => /\ ArrowsLeadSomewhere
                        /\ OptionsAreOfOneEdit
                        /\ FieldsAreOfOneEdit
                        /\ AnswersHaveAColumn
                        /\ StagesAreOrdered

\* The conversation whose card a phone number has, if a stage was ever
\* recorded for one of its conversations.
CardOf(c) == Max({d \in Conv : PhoneOf[d] = PhoneOf[c] /\ lead[d] # None})

\* A lead that has a stage has one card, in one column, of the board of its
\* flow; a stage deleted, a node reached, a card moved or a form filled keep
\* it there. Not so once the flow is linked to another kanban (its leads stay
\* on the stages of the old one), or when the link of a form is older than
\* the deletion of its stage: those two requests are excluded, and so are
\* requests that overlap.
BoardShowsEveryLead ==
  (~overlap /\ AtRest /\ \A q \in Request : request[q].op \notin {"UpdateFlow", "FillOldLink"}) =>
    \A c \in Conv :
      LET f == FlowOf(c)  k == flow[f].kanban IN
      (lead[c] # None /\ f \in Live(flow) /\ k \in Live(kanban)) =>
        Cardinality({s \in DOMAIN Board(k) : CardOf(c) \in Board(k)[s]}) = 1

\* A deletion leaves nothing behind but what came too late for it. Whatever
\* overlaps it (another deletion, a card that moves, a node written back as it
\* was loaded, a copy of the flow), a lead or a node is on a deleted stage only
\* if it was put there after the statement of the deletion that looks for such
\* rows; requests that are answered one after the other strand nobody, except
\* by the link of a form older than the deletion.
OnlyLateWritersStrand ==
  LET deleted == {s \in Stage : stage[s].is = "deleted"} IN
  /\ \A c \in Conv \ lateLeads : lead[c] \notin deleted
  /\ \A n \in Live(node) \ lateNodes : node[n].stage \notin deleted
=============================================================================
