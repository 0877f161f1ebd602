---------------------------- MODULE FormBuilder ----------------------------
(* Forms, their fields and the answers leads give to them: use-cases/form   *)
(* and form.repository.ts. A submitted form also moves the lead's card.     *)
EXTENDS DashboardTables, SequencesExt

----------------------------------------------------------------------------
(* Statements *)

LoadForm(q) == Load(q, "LoadForm", form[request[q].m])

\* title, description, isActive and isDeleted are written as they were loaded.
SaveForm(q) ==
  /\ Does(q, "SaveForm")
  /\ LET r == request[q] IN
     form' = [form EXCEPT ![r.m] = Over(r.set, r.row)] /\ Continue(q, r)
  /\ UNCHANGED <<flow, node, option, kanban, stage, field, response, lead, history>>

\* formRepository.delete writes the flag alone.
FlagForm(q) ==
  /\ Does(q, "FlagForm")
  /\ LET r == request[q] IN form' = [form EXCEPT ![r.m].is = "deleted"] /\ Continue(q, r)
  /\ UNCHANGED <<flow, node, option, kanban, stage, field, response, lead, history>>

CreateFormRow(q) ==
  /\ Does(q, "CreateFormRow")
  /\ Absent(form) # {}
  /\ form' = [form EXCEPT ![Fresh(form)] = [is |-> "live", open |-> FALSE]]
  /\ Continue(q, request[q])
  /\ UNCHANGED <<flow, node, option, kanban, stage, field, response, lead, history>>

\* saveFieldsAndOptions is one transaction, but its statements see what others
\* commit between them. The first one chooses and locks the fields that are
\* not in the list; the upserts of the others wait for the locks on them.
Locked(q) == UNION {request[p].targets : p \in {x \in InFlight \ {q} :
                                            Head(request[x].todo) = "UpsertFields"}}
Listed(r) == {r.list[i] : i \in DOMAIN r.list}

LockDropped(q) ==
  /\ Does(q, "LockDropped")
  /\ LET r == request[q]
         dropped == FieldsOf(r.m) \ Listed(r)
     IN /\ dropped \intersect Locked(q) = {}
        /\ Continue(q, [r EXCEPT !.targets = dropped])
  /\ UNCHANGED <<tables, history>>

\* An upsert writes isDeleted = false; 0 in the list is a field without an id.
UpsertFields(q) ==
  /\ Does(q, "UpsertFields")
  /\ LET r == request[q]
         listed == Listed(r) \ {0}
         new == IF 0 \in Listed(r) THEN {Fresh(field)} ELSE {}
     IN /\ 0 \in Listed(r) => Absent(field) # {}
        /\ listed \intersect Locked(q) = {}
        /\ field' = [x \in Field |->
             CASE x \in r.targets -> [field[x] EXCEPT !.is = "deleted"]
               [] x \in listed \union new -> [is |-> "live", form |-> r.m]
               [] OTHER -> field[x]]
        /\ Continue(q, [r EXCEPT !.targets = listed \union new])
  /\ UNCHANGED <<flow, node, option, kanban, stage, form, response, lead, history>>

\* The response and its answers in one statement, whatever became of the form
\* or of the fields since the page was loaded.
SaveResponse(q) ==
  /\ Does(q, "SaveResponse")
  /\ Absent(response) # {}
  /\ LET r == request[q] IN
     /\ response' = [response EXCEPT ![Fresh(response)] =
          [is |-> "live", form |-> r.m, answers |-> r.targets]]
     /\ Continue(q, r)
  /\ UNCHANGED <<flow, node, option, kanban, stage, form, field, lead, history>>

FlagResponse(q) ==
  /\ Does(q, "FlagResponse")
  /\ LET r == request[q] IN
     response' = [response EXCEPT ![r.n].is = "deleted"] /\ Continue(q, r)
  /\ UNCHANGED <<flow, node, option, kanban, stage, form, field, lead, history>>

\* findByLeadPhone: the conversation of the number updated last, of a flow that
\* is not deleted. Without one the submission ends here.
FindByLeadPhone(q) ==
  /\ Does(q, "FindByLeadPhone")
  /\ LET r == request[q]
         theirs == {c \in Conv : PhoneOf[c] = PhoneOf[r.c] /\ flow[Min(Flow)].is = "live"}
     IN IF theirs = {} THEN Refuse(q) ELSE Continue(q, [r EXCEPT !.c = Max(theirs)])
  /\ UNCHANGED <<tables, history>>

----------------------------------------------------------------------------
(* What the pages show *)

\* getPublicForm: a form that is switched off is not shown.
Offered(m) == form[m].is = "live" /\ form[m].open
\* listResponses: none of a deleted form; the answers to fields that still exist.
ListResponses(m) ==
  [x \in {y \in Live(response) : response[y].form = m /\ form[m].is = "live"} |->
     response[x].answers \intersect Live(field)]

----------------------------------------------------------------------------
(* The requests *)

CreateForm == {Ask("CreateForm", <<"CreateFormRow">>, <<>>)}

\* The page sends back the fields it shows, with a new one or without one of them.
UpdateForm ==
  UNION {{Ask("UpdateForm", <<"LoadForm", "SaveForm", "LockDropped", "UpsertFields">>,
              [m |-> m, list |-> l]) :
            l \in {SetToSeq(S) : S \in {FieldsOf(m) \union {0}}
                       \union {FieldsOf(m) \ {x} : x \in FieldsOf(m)}}} : m \in Live(form)}
SetFormActive ==
  {Ask("SetFormActive", <<"LoadForm", "SaveForm">>, [m |-> m, set |-> [open |-> on]]) :
     m \in Live(form), on \in BOOLEAN}
DeleteForm == {Ask("DeleteForm", <<"LoadForm", "FlagForm">>, [m |-> m]) : m \in Live(form)}
DeleteResponse ==
  {Ask("DeleteResponse", <<"LoadForm", "FlagResponse">>, [m |-> response[x].form, n |-> x]) :
     x \in Live(response)}

\* A lead fills the form the bot sent; the link names a stage, that of a node,
\* or one that has been deleted since ("FillOldLink").
Filled(m, s, c) ==
  Ask(IF s = None \/ s \in Live(stage) THEN "FillForm" ELSE "FillOldLink",
      <<"LoadForm", "SaveResponse">> \o
        IF s = None THEN <<>> ELSE <<"FindByLeadPhone", "SaveLead">>,
      [m |-> m, s |-> s, c |-> c, targets |-> FieldsOf(m)])
Links ==
  {node[n].stage : n \in Live(node)} \union {x \in Stage : stage[x].is = "deleted"} \union {None}
FillForm ==
  UNION {{Filled(m, s, c) :
            s \in Links,
            c \in {x \in Conv : \A y \in Conv : PhoneOf[y] = PhoneOf[x] => y <= x}} :
         m \in {x \in Live(form) : Offered(x)}}

FormRequests ==
  CreateForm \union UpdateForm \union SetFormActive \union DeleteForm
    \union DeleteResponse \union FillForm

FormStatement(q) ==
  \/ LoadForm(q) \/ SaveForm(q) \/ FlagForm(q) \/ CreateFormRow(q)
  \/ LockDropped(q) \/ UpsertFields(q)
  \/ SaveResponse(q) \/ FlagResponse(q) \/ FindByLeadPhone(q)
=============================================================================
