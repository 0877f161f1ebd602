-------------------------- MODULE DeliveryContract --------------------------
(***************************************************************************)
(* What the outbox promises about each reply it accepts, without tables,   *)
(* ticks or workers: at-least-once attempts, a SENT that is never a lie, a *)
(* FAILED that is never hasty, and replies of a lead that overtake one     *)
(* another only after an attempt at the earlier one failed.                *)
(***************************************************************************)
EXTENDS Naturals

CONSTANTS RowId, Lead, NoLead, MaxAttempts

VARIABLES status, lead, due, sends, tries

vars == <<status, lead, due, sends, tries>>

Init ==
  /\ status = [r \in RowId |-> "ABSENT"]
  /\ lead = [r \in RowId |-> NoLead]
  /\ due = [r \in RowId |-> 0]
  /\ sends = [r \in RowId |-> 0]
  /\ tries = [r \in RowId |-> 0]

Before(q, r) ==
  /\ lead[q] = lead[r] /\ lead[q] # NoLead
  /\ due[q] < due[r] \/ (due[q] = due[r] /\ q < r)

Touched(r) == sends[r] > 0 \/ tries[r] > 0

\* No earlier reply of the lead is still untouched.
InTurn(r) ==
  \A q \in RowId : Before(q, r) /\ status[q] # "ABSENT" => Touched(q)

Accept(l) ==
  /\ \A r \in RowId :
       \/ status'[r] = status[r] /\ lead'[r] = lead[r] /\ due'[r] = due[r]
       \/ lead[r] = NoLead /\ status'[r] = "PENDING" /\ lead'[r] = l
  /\ UNCHANGED <<sends, tries>>

Deliver(r) ==
  /\ InTurn(r)
  /\ sends' = [sends EXCEPT ![r] = @ + 1]
  /\ UNCHANGED <<status, lead, due, tries>>

Fail(r) ==
  /\ InTurn(r)
  /\ tries' = [tries EXCEPT ![r] = @ + 1]
  /\ UNCHANGED <<status, lead, due, sends>>

Confirm(r) ==
  /\ sends[r] > 0
  /\ status' = [status EXCEPT ![r] = "SENT"]
  /\ UNCHANGED <<lead, due, sends, tries>>

GiveUp(r) ==
  /\ tries[r] >= MaxAttempts
  /\ status' = [status EXCEPT ![r] = "FAILED"]
  /\ UNCHANGED <<lead, due, sends, tries>>

Forget(l) ==
  /\ status' = [r \in RowId |-> IF lead[r] = l THEN "ABSENT" ELSE status[r]]
  /\ UNCHANGED <<lead, due, sends, tries>>

Next ==
  \/ \E l \in Lead : Accept(l) \/ Forget(l)
  \/ \E r \in RowId : Deliver(r) \/ Fail(r) \/ Confirm(r) \/ GiveUp(r)

Spec == Init /\ [][Next]_vars
=============================================================================
