---------------------------- MODULE MCFlowEngine ----------------------------
(* Instances of FlowEngine for TLC: six small flows that reach every branch *)
(* of the engine.                                                            *)
EXTENDS FlowEngine, TLC

CONSTANTS i1, i2, m1, m2, m3, n1, n2, n3, n4, st1

Plain == [n \in Node |-> None]
NoOptions == [n \in Node |-> <<>>]
Spoken == [n \in Node |-> TRUE]

\* n1 greets and moves the lead to a stage, n2 is a choice (its second option
\* leads nowhere), n3 a free question, n4 the end.
Qualify ==
  [start |-> n1,
   kind |-> n1 :> "TEXT" @@ n2 :> "CHOICE" @@ n3 :> "FREE" @@ n4 :> "END",
   next |-> n1 :> n2 @@ n3 :> n4 @@ Plain,
   options |-> n2 :> <<n3, None>> @@ NoOptions,
   stage |-> n1 :> st1 @@ Plain,
   says |-> Spoken]

\* A question, then a text and a form that point at each other.
Circle ==
  [start |-> n3,
   kind |-> n1 :> "TEXT" @@ n2 :> "FORM" @@ n3 :> "FREE" @@ n4 :> "GONE",
   next |-> n1 :> n2 @@ n2 :> n1 @@ n3 :> n1 @@ Plain,
   options |-> NoOptions, stage |-> Plain, says |-> Spoken]

\* A text whose next node was deleted.
Dangling ==
  [Circle EXCEPT !.start = n1, !.next = n1 :> n4 @@ Plain]

\* A question whose answer leads to an END without content.
Silent ==
  [Circle EXCEPT !.kind = n1 :> "CHOICE" @@ n4 :> "END" @@ Circle.kind,
                 !.start = n1, !.next = n1 :> n4 @@ Plain,
                 !.says = n4 :> FALSE @@ Spoken]

\* A greeting, a free question, the end.
Short ==
  [Qualify EXCEPT !.kind = n2 :> "FREE" @@ Qualify.kind,
                  !.next = n2 :> n4 @@ Qualify.next, !.options = NoOptions]

\* Short after the operator deleted its question.
Cut == [Short EXCEPT !.kind = n2 :> "GONE" @@ Short.kind]

AllFlows == {Qualify, Circle, Dangling, Silent}
ProxyFlows == {Qualify, Silent}
ShortFlows == {Short, Cut}
Messages == Permutations(Msg)
=============================================================================
