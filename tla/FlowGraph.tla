------------------------------ MODULE FlowGraph ------------------------------
(***************************************************************************)
(* A flow as the engine reads it (FlowDetails, buildNodeMap) and where a   *)
(* walk through it must end.  A flow is a record:                          *)
(*   start    the start node, or None                                      *)
(*   kind     per node: its type, "GONE" when the map has no such node     *)
(*   next     per node: defaultNextNodeId, or None                         *)
(*   options  per node: the targets of its options, sorted by order        *)
(*   stage    per node: kanbanStageId, or None                             *)
(*   says     per node: FALSE only for an END whose content is blank       *)
(* Route and Outcome state declaratively what executeFromCurrentPosition   *)
(* computes by its loop; FlowEngine is checked against them.               *)
(***************************************************************************)
EXTENDS Naturals, Sequences, FiniteSets

CONSTANTS Node, Stage, None

Kind == {"TEXT", "FORM", "CHOICE", "FREE", "END", "GONE"}

Flow ==
  {f \in [start   : Node \cup {None},
          kind    : [Node -> Kind],
          next    : [Node -> Node \cup {None}],
          options : [Node -> Seq(Node \cup {None})],
          stage   : [Node -> Stage \cup {None}],
          says    : [Node -> BOOLEAN]] :
     \A n \in Node : f.says[n] \/ f.kind[n] = "END"}

HasNode(f, n) == f.kind[n] # "GONE"
IsSpeech(f, n) == f.kind[n] \in {"TEXT", "FORM"}
IsQuestion(f, n) == f.kind[n] \in {"CHOICE", "FREE"}

\* A multiple choice without options is answered freely.
HasOptions(f, n) == f.kind[n] = "CHOICE" /\ f.options[n] # <<>>

\* The answer k picks option k of the sorted list; 0 matches none.
Matches(f, n, k) == HasOptions(f, n) => k \in 1 .. Len(f.options[n])
Target(f, n, k) == IF HasOptions(f, n) THEN f.options[n][k] ELSE f.next[n]

-----------------------------------------------------------------------------
\* The walk leaves n at once for another node.
PassesOn(f, n) == IsSpeech(f, n) /\ f.next[n] # None

\* The paths from n that follow the flow and visit no node twice ...
Paths(f, n) ==
  {p \in UNION {[1 .. k -> Node] : k \in 1 .. Cardinality(Node)} :
     /\ p[1] = n
     /\ \A i \in 1 .. Len(p) - 1 : PassesOn(f, p[i]) /\ p[i + 1] = f.next[p[i]]
     /\ \A i, j \in 1 .. Len(p) : i # j => p[i] # p[j]}

\* ... and the longest of them.
Route(f, n) == CHOOSE p \in Paths(f, n) : \A q \in Paths(f, n) : Len(q) <= Len(p)

\* Where a walk from n ends: what it said, the node it stands at, whether it
\* waits for an answer or is over (an end, a missing node, a cycle).
\* Only the last node may have nothing to say: a lost one, or a blank END.
Outcome(f, n) ==
  LET route == Route(f, n)
      last == route[Len(route)]
      speaks == HasNode(f, last) /\ f.says[last]
  IN  [said |-> SubSeq(route, 1, IF speaks THEN Len(route) ELSE Len(route) - 1),
       node |-> IF PassesOn(f, last) THEN f.next[last] ELSE last,
       asks |-> IsQuestion(f, last)]
=============================================================================
