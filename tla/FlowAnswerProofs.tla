-------------------------- MODULE FlowAnswerProofs --------------------------
(***************************************************************************)
(* Proofs about questions and answers, in the runs of one process that no  *)
(* fault, redelivery or overlapping request disturbs: the bot stands at    *)
(* the question it asked last (AskInv), and a question is answered no more *)
(* often than it was asked (CountInv, which needs AskInv).                 *)
(*                                                                         *)
(* And, for any number of processes, about the loop of the engine, which   *)
(* goes where the graph leads: for any flow, what it says and where it     *)
(* leaves the conversation are FlowGraph's Outcome. First what a path      *)
(* without end or repetition is; then the loop, whose trail is such a      *)
(* path; then the rows it writes on the way.                               *)
(***************************************************************************)
EXTENDS FlowEngineProofs, WellFoundedInduction

\* Steps that hold a conversation and may be about to change it; steps before the
\* handler has anything to say.
Working == {"createProgress", "answer", "finish", "advance", "walk", "saveProgress",
            "record", "enqueue"}
Wordless == {"findActive", "findLast", "createSilent", "create", "createProgress",
             "findProgress", "answer", "finish", "advance"}

\* When out is enqueued, c stands at the question its lead was asked last.
Asked(c, out) ==
  LET said == IF out = <<>> THEN outbox[c] ELSE out
  IN  /\ progress[c].waiting
      /\ said # <<>> /\ said[Len(said)][2] = progress[c].node

\* An active conversation with a row was asked its question, or the handler that
\* works on it will have asked it when it leaves: nothing stops it on the way, for the
\* message it handles was not recorded and the conversation it holds is there.
StandsAsked ==
  \A c \in Active :
    HasRow(c) => \/ Asked(c, <<>>)
                 \/ \E p \in Process : at[p] \in Working /\ local[p].conv = c
NewRowless == \A c \in ConvId : c > lastConv => ~HasRow(c)
RequestFresh ==
  act.kind = "stage" =>
    \/ status[act.conv] = "ABSENT"
    \/ /\ act.row.node = progress[act.conv].node
       /\ act.row.waiting = progress[act.conv].waiting
Unrecorded ==
  /\ \A m \in Msg : text[m] = -1 => recorded[m] = 0
  /\ \A i \in Instance : \A m \in inbox[i] : recorded[m] = 0 /\ at[<<i, m>>] = "idle"
HoldsOn(p) ==
  LET L == local[p]
  IN  /\ at[p] \notin {"idle", "enqueue"} => recorded[p[2]] = 0
      /\ at[p] \notin Searching => Exists(p)
      /\ at[p] \in Wordless => L.out = <<>>
      /\ at[p] = "enqueue" => L.out # <<>>
      /\ at[p] = "saveProgress" => L.conv \notin Active
      /\ at[p] \in {"record", "enqueue"} /\ L.conv \in Active /\ HasRow(L.conv) =>
           Asked(L.conv, L.out)
AskInv ==
  Undisturbed =>
    /\ StandsAsked /\ NewRowless /\ RequestFresh /\ Unrecorded
    /\ \A p \in Process : HoldsOn(p)

\* The question an active conversation waits at was asked once more than answered,
\* or the handler that works on it is about to say it; nobody answers it meanwhile.
Given(c, n) == Cardinality({a \in answers : a.conv = c /\ a.node = n})
Due(c) == Given(c, progress[c].node) < TimesAsked(c, progress[c].node)
DueOrWorked ==
  \A c \in Active :
    HasRow(c) => Due(c) \/ \E p \in Process : at[p] \in Working /\ local[p].conv = c
MayAnswer(p) ==
  LET L == local[p]
  IN  /\ at[p] = "findProgress" => L.conv \in Active
      /\ at[p] = "answer" => Given(L.conv, L.node) < TimesAsked(L.conv, L.node)
      /\ at[p] \in {"record", "enqueue"} /\ L.conv \in Active /\ HasRow(L.conv) =>
           \/ Due(L.conv)
           \/ \E k \in 1 .. Len(L.out) : L.out[k] = <<"say", progress[L.conv].node>>
CountInv ==
  Undisturbed =>
    /\ IsFiniteSet(answers)
    /\ \A c \in ConvId, n \in Node : Given(c, n) <= TimesAsked(c, n)
    /\ DueOrWorked
    /\ \A p \in Process : MayAnswer(p)

-----------------------------------------------------------------------------
(* Lemmas *)

-----------------------------------------------------------------------------
(* The bot stands at the question it asked last *)

\* What is enqueued comes last.
LEMMA LastOfConcat ==
  ASSUME NEW S, NEW s \in Seq(S), NEW t \in Seq(S), t # <<>>
  PROVE  s \o t # <<>> /\ (s \o t)[Len(s \o t)] = t[Len(t)]
<1>1. Len(t) \in Nat \ {0} /\ Len(s) \in Nat
  BY EmptySeq, LenProperties
<1>2. Len(s \o t) = Len(s) + Len(t) /\ s \o t \in Seq(S)
  BY ConcatProperties
<1>3. (s \o t)[Len(s) + Len(t)] = t[Len(t)]
  BY <1>1, ConcatProperties
<1>4. s \o t # <<>>
  BY <1>1, <1>2, EmptySeq
<1> QED  BY <1>2, <1>3, <1>4

\* A step of the only handler within its conversation, after which it goes on.
LEMMA StillWorking ==
  ASSUME Sound, StandsAsked, NEW i, Instance = {i}, NEW p \in Process,
         at[p] # "idle", at[p] \notin Searching, outbox' = outbox,
         at'[p] \in Working, local'[p].conv = local[p].conv,
         \A c \in ConvId : c # local[p].conv => status'[c] = status[c] /\ progress'[c] = progress[c]
  PROVE  StandsAsked'
<1> SUFFICES ASSUME NEW c \in Active', HasRow(c)', c # local[p].conv
             PROVE  Asked(c, <<>>)'
  BY DEF StandsAsked
<1>1. c \in Active /\ HasRow(c)
  BY DEF Active, HasRow
<1>2. Asked(c, <<>>)
  BY <1>1, OneHandler DEF StandsAsked, Working
<1> QED  BY <1>2 DEF Asked, Active

\* A handler's step in an undisturbed run.
LEMMA AskHandlerStep ==
  ASSUME Sound, OneInv, AskInv, NEW i, Instance = {i}, NEW p \in Process, HandlerStep(p)
  PROVE  AskInv'
<1> DEFINE L == local[p]
           m == p[2]
<1>1. /\ at[p] # "idle" /\ UNCHANGED <<overlap, act, again, faults, text, inbox>>
      /\ L \in Entities /\ m \in Msg /\ p = <<i, m>>
      /\ \A q \in Process : q # p => at'[q] = at[q] /\ local'[q] = local[q]
  <2>1. m \in Msg /\ p = <<i, m>>
    BY DEF Process
  <2> QED  BY <2>1, HandlerStepFrame DEF Sound, TypeOK
<1>2. CASE ~Undisturbed
  BY <1>1, <1>2 DEF AskInv, Undisturbed
<1>3. CASE Undisturbed
  <2>1. /\ StandsAsked /\ NewRowless /\ Unrecorded /\ HoldsOn(p) /\ ~overlap
        /\ lastConv \in Nat
    BY <1>3, EngineAssumption DEF AskInv, Undisturbed, Sound, TypeOK
  <2>2. act' = NoAct /\ act'.kind # "stage"
    BY <1>1, <2>1 DEF OneInv, Idle, NoAct
  <2>3. \A q \in Process : q # p => at[q] = "idle" /\ at'[q] = "idle"
    BY <1>1, OneHandler
  <2>4. ASSUME StandsAsked', NewRowless', Unrecorded', HoldsOn(p)'
        PROVE  AskInv'
    <3>1. \A q \in Process : HoldsOn(q)'
      BY <2>3, <2>4 DEF HoldsOn, Searching, Wordless
    <3> QED  BY <2>2, <2>4, <3>1 DEF AskInv, RequestFresh
  <2>5. ASSUME recorded' = recorded \/ \E c : recorded' = [recorded EXCEPT ![m] = c]
        PROVE  Unrecorded'
    <3>1. text[m] # -1
      BY <1>1 DEF Sound, HandlerInv, Knows
    <3>2. \A x \in Msg : x # m => recorded'[x] = recorded[x]
      BY <2>5 DEF Sound, TypeOK
    <3>3. \A j \in Instance : \A x \in inbox[j] : x \in Msg /\ x # m
      BY <1>1, <2>1 DEF Unrecorded, Sound, TypeOK
    <3>4. \A j \in Instance : \A x \in inbox[j] : at'[<<j, x>>] = "idle"
      BY <1>1, <2>3, <3>3 DEF Process
    <3> QED  BY <1>1, <2>1, <3>1, <3>2, <3>3, <3>4 DEF Unrecorded
  <2>6. ASSUME progress' = progress, lastConv' = lastConv \/ lastConv' = lastConv + 1
        PROVE  NewRowless'
    BY <2>1, <2>6 DEF NewRowless, HasRow, ConvId
  <2>7. ASSUME at[p] \notin Searching, lastConv' = lastConv,
               \A c \in ConvId : c # L.conv => progress'[c] = progress[c]
        PROVE  NewRowless'
    <3>1. L.conv \in ConvId /\ L.conv <= lastConv
      BY <2>7, HeldConversation
    <3>2. \A c \in ConvId : c > lastConv => c # L.conv
      BY <2>1, <3>1 DEF ConvId
    <3> QED  BY <2>1, <2>7, <3>2 DEF NewRowless, HasRow
  <2>8. ASSUME NEW step \in At, NEW M, GoOn(p, step, M)
        PROVE  at'[p] = step /\ local'[p] = M
    BY <2>8 DEF GoOn, Sound, TypeOK
  <2>9. ASSUME Leave(p)
        PROVE  at'[p] = "idle" /\ HoldsOn(p)'
    <3>1. at'[p] = "idle"
      BY <2>9 DEF Leave, Sound, TypeOK
    <3> QED  BY <3>1 DEF HoldsOn, Searching, Wordless
  <2>10. at[p] \notin Working => \A c \in Active : HasRow(c) => Asked(c, <<>>)
    BY <2>1, <2>3 DEF StandsAsked, Working
  <2>11. ASSUME UNCHANGED <<status, progress, outbox>>, at[p] \notin Working
         PROVE  /\ StandsAsked' /\ Active' = Active
                /\ \A c \in Active : HasRow(c)' => Asked(c, <<>>)'
    <3>1. Active' = Active /\ \A c : HasRow(c)' = HasRow(c) /\ Asked(c, <<>>)' = Asked(c, <<>>)
      BY <2>11 DEF Active, HasRow, Asked
    <3> QED  BY <2>10, <2>11, <3>1 DEF StandsAsked
  <2>12. CASE FindActive(p)
    <3>1. UNCHANGED <<status, progress, outbox, lastConv, recorded>> /\ at[p] = "findActive"
      BY <2>12 DEF FindActive, conversations
    <3>2. L.out = <<>> /\ recorded[m] = 0
      BY <2>1, <3>1 DEF HoldsOn, Wordless
    <3>3. PICK step \in {"createSilent", "findLast", "record", "findProgress"}, c \in Active \cup {L.conv} :
             /\ GoOn(p, step, [L EXCEPT !.conv = c])
             /\ step \in {"record", "findProgress"} => c \in Active
      <4>1. [L EXCEPT !.conv = L.conv] = L
        BY <1>1 DEF Entities
      <4> QED  BY <2>12, <4>1 DEF FindActive
    <3>4. at'[p] = step /\ local'[p].conv = c /\ local'[p].out = <<>>
      BY <1>1, <2>8, <3>2, <3>3 DEF At, Entities
    <3>5. StandsAsked' /\ Active' = Active /\ \A d \in Active : HasRow(d)' => Asked(d, <<>>)'
      BY <2>11, <3>1 DEF Working
    <3>6. step \in {"record", "findProgress"} => status'[c] # "ABSENT"
      BY <3>1, <3>3 DEF Active
    <3>7. HoldsOn(p)'
      BY <3>1, <3>2, <3>3, <3>4, <3>5, <3>6 DEF HoldsOn, Searching, Wordless, Exists
    <3> QED  BY <2>1, <2>4, <2>5, <2>6, <3>1, <3>5, <3>7
  <2>13. CASE FindLastFinished(p)
    <3>1. UNCHANGED <<status, progress, outbox, lastConv, recorded>> /\ at[p] = "findLast"
      BY <2>13 DEF FindLastFinished, conversations
    <3>2. L.out = <<>> /\ recorded[m] = 0
      BY <2>1, <3>1 DEF HoldsOn, Wordless
    <3>3. StandsAsked' /\ Active' = Active
      BY <2>11, <3>1 DEF Working
    <3>4. ASSUME NEW c \in Finished, GoOn(p, "record", [L EXCEPT !.conv = c]) PROVE HoldsOn(p)'
      <4>1. at'[p] = "record" /\ local'[p].conv = c
        BY <1>1, <2>8, <3>4 DEF At, Entities
      <4>2. c \notin Active /\ status'[c] # "ABSENT"
        BY <3>1 DEF Active, Finished
      <4> QED  BY <3>1, <3>2, <3>3, <4>1, <4>2 DEF HoldsOn, Searching, Wordless, Exists
    <3>5. ASSUME NEW step \in {"create", "createSilent"}, GoOn(p, step, L) PROVE HoldsOn(p)'
      BY <2>8, <3>1, <3>2, <3>5 DEF HoldsOn, Searching, Wordless, At
    <3>6. HoldsOn(p)'
      BY <2>9, <2>13, <3>4, <3>5 DEF FindLastFinished, FirstContact
    <3> QED  BY <2>1, <2>4, <2>5, <2>6, <3>1, <3>3, <3>6
  <2>14. CASE CreateSilent(p) \/ Create(p)
    <3>0. PICK c : c = lastConv + 1
      OBVIOUS
    <3>1. PICK step \in {"record", "createProgress"} : CreateConversation(p, step # "record", step)
      BY <2>14 DEF CreateSilent, Create
    <3>2. /\ c \in ConvId /\ lastConv' = c /\ status' = [status EXCEPT ![c] = "ACTIVE"]
          /\ UNCHANGED <<progress, recorded, outbox>> /\ GoOn(p, step, [L EXCEPT !.conv = c])
      BY <2>1, <3>0, <3>1 DEF CreateConversation, ConvId
    <3>3. Active' = {c} /\ ~HasRow(c)' /\ status'[c] # "ABSENT"
      <4>1. Active = {}
        BY <2>1, <2>14 DEF CreateSilent, Create, OneInv
      <4>2. c > lastConv
        BY <2>1, <3>0
      <4> QED  BY <2>1, <3>2, <4>1, <4>2 DEF Active, NewRowless, HasRow, Sound, TypeOK
    <3>4. L.out = <<>> /\ recorded[m] = 0
      BY <2>1, <2>14 DEF HoldsOn, Wordless, CreateSilent, Create
    <3>5. at'[p] = step /\ local'[p].conv = c /\ local'[p].out = <<>>
      BY <1>1, <2>8, <3>2, <3>4 DEF At, Entities
    <3>6. HoldsOn(p)'
      BY <3>2, <3>3, <3>4, <3>5 DEF HoldsOn, Searching, Wordless, Exists
    <3>7. StandsAsked'
      BY <3>3 DEF StandsAsked
    <3> QED  BY <2>4, <2>5, <2>6, <3>0, <3>2, <3>6, <3>7
  <2>15. CASE FindProgress(p)
    <3> DEFINE n == progress[L.conv].node
    <3>1. UNCHANGED <<status, progress, outbox, lastConv, recorded>> /\ at[p] = "findProgress"
      BY <2>15 DEF FindProgress, conversations
    <3>2. L.out = <<>> /\ recorded[m] = 0 /\ Exists(p) /\ Exists(p)' = (status[local'[p].conv] # "ABSENT")
      BY <2>1, <3>1 DEF HoldsOn, Wordless, Searching, Exists
    <3>3. StandsAsked' /\ Active' = Active /\ \A d \in Active : HasRow(d)' => Asked(d, <<>>)'
      BY <2>11, <3>1 DEF Working
    <3>4. ASSUME GoOn(p, "record", L) PROVE HoldsOn(p)'
      <4>1. at'[p] = "record" /\ local'[p] = L
        BY <2>8, <3>4 DEF At
      <4> QED  BY <3>1, <3>2, <3>3, <4>1 DEF HoldsOn, Searching, Wordless, Exists
    <3>5. ASSUME GoOn(p, "record", [L EXCEPT !.out = << <<"again", n>> >>]), progress[L.conv].waiting
          PROVE  HoldsOn(p)'
      <4>1. at'[p] = "record" /\ local'[p].conv = L.conv /\ local'[p].out = << <<"again", n>> >>
        BY <1>1, <2>8, <3>5 DEF At, Entities
      <4>2. \A c, out : c = L.conv /\ out = << <<"again", n>> >> => Asked(c, out)'
        <5> SUFFICES ASSUME NEW c, NEW out, c = L.conv, out = << <<"again", n>> >>
                     PROVE  Asked(c, out)'
          OBVIOUS
        <5>1. out # <<>> /\ Len(out) = 1 /\ out[1][2] = progress[c].node
          OBVIOUS
        <5> QED  BY <3>1, <3>5, <5>1 DEF Asked
      <4> QED  BY <3>1, <3>2, <4>1, <4>2 DEF HoldsOn, Searching, Wordless, Exists
    <3>6. ASSUME GoOn(p, "answer", [L EXCEPT !.node = n, !.waiting = TRUE,
                                             !.stage = progress[L.conv].stage])
          PROVE  HoldsOn(p)'
      <4>1. at'[p] = "answer" /\ local'[p].conv = L.conv /\ local'[p].out = <<>>
        <5> DEFINE M == [L EXCEPT !.node = n, !.waiting = TRUE, !.stage = progress[L.conv].stage]
        <5>1. M.conv = L.conv /\ M.out = L.out
          BY <1>1 DEF Entities
        <5> HIDE DEF M
        <5> QED  BY <2>8, <3>2, <3>6, <5>1 DEF At, M
      <4> QED  BY <3>1, <3>2, <4>1 DEF HoldsOn, Searching, Wordless, Exists
    <3>7. HoldsOn(p)'
      BY <2>15, <3>4, <3>5, <3>6 DEF FindProgress
    <3> QED  BY <2>1, <2>4, <2>5, <2>6, <3>1, <3>3, <3>7
  <2>16. ASSUME NEW step \in Working \ {"enqueue"}, NEW M, GoOn(p, step, M), M.conv = L.conv,
                at[p] \in Working \ {"record", "enqueue"},
                UNCHANGED <<recorded, outbox, lastConv>>,
                \A c \in ConvId : c # L.conv => status'[c] = status[c] /\ progress'[c] = progress[c],
                status'[L.conv] # "ABSENT", step \in Wordless => M.out = <<>>,
                step \in {"record", "saveProgress"} =>
                  \/ L.conv \notin Active'
                  \/ \A c, out : c = L.conv /\ out = M.out => Asked(c, out)',
                step = "saveProgress" => L.conv \notin Active'
         PROVE  AskInv'
    <3>1. at'[p] = step /\ local'[p] = M /\ recorded[m] = 0
      BY <2>1, <2>8, <2>16 DEF At, Working, HoldsOn
    <3>2. HoldsOn(p)'
      BY <2>16, <3>1 DEF HoldsOn, Working, Wordless, Searching, Exists
    <3>3. StandsAsked'
      BY <1>1, <2>1, <2>16, <3>1, StillWorking DEF Working, Searching
    <3> QED  BY <2>4, <2>5, <2>7, <2>16, <3>2, <3>3 DEF Working, Searching
  <2>17. at[p] \in Working => L.conv \in ConvId /\ Exists(p)
    BY <2>1, HeldConversation DEF HoldsOn, Working, Searching
  <2>18. at[p] \in Wordless => L.out = <<>>
    BY <2>1 DEF HoldsOn
  <2>19. CASE CreateProgress(p)
    <3>1. PICK M : /\ GoOn(p, "walk", M) /\ M.conv = L.conv /\ at[p] = "createProgress"
                   /\ UNCHANGED <<status, recorded, outbox, lastConv>>
                   /\ \A c \in ConvId : c # L.conv => progress'[c] = progress[c]
      BY <1>1, <2>19 DEF CreateProgress, conversations, Entities, Sound, TypeOK
    <3> QED  BY <2>16, <2>17, <3>1 DEF Working, Wordless, Exists
  <2>20. CASE SaveAnswer(p)
    <3> DEFINE T == Target(L.plan, L.node, text[m])
               M == [L EXCEPT !.node = T, !.waiting = FALSE, !.from = T]
    <3>1. /\ at[p] = "answer" /\ UNCHANGED <<status, progress, recorded, outbox, lastConv>>
          /\ GoOn(p, "finish", L) \/ GoOn(p, "advance", M)
      BY <2>20 DEF SaveAnswer, conversations
    <3>2. M.conv = L.conv /\ M.out = L.out
      <4> HIDE DEF T
      <4> QED  BY <1>1 DEF Entities
    <3> HIDE DEF M
    <3>3. CASE GoOn(p, "finish", L)
      BY <2>16, <2>17, <2>18, <3>1, <3>3 DEF Working, Wordless, Exists
    <3>4. CASE GoOn(p, "advance", M)
      BY <2>16, <2>17, <2>18, <3>1, <3>2, <3>4 DEF Working, Wordless, Exists
    <3> QED  BY <3>1, <3>3, <3>4
  <2>21. ASSUME WriteFinished(p), at[p] \in Working
         PROVE  /\ UNCHANGED <<recorded, outbox, lastConv>> /\ L.conv \notin Active'
                /\ status'[L.conv] # "ABSENT"
                /\ \A c \in ConvId : c # L.conv => status'[c] = status[c]
    BY <2>17, <2>21 DEF WriteFinished, Active, Sound, TypeOK
  <2>22. ASSUME NEW M, M.conv = L.conv, at[p] \in Working, WriteProgress(p, M)
         PROVE  /\ UNCHANGED <<recorded, outbox, lastConv, status>>
                /\ progress'[L.conv] = [node |-> M.node, waiting |-> M.waiting, stage |-> M.stage]
                /\ \A c \in ConvId : c # L.conv => progress'[c] = progress[c]
                /\ status'[L.conv] # "ABSENT"
    BY <2>17, <2>22 DEF WriteProgress, conversations, Exists, Sound, TypeOK
  <2>23. CASE FinishUnanswered(p)
    <3>1. progress' = progress /\ WriteFinished(p) /\ GoOn(p, "record", L) /\ at[p] = "finish"
      BY <2>23 DEF FinishUnanswered
    <3> QED  BY <2>16, <2>21, <3>1 DEF Working, Wordless
  <2>24. CASE WalkCycle(p)
    <3>1. progress' = progress /\ WriteFinished(p) /\ GoOn(p, "saveProgress", L) /\ at[p] = "walk"
      BY <2>24 DEF WalkCycle
    <3> QED  BY <2>16, <2>21, <3>1 DEF Working, Wordless
  <2>25. CASE WalkLost(p)
    <3>1. progress' = progress /\ WriteFinished(p) /\ GoOn(p, "record", L) /\ at[p] = "walk"
      BY <2>25 DEF WalkLost
    <3> QED  BY <2>16, <2>21, <3>1 DEF Working, Wordless
  <2>26. at[p] = "walk" => /\ AtNode(L) \in Entities /\ AtNode(L).conv = L.conv
                           /\ AtNode(L).node = L.node /\ L.plan \in Flows /\ L.node \in Node
    <3>1. at[p] = "walk" => L.plan \in Flows /\ L.node \in Node
      BY DEF Sound, HandlerInv, Knows, Standing
    <3> QED  BY <1>1, <3>1, AtNodeType
  <2>27. CASE WalkEnd(p)
    <3>1. progress' = progress /\ WriteFinished(p) /\ GoOn(p, "saveProgress", AtNode(L)) /\ at[p] = "walk"
      BY <2>27 DEF WalkEnd, InLoop
    <3> QED  BY <2>16, <2>21, <2>26, <3>1 DEF Working, Wordless
  <2>28. CASE Advance(p)
    <3>1. WriteProgress(p, L) /\ GoOn(p, "walk", L) /\ at[p] = "advance"
      BY <2>28 DEF Advance
    <3> QED  BY <2>16, <2>22, <3>1 DEF Working, Wordless
  <2>29. CASE WalkOn(p)
    <3> DEFINE M == [AtNode(L) EXCEPT !.node = L.plan.next[L.node], !.waiting = FALSE]
    <3>1. WriteProgress(p, M) /\ GoOn(p, "walk", M) /\ at[p] = "walk"
      BY <2>29 DEF WalkOn, InLoop
    <3>2. M.conv = L.conv
      BY <2>26, <3>1 DEF Entities
    <3> HIDE DEF M
    <3> QED  BY <2>16, <2>22, <3>1, <3>2 DEF Working, Wordless
  <2>30. CASE WalkAsk(p)
    <3> DEFINE M == [AtNode(L) EXCEPT !.waiting = TRUE]
    <3>1. WriteProgress(p, M) /\ GoOn(p, "record", M) /\ at[p] = "walk" /\ IsQuestion(L.plan, L.node)
      BY <2>30 DEF WalkAsk, InLoop
    <3>2. M.conv = L.conv /\ M.node = L.node /\ M.waiting = TRUE /\ M.out = AtNode(L).out
      BY <2>26, <3>1 DEF Entities
    <3>3. AtNode(L).out = Append(L.out, <<"say", L.node>>)
      <4>1. L.plan.says[L.node]
        BY <2>26, <3>1, EngineAssumption DEF Flow, IsQuestion
      <4> QED  BY <1>1, <4>1 DEF AtNode, Entities
    <3>4. M.out # <<>> /\ M.out[Len(M.out)] = <<"say", L.node>>
      <4>1. <<"say", L.node>> \in Entry /\ L.out \in Seq(Entry)
        BY <1>1, <2>26, <3>1 DEF Entry, Entities
      <4>2. Len(Append(L.out, <<"say", L.node>>)) = Len(L.out) + 1 /\ Len(L.out) \in Nat
        BY <4>1, AppendProperties, LenProperties
      <4>3. Append(L.out, <<"say", L.node>>) # <<>>
        BY <4>1, AppendProperties
      <4> QED  BY <3>2, <3>3, <4>1, <4>2, <4>3, AppendProperties
    <3> HIDE DEF M
    <3>5. \A c, out : c = L.conv /\ out = M.out => Asked(c, out)'
      <4>1. progress'[L.conv].node = L.node /\ progress'[L.conv].waiting
        <5>1. progress'[L.conv] = [node |-> M.node, waiting |-> M.waiting, stage |-> M.stage]
          BY <2>22, <3>1, <3>2 DEF Working
        <5> QED  BY <3>2, <5>1
      <4> QED  BY <3>4, <4>1 DEF Asked
    <3> QED  BY <2>16, <2>22, <3>1, <3>2, <3>5 DEF Working, Wordless
  <2>31. CASE SaveProgress(p)
    <3>1. WriteProgress(p, L) /\ GoOn(p, "record", L) /\ at[p] = "saveProgress"
      BY <2>31 DEF SaveProgress
    <3>2. L.conv \notin Active'
      BY <2>1, <2>22, <3>1 DEF HoldsOn, Active, Working
    <3> QED  BY <2>16, <2>22, <3>1, <3>2 DEF Working, Wordless
  <2>32. CASE RecordMessage(p)
    <3>1. /\ at[p] = "record" /\ UNCHANGED <<status, progress, outbox, lastConv>>
          /\ recorded' = [recorded EXCEPT ![m] = L.conv]
      BY <2>32 DEF RecordMessage, conversations
    <3>2. Unrecorded' /\ NewRowless'
      BY <2>1, <2>5, <2>6, <3>1
    <3>3. Active' = Active /\ \A c, out : HasRow(c)' = HasRow(c) /\ Asked(c, out)' = Asked(c, out)
      BY <3>1 DEF Active, HasRow, Asked
    <3>4. CASE L.out = <<>>
      <4>1. Leave(p)
        BY <2>32, <3>4 DEF RecordMessage
      <4>2. \A c \in Active : HasRow(c) => Asked(c, <<>>)
        BY <2>1, <2>3, <3>1, <3>4 DEF StandsAsked, HoldsOn, Working
      <4>3. StandsAsked'
        BY <3>3, <4>2 DEF StandsAsked
      <4> QED  BY <2>4, <2>9, <3>2, <4>1, <4>3
    <3>5. CASE L.out # <<>>
      <4>1. at'[p] = "enqueue" /\ local'[p] = L
        BY <2>8, <2>32, <3>5 DEF RecordMessage, At
      <4>2. HoldsOn(p)'
        BY <2>1, <2>17, <3>1, <3>3, <3>5, <4>1 DEF HoldsOn, Searching, Wordless, Exists, Working
      <4>3. StandsAsked'
        BY <1>1, <2>1, <3>1, <4>1, StillWorking DEF Working, Searching
      <4> QED  BY <2>4, <3>2, <4>2, <4>3
    <3> QED  BY <3>4, <3>5
  <2>33. CASE EnqueueReplies(p)
    <3>1. /\ at[p] = "enqueue" /\ UNCHANGED <<status, progress, recorded, lastConv>> /\ Leave(p)
          /\ outbox' = [outbox EXCEPT ![L.conv] = outbox[L.conv] \o L.out]
      BY <2>33 DEF EnqueueReplies, conversations
    <3>2. L.out # <<>> /\ L.out \in Seq(Entry) /\ L.conv \in ConvId
      BY <1>1, <2>1, <2>17, <3>1 DEF HoldsOn, Entities, Working
    <3>3. Active' = Active /\ \A c : HasRow(c)' = HasRow(c)
      BY <3>1 DEF Active, HasRow
    <3>4. ASSUME NEW c \in Active, HasRow(c) PROVE Asked(c, <<>>)'
      <4>1. CASE c = L.conv
        <5>1. Asked(c, L.out)
          BY <2>1, <3>1, <3>4, <4>1 DEF HoldsOn
        <5>2. outbox'[c] = outbox[c] \o L.out /\ outbox[c] \in Seq(Entry)
          BY <3>1, <3>2, <4>1 DEF Sound, TypeOK
        <5>3. outbox'[c] # <<>> /\ outbox'[c][Len(outbox'[c])] = L.out[Len(L.out)]
          BY <3>2, <5>2, LastOfConcat
        <5> QED  BY <3>1, <3>2, <5>1, <5>3 DEF Asked
      <4>2. CASE c # L.conv
        <5>1. Asked(c, <<>>)
          BY <2>1, <2>3, <3>4, <4>2 DEF StandsAsked, Working
        <5>2. outbox'[c] = outbox[c]
          BY <3>1, <4>2 DEF Active, Sound, TypeOK
        <5> QED  BY <3>1, <5>1, <5>2 DEF Asked
      <4> QED  BY <4>1, <4>2
    <3>5. StandsAsked'
      BY <3>3, <3>4 DEF StandsAsked
    <3>6. Unrecorded' /\ NewRowless'
      BY <2>1, <2>5, <2>6, <3>1
    <3> QED  BY <2>4, <2>9, <3>1, <3>5, <3>6
  <2>34. ~Rejected(p)
    BY <1>1, <2>1 DEF Rejected, HoldsOn, Searching
  <2> QED
    BY <2>12, <2>13, <2>14, <2>15, <2>19, <2>20, <2>23, <2>24, <2>25, <2>27, <2>28, <2>29,
       <2>30, <2>31, <2>32, <2>33, <2>34 DEF HandlerStep
<1> QED  BY <1>2, <1>3

\* A step that touches no row and leads no handler on.
LEMMA AskFrame ==
  ASSUME AskInv, UNCHANGED <<status, progress, outbox, recorded, lastConv, at, local, act>>,
         Undisturbed' => Undisturbed, Unrecorded => Unrecorded'
  PROVE  AskInv'
<1> SUFFICES ASSUME Undisturbed, Undisturbed'
             PROVE  StandsAsked' /\ NewRowless' /\ RequestFresh' /\ Unrecorded'
                    /\ \A p \in Process : HoldsOn(p)'
  BY DEF AskInv
<1>1. Active' = Active /\ \A c, out : HasRow(c)' = HasRow(c) /\ Asked(c, out)' = Asked(c, out)
  BY DEF Active, HasRow, Asked
<1>2. StandsAsked' /\ NewRowless' /\ RequestFresh' /\ Unrecorded'
  BY <1>1 DEF AskInv, StandsAsked, NewRowless, RequestFresh
<1>3. \A p \in Process : HoldsOn(p)'
  BY <1>1 DEF AskInv, HoldsOn, Exists
<1> QED  BY <1>2, <1>3

\* A step of an operator between two handlers.
LEMMA AskRest ==
  ASSUME Sound, AskInv, Idle, Undisturbed, UNCHANGED <<at, lastConv, text, inbox>>,
         recorded' = recorded \/ recorded' = [m \in Msg |-> 0],
         \A c \in Active' : c \in Active /\ (HasRow(c)' => HasRow(c)),
         \A c \in Active' : progress'[c].node = progress[c].node
                              /\ progress'[c].waiting = progress[c].waiting
                              /\ outbox'[c] = outbox[c],
         \A c \in ConvId : HasRow(c)' => HasRow(c), RequestFresh'
  PROVE  AskInv'
<1>1. StandsAsked'
  <2> SUFFICES ASSUME NEW c \in Active', HasRow(c)' PROVE Asked(c, <<>>)'
    BY DEF StandsAsked
  <2>1. Asked(c, <<>>)
    BY DEF AskInv, StandsAsked, Idle, Working
  <2> QED  BY <2>1 DEF Asked
<1>2. NewRowless' /\ Unrecorded'
  <2>1. \A i \in Instance : inbox[i] \subseteq Msg
    BY DEF Sound, TypeOK
  <2> QED  BY <2>1 DEF AskInv, NewRowless, Unrecorded
<1>3. \A p \in Process : HoldsOn(p)'
  BY DEF HoldsOn, Idle, Searching, Wordless
<1> QED  BY <1>1, <1>2, <1>3 DEF AskInv

\* The other steps.  A fault, a message that comes back or a request in the middle of a
\* handler ends the undisturbed run.
LEMMA AskStep ==
  ASSUME Sound, OneInv, AskInv, NEW i, Instance = {i}, [Next]_vars
  PROVE  AskInv'
<1>1. ASSUME NEW m \in Msg, NEW k \in 0 .. MaxOption, Publish(m, k) PROVE AskInv'
  <2>1. UNCHANGED <<status, progress, outbox, recorded, lastConv, at, local, act, faults, overlap, again>>
    BY <1>1 DEF Publish, conversations, ghosts
  <2>2. text[m] = -1 /\ \A x \in Msg : text'[x] = -1 => text[x] = -1
    BY <1>1, EngineAssumption DEF Publish, Sound, TypeOK
  <2>3. \A j \in Instance : \A x \in inbox'[j] : x \in inbox[j] \/ x = m
    BY <1>1 DEF Publish
  <2>4. \A j \in Instance : at[<<j, m>>] = "idle"
    BY <2>2 DEF Sound, HandlerInv, Knows, Process
  <2>5. Unrecorded => Unrecorded'
    BY <2>1, <2>2, <2>3, <2>4 DEF Unrecorded
  <2> QED  BY <2>1, <2>5, AskFrame DEF Undisturbed
<1>2. ASSUME NEW j \in Instance, NEW m \in Msg, Redeliver(j, m) PROVE AskInv'
  BY <1>2 DEF Redeliver, NotSeen, AskInv, Undisturbed
<1>3. ASSUME NEW j \in Instance, NEW m \in Msg, Ignore(j, m) PROVE AskInv'
  <2>1. UNCHANGED <<status, progress, outbox, recorded, lastConv, at, local, act, faults, overlap, again, text>>
    BY <1>3 DEF Ignore, conversations, ghosts
  <2>2. \A k \in Instance : inbox'[k] \subseteq inbox[k]
    BY <1>3 DEF Ignore, Sound, TypeOK
  <2> QED  BY <2>1, <2>2, AskFrame DEF Undisturbed, Unrecorded
<1>4. ASSUME NEW j \in Instance, NEW m \in Msg, Load(j, m) PROVE AskInv'
  <2> SUFFICES ASSUME Undisturbed'
               PROVE  StandsAsked' /\ NewRowless' /\ RequestFresh' /\ Unrecorded'
                      /\ \A p \in Process : HoldsOn(p)'
    BY DEF AskInv
  <2>1. /\ UNCHANGED <<status, progress, outbox, recorded, lastConv, act, text>>
        /\ act = NoAct /\ Undisturbed /\ m \in inbox[j]
    BY <1>4 DEF Load, conversations, Undisturbed
  <2>2. /\ at'[<<j, m>>] = "findActive" /\ local'[<<j, m>>].out = <<>>
        /\ \A q \in Process : q # <<j, m>> => at'[q] = at[q] /\ local'[q] = local[q]
    BY <1>4 DEF Load, Blank, Sound, TypeOK, Process
  <2>3. \A q \in Process : at[q] = "idle"
    <3> SUFFICES ASSUME NEW q \in Process, at[q] # "idle" PROVE FALSE
      OBVIOUS
    <3>1. mutex[q[1]] = NoMsg /\ mutex[q[1]] = q[2] /\ q[2] \in Msg
      BY <1>4 DEF Load, MutexFree, Sound, TypeOK, Process
    <3> QED  BY <3>1, EngineAssumption
  <2>4. StandsAsked' /\ NewRowless' /\ RequestFresh'
    <3>1. Active' = Active /\ \A c : HasRow(c)' = HasRow(c) /\ Asked(c, <<>>)' = Asked(c, <<>>)
      BY <2>1 DEF Active, HasRow, Asked
    <3> QED  BY <2>1, <2>3, <3>1 DEF AskInv, StandsAsked, NewRowless, RequestFresh, NoAct, Working
  <2>5. inbox'[j] = inbox[j] \ {m} /\ \A k \in Instance : inbox'[k] \subseteq inbox[k]
    BY <1>4 DEF Load, Sound, TypeOK
  <2>6. Unrecorded'
    <3>1. j = i /\ \A k \in Instance : k = i
      OBVIOUS
    <3>2. \A x \in inbox'[j] : x \in Msg /\ at'[<<j, x>>] = at[<<j, x>>]
      BY <2>2, <2>5 DEF Sound, TypeOK, Process
    <3> QED  BY <2>1, <2>5, <3>1, <3>2 DEF AskInv, Unrecorded
  <2>7. ASSUME NEW p \in Process PROVE HoldsOn(p)'
    <3>1. CASE p = <<j, m>>
      BY <2>1, <2>2, <3>1 DEF HoldsOn, Searching, Wordless, AskInv, Unrecorded
    <3>2. CASE p # <<j, m>>
      BY <2>2, <2>3, <3>2 DEF HoldsOn, Searching, Wordless
    <3> QED  BY <3>1, <3>2
  <2> QED  BY <2>4, <2>6, <2>7
<1>5. ASSUME NEW p \in Process, Fail(p) PROVE AskInv'
  BY <1>5, EngineAssumption DEF Fail, Fault, AskInv, Undisturbed, Sound, TypeOK
<1>6. ASSUME NEW j \in Instance, Crash(j) PROVE AskInv'
  BY <1>6, EngineAssumption DEF Crash, Fault, AskInv, Undisturbed, Sound, TypeOK
<1>7. ASSUME UNCHANGED <<status, progress, outbox, recorded, lastConv, at, local, act, text, inbox,
                         faults, overlap, again>>
      PROVE  AskInv'
  BY <1>7, AskFrame DEF Undisturbed, Unrecorded
<1>8. ASSUME NEW f \in Flows \cup {NoFlow}, EditFlow(f) PROVE AskInv'
  BY <1>7, <1>8 DEF EditFlow, conversations, handlers, ghosts
<1>9. ASSUME HourPasses PROVE AskInv'
  BY <1>7, <1>9 DEF HourPasses, conversations, ghosts
<1>10. ASSUME UNCHANGED vars PROVE AskInv'
  BY <1>7, <1>10 DEF vars, conversations, handlers, ghosts
<1>11. CASE ~Undisturbed'
  BY <1>11 DEF AskInv
<1>12. CASE Undisturbed'
  <2>1. ASSUME NEW p \in Process, HandlerStep(p) PROVE AskInv'
    BY <2>1, AskHandlerStep
  <2>2. ASSUME Idle, Undisturbed, UNCHANGED <<at, lastConv, text, inbox, recorded, status, progress, outbox>>,
               RequestFresh'
        PROVE  AskInv'
    BY <2>2, AskRest DEF Active, HasRow
  <2>3. ASSUME NEW c \in ConvId, NEW on \in BOOLEAN, ToggleRead(c, on) PROVE AskInv'
    <3>1. /\ UNCHANGED <<at, lastConv, text, inbox, recorded, status, progress, outbox, faults, again>>
          /\ overlap' = (overlap \/ ~Idle) /\ act'.kind = "toggle"
      BY <2>3 DEF ToggleRead, Request, Untouched, handlers, conversations
    <3> QED  BY <1>12, <2>2, <3>1 DEF Undisturbed, RequestFresh
  <2>4. ASSUME NEW c \in ConvId, NEW st \in Stage, StageRead(c, st) PROVE AskInv'
    <3>1. /\ UNCHANGED <<at, lastConv, text, inbox, recorded, status, progress, outbox, faults, again>>
          /\ overlap' = (overlap \/ ~Idle) /\ act'.conv = c
          /\ act'.row = [progress[c] EXCEPT !.stage = st]
      BY <2>4 DEF StageRead, Request, Untouched, handlers, conversations
    <3>2. act'.row.node = progress[c].node /\ act'.row.waiting = progress[c].waiting
      BY <3>1 DEF Sound, TypeOK, ProgressRow
    <3> QED  BY <1>12, <2>2, <3>1, <3>2 DEF Undisturbed, RequestFresh
  <2>5. ASSUME ToggleWrite PROVE AskInv'
    <3>1. /\ UNCHANGED <<at, lastConv, text, inbox, recorded, progress, outbox, overlap, faults, again>>
          /\ act # NoAct /\ act'.kind # "stage"
      BY <2>5 DEF ToggleWrite, Untouched, handlers, NoAct
    <3>2. Idle /\ Undisturbed /\ status' = status
      BY <1>12, <2>5, <3>1 DEF Undisturbed, OneInv, ToggleWrite, Sound, TypeOK
    <3> QED  BY <2>2, <3>1, <3>2 DEF RequestFresh
  <2>6. ASSUME WriteRejected PROVE AskInv'
    <3>1. /\ UNCHANGED <<at, lastConv, text, inbox, recorded, status, progress, outbox, overlap, faults, again>>
          /\ act # NoAct /\ act'.kind # "stage"
      BY <2>6 DEF WriteRejected, Untouched, handlers, NoAct, conversations, ghosts
    <3> QED  BY <1>12, <2>2, <3>1 DEF Undisturbed, OneInv, RequestFresh
  <2>7. ASSUME StageWrite PROVE AskInv'
    <3>1. /\ UNCHANGED <<at, lastConv, text, inbox, recorded, status, outbox, overlap, faults, again>>
          /\ act # NoAct /\ act'.kind # "stage" /\ progress' = [progress EXCEPT ![act.conv] = act.row]
      BY <2>7 DEF StageWrite, Untouched, handlers, NoAct, conversations, ghosts
    <3>2. Idle /\ Undisturbed
      BY <1>12, <3>1 DEF Undisturbed, OneInv
    <3>3. /\ act.row.node = progress[act.conv].node
          /\ act.row.waiting = progress[act.conv].waiting
      BY <2>7, <3>2 DEF AskInv, RequestFresh, StageWrite
    <3>4. \A c \in ConvId : /\ progress'[c].node = progress[c].node
                             /\ progress'[c].waiting = progress[c].waiting
      BY <3>1, <3>3 DEF Sound, TypeOK
    <3>5. RequestFresh' /\ Active' = Active /\ \A c \in ConvId : HasRow(c)' = HasRow(c)
      BY <3>1, <3>4 DEF RequestFresh, Active, HasRow
    <3> QED  BY <3>1, <3>2, <3>4, <3>5, AskRest DEF Active
  <2>8. ASSUME Delete PROVE AskInv'
    <3>1. /\ UNCHANGED <<at, lastConv, text, inbox, act, faults, again>>
          /\ overlap' = (overlap \/ ~Idle) /\ recorded' = [m \in Msg |-> 0]
          /\ status' = [c \in ConvId |-> "ABSENT"] /\ progress' = [c \in ConvId |-> NoProgress]
      BY <2>8 DEF Delete, handlers
    <3>2. Active' = {} /\ \A c \in ConvId : ~HasRow(c)'
      BY <3>1 DEF Active, HasRow, NoProgress
    <3>3. RequestFresh'
      BY <3>1 DEF RequestFresh, Sound, TypeOK, Act, NoAct
    <3> QED  BY <1>12, <3>1, <3>2, <3>3, AskRest DEF Undisturbed
  <2> QED
    BY <1>1, <1>2, <1>3, <1>4, <1>5, <1>6, <1>8, <1>9, <1>10, <2>1, <2>3, <2>4, <2>5, <2>6, <2>7,
       <2>8 DEF Next, Quiet
<1> QED  BY <1>11, <1>12

\* With one process and no fault, no redelivery and no request in the middle of a
\* handler, whenever the engine is at rest every active conversation of the bot waits
\* at the question it sent last: the flow is never left where no answer moves it.
THEOREM BotStandsAtItsQuestion ==
  ASSUME NEW i, Instance = {i}
  PROVE  Spec => []AsksWhatItAwaits
<1>1. Init => OneInv /\ AskInv
  BY DEF Init, OneInv, AskInv, StandsAsked, NewRowless, RequestFresh, Unrecorded, HoldsOn, HasRow,
         Active, NoAct, NoProgress, Searching, Wordless, Process
<1>2. AskInv => AsksWhatItAwaits
  BY DEF AskInv, AsksWhatItAwaits, StandsAsked, Asked, Idle, Working
<1>3. Sound /\ OneInv /\ AskInv /\ [Next]_vars => OneInv' /\ AskInv'
  BY OneStep, AskStep
<1> QED  BY <1>1, <1>2, <1>3, EngineSound, PTL DEF Spec

-----------------------------------------------------------------------------
(* No answer without its question *)

\* Where an entry occurs in a sequence; what is appended adds its occurrences.
Places(s, e) == {k \in 1 .. Len(s) : s[k] = e}

LEMMA PlacesCount ==
  ASSUME NEW S, NEW s \in Seq(S), NEW e
  PROVE  IsFiniteSet(Places(s, e)) /\ Cardinality(Places(s, e)) \in Nat
<1>1. IsFiniteSet(1 .. Len(s))
  BY FS_Interval, LenProperties
<1>2. Places(s, e) \subseteq 1 .. Len(s)
  BY DEF Places
<1> QED  BY <1>1, <1>2, FS_Subset, FS_CardinalityType

LEMMA PlacesOfConcat ==
  ASSUME NEW S, NEW s \in Seq(S), NEW t \in Seq(S), NEW e
  PROVE  /\ Cardinality(Places(s, e)) <= Cardinality(Places(s \o t, e))
         /\ \A k \in 1 .. Len(t) :
              t[k] = e => Cardinality(Places(s, e)) < Cardinality(Places(s \o t, e))
<1>1. /\ s \o t \in Seq(S) /\ Len(s \o t) = Len(s) + Len(t)
      /\ Len(s) \in Nat /\ Len(t) \in Nat
  BY ConcatProperties, LenProperties
<1>2. \A k \in 1 .. Len(s) : (s \o t)[k] = s[k]
  BY <1>1, ConcatProperties
<1>3. Places(s, e) \subseteq Places(s \o t, e)
  BY <1>1, <1>2 DEF Places
<1>4. /\ IsFiniteSet(Places(s, e)) /\ IsFiniteSet(Places(s \o t, e))
      /\ Cardinality(Places(s, e)) \in Nat /\ Cardinality(Places(s \o t, e)) \in Nat
  BY <1>1, PlacesCount
<1>5. Cardinality(Places(s, e)) <= Cardinality(Places(s \o t, e))
  BY <1>3, <1>4, FS_Subset
<1>6. ASSUME NEW k \in 1 .. Len(t), t[k] = e
      PROVE  Cardinality(Places(s, e)) < Cardinality(Places(s \o t, e))
  <2>1. (s \o t)[Len(s) + k] = e /\ Len(s) + k \in 1 .. Len(s \o t)
    BY <1>1, <1>6, ConcatProperties
  <2>2. Places(s, e) \cup {Len(s) + k} \subseteq Places(s \o t, e)
    BY <1>3, <2>1 DEF Places
  <2>3. Len(s) + k \notin Places(s, e)
    BY <1>1 DEF Places
  <2>4. Cardinality(Places(s, e) \cup {Len(s) + k}) = Cardinality(Places(s, e)) + 1
    BY <1>4, <2>3, FS_AddElement
  <2>5. Cardinality(Places(s, e) \cup {Len(s) + k}) <= Cardinality(Places(s \o t, e))
    BY <1>4, <2>2, FS_Subset
  <2> QED  BY <1>4, <2>4, <2>5
<1> QED  BY <1>5, <1>6

\* One more answer to n in c, none anywhere else.
LEMMA GivenOnce ==
  ASSUME IsFiniteSet(answers), NEW c, NEW n, NEW x,
         answers' = answers \cup {[conv |-> c, node |-> n, msg |-> x]}
  PROVE  /\ IsFiniteSet(answers') /\ Given(c, n)' <= Given(c, n) + 1
         /\ \A d, k : d # c \/ k # n => Given(d, k)' = Given(d, k)
         /\ \A d, k : Given(d, k) \in Nat
<1> DEFINE G(d, k) == {a \in answers : a.conv = d /\ a.node = k}
           y == [conv |-> c, node |-> n, msg |-> x]
<1>1. \A d, k : IsFiniteSet(G(d, k)) /\ Cardinality(G(d, k)) \in Nat
  <2>1. \A d, k : G(d, k) \subseteq answers
    OBVIOUS
  <2> QED  BY <2>1, FS_Subset, FS_CardinalityType
<1>2. IsFiniteSet(answers')
  BY FS_AddElement
<1>3. {a \in answers' : a.conv = c /\ a.node = n} = G(c, n) \cup {y}
  OBVIOUS
<1>4. ASSUME NEW T, NEW z, IsFiniteSet(T)
      PROVE  Cardinality(T \cup {z}) <= Cardinality(T) + 1
  <2>1. Cardinality(T) \in Nat
    BY <1>4, FS_CardinalityType
  <2>2. CASE z \in T
    <3>1. T \cup {z} = T
      BY <2>2
    <3> QED  BY <2>1, <3>1
  <2>3. CASE z \notin T
    BY <1>4, <2>1, <2>3, FS_AddElement
  <2> QED  BY <2>2, <2>3
<1>5. ASSUME NEW d, NEW k, d # c \/ k # n PROVE Given(d, k)' = Given(d, k)
  <2>1. {a \in answers' : a.conv = d /\ a.node = k} = G(d, k)
    BY <1>5
  <2> QED  BY <2>1 DEF Given
<1>6. Given(c, n)' <= Given(c, n) + 1
  <2>1. Cardinality(G(c, n) \cup {y}) <= Cardinality(G(c, n)) + 1
    BY <1>1, <1>4
  <2> QED  BY <1>3, <2>1 DEF Given
<1>7. \A d, k : Given(d, k) \in Nat
  BY <1>1 DEF Given
<1> QED  BY <1>2, <1>5, <1>6, <1>7

LEMMA AskedType ==
  ASSUME Sound, NEW c \in ConvId, NEW n
  PROVE  TimesAsked(c, n) \in Nat /\ TimesAsked(c, n) = Cardinality(Places(outbox[c], <<"say", n>>))
<1>1. outbox[c] \in Seq(Entry)
  BY DEF Sound, TypeOK
<1> QED  BY <1>1, PlacesCount DEF TimesAsked, Places

\* A handler's step in an undisturbed run.
LEMMA CountHandlerStep ==
  ASSUME Sound, OneInv, AskInv, CountInv, NEW i, Instance = {i}, NEW p \in Process, HandlerStep(p)
  PROVE  CountInv'
<1> DEFINE L == local[p]
           m == p[2]
<1>1. /\ at[p] # "idle" /\ UNCHANGED <<overlap, again, faults>>
      /\ L \in Entities /\ \A q \in Process : q # p => at'[q] = at[q] /\ local'[q] = local[q]
  BY HandlerStepFrame DEF Sound, TypeOK
<1>2. CASE ~Undisturbed
  BY <1>1, <1>2 DEF CountInv, Undisturbed
<1>3. CASE Undisturbed
  <2>1. /\ IsFiniteSet(answers) /\ \A c \in ConvId, n \in Node : Given(c, n) <= TimesAsked(c, n)
        /\ DueOrWorked /\ MayAnswer(p)
    BY <1>3 DEF CountInv
  <2>2. HoldsOn(p) /\ NewRowless /\ ~overlap /\ lastConv \in Nat
    BY <1>3, EngineAssumption DEF AskInv, Undisturbed, Sound, TypeOK
  <2>3. \A q \in Process : q # p => at[q] = "idle" /\ at'[q] = "idle"
    BY <1>1, OneHandler
  <2>4. ASSUME IsFiniteSet(answers'), \A c \in ConvId, n \in Node : Given(c, n)' <= TimesAsked(c, n)',
               DueOrWorked', MayAnswer(p)'
        PROVE  CountInv'
    <3>1. \A q \in Process : MayAnswer(q)'
      BY <2>3, <2>4 DEF MayAnswer
    <3> QED  BY <2>4, <3>1 DEF CountInv
  <2>5. ASSUME UNCHANGED <<answers, outbox>>
        PROVE  /\ IsFiniteSet(answers') /\ \A c \in ConvId, n \in Node : Given(c, n)' <= TimesAsked(c, n)'
               /\ \A c, n : Given(c, n)' = Given(c, n) /\ TimesAsked(c, n)' = TimesAsked(c, n)
    BY <2>1, <2>5 DEF Given, TimesAsked
  <2>6. ASSUME NEW step \in At, NEW M, GoOn(p, step, M)
        PROVE  at'[p] = step /\ local'[p] = M
    BY <2>6 DEF GoOn, Sound, TypeOK
  <2>7. ASSUME Leave(p)
        PROVE  MayAnswer(p)'
    BY <2>7 DEF Leave, MayAnswer, Sound, TypeOK
  <2>8. at[p] \notin Working => \A c \in Active : HasRow(c) => Due(c)
    BY <2>1, <2>3 DEF DueOrWorked, Working
  <2>9. ASSUME UNCHANGED <<status, progress, outbox, answers>>
        PROVE  Active' = Active /\ \A c : HasRow(c)' = HasRow(c) /\ Due(c)' = Due(c)
    BY <2>9 DEF Active, HasRow, Due, Given, TimesAsked
  <2>10. ASSUME NEW step \in Working, NEW M, GoOn(p, step, M), M.conv = L.conv,
                at[p] \notin Searching,
                \A c \in ConvId : c # L.conv =>
                  /\ status'[c] = status[c] /\ progress'[c] = progress[c]
                  /\ \A n : Given(c, n)' = Given(c, n) /\ TimesAsked(c, n)' = TimesAsked(c, n)
         PROVE  DueOrWorked'
    <3>1. at'[p] = step /\ local'[p] = M
      BY <2>6, <2>10 DEF Working, At
    <3> SUFFICES ASSUME NEW c \in Active', HasRow(c)', c # L.conv
                 PROVE  Due(c)'
      BY <2>10, <3>1 DEF DueOrWorked
    <3>2. c \in ConvId /\ c \in Active /\ HasRow(c)
      BY <2>10 DEF Active, HasRow
    <3>3. Due(c)
      BY <2>1, <2>3, <3>2 DEF DueOrWorked, Working
    <3> QED  BY <2>10, <3>2, <3>3 DEF Due
  <2>11. CASE FindActive(p)
    <3>1. UNCHANGED <<status, progress, outbox, answers>> /\ at[p] = "findActive"
      BY <2>11 DEF FindActive, conversations
    <3>2. PICK step \in {"createSilent", "findLast", "record", "findProgress"}, c \in Active \cup {L.conv} :
             /\ GoOn(p, step, [L EXCEPT !.conv = c])
             /\ step \in {"record", "findProgress"} => c \in Active
      <4>1. [L EXCEPT !.conv = L.conv] = L
        BY <1>1 DEF Entities
      <4> QED  BY <2>11, <4>1 DEF FindActive
    <3>3. at'[p] = step /\ local'[p].conv = c
      BY <1>1, <2>6, <3>2 DEF At, Entities
    <3>4. MayAnswer(p)'
      BY <2>8, <2>9, <3>1, <3>2, <3>3 DEF MayAnswer, Working
    <3>5. DueOrWorked'
      BY <2>8, <2>9, <3>1 DEF DueOrWorked, Working
    <3> QED  BY <2>4, <2>5, <3>1, <3>4, <3>5
  <2>12. CASE FindLastFinished(p)
    <3>1. UNCHANGED <<status, progress, outbox, answers>> /\ at[p] = "findLast"
      BY <2>12 DEF FindLastFinished, conversations
    <3>2. ASSUME NEW c \in Finished, GoOn(p, "record", [L EXCEPT !.conv = c]) PROVE MayAnswer(p)'
      <4>1. at'[p] = "record" /\ local'[p].conv = c
        BY <1>1, <2>6, <3>2 DEF At, Entities
      <4>2. c \notin Active
        BY DEF Active, Finished
      <4> QED  BY <2>9, <3>1, <4>1, <4>2 DEF MayAnswer
    <3>3. ASSUME NEW step \in {"create", "createSilent"}, GoOn(p, step, L) PROVE MayAnswer(p)'
      BY <2>6, <3>3 DEF MayAnswer, At
    <3>4. MayAnswer(p)'
      BY <2>7, <2>12, <3>2, <3>3 DEF FindLastFinished, FirstContact
    <3>5. DueOrWorked'
      BY <2>8, <2>9, <3>1 DEF DueOrWorked, Working
    <3> QED  BY <2>4, <2>5, <3>1, <3>4, <3>5
  <2>13. CASE CreateSilent(p) \/ Create(p)
    <3>0. PICK c : c = lastConv + 1
      OBVIOUS
    <3>1. PICK step \in {"record", "createProgress"} : CreateConversation(p, step # "record", step)
      BY <2>13 DEF CreateSilent, Create
    <3>2. /\ c \in ConvId /\ status' = [status EXCEPT ![c] = "ACTIVE"]
          /\ UNCHANGED <<progress, answers, outbox>> /\ GoOn(p, step, [L EXCEPT !.conv = c])
      BY <2>2, <3>0, <3>1 DEF CreateConversation, ConvId
    <3>3. Active' = {c} /\ ~HasRow(c)'
      <4>1. Active = {}
        BY <2>2, <2>13 DEF CreateSilent, Create, OneInv
      <4>2. c > lastConv
        BY <2>2, <3>0
      <4> QED  BY <2>2, <3>2, <4>1, <4>2 DEF Active, NewRowless, HasRow, Sound, TypeOK
    <3>4. at'[p] = step /\ local'[p].conv = c
      BY <1>1, <2>6, <3>2 DEF At, Entities
    <3>5. MayAnswer(p)' /\ DueOrWorked'
      BY <3>3, <3>4 DEF MayAnswer, DueOrWorked
    <3> QED  BY <2>4, <2>5, <3>2, <3>5
  <2>14. CASE FindProgress(p)
    <3> DEFINE n == progress[L.conv].node
    <3>1. UNCHANGED <<status, progress, outbox, answers>> /\ at[p] = "findProgress"
      BY <2>14 DEF FindProgress, conversations
    <3>2. L.conv \in Active /\ (HasRow(L.conv) => Due(L.conv))
      BY <2>1, <2>8, <3>1 DEF MayAnswer, Working
    <3>3. ASSUME NEW M, M.conv = L.conv, GoOn(p, "record", M) PROVE MayAnswer(p)'
      <4>1. at'[p] = "record" /\ local'[p] = M
        BY <2>6, <3>3 DEF At
      <4> QED  BY <2>9, <3>1, <3>2, <3>3, <4>1 DEF MayAnswer
    <3>4. ASSUME NEW M, M.conv = L.conv, M.node = n, n # None, GoOn(p, "answer", M) PROVE MayAnswer(p)'
      <4>1. at'[p] = "answer" /\ local'[p] = M
        BY <2>6, <3>4 DEF At
      <4>2. Given(L.conv, n) < TimesAsked(L.conv, n)
        BY <3>2, <3>4 DEF HasRow, Due
      <4>3. Given(M.conv, M.node)' = Given(L.conv, n) /\ TimesAsked(M.conv, M.node)' = TimesAsked(L.conv, n)
        BY <3>1, <3>4 DEF Given, TimesAsked
      <4> QED  BY <3>4, <4>1, <4>2, <4>3 DEF MayAnswer, Given, TimesAsked
    <3>5. \E M : M.conv = L.conv /\ (\/ GoOn(p, "record", M)
                                     \/ M.node = n /\ n # None /\ GoOn(p, "answer", M))
      <4> DEFINE A == [L EXCEPT !.out = << <<"again", n>> >>]
                 B == [L EXCEPT !.node = n, !.waiting = TRUE, !.stage = progress[L.conv].stage]
      <4>1. A.conv = L.conv /\ B.conv = L.conv /\ B.node = n
        <5> HIDE DEF n
        <5> QED  BY <1>1 DEF Entities
      <4>2. \/ GoOn(p, "record", L) \/ GoOn(p, "record", A)
            \/ n # None /\ GoOn(p, "answer", B)
        BY <2>14 DEF FindProgress
      <4> HIDE DEF A, B
      <4> QED  BY <4>1, <4>2
    <3>6. MayAnswer(p)'
      BY <3>3, <3>4, <3>5
    <3>7. DueOrWorked'
      BY <2>8, <2>9, <3>1 DEF DueOrWorked, Working
    <3> QED  BY <2>4, <2>5, <3>1, <3>6, <3>7
  <2>15. CASE SaveAnswer(p)
    <3> DEFINE T == Target(L.plan, L.node, text[m])
               M == [L EXCEPT !.node = T, !.waiting = FALSE, !.from = T]
    <3>1. PICK c, n, x : c = L.conv /\ n = L.node /\ x = m
      OBVIOUS
    <3>2. /\ at[p] = "answer" /\ UNCHANGED <<status, progress, outbox>>
          /\ answers' = answers \cup {[conv |-> c, node |-> n, msg |-> x]}
          /\ GoOn(p, "finish", L) \/ GoOn(p, "advance", M)
      BY <2>15, <3>1 DEF SaveAnswer, conversations
    <3>3. M.conv = L.conv
      <4> HIDE DEF T
      <4> QED  BY <1>1 DEF Entities
    <3>4. /\ IsFiniteSet(answers') /\ Given(c, n)' <= Given(c, n) + 1
          /\ \A d, k : d # c \/ k # n => Given(d, k)' = Given(d, k)
          /\ \A d, k : Given(d, k) \in Nat
      BY <2>1, <3>2, GivenOnce
    <3>5. \A d, k : TimesAsked(d, k)' = TimesAsked(d, k)
      BY <3>2 DEF TimesAsked
    <3>6. Given(c, n) < TimesAsked(c, n)
      BY <2>1, <3>1, <3>2 DEF MayAnswer
    <3>7. c \in ConvId
      BY <3>1, <3>2, HeldConversation DEF Searching
    <3>8. Given(c, n)' <= TimesAsked(c, n)'
      <4>1. TimesAsked(c, n) \in Nat /\ Given(c, n)' \in Nat
        <5>1. {a \in answers' : a.conv = c /\ a.node = n} \subseteq answers'
          OBVIOUS
        <5> QED  BY <3>4, <3>7, <5>1, AskedType, FS_Subset, FS_CardinalityType DEF Given
      <4>2. Given(c, n) \in Nat
        BY <3>4
      <4> QED  BY <3>4, <3>5, <3>6, <4>1, <4>2
    <3>9. \A d \in ConvId, k \in Node : Given(d, k)' <= TimesAsked(d, k)'
      BY <2>1, <3>4, <3>5, <3>8
    <3>10. MayAnswer(p)' /\ DueOrWorked'
      <4> HIDE DEF M
      <4>1. CASE GoOn(p, "finish", L)
        BY <2>6, <2>10, <3>1, <3>2, <3>4, <3>5, <4>1 DEF MayAnswer, At, Working, Searching
      <4>2. CASE GoOn(p, "advance", M)
        BY <2>6, <2>10, <3>1, <3>2, <3>3, <3>4, <3>5, <4>2 DEF MayAnswer, At, Working, Searching
      <4> QED  BY <3>2, <4>1, <4>2
    <3> QED  BY <2>4, <3>4, <3>9, <3>10
  <2>16. ASSUME NEW step \in Working \ {"answer"}, NEW M, GoOn(p, step, M), M.conv = L.conv,
                at[p] \in Working, UNCHANGED <<answers, outbox>>,
                \A c \in ConvId : c # L.conv => status'[c] = status[c] /\ progress'[c] = progress[c],
                step \in {"record", "enqueue"} =>
                  \A c : c = L.conv => \/ c \notin Active'
                                       \/ Due(c)'
                                       \/ \E k \in 1 .. Len(M.out) : M.out[k] = <<"say", progress'[c].node>>
         PROVE  CountInv'
    <3>1. at'[p] = step /\ local'[p] = M
      BY <2>6, <2>16 DEF Working, At
    <3>2. DueOrWorked'
      BY <2>5, <2>10, <2>16 DEF Working, Searching
    <3>3. MayAnswer(p)'
      BY <2>16, <3>1 DEF MayAnswer, Working
    <3> QED  BY <2>4, <2>5, <2>16, <3>2, <3>3
  <2>17. at[p] \in Working => L.conv \in ConvId
    BY HeldConversation DEF Working, Searching
  <2>18. ASSUME WriteFinished(p), at[p] \in Working
         PROVE  /\ UNCHANGED <<answers, outbox>> /\ \A c : c = L.conv => c \notin Active'
                /\ \A c \in ConvId : c # L.conv => status'[c] = status[c]
    BY <2>17, <2>18 DEF WriteFinished, Active, Sound, TypeOK
  <2>19. ASSUME NEW M, M.conv = L.conv, at[p] \in Working, WriteProgress(p, M)
         PROVE  /\ UNCHANGED <<answers, outbox, status>>
                /\ progress'[L.conv] = [node |-> M.node, waiting |-> M.waiting, stage |-> M.stage]
                /\ \A c \in ConvId : c # L.conv => progress'[c] = progress[c]
    BY <2>17, <2>19 DEF WriteProgress, conversations, Sound, TypeOK
  <2>20. CASE CreateProgress(p)
    <3>1. PICK M : /\ GoOn(p, "walk", M) /\ M.conv = L.conv /\ at[p] = "createProgress"
                   /\ UNCHANGED <<status, answers, outbox>>
                   /\ \A c \in ConvId : c # L.conv => progress'[c] = progress[c]
      BY <1>1, <2>20 DEF CreateProgress, conversations, Entities, Sound, TypeOK
    <3> QED  BY <2>16, <3>1 DEF Working
  <2>21. CASE FinishUnanswered(p)
    <3>1. progress' = progress /\ WriteFinished(p) /\ GoOn(p, "record", L) /\ at[p] = "finish"
      BY <2>21 DEF FinishUnanswered
    <3> QED  BY <2>16, <2>18, <3>1 DEF Working
  <2>22. CASE WalkCycle(p)
    <3>1. progress' = progress /\ WriteFinished(p) /\ GoOn(p, "saveProgress", L) /\ at[p] = "walk"
      BY <2>22 DEF WalkCycle
    <3> QED  BY <2>16, <2>18, <3>1 DEF Working
  <2>23. CASE WalkLost(p)
    <3>1. progress' = progress /\ WriteFinished(p) /\ GoOn(p, "record", L) /\ at[p] = "walk"
      BY <2>23 DEF WalkLost
    <3> QED  BY <2>16, <2>18, <3>1 DEF Working
  <2>24. at[p] = "walk" => /\ AtNode(L) \in Entities /\ AtNode(L).conv = L.conv
                           /\ AtNode(L).node = L.node /\ L.plan \in Flows /\ L.node \in Node
    <3>1. at[p] = "walk" => L.plan \in Flows /\ L.node \in Node
      BY DEF Sound, HandlerInv, Knows, Standing
    <3> QED  BY <1>1, <3>1, AtNodeType
  <2>25. CASE WalkEnd(p)
    <3>1. progress' = progress /\ WriteFinished(p) /\ GoOn(p, "saveProgress", AtNode(L)) /\ at[p] = "walk"
      BY <2>25 DEF WalkEnd, InLoop
    <3> QED  BY <2>16, <2>18, <2>24, <3>1 DEF Working
  <2>26. CASE Advance(p)
    <3>1. WriteProgress(p, L) /\ GoOn(p, "walk", L) /\ at[p] = "advance"
      BY <2>26 DEF Advance
    <3> QED  BY <2>16, <2>19, <3>1 DEF Working
  <2>27. CASE WalkOn(p)
    <3> DEFINE M == [AtNode(L) EXCEPT !.node = L.plan.next[L.node], !.waiting = FALSE]
    <3>1. WriteProgress(p, M) /\ GoOn(p, "walk", M) /\ at[p] = "walk"
      BY <2>27 DEF WalkOn, InLoop
    <3>2. M.conv = L.conv
      BY <2>24, <3>1 DEF Entities
    <3> HIDE DEF M
    <3> QED  BY <2>16, <2>19, <3>1, <3>2 DEF Working
  <2>28. CASE WalkAsk(p)
    <3> DEFINE M == [AtNode(L) EXCEPT !.waiting = TRUE]
    <3>1. WriteProgress(p, M) /\ GoOn(p, "record", M) /\ at[p] = "walk" /\ IsQuestion(L.plan, L.node)
      BY <2>28 DEF WalkAsk, InLoop
    <3>2. M.conv = L.conv /\ M.node = L.node /\ M.out = AtNode(L).out
      BY <2>24, <3>1 DEF Entities
    <3>3. AtNode(L).out = Append(L.out, <<"say", L.node>>)
      <4>1. L.plan.says[L.node]
        BY <2>24, <3>1, EngineAssumption DEF Flow, IsQuestion
      <4> QED  BY <1>1, <4>1 DEF AtNode, Entities
    <3>4. \E k \in 1 .. Len(M.out) : M.out[k] = <<"say", L.node>>
      <4>1. <<"say", L.node>> \in Entry /\ L.out \in Seq(Entry)
        BY <1>1, <2>24, <3>1 DEF Entry, Entities
      <4>2. Len(M.out) = Len(L.out) + 1 /\ Len(L.out) \in Nat
        BY <3>2, <3>3, <4>1, AppendProperties, LenProperties
      <4>3. M.out[Len(M.out)] = <<"say", L.node>>
        BY <3>2, <3>3, <4>1, <4>2, AppendProperties
      <4>4. Len(M.out) \in 1 .. Len(M.out)
        BY <4>2
      <4> QED  BY <4>3, <4>4
    <3>5. progress'[L.conv].node = L.node
      <4> HIDE DEF M
      <4>1. progress'[L.conv] = [node |-> M.node, waiting |-> M.waiting, stage |-> M.stage]
        BY <2>19, <3>1, <3>2 DEF Working
      <4> QED  BY <3>2, <4>1
    <3> HIDE DEF M
    <3> QED  BY <2>16, <2>19, <3>1, <3>2, <3>4, <3>5 DEF Working
  <2>29. CASE SaveProgress(p)
    <3>1. WriteProgress(p, L) /\ GoOn(p, "record", L) /\ at[p] = "saveProgress"
      BY <2>29 DEF SaveProgress
    <3>2. \A c : c = L.conv => c \notin Active'
      BY <2>2, <2>19, <3>1 DEF HoldsOn, Active, Working
    <3> QED  BY <2>16, <2>19, <3>1, <3>2 DEF Working
  <2>30. CASE RecordMessage(p)
    <3>1. at[p] = "record" /\ UNCHANGED <<status, progress, outbox, answers>>
      BY <2>30 DEF RecordMessage, conversations
    <3>2. CASE L.out = <<>>
      <4>1. Leave(p)
        BY <2>30, <3>2 DEF RecordMessage
      <4>2. ~ \E k \in 1 .. Len(L.out) : L.out[k] = <<"say", progress[L.conv].node>>
        BY <3>2
      <4>3. \A c \in Active : HasRow(c) => Due(c)
        BY <2>1, <2>3, <3>1, <4>2 DEF DueOrWorked, MayAnswer, Working
      <4>4. DueOrWorked'
        BY <2>9, <3>1, <4>3 DEF DueOrWorked
      <4> QED  BY <2>4, <2>5, <2>7, <3>1, <4>1, <4>4
    <3>3. CASE L.out # <<>>
      <4>1. GoOn(p, "enqueue", L)
        BY <2>30, <3>3 DEF RecordMessage
      <4>2. at'[p] = "enqueue" /\ local'[p] = L
        BY <2>6, <4>1 DEF At
      <4>3. MayAnswer(p)'
        BY <2>1, <2>9, <3>1, <4>2 DEF MayAnswer
      <4>4. DueOrWorked'
        BY <2>5, <2>10, <3>1, <4>1 DEF Working, Searching
      <4> QED  BY <2>4, <2>5, <3>1, <4>3, <4>4
    <3> QED  BY <3>2, <3>3
  <2>31. CASE EnqueueReplies(p)
    <3>1. /\ at[p] = "enqueue" /\ UNCHANGED <<status, progress, answers>> /\ Leave(p)
          /\ outbox' = [outbox EXCEPT ![L.conv] = outbox[L.conv] \o L.out]
      BY <2>31 DEF EnqueueReplies, conversations
    <3>2. L.out \in Seq(Entry) /\ L.conv \in ConvId /\ outbox[L.conv] \in Seq(Entry)
      BY <1>1, <2>17, <3>1 DEF Entities, Working, Sound, TypeOK
    <3>3. Active' = Active /\ \A c : HasRow(c)' = HasRow(c)
      BY <3>1 DEF Active, HasRow
    <3>4. \A c, n : Given(c, n)' = Given(c, n)
      BY <3>1 DEF Given
    <3>5. \A c \in ConvId : \A n : c # L.conv => TimesAsked(c, n)' = TimesAsked(c, n)
      BY <3>1 DEF TimesAsked, Sound, TypeOK
    <3>6. \A n : /\ TimesAsked(L.conv, n) <= Cardinality(Places(outbox[L.conv] \o L.out, <<"say", n>>))
                 /\ \A k \in 1 .. Len(L.out) : L.out[k] = <<"say", n>> =>
                      TimesAsked(L.conv, n) < Cardinality(Places(outbox[L.conv] \o L.out, <<"say", n>>))
                 /\ Cardinality(Places(outbox[L.conv] \o L.out, <<"say", n>>)) \in Nat
      <4>1. outbox[L.conv] \o L.out \in Seq(Entry)
        BY <3>2, ConcatProperties
      <4> QED  BY <3>2, <4>1, AskedType, PlacesOfConcat, PlacesCount
    <3>7. \A c, n : c = L.conv =>
             TimesAsked(c, n)' = Cardinality(Places(outbox[L.conv] \o L.out, <<"say", n>>))
      BY <3>1, <3>2 DEF TimesAsked, Places, Sound, TypeOK
    <3>8. \A c \in ConvId : \A n : TimesAsked(c, n) \in Nat /\ Given(c, n) \in Nat
      <4>1. \A c, n : {a \in answers : a.conv = c /\ a.node = n} \subseteq answers
        OBVIOUS
      <4> QED  BY <2>1, <4>1, AskedType, FS_Subset, FS_CardinalityType DEF Given
    <3>9. \A c \in ConvId, n \in Node : Given(c, n)' <= TimesAsked(c, n)'
      <4> SUFFICES ASSUME NEW c \in ConvId, NEW n \in Node PROVE Given(c, n)' <= TimesAsked(c, n)'
        OBVIOUS
      <4>1. CASE c = L.conv
        <5>1. TimesAsked(c, n) <= TimesAsked(c, n)' /\ TimesAsked(c, n)' \in Nat
          BY <3>6, <3>7, <4>1
        <5>2. Given(c, n) <= TimesAsked(c, n) /\ Given(c, n)' = Given(c, n)
          BY <2>1, <3>4
        <5>3. TimesAsked(c, n) \in Nat /\ Given(c, n) \in Nat
          BY <3>8
        <5> QED  BY <5>1, <5>2, <5>3
      <4>2. CASE c # L.conv
        BY <2>1, <3>4, <3>5, <4>2
      <4> QED  BY <4>1, <4>2
    <3>10. ASSUME NEW c \in Active, HasRow(c) PROVE Due(c)'
      <4>1. c \in ConvId
        BY DEF Active
      <4>2. CASE c = L.conv
        <5>1. PICK n : n = progress[c].node
          OBVIOUS
        <5>2. \/ Given(c, n) < TimesAsked(c, n)
              \/ \E k \in 1 .. Len(L.out) : L.out[k] = <<"say", n>>
          BY <2>1, <3>1, <3>10, <4>2, <5>1 DEF MayAnswer, Due
        <5>3. n \in Node
          BY <3>10, <4>1, <5>1 DEF HasRow, Sound, TypeOK, ProgressRow
        <5>4. Given(c, n) <= TimesAsked(c, n)
          BY <2>1, <4>1, <5>3
        <5>5. /\ TimesAsked(c, n) <= TimesAsked(c, n)' /\ TimesAsked(c, n)' \in Nat
              /\ (\E k \in 1 .. Len(L.out) : L.out[k] = <<"say", n>>) =>
                   TimesAsked(c, n) < TimesAsked(c, n)'
          BY <3>6, <3>7, <4>2
        <5>6. TimesAsked(c, n) \in Nat /\ Given(c, n) \in Nat /\ Given(c, n)' = Given(c, n)
          BY <3>4, <3>8, <4>1
        <5>7. Given(c, n)' < TimesAsked(c, n)'
          <6>1. CASE Given(c, n) < TimesAsked(c, n)
            BY <5>5, <5>6, <6>1
          <6>2. CASE TimesAsked(c, n) < TimesAsked(c, n)'
            BY <5>4, <5>5, <5>6, <6>2
          <6> QED  BY <5>2, <5>5, <6>1, <6>2
        <5> QED  BY <3>1, <5>1, <5>7 DEF Due
      <4>3. CASE c # L.conv
        <5>1. Due(c)
          BY <2>1, <2>3, <3>10, <4>3 DEF DueOrWorked, Working
        <5> QED  BY <3>1, <3>4, <3>5, <4>1, <4>3, <5>1 DEF Due
      <4> QED  BY <4>2, <4>3
    <3>11. DueOrWorked'
      BY <3>3, <3>10 DEF DueOrWorked
    <3>12. IsFiniteSet(answers')
      BY <2>1, <3>1
    <3> QED  BY <2>4, <2>7, <3>1, <3>9, <3>11, <3>12
  <2>32. ~Rejected(p)
    BY <1>1, <2>2 DEF Rejected, HoldsOn, Searching
  <2> QED
    BY <2>11, <2>12, <2>13, <2>14, <2>15, <2>20, <2>21, <2>22, <2>23, <2>25, <2>26, <2>27,
       <2>28, <2>29, <2>30, <2>31, <2>32 DEF HandlerStep
<1> QED  BY <1>2, <1>3

\* A step that touches no row; the handlers stay where they are or start.
LEMMA CountFrame ==
  ASSUME CountInv, Undisturbed' => Undisturbed, UNCHANGED <<answers, outbox>>,
         \A c \in Active' : c \in Active /\ progress'[c].node = progress[c].node,
         \A c \in Active : c \in Active',
         \A p \in Process : \/ at'[p] = at[p] /\ local'[p] = local[p]
                            \/ at[p] = "idle" /\ at'[p] = "findActive"
  PROVE  CountInv'
<1> SUFFICES ASSUME Undisturbed, Undisturbed'
             PROVE  /\ IsFiniteSet(answers') /\ \A c \in ConvId, n \in Node : Given(c, n)' <= TimesAsked(c, n)'
                    /\ DueOrWorked' /\ \A p \in Process : MayAnswer(p)'
  BY DEF CountInv
<1>1. \A c, n : Given(c, n)' = Given(c, n) /\ TimesAsked(c, n)' = TimesAsked(c, n)
  BY DEF Given, TimesAsked
<1>2. \A c \in Active' : HasRow(c)' = HasRow(c) /\ Due(c)' = Due(c)
  BY <1>1 DEF HasRow, Due
<1>3. DueOrWorked'
  BY <1>2 DEF CountInv, DueOrWorked, Working
<1>4. ASSUME NEW p \in Process PROVE MayAnswer(p)'
  <2>1. CASE at'[p] = at[p] /\ local'[p] = local[p]
    <3>1. MayAnswer(p)
      BY DEF CountInv
    <3>2. PICK c, n : c = local[p].conv /\ n = local[p].node
      OBVIOUS
    <3> QED  BY <1>1, <1>2, <2>1, <3>1, <3>2 DEF MayAnswer
  <2>2. CASE at'[p] = "findActive"
    BY <2>2 DEF MayAnswer
  <2> QED  BY <2>1, <2>2
<1> QED  BY <1>1, <1>3, <1>4 DEF CountInv

\* The other steps.
LEMMA CountStep ==
  ASSUME Sound, OneInv, AskInv, CountInv, NEW i, Instance = {i}, [Next]_vars
  PROVE  CountInv'
<1>1. CASE ~Undisturbed'
  BY <1>1 DEF CountInv
<1>2. CASE Undisturbed'
  <2>1. ASSUME UNCHANGED <<answers, outbox, status, progress, at, local>>, Undisturbed PROVE CountInv'
    BY <2>1, CountFrame DEF Active
  <2>2. ASSUME NEW m \in Msg, NEW k \in 0 .. MaxOption, Publish(m, k) PROVE CountInv'
    BY <1>2, <2>1, <2>2 DEF Publish, conversations, ghosts, Undisturbed
  <2>3. ASSUME NEW j \in Instance, NEW m \in Msg, Redeliver(j, m) PROVE CountInv'
    BY <1>2, <2>3 DEF Redeliver, NotSeen, Undisturbed
  <2>4. ASSUME NEW j \in Instance, NEW m \in Msg, Ignore(j, m) PROVE CountInv'
    BY <1>2, <2>1, <2>4 DEF Ignore, conversations, ghosts, Undisturbed
  <2>5. ASSUME NEW j \in Instance, NEW m \in Msg, Load(j, m) PROVE CountInv'
    <3>1. UNCHANGED <<answers, outbox, status, progress, faults, again>> /\ (overlap => overlap')
      BY <2>5 DEF Load, conversations
    <3>2. at[<<j, m>>] = "idle"
      <4>1. <<j, m>> \in Process
        BY DEF Process
      <4>2. mutex[j] = NoMsg
        BY <2>5 DEF Load, MutexFree
      <4> QED  BY <4>1, <4>2, EngineAssumption DEF Sound, TypeOK
    <3>3. \A p \in Process : \/ at'[p] = at[p] /\ local'[p] = local[p]
                             \/ at[p] = "idle" /\ at'[p] = "findActive"
      BY <2>5, <3>2 DEF Load, Sound, TypeOK, Process
    <3> QED  BY <1>2, <3>1, <3>3, CountFrame DEF Undisturbed, Active
  <2>6. ASSUME NEW p \in Process, Fail(p) PROVE CountInv'
    BY <1>2, <2>6, EngineAssumption DEF Fail, Fault, Undisturbed, Sound, TypeOK
  <2>7. ASSUME NEW j \in Instance, Crash(j) PROVE CountInv'
    BY <1>2, <2>7, EngineAssumption DEF Crash, Fault, Undisturbed, Sound, TypeOK
  <2>8. ASSUME NEW c \in ConvId, NEW on \in BOOLEAN, ToggleRead(c, on) PROVE CountInv'
    BY <1>2, <2>1, <2>8 DEF ToggleRead, Request, Untouched, handlers, conversations, Undisturbed
  <2>9. ASSUME NEW c \in ConvId, NEW st \in Stage, StageRead(c, st) PROVE CountInv'
    BY <1>2, <2>1, <2>9 DEF StageRead, Request, Untouched, handlers, conversations, Undisturbed
  <2>10. ASSUME ToggleWrite PROVE CountInv'
    <3>1. UNCHANGED <<answers, outbox, progress, at, local, overlap, faults, again>>
      BY <2>10 DEF ToggleWrite, Untouched, handlers
    <3>2. Undisturbed /\ status' = status
      BY <1>2, <2>10, <3>1 DEF Undisturbed, OneInv, ToggleWrite, Sound, TypeOK
    <3> QED  BY <2>1, <3>1, <3>2
  <2>11. ASSUME StageWrite PROVE CountInv'
    <3>1. /\ UNCHANGED <<answers, outbox, status, at, local, overlap, faults, again>>
          /\ progress' = [progress EXCEPT ![act.conv] = act.row]
      BY <2>11 DEF StageWrite, Untouched, handlers, conversations, ghosts
    <3>2. Undisturbed
      BY <1>2, <3>1 DEF Undisturbed
    <3>3. act.row.node = progress[act.conv].node
      BY <2>11, <3>2 DEF AskInv, RequestFresh, StageWrite
    <3>4. \A c \in ConvId : progress'[c].node = progress[c].node
      BY <3>1, <3>3 DEF Sound, TypeOK
    <3> QED  BY <3>1, <3>2, <3>4, CountFrame DEF Active
  <2>12. ASSUME WriteRejected PROVE CountInv'
    BY <1>2, <2>1, <2>12 DEF WriteRejected, Untouched, handlers, conversations, ghosts, Undisturbed
  <2>13. ASSUME Delete PROVE CountInv'
    <3>1. /\ at' = at /\ Idle /\ status' = [c \in ConvId |-> "ABSENT"]
          /\ answers' = {} /\ outbox' = [c \in ConvId |-> <<>>]
      BY <1>2, <2>13 DEF Delete, handlers, Undisturbed
    <3>2. Active' = {} /\ IsFiniteSet(answers')
      BY <3>1, FS_EmptySet DEF Active
    <3>3. \A c \in ConvId, n \in Node : Given(c, n)' = 0 /\ TimesAsked(c, n)' = 0
      <4> SUFFICES ASSUME NEW c \in ConvId, NEW n \in Node PROVE Given(c, n)' = 0 /\ TimesAsked(c, n)' = 0
        OBVIOUS
      <4>1. {a \in answers' : a.conv = c /\ a.node = n} = {}
        BY <3>1
      <4>2. {k \in 1 .. Len(outbox'[c]) : outbox'[c][k] = <<"say", n>>} = {}
        BY <3>1
      <4> QED  BY <4>1, <4>2, FS_EmptySet DEF Given, TimesAsked
    <3>4. DueOrWorked' /\ \A p \in Process : MayAnswer(p)'
      BY <3>1, <3>2 DEF DueOrWorked, MayAnswer, Idle
    <3> QED  BY <3>2, <3>3, <3>4 DEF CountInv
  <2>14. ASSUME NEW f \in Flows \cup {NoFlow}, EditFlow(f) PROVE CountInv'
    BY <1>2, <2>1, <2>14 DEF EditFlow, conversations, handlers, ghosts, Undisturbed
  <2>15. ASSUME HourPasses PROVE CountInv'
    BY <1>2, <2>1, <2>15 DEF HourPasses, conversations, ghosts, Undisturbed
  <2>16. ASSUME UNCHANGED vars PROVE CountInv'
    BY <1>2, <2>1, <2>16 DEF vars, conversations, handlers, ghosts, Undisturbed
  <2>17. ASSUME NEW p \in Process, HandlerStep(p) PROVE CountInv'
    BY <2>17, CountHandlerStep
  <2> QED
    BY <2>2, <2>3, <2>4, <2>5, <2>6, <2>7, <2>8, <2>9, <2>10, <2>11, <2>12, <2>13, <2>14, <2>15,
       <2>16, <2>17 DEF Next, Quiet
<1> QED  BY <1>1, <1>2

\* With one process, in the same undisturbed runs, a node of a conversation never has
\* more answers than the times its question was sent: two quick messages, or one sent
\* while the question is being asked, never both answer it.
THEOREM AnswersHaveQuestions ==
  ASSUME NEW i, Instance = {i}
  PROVE  Spec => []AnswersMatchQuestions
<1>1. Init => OneInv /\ AskInv
  BY DEF Init, OneInv, AskInv, StandsAsked, NewRowless, RequestFresh, Unrecorded, HoldsOn, HasRow,
         Active, NoAct, NoProgress, Searching, Wordless, Process
<1>2. Init => CountInv
  <2> SUFFICES ASSUME Init PROVE CountInv
    OBVIOUS
  <2>1. IsFiniteSet(answers) /\ Active = {} /\ \A p \in Process : at[p] = "idle"
    BY FS_EmptySet DEF Init, Active
  <2>2. \A c \in ConvId, n \in Node : Given(c, n) = 0 /\ TimesAsked(c, n) = 0
    <3> SUFFICES ASSUME NEW c \in ConvId, NEW n \in Node PROVE Given(c, n) = 0 /\ TimesAsked(c, n) = 0
      OBVIOUS
    <3>1. {a \in answers : a.conv = c /\ a.node = n} = {}
      BY DEF Init
    <3>2. {k \in 1 .. Len(outbox[c]) : outbox[c][k] = <<"say", n>>} = {}
      BY DEF Init
    <3> QED  BY <3>1, <3>2, FS_EmptySet DEF Given, TimesAsked
  <2> QED  BY <2>1, <2>2 DEF CountInv, DueOrWorked, MayAnswer
<1>3. CountInv => AnswersMatchQuestions
  BY DEF CountInv, AnswersMatchQuestions, Given
<1>4. Sound /\ OneInv /\ AskInv /\ CountInv /\ [Next]_vars => OneInv' /\ AskInv' /\ CountInv'
  BY OneStep, AskStep, CountStep
<1> QED  BY <1>1, <1>2, <1>3, <1>4, EngineSound, PTL DEF Spec


-----------------------------------------------------------------------------
(* Routes: a path that cannot be continued is the route *)

\* p follows the flow f from n and visits no node twice.
Follows(f, n, p) ==
  /\ p \in Seq(Node) /\ p # <<>> /\ p[1] = n
  /\ \A k \in 1 .. Len(p) - 1 : PassesOn(f, p[k]) /\ p[k + 1] = f.next[p[k]]
  /\ \A j, k \in 1 .. Len(p) : j # k => p[j] # p[k]

\* It cannot be continued: it leads nowhere, or back to one of its nodes.
Ends(f, p) ==
  PassesOn(f, p[Len(p)]) => \E j \in 1 .. Len(p) : f.next[p[Len(p)]] = p[j]

\* How many of its nodes have something to say, where the last may not.
Speaks(f, p) ==
  IF HasNode(f, p[Len(p)]) /\ f.says[p[Len(p)]] THEN Len(p) ELSE Len(p) - 1

\* A set of numbers has a least one.
LEMMA LeastNumber ==
  ASSUME NEW S, S \subseteq Nat, S # {}
  PROVE  \E x \in S : \A y \in S : x <= y
<1>1. PICK x \in S : \A y \in S : ~(<<y, x>> \in OpToRel(<, Nat))
  BY WFMin, NatLessThanWellFounded, Zenon
<1>2. ASSUME NEW y \in S PROVE x <= y
  <2>1. x \in Nat /\ y \in Nat
    OBVIOUS
  <2>2. ~(y < x)
    BY <1>1, <2>1 DEF OpToRel
  <2> QED  BY <2>1, <2>2
<1> QED  BY <1>2

\* A path without repetition is no longer than there are nodes.
LEMMA PathsFollow ==
  ASSUME NEW f, NEW n, NEW p
  PROVE  p \in Paths(f, n) <=> Follows(f, n, p)
<1>1. Cardinality(Node) \in Nat
  BY EngineAssumption, FS_CardinalityType
<1>2. ASSUME p \in Paths(f, n) PROVE Follows(f, n, p)
  <2>1. PICK k \in 1 .. Cardinality(Node) : p \in [1 .. k -> Node]
    BY <1>2 DEF Paths
  <2>2. k \in Nat /\ k >= 1
    BY <1>1, <2>1
  <2>3. p \in Seq(Node) /\ Len(p) = k /\ p # <<>>
    BY <2>1, <2>2
  <2> QED  BY <1>2, <2>3 DEF Paths, Follows
<1>3. ASSUME Follows(f, n, p) PROVE p \in Paths(f, n)
  <2>1. Len(p) \in Nat \ {0} /\ p \in [1 .. Len(p) -> Node]
    BY <1>3, EmptySeq, LenProperties DEF Follows
  <2>2. p \in Injection(1 .. Len(p), Node)
    BY <1>3, <2>1 DEF Injection, IsInjective, Follows
  <2>3. Cardinality(1 .. Len(p)) <= Cardinality(Node)
    BY <2>2, EngineAssumption, FS_Injection
  <2>4. Cardinality(1 .. Len(p)) = Len(p)
    BY <2>1, FS_Interval
  <2>5. Len(p) \in 1 .. Cardinality(Node)
    BY <1>1, <2>1, <2>3, <2>4
  <2> QED  BY <1>3, <2>1, <2>5 DEF Paths, Follows
<1> QED  BY <1>2, <1>3

\* Two paths from the same node agree as far as both go.
LEMMA SamePath ==
  ASSUME NEW f, NEW n, NEW p, NEW q, Follows(f, n, p), Follows(f, n, q),
         NEW i \in 1 .. Len(p), i <= Len(q)
  PROVE  p[i] = q[i]
<1> DEFINE Apart == {k \in Nat : k \in 1 .. Len(p) /\ k <= Len(q) /\ p[k] # q[k]}
<1>1. Len(p) \in Nat /\ Len(q) \in Nat
  BY LenProperties DEF Follows
<1>2. SUFFICES ASSUME Apart # {} PROVE FALSE
  BY <1>1
<1>3. PICK k \in Apart : \A j \in Apart : k <= j
  BY <1>2, LeastNumber
<1>4. k # 1
  BY <1>3 DEF Follows
<1>5. k - 1 \in 1 .. Len(p) - 1 /\ k - 1 \in 1 .. Len(q) - 1 /\ k - 1 \in Nat
  BY <1>1, <1>3, <1>4
<1>6. k - 1 \notin Apart
  BY <1>3, <1>5
<1>7. p[k - 1] = q[k - 1]
  BY <1>1, <1>5, <1>6
<1>8. p[(k - 1) + 1] = f.next[p[k - 1]] /\ q[(k - 1) + 1] = f.next[q[k - 1]]
  BY <1>5 DEF Follows
<1>9. (k - 1) + 1 = k
  BY <1>5
<1> QED  BY <1>3, <1>7, <1>8, <1>9

\* A path that cannot be continued is longer than any other: it is the route.
LEMMA LongestIsRoute ==
  ASSUME NEW f, NEW n, NEW p, Follows(f, n, p), Ends(f, p)
  PROVE  Route(f, n) = p
<1> DEFINE r == Route(f, n)
<1>1. Len(p) \in Nat \ {0}
  BY EmptySeq DEF Follows
<1>2. ASSUME NEW q, Follows(f, n, q) PROVE Len(q) <= Len(p)
  <2>1. Len(q) \in Nat \ {0}
    BY <1>2, EmptySeq DEF Follows
  <2>2. SUFFICES ASSUME Len(q) > Len(p) PROVE FALSE
    BY <1>1, <2>1
  <2>3. Len(p) \in 1 .. Len(q) - 1
    BY <1>1, <2>1, <2>2
  <2>4. q[Len(p)] = p[Len(p)]
    BY <1>1, <1>2, <2>1, <2>2, SamePath
  <2>5. PassesOn(f, p[Len(p)]) /\ q[Len(p) + 1] = f.next[p[Len(p)]]
    BY <1>2, <2>3, <2>4 DEF Follows
  <2>6. PICK j \in 1 .. Len(p) : q[Len(p) + 1] = p[j]
    BY <2>5 DEF Ends
  <2>7. q[j] = p[j]
    BY <1>1, <1>2, <2>1, <2>2, SamePath
  <2>8. j \in 1 .. Len(q) /\ Len(p) + 1 \in 1 .. Len(q) /\ j # Len(p) + 1
    BY <1>1, <2>1, <2>2
  <2> QED  BY <1>2, <2>6, <2>7, <2>8 DEF Follows
<1>3. p \in Paths(f, n) /\ \A q \in Paths(f, n) : Len(q) <= Len(p)
  BY <1>2, PathsFollow
<1>4. r \in Paths(f, n) /\ \A q \in Paths(f, n) : Len(q) <= Len(r)
  BY <1>3 DEF Route
<1>5. Follows(f, n, r)
  BY <1>4, PathsFollow
<1>6. Len(r) = Len(p)
  <2>1. Len(r) \in Nat
    BY <1>5, LenProperties DEF Follows
  <2> QED  BY <1>1, <1>3, <1>4, <2>1
<1>7. \A i \in 1 .. Len(r) : r[i] = p[i]
  BY <1>1, <1>5, <1>6, SamePath
<1> QED  BY <1>5, <1>6, <1>7, SeqEqual DEF Follows

\* ... and the outcome can be read off it.
LEMMA OutcomeOf ==
  ASSUME NEW f, NEW n, NEW p, Follows(f, n, p), Ends(f, p)
  PROVE  /\ Speaks(f, p) \in Nat
         /\ Len(Outcome(f, n).said) = Speaks(f, p)
         /\ \A i \in 1 .. Speaks(f, p) : Outcome(f, n).said[i] = p[i]
         /\ Outcome(f, n).node =
              IF PassesOn(f, p[Len(p)]) THEN f.next[p[Len(p)]] ELSE p[Len(p)]
         /\ Outcome(f, n).asks = IsQuestion(f, p[Len(p)])
<1> DEFINE k == Speaks(f, p)
<1>1. Route(f, n) = p
  BY LongestIsRoute
<1>2. Outcome(f, n) = [said |-> SubSeq(p, 1, k),
                       node |-> IF PassesOn(f, p[Len(p)]) THEN f.next[p[Len(p)]] ELSE p[Len(p)],
                       asks |-> IsQuestion(f, p[Len(p)])]
  BY <1>1 DEF Outcome, Speaks
<1>3. Len(p) \in Nat \ {0} /\ k \in Nat /\ k <= Len(p)
  BY EmptySeq DEF Follows, Speaks
<1> HIDE DEF k
<1>4. \A i \in 1 .. k : p[i] \in Node
  <2>1. \A i \in 1 .. k : i \in 1 .. Len(p)
    BY <1>3
  <2> QED  BY <2>1, ElementOfSeq DEF Follows
<1>5. Len(SubSeq(p, 1, k)) = k /\ \A i \in 1 .. k : SubSeq(p, 1, k)[i] = p[i]
  <2>1. /\ Len(SubSeq(p, 1, k)) = IF 1 <= k THEN k - 1 + 1 ELSE 0
        /\ \A i \in 1 .. k - 1 + 1 : SubSeq(p, 1, k)[i] = p[1 + i - 1]
    BY <1>3, <1>4, SubSeqProperties
  <2> QED  BY <1>3, <2>1
<1> QED  BY <1>2, <1>3, <1>5 DEF k

-----------------------------------------------------------------------------
(* The loop: what was said so far is the way to the node it stands at *)

\* The nodes said so far, and the one reached.
Trail(L) == [k \in 1 .. Len(L.out) + 1 |-> IF k <= Len(L.out) THEN L.out[k][2] ELSE L.node]

Walked(L) ==
  LET t == Trail(L)
      said == 1 .. Len(L.out)
  IN  /\ t[1] = L.from /\ L.waiting = FALSE
      /\ \A k \in said : /\ L.out[k] = <<"say", t[k]>>
                         /\ PassesOn(L.plan, t[k]) /\ t[k + 1] = L.plan.next[t[k]]
      /\ \A j, k \in said : j # k => t[j] # t[k]
      /\ L.visited = {t[k] : k \in said}

\* The walk is over where FlowGraph says.
Arrived(L) ==
  LET end == Outcome(L.plan, L.from)
  IN  /\ L.out = [k \in 1 .. Len(end.said) |-> <<"say", end.said[k]>>]
      /\ L.node = end.node /\ L.waiting = end.asks

\* A handler that has said nothing stands at the beginning of its trail.
LEMMA WalkBegins ==
  ASSUME NEW L, L.out = <<>>, L.visited = {}, L.from = L.node, L.waiting = FALSE
  PROVE  Walked(L)
<1>1. Len(L.out) = 0 /\ 1 .. Len(L.out) = {}
  OBVIOUS
<1>2. Trail(L)[1] = L.node
  BY <1>1 DEF Trail
<1> QED  BY <1>1, <1>2 DEF Walked

\* A trail is a sequence of nodes: those of the messages, and the one reached.
LEMMA TrailType ==
  ASSUME NEW L \in Entities, L.node \in Node
  PROVE  /\ Len(L.out) \in Nat
         /\ Trail(L) \in Seq(Node) /\ Len(Trail(L)) = Len(L.out) + 1
         /\ \A k \in 1 .. Len(L.out) : Trail(L)[k] = L.out[k][2]
         /\ Trail(L)[Len(L.out) + 1] = L.node
<1>1. L.out \in Seq(Entry)
  BY DEF Entities
<1>2. Len(L.out) \in Nat /\ \A k \in 1 .. Len(L.out) : L.out[k] \in Entry
  BY <1>1, LenProperties, ElementOfSeq
<1>3. \A k \in 1 .. Len(L.out) : L.out[k][2] \in Node
  BY <1>2 DEF Entry
<1>4. \A k \in 1 .. Len(L.out) + 1 : Trail(L)[k] \in Node
  BY <1>2, <1>3 DEF Trail
<1>5. Trail(L) \in [1 .. Len(L.out) + 1 -> Node]
  BY <1>4 DEF Trail
<1> QED  BY <1>2, <1>5 DEF Trail

\* A trail that reached a new node is a path to it.
LEMMA TrailFollows ==
  ASSUME NEW L \in Entities, L.node \in Node, Walked(L), L.node \notin L.visited
  PROVE  Follows(L.plan, L.from, Trail(L))
<1> DEFINE t == Trail(L)
<1>1. /\ Len(L.out) \in Nat /\ t \in Seq(Node) /\ Len(t) = Len(L.out) + 1
      /\ t[Len(L.out) + 1] = L.node
  BY TrailType
<1>2. t # <<>>
  BY <1>1
<1>3. \A k \in 1 .. Len(t) - 1 : PassesOn(L.plan, t[k]) /\ t[k + 1] = L.plan.next[t[k]]
  BY <1>1 DEF Walked
<1>4. ASSUME NEW j \in 1 .. Len(t), NEW k \in 1 .. Len(t), j < k PROVE t[j] # t[k]
  <2>1. j \in 1 .. Len(L.out)
    BY <1>1, <1>4
  <2>2. CASE k \in 1 .. Len(L.out)
    BY <1>4, <2>1, <2>2 DEF Walked
  <2>3. CASE k = Len(L.out) + 1
    BY <1>1, <2>1, <2>3 DEF Walked
  <2> QED  BY <1>1, <2>2, <2>3
<1>5. \A j, k \in 1 .. Len(t) : j # k => t[j] # t[k]
  <2> TAKE j, k \in 1 .. Len(t)
  <2>1. j \in Nat /\ k \in Nat
    BY <1>1
  <2> QED  BY <1>4, <2>1
<1>6. t[1] = L.from
  BY DEF Walked
<1> QED  BY <1>1, <1>2, <1>3, <1>5, <1>6 DEF Follows

\* A turn of the loop that goes on.
LEMMA WalkGoesOn ==
  ASSUME NEW L \in Entities, L.plan \in Flows, L.node \in Node, Walked(L),
         L.node \notin L.visited, PassesOn(L.plan, L.node),
         NEW M \in Entities, M.plan = L.plan, M.from = L.from, M.waiting = FALSE,
         M.node = L.plan.next[L.node], M.visited = L.visited \cup {L.node},
         M.out = AtNode(L).out
  PROVE  Walked(M)
<1> DEFINE t == Trail(L)
           u == Trail(M)
           n == Len(L.out)
<1>1. /\ n \in Nat /\ Len(t) = n + 1 /\ t[n + 1] = L.node
      /\ \A k \in 1 .. n : t[k] = L.out[k][2]
  BY TrailType
<1>2. L.plan.says[L.node]
  BY EngineAssumption DEF Flow, PassesOn, IsSpeech
<1>3. M.out = Append(L.out, <<"say", L.node>>)
  BY <1>2 DEF AtNode, Entities
<1>4. /\ Len(M.out) = n + 1 /\ M.out[n + 1] = <<"say", L.node>>
      /\ \A k \in 1 .. n : M.out[k] = L.out[k]
  <2>1. L.out \in Seq(Entry) /\ <<"say", L.node>> \in Entry
    BY DEF Entities, Entry
  <2> QED  BY <1>3, <2>1, AppendProperties
<1>5. M.node \in Node
  BY EngineAssumption DEF Flow, PassesOn
<1>6. /\ u[n + 2] = M.node
      /\ \A k \in 1 .. n + 1 : u[k] = M.out[k][2]
  <2>1. n + 1 + 1 = n + 2
    BY <1>1
  <2> QED  BY <1>4, <1>5, <2>1, TrailType
<1>7. \A k \in 1 .. n + 1 : u[k] = t[k]
  <2> TAKE k \in 1 .. n + 1
  <2>1. CASE k = n + 1
    BY <1>1, <1>4, <1>6, <2>1
  <2>2. CASE k # n + 1
    <3>1. k \in 1 .. n
      BY <1>1, <2>2
    <3> QED  BY <1>1, <1>4, <1>6, <3>1
  <2> QED  BY <2>1, <2>2
<1>8. /\ \A k \in 1 .. n : PassesOn(L.plan, t[k]) /\ t[k + 1] = L.plan.next[t[k]]
                           /\ L.out[k] = <<"say", t[k]>>
      /\ t[1] = L.from
      /\ L.visited = {t[k] : k \in 1 .. n}
  BY DEF Walked
<1>9. u[1] = M.from
  BY <1>1, <1>7, <1>8
<1>10. ASSUME NEW k \in 1 .. n + 1
       PROVE  /\ M.out[k] = <<"say", u[k]>>
              /\ PassesOn(M.plan, u[k]) /\ u[k + 1] = M.plan.next[u[k]]
  <2>1. CASE k = n + 1
    <3>1. u[k] = L.node /\ k + 1 = n + 2
      BY <1>1, <1>7, <2>1
    <3> QED  BY <1>4, <1>6, <2>1, <3>1
  <2>2. CASE k # n + 1
    <3>1. k \in 1 .. n /\ k + 1 \in 1 .. n + 1
      BY <1>1, <2>2
    <3> QED  BY <1>4, <1>7, <1>8, <3>1
  <2> QED  BY <2>1, <2>2
<1>11. \A j, k \in 1 .. n + 1 : j # k => u[j] # u[k]
  BY <1>1, <1>7, TrailFollows DEF Follows
<1>12. M.visited = {u[k] : k \in 1 .. n + 1}
  <2>1. \A k \in 1 .. n + 1 : k \in 1 .. n \/ k = n + 1
    BY <1>1
  <2>2. \A k \in 1 .. n : k \in 1 .. n + 1
    BY <1>1
  <2>3. n + 1 \in 1 .. n + 1
    BY <1>1
  <2> HIDE DEF n, t, u
  <2>4. L.visited \cup {L.node} = {t[k] : k \in 1 .. n + 1}
    BY <1>1, <1>8, <2>1, <2>2, <2>3
  <2> QED  BY <1>7, <2>4
<1> QED  BY <1>4, <1>9, <1>10, <1>11, <1>12 DEF Walked

\* A node that is no question does not make the bot wait.
LEMMA NoQuestion ==
  ASSUME NEW f, NEW n, ~IsQuestion(f, n), NEW w, w = FALSE
  PROVE  w = IsQuestion(f, n)
<1>1. IsQuestion(f, n) \in BOOLEAN
  BY DEF IsQuestion
<1> QED  BY <1>1

\* What is said when the walk is over.
LEMMA SaidInOrder ==
  ASSUME NEW L \in Entities, NEW end, NEW k \in Nat, Len(L.out) = k, Len(end.said) = k,
         \A i \in 1 .. k : L.out[i] = <<"say", end.said[i]>>
  PROVE  L.out = [i \in 1 .. Len(end.said) |-> <<"say", end.said[i]>>]
<1>1. L.out \in [1 .. k -> Entry]
  BY LenProperties DEF Entities
<1> QED  BY <1>1

\* The walk comes back to a node: the trail without it is the route.
LEMMA WalkEndsInCycle ==
  ASSUME NEW L \in Entities, L.plan \in Flows, L.node \in Node, Walked(L),
         L.node \in L.visited
  PROVE  Arrived(L) /\ ~Outcome(L.plan, L.from).asks
<1> DEFINE t == Trail(L)
           n == Len(L.out)
           p == SubSeq(t, 1, n)
           f == L.plan
           end == Outcome(f, L.from)
<1>1. n \in Nat /\ t \in Seq(Node) /\ Len(t) = n + 1 /\ t[n + 1] = L.node
  BY TrailType
<1>2. PICK c \in 1 .. n : L.node = t[c]
  BY DEF Walked
<1>3. n >= 1 /\ n \in 1 .. n
  BY <1>1, <1>2
<1>4. p \in Seq(Node) /\ Len(p) = n /\ \A k \in 1 .. n : p[k] = t[k]
  <2>1. \A k \in 1 .. n : t[k] \in Node
    BY <1>1, ElementOfSeq
  <2>2. /\ p \in Seq(Node) /\ Len(p) = IF 1 <= n THEN n - 1 + 1 ELSE 0
        /\ \A k \in 1 .. n - 1 + 1 : p[k] = t[1 + k - 1]
    BY <1>1, <2>1, SubSeqProperties
  <2> QED  BY <1>1, <1>3, <2>2
<1>5. /\ \A k \in 1 .. n : /\ PassesOn(f, t[k]) /\ t[k + 1] = f.next[t[k]]
                           /\ L.out[k] = <<"say", t[k]>>
      /\ \A j, k \in 1 .. n : j # k => t[j] # t[k]
      /\ t[1] = L.from /\ L.waiting = FALSE
  BY DEF Walked
<1> HIDE DEF p, t, n
<1>6. Follows(f, L.from, p)
  <2>1. p # <<>>
    BY <1>3, <1>4
  <2>2. \A k \in 1 .. n - 1 : k \in 1 .. n /\ k + 1 \in 1 .. n
    BY <1>1
  <2>3. 1 \in 1 .. n
    BY <1>1, <1>3
  <2> QED  BY <1>4, <1>5, <2>1, <2>2, <2>3 DEF Follows
<1>7. /\ PassesOn(f, p[n]) /\ f.next[p[n]] = L.node /\ L.node = p[c]
  BY <1>1, <1>2, <1>3, <1>4, <1>5
<1>8. HasNode(f, p[n]) /\ f.says[p[n]] /\ ~IsQuestion(f, p[n])
  <2>1. p[n] \in Node
    BY <1>3, <1>4, ElementOfSeq
  <2> QED  BY <1>7, <2>1, EngineAssumption DEF Flow, PassesOn, IsSpeech, HasNode, IsQuestion
<1>9. /\ Len(end.said) = n /\ \A i \in 1 .. n : end.said[i] = p[i]
      /\ end.node = L.node /\ end.asks = FALSE
  <2>1. Ends(f, p) /\ Speaks(f, p) = n
    BY <1>2, <1>4, <1>7, <1>8 DEF Ends, Speaks
  <2> HIDE DEF f
  <2> QED  BY <1>4, <1>6, <1>7, <1>8, <2>1, OutcomeOf DEF end
<1>10. Len(L.out) = n /\ \A i \in 1 .. n : L.out[i] = <<"say", end.said[i]>>
  BY <1>4, <1>5, <1>9 DEF n
<1> HIDE DEF end
<1>11. L.out = [k \in 1 .. Len(end.said) |-> <<"say", end.said[k]>>]
  BY <1>1, <1>9, <1>10, SaidInOrder
<1> QED  BY <1>5, <1>9, <1>11 DEF Arrived, end

\* The walk comes to a node that does not lead on: the trail is the route.
LEMMA WalkEndsHere ==
  ASSUME NEW L \in Entities, L.plan \in Flows, L.node \in Node, Walked(L),
         L.node \notin L.visited, ~PassesOn(L.plan, L.node),
         NEW M \in Entities, M.plan = L.plan, M.from = L.from, M.node = L.node,
         M.waiting = IsQuestion(L.plan, L.node),
         M.out = IF HasNode(L.plan, L.node) THEN AtNode(L).out ELSE L.out
  PROVE  Arrived(M) /\ Outcome(L.plan, L.from).asks = IsQuestion(L.plan, L.node)
<1> DEFINE t == Trail(L)
           n == Len(L.out)
           f == L.plan
           speaks == HasNode(f, L.node) /\ f.says[L.node]
           m == IF speaks THEN n + 1 ELSE n
           end == Outcome(f, L.from)
<1>1. n \in Nat /\ t \in Seq(Node) /\ Len(t) = n + 1 /\ t[n + 1] = L.node
  BY TrailType
<1>2. Follows(f, L.from, t)
  BY TrailFollows
<1>3. \A k \in 1 .. n : L.out[k] = <<"say", t[k]>>
  BY DEF Walked
<1>4. M.out = IF speaks THEN Append(L.out, <<"say", L.node>>) ELSE L.out
  BY DEF AtNode, Entities
<1>5. Len(M.out) = m /\ \A k \in 1 .. m : M.out[k] = <<"say", t[k]>>
  <2>1. L.out \in Seq(Entry) /\ <<"say", L.node>> \in Entry
    BY DEF Entities, Entry
  <2>2. CASE speaks
    <3>1. /\ Len(M.out) = n + 1 /\ M.out[n + 1] = <<"say", L.node>>
          /\ \A k \in 1 .. n : M.out[k] = L.out[k]
      <4>1. M.out = Append(L.out, <<"say", L.node>>)
        BY <1>4, <2>2
      <4> HIDE DEF speaks
      <4> QED  BY <2>1, <4>1, AppendProperties
    <3>2. \A k \in 1 .. n + 1 : k \in 1 .. n \/ k = n + 1
      BY <1>1
    <3> QED  BY <1>1, <1>3, <2>2, <3>1, <3>2
  <2>3. CASE ~speaks
    BY <1>3, <1>4, <2>3
  <2> QED  BY <2>2, <2>3
<1> HIDE DEF t, n
<1>6. m \in Nat /\ L.node = t[Len(t)] /\ Ends(f, t) /\ Speaks(f, t) = m
  BY <1>1 DEF Ends, Speaks
<1> HIDE DEF m
<1>7. /\ Len(end.said) = m /\ \A i \in 1 .. m : end.said[i] = t[i]
      /\ end.node = L.node /\ end.asks = IsQuestion(f, L.node)
  BY <1>2, <1>6, OutcomeOf
<1> HIDE DEF end
<1>8. M.out = [k \in 1 .. Len(end.said) |-> <<"say", end.said[k]>>]
  <2>1. \A i \in 1 .. m : M.out[i] = <<"say", end.said[i]>>
    BY <1>5, <1>7
  <2>2. Len(M.out) = m /\ Len(end.said) = m
    BY <1>5, <1>7
  <2> QED  BY <1>6, <2>1, <2>2, SaidInOrder
<1> QED  BY <1>7, <1>8 DEF Arrived, end

-----------------------------------------------------------------------------
(* The handlers: each says what the graph says *)

\* Before it walks, a handler has said nothing.
Before == {"findActive", "findLast", "createSilent", "create", "createProgress",
           "findProgress", "answer", "finish"}
Unwalked(step, L) ==
  /\ L.out = <<>> /\ L.visited = {} /\ L.from = None
  /\ step \notin {"answer", "finish"} => L.waiting = FALSE

Walking(step, L) ==
  /\ step \in Before => Unwalked(step, L)
  /\ step \in {"advance", "walk"} => Walked(L)
  /\ step = "saveProgress" => Arrived(L) /\ ~Outcome(L.plan, L.from).asks
  /\ step = "record" /\ L.from # None => Arrived(L)
WalkInv == \A p \in Process : Walking(at[p], local[p])

\* Every step of a handler keeps its words on the way the graph leads.
LEMMA WalkHandlerStep ==
  ASSUME Sound, WalkInv, NEW p \in Process, HandlerStep(p)
  PROVE  WalkInv'
<1> DEFINE L == local[p]
           f == L.plan
<1>1. /\ L \in Entities /\ Walking(at[p], L) /\ Knows(p[2], text[p[2]], lastConv, at[p], L)
      /\ at[p] # "idle"
      /\ \A q \in Process : q # p => at'[q] = at[q] /\ local'[q] = local[q]
  BY HandlerStepFrame DEF Sound, TypeOK, HandlerInv, WalkInv
<1>2. ASSUME NEW step, NEW M, GoOn(p, step, M), Walking(step, M) PROVE WalkInv'
  <2>1. at'[p] = step /\ local'[p] = M
    BY <1>2 DEF GoOn, Sound, TypeOK
  <2>2. \A q \in Process : Walking(at'[q], local'[q])
    BY <1>1, <1>2, <2>1 DEF WalkInv
  <2> QED  BY <2>2 DEF WalkInv
<1>3. ASSUME Leave(p) PROVE WalkInv'
  <2>1. at'[p] = "idle"
    BY <1>3 DEF Leave, Sound, TypeOK
  <2>2. \A q \in Process : Walking(at'[q], local'[q])
    BY <1>1, <2>1 DEF WalkInv, Walking, Before
  <2> QED  BY <2>2 DEF WalkInv
<1>4. at[p] \in Standing => L.node \in Node /\ f \in Flows
  BY <1>1 DEF Knows, Standing
<1>5. ASSUME NEW c, NEW step \in Before \cup {"record"}, at[p] \in Before \ {"answer", "finish"},
             GoOn(p, step, [L EXCEPT !.conv = c])
      PROVE  WalkInv'
  <2>1. Walking(step, [L EXCEPT !.conv = c])
    BY <1>1, <1>5 DEF Walking, Unwalked, Before, Entities
  <2> QED  BY <1>2, <1>5, <2>1
<1>6. ASSUME NEW step \in Before \cup {"record"}, at[p] \in Before \ {"answer", "finish"},
             GoOn(p, step, L)
      PROVE  WalkInv'
  <2>1. Walking(step, L)
    BY <1>1, <1>6 DEF Walking, Unwalked, Before
  <2> QED  BY <1>2, <1>6, <2>1
<1>7. CASE FindActive(p)
  BY <1>5, <1>6, <1>7 DEF FindActive, Before
<1>8. CASE FindLastFinished(p)
  BY <1>3, <1>5, <1>6, <1>8 DEF FindLastFinished, FirstContact, Before
<1>9. CASE CreateSilent(p) \/ Create(p)
  BY <1>5, <1>9 DEF CreateSilent, Create, CreateConversation, Before
<1>10. CASE CreateProgress(p)
  <2> DEFINE M == [L EXCEPT !.node = f.start, !.from = f.start]
  <2>1. M.out = <<>> /\ M.visited = {} /\ M.from = M.node /\ M.waiting = FALSE
    BY <1>1, <1>10 DEF CreateProgress, Walking, Unwalked, Before, Entities
  <2>2. Walking("walk", M)
    BY <2>1, WalkBegins DEF Walking, Before
  <2>3. GoOn(p, "walk", M)
    BY <1>10 DEF CreateProgress
  <2> QED  BY <1>2, <2>2, <2>3
<1>11. CASE FindProgress(p)
  <2> DEFINE row == progress[L.conv]
             Again == [L EXCEPT !.out = << <<"again", row.node>> >>]
             Answer == [L EXCEPT !.node = row.node, !.waiting = TRUE, !.stage = row.stage]
  <2>1. GoOn(p, "record", L) \/ GoOn(p, "record", Again) \/ GoOn(p, "answer", Answer)
    BY <1>11 DEF FindProgress
  <2>2. at[p] = "findProgress" /\ Unwalked("findProgress", L)
    BY <1>1, <1>11 DEF FindProgress, Walking, Before
  <2>3. Walking("record", Again)
    BY <1>1, <2>2 DEF Walking, Unwalked, Before, Entities
  <2>4. Walking("answer", Answer)
    BY <1>1, <2>2 DEF Walking, Unwalked, Before, Entities
  <2> HIDE DEF Again, Answer
  <2> QED  BY <1>2, <1>6, <2>1, <2>2, <2>3, <2>4 DEF Before
<1>12. CASE SaveAnswer(p)
  <2> DEFINE target == Target(f, L.node, text[p[2]])
             M == [L EXCEPT !.node = target, !.waiting = FALSE, !.from = target]
  <2>1. Unwalked("answer", L) /\ (GoOn(p, "finish", L) \/ GoOn(p, "advance", M))
    BY <1>1, <1>12 DEF SaveAnswer, Walking, Before
  <2>2. M.out = <<>> /\ M.visited = {} /\ M.from = M.node /\ M.waiting = FALSE
    BY <1>1, <2>1 DEF Unwalked, Entities
  <2>3. Walking("advance", M)
    BY <2>2, WalkBegins DEF Walking, Before
  <2>4. Walking("finish", L)
    BY <2>1 DEF Walking, Unwalked, Before
  <2> QED  BY <1>2, <2>1, <2>3, <2>4
<1>13. CASE FinishUnanswered(p)
  <2>1. Walking("record", L) /\ GoOn(p, "record", L)
    BY <1>1, <1>13 DEF FinishUnanswered, Walking, Unwalked, Before
  <2> QED  BY <1>2, <2>1
<1>14. CASE Advance(p)
  <2>1. Walking("walk", L) /\ GoOn(p, "walk", L)
    BY <1>1, <1>14 DEF Advance, Walking, Before
  <2> QED  BY <1>2, <2>1
<1>15. CASE at[p] = "walk"
  <2>1. L.node \in Node /\ f \in Flows /\ Walked(L)
    BY <1>1, <1>4, <1>15 DEF Walking, Standing
  <2>2. HasNode(f, L.node) \/ (~PassesOn(f, L.node) /\ ~IsQuestion(f, L.node))
    BY DEF HasNode, PassesOn, IsSpeech, IsQuestion
  <2>3. CASE WalkCycle(p)
    <3>1. GoOn(p, "saveProgress", L) /\ L.node \in L.visited
      BY <2>3 DEF WalkCycle
    <3>2. Arrived(L) /\ ~Outcome(f, L.from).asks
      BY <1>1, <2>1, <3>1, WalkEndsInCycle
    <3>3. Walking("saveProgress", L)
      BY <3>2 DEF Walking, Before
    <3> QED  BY <1>2, <3>1, <3>3
  <2>4. CASE WalkLost(p)
    <3>6. L.waiting = FALSE
      BY <2>1 DEF Walked
    <3>5. ~IsQuestion(f, L.node)
      BY <2>2, <2>4 DEF WalkLost
    <3>7. L.waiting = IsQuestion(f, L.node)
      BY <3>5, <3>6, NoQuestion
    <3>1. /\ L.node \notin L.visited /\ ~PassesOn(f, L.node)
          /\ L.waiting = IsQuestion(f, L.node)
          /\ L.out = IF HasNode(f, L.node) THEN AtNode(L).out ELSE L.out
      BY <2>1, <2>2, <2>4, <3>7 DEF WalkLost
    <3>2. Arrived(L)
      BY <1>1, <2>1, <3>1, WalkEndsHere
    <3>3. Walking("record", L) /\ GoOn(p, "record", L)
      BY <2>4, <3>2 DEF WalkLost, Walking, Before
    <3> QED  BY <1>2, <3>3
  <2>5. CASE WalkEnd(p)
    <3> DEFINE M == AtNode(L)
    <3>1. /\ M \in Entities /\ M.plan = f /\ M.from = L.from /\ M.node = L.node
          /\ M.waiting = FALSE
      BY <1>1, <2>1, AtNodeType DEF Walked
    <3>2. GoOn(p, "saveProgress", M) /\ L.node \notin L.visited /\ HasNode(f, L.node)
          /\ ~IsQuestion(f, L.node) /\ ~PassesOn(f, L.node)
      BY <2>5 DEF WalkEnd, InLoop
    <3>8. M.waiting = IsQuestion(f, L.node)
      BY <3>1, <3>2, NoQuestion
    <3>9. M.out = IF HasNode(f, L.node) THEN AtNode(L).out ELSE L.out
      BY <3>2
    <3> HIDE DEF M
    <3>3. Arrived(M) /\ ~Outcome(f, L.from).asks
      BY <1>1, <2>1, <3>1, <3>2, <3>8, <3>9, WalkEndsHere
    <3>4. Walking("saveProgress", M)
      BY <3>1, <3>3 DEF Walking, Before
    <3> QED  BY <1>2, <3>2, <3>4
  <2>6. CASE WalkOn(p)
    <3> DEFINE M == [AtNode(L) EXCEPT !.node = f.next[L.node], !.waiting = FALSE]
    <3>1. GoOn(p, "walk", M) /\ L.node \notin L.visited /\ PassesOn(f, L.node)
      BY <2>6 DEF WalkOn, InLoop
    <3>2. f.next[L.node] \in Node
      BY <2>1, <3>1, EngineAssumption DEF Flow, PassesOn
    <3>3. /\ AtNode(L) \in Entities /\ AtNode(L).plan = f /\ AtNode(L).from = L.from
          /\ AtNode(L).visited = L.visited \cup {L.node}
      BY <1>1, <2>1, AtNodeType
    <3>4. /\ M \in Entities /\ M.plan = f /\ M.from = L.from /\ M.waiting = FALSE
          /\ M.node = f.next[L.node] /\ M.visited = L.visited \cup {L.node}
          /\ M.out = AtNode(L).out
      BY <3>2, <3>3 DEF Entities
    <3> HIDE DEF M
    <3>5. Walking("walk", M)
      BY <1>1, <2>1, <3>1, <3>4, WalkGoesOn DEF Walking, Before
    <3> QED  BY <1>2, <3>1, <3>5
  <2>7. CASE WalkAsk(p)
    <3> DEFINE M == [AtNode(L) EXCEPT !.waiting = TRUE]
    <3>1. GoOn(p, "record", M) /\ L.node \notin L.visited /\ IsQuestion(f, L.node)
          /\ HasNode(f, L.node) /\ ~PassesOn(f, L.node)
      BY <2>7 DEF WalkAsk, InLoop, IsQuestion, PassesOn, IsSpeech
    <3>2. /\ AtNode(L) \in Entities /\ AtNode(L).plan = f /\ AtNode(L).from = L.from
          /\ AtNode(L).node = L.node
      BY <1>1, <2>1, AtNodeType
    <3>3. /\ M \in Entities /\ M.plan = f /\ M.from = L.from /\ M.waiting = TRUE
          /\ M.node = L.node /\ M.out = AtNode(L).out
      BY <3>2 DEF Entities
    <3> HIDE DEF M
    <3>4. Arrived(M)
      BY <1>1, <2>1, <3>1, <3>3, WalkEndsHere DEF IsQuestion
    <3>5. Walking("record", M)
      BY <3>4 DEF Walking, Before
    <3> QED  BY <1>2, <3>1, <3>5
  <2> QED
    BY <1>3, <1>15, <2>3, <2>4, <2>5, <2>6, <2>7
    DEF HandlerStep, FindActive, FindLastFinished, CreateSilent, Create, CreateProgress,
        FindProgress, SaveAnswer, FinishUnanswered, Advance, SaveProgress, RecordMessage,
        EnqueueReplies, Rejected
<1>16. CASE SaveProgress(p)
  <2>1. Walking("record", L) /\ GoOn(p, "record", L)
    BY <1>1, <1>16 DEF SaveProgress, Walking, Before
  <2> QED  BY <1>2, <2>1
<1>17. CASE RecordMessage(p) \/ EnqueueReplies(p) \/ Rejected(p)
  <2>1. Walking("enqueue", L)
    BY DEF Walking, Before
  <2> QED  BY <1>2, <1>3, <1>17, <2>1 DEF RecordMessage, EnqueueReplies, Rejected
<1> QED
  BY <1>7, <1>8, <1>9, <1>10, <1>11, <1>12, <1>13, <1>14, <1>15, <1>16, <1>17
  DEF HandlerStep, WalkCycle, WalkLost, WalkEnd, WalkOn, WalkAsk, InLoop

\* The others start with nothing said, stop, or leave the handlers alone.
LEMMA WalkStep ==
  ASSUME Sound, WalkInv, [Next]_vars
  PROVE  WalkInv'
<1>1. ASSUME NEW p \in Process, HandlerStep(p) PROVE WalkInv'
  BY <1>1, WalkHandlerStep
<1>2. ASSUME \A p \in Process : at'[p] = "idle" \/ (at'[p] = at[p] /\ local'[p] = local[p])
      PROVE  WalkInv'
  <2>1. \A p \in Process : Walking(at'[p], local'[p])
    BY <1>2 DEF WalkInv, Walking, Before
  <2> QED  BY <2>1 DEF WalkInv
<1>3. ASSUME NEW i \in Instance, NEW m \in Msg, Load(i, m) PROVE WalkInv'
  <2> DEFINE M == [Blank EXCEPT !.plan = flow, !.paused = paused]
  <2>1. Walking("findActive", M)
    BY DEF Walking, Unwalked, Before, Blank
  <2> HIDE DEF M
  <2>2. \A p \in Process : Walking(at'[p], local'[p])
    <3> TAKE p \in Process
    <3>1. CASE p = <<i, m>>
      BY <1>3, <2>1, <3>1 DEF Load, Sound, TypeOK, M
    <3>2. CASE p # <<i, m>>
      BY <1>3, <3>2 DEF Load, Sound, TypeOK, WalkInv
    <3> QED  BY <3>1, <3>2
  <2> QED  BY <2>2 DEF WalkInv
<1>4. ASSUME NEW p \in Process, Fail(p) PROVE WalkInv'
  BY <1>2, <1>4 DEF Fail, Sound, TypeOK
<1>5. ASSUME NEW i \in Instance, Crash(i) PROVE WalkInv'
  BY <1>2, <1>5 DEF Crash
<1>6. ASSUME UNCHANGED <<at, local>> PROVE WalkInv'
  BY <1>2, <1>6
<1> QED
  BY <1>1, <1>3, <1>4, <1>5, <1>6
  DEF Next, vars, handlers, Publish, Redeliver, Ignore, ToggleRead, StageRead, ToggleWrite,
      StageWrite, WriteRejected, Untouched, Delete, EditFlow, HourPasses, Quiet

-----------------------------------------------------------------------------
(* The rows say where the walk stands *)

\* What the rows of the conversation, its status s and its progress row, are while a
\* handler at a step holds the entities L.
Holding == {"createProgress", "findProgress", "answer", "finish", "advance", "walk"}
Recorded(step, L, s, row) ==
  s # "ABSENT" =>
    /\ step \in Holding => s = "ACTIVE"
    /\ step = "walk" => row.node = L.node /\ row.waiting = FALSE
    /\ step = "saveProgress" => s # "ACTIVE"
    /\ step = "record" /\ L.from # None =>
         /\ (s = "ACTIVE") = Outcome(L.plan, L.from).asks
         /\ row.node = L.node /\ row.waiting = L.waiting
RowsInv ==
  \/ overlap
  \/ \A p \in Process :
       Recorded(at[p], local[p], status[local[p].conv], progress[local[p].conv])

\* Each write of the engine leaves the rows as the handler knows them.
LEMMA RowsHandlerStep ==
  ASSUME Sound, WalkInv, RowsInv, NEW i, Instance = {i}, NEW p \in Process, HandlerStep(p)
  PROVE  RowsInv'
<1> DEFINE L == local[p]
           f == L.plan
<1>1. /\ L \in Entities /\ Walking(at[p], L)
      /\ at[p] # "idle" /\ overlap' = overlap
      /\ \A q \in Process : q # p => at'[q] = at[q] /\ local'[q] = local[q]
  BY HandlerStepFrame DEF Sound, TypeOK, WalkInv
<1>2. CASE overlap
  BY <1>1, <1>2 DEF RowsInv
<1>3. SUFFICES ASSUME ~overlap PROVE RowsInv'
  BY <1>2
<1>4. Recorded(at[p], L, status[L.conv], progress[L.conv])
  BY <1>3 DEF RowsInv
<1>5. \A q \in Process : q # p => at'[q] = "idle"
  BY <1>1, OneHandler
<1>6. SUFFICES Recorded(at'[p], local'[p], status'[local'[p].conv], progress'[local'[p].conv])
  <2>1. \A q \in Process :
          Recorded(at'[q], local'[q], status'[local'[q].conv], progress'[local'[q].conv])
    BY <1>5, <1>6 DEF Recorded, Holding
  <2> QED  BY <2>1 DEF RowsInv
<1>7. ASSUME NEW step, NEW M, GoOn(p, step, M) PROVE at'[p] = step /\ local'[p] = M
  BY <1>7 DEF GoOn, Sound, TypeOK
<1>8. ASSUME Leave(p) PROVE at'[p] = "idle"
  BY <1>8 DEF Leave, Sound, TypeOK
<1>9. at[p] \in Before => Unwalked(at[p], L)
  BY <1>1 DEF Walking
<1>10. at[p] \notin Searching => L.conv \in ConvId
  BY HeldConversation
<1>11. CASE FindActive(p) \/ FindLastFinished(p)
  <2>1. ASSUME NEW c \in Active, GoOn(p, "findProgress", [L EXCEPT !.conv = c]), status' = status
        PROVE  Recorded(at'[p], local'[p], status'[local'[p].conv], progress'[local'[p].conv])
    <3>1. local'[p].conv = c /\ at'[p] = "findProgress"
      BY <1>1, <1>7, <2>1 DEF Entities
    <3> QED  BY <2>1, <3>1 DEF Recorded, Active
  <2>2. ASSUME NEW c, GoOn(p, "record", [L EXCEPT !.conv = c])
        PROVE  Recorded(at'[p], local'[p], status'[local'[p].conv], progress'[local'[p].conv])
    <3>1. local'[p].from = None /\ at'[p] = "record"
      BY <1>1, <1>7, <1>9, <1>11, <2>2
      DEF Entities, Unwalked, FindActive, FindLastFinished, Before
    <3> QED  BY <3>1 DEF Recorded, Holding
  <2>3. ASSUME NEW step \in {"createSilent", "findLast", "create"}, GoOn(p, step, L)
        PROVE  Recorded(at'[p], local'[p], status'[local'[p].conv], progress'[local'[p].conv])
    BY <1>7, <2>3 DEF Recorded, Holding
  <2>4. ASSUME Leave(p)
        PROVE  Recorded(at'[p], local'[p], status'[local'[p].conv], progress'[local'[p].conv])
    BY <1>8, <2>4 DEF Recorded, Holding
  <2>5. status' = status
    BY <1>11 DEF FindActive, FindLastFinished, conversations
  <2> QED
    BY <1>11, <2>1, <2>2, <2>3, <2>4, <2>5 DEF FindActive, FindLastFinished, FirstContact
<1>12. CASE CreateSilent(p) \/ Create(p)
  <2> DEFINE M == [L EXCEPT !.conv = lastConv + 1]
  <2>1. status'[lastConv + 1] = "ACTIVE"
    <3>1. lastConv + 1 \in ConvId
      BY <1>12, EngineAssumption DEF CreateSilent, Create, CreateConversation, ConvId, Sound, TypeOK
    <3> QED  BY <1>12, <3>1 DEF CreateSilent, Create, CreateConversation, Sound, TypeOK
  <2>2. M.from = None /\ M.conv = lastConv + 1
    BY <1>1, <1>9, <1>12 DEF Entities, Unwalked, CreateSilent, Create, Before
  <2>3. GoOn(p, "record", M) \/ GoOn(p, "createProgress", M)
    BY <1>12 DEF CreateSilent, Create, CreateConversation
  <2>4. local'[p] = M /\ at'[p] \in {"record", "createProgress"}
    BY <1>7, <2>3
  <2> HIDE DEF M
  <2> QED  BY <2>1, <2>2, <2>4 DEF Recorded, Holding
<1>13. CASE CreateProgress(p)
  <2> DEFINE M == [L EXCEPT !.node = f.start, !.from = f.start]
  <2>1. GoOn(p, "walk", M) /\ at[p] = "createProgress" /\ status[L.conv] = "ACTIVE"
    BY <1>4, <1>13 DEF CreateProgress, Exists, Recorded, Holding
  <2>2. M.conv = L.conv /\ M.node = f.start
    BY <1>1 DEF Entities
  <2>3. /\ progress'[L.conv] = [NoProgress EXCEPT !.node = f.start]
        /\ status' = status
    BY <1>10, <1>13, <2>1 DEF CreateProgress, conversations, Searching, Sound, TypeOK
  <2>4. at'[p] = "walk" /\ local'[p] = M
    BY <1>7, <2>1
  <2> HIDE DEF M
  <2> QED  BY <2>1, <2>2, <2>3, <2>4 DEF Recorded, Holding, NoProgress
<1>14. CASE FindProgress(p) \/ SaveAnswer(p)
  <2> DEFINE row == progress[L.conv]
             Again == [L EXCEPT !.out = << <<"again", row.node>> >>]
             Answer == [L EXCEPT !.node = row.node, !.waiting = TRUE, !.stage = row.stage]
             target == Target(f, L.node, text[p[2]])
             M == [L EXCEPT !.node = target, !.waiting = FALSE, !.from = target]
  <2>4. /\ at[p] \in {"findProgress", "answer"} /\ UNCHANGED <<status, progress>>
        /\ at[p] = "findProgress" => L.from = None
    BY <1>9, <1>14 DEF FindProgress, SaveAnswer, conversations, Before, Unwalked
  <2>5. \/ at[p] = "findProgress" /\ (GoOn(p, "record", L) \/ GoOn(p, "record", Again))
        \/ GoOn(p, "answer", Answer) \/ GoOn(p, "finish", L) \/ GoOn(p, "advance", M)
    BY <1>14 DEF FindProgress, SaveAnswer
  <2>6. /\ Again.conv = L.conv /\ Again.from = L.from /\ Answer.conv = L.conv
        /\ M.conv = L.conv
    BY <1>1 DEF Entities
  <2> HIDE DEF Again, Answer, M
  <2>1. /\ at'[p] = "record" \/ at'[p] \in {"answer", "finish", "advance"}
        /\ local'[p].conv = L.conv /\ (at'[p] = "record" => local'[p].from = None)
    BY <1>7, <2>4, <2>5, <2>6
  <2>2. status[L.conv] # "ABSENT" => status[L.conv] = "ACTIVE"
    BY <1>4, <2>4 DEF Recorded, Holding
  <2>3. status'[local'[p].conv] = status[L.conv]
    BY <2>1, <2>4
  <2> QED  BY <2>1, <2>2, <2>3 DEF Recorded, Holding
<1>15. ASSUME WriteFinished(p), at[p] \notin Searching
       PROVE  status'[L.conv] = "FINISHED"
  BY <1>10, <1>15 DEF WriteFinished, Sound, TypeOK
<1>16. ASSUME NEW M \in Entities, M.conv \in ConvId, WriteProgress(p, M)
       PROVE  /\ progress'[M.conv].node = M.node /\ progress'[M.conv].waiting = M.waiting
              /\ status' = status
  BY <1>16 DEF WriteProgress, conversations, Sound, TypeOK

<1>17. ASSUME at'[p] = "record", local'[p].from # None
       PROVE  local'[p].waiting = Outcome(local'[p].plan, local'[p].from).asks
  <2>1. Walking(at'[p], local'[p])
    BY WalkHandlerStep DEF WalkInv
  <2> QED  BY <1>17, <2>1 DEF Walking, Arrived
<1>18. at[p] = "walk" => /\ Walked(L) /\ L.waiting = FALSE
                         /\ L.node \in Node /\ L.plan \in Flows
  BY <1>1 DEF Walking, Walked, Sound, HandlerInv, Knows, Standing
<1>19. CASE FinishUnanswered(p)
  <2>1. at'[p] = "record" /\ local'[p] = L /\ at[p] = "finish"
    BY <1>7, <1>19 DEF FinishUnanswered
  <2>2. L.from = None
    BY <1>9, <2>1 DEF Before, Unwalked
  <2> QED  BY <2>1, <2>2 DEF Recorded, Holding
<1>20. CASE Advance(p)
  <2>1. /\ at'[p] = "walk" /\ local'[p] = L /\ at[p] = "advance" /\ WriteProgress(p, L)
        /\ status[L.conv] = "ACTIVE"
    BY <1>4, <1>7, <1>20 DEF Advance, WriteProgress, Exists, Recorded, Holding
  <2>2. L.waiting = FALSE
    BY <1>1, <2>1 DEF Walking, Walked
  <2>3. L.conv \in ConvId
    BY <1>10, <2>1 DEF Searching
  <2> QED  BY <1>1, <1>16, <2>1, <2>2, <2>3 DEF Recorded, Holding
<1>21. CASE WalkCycle(p) \/ WalkEnd(p)
  <2>1. /\ at[p] = "walk" /\ WriteFinished(p)
        /\ GoOn(p, "saveProgress", L) \/ GoOn(p, "saveProgress", AtNode(L))
    BY <1>21 DEF WalkCycle, WalkEnd, InLoop
  <2>2. AtNode(L).conv = L.conv
    BY <1>1, <1>18, <2>1, AtNodeType
  <2>3. at'[p] = "saveProgress" /\ local'[p].conv = L.conv
    BY <1>7, <2>1, <2>2
  <2>4. status'[L.conv] = "FINISHED"
    BY <1>15, <2>1 DEF Searching
  <2> QED  BY <2>3, <2>4 DEF Recorded, Holding
<1>22. CASE WalkLost(p)
  <2>1. /\ at[p] = "walk" /\ WriteFinished(p) /\ progress' = progress
        /\ at'[p] = "record" /\ local'[p] = L
    BY <1>7, <1>22 DEF WalkLost
  <2>2. status'[L.conv] = "FINISHED"
    BY <1>15, <2>1 DEF Searching
  <2>3. progress[L.conv].node = L.node /\ progress[L.conv].waiting = FALSE
    BY <1>4, <2>1 DEF Recorded, WriteFinished, Exists
  <2>4. L.from # None => Outcome(L.plan, L.from).asks = FALSE
    BY <1>17, <1>18, <2>1
  <2> QED  BY <1>18, <2>1, <2>2, <2>3, <2>4 DEF Recorded, Holding
<1>23. CASE WalkOn(p)
  <2> DEFINE M == [AtNode(L) EXCEPT !.node = f.next[L.node], !.waiting = FALSE]
  <2>1. /\ at[p] = "walk" /\ WriteProgress(p, M) /\ GoOn(p, "walk", M)
        /\ L.node \in Node /\ PassesOn(f, L.node) /\ f \in Flows
    BY <1>18, <1>23 DEF WalkOn, InLoop
  <2>2. AtNode(L) \in Entities /\ AtNode(L).conv = L.conv
    BY <1>1, <2>1, AtNodeType
  <2>3. f.next[L.node] \in Node
    BY <2>1, EngineAssumption DEF Flow, PassesOn
  <2>4. M \in Entities /\ M.conv = L.conv /\ M.waiting = FALSE
    BY <2>2, <2>3 DEF Entities
  <2>5. status[L.conv] = "ACTIVE" /\ L.conv \in ConvId
    BY <1>4, <1>10, <2>1 DEF WriteProgress, Exists, Recorded, Holding, Searching
  <2> HIDE DEF M
  <2>6. at'[p] = "walk" /\ local'[p] = M
    BY <1>7, <2>1
  <2> QED  BY <1>16, <2>1, <2>4, <2>5, <2>6 DEF Recorded, Holding
<1>24. CASE WalkAsk(p)
  <2> DEFINE M == [AtNode(L) EXCEPT !.waiting = TRUE]
  <2>1. /\ at[p] = "walk" /\ WriteProgress(p, M) /\ GoOn(p, "record", M)
        /\ L.node \in Node /\ f \in Flows
    BY <1>18, <1>24 DEF WalkAsk, InLoop
  <2>2. AtNode(L) \in Entities /\ AtNode(L).conv = L.conv
    BY <1>1, <2>1, AtNodeType
  <2>3. M \in Entities /\ M.conv = L.conv /\ M.waiting = TRUE
    BY <2>2 DEF Entities
  <2>4. status[L.conv] = "ACTIVE" /\ L.conv \in ConvId
    BY <1>4, <1>10, <2>1 DEF WriteProgress, Exists, Recorded, Holding, Searching
  <2> HIDE DEF M
  <2>5. at'[p] = "record" /\ local'[p] = M
    BY <1>7, <2>1
  <2>6. M.from # None => Outcome(M.plan, M.from).asks = TRUE
    BY <1>17, <2>3, <2>5
  <2> QED  BY <1>16, <2>1, <2>3, <2>4, <2>5, <2>6 DEF Recorded, Holding
<1>25. CASE SaveProgress(p)
  <2>1. at[p] = "saveProgress" /\ WriteProgress(p, L) /\ at'[p] = "record" /\ local'[p] = L
    BY <1>7, <1>25 DEF SaveProgress
  <2>2. Outcome(L.plan, L.from).asks \in BOOLEAN => Outcome(L.plan, L.from).asks = FALSE
    BY <1>1, <2>1 DEF Walking
  <2>3. status[L.conv] # "ACTIVE" /\ L.conv \in ConvId
    BY <1>4, <1>10, <2>1 DEF WriteProgress, Exists, Recorded, Searching
  <2>4. L.from # None => Outcome(L.plan, L.from).asks = L.waiting
    BY <1>17, <2>1
  <2>5. L.waiting \in BOOLEAN
    BY <1>1 DEF Entities
  <2> QED  BY <1>1, <1>16, <2>1, <2>2, <2>3, <2>4, <2>5 DEF Recorded, Holding
<1>26. CASE RecordMessage(p) \/ EnqueueReplies(p) \/ Rejected(p)
  <2>1. at'[p] \in {"enqueue", "idle"}
    BY <1>7, <1>8, <1>26 DEF RecordMessage, EnqueueReplies, Rejected
  <2> QED  BY <2>1 DEF Recorded, Holding
<1> QED
  BY <1>11, <1>12, <1>13, <1>14, <1>19, <1>20, <1>21, <1>22, <1>23, <1>24, <1>25, <1>26
  DEF HandlerStep

\* With one process nobody else writes them under a handler, but for an overlap.
LEMMA RowsStep ==
  ASSUME Sound, OneInv, WalkInv, RowsInv, NEW i, Instance = {i}, [Next]_vars
  PROVE  RowsInv'
<1>1. CASE overlap
  BY <1>1, OverlapStays DEF RowsInv
<1>2. CASE ~overlap
  <2>1. /\ act # NoAct => Idle
        /\ \A p \in Process : Recorded(at[p], local[p], status[local[p].conv],
                                       progress[local[p].conv])
    BY <1>2 DEF OneInv, RowsInv
  <2>2. ASSUME \A p \in Process : at'[p] \in {"idle", "findActive"} PROVE RowsInv'
    <3>1. \A p \in Process : Recorded(at'[p], local'[p], status'[local'[p].conv],
                                      progress'[local'[p].conv])
      BY <2>2 DEF Recorded, Holding
    <3> QED  BY <3>1 DEF RowsInv
  <2>3. ASSUME UNCHANGED <<status, progress>>,
               \A p \in Process : \/ at'[p] \in {"idle", "findActive"}
                                  \/ at'[p] = at[p] /\ local'[p] = local[p]
        PROVE  RowsInv'
    <3>1. ASSUME NEW p \in Process
          PROVE  Recorded(at'[p], local'[p], status'[local'[p].conv],
                          progress'[local'[p].conv])
      <4>1. CASE at'[p] \in {"idle", "findActive"}
        BY <4>1 DEF Recorded, Holding
      <4>2. CASE at'[p] = at[p] /\ local'[p] = local[p]
        BY <2>1, <2>3, <4>2
      <4> QED  BY <2>3, <4>1, <4>2
    <3> QED  BY <3>1 DEF RowsInv
  <2>4. ASSUME overlap' \/ Idle, at' = at PROVE RowsInv'
    <3>1. CASE overlap'
      BY <3>1 DEF RowsInv
    <3>2. CASE Idle
      BY <2>2, <2>4, <3>2 DEF Idle
    <3> QED  BY <2>4, <3>1, <3>2
  <2>5. ASSUME NEW m \in Msg, NEW k \in 0 .. MaxOption, Publish(m, k) PROVE RowsInv'
    BY <2>3, <2>5 DEF Publish, conversations
  <2>6. ASSUME NEW j \in Instance, NEW m \in Msg, Redeliver(j, m) \/ Ignore(j, m)
        PROVE  RowsInv'
    BY <2>3, <2>6 DEF Redeliver, Ignore, conversations
  <2>7. ASSUME NEW j \in Instance, NEW m \in Msg, Load(j, m) PROVE RowsInv'
    <3>1. \A q \in Process : at'[q] = "findActive" \/ (at'[q] = at[q] /\ local'[q] = local[q])
      BY <2>7 DEF Load, Sound, TypeOK
    <3> QED  BY <2>3, <2>7, <3>1 DEF Load, conversations
  <2>8. ASSUME NEW p \in Process, Fail(p) PROVE RowsInv'
    <3>1. \A q \in Process : at'[q] = "idle" \/ (at'[q] = at[q] /\ local'[q] = local[q])
      BY <2>8 DEF Fail, Sound, TypeOK
    <3> QED  BY <2>3, <2>8, <3>1 DEF Fail, conversations
  <2>9. ASSUME NEW j \in Instance, Crash(j) PROVE RowsInv'
    <3>1. \A q \in Process : at'[q] = "idle" \/ (at'[q] = at[q] /\ local'[q] = local[q])
      BY <2>9 DEF Crash
    <3> QED  BY <2>3, <2>9, <3>1 DEF Crash, conversations
  <2>10. ASSUME ToggleWrite \/ StageWrite \/ WriteRejected PROVE RowsInv'
    <3>1. act # NoAct /\ at' = at
      BY <2>10 DEF ToggleWrite, StageWrite, WriteRejected, Untouched, handlers, NoAct
    <3> QED  BY <2>1, <2>4, <3>1
  <2>11. ASSUME Delete PROVE RowsInv'
    BY <2>4, <2>11 DEF Delete, handlers
  <2>12. ASSUME NEW f \in Flows \cup {NoFlow}, EditFlow(f) PROVE RowsInv'
    BY <2>3, <2>12 DEF EditFlow, conversations, handlers
  <2>13. ASSUME HourPasses PROVE RowsInv'
    BY <2>3, <2>13 DEF HourPasses, conversations
  <2>14. ASSUME UNCHANGED vars PROVE RowsInv'
    BY <2>3, <2>14 DEF vars, conversations, handlers
  <2>15. ASSUME NEW p \in Process, HandlerStep(p) PROVE RowsInv'
    BY <2>15, RowsHandlerStep
  <2>16. ASSUME NEW c \in ConvId, NEW on \in BOOLEAN, ToggleRead(c, on) PROVE RowsInv'
    BY <2>4, <2>16 DEF ToggleRead, Request, Untouched, handlers
  <2>17. ASSUME NEW c \in ConvId, NEW s \in Stage, StageRead(c, s) PROVE RowsInv'
    BY <2>4, <2>17 DEF StageRead, Request, Untouched, handlers
  <2> QED
    BY <2>5, <2>6, <2>7, <2>8, <2>9, <2>10, <2>11, <2>12, <2>13, <2>14, <2>15, <2>16, <2>17
    DEF Next, Quiet
<1> QED  BY <1>1, <1>2

\* With one instance, and no request that overlapped a handler, the rows say so too.
RowsRight ==
  ~overlap =>
    \A p \in Process :
      at[p] = "record" /\ local[p].from # None /\ Exists(p) =>
        LET L == local[p]
        IN  /\ (status[L.conv] = "ACTIVE") = Outcome(L.plan, L.from).asks
            /\ progress[L.conv] = [node |-> L.node, waiting |-> L.waiting,
                                   stage |-> progress[L.conv].stage]

\* So they are right when the message is recorded.
LEMMA InvRowsRight ==
  ASSUME Sound, RowsInv
  PROVE  RowsRight
<1>1. SUFFICES ASSUME ~overlap, NEW p \in Process,
                      at[p] = "record", local[p].from # None, Exists(p)
               PROVE  LET L == local[p]
                      IN  /\ (status[L.conv] = "ACTIVE") = Outcome(L.plan, L.from).asks
                          /\ progress[L.conv] = [node |-> L.node, waiting |-> L.waiting,
                                                 stage |-> progress[L.conv].stage]
  BY DEF RowsRight
<1>2. Recorded(at[p], local[p], status[local[p].conv], progress[local[p].conv])
  BY <1>1 DEF RowsInv
<1>3. local[p].conv \in ConvId
  BY <1>1, HeldConversation DEF Searching
<1>4. progress[local[p].conv] \in ProgressRow
  BY <1>3 DEF Sound, TypeOK
<1> QED  BY <1>1, <1>2, <1>4 DEF Recorded, Exists, ProgressRow

\* The two halves of the property.
LEMMA WalksAlone ==
  ASSUME Sound, WalkInv, Cardinality(Instance) # 1 \/ RowsRight
  PROVE  EndsWhereTheGraphLeads
BY DEF EndsWhereTheGraphLeads, WalkInv, Walking, Arrived, RowsRight

\* Whatever the flow (trees, joins, cycles, missing nodes, blank ends), the engine's
\* loop says the nodes that the graph leads through, in that order, and stops where the
\* graph leads: waiting at a question or finished.  With one instance the rows of the
\* conversation say the same when its message is recorded.
THEOREM WalksEndWhereTheGraphLeads == Spec => []EndsWhereTheGraphLeads
<1>1. Init => WalkInv
  BY DEF Init, WalkInv, Walking, Before
<1>2. Sound /\ WalkInv /\ [Next]_vars => WalkInv'
  BY WalkStep
<1>3. CASE Cardinality(Instance) # 1
  <2>1. Sound /\ WalkInv => EndsWhereTheGraphLeads
    BY <1>3, WalksAlone
  <2> QED  BY <1>1, <1>2, <2>1, EngineSound, PTL DEF Spec
<1>4. CASE Cardinality(Instance) = 1
  <2>1. PICK i : Instance = {i}
    BY <1>4, EngineAssumption, FS_Singleton
  <2>2. Init => OneInv /\ RowsInv
    BY DEF Init, OneInv, RowsInv, Recorded, Holding, Active, NoAct
  <2>3. Sound /\ OneInv /\ WalkInv /\ RowsInv /\ [Next]_vars => OneInv' /\ RowsInv'
    BY <2>1, OneStep, RowsStep
  <2>4. Sound /\ WalkInv /\ RowsInv => EndsWhereTheGraphLeads
    BY InvRowsRight, WalksAlone
  <2> QED  BY <1>1, <1>2, <2>2, <2>3, <2>4, EngineSound, PTL DEF Spec
<1> QED  BY <1>3, <1>4
=============================================================================
