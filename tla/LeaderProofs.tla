---------------------------- MODULE LeaderProofs ----------------------------
(***************************************************************************)
(* What the election guarantees although its heartbeat renews nothing, for *)
(* any number of instances, any periods and any number of faults.          *)
(***************************************************************************)
EXTENDS LeaderElection, FiniteSetTheorems, TLAPS

USE ElectionAssumption DEF row, timers, CallsFitTheRole

-----------------------------------------------------------------------------
(* Types *)

\* The first state has the types.
LEMMA InitTypes == ASSUME Init PROVE TypeOK
  BY DEF Init, TypeOK, Off

\* A step of the election keeps the types.
LEMMA StepTypes == ASSUME TypeOK, [Next]_vars PROVE TypeOK'
<1> USE DEF TypeOK, Off
<1>1. ASSUME NEW i \in Instance, Boot(i) PROVE TypeOK'
  BY <1>1 DEF Boot
<1>2. ASSUME NEW i \in Instance, ProbeFires(i) PROVE TypeOK'
  BY <1>2 DEF ProbeFires
<1>3. ASSUME NEW i \in Instance, ProbeUpsert(i) PROVE TypeOK'
  BY <1>3 DEF ProbeUpsert, Upsert, UpsertWins
<1>4. ASSUME NEW i \in Instance, BecomeLeader(i) PROVE TypeOK'
  BY <1>4 DEF BecomeLeader
<1>5. ASSUME NEW i \in Instance, StandBy(i) PROVE TypeOK'
  BY <1>5 DEF StandBy, Mount
<1>6. ASSUME NEW i \in Instance, ProbeFails(i) PROVE TypeOK'
  BY <1>6 DEF ProbeFails, Mount, Fault
<1>7. ASSUME NEW i \in Instance, Started(i) PROVE TypeOK'
  BY <1>7 DEF Started, Mount
<1>8. ASSUME NEW i \in Instance, HeartbeatFires(i) PROVE TypeOK'
  BY <1>8 DEF HeartbeatFires
<1>9. ASSUME NEW i \in Instance, BeatUpsert(i) PROVE TypeOK'
  BY <1>9 DEF BeatUpsert, Upsert, UpsertWins
<1>10. ASSUME NEW i \in Instance, StillLeader(i) PROVE TypeOK'
  BY <1>10 DEF StillLeader
<1>11. ASSUME NEW i \in Instance, StepDown(i) PROVE TypeOK'
  BY <1>11 DEF StepDown, StopLeading
<1>12. ASSUME NEW i \in Instance, BeatFails(i) PROVE TypeOK'
  BY <1>12 DEF BeatFails, StopLeading, Fault
<1>13. ASSUME NEW i \in Instance, Crash(i) PROVE TypeOK'
  BY <1>13 DEF Crash, Fault
<1>14. ASSUME Tick PROVE TypeOK'
  BY <1>14 DEF Tick, Punctual, Stale, Vacant
<1>15. ASSUME UNCHANGED vars PROVE TypeOK'
  BY <1>15 DEF vars
<1> QED
  BY <1>1, <1>2, <1>3, <1>4, <1>5, <1>6, <1>7, <1>8, <1>9, <1>10, <1>11,
     <1>12, <1>13, <1>14, <1>15 DEF Next, Call

\* Every column, flag, call, timer and counter of the election keeps its type, and an
\* instance never has a heartbeat's and a probe's call of tryAcquireLock at once.
THEOREM TypesHold == Spec => []TypeOK
<1>1. Init => TypeOK
  BY InitTypes
<1>2. TypeOK /\ [Next]_vars => TypeOK'
  BY StepTypes
<1> QED BY <1>1, <1>2, PTL DEF Spec

-----------------------------------------------------------------------------
(* The life of an instance *)

\* What each stage of an instance's life rules out, and what its calls know of the row.
LifeInv ==
  \A i \in Instance :
    /\ life[i] = "booting" => (leader[i] <=> start[i] # Off)
    /\ life[i] = "up" /\ probe[i] # "none" => probeIn[i] > 0
    /\ probe[i] = "select" => owner # NoOne /\ left >= 0
    /\ leader[i] => owner # NoOne

\* A step of the election keeps LifeInv.
LEMMA StepLife == ASSUME TypeOK, LifeInv, [Next]_vars PROVE LifeInv'
<1> USE DEF TypeOK, LifeInv, Off
<1>1. ASSUME NEW i \in Instance, Boot(i) PROVE LifeInv'
  BY <1>1 DEF Boot
<1>2. ASSUME NEW i \in Instance, ProbeFires(i) PROVE LifeInv'
  BY <1>2 DEF ProbeFires
<1>3. ASSUME NEW i \in Instance, ProbeUpsert(i) PROVE LifeInv'
  BY <1>3 DEF ProbeUpsert, Upsert, UpsertWins
<1>4. ASSUME NEW i \in Instance, BecomeLeader(i) PROVE LifeInv'
  BY <1>4 DEF BecomeLeader
<1>5. ASSUME NEW i \in Instance, StandBy(i) PROVE LifeInv'
  BY <1>5 DEF StandBy, Mount
<1>6. ASSUME NEW i \in Instance, ProbeFails(i) PROVE LifeInv'
  BY <1>6 DEF ProbeFails, Mount, Fault
<1>7. ASSUME NEW i \in Instance, Started(i) PROVE LifeInv'
  BY <1>7 DEF Started, Mount
<1>8. ASSUME NEW i \in Instance, HeartbeatFires(i) PROVE LifeInv'
  BY <1>8 DEF HeartbeatFires
<1>9. ASSUME NEW i \in Instance, BeatUpsert(i) PROVE LifeInv'
  BY <1>9 DEF BeatUpsert, Upsert, UpsertWins
<1>10. ASSUME NEW i \in Instance, StillLeader(i) PROVE LifeInv'
  BY <1>10 DEF StillLeader
<1>11. ASSUME NEW i \in Instance, StepDown(i) PROVE LifeInv'
  BY <1>11 DEF StepDown, StopLeading
<1>12. ASSUME NEW i \in Instance, BeatFails(i) PROVE LifeInv'
  BY <1>12 DEF BeatFails, StopLeading, Fault
<1>13. ASSUME NEW i \in Instance, Crash(i) PROVE LifeInv'
  BY <1>13 DEF Crash, Fault
<1>14. ASSUME Tick PROVE LifeInv'
  BY <1>14 DEF Tick, Punctual
<1>15. ASSUME UNCHANGED vars PROVE LifeInv'
  BY <1>15 DEF vars
<1> QED
  BY <1>1, <1>2, <1>3, <1>4, <1>5, <1>6, <1>7, <1>8, <1>9, <1>10, <1>11,
     <1>12, <1>13, <1>14, <1>15 DEF Next, Call

-----------------------------------------------------------------------------
(* A leader that lost the row *)

\* A lock outlives the start of a booting leader, and a heartbeat would win an expired
\* one itself: whoever lost the row has less than a period to go to its next heartbeat.
LateInv ==
  QuickStart => \A i \in Instance :
    /\ life[i] = "down" => owner # i
    /\ life[i] = "booting" /\ probe[i] = "upsert" => owner # i
    /\ life[i] = "booting" /\ probe[i] = "select" /\ owner = i => left = Ttl
    /\ life[i] = "booting" /\ leader[i] => owner = i /\ left + start[i] >= Ttl
    /\ beat[i] = "select" => left >= 0
    /\ left < 0 /\ leader[i] /\ beat[i] = "none" => heartbeatIn[i] < HeartbeatEvery
    /\ lostFor[i] > 0 => Stale(i)
    /\ Stale(i) => lostFor[i] < HeartbeatEvery
    /\ Stale(i) /\ beat[i] = "none" => lostFor[i] + heartbeatIn[i] < HeartbeatEvery

\* A step of the election keeps LateInv.
LEMMA StepLate == ASSUME TypeOK, LifeInv, LateInv, [Next]_vars PROVE LateInv'
<1> USE DEF TypeOK, LifeInv, LateInv, QuickStart, Stale, Off
<1>1. ASSUME NEW i \in Instance, Boot(i) PROVE LateInv'
  BY <1>1 DEF Boot
<1>2. ASSUME NEW i \in Instance, ProbeFires(i) PROVE LateInv'
  BY <1>2 DEF ProbeFires
<1>3. ASSUME NEW i \in Instance, ProbeUpsert(i) PROVE LateInv'
  BY <1>3 DEF ProbeUpsert, Upsert, UpsertWins
<1>4. ASSUME NEW i \in Instance, BecomeLeader(i) PROVE LateInv'
  BY <1>4 DEF BecomeLeader
<1>5. ASSUME NEW i \in Instance, StandBy(i) PROVE LateInv'
  BY <1>5 DEF StandBy, Mount
<1>6. ASSUME NEW i \in Instance, ProbeFails(i) PROVE LateInv'
  BY <1>6 DEF ProbeFails, Mount, Fault
<1>7. ASSUME NEW i \in Instance, Started(i) PROVE LateInv'
  BY <1>7 DEF Started, Mount
<1>8. ASSUME NEW i \in Instance, HeartbeatFires(i) PROVE LateInv'
  BY <1>8 DEF HeartbeatFires
<1>9. ASSUME NEW i \in Instance, BeatUpsert(i) PROVE LateInv'
  BY <1>9 DEF BeatUpsert, Upsert, UpsertWins
<1>10. ASSUME NEW i \in Instance, StillLeader(i) PROVE LateInv'
  BY <1>10 DEF StillLeader
<1>11. ASSUME NEW i \in Instance, StepDown(i) PROVE LateInv'
  BY <1>11 DEF StepDown, StopLeading
<1>12. ASSUME NEW i \in Instance, BeatFails(i) PROVE LateInv'
  BY <1>12 DEF BeatFails, StopLeading, Fault
<1>13. ASSUME NEW i \in Instance, Crash(i) PROVE LateInv'
  BY <1>13 DEF Crash, Fault
<1>14. ASSUME Tick PROVE LateInv'
  BY <1>14 DEF Tick, Punctual
<1>15. ASSUME UNCHANGED vars PROVE LateInv'
  BY <1>15 DEF vars
<1> QED
  BY <1>1, <1>2, <1>3, <1>4, <1>5, <1>6, <1>7, <1>8, <1>9, <1>10, <1>11,
     <1>12, <1>13, <1>14, <1>15 DEF Next, Call

\* Whatever fails, a leader that lost the row is gone by its next heartbeat.
THEOREM StaleLeadersStepDown == Spec => []StaleLeaderStepsDown
<1>1. Init => LifeInv /\ LateInv
  BY InitTypes DEF Init, TypeOK, LifeInv, LateInv, Stale, Off
<1>2. TypeOK /\ LifeInv /\ LateInv /\ [Next]_vars => LifeInv' /\ LateInv'
  BY StepLife, StepLate
<1>3. TypeOK /\ LifeInv /\ LateInv => StaleLeaderStepsDown
  BY DEF TypeOK, LifeInv, LateInv, StaleLeaderStepsDown, Stale, Off
<1> QED BY <1>1, <1>2, <1>3, TypesHold, PTL DEF Spec

-----------------------------------------------------------------------------
(* Two leaders at most *)

\* Only one leader at a time is behind the row: it has been for as long as the row
\* has its owner, so it is gone before the row expires.
OneStaleInv ==
  /\ \A i \in Instance : Stale(i) => Ttl - left <= lostFor[i]
  /\ QuickStart => \A i, j \in Instance : Stale(i) /\ Stale(j) => i = j

\* A step of the election keeps OneStaleInv.
LEMMA StepOneStale ==
  ASSUME TypeOK, LifeInv, LateInv, OneStaleInv, [Next]_vars PROVE OneStaleInv'
<1> USE DEF TypeOK, LifeInv, LateInv, OneStaleInv, QuickStart, Stale, Off
<1>1. ASSUME NEW i \in Instance, Boot(i) PROVE OneStaleInv'
  BY <1>1 DEF Boot
<1>2. ASSUME NEW i \in Instance, ProbeFires(i) PROVE OneStaleInv'
  BY <1>2 DEF ProbeFires
<1>3. ASSUME NEW i \in Instance, ProbeUpsert(i) PROVE OneStaleInv'
  BY <1>3 DEF ProbeUpsert, Upsert, UpsertWins
<1>4. ASSUME NEW i \in Instance, BecomeLeader(i) PROVE OneStaleInv'
  BY <1>4 DEF BecomeLeader
<1>5. ASSUME NEW i \in Instance, StandBy(i) PROVE OneStaleInv'
  BY <1>5 DEF StandBy, Mount
<1>6. ASSUME NEW i \in Instance, ProbeFails(i) PROVE OneStaleInv'
  BY <1>6 DEF ProbeFails, Mount, Fault
<1>7. ASSUME NEW i \in Instance, Started(i) PROVE OneStaleInv'
  BY <1>7 DEF Started, Mount
<1>8. ASSUME NEW i \in Instance, HeartbeatFires(i) PROVE OneStaleInv'
  BY <1>8 DEF HeartbeatFires
<1>9. ASSUME NEW i \in Instance, BeatUpsert(i) PROVE OneStaleInv'
  BY <1>9 DEF BeatUpsert, Upsert, UpsertWins
<1>10. ASSUME NEW i \in Instance, StillLeader(i) PROVE OneStaleInv'
  BY <1>10 DEF StillLeader
<1>11. ASSUME NEW i \in Instance, StepDown(i) PROVE OneStaleInv'
  BY <1>11 DEF StepDown, StopLeading
<1>12. ASSUME NEW i \in Instance, BeatFails(i) PROVE OneStaleInv'
  BY <1>12 DEF BeatFails, StopLeading, Fault
<1>13. ASSUME NEW i \in Instance, Crash(i) PROVE OneStaleInv'
  BY <1>13 DEF Crash, Fault
<1>14. ASSUME Tick PROVE OneStaleInv'
  BY <1>14 DEF Tick, Punctual
<1>15. ASSUME UNCHANGED vars PROVE OneStaleInv'
  BY <1>15 DEF vars
<1> QED
  BY <1>1, <1>2, <1>3, <1>4, <1>5, <1>6, <1>7, <1>8, <1>9, <1>10, <1>11,
     <1>12, <1>13, <1>14, <1>15 DEF Next, Call

\* The owner and the one stale leader are all who can lead.
LEMMA LeadersAreFew == ASSUME TypeOK, OneStaleInv, QuickStart
                       PROVE Cardinality({i \in Instance : leader[i]}) <= 2
<1> DEFINE Leaders == {i \in Instance : leader[i]}
<1>1. PICK s : Leaders \subseteq {owner, s}
  <2>1. CASE \E i \in Instance : Stale(i)
    <3>1. PICK s \in Instance : Stale(s)
      BY <2>1
    <3>2. Leaders \subseteq {owner, s}
      BY <3>1 DEF OneStaleInv, Stale
    <3> QED BY <3>2
  <2>2. CASE ~\E i \in Instance : Stale(i)
    BY <2>2 DEF Stale
  <2> QED BY <2>1, <2>2
<1>2. IsFiniteSet({owner}) /\ Cardinality({owner}) = 1
  BY FS_Singleton
<1>3. IsFiniteSet({owner, s}) /\ Cardinality({owner, s}) <= 2
  <2>1. {owner, s} = {owner} \cup {s}
    OBVIOUS
  <2> QED BY <1>2, <2>1, FS_AddElement
<1>4. Cardinality(Leaders) <= Cardinality({owner, s}) /\ Cardinality(Leaders) \in Nat
  BY <1>1, <1>3, FS_Subset, FS_CardinalityType
<1>5. Cardinality({owner, s}) \in Nat
  BY <1>3, FS_CardinalityType
<1> QED BY <1>3, <1>4, <1>5

\* However many instances there are and whatever fails, no third one leads.
THEOREM NoThirdLeader == Spec => []AtMostTwoLeaders
<1>1. Init => LifeInv /\ LateInv /\ OneStaleInv
  BY InitTypes DEF Init, TypeOK, LifeInv, LateInv, OneStaleInv, Stale, Off
<1>2. TypeOK /\ LifeInv /\ LateInv /\ OneStaleInv /\ [Next]_vars
        => LifeInv' /\ LateInv' /\ OneStaleInv'
  BY StepLife, StepLate, StepOneStale
<1>3. TypeOK /\ OneStaleInv => AtMostTwoLeaders
  BY LeadersAreFew DEF AtMostTwoLeaders
<1> QED BY <1>1, <1>2, <1>3, TypesHold, PTL DEF Spec

-----------------------------------------------------------------------------
(* The vacancy *)

Expired == owner = NoOne \/ left < 0
Won == \E i \in Instance : owner = i /\ probe[i] = "select"

\* While nobody leads, first the row runs out, then the probes come round.
VacancyInv ==
  vacantFor > 0 =>
    /\ vacantFor <= Ttl + ProbeEvery
    /\ \A i \in Instance : leader[i] => owner = i /\ left >= 0
    /\ \/ Won \/ \E i \in Instance : leader[i]
       \/ ~Expired /\ vacantFor + left <= Ttl
       \/ /\ Expired
          /\ \A i \in Instance : life[i] = "up" /\ probe[i] # "upsert" =>
               vacantFor + probeIn[i] <= Ttl + ProbeEvery

\* A step of the election keeps VacancyInv.
LEMMA StepVacancy == ASSUME TypeOK, LifeInv, VacancyInv, [Next]_vars PROVE VacancyInv'
<1> USE DEF TypeOK, LifeInv, VacancyInv, Expired, Won, Off
<1>1. ASSUME NEW i \in Instance, Boot(i) PROVE VacancyInv'
  BY <1>1 DEF Boot
<1>2. ASSUME NEW i \in Instance, ProbeFires(i) PROVE VacancyInv'
  BY <1>2 DEF ProbeFires
<1>3. ASSUME NEW i \in Instance, ProbeUpsert(i) PROVE VacancyInv'
  BY <1>3 DEF ProbeUpsert, Upsert, UpsertWins
<1>4. ASSUME NEW i \in Instance, BecomeLeader(i) PROVE VacancyInv'
  BY <1>4 DEF BecomeLeader
<1>5. ASSUME NEW i \in Instance, StandBy(i) PROVE VacancyInv'
  BY <1>5 DEF StandBy, Mount
<1>6. ASSUME NEW i \in Instance, ProbeFails(i) PROVE VacancyInv'
  BY <1>6 DEF ProbeFails, Mount, Fault
<1>7. ASSUME NEW i \in Instance, Started(i) PROVE VacancyInv'
  BY <1>7 DEF Started, Mount
<1>8. ASSUME NEW i \in Instance, HeartbeatFires(i) PROVE VacancyInv'
  BY <1>8 DEF HeartbeatFires
<1>9. ASSUME NEW i \in Instance, BeatUpsert(i) PROVE VacancyInv'
  BY <1>9 DEF BeatUpsert, Upsert, UpsertWins
<1>10. ASSUME NEW i \in Instance, StillLeader(i) PROVE VacancyInv'
  BY <1>10 DEF StillLeader
<1>11. ASSUME NEW i \in Instance, StepDown(i) PROVE VacancyInv'
  BY <1>11 DEF StepDown, StopLeading
<1>12. ASSUME NEW i \in Instance, BeatFails(i) PROVE VacancyInv'
  BY <1>12 DEF BeatFails, StopLeading, Fault
<1>13. ASSUME NEW i \in Instance, Crash(i) PROVE VacancyInv'
  BY <1>13 DEF Crash, Fault
<1>14. ASSUME Tick PROVE VacancyInv'
  BY <1>14 DEF Tick, Punctual, Vacant
<1>15. ASSUME UNCHANGED vars PROVE VacancyInv'
  BY <1>15 DEF vars
<1> QED
  BY <1>1, <1>2, <1>3, <1>4, <1>5, <1>6, <1>7, <1>8, <1>9, <1>10, <1>11,
     <1>12, <1>13, <1>14, <1>15 DEF Next, Call

\* Nobody leads for a bounded time.
THEOREM VacanciesEnd == Spec => []VacancyEnds
<1>1. Init => LifeInv /\ VacancyInv
  BY InitTypes DEF Init, TypeOK, LifeInv, VacancyInv, Off
<1>2. TypeOK /\ LifeInv /\ VacancyInv /\ [Next]_vars => LifeInv' /\ VacancyInv'
  BY StepLife, StepVacancy
<1>3. TypeOK /\ VacancyInv => VacancyEnds
  BY DEF TypeOK, VacancyInv, VacancyEnds
<1> QED BY <1>1, <1>2, <1>3, TypesHold, PTL DEF Spec
=============================================================================
