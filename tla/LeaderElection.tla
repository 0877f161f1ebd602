--------------------------- MODULE LeaderElection ---------------------------
(***************************************************************************)
(* LeaderElectionService: API instances in legacy mode share one row of    *)
(* instance_lock; whoever reads its own id from it leads and opens the     *)
(* WhatsApp sessions.  Each statement of tryAcquireLock is a step.         *)
(*                                                                         *)
(* Time.  One unit is five seconds.  The premise of the model, which the   *)
(* code does not enforce: timers fire on time and both statements of a     *)
(* call end before the next unit begins.                                   *)
(*                                                                         *)
(* main.ts never calls enableShutdownHooks, so onApplicationShutdown and   *)
(* releaseLock do not run: to the row, every stop is a crash.              *)
(***************************************************************************)
EXTENDS Integers, FiniteSets

CONSTANTS
  Instance,
  NoOne, Gone,       \* no row yet; the id of a process that died
  Ttl,               \* LOCK_TTL_SECONDS
  HeartbeatEvery, ProbeEvery,
  MaxStart,          \* bound: the longest startAllSessions
  MaxFaults          \* bound: failed calls and crashes

ASSUME ElectionAssumption ==
  /\ IsFiniteSet(Instance) /\ {NoOne, Gone} \cap Instance = {} /\ NoOne # Gone
  /\ Ttl \in Nat /\ MaxStart \in Nat /\ MaxFaults \in Nat
  /\ HeartbeatEvery \in Nat \ {0} /\ ProbeEvery \in Nat \ {0}

Off == -1            \* no startAllSessions is running

VARIABLES
  owner, left,       \* the row: instanceId, expiresAt - NOW() (-1: past)
  life,              \* "down", "booting" (onModuleInit), "up" (intervals run)
  leader,            \* the leader flag, and WhatsappService.leaderMode with it
  beat, probe,       \* the calls of tryAcquireLock: heartbeat's; probe's or boot's
  start,             \* the age of the last startAllSessions, or Off
  heartbeatIn, probeIn,  \* time to the next tick of each interval
  lostFor,           \* history: how long the row has named another than the leader
  vacantFor,         \* history: how long nobody led, though someone could and nothing failed
  faults

row == <<owner, left>>
timers == <<heartbeatIn, probeIn>>
vars == <<row, life, leader, beat, probe, start, timers, lostFor, vacantFor, faults>>

Init ==
  /\ owner = NoOne /\ left = 0
  /\ life = [i \in Instance |-> "down"]
  /\ leader = [i \in Instance |-> FALSE]
  /\ beat = [i \in Instance |-> "none"]
  /\ probe = [i \in Instance |-> "none"]
  /\ start = [i \in Instance |-> Off]
  /\ heartbeatIn = [i \in Instance |-> HeartbeatEvery]
  /\ probeIn = [i \in Instance |-> ProbeEvery]
  /\ lostFor = [i \in Instance |-> 0]
  /\ vacantFor = 0
  /\ faults = 0

Fault == faults < MaxFaults /\ faults' = faults + 1 /\ vacantFor' = 0

-----------------------------------------------------------------------------
(* tryAcquireLock *)

UpsertAlways == owner = owner      \* mutant: no WHERE
UpsertNever == owner = NoOne       \* mutant: ON CONFLICT DO NOTHING
UpsertWins == owner = NoOne \/ left < 0

\* INSERT ... ON CONFLICT DO UPDATE ... WHERE "expiresAt" < NOW()
Upsert(i) ==
  IF UpsertWins
  THEN /\ owner' = i /\ left' = Ttl
       /\ lostFor' = [lostFor EXCEPT ![i] = 0]
  ELSE UNCHANGED <<row, lostFor>>

-----------------------------------------------------------------------------
(* Boot and probe *)

\* onModuleInit is over: Nest mounts the intervals.
Mount(i) ==
  /\ life' = [life EXCEPT ![i] = "up"]
  /\ heartbeatIn' = IF life[i] = "booting"
                    THEN [heartbeatIn EXCEPT ![i] = HeartbeatEvery] ELSE heartbeatIn
  /\ probeIn' = IF life[i] = "booting"
                THEN [probeIn EXCEPT ![i] = ProbeEvery] ELSE probeIn

Boot(i) ==
  /\ life[i] = "down"
  /\ life' = [life EXCEPT ![i] = "booting"]
  /\ probe' = [probe EXCEPT ![i] = "upsert"]
  /\ UNCHANGED <<row, leader, beat, start, timers, lostFor, vacantFor, faults>>

\* mutant: the probe does not ask whether the instance leads
ProbeFiresAnyway(i) ==
  /\ life[i] = "up" /\ probeIn[i] = 0
  /\ probeIn' = [probeIn EXCEPT ![i] = ProbeEvery]
  /\ probe' = [probe EXCEPT ![i] = "upsert"]
  /\ UNCHANGED <<row, life, leader, beat, start, heartbeatIn, lostFor, vacantFor, faults>>

ProbeFires(i) ==
  /\ life[i] = "up" /\ probeIn[i] = 0
  /\ probeIn' = [probeIn EXCEPT ![i] = ProbeEvery]
  /\ probe' = IF leader[i] THEN probe ELSE [probe EXCEPT ![i] = "upsert"]
  /\ UNCHANGED <<row, life, leader, beat, start, heartbeatIn, lostFor, vacantFor, faults>>

ProbeUpsert(i) ==
  /\ probe[i] = "upsert"
  /\ Upsert(i)
  /\ probe' = [probe EXCEPT ![i] = "select"]
  /\ UNCHANGED <<life, leader, beat, start, timers, vacantFor, faults>>

BecomeLeader(i) ==
  /\ probe[i] = "select" /\ owner = i
  /\ probe' = [probe EXCEPT ![i] = "none"]
  /\ leader' = [leader EXCEPT ![i] = TRUE]
  /\ start' = [start EXCEPT ![i] = 0]
  /\ UNCHANGED <<row, life, beat, timers, lostFor, vacantFor, faults>>

StandBy(i) ==
  /\ probe[i] = "select" /\ owner # i
  /\ probe' = [probe EXCEPT ![i] = "none"]
  /\ Mount(i)
  /\ UNCHANGED <<row, leader, beat, start, lostFor, vacantFor, faults>>

\* A statement rejects: tryAcquireLock returns false.
ProbeFails(i) ==
  /\ probe[i] # "none"
  /\ Fault
  /\ probe' = [probe EXCEPT ![i] = "none"]
  /\ Mount(i)
  /\ UNCHANGED <<row, leader, beat, start, lostFor>>

Started(i) ==
  /\ start[i] # Off
  /\ start' = [start EXCEPT ![i] = Off]
  /\ Mount(i)
  /\ UNCHANGED <<row, leader, beat, probe, lostFor, vacantFor, faults>>

-----------------------------------------------------------------------------
(* Heartbeat *)

HeartbeatFires(i) ==
  /\ life[i] = "up" /\ heartbeatIn[i] = 0
  /\ heartbeatIn' = [heartbeatIn EXCEPT ![i] = HeartbeatEvery]
  /\ beat' = IF leader[i] THEN [beat EXCEPT ![i] = "upsert"] ELSE beat
  /\ UNCHANGED <<row, life, leader, probe, start, probeIn, lostFor, vacantFor, faults>>

BeatUpsert(i) ==
  /\ beat[i] = "upsert"
  /\ Upsert(i)
  /\ beat' = [beat EXCEPT ![i] = "select"]
  /\ UNCHANGED <<life, leader, probe, start, timers, vacantFor, faults>>

StillLeader(i) ==
  /\ beat[i] = "select" /\ owner = i
  /\ beat' = [beat EXCEPT ![i] = "none"]
  /\ UNCHANGED <<row, life, leader, probe, start, timers, lostFor, vacantFor, faults>>

\* stopAllSessions ends every socket before its first await.
StopLeading(i) ==
  /\ beat' = [beat EXCEPT ![i] = "none"]
  /\ leader' = [leader EXCEPT ![i] = FALSE]
  /\ lostFor' = [lostFor EXCEPT ![i] = 0]
  /\ UNCHANGED <<row, life, probe, start, timers>>

\* mutant: the heartbeat does not look at the answer
StepDownNot(i) ==
  /\ beat[i] = "select" /\ owner # i
  /\ beat' = [beat EXCEPT ![i] = "none"]
  /\ UNCHANGED <<row, life, leader, probe, start, timers, lostFor, vacantFor, faults>>

StepDown(i) ==
  /\ beat[i] = "select" /\ owner # i
  /\ StopLeading(i)
  /\ UNCHANGED <<vacantFor, faults>>

BeatFails(i) ==
  /\ beat[i] # "none"
  /\ Fault
  /\ StopLeading(i)

-----------------------------------------------------------------------------
(* Crashes and time *)

\* The process is gone; its successor draws a new instanceId.
Crash(i) ==
  /\ life[i] # "down"
  /\ Fault
  /\ owner' = IF owner = i THEN Gone ELSE owner
  /\ life' = [life EXCEPT ![i] = "down"]
  /\ leader' = [leader EXCEPT ![i] = FALSE]
  /\ beat' = [beat EXCEPT ![i] = "none"]
  /\ probe' = [probe EXCEPT ![i] = "none"]
  /\ start' = [start EXCEPT ![i] = Off]
  /\ lostFor' = [lostFor EXCEPT ![i] = 0]
  /\ UNCHANGED <<left, timers>>

Stale(i) == leader[i] /\ owner # i
Vacant == (\A i \in Instance : ~leader[i]) /\ \E i \in Instance : life[i] = "up"

\* Nothing is overdue: no interval, no call, no start.
Punctual(i) ==
  /\ beat[i] = "none" /\ probe[i] = "none"
  /\ life[i] = "up" => heartbeatIn[i] > 0 /\ probeIn[i] > 0
  /\ start[i] < MaxStart

Tick ==
  /\ \A i \in Instance : Punctual(i)
  /\ left' = IF owner # NoOne /\ left >= 0 THEN left - 1 ELSE left
  /\ start' = [i \in Instance |-> IF start[i] = Off THEN Off ELSE start[i] + 1]
  /\ heartbeatIn' = [i \in Instance |-> IF life[i] = "up" THEN heartbeatIn[i] - 1
                                        ELSE heartbeatIn[i]]
  /\ probeIn' = [i \in Instance |-> IF life[i] = "up" THEN probeIn[i] - 1
                                    ELSE probeIn[i]]
  /\ lostFor' = [i \in Instance |-> IF Stale(i) THEN lostFor[i] + 1 ELSE 0]
  /\ vacantFor' = IF Vacant THEN vacantFor + 1 ELSE 0
  /\ UNCHANGED <<owner, life, leader, beat, probe, faults>>

Call(i) ==
  \/ ProbeFires(i) \/ ProbeUpsert(i) \/ BecomeLeader(i) \/ StandBy(i)
  \/ HeartbeatFires(i) \/ BeatUpsert(i) \/ StillLeader(i) \/ StepDown(i)

Next ==
  \/ \E i \in Instance :
       \/ Boot(i) \/ Call(i) \/ Started(i)
       \/ ProbeFails(i) \/ BeatFails(i) \/ Crash(i)
  \/ Tick

Spec == Init /\ [][Next]_vars

-----------------------------------------------------------------------------
(* Properties *)

\* An instance has at most one call of tryAcquireLock under way: a leader's is the
\* heartbeat's, another's is the probe's or the boot's, and a dead process has none.
CallsFitTheRole ==
  \A i \in Instance :
    /\ beat[i] # "none" => leader[i] /\ life[i] = "up"
    /\ probe[i] # "none" => ~leader[i] /\ life[i] # "down"
    /\ life[i] = "down" => ~leader[i] /\ start[i] = Off

\* Every column, flag, call and timer has its type, and the calls fit the role: the
\* two intervals and the boot never ask the row for one instance at once.
TypeOK ==
  /\ CallsFitTheRole
  /\ owner \in Instance \cup {NoOne, Gone}
  /\ left \in -1 .. Ttl
  /\ life \in [Instance -> {"down", "booting", "up"}]
  /\ leader \in [Instance -> BOOLEAN]
  /\ beat \in [Instance -> {"none", "upsert", "select"}]
  /\ probe \in [Instance -> {"none", "upsert", "select"}]
  /\ start \in [Instance -> Off .. MaxStart]
  /\ heartbeatIn \in [Instance -> 0 .. HeartbeatEvery]
  /\ probeIn \in [Instance -> 0 .. ProbeEvery]
  /\ lostFor \in [Instance -> Nat] /\ vacantFor \in Nat
  /\ faults \in 0 .. MaxFaults

\* A lock outlives the start of the sessions and the wait for a heartbeat.
QuickStart == MaxStart <= Ttl /\ HeartbeatEvery <= Ttl

\* A leader whose lock was taken away is gone by its next heartbeat: two instances
\* lead together for less than a heartbeat's period, whatever fails.
StaleLeaderStepsDown ==
  QuickStart => \A i \in Instance : lostFor[i] < HeartbeatEvery

\* The heartbeat confirms the lock without renewing it, so two leaders do meet;
\* but never three, however many instances, crashes and failed calls there are.
AtMostTwoLeaders ==
  QuickStart => Cardinality({i \in Instance : leader[i]}) <= 2

\* However leaders die or step down, an instance that is up leads once the row has
\* expired and its probe has come round: nobody leads for a bounded time.
VacancyEnds == vacantFor <= Ttl + ProbeEvery

\* "Standby instances probe every 15s to take over if the leader dies"
\* (leader-election.service.ts:73) and "Leader renews the lock every 10s" (:58): a
\* leader that lives and beats is not replaced.  The code breaks it: see the README.
OnlyDeadLeadersAreReplaced ==
  [][\A i \in Instance : leader[i] /\ owner = i => owner' = i \/ life'[i] = "down"]_vars
=============================================================================
