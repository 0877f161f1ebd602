--------------------------- MODULE SessionProofs ---------------------------
(***************************************************************************)
(* What holds of the sockets, the session lock, the row, the cache and the *)
(* flows for any number of instances, sockets, pairings, numbers, events   *)
(* and lapses.  SessionInv is about the sockets and the lock and stands by *)
(* itself; CalmInv, on top of it, is about what the handlers write.        *)
(***************************************************************************)
EXTENDS SessionManager, TLAPS

----------------------------------------------------------------------------
(* Types *)

Service ==
  [leader : BOOLEAN, session : Socket \cup {None}, pending : BOOLEAN, held : BOOLEAN,
   won : BOOLEAN, timers : Nat, boot : BOOLEAN, stopping : BOOLEAN,
   reset : {"no", "logout", "row", "cache", "flows", "start"},
   old : Socket \cup {None}, prev : Phone \cup {None}]
Closure ==
  [at : Instance \cup {None}, creds : Creds \cup {None}, prev : Phone \cup {None},
   stage : {"free", "db", "fill", "version", "connecting", "open", "kicked", "gone"},
   opening : {"no", "flows"}, closing : {"no", "status", "flows", "decide", "delete", "cache"},
   reason : {"no", "restart", "replaced", "loggedOut", "drop"}, saving : {"no", "cache"}]
Row ==
  [creds : Creds \cup {None}, phone : Phone \cup {None},
   status : {"CONNECTED", "PENDING", "DISCONNECTED"}]

----------------------------------------------------------------------------
(* The invariant *)

At(s, i) == sock[s].at = i
BuiltAt(s, i) == At(s, i) /\ Building(s)
LiveAt(s, i) == At(s, i) /\ Live(s)
ClosingAt(s, i) == At(s, i) /\ sock[s].closing # "no"

\* A socket in use is some instance's; a free one has nothing under way; a live one has
\* credentials of its own.
OwnedInv ==
  \A s \in Socket : /\ sock[s].stage # "free" => sock[s].at \in Instance
                    /\ sock[s].stage = "free" => sock[s] = Free
PairedInv == \A s \in Socket : Live(s) => sock[s].creds # None

\* The map and forceResetSession each point to a live socket of their own instance, and
\* not to the same one.
Points(i) ==
  /\ \A s \in Socket : inst[i].session = s => LiveAt(s, i) /\ inst[i].old # s
  /\ \A s \in Socket : inst[i].old = s => LiveAt(s, i)
  /\ inst[i].old # None => inst[i].reset = "logout"
PointsInv == \A i \in Instance : Points(i)

\* A socket that needs the lock: being built, or live and not being reset.
Stands(s, i) == BuiltAt(s, i) \/ (LiveAt(s, i) /\ inst[i].old # s)

\* What holds of an instance on which no two operations met: it has the key while it
\* believes so; a socket being built is the only one, and pending says so; a live one
\* is the session; nothing stands while the lock is being won, while a close is handled,
\* whose last step releases the lock, or during forceResetSession, which ends in a start.
KeyHeld(i) ==
  /\ inst[i].held \/ inst[i].won => lockKey = i
  /\ inst[i].held => ~inst[i].won
OneStands(i) ==
  /\ \A s \in Socket : BuiltAt(s, i) =>
       inst[i].held /\ inst[i].pending /\ inst[i].session = None
  /\ \A s, t \in Socket : BuiltAt(s, i) /\ BuiltAt(t, i) => s = t
  /\ \A s \in Socket : LiveAt(s, i) /\ inst[i].old # s =>
       inst[i].held /\ inst[i].session = s
NothingStands(i) ==
  /\ inst[i].won \/ Handling(i) \/ inst[i].reset # "no" => \A s \in Socket : ~Stands(s, i)
  /\ inst[i].won => ~Handling(i) /\ inst[i].reset = "no"
Protected(i) == KeyHeld(i) /\ OneStands(i) /\ NothingStands(i)
LockInv == \A i \in Instance \ raced : Protected(i)

\* The parts of TypeOK by who changes them.
Processes == inst \in [Instance -> Service] /\ sock \in [Socket -> Closure]
History == raced \subseteq Instance /\ blurred \in BOOLEAN
Stores ==
  /\ cache \in Creds \cup {None} /\ row \in Row
  /\ active \subseteq Phone \cup {None} /\ linked \subseteq Creds
  /\ phoneOf \in [Creds -> Phone \cup {None}] /\ events \in 0 .. MaxEvents
Key == lockKey \in Instance \cup {None}
Typed == Processes /\ History /\ Stores /\ Key
Losses ==
  /\ lapses \in 0 .. MaxLapses /\ unsaid \in BOOLEAN
  /\ leftOn \subseteq Phone \cup {None} /\ kept \subseteq {"row", "cache"}

SessionInv == Typed /\ PairedInv /\ OwnedInv /\ PointsInv /\ LockInv

----------------------------------------------------------------------------
(* Lemmas *)

LEMMA TypesAre ==
  Typed <=>
    /\ inst \in [Instance -> Service] /\ sock \in [Socket -> Closure]
    /\ lockKey \in Instance \cup {None} /\ cache \in Creds \cup {None} /\ row \in Row
    /\ active \subseteq Phone \cup {None} /\ linked \subseteq Creds
    /\ phoneOf \in [Creds -> Phone \cup {None}]
    /\ events \in 0 .. MaxEvents /\ raced \subseteq Instance /\ blurred \in BOOLEAN
BY DEF Typed, Processes, History, Stores, Key

LEMMA FreeIsClosure == Free \in Closure
BY DEF Free, Closure

LEMMA IdleIsService == Idle \in Service
BY DEF Idle, Service

\* What Tidy keeps and what it forgets.
LEMMA TidyEffect ==
  ASSUME NEW k \in Closure
  PROVE  /\ Tidy(k) \in Closure
         /\ k.stage # "gone" => Tidy(k) = k
         /\ k.stage = "gone" =>
              /\ Tidy(k).stage \in {"gone", "free"}
              /\ Tidy(k).stage = "free" => Tidy(k) = Free
              /\ Tidy(k).stage = "gone" => Tidy(k).at = k.at /\ Tidy(k).closing = k.closing
              /\ k.closing # "no" => Tidy(k).stage = "gone"
<1>1. CASE k.stage # "gone"
  BY <1>1 DEF Tidy
<1>2. CASE k.stage = "gone" /\ k.opening = "no" /\ k.closing = "no" /\ k.saving = "no"
  <2>1. Tidy(k) = Free
    BY <1>2 DEF Tidy
  <2> QED  BY <1>2, <2>1, FreeIsClosure DEF Free
<1>3. CASE k.stage = "gone" /\ ~(k.opening = "no" /\ k.closing = "no" /\ k.saving = "no")
  <2>1. PICK c \in Creds \cup {None}, x \in {k.reason, "no"}, p \in {k.prev, None} :
          Tidy(k) = [k EXCEPT !.creds = c, !.reason = x, !.prev = p]
    <3>1. \E c \in {k.creds, None}, x \in {k.reason, "no"}, p \in {k.prev, None} :
            Tidy(k) = [k EXCEPT !.creds = c, !.reason = x, !.prev = p]
      BY <1>3 DEF Tidy
    <3> QED  BY <3>1 DEF Closure
  <2> QED  BY <1>3, <2>1 DEF Closure
<1> QED  BY <1>1, <1>2, <1>3

LEMMA SessionType ==
  ASSUME NEW r \in Service, NEW s \in Socket \cup {None}
  PROVE  [r EXCEPT !.session = s] \in Service
BY DEF Service

LEMMA PendingType ==
  ASSUME NEW r \in Service, NEW b \in BOOLEAN
  PROVE  [r EXCEPT !.pending = b] \in Service
BY DEF Service

LEMMA StartOtherType ==
  ASSUME NEW r \in Service, NEW s \in Socket \cup {None}, NEW p \in Phone \cup {None}
  PROVE  [Released(r) EXCEPT !.session = None, !.reset = "logout", !.old = s, !.prev = p]
           \in Service
BY DEF Service, Released

LEMMA StepDownType ==
  ASSUME NEW r \in Service
  PROVE  [Released(r) EXCEPT !.leader = FALSE, !.session = None, !.pending = FALSE,
                             !.stopping = TRUE] \in Service
BY DEF Service, Released

LEMMA TimersType ==
  ASSUME NEW r \in Service PROVE [r EXCEPT !.timers = @ + 1] \in Service
BY DEF Service

LEMMA StageType ==
  ASSUME NEW k \in Closure,
         NEW x \in {"free", "db", "fill", "version", "connecting", "open", "kicked", "gone"}
  PROVE  [k EXCEPT !.stage = x] \in Closure
BY DEF Closure

LEMMA CredsType ==
  ASSUME NEW k \in Closure, NEW c \in Creds \cup {None}
  PROVE  [k EXCEPT !.creds = c] \in Closure
BY DEF Closure

LEMMA EndedType ==
  ASSUME NEW k \in Closure, NEW p \in Phone \cup {None}, NEW h \in {"no", "status"},
         NEW x \in {"no", "restart", "replaced", "loggedOut", "drop"}
  PROVE  [k EXCEPT !.stage = "gone", !.closing = h, !.reason = x, !.prev = p] \in Closure
BY DEF Closure

LEMMA ClosingType ==
  ASSUME NEW k \in Closure, NEW h \in {"no", "status", "flows", "decide", "delete", "cache"}
  PROVE  [k EXCEPT !.closing = h] \in Closure
BY DEF Closure

LEMMA UpdateEffect ==
  ASSUME Typed, NEW s \in Socket, NEW k \in Closure, Update(s, k)
  PROVE  /\ sock' \in [Socket -> Closure]
         /\ sock'[s] = Tidy(k) /\ \A t \in Socket \ {s} : sock'[t] = sock[t]
BY TypesAre, TidyEffect DEF Update

LEMMA ReleasedType == ASSUME NEW r \in Service PROVE Released(r) \in Service
BY DEF Released, Service

----------------------------------------------------------------------------
(* Type correctness *)

LEMMA TypesByPart ==
  /\ Typed <=> Processes /\ History /\ Stores /\ Key
  /\ Typed' <=> Processes' /\ History' /\ Stores' /\ Key'
BY DEF Typed

LEMMA BuildTypes ==
  ASSUME Typed, NEW i \in Instance, NEW r \in Service, Build(i, r)
  PROVE  Processes'
<1>1. PICK s \in Socket, c \in {cache, None} :
        /\ sock' = [sock EXCEPT ![s] =
             [Free EXCEPT !.at = i, !.creds = c,
                          !.stage = IF c = None THEN "db" ELSE "version"]]
        /\ inst' = [inst EXCEPT ![i] = [r EXCEPT !.pending = TRUE]]
  BY DEF Build
<1>2. [Free EXCEPT !.at = i, !.creds = c,
                   !.stage = IF c = None THEN "db" ELSE "version"] \in Closure
  BY TypesAre DEF Free, Closure
<1>3. [r EXCEPT !.pending = TRUE] \in Service
  BY DEF Service
<1> QED  BY <1>1, <1>2, <1>3, TypesAre DEF Processes

LEMMA StartTypes ==
  ASSUME Typed, NEW i \in Instance, NEW r \in Service, Start(i, r)
  PROVE  Processes' /\ History' /\ Key'
<1>1. History'
  BY TypesAre DEF Start, History
<1>2. [r EXCEPT !.won = TRUE] \in Service
  BY DEF Service
<1>3. CASE r.pending \/ (~r.held /\ lockKey # None)
  BY <1>1, <1>3, TypesAre DEF Start, Processes, Key
<1>4. CASE ~(r.pending \/ (~r.held /\ lockKey # None)) /\ r.held
  <2>1. Build(i, r) /\ UNCHANGED lockKey
    BY <1>4 DEF Start
  <2> QED  BY <1>1, <2>1, BuildTypes, TypesAre DEF Key
<1>5. CASE ~(r.pending \/ (~r.held /\ lockKey # None)) /\ ~r.held
  <2>1. /\ inst' = [inst EXCEPT ![i] = [r EXCEPT !.won = TRUE]] /\ lockKey' = i
        /\ UNCHANGED sock
    BY <1>5 DEF Start
  <2> QED  BY <1>1, <1>2, <2>1, TypesAre DEF Processes, Key
<1> QED  BY <1>3, <1>4, <1>5

LEMMA StartUnlessMappedTypes ==
  ASSUME Typed, NEW i \in Instance, NEW r \in Service, StartUnlessMapped(i, r)
  PROVE  Processes' /\ History' /\ Key'
<1>1. CASE r.session # None
  BY <1>1, TypesAre DEF StartUnlessMapped, Processes, History, Key, history
<1>2. CASE r.session = None
  BY <1>2, StartTypes DEF StartUnlessMapped
<1> QED  BY <1>1, <1>2

LEMMA ClosedTypes ==
  ASSUME Typed, NEW s \in Socket,
         NEW reason \in {"restart", "replaced", "loggedOut", "drop", "no"},
         Closed(s, reason), UNCHANGED raced
  PROVE  Processes' /\ History'
<1> sock[s] \in Closure /\ row.phone \in Phone \cup {None}
  BY TypesAre DEF Row
<1>1. ASSUME NEW p \in {row.phone, None}
      PROVE  [sock[s] EXCEPT !.stage = "gone", !.closing = "status",
                             !.reason = reason, !.prev = p] \in Closure
  BY EndedType
<1>2. History'
  BY TypesAre DEF Closed, History
<1>3. CASE Mapped(s)
  <2>1. inst' \in [Instance -> Service]
    BY <1>3, TypesAre DEF Closed, Service
  <2>2. PICK p \in {row.phone, None} :
          Update(s, [sock[s] EXCEPT !.stage = "gone", !.closing = "status",
                                    !.reason = reason, !.prev = p])
    BY <1>3 DEF Closed
  <2>3. sock' \in [Socket -> Closure]
    BY <1>1, <2>2, UpdateEffect
  <2> QED  BY <1>2, <2>1, <2>3 DEF Processes
<1>4. CASE ~Mapped(s)
  BY <1>2, <1>4, StageType, UpdateEffect, TypesAre DEF Closed, Processes
<1> QED  BY <1>3, <1>4

LEMMA SetStatusType ==
  ASSUME Typed, NEW status \in {"CONNECTED", "PENDING", "DISCONNECTED"},
         NEW p \in Phone \cup {None}, SetStatus(status, p)
  PROVE  row' \in Row
BY TypesAre DEF SetStatus, Row

LEMMA CurrentPhoneType ==
  ASSUME Typed, NEW s \in Socket
  PROVE  CurrentPhone(s) \in Phone \cup {None}
<1>1. sock[s].creds \in Creds \cup {None}
  BY TypesAre DEF Closure
<1> QED  BY <1>1, TypesAre DEF CurrentPhone

LEMMA KeyAfterReleaseType ==
  ASSUME Typed, NEW i PROVE KeyAfterRelease(i) \in Instance \cup {None}
BY TypesAre DEF KeyAfterRelease

LEMMA SetRecordType ==
  ASSUME Typed, NEW i, NEW r \in Service
  PROVE  [inst EXCEPT ![i] = r] \in [Instance -> Service]
BY TypesAre

\* Giving the lock back.
LEMMA ReleaseTypes ==
  ASSUME Typed, NEW i,
         inst' = [inst EXCEPT ![i] = Released(inst[i])], lockKey' = KeyAfterRelease(i)
  PROVE  inst' \in [Instance -> Service] /\ Key'
<1>1. CASE i \in Instance
  <2>1. inst[i] \in Service
    BY <1>1, TypesAre
  <2>2. Released(inst[i]) \in Service
    BY <2>1, ReleasedType
  <2> QED  BY <2>2, SetRecordType, KeyAfterReleaseType DEF Key
<1>2. CASE i \notin Instance
  BY <1>2, TypesAre, KeyAfterReleaseType DEF Key
<1> QED  BY <1>1, <1>2

LEMMA EventType == ASSUME Typed, Event PROVE events' \in 0 .. MaxEvents
BY TypesAre, SessionAssumption DEF Event

LEMMA InitTypes == ASSUME Init PROVE Typed
<1>1. inst \in [Instance -> Service] /\ sock \in [Socket -> Closure]
  <2>1. \A i \in Instance :
          [Idle EXCEPT !.leader = i = FirstLeader, !.boot = i = FirstLeader] \in Service
    BY IdleIsService DEF Service
  <2> QED  BY <2>1, FreeIsClosure DEF Init
<1>2. PICK c \in Creds, p \in Phone :
        /\ row = [creds |-> c, status |-> "DISCONNECTED", phone |-> None]
        /\ phoneOf = [d \in Creds |-> IF d = c THEN p ELSE None]
        /\ linked = {c}
  BY DEF Init
<1>3. row \in Row /\ phoneOf \in [Creds -> Phone \cup {None}] /\ linked \subseteq Creds
  BY <1>2 DEF Row
<1>4. /\ lockKey = None /\ cache = None /\ active = {} /\ events = 0
      /\ raced = {} /\ blurred = FALSE
  BY DEF Init
<1>5. events \in 0 .. MaxEvents
  BY <1>4, SessionAssumption
<1> QED  BY <1>1, <1>3, <1>4, <1>5, TypesAre

\* What a socket does keeps the types ...
LEMMA SocketStepTypes ==
  ASSUME Typed, PairedInv, NEW s \in Socket,
         \/ LoadDb(s) \/ FillCache(s) \/ MakeSocket(s) \/ BuildFails(s) \/ Opened(s)
         \/ ShowQr(s) \/ OpenFlows(s) \/ SaveCache(s) \/ Save(s)
         \/ \E p \in Phone : Scan(s, p)
  PROVE  Typed'
<1> USE TypesAre
<1> sock[s] \in Closure
  OBVIOUS
<1>1. CASE LoadDb(s)
  <2>1. [sock[s] EXCEPT !.stage = IF row = NoRow THEN "version" ELSE "fill",
                        !.creds = row.creds] \in Closure
    BY StageType, CredsType DEF Row
  <2>2. Processes'
    BY <1>1, <2>1, UpdateEffect DEF LoadDb, Processes
  <2> QED  BY <1>1, <2>2, TypesByPart
         DEF LoadDb, History, Stores, Key, redis, database, whatsapp, history
<1>2. CASE FillCache(s)
  <2>1. [sock[s] EXCEPT !.stage = "version"] \in Closure
    BY StageType
  <2> sock[s].creds \in Creds \cup {None}
    BY DEF Closure
  <2>2. Processes' /\ cache' \in Creds \cup {None}
    BY <1>2, <2>1, UpdateEffect DEF FillCache, CacheSet, Processes
  <2> QED  BY <1>2, <2>2, TypesByPart
         DEF FillCache, History, Stores, Key, database, whatsapp, history
<1>3. CASE MakeSocket(s)
  <2>1. PICK c \in Creds \cup {None} :
          Update(s, [sock[s] EXCEPT !.stage = "connecting", !.creds = c])
    BY <1>3 DEF MakeSocket, NextCreds, Unused, Closure
  <2>2. [sock[s] EXCEPT !.stage = "connecting", !.creds = c] \in Closure
    BY StageType, CredsType
  <2>3. sock' \in [Socket -> Closure]
    BY <2>1, <2>2, UpdateEffect
  <2>4. inst' \in [Instance -> Service]
    <3>1. ASSUME NEW i \in Instance
          PROVE  [inst[i] EXCEPT !.session = s, !.pending = FALSE] \in Service
      <4>1. inst[i] \in Service
        OBVIOUS
      <4>2. [inst[i] EXCEPT !.session = s] \in Service
        BY <4>1, SessionType
      <4> QED  BY <4>2, PendingType
    <3>2. inst' = [inst EXCEPT ![sock[s].at] = [inst[sock[s].at] EXCEPT !.session = s,
                                                                      !.pending = FALSE]]
      BY <1>3 DEF MakeSocket
    <3> QED  BY <3>1, <3>2
  <2> QED  BY <1>3, <2>3, <2>4, TypesByPart
         DEF MakeSocket, Processes, History, Stores, Key, redis, database, whatsapp, history
<1>4. CASE BuildFails(s)
  <2>1. sock' \in [Socket -> Closure]
    BY <1>4, FreeIsClosure DEF BuildFails
  <2>2. inst' \in [Instance -> Service]
    <3>1. ASSUME NEW i \in Instance
          PROVE  [Released(inst[i]) EXCEPT !.pending = FALSE] \in Service
      <4>1. inst[i] \in Service
        OBVIOUS
      <4> QED  BY <4>1, ReleasedType, PendingType
    <3> QED  BY <1>4, <3>1 DEF BuildFails
  <2>3. Key' /\ events' \in 0 .. MaxEvents
    BY <1>4, KeyAfterReleaseType, EventType DEF BuildFails, Key
  <2> QED  BY <1>4, <2>1, <2>2, <2>3, TypesByPart
         DEF BuildFails, Processes, History, Stores, database, whatsapp, history
<1>5. CASE Opened(s)
  <2>1. ASSUME NEW t \in Socket PROVE sock'[t] \in Closure
    <3>1. /\ [sock[t] EXCEPT !.stage = "open", !.opening = "flows"] \in Closure
          /\ [sock[t] EXCEPT !.stage = "kicked", !.reason = "replaced"] \in Closure
      BY DEF Closure
    <3> QED  BY <1>5, <3>1 DEF Opened
  <2>2. sock' \in [Socket -> Closure]
    BY <1>5, <2>1 DEF Opened
  <2>3. row' \in Row
    BY <1>5, SetStatusType, CurrentPhoneType DEF Opened
  <2> QED  BY <1>5, <2>2, <2>3, TypesByPart
         DEF Opened, Processes, History, Stores, Key, redis, whatsapp, history
<1>6. CASE ShowQr(s)
  <2>1. row' \in Row
    BY <1>6, SetStatusType DEF ShowQr
  <2> QED  BY <1>6, <2>1, TypesByPart
         DEF ShowQr, Processes, History, Stores, Key, process, redis, whatsapp, history
<1>7. CASE OpenFlows(s)
  <2>1. [sock[s] EXCEPT !.opening = "no"] \in Closure
    BY DEF Closure
  <2>2. Processes' /\ active' \subseteq Phone \cup {None}
    BY <1>7, <2>1, UpdateEffect, CurrentPhoneType DEF OpenFlows, Processes
  <2> QED  BY <1>7, <2>2, TypesByPart
         DEF OpenFlows, History, Stores, Key, redis, whatsapp, history
<1>8. CASE SaveCache(s)
  <2>1. [sock[s] EXCEPT !.saving = "no"] \in Closure /\ sock[s].creds \in Creds \cup {None}
    BY DEF Closure
  <2>2. Processes' /\ cache' \in Creds \cup {None} /\ History'
    BY <1>8, <2>1, UpdateEffect DEF SaveCache, CacheSet, Processes, History
  <2> QED  BY <1>8, <2>2, TypesByPart
         DEF SaveCache, Stores, Key, database, whatsapp
<1>9. CASE Save(s)
  <2>1. [sock[s] EXCEPT !.saving = "cache"] \in Closure /\ sock[s].creds \in Creds \cup {None}
    BY DEF Closure
  <2>2. Processes' /\ row' \in Row
    BY <1>9, <2>1, UpdateEffect DEF Save, Processes, Row
  <2> QED  BY <1>9, <2>2, TypesByPart
         DEF Save, History, Stores, Key, redis, whatsapp, history
<1>10. ASSUME NEW p \in Phone, Scan(s, p) PROVE Typed'
  <2>1. /\ [sock[s] EXCEPT !.stage = "kicked", !.reason = "restart", !.saving = "cache"]
             \in Closure
        /\ sock[s].creds \in Creds
    <3>1. sock[s].creds \in Creds
      BY <1>10 DEF Closure, Scan, PairedInv, Live
    <3> QED  BY <3>1 DEF Closure
  <2>2. Processes' /\ row' \in Row
    BY <1>10, <2>1, UpdateEffect DEF Scan, Processes, Row
  <2>3. phoneOf' \in [Creds -> Phone \cup {None}] /\ linked' \subseteq Creds
    BY <1>10, <2>1 DEF Scan
  <2> QED  BY <1>10, <2>2, <2>3, TypesByPart
         DEF Scan, History, Stores, Key, redis, history
<1> QED  BY <1>1, <1>2, <1>3, <1>4, <1>5, <1>6, <1>7, <1>8, <1>9, <1>10

\* ... and what its end and the close handler do, ...
LEMMA CloseStepTypes ==
  ASSUME Typed, PairedInv, NEW s \in Socket,
         \/ QrExpires(s) \/ Refused(s) \/ Kicked(s) \/ Drop(s) \/ Unlink(s)
         \/ CloseStatus(s) \/ CloseFlows(s) \/ CloseDecide(s) \/ CloseDelete(s) \/ CloseCache(s)
  PROVE  Typed'
<1> USE TypesAre
<1>a. sock[s] \in Closure
  OBVIOUS
<1>b. sock[s].reason \in {"no", "restart", "replaced", "loggedOut", "drop"}
  BY <1>a DEF Closure
<1>1. ASSUME NEW reason \in {"restart", "replaced", "loggedOut", "drop", "no"},
             Closed(s, reason), UNCHANGED <<redis, database, phoneOf, raced>>,
             linked' \subseteq Creds, events' \in 0 .. MaxEvents
      PROVE  Typed'
  BY <1>1, ClosedTypes, TypesByPart DEF Stores, Key, redis, database
<1>2. CASE QrExpires(s) \/ Refused(s) \/ Kicked(s)
  <2>1. UNCHANGED <<redis, database, whatsapp, events, raced>>
    BY <1>2 DEF QrExpires, Refused, Kicked
  <2>2. UNCHANGED <<redis, database, phoneOf, raced>>
        /\ linked' \subseteq Creds /\ events' \in 0 .. MaxEvents
    BY <2>1 DEF whatsapp
  <2>3. Closed(s, "drop") \/ Closed(s, "loggedOut") \/ Closed(s, sock[s].reason)
    BY <1>2 DEF QrExpires, Refused, Kicked
  <2> QED  BY <1>1, <1>b, <2>2, <2>3
<1>3. CASE Drop(s) \/ Unlink(s)
  <2>1. /\ UNCHANGED <<redis, database, phoneOf, raced>>
        /\ linked' \subseteq Creds /\ events' \in 0 .. MaxEvents
    BY <1>3, EventType DEF Drop, Unlink, whatsapp
  <2>2. Closed(s, "drop") \/ Closed(s, "loggedOut")
    BY <1>3 DEF Drop, Unlink
  <2> QED  BY <1>1, <2>1, <2>2
<1>4. CASE CloseStatus(s)
  <2>1. Processes'
    BY <1>4, <1>a, ClosingType, UpdateEffect DEF CloseStatus, Processes
  <2>2. row' \in Row
    BY <1>4, SetStatusType DEF CloseStatus
  <2> QED  BY <1>4, <2>1, <2>2, TypesByPart
         DEF CloseStatus, History, Stores, Key, redis, whatsapp, history
<1>5. CASE CloseFlows(s)
  <2>1. Processes'
    BY <1>5, <1>a, ClosingType, UpdateEffect DEF CloseFlows, Processes
  <2>2. active' \subseteq Phone \cup {None}
    BY <1>5 DEF CloseFlows, FlowsOff
  <2> QED  BY <1>5, <2>1, <2>2, TypesByPart
         DEF CloseFlows, History, Stores, Key, redis, whatsapp, history
<1>8. CASE CloseDecide(s)
  <2>1. sock' \in [Socket -> Closure]
    BY <1>8, <1>a, ClosingType, UpdateEffect DEF CloseDecide
  <2>2. inst' \in [Instance -> Service] /\ Key'
    <3>1. CASE UNCHANGED <<inst, lockKey>>
      BY <3>1 DEF Key
    <3>2. CASE inst' = [inst EXCEPT ![sock[s].at].timers = @ + 1] /\ UNCHANGED lockKey
      <4>1. ASSUME NEW i \in Instance
            PROVE  [inst[i] EXCEPT !.timers = @ + 1] \in Service
        <5>1. inst[i] \in Service
          OBVIOUS
        <5> QED  BY <5>1, TimersType
      <4> QED  BY <3>2, <4>1 DEF Key
    <3>3. CASE /\ inst' = [inst EXCEPT ![sock[s].at] = Released(inst[sock[s].at])]
               /\ lockKey' = KeyAfterRelease(sock[s].at)
      BY <3>3, ReleaseTypes
    <3> QED  BY <1>8, <3>1, <3>2, <3>3 DEF CloseDecide
  <2> QED  BY <1>8, <2>1, <2>2, TypesByPart
         DEF CloseDecide, Processes, History, Stores, database, whatsapp, history
<1>6. CASE CloseDelete(s)
  <2>1. Processes'
    BY <1>6, <1>a, ClosingType, UpdateEffect DEF CloseDelete, Processes
  <2>2. row' \in Row
    BY <1>6 DEF CloseDelete, NoRow, Row
  <2> QED  BY <1>6, <2>1, <2>2, TypesByPart
         DEF CloseDelete, History, Stores, Key, redis, whatsapp, history
<1>7. CASE CloseCache(s)
  <2>1. sock' \in [Socket -> Closure]
    BY <1>7, <1>a, ClosingType, UpdateEffect DEF CloseCache
  <2>2. inst' \in [Instance -> Service] /\ Key'
    BY <1>7, ReleaseTypes DEF CloseCache
  <2> QED  BY <1>7, <2>1, <2>2, TypesByPart
         DEF CloseCache, CacheDropped, Processes, History, Stores, database, whatsapp, history
<1> QED  BY <1>2, <1>3, <1>4, <1>5, <1>6, <1>7, <1>8

\* ... and what an instance does.
LEMMA LockStepTypes ==
  ASSUME Typed, NEW i \in Instance,
         \/ Acquired(i) \/ AcquireFails(i) \/ RenewFails(i) \/ Reconcile(i)
         \/ SendNeedsSession(i) \/ ReconnectTimer(i) \/ StartRequest(i) \/ BootStart(i)
  PROVE  Typed'
<1> USE TypesAre
<1>a. inst[i] \in Service
  OBVIOUS
<1>1. CASE Acquired(i)
  <2>1. [inst[i] EXCEPT !.won = FALSE, !.held = TRUE] \in Service
    BY <1>a DEF Service
  <2>2. Processes'
    BY <1>1, <2>1, BuildTypes DEF Acquired
  <2> QED  BY <1>1, <2>2, TypesByPart
         DEF Acquired, History, Stores, Key, redis, database, whatsapp, history
<1>2. CASE AcquireFails(i)
  <2>1. [inst[i] EXCEPT !.won = FALSE] \in Service
    BY <1>a DEF Service
  <2>2. inst' \in [Instance -> Service] /\ events' \in 0 .. MaxEvents
    BY <1>2, <2>1, EventType DEF AcquireFails
  <2> QED  BY <1>2, <2>2, TypesByPart
         DEF AcquireFails, Processes, History, Stores, Key, redis, database, whatsapp, history
<1>3. CASE RenewFails(i)
  <2>1. [Released(inst[i]) EXCEPT !.session = None] \in Service
    BY <1>a, ReleasedType, SessionType
  <2>2. sock' \in [Socket -> Closure]
    <3>1. CASE inst[i].session # None
      <4>1. inst[i].session \in Socket
        BY <3>1, <1>a DEF Service
      <4>2. [sock[inst[i].session] EXCEPT !.stage = "gone"] \in Closure
        BY <4>1, StageType
      <4> QED  BY <1>3, <3>1, <4>1, <4>2, UpdateEffect DEF RenewFails
    <3>2. CASE inst[i].session = None
      BY <1>3, <3>2 DEF RenewFails
    <3> QED  BY <3>1, <3>2
  <2>3. inst' \in [Instance -> Service]
    BY <1>3, <2>1 DEF RenewFails
  <2> QED  BY <1>3, <2>2, <2>3, TypesByPart
         DEF RenewFails, Processes, History, Stores, Key, redis, database, whatsapp
<1>4. ASSUME NEW r \in Service, StartUnlessMapped(i, r) \/ Start(i, r),
             events' \in 0 .. MaxEvents, UNCHANGED <<cache, database, whatsapp>>
      PROVE  Typed'
  <2>1. Processes' /\ History' /\ Key'
    BY <1>4, StartTypes, StartUnlessMappedTypes
  <2> QED  BY <1>4, <2>1, TypesByPart DEF Stores, database, whatsapp
<1>5. CASE Reconcile(i)
  BY <1>4, <1>5, <1>a DEF Reconcile
<1>6. CASE SendNeedsSession(i)
  BY <1>4, <1>6, <1>a, EventType DEF SendNeedsSession
<1>7. CASE ReconnectTimer(i)
  <2>1. [inst[i] EXCEPT !.timers = @ - 1] \in Service
    BY <1>a, <1>7 DEF ReconnectTimer, Service
  <2> QED  BY <1>4, <1>7, <2>1 DEF ReconnectTimer
<1>8. CASE StartRequest(i)
  BY <1>4, <1>8, <1>a, EventType DEF StartRequest
<1>9. CASE BootStart(i)
  <2>1. [inst[i] EXCEPT !.boot = FALSE] \in Service
    BY <1>a DEF Service
  <2>2. CASE row = NoRow
    <3>1. inst' \in [Instance -> Service]
      BY <1>9, <2>1, <2>2 DEF BootStart
    <3> QED  BY <1>9, <2>2, <3>1, TypesByPart
           DEF BootStart, Processes, History, Stores, Key, database, whatsapp, history
  <2>3. CASE row # NoRow
    BY <1>4, <1>9, <2>1, <2>3 DEF BootStart
  <2> QED  BY <2>2, <2>3
<1> QED  BY <1>1, <1>2, <1>3, <1>5, <1>6, <1>7, <1>8, <1>9

LEMMA ResetStepTypes ==
  ASSUME Typed, NEW i \in Instance,
         \/ StartSameNumber(i) \/ StartOtherNumber(i) \/ ResetLogout(i) \/ ResetRow(i)
         \/ ResetCache(i) \/ ResetFlows(i) \/ ResetStart(i)
  PROVE  Typed'
<1> USE TypesAre
<1>a. inst[i] \in Service
  OBVIOUS
<1>1. CASE StartSameNumber(i)
  <2>1. active' \subseteq Phone \cup {None}
    <3>1. inst[i].session \in Socket
      BY <1>1, <1>a DEF StartSameNumber, Service
    <3> QED  BY <1>1, <3>1, CurrentPhoneType DEF StartSameNumber
  <2>2. events' \in 0 .. MaxEvents
    BY <1>1, EventType DEF StartSameNumber
  <2> QED  BY <1>1, <2>1, <2>2, TypesByPart
         DEF StartSameNumber, Processes, History, Stores, Key, process, redis, whatsapp, history
<1>2. CASE StartOtherNumber(i)
  <2>1. inst[i].session \in Socket
    BY <1>2, <1>a DEF StartOtherNumber, Service
  <2>2. /\ [Released(inst[i]) EXCEPT !.session = None, !.reset = "logout",
              !.old = inst[i].session, !.prev = CurrentPhone(inst[i].session)] \in Service
    <3>1. CurrentPhone(inst[i].session) \in Phone \cup {None}
      BY <2>1, CurrentPhoneType
    <3> QED  BY <1>a, <2>1, <3>1, StartOtherType
  <2>3. inst' \in [Instance -> Service] /\ Key' /\ events' \in 0 .. MaxEvents
    BY <1>2, <2>2, KeyAfterReleaseType, EventType DEF StartOtherNumber, Key
  <2> QED  BY <1>2, <2>3, TypesByPart
         DEF StartOtherNumber, Processes, History, Stores, database, whatsapp, history
<1>3. CASE ResetLogout(i)
  <2>1. [inst[i] EXCEPT !.reset = "row", !.old = None] \in Service
    BY <1>a DEF Service
  <2>2. sock' \in [Socket -> Closure]
    <3>1. CASE inst[i].old \in Socket
      <4>1. [sock[inst[i].old] EXCEPT !.stage = "gone"] \in Closure
        BY <3>1, StageType
      <4> QED  BY <1>3, <3>1, <4>1, UpdateEffect DEF ResetLogout
    <3>2. CASE inst[i].old \notin Socket
      BY <1>3, <3>2 DEF ResetLogout, Update
    <3> QED  BY <3>1, <3>2
  <2>3. inst' = [inst EXCEPT ![i] = [inst[i] EXCEPT !.reset = "row", !.old = None]]
    BY <1>3 DEF ResetLogout
  <2>4. linked' \subseteq Creds /\ events' \in 0 .. MaxEvents /\ blurred' \in BOOLEAN
    BY <1>3, EventType DEF ResetLogout
  <2> QED  BY <1>3, <2>1, <2>2, <2>3, <2>4, TypesByPart
         DEF ResetLogout, Processes, History, Stores, Key, redis, database
<1>4. ASSUME NEW step \in {"no", "logout", "row", "cache", "flows"}, ResetGoesTo(i, step)
      PROVE  inst' \in [Instance -> Service]
  <2>1. [inst[i] EXCEPT !.reset = step] \in Service
    BY <1>a DEF Service
  <2> QED  BY <1>4, <2>1 DEF ResetGoesTo
<1>5. CASE ResetRow(i)
  <2>1. row' \in Row
    BY <1>5 DEF ResetRow, NoRow, Row
  <2> QED  BY <1>4, <1>5, <2>1, TypesByPart
         DEF ResetRow, Processes, History, Stores, Key, redis, whatsapp, history
<1>6. CASE ResetCache(i)
  BY <1>4, <1>6, TypesByPart
     DEF ResetCache, CacheDropped, Processes, History, Stores, Key, database, whatsapp, history
<1>7. CASE ResetFlows(i)
  <2>1. [inst[i] EXCEPT !.reset = "start", !.prev = None] \in Service
    BY <1>a DEF Service
  <2>2. inst' = [inst EXCEPT ![i] = [inst[i] EXCEPT !.reset = "start", !.prev = None]]
    BY <1>7 DEF ResetFlows
  <2>3. inst' \in [Instance -> Service] /\ active' \subseteq Phone \cup {None}
    BY <1>7, <2>1, <2>2 DEF ResetFlows, FlowsOff
  <2> QED  BY <1>7, <2>3, TypesByPart
         DEF ResetFlows, Processes, History, Stores, Key, redis, whatsapp, history
<1>8. CASE ResetStart(i)
  <2>1. [inst[i] EXCEPT !.reset = "no"] \in Service
    BY <1>a DEF Service
  <2>2. Processes' /\ History' /\ Key'
    BY <1>8, <2>1, StartTypes DEF ResetStart
  <2> QED  BY <1>8, <2>2, TypesByPart DEF ResetStart, Stores, database, whatsapp
<1> QED  BY <1>1, <1>2, <1>3, <1>5, <1>6, <1>7, <1>8

LEMMA InstanceStepTypes ==
  ASSUME Typed, NEW i \in Instance,
         BecomeLeader(i) \/ StepDown(i) \/ StopMark(i) \/ Crash(i) \/ Expire
  PROVE  Typed'
<1> USE TypesAre
<1>a. inst[i] \in Service
  OBVIOUS
<1>1. CASE BecomeLeader(i)
  <2>1. [inst[i] EXCEPT !.leader = TRUE, !.boot = TRUE] \in Service
    BY <1>a DEF Service
  <2>2. row' \in Row /\ events' \in 0 .. MaxEvents /\ blurred' \in BOOLEAN
    BY <1>1, SetStatusType, EventType DEF BecomeLeader
  <2>3. inst' = [inst EXCEPT ![i] = [inst[i] EXCEPT !.leader = TRUE, !.boot = TRUE]]
    BY <1>1 DEF BecomeLeader
  <2> QED  BY <1>1, <2>1, <2>2, <2>3, TypesByPart
         DEF BecomeLeader, Processes, History, Stores, Key, redis, whatsapp
<1>2. CASE StepDown(i)
  <2>1. [Released(inst[i]) EXCEPT !.leader = FALSE, !.session = None,
           !.pending = FALSE, !.stopping = TRUE] \in Service
    BY <1>a, StepDownType
  <2>2. sock' \in [Socket -> Closure]
    <3>1. CASE inst[i].session = None
      BY <1>2, <3>1 DEF StepDown
    <3>2. CASE inst[i].session # None
      <4>1. inst[i].session \in Socket
        BY <3>2, <1>a DEF Service
      <4>2. PICK h \in {"no", "status"}, p \in {row.phone, None} :
              Update(inst[i].session,
                     [sock[inst[i].session] EXCEPT !.stage = "gone", !.closing = h,
                        !.reason = "drop", !.prev = p])
        BY <1>2, <3>2 DEF StepDown
      <4>3. sock[inst[i].session] \in Closure /\ row.phone \in Phone \cup {None}
        BY <4>1 DEF Row
      <4> QED  BY <4>1, <4>2, <4>3, EndedType, UpdateEffect
    <3> QED  BY <3>1, <3>2
  <2>3. events' \in 0 .. MaxEvents /\ History'
    BY <1>2, EventType DEF StepDown, History
  <2>4. inst' \in [Instance -> Service] /\ Key'
    BY <1>2, <2>1, KeyAfterReleaseType DEF StepDown, Key
  <2> QED  BY <1>2, <2>2, <2>3, <2>4, TypesByPart
         DEF StepDown, Processes, Stores, database, whatsapp
<1>3. CASE StopMark(i)
  <2>1. [inst[i] EXCEPT !.stopping = FALSE] \in Service
    BY <1>a DEF Service
  <2>2. row' \in Row /\ blurred' \in BOOLEAN
    BY <1>3, SetStatusType DEF StopMark
  <2>3. inst' = [inst EXCEPT ![i] = [inst[i] EXCEPT !.stopping = FALSE]]
    BY <1>3 DEF StopMark
  <2> QED  BY <1>3, <2>1, <2>2, <2>3, TypesByPart
         DEF StopMark, Processes, History, Stores, Key, redis, whatsapp
<1>4. CASE Crash(i)
  <2>1. Processes'
    BY <1>4, IdleIsService, FreeIsClosure DEF Crash, Processes
  <2>2. events' \in 0 .. MaxEvents /\ History'
    BY <1>4, EventType DEF Crash, History
  <2> QED  BY <1>4, <2>1, <2>2, TypesByPart
         DEF Crash, Stores, Key, redis, database, whatsapp
<1>5. CASE Expire
  <2>1. events' \in 0 .. MaxEvents /\ History'
    BY <1>5, EventType DEF Expire, History, history
  <2> QED  BY <1>5, <2>1, TypesByPart
         DEF Expire, Processes, Stores, Key, process, database, whatsapp
<1> QED  BY <1>1, <1>2, <1>3, <1>4, <1>5

----------------------------------------------------------------------------
(* What steps do to the sockets, as the invariant sees them *)

BuildStages == {"db", "fill", "version"}
LiveStages == {"connecting", "open", "kicked"}

SameSocket(t, j) ==
  /\ BuiltAt(t, j)' <=> BuiltAt(t, j)
  /\ LiveAt(t, j)' <=> LiveAt(t, j)
  /\ ClosingAt(t, j)' <=> ClosingAt(t, j)
SameSockets(j) == \A t \in Socket : SameSocket(t, j)
SameService(j) ==
  /\ inst'[j].session = inst[j].session /\ inst'[j].pending = inst[j].pending
  /\ inst'[j].held = inst[j].held /\ inst'[j].won = inst[j].won
  /\ inst'[j].old = inst[j].old
  /\ inst'[j].reset = inst[j].reset \/ inst[j].old = None
  /\ inst[j].reset = "no" => inst'[j].reset = "no"
\* The key is not taken from j.
KeyStays(j) == lockKey = j => lockKey' = j

LEMMA UnchangedSocket ==
  ASSUME NEW t \in Socket, sock'[t] = sock[t]
  PROVE  /\ \A j \in Instance : SameSocket(t, j)
         /\ Live(t)' <=> Live(t)
BY DEF SameSocket, BuiltAt, LiveAt, ClosingAt, At, Building, Live

\* A socket is made into k, by its own instance or as an end of it.
LEMMA UpdateView ==
  ASSUME Typed, OwnedInv, PairedInv, NEW s \in Socket, NEW k \in Closure, Update(s, k),
         k.at = sock[s].at, k.stage # "free", sock[s].stage # "free",
         k.stage \in LiveStages => k.creds # None
  PROVE  /\ OwnedInv' /\ PairedInv'
         /\ \A j \in Instance :
              /\ \A t \in Socket \ {s} : SameSocket(t, j)
              /\ BuiltAt(s, j)' <=> At(s, j) /\ k.stage \in BuildStages
              /\ LiveAt(s, j)' <=> At(s, j) /\ k.stage \in LiveStages
              /\ ClosingAt(s, j)' <=> At(s, j) /\ k.closing # "no"
<1>1. /\ sock' \in [Socket -> Closure]
      /\ sock'[s] = Tidy(k) /\ \A t \in Socket \ {s} : sock'[t] = sock[t]
  BY UpdateEffect
<1>2. \A j \in Instance : \A t \in Socket \ {s} : SameSocket(t, j)
  BY <1>1, UnchangedSocket
<1>3. CASE k.stage # "gone"
  <2>1. sock'[s] = k
    BY <1>1, <1>3, TidyEffect
  <2>2. OwnedInv' /\ PairedInv'
    BY <1>1, <2>1 DEF OwnedInv, PairedInv, Live, LiveStages
  <2>3. \A j \in Instance : /\ BuiltAt(s, j)' <=> At(s, j) /\ k.stage \in BuildStages
                            /\ LiveAt(s, j)' <=> At(s, j) /\ k.stage \in LiveStages
                            /\ ClosingAt(s, j)' <=> At(s, j) /\ k.closing # "no"
    BY <2>1 DEF BuiltAt, LiveAt, ClosingAt, At, Building, Live, BuildStages, LiveStages
  <2> QED  BY <1>2, <2>2, <2>3
<1>4. CASE k.stage = "gone" /\ Tidy(k).stage = "gone"
  <2>1. sock'[s].stage = "gone" /\ sock'[s].at = k.at /\ sock'[s].closing = k.closing
    BY <1>1, <1>4, TidyEffect
  <2>2. OwnedInv' /\ PairedInv'
    BY <1>1, <2>1 DEF OwnedInv, PairedInv, Live
  <2>3. \A j \in Instance : /\ BuiltAt(s, j)' <=> At(s, j) /\ k.stage \in BuildStages
                            /\ LiveAt(s, j)' <=> At(s, j) /\ k.stage \in LiveStages
                            /\ ClosingAt(s, j)' <=> At(s, j) /\ k.closing # "no"
    BY <1>4, <2>1 DEF BuiltAt, LiveAt, ClosingAt, At, Building, Live, BuildStages, LiveStages
  <2> QED  BY <1>2, <2>2, <2>3
<1>5. CASE k.stage = "gone" /\ Tidy(k).stage # "gone"
  <2>1. sock'[s] = Free /\ k.closing = "no"
    BY <1>1, <1>5, TidyEffect
  <2>2. OwnedInv' /\ PairedInv'
    BY <1>1, <2>1 DEF OwnedInv, PairedInv, Live, Free
  <2>3. \A j \in Instance : /\ BuiltAt(s, j)' <=> At(s, j) /\ k.stage \in BuildStages
                            /\ LiveAt(s, j)' <=> At(s, j) /\ k.stage \in LiveStages
                            /\ ClosingAt(s, j)' <=> At(s, j) /\ k.closing # "no"
    BY <1>5, <2>1, SessionAssumption
       DEF BuiltAt, LiveAt, ClosingAt, At, Building, Live, BuildStages, LiveStages, Free
  <2> QED  BY <1>2, <2>2, <2>3
<1> QED  BY <1>3, <1>4, <1>5

\* A socket that stays what it was.
LEMMA SoftUpdate ==
  ASSUME Typed, OwnedInv, PairedInv, NEW s \in Socket, NEW k \in Closure, Update(s, k),
         k.at = sock[s].at, sock[s].stage # "free", k.stage # "free",
         k.closing = "no" <=> sock[s].closing = "no",
         k.stage \in BuildStages <=> sock[s].stage \in BuildStages,
         k.stage \in LiveStages <=> sock[s].stage \in LiveStages,
         k.stage \in LiveStages => k.creds # None
  PROVE  /\ OwnedInv' /\ PairedInv'
         /\ \A j \in Instance : SameSockets(j)
<1>1. /\ OwnedInv' /\ PairedInv'
      /\ \A j \in Instance :
              /\ \A t \in Socket \ {s} : SameSocket(t, j)
              /\ BuiltAt(s, j)' <=> At(s, j) /\ k.stage \in BuildStages
              /\ LiveAt(s, j)' <=> At(s, j) /\ k.stage \in LiveStages
              /\ ClosingAt(s, j)' <=> At(s, j) /\ k.closing # "no"
  BY UpdateView
<1>2. \A j \in Instance : SameSocket(s, j)
  BY <1>1 DEF SameSocket, BuiltAt, LiveAt, ClosingAt, Building, Live, BuildStages, LiveStages
<1> QED  BY <1>1, <1>2 DEF SameSockets

\* startSession makes a new socket out of a free one.
LEMMA BuildView ==
  ASSUME Typed, OwnedInv, PairedInv, NEW i \in Instance, NEW r \in Service, Build(i, r)
  PROVE  /\ OwnedInv' /\ PairedInv'
         /\ inst' = [inst EXCEPT ![i] = [r EXCEPT !.pending = TRUE]]
         /\ \E s \in Socket :
              /\ \A j \in Instance : \A t \in Socket \ {s} : SameSocket(t, j)
              /\ \A j \in Instance : ~BuiltAt(s, j) /\ ~LiveAt(s, j)
              /\ \A j \in Instance : ~LiveAt(s, j)' /\ ~ClosingAt(s, j)'
              /\ \A j \in Instance \ {i} : SameSocket(s, j)
<1>1. PICK s \in Socket, c \in {cache, None} :
        /\ sock[s] = Free
        /\ sock' = [sock EXCEPT ![s] =
             [Free EXCEPT !.at = i, !.creds = c,
                          !.stage = IF c = None THEN "db" ELSE "version"]]
        /\ inst' = [inst EXCEPT ![i] = [r EXCEPT !.pending = TRUE]]
  BY DEF Build
<1>2. \A t \in Socket \ {s} : sock'[t] = sock[t]
  BY <1>1, TypesAre
<1>3. /\ sock'[s].at = i /\ sock'[s].closing = "no"
      /\ sock'[s].stage \in {"db", "version"}
  BY <1>1, TypesAre DEF Free
<1>4. OwnedInv' /\ PairedInv'
  BY <1>2, <1>3 DEF OwnedInv, PairedInv, Live
<1>5. \A j \in Instance : ~BuiltAt(s, j) /\ ~LiveAt(s, j) /\ ~ClosingAt(s, j)
  BY <1>1 DEF BuiltAt, LiveAt, ClosingAt, Building, Live, Free
<1>6. /\ \A j \in Instance : ~LiveAt(s, j)' /\ ~ClosingAt(s, j)'
      /\ \A j \in Instance \ {i} : ~BuiltAt(s, j)'
  BY <1>3 DEF BuiltAt, LiveAt, ClosingAt, Building, Live, At
<1> QED  BY <1>1, <1>2, <1>4, <1>5, <1>6, UnchangedSocket DEF SameSocket

\* Nothing the invariant sees of j changes.
LEMMA Untouched ==
  ASSUME NEW j \in Instance, SameSockets(j), SameService(j)
  PROVE  /\ Points(j) => Points(j)'
         /\ Protected(j) /\ (KeyStays(j) \/ ~(inst[j].held \/ inst[j].won)) => Protected(j)'
<1>1. Points(j) => Points(j)'
  BY DEF Points, SameSockets, SameSocket, SameService
<1>2. Handling(j)' <=> Handling(j)
  BY DEF Handling, SameSockets, SameSocket, ClosingAt, At
<1>3. \A s \in Socket : Stands(s, j)' <=> Stands(s, j)
  BY DEF Stands, SameSockets, SameSocket, SameService
<1>4. OneStands(j) => OneStands(j)'
  BY DEF OneStands, SameSockets, SameSocket, SameService
<1>5. NothingStands(j) => NothingStands(j)'
  BY <1>2, <1>3 DEF NothingStands, SameService
<1>6. KeyHeld(j) /\ (KeyStays(j) \/ ~(inst[j].held \/ inst[j].won)) => KeyHeld(j)'
  BY DEF KeyHeld, KeyStays, SameService
<1> QED  BY <1>1, <1>4, <1>5, <1>6 DEF Protected

\* A step of instance i touches nobody else's protection.
LEMMA OneInstance ==
  ASSUME PointsInv, LockInv, NEW i \in Instance,
         \A j \in Instance \ {i} : SameSockets(j) /\ inst'[j] = inst[j],
         lockKey' = lockKey \/ lockKey = None \/ lockKey = i,
         raced \ {i} \subseteq raced',
         Points(i)', i \notin raced' => Protected(i)'
  PROVE  PointsInv' /\ LockInv'
<1>1. ASSUME NEW j \in Instance \ {i}
      PROVE  Points(j)' /\ (j \notin raced' => Protected(j)')
  <2>1. SameSockets(j) /\ SameService(j)
    BY DEF SameService
  <2>2. Points(j)'
    BY <2>1, Untouched DEF PointsInv
  <2>3. ASSUME j \notin raced' PROVE Protected(j)'
    <3>1. Protected(j)
      BY <2>3 DEF LockInv
    <3>2. KeyStays(j) \/ ~(inst[j].held \/ inst[j].won)
      BY <3>1, SessionAssumption DEF Protected, KeyHeld, KeyStays
    <3> QED  BY <2>1, <3>1, <3>2, Untouched
  <2> QED  BY <2>2, <2>3
<1> QED  BY <1>1 DEF PointsInv, LockInv

LEMMA Silent ==
  ASSUME PointsInv, LockInv, \A j \in Instance : SameSockets(j) /\ SameService(j),
         lockKey' = lockKey, raced' = raced
  PROVE  PointsInv' /\ LockInv'
<1>1. \A j \in Instance : KeyStays(j)
  BY DEF KeyStays
<1>2. \A j \in Instance : Points(j)' /\ (j \notin raced' => Protected(j)')
  BY <1>1, Untouched DEF PointsInv, LockInv
<1> QED  BY <1>2 DEF PointsInv, LockInv

LEMMA SocketsUnchanged ==
  ASSUME OwnedInv, PairedInv, UNCHANGED sock
  PROVE  OwnedInv' /\ PairedInv' /\ \A j \in Instance : SameSockets(j)
<1>1. OwnedInv' /\ PairedInv'
  BY DEF OwnedInv, PairedInv, Live
<1> QED  BY <1>1, UnchangedSocket DEF SameSockets

----------------------------------------------------------------------------
(* Steps that change nothing the lock is about *)

LEMMA SilentSocketStep ==
  ASSUME SessionInv, NEW s \in Socket,
         \/ LoadDb(s) \/ FillCache(s) \/ Opened(s) \/ ShowQr(s) \/ OpenFlows(s)
         \/ SaveCache(s) \/ Save(s) \/ CloseStatus(s) \/ CloseFlows(s) \/ CloseDelete(s)
         \/ \E p \in Phone : Scan(s, p)
  PROVE  OwnedInv' /\ PairedInv' /\ PointsInv' /\ LockInv'
<1> USE DEF SessionInv
<1>a. sock[s] \in Closure /\ row \in Row
  BY TypesAre
<1>b. sock[s].stage = "free" => sock[s] = Free
  BY DEF OwnedInv
<1>c. sock[s].stage \in LiveStages => sock[s].creds # None
  BY DEF PairedInv, Live, LiveStages
<1> DEFINE Seen(k) ==
      /\ k \in Closure /\ k.at = sock[s].at
      /\ sock[s].stage # "free" /\ k.stage # "free"
      /\ k.closing = "no" <=> sock[s].closing = "no"
      /\ k.stage \in BuildStages <=> sock[s].stage \in BuildStages
      /\ k.stage \in LiveStages <=> sock[s].stage \in LiveStages
      /\ k.stage \in LiveStages => k.creds # None
<1>1. ASSUME NEW k, Seen(k), Update(s, k), UNCHANGED <<inst, lockKey, raced>>
      PROVE  OwnedInv' /\ PairedInv' /\ PointsInv' /\ LockInv'
  <2>1. OwnedInv' /\ PairedInv' /\ \A j \in Instance : SameSockets(j)
    BY <1>1, SoftUpdate
  <2> QED  BY <1>1, <2>1, Silent DEF SameService
<1>2. CASE LoadDb(s)
  <2>1. Seen([sock[s] EXCEPT !.stage = IF row = NoRow THEN "version" ELSE "fill",
                             !.creds = row.creds])
    <3>1. [sock[s] EXCEPT !.stage = IF row = NoRow THEN "version" ELSE "fill",
                          !.creds = row.creds] \in Closure
      BY <1>a, StageType, CredsType DEF Row
    <3> QED  BY <1>2, <1>a, <3>1 DEF LoadDb, Closure, BuildStages, LiveStages
  <2> QED  BY <1>1, <1>2, <2>1 DEF LoadDb, redis, history
<1>3. CASE FillCache(s)
  <2>1. Seen([sock[s] EXCEPT !.stage = "version"])
    BY <1>3, <1>a, StageType DEF FillCache, Closure, BuildStages, LiveStages
  <2> QED  BY <1>1, <1>3, <2>1 DEF FillCache, history
<1>4. CASE OpenFlows(s)
  <2>1. Seen([sock[s] EXCEPT !.opening = "no"])
    BY <1>4, <1>a, <1>b, <1>c DEF OpenFlows, Closure, Free
  <2> QED  BY <1>1, <1>4, <2>1 DEF OpenFlows, redis, history
<1>5. CASE SaveCache(s)
  <2>1. Seen([sock[s] EXCEPT !.saving = "no"])
    BY <1>5, <1>a, <1>b, <1>c DEF SaveCache, Closure, Free
  <2> QED  BY <1>1, <1>5, <2>1 DEF SaveCache
<1>6. CASE Save(s)
  <2>1. Seen([sock[s] EXCEPT !.saving = "cache"])
    BY <1>6, <1>a, <1>b, <1>c DEF Save, Closure
  <2> QED  BY <1>1, <1>6, <2>1 DEF Save, redis, history
<1>7. CASE CloseStatus(s)
  <2>1. Seen([sock[s] EXCEPT !.closing = "flows"])
    BY <1>7, <1>a, <1>b, <1>c DEF CloseStatus, Closure, Free
  <2> QED  BY <1>1, <1>7, <2>1 DEF CloseStatus, redis, history
<1>8. CASE CloseDelete(s)
  <2>1. Seen([sock[s] EXCEPT !.closing = "cache"])
    BY <1>8, <1>a, <1>b, <1>c DEF CloseDelete, Closure, Free
  <2> QED  BY <1>1, <1>8, <2>1 DEF CloseDelete, redis, history
<1>9. ASSUME NEW p \in Phone, Scan(s, p)
      PROVE  OwnedInv' /\ PairedInv' /\ PointsInv' /\ LockInv'
  <2>1. Seen([sock[s] EXCEPT !.stage = "kicked", !.reason = "restart", !.saving = "cache"])
    BY <1>9, <1>a, <1>c DEF Scan, Closure, BuildStages, LiveStages
  <2> QED  BY <1>1, <1>9, <2>1 DEF Scan, redis, history
<1>10. CASE ShowQr(s)
  <2>1. OwnedInv' /\ PairedInv' /\ \A j \in Instance : SameSockets(j)
    BY <1>10, SocketsUnchanged DEF ShowQr, process
  <2> QED  BY <1>10, <2>1, Silent DEF ShowQr, process, redis, history, SameService
<1>11. CASE Opened(s)
  <2>1. ASSUME NEW t \in Socket
        PROVE  /\ sock'[t].at = sock[t].at /\ sock'[t].closing = sock[t].closing
               /\ sock'[t].creds = sock[t].creds
               /\ sock'[t] = sock[t] \/ {sock'[t].stage, sock[t].stage} \subseteq LiveStages
    <3>1. sock[t] \in Closure
      BY TypesAre
    <3> QED  BY <1>11, <3>1 DEF Opened, Closure, LiveStages
  <2>2. \A t \in Socket : \A j \in Instance : SameSocket(t, j)
    BY <2>1 DEF SameSocket, BuiltAt, LiveAt, ClosingAt, At, Building, Live, LiveStages
  <2>3. OwnedInv' /\ PairedInv'
    BY <2>1 DEF OwnedInv, PairedInv, Live, LiveStages
  <2> QED  BY <1>11, <2>2, <2>3, Silent DEF Opened, redis, history, SameService, SameSockets
<1>12. CASE CloseFlows(s)
  <2>1. Seen([sock[s] EXCEPT !.closing = "decide"])
    BY <1>12, <1>a, <1>b, <1>c DEF CloseFlows, Closure, Free
  <2> QED  BY <1>1, <1>12, <2>1 DEF CloseFlows, redis, history
<1> QED  BY <1>2, <1>3, <1>4, <1>5, <1>6, <1>7, <1>8, <1>9, <1>10, <1>11, <1>12

LEMMA SilentInstanceStep ==
  ASSUME SessionInv, NEW i \in Instance,
         \/ StartSameNumber(i) \/ ResetRow(i) \/ ResetCache(i) \/ ResetFlows(i)
         \/ BecomeLeader(i) \/ StopMark(i) \/ AcquireFails(i)
  PROVE  OwnedInv' /\ PairedInv' /\ PointsInv' /\ LockInv'
<1> USE DEF SessionInv
<1>a. inst \in [Instance -> Service] /\ inst[i] \in Service
  BY TypesAre
<1>b. UNCHANGED sock /\ lockKey' = lockKey /\ raced' = raced
  BY DEF StartSameNumber, ResetRow, ResetCache, ResetFlows, BecomeLeader, StopMark,
         AcquireFails, ResetGoesTo, process, redis, history
<1>1. OwnedInv' /\ PairedInv' /\ \A j \in Instance : SameSockets(j)
  BY <1>b, SocketsUnchanged
<1>2. CASE StartSameNumber(i)
  BY <1>1, <1>2, <1>b, Silent DEF StartSameNumber, process, SameService
<1>3. CASE ResetRow(i) \/ ResetCache(i) \/ ResetFlows(i) \/ BecomeLeader(i) \/ StopMark(i)
  <2>1. inst[i].reset \in {"row", "cache", "flows"} => inst[i].old = None
    BY <1>a DEF PointsInv, Points
  <2>2. ASSUME NEW j \in Instance PROVE SameService(j)
    <3>1. CASE j = i
      BY <1>3, <1>a, <2>1, <3>1
         DEF ResetRow, ResetCache, ResetFlows, ResetGoesTo, BecomeLeader, StopMark, Service,
             SameService
    <3>2. CASE j # i
      BY <1>3, <1>a, <3>2
         DEF ResetRow, ResetCache, ResetFlows, ResetGoesTo, BecomeLeader, StopMark,
             SameService
    <3> QED  BY <3>1, <3>2
  <2> QED  BY <1>1, <1>b, <2>2, Silent
<1>4. CASE AcquireFails(i)
  <2>1. /\ inst'[i] = [inst[i] EXCEPT !.won = FALSE]
        /\ \A j \in Instance \ {i} : inst'[j] = inst[j]
    BY <1>4, <1>a DEF AcquireFails
  <2>2. /\ inst'[i].session = inst[i].session /\ inst'[i].pending = inst[i].pending
        /\ inst'[i].held = inst[i].held /\ inst'[i].won = FALSE
        /\ inst'[i].old = inst[i].old /\ inst'[i].reset = inst[i].reset
    BY <1>a, <2>1 DEF Service
  <2>3. Points(i)'
    BY <1>1, <2>2 DEF PointsInv, Points, SameSockets, SameSocket
  <2>4. ASSUME i \notin raced' PROVE Protected(i)'
    <3>1. Protected(i)
      BY <1>b, <2>4 DEF LockInv
    <3>2. KeyHeld(i)'
      BY <1>b, <2>2, <3>1 DEF Protected, KeyHeld
    <3>3. OneStands(i)'
      BY <1>1, <2>2, <3>1 DEF Protected, OneStands, SameSockets, SameSocket
    <3>4. NothingStands(i)'
      BY <1>1, <2>2, <3>1 DEF Protected, NothingStands, Handling, Stands, ClosingAt, At,
                              SameSockets, SameSocket
    <3> QED  BY <3>2, <3>3, <3>4 DEF Protected
  <2> QED  BY <1>1, <1>b, <2>1, <2>3, <2>4, OneInstance
<1> QED  BY <1>2, <1>3, <1>4

----------------------------------------------------------------------------
(* startSession *)

\* What the lock guards, of the record r that the caller of startSession leaves.
SameRecord(i, r) ==
  /\ r.session = inst[i].session /\ r.pending = inst[i].pending
  /\ r.held = inst[i].held /\ r.won = inst[i].won /\ r.old = inst[i].old
  /\ r.reset = inst[i].reset \/ inst[i].old = None
  /\ inst[i].reset = "no" => r.reset = "no"

LEMMA StartStep ==
  ASSUME SessionInv, NEW i \in Instance, NEW r \in Service, SameRecord(i, r), Start(i, r),
         r.session = None \/ i \in raced'
  PROVE  OwnedInv' /\ PairedInv' /\ PointsInv' /\ LockInv'
<1> USE DEF SessionInv
<1>a. inst \in [Instance -> Service]
  BY TypesAre
<1>b. /\ raced \subseteq raced'
      /\ i \notin raced' => ~Handling(i) /\ r.session = None /\ r.reset = "no"
  BY DEF Start, Resetting
<1>c. Points(i) /\ (i \notin raced' => Protected(i))
  BY <1>b DEF PointsInv, LockInv
<1>1. CASE r.pending \/ (~r.held /\ lockKey # None)
  <2>1. inst' = [inst EXCEPT ![i] = r] /\ UNCHANGED <<sock, lockKey>>
    BY <1>1 DEF Start
  <2>2. /\ OwnedInv' /\ PairedInv' /\ \A j \in Instance : SameSockets(j)
    BY <2>1, SocketsUnchanged
  <2>3. SameService(i) /\ \A j \in Instance \ {i} : inst'[j] = inst[j]
    BY <1>a, <2>1 DEF SameService, SameRecord
  <2>4. KeyStays(i)
    BY <2>1 DEF KeyStays
  <2>5. Points(i)' /\ (i \notin raced' => Protected(i)')
    BY <1>c, <2>2, <2>3, <2>4, Untouched
  <2> QED  BY <1>b, <2>1, <2>2, <2>3, <2>5, OneInstance
<1>2. CASE ~(r.pending \/ (~r.held /\ lockKey # None)) /\ ~r.held
  <2>1. /\ inst' = [inst EXCEPT ![i] = [r EXCEPT !.won = TRUE]] /\ lockKey' = i
        /\ UNCHANGED sock /\ lockKey = None
    BY <1>2 DEF Start
  <2>2. OwnedInv' /\ PairedInv' /\ \A j \in Instance : SameSockets(j)
    BY <2>1, SocketsUnchanged
  <2>3. /\ inst'[i].session = inst[i].session /\ inst'[i].pending = inst[i].pending
        /\ inst'[i].held = FALSE /\ inst[i].held = FALSE /\ inst'[i].won = TRUE
        /\ inst'[i].old = inst[i].old /\ inst'[i].reset = r.reset
        /\ inst'[i].reset = inst[i].reset \/ inst[i].old = None
    BY <1>a, <1>2, <2>1 DEF SameRecord, Service
  <2>4. Points(i)'
    BY <1>c, <2>2, <2>3 DEF Points, SameSockets, SameSocket
  <2>5. ASSUME i \notin raced' PROVE Protected(i)'
    <3>1. \A s \in Socket : ~BuiltAt(s, i) /\ (LiveAt(s, i) => inst[i].old = s)
      BY <1>c, <2>3, <2>5 DEF Protected, OneStands
    <3>2. \A s \in Socket : ~BuiltAt(s, i)' /\ (LiveAt(s, i)' => inst'[i].old = s)
      BY <2>2, <2>3, <3>1 DEF SameSockets, SameSocket
    <3>3. ~Handling(i)'
      BY <1>b, <2>2, <2>5 DEF Handling, SameSockets, SameSocket, ClosingAt, At
    <3>4. inst'[i].reset = "no"
      BY <1>b, <2>3, <2>5
    <3> QED  BY <2>1, <2>3, <3>2, <3>3, <3>4 DEF Protected, KeyHeld, OneStands, NothingStands, Stands
  <2>6. \A j \in Instance \ {i} : inst'[j] = inst[j]
    BY <1>a, <2>1
  <2> QED  BY <1>b, <2>1, <2>2, <2>4, <2>5, <2>6, OneInstance
<1>3. CASE ~(r.pending \/ (~r.held /\ lockKey # None)) /\ r.held
  <2>1. Build(i, r) /\ lockKey' = lockKey /\ ~r.pending
    BY <1>3 DEF Start
  <2>2. OwnedInv' /\ PairedInv' /\ inst' = [inst EXCEPT ![i] = [r EXCEPT !.pending = TRUE]]
    BY <2>1, BuildView
  <2>3. PICK s \in Socket :
           /\ \A j \in Instance : \A t \in Socket \ {s} : SameSocket(t, j)
           /\ \A j \in Instance : ~BuiltAt(s, j) /\ ~LiveAt(s, j)
           /\ \A j \in Instance : ~LiveAt(s, j)' /\ ~ClosingAt(s, j)'
           /\ \A j \in Instance \ {i} : SameSocket(s, j)
    BY <2>1, BuildView
  <2>4. /\ inst'[i].session = inst[i].session /\ inst'[i].pending = TRUE
        /\ inst'[i].held = TRUE /\ inst[i].held = TRUE /\ inst'[i].won = inst[i].won
        /\ inst'[i].old = inst[i].old /\ ~inst[i].pending /\ inst'[i].reset = r.reset
        /\ inst'[i].reset = inst[i].reset \/ inst[i].old = None
    BY <1>a, <1>3, <2>2 DEF SameRecord, Service
  <2>5. Points(i)'
    BY <1>c, <2>3, <2>4 DEF Points, SameSocket
  <2>6. ASSUME i \notin raced' PROVE Protected(i)'
    <3>1. inst[i].session = None
      BY <1>b, <2>6 DEF SameRecord
    <3>2. \A t \in Socket : ~BuiltAt(t, i) /\ (LiveAt(t, i) => inst[i].old = t)
      BY <1>c, <2>4, <2>6, <3>1, SessionAssumption DEF Protected, OneStands
    <3>3. /\ \A t \in Socket \ {s} : ~BuiltAt(t, i)' /\ (LiveAt(t, i)' => inst'[i].old = t)
          /\ ~LiveAt(s, i)'
      BY <2>3, <2>4, <3>2 DEF SameSocket
    <3>4. ~Handling(i)'
      BY <1>b, <2>3, <2>6 DEF Handling, SameSocket, ClosingAt, At
    <3>5. KeyHeld(i)' /\ ~inst'[i].won
      BY <1>c, <2>1, <2>4, <2>6 DEF Protected, KeyHeld
    <3>6. OneStands(i)'
      BY <2>4, <3>1, <3>3 DEF OneStands
    <3>7. inst'[i].reset = "no"
      BY <1>b, <2>4, <2>6
    <3> QED  BY <3>4, <3>5, <3>6, <3>7 DEF Protected, NothingStands
  <2>7. \A j \in Instance \ {i} : inst'[j] = inst[j] /\ SameSockets(j)
    BY <1>a, <2>2, <2>3 DEF SameSockets
  <2> QED  BY <1>b, <2>1, <2>2, <2>5, <2>6, <2>7, OneInstance
<1> QED  BY <1>1, <1>2, <1>3

LEMMA StartUnlessMappedStep ==
  ASSUME SessionInv, NEW i \in Instance, NEW r \in Service, SameRecord(i, r),
         StartUnlessMapped(i, r)
  PROVE  OwnedInv' /\ PairedInv' /\ PointsInv' /\ LockInv'
<1> USE DEF SessionInv
<1>1. CASE r.session # None
  <2>1. inst' = [inst EXCEPT ![i] = r] /\ UNCHANGED <<sock, lockKey, raced>>
    BY <1>1 DEF StartUnlessMapped, history
  <2>2. OwnedInv' /\ PairedInv' /\ \A j \in Instance : SameSockets(j)
    BY <2>1, SocketsUnchanged
  <2>3. \A j \in Instance : SameService(j)
    BY <2>1, TypesAre DEF SameService, SameRecord
  <2> QED  BY <2>1, <2>2, <2>3, Silent
<1>2. CASE r.session = None
  BY <1>2, StartStep DEF StartUnlessMapped
<1> QED  BY <1>1, <1>2

\* The callers of startSession.
LEMMA CallerStep ==
  ASSUME SessionInv, NEW i \in Instance,
         \/ Reconcile(i) \/ SendNeedsSession(i) \/ ReconnectTimer(i) \/ StartRequest(i)
         \/ BootStart(i) \/ ResetStart(i)
  PROVE  OwnedInv' /\ PairedInv' /\ PointsInv' /\ LockInv'
<1> USE DEF SessionInv
<1>a. inst \in [Instance -> Service] /\ inst[i] \in Service
  BY TypesAre
<1>b. SameRecord(i, inst[i])
  BY DEF SameRecord
<1>1. CASE Reconcile(i)
  BY <1>1, <1>a, <1>b, StartStep DEF Reconcile
<1>2. CASE SendNeedsSession(i)
  BY <1>2, <1>a, <1>b, StartStep DEF SendNeedsSession
<1>3. CASE ReconnectTimer(i)
  <2>1. /\ [inst[i] EXCEPT !.timers = @ - 1] \in Service
        /\ SameRecord(i, [inst[i] EXCEPT !.timers = @ - 1])
    BY <1>3, <1>a DEF ReconnectTimer, Service, SameRecord
  <2> QED  BY <1>3, <2>1, StartUnlessMappedStep DEF ReconnectTimer
<1>4. CASE StartRequest(i)
  BY <1>4, <1>a, <1>b, StartUnlessMappedStep DEF StartRequest
<1>5. CASE BootStart(i)
  <2>1. /\ [inst[i] EXCEPT !.boot = FALSE] \in Service
        /\ SameRecord(i, [inst[i] EXCEPT !.boot = FALSE])
    BY <1>a DEF Service, SameRecord
  <2>2. CASE row = NoRow
    <3>1. /\ inst' = [inst EXCEPT ![i] = [inst[i] EXCEPT !.boot = FALSE]]
          /\ UNCHANGED <<sock, lockKey, raced>>
      BY <1>5, <2>2 DEF BootStart, history
    <3>2. OwnedInv' /\ PairedInv' /\ \A j \in Instance : SameSockets(j)
      BY <3>1, SocketsUnchanged
    <3>3. \A j \in Instance : SameService(j)
      BY <1>a, <2>1, <3>1 DEF SameService, SameRecord
    <3> QED  BY <3>1, <3>2, <3>3, Silent
  <2>3. CASE row # NoRow
    BY <1>5, <2>1, <2>3, StartUnlessMappedStep DEF BootStart
  <2> QED  BY <2>2, <2>3
<1>6. CASE ResetStart(i)
  <2>1. inst[i].reset = "start" /\ inst[i].old = None
    BY <1>6 DEF ResetStart, PointsInv, Points
  <2>2. /\ [inst[i] EXCEPT !.reset = "no"] \in Service
        /\ SameRecord(i, [inst[i] EXCEPT !.reset = "no"])
    BY <1>a, <2>1 DEF Service, SameRecord
  <2>3. Start(i, [inst[i] EXCEPT !.reset = "no"])
    BY <1>6 DEF ResetStart
  <2>4. ASSUME i \notin raced' PROVE inst[i].session = None
    <3>1. i \notin raced
      BY <2>3, <2>4 DEF Start
    <3>2. \A s \in Socket : ~Stands(s, i)
      BY <2>1, <3>1 DEF LockInv, Protected, NothingStands
    <3>3. inst[i].session \in Socket \cup {None}
      BY <1>a DEF Service
    <3> QED  BY <3>2, <3>3 DEF PointsInv, Points, Stands
  <2>5. [inst[i] EXCEPT !.reset = "no"].session = inst[i].session
    BY <1>a DEF Service
  <2> QED  BY <2>2, <2>3, <2>4, <2>5, StartStep
<1> QED  BY <1>1, <1>2, <1>3, <1>4, <1>5, <1>6

\* The reply to SET NX: the only other step that begins to build a socket.
LEMMA AcquiredStep ==
  ASSUME SessionInv, NEW i \in Instance, Acquired(i)
  PROVE  OwnedInv' /\ PairedInv' /\ PointsInv' /\ LockInv'
<1> USE DEF SessionInv
<1>a. inst \in [Instance -> Service] /\ inst[i] \in Service
  BY TypesAre
<1>c. Points(i) /\ (i \notin raced => Protected(i))
  BY DEF PointsInv, LockInv
<1>1. [inst[i] EXCEPT !.won = FALSE, !.held = TRUE] \in Service
  BY <1>a DEF Service
<1>2. /\ OwnedInv' /\ PairedInv'
      /\ inst' = [inst EXCEPT ![i] =
                    [[inst[i] EXCEPT !.won = FALSE, !.held = TRUE] EXCEPT !.pending = TRUE]]
  BY <1>1, BuildView DEF Acquired
<1>3. PICK s \in Socket :
         /\ \A j \in Instance : \A t \in Socket \ {s} : SameSocket(t, j)
         /\ \A j \in Instance : ~BuiltAt(s, j) /\ ~LiveAt(s, j)
         /\ \A j \in Instance : ~LiveAt(s, j)' /\ ~ClosingAt(s, j)'
         /\ \A j \in Instance \ {i} : SameSocket(s, j)
  BY <1>1, BuildView DEF Acquired
<1>4. /\ inst'[i].session = inst[i].session /\ inst'[i].pending = TRUE
      /\ inst'[i].held = TRUE /\ inst[i].won = TRUE /\ inst'[i].won = FALSE
      /\ inst'[i].old = inst[i].old /\ inst'[i].reset = inst[i].reset
  BY <1>a, <1>2 DEF Service, Acquired
<1>5. lockKey' = lockKey /\ raced' = raced
  BY DEF Acquired, redis, history
<1>6. Points(i)'
  BY <1>c, <1>3, <1>4 DEF Points, SameSocket
<1>7. ASSUME i \notin raced' PROVE Protected(i)'
  <2>1. ~Handling(i) /\ inst[i].reset = "no" /\ \A t \in Socket : ~Stands(t, i)
    BY <1>c, <1>4, <1>5, <1>7 DEF Protected, NothingStands
  <2>2. inst[i].session = None
    <3>1. inst[i].session \in Socket \cup {None}
      BY <1>a DEF Service
    <3> QED  BY <1>c, <2>1, <3>1 DEF Points, Stands
  <2>3. /\ \A t \in Socket \ {s} : ~BuiltAt(t, i)' /\ (LiveAt(t, i)' => inst'[i].old = t)
        /\ ~LiveAt(s, i)'
    BY <1>3, <1>4, <2>1 DEF SameSocket, Stands
  <2>4. ~Handling(i)'
    BY <1>3, <2>1 DEF Handling, SameSocket, ClosingAt, At
  <2>5. KeyHeld(i)'
    BY <1>c, <1>4, <1>5, <1>7 DEF Protected, KeyHeld
  <2>6. OneStands(i)'
    BY <1>4, <2>2, <2>3 DEF OneStands
  <2> QED  BY <1>4, <2>1, <2>4, <2>5, <2>6 DEF Protected, NothingStands
<1>8. \A j \in Instance \ {i} : inst'[j] = inst[j] /\ SameSockets(j)
  BY <1>a, <1>2, <1>3 DEF SameSockets
<1> QED  BY <1>2, <1>5, <1>6, <1>7, <1>8, OneInstance

----------------------------------------------------------------------------
(* The socket enters the map, or the build fails *)

LEMMA MakeSocketStep ==
  ASSUME SessionInv, NEW s \in Socket, MakeSocket(s)
  PROVE  OwnedInv' /\ PairedInv' /\ PointsInv' /\ LockInv'
<1> USE DEF SessionInv
<1>a. /\ inst \in [Instance -> Service] /\ sock[s] \in Closure
      /\ sock[s].stage = "version" /\ sock[s].at \in Instance
  BY TypesAre DEF OwnedInv, MakeSocket
<1>1. PICK i \in Instance : i = sock[s].at
  BY <1>a
<1>2. PICK c \in Creds :
        Update(s, [sock[s] EXCEPT !.stage = "connecting", !.creds = c])
  BY <1>a DEF MakeSocket, NextCreds, Unused, Closure
<1>3. [sock[s] EXCEPT !.stage = "connecting", !.creds = c] \in Closure
  BY <1>a, StageType, CredsType
<1>4. /\ OwnedInv' /\ PairedInv'
      /\ \A j \in Instance :
           /\ \A t \in Socket \ {s} : SameSocket(t, j)
           /\ BuiltAt(s, j)' <=> At(s, j) /\ "connecting" \in BuildStages
           /\ LiveAt(s, j)' <=> At(s, j) /\ "connecting" \in LiveStages
           /\ ClosingAt(s, j)' <=> At(s, j) /\ sock[s].closing # "no"
  <2>1. PICK k \in Closure :
          k = [sock[s] EXCEPT !.stage = "connecting", !.creds = c]
    BY <1>3
  <2>2. /\ k.stage = "connecting" /\ k.creds = c /\ k.at = sock[s].at
        /\ k.closing = sock[s].closing
    BY <1>a, <2>1 DEF Closure
  <2>3. c # None
    BY SessionAssumption
  <2>4. /\ OwnedInv' /\ PairedInv'
        /\ \A j \in Instance :
             /\ \A t \in Socket \ {s} : SameSocket(t, j)
             /\ BuiltAt(s, j)' <=> At(s, j) /\ k.stage \in BuildStages
             /\ LiveAt(s, j)' <=> At(s, j) /\ k.stage \in LiveStages
             /\ ClosingAt(s, j)' <=> At(s, j) /\ k.closing # "no"
    <3>1. /\ Update(s, k) /\ k.stage # "free" /\ sock[s].stage # "free"
          /\ k.creds # None /\ k.at = sock[s].at
      BY <1>a, <1>2, <2>1, <2>2, <2>3
    <3> QED  BY <3>1, UpdateView
  <2> QED  BY <2>2, <2>4
<1>5. /\ \A j \in Instance \ {i} : SameSockets(j)
      /\ ~BuiltAt(s, i)' /\ LiveAt(s, i)' /\ BuiltAt(s, i) /\ ~LiveAt(s, i)
      /\ ClosingAt(s, i)' <=> ClosingAt(s, i)
  BY <1>a, <1>1, <1>4
     DEF SameSockets, SameSocket, BuiltAt, LiveAt, ClosingAt, At, Building, Live, BuildStages, LiveStages
<1>6. /\ inst'[i].session = s /\ inst'[i].pending = FALSE
      /\ inst'[i].held = inst[i].held /\ inst'[i].won = inst[i].won
      /\ inst'[i].old = inst[i].old /\ inst'[i].reset = inst[i].reset
      /\ \A j \in Instance \ {i} : inst'[j] = inst[j]
  <2>1. inst' = [inst EXCEPT ![i] = [inst[i] EXCEPT !.session = s, !.pending = FALSE]]
    BY <1>1 DEF MakeSocket
  <2> QED  BY <1>a, <2>1 DEF Service
<1>7. lockKey' = lockKey /\ raced' = raced
  BY DEF MakeSocket, redis, history
<1>8. Points(i)'
  <2>1. Points(i)
    BY DEF PointsInv
  <2> QED  BY <1>4, <1>5, <1>6, <2>1 DEF Points, SameSocket
<1>9. ASSUME i \notin raced' PROVE Protected(i)'
  <2>1. Protected(i)
    BY <1>7, <1>9 DEF LockInv
  <2>2. ~inst[i].won /\ ~Handling(i) /\ inst[i].reset = "no"
    BY <1>5, <2>1 DEF Protected, NothingStands, Stands
  <2>3. /\ inst[i].held /\ inst[i].session = None
        /\ \A t \in Socket \ {s} : ~BuiltAt(t, i) /\ (LiveAt(t, i) => inst[i].old = t)
    BY <1>5, <2>1, SessionAssumption DEF Protected, OneStands
  <2>4. \A t \in Socket \ {s} : ~BuiltAt(t, i)' /\ (LiveAt(t, i)' => inst'[i].old = t)
    BY <1>4, <1>6, <2>3 DEF SameSocket
  <2>5. ~Handling(i)'
    BY <1>4, <1>5, <2>2 DEF Handling, SameSocket, ClosingAt, At
  <2>6. KeyHeld(i)'
    BY <1>6, <1>7, <2>1 DEF Protected, KeyHeld
  <2>7. OneStands(i)'
    BY <1>5, <1>6, <2>3, <2>4 DEF OneStands
  <2> QED  BY <1>6, <2>2, <2>5, <2>6, <2>7 DEF Protected, NothingStands
<1> QED  BY <1>4, <1>5, <1>6, <1>7, <1>8, <1>9, OneInstance

LEMMA BuildFailsStep ==
  ASSUME SessionInv, NEW s \in Socket, BuildFails(s)
  PROVE  OwnedInv' /\ PairedInv' /\ PointsInv' /\ LockInv'
<1> USE DEF SessionInv
<1>a. /\ inst \in [Instance -> Service] /\ sock \in [Socket -> Closure]
      /\ Building(s) /\ sock[s].at \in Instance
  BY TypesAre DEF OwnedInv, BuildFails, Building
<1>1. PICK i \in Instance : i = sock[s].at
  BY <1>a
<1>2. /\ sock' = [sock EXCEPT ![s] = Free] /\ raced' = raced
      /\ inst' = [inst EXCEPT ![i] = [Released(inst[i]) EXCEPT !.pending = FALSE]]
      /\ lockKey' = KeyAfterRelease(i)
  BY <1>1 DEF BuildFails, history
<1>3. sock'[s] = Free /\ \A t \in Socket \ {s} : sock'[t] = sock[t]
  BY <1>a, <1>2
<1>4. OwnedInv' /\ PairedInv'
  BY <1>3 DEF OwnedInv, PairedInv, Live, Free
<1>5. /\ \A j \in Instance : \A t \in Socket \ {s} : SameSocket(t, j)
      /\ \A j \in Instance : ~BuiltAt(s, j)' /\ ~LiveAt(s, j)' /\ ~ClosingAt(s, j)'
      /\ BuiltAt(s, i)
      /\ \A j \in Instance : ~LiveAt(s, j)
      /\ \A j \in Instance \ {i} : ~At(s, j)
  <2>1. \A j \in Instance : \A t \in Socket \ {s} : SameSocket(t, j)
    BY <1>3, UnchangedSocket
  <2>2. \A j \in Instance : ~BuiltAt(s, j)' /\ ~LiveAt(s, j)' /\ ~ClosingAt(s, j)'
    BY <1>3 DEF BuiltAt, LiveAt, ClosingAt, Building, Live, Free
  <2> QED  BY <1>a, <1>1, <2>1, <2>2 DEF BuiltAt, LiveAt, Building, Live, At
<1>6. \A j \in Instance \ {i} : SameSockets(j) /\ inst'[j] = inst[j]
  BY <1>a, <1>2, <1>5 DEF SameSockets, SameSocket, BuiltAt, LiveAt, ClosingAt
<1>7. /\ inst'[i].session = inst[i].session /\ inst'[i].pending = FALSE
      /\ inst'[i].held = FALSE /\ inst'[i].won = inst[i].won
      /\ inst'[i].old = inst[i].old /\ inst'[i].reset = inst[i].reset
  BY <1>a, <1>2 DEF Service, Released
<1>8. lockKey' = lockKey \/ lockKey = i
  BY <1>2 DEF KeyAfterRelease
<1>9. Points(i)'
  <2>1. Points(i)
    BY DEF PointsInv
  <2> QED  BY <1>5, <1>7, <2>1 DEF Points, SameSocket
<1>10. ASSUME i \notin raced' PROVE Protected(i)'
  <2>1. Protected(i)
    BY <1>2, <1>10 DEF LockInv
  <2>2. ~inst[i].won /\ ~Handling(i) /\ inst[i].reset = "no"
    BY <1>5, <2>1 DEF Protected, NothingStands, Stands
  <2>3. \A t \in Socket \ {s} : ~BuiltAt(t, i) /\ (LiveAt(t, i) => inst[i].old = t)
    BY <1>5, <2>1, SessionAssumption DEF Protected, OneStands
  <2>4. \A t \in Socket : ~BuiltAt(t, i)' /\ (LiveAt(t, i)' => inst'[i].old = t)
    BY <1>5, <1>7, <2>3 DEF SameSocket
  <2>5. ~inst'[i].won /\ ~inst'[i].held /\ inst'[i].reset = "no"
    BY <1>7, <2>2
  <2>6. ~Handling(i)'
    BY <1>5, <2>2 DEF Handling, SameSocket, ClosingAt, At
  <2> QED  BY <2>4, <2>5, <2>6 DEF Protected, KeyHeld, OneStands, NothingStands
<1> QED  BY <1>2, <1>4, <1>6, <1>8, <1>9, <1>10, OneInstance

----------------------------------------------------------------------------
(* The end of a socket and what its handler does *)

\* A live socket s of i ends: the view of the sockets afterwards.
Ends(s, i) ==
  /\ \A j \in Instance : \A t \in Socket \ {s} : SameSocket(t, j)
  /\ \A j \in Instance : ~BuiltAt(s, j)' /\ ~LiveAt(s, j)'
  /\ \A j \in Instance \ {i} : SameSocket(s, j)

LEMMA EndView ==
  ASSUME Typed, OwnedInv, PairedInv, NEW s \in Socket, Live(s), NEW k \in Closure,
         Update(s, k), k.at = sock[s].at, k.stage = "gone"
  PROVE  /\ OwnedInv' /\ PairedInv' /\ sock[s].at \in Instance /\ Ends(s, sock[s].at)
         /\ \A j \in Instance : ClosingAt(s, j)' <=> At(s, j) /\ k.closing # "no"
<1>1. sock[s].stage # "free" /\ sock[s].at \in Instance
  BY DEF Live, OwnedInv
<1>2. /\ OwnedInv' /\ PairedInv'
      /\ \A j \in Instance :
           /\ \A t \in Socket \ {s} : SameSocket(t, j)
           /\ BuiltAt(s, j)' <=> At(s, j) /\ k.stage \in BuildStages
           /\ LiveAt(s, j)' <=> At(s, j) /\ k.stage \in LiveStages
           /\ ClosingAt(s, j)' <=> At(s, j) /\ k.closing # "no"
  BY <1>1, UpdateView DEF LiveStages
<1>3. \A j \in Instance \ {sock[s].at} : SameSocket(s, j)
  BY <1>2 DEF SameSocket, BuiltAt, LiveAt, ClosingAt, At
<1> QED  BY <1>1, <1>2, <1>3 DEF Ends, BuildStages, LiveStages

\* The session of i ends and leaves the map, with a handler at work or none.
LEMMA SessionEnds ==
  ASSUME SessionInv, NEW i \in Instance, NEW s \in Socket, inst[i].session = s,
         Ends(s, i), OwnedInv', PairedInv',
         NEW r \in Service, inst' = [inst EXCEPT ![i] = r],
         r.session = None, r.won = inst[i].won, r.old = inst[i].old,
         r.reset = inst[i].reset,
         i \notin raced' /\ r.held => inst[i].held /\ lockKey' = lockKey,
         lockKey' = lockKey \/ lockKey = i, raced \subseteq raced'
  PROVE  PointsInv' /\ LockInv'
<1> USE DEF SessionInv
<1>a. inst \in [Instance -> Service]
  BY TypesAre
<1>1. Points(i) /\ (i \notin raced' => Protected(i))
  BY DEF PointsInv, LockInv
<1>2. inst'[i] = r /\ \A j \in Instance \ {i} : inst'[j] = inst[j] /\ SameSockets(j)
  BY <1>a DEF Ends, SameSockets
<1>3. None \notin Socket /\ LiveAt(s, i) /\ inst[i].old # s
  BY <1>1, SessionAssumption DEF Points
<1>4. Points(i)'
  BY <1>1, <1>2, <1>3 DEF Points, Ends, SameSocket
<1>5. ASSUME i \notin raced' PROVE Protected(i)'
  <2>1. ~inst[i].won
    BY <1>1, <1>3, <1>5 DEF Protected, NothingStands, Stands
  <2>2. \A t \in Socket \ {s} : ~BuiltAt(t, i) /\ (LiveAt(t, i) => inst[i].old = t)
    BY <1>1, <1>3, <1>5 DEF Protected, OneStands
  <2>3. \A t \in Socket : ~BuiltAt(t, i)' /\ (LiveAt(t, i)' => inst'[i].old = t)
    BY <1>2, <2>2 DEF Ends, SameSocket
  <2>4. KeyHeld(i)'
    BY <1>1, <1>2, <1>5, <2>1 DEF Protected, KeyHeld
  <2>5. ~inst'[i].won
    BY <1>2, <2>1
  <2> QED  BY <2>3, <2>4, <2>5 DEF Protected, OneStands, NothingStands, Stands
<1> QED  BY <1>2, <1>4, <1>5, OneInstance

\* The handler of connection=close, first step.
LEMMA ClosedStep ==
  ASSUME SessionInv, NEW s \in Socket, Live(s), ~InReset(s),
         NEW reason \in {"no", "restart", "replaced", "loggedOut", "drop"}, Closed(s, reason),
         UNCHANGED <<lockKey, raced>>
  PROVE  OwnedInv' /\ PairedInv' /\ PointsInv' /\ LockInv'
<1> USE DEF SessionInv
<1>a. /\ inst \in [Instance -> Service] /\ sock[s] \in Closure
      /\ row.phone \in Phone \cup {None}
  BY TypesAre DEF Row
<1>b. sock[s].at \in Instance
  BY DEF OwnedInv, Live
<1>1. PICK i \in Instance : i = sock[s].at
  BY <1>b
<1>2. CASE Mapped(s)
  <2>p. PICK p \in {row.phone, None} :
          Update(s, [sock[s] EXCEPT !.stage = "gone", !.closing = "status",
                                    !.reason = reason, !.prev = p])
    BY <1>2 DEF Closed
  <2>1. PICK k \in Closure :
          k = [sock[s] EXCEPT !.stage = "gone", !.closing = "status",
                              !.reason = reason, !.prev = p]
    BY <1>a, EndedType
  <2>2. k.stage = "gone" /\ k.at = sock[s].at
    BY <1>a, <2>1 DEF Closure
  <2>3. Update(s, k) /\ inst' = [inst EXCEPT ![i] = [inst[i] EXCEPT !.session = None]]
    BY <1>1, <1>2, <2>p, <2>1 DEF Closed
  <2>4. OwnedInv' /\ PairedInv' /\ Ends(s, i)
    BY <1>1, <2>2, <2>3, EndView
  <2>5. PICK r \in Service : r = [inst[i] EXCEPT !.session = None]
    BY <1>a, SessionType
  <2>6. /\ r.session = None /\ r.won = inst[i].won /\ r.old = inst[i].old
        /\ r.reset = inst[i].reset /\ r.held = inst[i].held
    BY <1>a, <2>5 DEF Service
  <2>7. inst[i].session = s
    BY <1>1, <1>2 DEF Mapped
  <2> QED  BY <2>3, <2>4, <2>5, <2>6, <2>7, SessionEnds
<1>3. CASE ~Mapped(s)
  <2>1. PICK k \in Closure : k = [sock[s] EXCEPT !.stage = "gone"]
    BY <1>a, StageType
  <2>2. k.stage = "gone" /\ k.at = sock[s].at /\ k.closing = sock[s].closing
    BY <1>a, <2>1 DEF Closure
  <2>3. Update(s, k) /\ UNCHANGED inst
    BY <1>3, <2>1 DEF Closed
  <2>4. /\ OwnedInv' /\ PairedInv' /\ Ends(s, i)
        /\ \A j \in Instance : ClosingAt(s, j)' <=> ClosingAt(s, j)
    <3>1. /\ OwnedInv' /\ PairedInv' /\ Ends(s, sock[s].at)
          /\ \A j \in Instance : ClosingAt(s, j)' <=> At(s, j) /\ k.closing # "no"
      BY <2>2, <2>3, EndView
    <3>2. \A j \in Instance : ClosingAt(s, j) <=> At(s, j) /\ k.closing # "no"
      BY <2>2 DEF ClosingAt
    <3> QED  BY <1>1, <3>1, <3>2
  <2>5. inst[i].session # s /\ inst[i].old # s
    BY <1>1, <1>3 DEF Mapped, InReset
  <2>6. \A j \in Instance \ {i} : SameSockets(j) /\ inst'[j] = inst[j]
    BY <2>3, <2>4 DEF Ends, SameSockets
  <2>7. Points(i)'
    <3>1. Points(i)
      BY DEF PointsInv
    <3> QED  BY <2>3, <2>4, <2>5, <3>1 DEF Points, Ends, SameSocket
  <2>8. ASSUME i \notin raced' PROVE Protected(i)'
    <3>1. Protected(i)
      BY <2>8 DEF LockInv
    <3>2. Handling(i)' <=> Handling(i)
      BY <2>4 DEF Handling, Ends, SameSocket, ClosingAt, At
    <3>3. \A t \in Socket : Stands(t, i)' => Stands(t, i)
      BY <2>3, <2>4 DEF Stands, Ends, SameSocket
    <3>4. OneStands(i)'
      BY <2>3, <2>4, <3>1 DEF Protected, OneStands, Ends, SameSocket
    <3>5. NothingStands(i)' /\ KeyHeld(i)'
      BY <2>3, <3>1, <3>2, <3>3 DEF Protected, NothingStands, KeyHeld
    <3> QED  BY <3>4, <3>5 DEF Protected
  <2> QED  BY <2>4, <2>6, <2>7, <2>8, OneInstance
<1> QED  BY <1>2, <1>3

LEMMA EndSteps ==
  ASSUME SessionInv, NEW s \in Socket,
         QrExpires(s) \/ Refused(s) \/ Kicked(s) \/ Drop(s) \/ Unlink(s)
  PROVE  OwnedInv' /\ PairedInv' /\ PointsInv' /\ LockInv'
<1>1. Live(s) /\ ~InReset(s)
  BY DEF QrExpires, Refused, Kicked, Drop, Unlink, Live
<1>2. UNCHANGED <<lockKey, raced>>
  BY DEF QrExpires, Refused, Kicked, Drop, Unlink, redis
<1>3. sock[s].reason \in {"no", "restart", "replaced", "loggedOut", "drop"}
  <2>1. sock[s] \in Closure
    BY TypesAre DEF SessionInv
  <2> QED  BY <2>1 DEF Closure
<1>4. Closed(s, "drop") \/ Closed(s, "loggedOut") \/ Closed(s, sock[s].reason)
  BY DEF QrExpires, Refused, Kicked, Drop, Unlink
<1> QED  BY <1>1, <1>2, <1>3, <1>4, ClosedStep

\* The last steps of the close handler, which may release the lock.
LEMMA HandlerStep ==
  ASSUME SessionInv, NEW s \in Socket, CloseDecide(s) \/ CloseCache(s)
  PROVE  OwnedInv' /\ PairedInv' /\ PointsInv' /\ LockInv'
<1> USE DEF SessionInv
<1>a. inst \in [Instance -> Service] /\ sock[s] \in Closure /\ sock[s].closing # "no"
  BY TypesAre DEF CloseDecide, CloseCache
<1>b. sock[s].stage # "free" /\ sock[s].at \in Instance
  BY <1>a DEF OwnedInv, Free
<1>1. PICK i \in Instance : i = sock[s].at
  BY <1>b
<1>2. PICK h \in {"no", "delete"} : Update(s, [sock[s] EXCEPT !.closing = h])
  BY DEF CloseDecide, CloseCache
<1>3. PICK k \in Closure : k = [sock[s] EXCEPT !.closing = h]
  BY <1>a, ClosingType
<1>4. k.stage = sock[s].stage /\ k.at = sock[s].at /\ k.creds = sock[s].creds /\ k.closing = h
  BY <1>a, <1>3 DEF Closure
<1>5. /\ OwnedInv' /\ PairedInv'
      /\ \A j \in Instance :
           /\ \A t \in Socket \ {s} : SameSocket(t, j)
           /\ BuiltAt(s, j)' <=> BuiltAt(s, j)
           /\ LiveAt(s, j)' <=> LiveAt(s, j)
           /\ ClosingAt(s, j)' <=> At(s, j) /\ h # "no"
  <2>1. Update(s, k) /\ (k.stage \in LiveStages => k.creds # None)
    BY <1>2, <1>3, <1>4 DEF PairedInv, Live, LiveStages
  <2>2. /\ OwnedInv' /\ PairedInv'
        /\ \A j \in Instance :
             /\ \A t \in Socket \ {s} : SameSocket(t, j)
             /\ BuiltAt(s, j)' <=> At(s, j) /\ k.stage \in BuildStages
             /\ LiveAt(s, j)' <=> At(s, j) /\ k.stage \in LiveStages
             /\ ClosingAt(s, j)' <=> At(s, j) /\ k.closing # "no"
    BY <1>b, <1>4, <2>1, UpdateView
  <2> QED  BY <1>4, <2>2 DEF BuiltAt, LiveAt, Building, Live, BuildStages, LiveStages
<1>6. \A j \in Instance \ {i} : SameSockets(j)
  BY <1>1, <1>5 DEF SameSockets, SameSocket, ClosingAt, At
<1>7. /\ inst'[i].session = inst[i].session /\ inst'[i].pending = inst[i].pending
      /\ inst'[i].held => inst[i].held /\ lockKey' = lockKey
      /\ inst'[i].won = inst[i].won
      /\ inst'[i].old = inst[i].old /\ inst'[i].reset = inst[i].reset
      /\ \A j \in Instance \ {i} : inst'[j] = inst[j]
  <2>1. CASE UNCHANGED <<inst, lockKey>>
    BY <2>1
  <2>2. CASE inst' = [inst EXCEPT ![i].timers = @ + 1] /\ lockKey' = lockKey
    BY <1>a, <2>2 DEF Service
  <2>3. CASE inst' = [inst EXCEPT ![i] = Released(inst[i])]
    BY <1>a, <2>3 DEF Service, Released
  <2> QED  BY <1>1, <2>1, <2>2, <2>3 DEF CloseDecide, CloseCache
<1>8. /\ lockKey' = lockKey \/ lockKey = i
      /\ raced' = raced
  BY <1>1 DEF CloseDecide, CloseCache, KeyAfterRelease, history
<1>9. Points(i)'
  <2>1. Points(i)
    BY DEF PointsInv
  <2> QED  BY <1>5, <1>7, <2>1 DEF Points, SameSocket
<1>10. ASSUME i \notin raced' PROVE Protected(i)'
  <2>1. Protected(i)
    BY <1>8, <1>10 DEF LockInv
  <2>2. Handling(i)
    BY <1>a, <1>1 DEF Handling
  <2>3. ~inst'[i].won /\ \A t \in Socket : ~Stands(t, i)
    BY <1>7, <2>1, <2>2 DEF Protected, NothingStands
  <2>4. \A t \in Socket : ~BuiltAt(t, i)' /\ (LiveAt(t, i)' => inst'[i].old = t)
    BY <1>5, <1>7, <2>3 DEF Stands, SameSocket
  <2>5. KeyHeld(i)'
    BY <1>7, <2>1, <2>3 DEF Protected, KeyHeld
  <2> QED  BY <2>3, <2>4, <2>5 DEF Protected, OneStands, NothingStands, Stands
<1> QED  BY <1>5, <1>6, <1>7, <1>8, <1>9, <1>10, OneInstance

----------------------------------------------------------------------------
(* The user changes the number; the lock is lost; elections and crashes *)

LEMMA StartOtherNumberStep ==
  ASSUME SessionInv, NEW i \in Instance, StartOtherNumber(i)
  PROVE  OwnedInv' /\ PairedInv' /\ PointsInv' /\ LockInv'
<1> USE DEF SessionInv
<1>a. inst \in [Instance -> Service] /\ inst[i] \in Service
  BY TypesAre
<1>1. PICK s \in Socket : s = inst[i].session
  BY <1>a DEF StartOtherNumber, Service
<1>2. /\ UNCHANGED sock /\ raced' = raced /\ lockKey' = KeyAfterRelease(i)
      /\ inst[i].reset = "no"
  BY DEF StartOtherNumber, history
<1>3. OwnedInv' /\ PairedInv' /\ \A j \in Instance : SameSockets(j)
  BY <1>2, SocketsUnchanged
<1>4. /\ inst'[i].session = None /\ inst'[i].pending = inst[i].pending
      /\ inst'[i].held = FALSE /\ inst'[i].won = inst[i].won
      /\ inst'[i].old = s /\ inst'[i].reset = "logout"
      /\ \A j \in Instance \ {i} : inst'[j] = inst[j]
  BY <1>a, <1>1 DEF StartOtherNumber, Released, Service
<1>5. Points(i) /\ inst[i].old = None /\ LiveAt(s, i) /\ None \notin Socket
  BY <1>1, <1>2, SessionAssumption DEF PointsInv, Points
<1>6. Points(i)'
  BY <1>3, <1>4, <1>5 DEF Points, SameSockets, SameSocket
<1>7. ASSUME i \notin raced' PROVE Protected(i)'
  <2>1. Protected(i)
    BY <1>2, <1>7 DEF LockInv
  <2>2. ~inst[i].won
    BY <1>1, <1>5, <2>1 DEF Protected, NothingStands, Stands
  <2>3. \A t \in Socket : ~BuiltAt(t, i) /\ (LiveAt(t, i) => t = s)
    BY <1>1, <1>5, <2>1 DEF Protected, OneStands
  <2>4. \A t \in Socket : ~BuiltAt(t, i)' /\ (LiveAt(t, i)' => inst'[i].old = t)
    BY <1>3, <1>4, <2>3 DEF SameSockets, SameSocket
  <2>5. ~inst'[i].won /\ ~inst'[i].held
    BY <1>4, <2>2
  <2> QED  BY <2>4, <2>5 DEF Protected, KeyHeld, OneStands, NothingStands, Stands
<1>8. lockKey' = lockKey \/ lockKey = i
  BY <1>2 DEF KeyAfterRelease
<1> QED  BY <1>2, <1>3, <1>4, <1>6, <1>7, <1>8, OneInstance

LEMMA ResetLogoutStep ==
  ASSUME SessionInv, NEW i \in Instance, ResetLogout(i)
  PROVE  OwnedInv' /\ PairedInv' /\ PointsInv' /\ LockInv'
<1> USE DEF SessionInv
<1>a. /\ inst \in [Instance -> Service] /\ inst[i] \in Service
      /\ sock \in [Socket -> Closure] /\ None \notin Socket
  BY TypesAre, SessionAssumption
<1>b. lockKey' = lockKey /\ raced' = raced
  BY DEF ResetLogout, redis, history
<1>1. /\ inst'[i].session = inst[i].session /\ inst'[i].pending = inst[i].pending
      /\ inst'[i].held = inst[i].held /\ inst'[i].won = inst[i].won
      /\ inst'[i].old = None
      /\ \A j \in Instance \ {i} : inst'[j] = inst[j]
  <2>1. inst' = [inst EXCEPT ![i] = [inst[i] EXCEPT !.reset = "row", !.old = None]]
    BY DEF ResetLogout
  <2> QED  BY <1>a, <2>1 DEF Service
<1>2. /\ OwnedInv' /\ PairedInv'
      /\ \A j \in Instance : \A t \in Socket : inst[i].old # t => SameSocket(t, j)
      /\ \A t \in Socket : inst[i].old = t =>
           /\ ~BuiltAt(t, i)' /\ ~LiveAt(t, i)' /\ (ClosingAt(t, i)' <=> ClosingAt(t, i))
           /\ \A j \in Instance \ {i} : SameSocket(t, j)
  <2>1. CASE inst[i].old = None
    <3>1. UNCHANGED sock
      BY <1>a, <2>1 DEF ResetLogout, Update
    <3> QED  BY <1>a, <2>1, <3>1, SocketsUnchanged DEF SameSockets
  <2>2. CASE inst[i].old # None
    <3>1. PICK s \in Socket : s = inst[i].old
      BY <1>a, <2>2 DEF Service
    <3>2. At(s, i) /\ Live(s)
      BY <3>1 DEF PointsInv, Points, LiveAt
    <3>3. PICK k \in Closure : k = [sock[s] EXCEPT !.stage = "gone"]
      BY <1>a, StageType
    <3>4. k.stage = "gone" /\ k.at = sock[s].at /\ k.closing = sock[s].closing
      BY <1>a, <3>3 DEF Closure
    <3>5. Update(s, k)
      BY <3>1, <3>3 DEF ResetLogout
    <3>6. /\ OwnedInv' /\ PairedInv' /\ Ends(s, sock[s].at)
          /\ \A j \in Instance : ClosingAt(s, j)' <=> At(s, j) /\ k.closing # "no"
      BY <3>2, <3>4, <3>5, EndView
    <3>7. ClosingAt(s, i)' <=> ClosingAt(s, i)
      BY <3>4, <3>6 DEF ClosingAt
    <3> QED  BY <3>1, <3>2, <3>6, <3>7 DEF Ends, At
  <2> QED  BY <2>1, <2>2
<1>3. \A j \in Instance \ {i} : SameSockets(j)
  BY <1>2 DEF SameSockets
<1>4. Points(i)'
  <2>1. Points(i)
    BY DEF PointsInv
  <2> QED  BY <1>a, <1>1, <1>2, <2>1 DEF Points, SameSocket
<1>5. ASSUME i \notin raced' PROVE Protected(i)'
  <2>1. Protected(i)
    BY <1>b, <1>5 DEF LockInv
  <2>2. Handling(i)' <=> Handling(i)
    <3>1. \A t \in Socket : ClosingAt(t, i)' <=> ClosingAt(t, i)
      BY <1>2 DEF SameSocket
    <3> QED  BY <3>1 DEF Handling, ClosingAt, At
  <2>3. \A t \in Socket : /\ BuiltAt(t, i)' => BuiltAt(t, i)
                          /\ LiveAt(t, i)' => LiveAt(t, i) /\ inst[i].old # t
    BY <1>2 DEF SameSocket
  <2>4. OneStands(i)'
    BY <1>1, <2>1, <2>3 DEF Protected, OneStands
  <2>5. \A t \in Socket : Stands(t, i)' => Stands(t, i)
    BY <2>3 DEF Stands
  <2>6. NothingStands(i)' /\ KeyHeld(i)'
    <3>1. inst[i].reset = "logout"
      BY DEF ResetLogout
    <3>2. ~inst[i].won /\ \A t \in Socket : ~Stands(t, i)
      BY <2>1, <3>1 DEF Protected, NothingStands
    <3> QED  BY <1>1, <1>b, <2>1, <2>5, <3>2 DEF Protected, NothingStands, KeyHeld
  <2> QED  BY <2>4, <2>6 DEF Protected
<1> QED  BY <1>b, <1>1, <1>2, <1>3, <1>4, <1>5, OneInstance

LEMMA RenewFailsStep ==
  ASSUME SessionInv, NEW i \in Instance, RenewFails(i)
  PROVE  OwnedInv' /\ PairedInv' /\ PointsInv' /\ LockInv'
<1> USE DEF SessionInv
<1>a. /\ inst \in [Instance -> Service] /\ inst[i] \in Service
      /\ sock \in [Socket -> Closure]
  BY TypesAre
<1>b. inst[i].held /\ lockKey # i /\ lockKey' = lockKey /\ raced' = raced
  BY DEF RenewFails, redis
<1>1. i \in raced
  BY <1>b DEF LockInv, Protected, KeyHeld
<1>2. PICK r \in Service : r = [Released(inst[i]) EXCEPT !.session = None]
  BY <1>a, ReleasedType, SessionType
<1>3. /\ r.session = None /\ r.won = inst[i].won /\ r.old = inst[i].old
      /\ r.reset = inst[i].reset
      /\ inst' = [inst EXCEPT ![i] = r]
  BY <1>a, <1>2 DEF RenewFails, Released, Service
<1>4. CASE inst[i].session # None
  <2>1. PICK s \in Socket : s = inst[i].session
    BY <1>a, <1>4 DEF Service
  <2>2. At(s, i) /\ Live(s)
    BY <2>1 DEF PointsInv, Points, LiveAt
  <2>3. PICK k \in Closure : k = [sock[s] EXCEPT !.stage = "gone"]
    BY <1>a, StageType
  <2>4. k.stage = "gone" /\ k.at = sock[s].at
    BY <1>a, <2>3 DEF Closure
  <2>5. Update(s, k)
    BY <1>4, <2>1, <2>3 DEF RenewFails
  <2>6. OwnedInv' /\ PairedInv' /\ Ends(s, i)
    BY <2>2, <2>4, <2>5, EndView DEF At
  <2> QED  BY <1>b, <1>1, <1>3, <2>1, <2>6, SessionEnds
<1>5. CASE inst[i].session = None
  <2>1. UNCHANGED sock
    BY <1>5 DEF RenewFails
  <2>2. OwnedInv' /\ PairedInv' /\ \A j \in Instance : SameSockets(j)
    BY <2>1, SocketsUnchanged
  <2>3. Points(i)'
    <3>1. Points(i) /\ None \notin Socket /\ inst'[i] = r
      BY <1>a, <1>3, SessionAssumption DEF PointsInv
    <3> QED  BY <1>3, <2>2, <3>1 DEF Points, SameSockets, SameSocket
  <2>4. \A j \in Instance \ {i} : inst'[j] = inst[j]
    BY <1>a, <1>3
  <2> QED  BY <1>b, <1>1, <2>2, <2>3, <2>4, OneInstance
<1> QED  BY <1>4, <1>5

LEMMA StepDownStep ==
  ASSUME SessionInv, NEW i \in Instance, StepDown(i)
  PROVE  OwnedInv' /\ PairedInv' /\ PointsInv' /\ LockInv'
<1> USE DEF SessionInv
<1>a. /\ inst \in [Instance -> Service] /\ inst[i] \in Service
      /\ sock \in [Socket -> Closure] /\ row.phone \in Phone \cup {None}
      /\ None \notin Socket
  BY TypesAre, SessionAssumption DEF Row
<1>b. /\ lockKey' = KeyAfterRelease(i)
      /\ raced \subseteq raced'
      /\ i \notin raced' => i \notin raced /\ ~inst[i].won /\ ~MakingSocket(i)
  BY DEF StepDown
<1>c. lockKey' = lockKey \/ lockKey = i
  BY <1>b DEF KeyAfterRelease
<1>1. PICK r \in Service :
        r = [Released(inst[i]) EXCEPT !.leader = FALSE, !.session = None,
                                      !.pending = FALSE, !.stopping = TRUE]
  BY <1>a, StepDownType
<1>2. /\ r.session = None /\ r.won = inst[i].won /\ r.old = inst[i].old /\ ~r.held
      /\ r.reset = inst[i].reset
      /\ inst' = [inst EXCEPT ![i] = r]
  BY <1>a, <1>1 DEF StepDown, Released, Service
<1>3. CASE inst[i].session # None
  <2>1. PICK s \in Socket : s = inst[i].session
    BY <1>a, <1>3 DEF Service
  <2>2. At(s, i) /\ Live(s)
    BY <2>1 DEF PointsInv, Points, LiveAt
  <2>3. PICK h \in {"no", "status"}, p \in {row.phone, None} :
          Update(s, [sock[s] EXCEPT !.stage = "gone", !.closing = h, !.reason = "drop",
                                    !.prev = p])
    BY <1>3, <2>1 DEF StepDown
  <2>4. PICK k \in Closure :
          k = [sock[s] EXCEPT !.stage = "gone", !.closing = h, !.reason = "drop",
                              !.prev = p]
    BY <1>a, EndedType
  <2>5. k.stage = "gone" /\ k.at = sock[s].at
    BY <1>a, <2>4 DEF Closure
  <2>6. OwnedInv' /\ PairedInv' /\ Ends(s, i)
    BY <2>2, <2>3, <2>4, <2>5, EndView DEF At
  <2> QED  BY <1>b, <1>c, <1>2, <2>1, <2>6, SessionEnds
<1>4. CASE inst[i].session = None
  <2>1. UNCHANGED sock
    BY <1>4 DEF StepDown
  <2>2. OwnedInv' /\ PairedInv' /\ \A j \in Instance : SameSockets(j)
    BY <2>1, SocketsUnchanged
  <2>3. /\ inst'[i] = r /\ \A j \in Instance \ {i} : inst'[j] = inst[j]
    BY <1>a, <1>2
  <2>4. Points(i)'
    <3>1. Points(i)
      BY DEF PointsInv
    <3> QED  BY <1>a, <1>2, <2>2, <2>3, <3>1 DEF Points, SameSockets, SameSocket
  <2>5. ASSUME i \notin raced' PROVE Protected(i)'
    <3>1. Protected(i) /\ ~inst[i].won
      BY <1>b, <2>5 DEF LockInv
    <3>2. \A t \in Socket : ~BuiltAt(t, i) /\ (LiveAt(t, i) => inst[i].old = t)
      BY <1>a, <1>b, <1>4, <2>5, <3>1
         DEF Protected, OneStands, MakingSocket, BuiltAt, At
    <3>3. \A t \in Socket : ~BuiltAt(t, i)' /\ (LiveAt(t, i)' => inst'[i].old = t)
      BY <1>2, <2>2, <2>3, <3>2 DEF SameSockets, SameSocket
    <3>4. ~inst'[i].won /\ ~inst'[i].held
      BY <1>2, <2>3, <3>1
    <3> QED  BY <3>3, <3>4 DEF Protected, KeyHeld, OneStands, NothingStands, Stands
  <2> QED  BY <1>b, <1>c, <2>2, <2>3, <2>4, <2>5, OneInstance
<1> QED  BY <1>3, <1>4

LEMMA CrashStep ==
  ASSUME SessionInv, NEW i \in Instance, Crash(i)
  PROVE  OwnedInv' /\ PairedInv' /\ PointsInv' /\ LockInv'
<1> USE DEF SessionInv
<1>a. inst \in [Instance -> Service] /\ sock \in [Socket -> Closure] /\ None \notin Socket
  BY TypesAre, SessionAssumption
<1>1. /\ \A s \in Socket : sock'[s] = IF sock[s].at = i THEN Free ELSE sock[s]
      /\ lockKey' = lockKey /\ raced' = raced \ {i}
      /\ inst'[i] = Idle /\ \A j \in Instance \ {i} : inst'[j] = inst[j]
  BY <1>a DEF Crash, redis
<1>2. OwnedInv' /\ PairedInv'
  BY <1>1 DEF OwnedInv, PairedInv, Live, Free
<1>3. \A j \in Instance \ {i} : SameSockets(j)
  <2>1. ASSUME NEW j \in Instance \ {i}, NEW t \in Socket PROVE SameSocket(t, j)
    <3>1. CASE sock[t].at = i
      BY <1>1, <3>1 DEF SameSocket, BuiltAt, LiveAt, ClosingAt, At, Building, Live, Free
    <3>2. CASE sock[t].at # i
      BY <1>1, <3>2, UnchangedSocket
    <3> QED  BY <3>1, <3>2
  <2> QED  BY <2>1 DEF SameSockets
<1>4. \A t \in Socket : ~BuiltAt(t, i)' /\ ~LiveAt(t, i)' /\ ~ClosingAt(t, i)'
  BY <1>1, SessionAssumption DEF BuiltAt, LiveAt, ClosingAt, At, Free
<1>5. Points(i)'
  BY <1>a, <1>1 DEF Points, Idle
<1>6. Protected(i)'
  <2>1. ~inst'[i].held /\ ~inst'[i].won
    BY <1>1 DEF Idle
  <2> QED  BY <1>4, <2>1 DEF Protected, KeyHeld, OneStands, NothingStands, Stands
<1> QED  BY <1>1, <1>2, <1>3, <1>5, <1>6, OneInstance

LEMMA ExpireStep ==
  ASSUME SessionInv, Expire
  PROVE  OwnedInv' /\ PairedInv' /\ PointsInv' /\ LockInv'
<1> USE DEF SessionInv
<1>1. PICK i \in Instance : i = lockKey
  BY TypesAre DEF Expire
<1>2. /\ UNCHANGED <<inst, sock>> /\ raced \subseteq raced'
      /\ i \notin raced' => ~inst[i].held /\ ~inst[i].won
  BY <1>1 DEF Expire, process, history
<1>3. OwnedInv' /\ PairedInv' /\ \A j \in Instance : SameSockets(j) /\ SameService(j)
  BY <1>2, SocketsUnchanged DEF SameService
<1>4. Points(i)' /\ (i \notin raced' => Protected(i)')
  <2>1. Points(i) /\ (i \notin raced' => Protected(i))
    BY <1>2 DEF PointsInv, LockInv
  <2> QED  BY <1>2, <1>3, <2>1, Untouched
<1> QED  BY <1>1, <1>2, <1>3, <1>4, OneInstance

----------------------------------------------------------------------------
(* The invariant is inductive *)

LEMMA SessionInit == ASSUME Init PROVE SessionInv
<1>1. Typed
  BY InitTypes
<1>2. \A s \in Socket : sock[s] = Free
  BY DEF Init
<1>3. \A i \in Instance :
        /\ inst[i].session = None /\ inst[i].old = None
        /\ ~inst[i].held /\ ~inst[i].won
  BY DEF Init, Idle
<1>4. OwnedInv /\ PairedInv
  BY <1>2 DEF OwnedInv, PairedInv, Live, Free
<1>5. \A s \in Socket : \A i \in Instance : ~BuiltAt(s, i) /\ ~LiveAt(s, i)
  BY <1>2 DEF BuiltAt, LiveAt, Building, Live, Free
<1>6. PointsInv
  BY <1>3, SessionAssumption DEF PointsInv, Points
<1>7. LockInv
  BY <1>3, <1>5 DEF LockInv, Protected, KeyHeld, OneStands, NothingStands, Stands
<1> QED  BY <1>1, <1>4, <1>6, <1>7 DEF SessionInv

LEMMA SessionStutter == ASSUME SessionInv, UNCHANGED vars PROVE SessionInv'
<1> USE DEF SessionInv
<1>1. /\ UNCHANGED <<inst, sock, lockKey, cache, row, active, phoneOf, linked>>
      /\ UNCHANGED <<events, raced, blurred>>
  BY DEF vars, process, redis, database, whatsapp, history
<1>2. Typed'
  BY <1>1, TypesByPart DEF Processes, History, Stores, Key
<1>3. OwnedInv' /\ PairedInv' /\ \A j \in Instance : SameSockets(j)
  BY <1>1, SocketsUnchanged
<1>4. PointsInv' /\ LockInv'
  BY <1>1, <1>3, Silent DEF SameService
<1> QED  BY <1>2, <1>3, <1>4

LEMMA SessionNext == ASSUME SessionInv, Next PROVE SessionInv'
<1>1. Typed /\ PairedInv
  BY DEF SessionInv
<1>2. CASE \E s \in Socket : \/ SocketStep(s)
                             \/ BuildFails(s) \/ Save(s) \/ Drop(s) \/ Unlink(s)
                             \/ \E p \in Phone : Scan(s, p)
  <2>1. PICK s \in Socket : \/ SocketStep(s)
                            \/ BuildFails(s) \/ Save(s) \/ Drop(s) \/ Unlink(s)
                            \/ \E p \in Phone : Scan(s, p)
    BY <1>2
  <2>2. CASE \/ LoadDb(s) \/ FillCache(s) \/ Opened(s) \/ ShowQr(s) \/ OpenFlows(s)
             \/ SaveCache(s) \/ Save(s) \/ \E p \in Phone : Scan(s, p)
    BY <1>1, <2>2, SocketStepTypes, SilentSocketStep DEF SessionInv
  <2>3. CASE CloseStatus(s) \/ CloseFlows(s) \/ CloseDelete(s)
    BY <1>1, <2>3, CloseStepTypes, SilentSocketStep DEF SessionInv
  <2>4. CASE MakeSocket(s)
    BY <1>1, <2>4, SocketStepTypes, MakeSocketStep DEF SessionInv
  <2>5. CASE BuildFails(s)
    BY <1>1, <2>5, SocketStepTypes, BuildFailsStep DEF SessionInv
  <2>6. CASE QrExpires(s) \/ Refused(s) \/ Kicked(s) \/ Drop(s) \/ Unlink(s)
    BY <1>1, <2>6, CloseStepTypes, EndSteps DEF SessionInv
  <2>7. CASE CloseDecide(s) \/ CloseCache(s)
    BY <1>1, <2>7, CloseStepTypes, HandlerStep DEF SessionInv
  <2> QED  BY <2>1, <2>2, <2>3, <2>4, <2>5, <2>6, <2>7 DEF SocketStep
<1>3. CASE \E i \in Instance :
             \/ InstanceStep(i)
             \/ AcquireFails(i) \/ SendNeedsSession(i) \/ StartRequest(i)
             \/ StartSameNumber(i) \/ StartOtherNumber(i)
             \/ BecomeLeader(i) \/ StepDown(i) \/ Crash(i)
  <2>1. PICK i \in Instance :
             \/ InstanceStep(i)
             \/ AcquireFails(i) \/ SendNeedsSession(i) \/ StartRequest(i)
             \/ StartSameNumber(i) \/ StartOtherNumber(i)
             \/ BecomeLeader(i) \/ StepDown(i) \/ Crash(i)
    BY <1>3
  <2>2. CASE Acquired(i)
    BY <1>1, <2>2, LockStepTypes, AcquiredStep DEF SessionInv
  <2>3. CASE AcquireFails(i)
    BY <1>1, <2>3, LockStepTypes, SilentInstanceStep DEF SessionInv
  <2>4. CASE RenewFails(i)
    BY <1>1, <2>4, LockStepTypes, RenewFailsStep DEF SessionInv
  <2>5. CASE \/ Reconcile(i) \/ SendNeedsSession(i) \/ ReconnectTimer(i)
             \/ StartRequest(i) \/ BootStart(i)
    BY <1>1, <2>5, LockStepTypes, CallerStep DEF SessionInv
  <2>6. CASE StartSameNumber(i) \/ ResetRow(i) \/ ResetCache(i) \/ ResetFlows(i)
    BY <1>1, <2>6, ResetStepTypes, SilentInstanceStep DEF SessionInv
  <2>7. CASE StartOtherNumber(i)
    BY <1>1, <2>7, ResetStepTypes, StartOtherNumberStep DEF SessionInv
  <2>8. CASE ResetLogout(i)
    BY <1>1, <2>8, ResetStepTypes, ResetLogoutStep DEF SessionInv
  <2>9. CASE ResetStart(i)
    BY <1>1, <2>9, ResetStepTypes, CallerStep DEF SessionInv
  <2>10. CASE BecomeLeader(i) \/ StopMark(i)
    BY <1>1, <2>10, InstanceStepTypes, SilentInstanceStep DEF SessionInv
  <2>11. CASE StepDown(i)
    BY <1>1, <2>11, InstanceStepTypes, StepDownStep DEF SessionInv
  <2>12. CASE Crash(i)
    BY <1>1, <2>12, InstanceStepTypes, CrashStep DEF SessionInv
  <2> QED  BY <2>1, <2>2, <2>3, <2>4, <2>5, <2>6, <2>7, <2>8, <2>9, <2>10, <2>11, <2>12
         DEF InstanceStep, ResetStep
<1>4. CASE Expire
  <2>1. Typed'
    BY <1>1, <1>4, SessionAssumption, InstanceStepTypes
  <2> QED  BY <1>4, <2>1, ExpireStep DEF SessionInv
<1> QED  BY <1>2, <1>3, <1>4 DEF Next

LEMMA SessionAlways == Spec => []SessionInv
<1>1. Init => SessionInv
  BY SessionInit
<1>2. SessionInv /\ [Next]_vars => SessionInv'
  BY SessionNext, SessionStutter
<1> QED  BY <1>1, <1>2, PTL DEF Spec

----------------------------------------------------------------------------
(* What is remembered of the lapses *)

LEMMA LapseType == ASSUME Losses, Lapse PROVE lapses' \in 0 .. MaxLapses
BY SessionAssumption DEF Losses, Lapse

LEMMA StatusLosses ==
  ASSUME Losses, NEW status, NEW p, SetStatus(status, p), UNCHANGED <<leftOn, kept>>
  PROVE  Losses'
<1>1. lapses' \in 0 .. MaxLapses
  BY LapseType DEF Losses, SetStatus
<1> QED  BY <1>1 DEF Losses, SetStatus

LEMMA RecalledTypes ==
  ASSUME Typed, Losses, NEW p, Recalled(p)
  PROVE  lapses' \in 0 .. MaxLapses /\ leftOn' \subseteq Phone \cup {None}
<1>1. lapses' \in 0 .. MaxLapses
  BY LapseType DEF Losses, Recalled
<1> QED  BY <1>1, TypesAre DEF Losses, Recalled

LEMMA FlowsOffLosses ==
  ASSUME Losses, NEW p \in Phone \cup {None}, FlowsOff(p), UNCHANGED <<unsaid, kept>>
  PROVE  Losses'
<1>1. lapses' \in 0 .. MaxLapses
  BY LapseType DEF Losses, FlowsOff
<1> QED  BY <1>1 DEF Losses, FlowsOff

LEMMA CacheLosses ==
  ASSUME Losses, UNCHANGED <<unsaid, leftOn>>,
         CacheDropped \/ \E c \in Creds \cup {None}, heals \in BOOLEAN : CacheSet(c, heals)
  PROVE  Losses'
<1>1. lapses' \in 0 .. MaxLapses
  BY LapseType DEF Losses, CacheDropped, CacheSet
<1>2. kept' \subseteq {"row", "cache"}
  BY DEF Losses, CacheDropped, CacheSet
<1> QED  BY <1>1, <1>2 DEF Losses

LEMMA ClosedLosses ==
  ASSUME Typed, Losses, NEW s, NEW reason, Closed(s, reason)
  PROVE  Losses'
<1>1. (\E p \in {row.phone, None} : Recalled(p)) \/ UNCHANGED <<lapses, leftOn>>
  BY DEF Closed
<1>2. lapses' \in 0 .. MaxLapses /\ leftOn' \subseteq Phone \cup {None}
  BY <1>1, RecalledTypes DEF Losses
<1> QED  BY <1>2 DEF Losses, Closed

LEMMA StartLosses ==
  ASSUME Losses, NEW i, NEW r, Start(i, r) \/ StartUnlessMapped(i, r)
  PROVE  Losses'
<1>1. (UNCHANGED lapses \/ Lapse) /\ UNCHANGED damage
  BY DEF StartUnlessMapped, Start, Build, losses
<1>2. lapses' \in 0 .. MaxLapses
  BY <1>1, LapseType DEF Losses
<1> QED  BY <1>1, <1>2 DEF Losses, damage

LEMMA SocketStepLosses ==
  ASSUME SessionInv, Losses, NEW s \in Socket,
         \/ SocketStep(s) \/ BuildFails(s) \/ Save(s) \/ Drop(s) \/ Unlink(s)
         \/ \E p \in Phone : Scan(s, p)
  PROVE  Losses'
<1>a. Typed /\ sock[s] \in Closure /\ CurrentPhone(s) \in Phone \cup {None}
  BY TypesAre, CurrentPhoneType DEF SessionInv
<1>1. CASE LoadDb(s) \/ MakeSocket(s) \/ BuildFails(s) \/ CloseDecide(s)
  BY <1>1 DEF LoadDb, MakeSocket, BuildFails, CloseDecide, losses, damage, Losses
<1>2. CASE FillCache(s) \/ SaveCache(s) \/ CloseCache(s)
  <2>1. CacheDropped \/ \E c \in Creds \cup {None}, heals \in BOOLEAN : CacheSet(c, heals)
    BY <1>2, <1>a DEF FillCache, SaveCache, CloseCache, Closure
  <2> QED  BY <1>2, <2>1, CacheLosses DEF FillCache, SaveCache, CloseCache
<1>3. CASE QrExpires(s) \/ Refused(s) \/ Kicked(s) \/ Drop(s) \/ Unlink(s)
  BY <1>3, <1>a, ClosedLosses DEF QrExpires, Refused, Kicked, Drop, Unlink
<1>4. CASE ShowQr(s) \/ CloseStatus(s)
  BY <1>4, StatusLosses DEF ShowQr, CloseStatus
<1>5. CASE Opened(s)
  <2>1. lapses' \in 0 .. MaxLapses /\ unsaid' \in BOOLEAN
    BY <1>5, LapseType DEF Opened, SetStatus, Losses
  <2> QED  BY <1>5, <1>a, <2>1 DEF Opened, Losses
<1>6. CASE OpenFlows(s)
  <2>1. lapses' \in 0 .. MaxLapses
    BY <1>6, LapseType DEF OpenFlows, Losses
  <2> QED  BY <1>6, <2>1 DEF OpenFlows, Losses, damage
<1>7. CASE CloseFlows(s)
  <2>1. sock[s].prev \in Phone \cup {None}
    BY <1>a DEF Closure
  <2> QED  BY <1>7, <2>1, FlowsOffLosses DEF CloseFlows
<1>8. CASE CloseDelete(s) \/ Save(s) \/ \E p \in Phone : Scan(s, p)
  BY <1>8 DEF CloseDelete, Save, Scan, Losses
<1> QED  BY <1>1, <1>2, <1>3, <1>4, <1>5, <1>6, <1>7, <1>8 DEF SocketStep

LEMMA InstanceStepLosses ==
  ASSUME SessionInv, Losses, NEW i \in Instance,
         \/ InstanceStep(i) \/ AcquireFails(i) \/ SendNeedsSession(i) \/ StartRequest(i)
         \/ StartSameNumber(i) \/ StartOtherNumber(i)
         \/ BecomeLeader(i) \/ StepDown(i) \/ Crash(i)
  PROVE  Losses'
<1>a. Typed /\ inst[i] \in Service
  BY TypesAre DEF SessionInv
<1>1. CASE RenewFails(i) \/ AcquireFails(i) \/ StartOtherNumber(i) \/ ResetLogout(i) \/ Crash(i)
  BY <1>1 DEF RenewFails, AcquireFails, StartOtherNumber, ResetLogout, Crash, losses, damage,
              Losses
<1>2. CASE Acquired(i)
  <2>1. lapses' \in 0 .. MaxLapses
    BY <1>2, LapseType DEF Acquired, Build, Losses
  <2> QED  BY <1>2, <2>1 DEF Acquired, Losses, damage
<1>3. CASE \/ Reconcile(i) \/ ReconnectTimer(i) \/ ResetStart(i) \/ SendNeedsSession(i)
           \/ StartRequest(i)
  BY <1>3, StartLosses DEF Reconcile, ReconnectTimer, ResetStart, SendNeedsSession, StartRequest
<1>4. CASE BootStart(i)
  <2>1. CASE row = NoRow
    BY <1>4, <2>1 DEF BootStart, Losses, losses, damage
  <2> QED  BY <1>4, <2>1, StartLosses DEF BootStart
<1>5. CASE StopMark(i) \/ BecomeLeader(i)
  BY <1>5, StatusLosses DEF StopMark, BecomeLeader
<1>6. CASE ResetRow(i)
  <2>1. lapses' \in 0 .. MaxLapses
    BY <1>6, LapseType DEF ResetRow, Losses
  <2> QED  BY <1>6, <2>1 DEF ResetRow, Losses
<1>7. CASE ResetCache(i)
  BY <1>7, CacheLosses DEF ResetCache
<1>8. CASE ResetFlows(i)
  <2>1. inst[i].prev \in Phone \cup {None}
    BY <1>a DEF Service
  <2> QED  BY <1>8, <2>1, FlowsOffLosses DEF ResetFlows
<1>9. CASE StartSameNumber(i)
  <2>1. inst[i].session # None
    BY <1>9 DEF StartSameNumber
  <2>2. PICK s \in Socket : s = inst[i].session
    BY <1>a, <2>1 DEF Service
  <2>3. CurrentPhone(s) \in Phone \cup {None}
    BY <1>a, CurrentPhoneType
  <2>4. leftOn' \in {leftOn, leftOn \cup {CurrentPhone(s)}}
    BY <1>9, <2>2 DEF StartSameNumber
  <2> QED  BY <1>9, <2>3, <2>4 DEF StartSameNumber, Losses
<1>10. CASE StepDown(i)
  <2>1. (\E p \in {row.phone, None} : Recalled(p)) \/ UNCHANGED <<lapses, leftOn>>
    BY <1>10 DEF StepDown
  <2>2. lapses' \in 0 .. MaxLapses /\ leftOn' \subseteq Phone \cup {None}
    BY <1>a, <2>1, RecalledTypes DEF Losses
  <2> QED  BY <1>10, <2>2 DEF Losses, StepDown
<1> QED  BY <1>1, <1>2, <1>3, <1>4, <1>5, <1>6, <1>7, <1>8, <1>9, <1>10
       DEF InstanceStep, ResetStep

LEMMA LossesAlways == Spec => []Losses
<1>1. Init => Losses
  <2>1. ASSUME Init PROVE lapses = 0 /\ unsaid = FALSE /\ leftOn = {} /\ kept = {}
    BY <2>1 DEF Init
  <2>2. 0 \in 0 .. MaxLapses
    BY SessionAssumption
  <2> QED  BY <2>1, <2>2 DEF Losses
<1>2. SessionInv /\ Losses /\ [Next]_vars => Losses'
  <2>1. ASSUME Losses, UNCHANGED vars PROVE Losses'
    BY <2>1 DEF vars, losses, damage, Losses
  <2>2. ASSUME Losses, Expire PROVE Losses'
    BY <2>2 DEF Expire, losses, damage, Losses
  <2> QED  BY <2>1, <2>2, SocketStepLosses, InstanceStepLosses DEF Next
<1> QED  BY <1>1, <1>2, SessionAlways, PTL DEF Spec

----------------------------------------------------------------------------
(* The theorems about the lock *)

\* The records of the services, of the sockets and of both stores keep their types, which
\* rests on every live socket having credentials: initAuthCreds or the loaded ones.
THEOREM SessionTypes == Spec => []TypeOK
<1>1. SessionInv /\ Losses => TypeOK
  BY TypesAre DEF SessionInv, Losses, TypeOK, Service, Closure, Row
<1> QED  BY <1>1, SessionAlways, LossesAlways, PTL

\* One connection per user: on an instance where no two operations on the session met, a
\* connection that is not being reset is the session its process knows of, and the process
\* holds session:lock for it.
THEOREM SocketsAreProtected == Spec => []SocketsHoldTheLock
<1>1. SessionInv => SocketsHoldTheLock
  <2>1. ASSUME SessionInv, NEW s \in Socket, Live(s), ~InReset(s), sock[s].at \notin raced
        PROVE  /\ inst[sock[s].at].session = s /\ inst[sock[s].at].held
               /\ lockKey = sock[s].at
    <3>1. PICK i \in Instance : i = sock[s].at
      BY <2>1 DEF SessionInv, OwnedInv, Live
    <3>2. LiveAt(s, i) /\ inst[i].old # s
      BY <2>1, <3>1 DEF LiveAt, At, InReset
    <3>3. Protected(i)
      BY <2>1, <3>1 DEF SessionInv, LockInv
    <3> QED  BY <3>1, <3>2, <3>3 DEF Protected, OneStands, KeyHeld
  <2> QED  BY <2>1 DEF SocketsHoldTheLock
<1> QED  BY <1>1, SessionAlways, PTL

----------------------------------------------------------------------------
(* The invariant of the row, the cache and the flows: definitions *)

\* A row always has credentials; a pairing that stands has a number.
RowInv == row = NoRow \/ row.creds # None
LinkedInv == \A c \in linked : phoneOf[c] # None

\* Nothing raced or blurred the picture so far.
Clean == raced = {} /\ ~blurred
NoReset == \A i \in Instance : inst[i].reset = "no"

\* A close handler and forceResetSession each work alone: nobody wins the lock, nothing
\* stands, and there is no other of them.
Ended(s) == sock[s].closing # "no"
NobodyStands == \A i \in Instance : ~inst[i].won /\ \A s \in Socket : ~Stands(s, i)
AloneInv ==
  /\ \A s \in Socket : Ended(s) => NobodyStands /\ NoReset
  /\ ~NoReset => NobodyStands
  /\ \A s, t \in Socket : Ended(s) /\ Ended(t) => s = t
  /\ \A i, j \in Instance : inst[i].reset # "no" /\ inst[j].reset # "no" => i = j

\* WhatsApp never logs a socket out by replacing it.
KickedInv == \A s \in Socket : sock[s].stage = "kicked" => sock[s].reason # "loggedOut"

Open(s) == sock[s].stage = "open"
\* The handlers before the flows are off; those that will delete the row.
Unwinds(s) == sock[s].closing \in {"status", "flows"}
Deletes(s) ==
  \/ sock[s].closing = "delete"
  \/ sock[s].closing \in {"status", "flows", "decide"} /\ sock[s].reason = "loggedOut"

\* The row is CONNECTED for the open socket, or until a handler or a reset says otherwise,
\* but for a lost write; it has the number of the open socket, but for a lapse.
StatusInv ==
  /\ \A s \in Socket : sock[s].opening # "no" => Open(s)
  /\ row.status = "CONNECTED" /\ ~unsaid =>
       \/ \E s \in Socket : Open(s) \/ sock[s].closing = "status"
       \/ \E i \in Instance : inst[i].reset = "row"
  /\ \A s \in Socket : Open(s) =>
       /\ row.status = "CONNECTED" \/ unsaid
       /\ row.phone = CurrentPhone(s) \/ CurrentPhone(s) \in leftOn
\* A flow that no lapse left on is the open socket's, or somebody has yet to turn it off.
FlowsInv ==
  /\ None \notin active
  /\ \A i \in Instance, s \in Socket :
       inst[i].old = s => inst[i].prev = CurrentPhone(s) /\ CurrentPhone(s) # None
  /\ \A p \in active \ leftOn :
       \/ \E s \in Socket : Open(s) /\ CurrentPhone(s) = p /\ row.phone = p
       \/ \E s \in Socket : Unwinds(s) /\ sock[s].prev = p
       \/ \E i \in Instance : inst[i].reset \notin {"no", "start"} /\ inst[i].prev = p

\* The cache holds the row's credentials, and so does a socket built from them; a socket
\* that waits for its scan has no row.  A pairing that is gone has a handler that deletes
\* its row, and such a handler has no other row to delete.
CacheInv ==
  \/ "cache" \in kept \/ cache \in {None, row.creds}
  \/ \E s \in Socket : sock[s].closing = "cache"
  \/ \E i \in Instance : inst[i].reset = "cache"
SameCreds(s) ==
  /\ sock[s].stage = "fill" => sock[s].creds = row.creds
  /\ "cache" \notin kept =>
       /\ sock[s].stage \in {"version", "open", "kicked"} => sock[s].creds = row.creds
       /\ sock[s].stage = "connecting" =>
            sock[s].creds = row.creds \/ (row = NoRow /\ phoneOf[sock[s].creds] = None)
SameCredsInv == \A s \in Socket : SameCreds(s)
PairingInv ==
  /\ "cache" \notin kept => \A s \in Socket : Deletes(s) => row.creds \notin linked
  /\ row # NoRow /\ row.creds \notin linked =>
       \/ "row" \in kept \/ \E s \in Socket : Deletes(s)
       \/ \E i \in Instance : inst[i].reset = "row"
  /\ \A s \in Socket : Open(s) => sock[s].creds \in linked

QuietInv == StatusInv /\ FlowsInv /\ CacheInv /\ SameCredsInv /\ PairingInv
CalmInv ==
  /\ RowInv /\ LinkedInv /\ KickedInv
  /\ Clean => AloneInv /\ QuietInv

----------------------------------------------------------------------------
(* The invariant as each of those who work alone sees it *)

\* A socket in use: of these there is one, when nothing is blurred.
InUse(s) == Building(s) \/ Live(s)

Orderly == None \notin active /\ \A s \in Socket : sock[s].opening # "no" => Open(s)

\* s is the only socket in use, no handler is at work and no reset but that of s.
Lone(s) ==
  /\ InUse(s) /\ sock[s].at \in Instance
  /\ \A t \in Socket : ~Ended(t) /\ (t # s => ~InUse(t))
  /\ \A i \in Instance : inst[i].reset # "no" \/ inst[i].old # None =>
       i = sock[s].at /\ inst[i].reset = "logout" /\ inst[i].old = s
LoneQuiet(s) ==
  LET r == inst[sock[s].at].reset IN
  /\ row.status = "CONNECTED" => unsaid \/ Open(s)
  /\ Open(s) => /\ row.status = "CONNECTED" \/ unsaid
                /\ row.phone = CurrentPhone(s) \/ CurrentPhone(s) \in leftOn
                /\ sock[s].creds \in linked
  /\ r # "no" => inst[sock[s].at].prev = CurrentPhone(s) /\ CurrentPhone(s) # None
  /\ \A p \in active \ leftOn :
       CurrentPhone(s) = p /\ (r # "no" \/ (Open(s) /\ row.phone = p))
  /\ "cache" \in kept \/ cache \in {None, row.creds}
  /\ SameCreds(s)
  /\ row # NoRow /\ row.creds \notin linked => "row" \in kept

\* The handler of s is the only one at work, and no socket is in use.
Handles(s) ==
  /\ Ended(s) /\ \A t \in Socket : ~InUse(t) /\ (t # s => ~Ended(t))
  /\ \A i \in Instance : inst[i].reset = "no" /\ inst[i].old = None
HandlerQuiet(s) ==
  /\ row.status = "CONNECTED" => unsaid \/ sock[s].closing = "status"
  /\ \A p \in active \ leftOn : Unwinds(s) /\ sock[s].prev = p
  /\ "cache" \in kept \/ cache \in {None, row.creds} \/ sock[s].closing = "cache"
  /\ Deletes(s) => "cache" \in kept \/ row.creds \notin linked
  /\ row # NoRow /\ row.creds \notin linked => "row" \in kept \/ Deletes(s)

\* forceResetSession of i is at work, and its socket has ended.
Resets(i) ==
  /\ inst[i].reset # "no" /\ \A s \in Socket : ~InUse(s) /\ ~Ended(s)
  /\ \A j \in Instance : inst[j].old = None /\ (j # i => inst[j].reset = "no")
ResetQuiet(i) ==
  /\ row.status = "CONNECTED" => unsaid \/ inst[i].reset = "row"
  /\ \A p \in active \ leftOn : inst[i].reset # "start" /\ inst[i].prev = p
  /\ "cache" \in kept \/ cache \in {None, row.creds} \/ inst[i].reset = "cache"
  /\ row # NoRow /\ row.creds \notin linked => "row" \in kept \/ inst[i].reset = "row"

\* Nobody works.
Rests ==
  /\ \A s \in Socket : ~InUse(s) /\ ~Ended(s)
  /\ \A i \in Instance : inst[i].reset = "no" /\ inst[i].old = None
RestQuiet ==
  /\ row.status = "CONNECTED" => unsaid
  /\ active \subseteq leftOn
  /\ "cache" \in kept \/ cache \in {None, row.creds}
  /\ row # NoRow /\ row.creds \notin linked => "row" \in kept

LEMMA LoneSees ==
  ASSUME NEW s \in Socket, Lone(s), QuietInv
  PROVE  Orderly /\ LoneQuiet(s)
<1>1. PICK i \in Instance : i = sock[s].at
  BY DEF Lone
<1>2. /\ \A t \in Socket : sock[t].closing = "no" /\ ~Unwinds(t) /\ ~Deletes(t)
      /\ \A t \in Socket : Open(t) => t = s
      /\ \A j \in Instance : inst[j].reset # "no" => j = i /\ inst[j].reset = "logout" /\ inst[j].old = s
  BY <1>1 DEF Lone, Ended, Unwinds, Deletes, InUse, Live, Open
<1>3. Orderly
  BY DEF QuietInv, Orderly, StatusInv, FlowsInv
<1>4. /\ row.status = "CONNECTED" => unsaid \/ Open(s)
      /\ Open(s) => /\ row.status = "CONNECTED" \/ unsaid
                    /\ row.phone = CurrentPhone(s) \/ CurrentPhone(s) \in leftOn
                    /\ sock[s].creds \in linked
  BY <1>2 DEF QuietInv, StatusInv, PairingInv
<1>5. inst[i].reset # "no" => inst[i].prev = CurrentPhone(s) /\ CurrentPhone(s) # None
  BY <1>2 DEF QuietInv, FlowsInv
<1>6. ASSUME NEW p \in active \ leftOn
      PROVE  CurrentPhone(s) = p /\ (inst[i].reset # "no" \/ (Open(s) /\ row.phone = p))
  BY <1>2, <1>5 DEF QuietInv, FlowsInv
<1>7. /\ "cache" \in kept \/ cache \in {None, row.creds}
      /\ row # NoRow /\ row.creds \notin linked => "row" \in kept
  BY <1>2 DEF QuietInv, CacheInv, PairingInv
<1>8. SameCreds(s)
  BY DEF QuietInv, SameCredsInv
<1> QED  BY <1>1, <1>3, <1>4, <1>5, <1>6, <1>7, <1>8 DEF LoneQuiet

LEMMA LoneMakes ==
  ASSUME NEW s \in Socket, Lone(s)', Orderly', LoneQuiet(s)'
  PROVE  QuietInv'
<1>1. PICK i \in Instance : i = sock'[s].at
  BY DEF Lone
<1>2. /\ \A t \in Socket : sock'[t].closing = "no" /\ ~Deletes(t)'
      /\ \A t \in Socket : Open(t)' => t = s
      /\ \A j \in Instance : inst'[j].reset # "no" \/ inst'[j].old # None =>
           j = i /\ inst'[j].reset = "logout" /\ inst'[j].old = s
  BY <1>1 DEF Lone, Ended, Deletes, InUse, Live, Open
<1>3. StatusInv'
  BY <1>2 DEF Orderly, LoneQuiet, StatusInv
<1>4. FlowsInv'
  <2>1. ASSUME NEW j \in Instance, NEW t \in Socket, inst'[j].old = t
        PROVE  inst'[j].prev = CurrentPhone(t)' /\ CurrentPhone(t)' # None
    <3>1. j = i /\ inst'[j].reset = "logout" /\ t = s
      BY <1>2, <2>1, SessionAssumption
    <3> QED  BY <1>1, <3>1 DEF LoneQuiet
  <2>2. ASSUME NEW p \in active' \ leftOn'
        PROVE  \/ Open(s)' /\ CurrentPhone(s)' = p /\ row'.phone = p
               \/ inst'[i].reset \notin {"no", "start"} /\ inst'[i].prev = p
    BY <1>1, <1>2, <2>2 DEF LoneQuiet
  <2>3. None \notin active'
    BY DEF Orderly
  <2> QED  BY <2>1, <2>2, <2>3 DEF FlowsInv
<1>5. CacheInv' /\ PairingInv'
  BY <1>2 DEF LoneQuiet, CacheInv, PairingInv
<1>6. SameCredsInv'
  <2>1. ASSUME NEW t \in Socket, t # s PROVE SameCreds(t)'
    <3>1. ~InUse(t)'
      BY <2>1 DEF Lone
    <3> QED  BY <3>1 DEF SameCreds, InUse, Building, Live
  <2> QED  BY <2>1 DEF LoneQuiet, SameCredsInv
<1> QED  BY <1>3, <1>4, <1>5, <1>6 DEF QuietInv

LEMMA HandlerSees ==
  ASSUME NEW s \in Socket, Handles(s), QuietInv
  PROVE  Orderly /\ HandlerQuiet(s)
<1>1. /\ \A t \in Socket : ~Open(t)
      /\ \A t \in Socket : t # s => sock[t].closing = "no" /\ ~Unwinds(t) /\ ~Deletes(t)
      /\ \A j \in Instance : inst[j].reset = "no"
  BY DEF Handles, Ended, Unwinds, Deletes, InUse, Live, Open
<1>2. Orderly
  BY DEF QuietInv, Orderly, StatusInv, FlowsInv
<1>3. row.status = "CONNECTED" => unsaid \/ sock[s].closing = "status"
  BY <1>1 DEF QuietInv, StatusInv
<1>4. \A p \in active \ leftOn : Unwinds(s) /\ sock[s].prev = p
  BY <1>1 DEF QuietInv, FlowsInv
<1>5. "cache" \in kept \/ cache \in {None, row.creds} \/ sock[s].closing = "cache"
  BY <1>1 DEF QuietInv, CacheInv
<1>6. /\ Deletes(s) => "cache" \in kept \/ row.creds \notin linked
      /\ row # NoRow /\ row.creds \notin linked => "row" \in kept \/ Deletes(s)
  BY <1>1 DEF QuietInv, PairingInv
<1> QED  BY <1>2, <1>3, <1>4, <1>5, <1>6 DEF HandlerQuiet

\* No socket is in use.
LEMMA NoneInUse ==
  ASSUME \A t \in Socket : ~InUse(t)', \A i \in Instance : inst'[i].old = None, Orderly'
  PROVE  /\ \A t \in Socket : ~Open(t)' /\ sock'[t].opening = "no"
         /\ SameCredsInv' /\ \A i \in Instance, t \in Socket : inst'[i].old # t
<1>1. \A t \in Socket : ~Open(t)'
  BY DEF InUse, Live, Open
<1>2. SameCredsInv'
  BY DEF SameCredsInv, SameCreds, InUse, Building, Live
<1> QED  BY <1>1, <1>2, SessionAssumption DEF Orderly

LEMMA HandlerMakes ==
  ASSUME NEW s \in Socket, Handles(s)', Orderly', HandlerQuiet(s)'
  PROVE  QuietInv'
<1>1. /\ \A t \in Socket : ~Open(t)' /\ sock'[t].opening = "no"
      /\ SameCredsInv' /\ \A i \in Instance, t \in Socket : inst'[i].old # t
  BY NoneInUse DEF Handles
<1>2. \A t \in Socket : t # s => sock'[t].closing = "no" /\ ~Unwinds(t)' /\ ~Deletes(t)'
  BY DEF Handles, Ended, Unwinds, Deletes
<1>3. StatusInv'
  BY <1>1 DEF HandlerQuiet, StatusInv
<1>4. FlowsInv'
  BY <1>1 DEF HandlerQuiet, Orderly, FlowsInv
<1>5. CacheInv'
  BY DEF HandlerQuiet, CacheInv
<1>6. PairingInv'
  BY <1>1, <1>2 DEF HandlerQuiet, PairingInv
<1> QED  BY <1>1, <1>3, <1>4, <1>5, <1>6 DEF QuietInv

LEMMA ResetSees ==
  ASSUME NEW i \in Instance, Resets(i), QuietInv
  PROVE  Orderly /\ ResetQuiet(i)
<1>1. /\ \A t \in Socket : ~Open(t) /\ sock[t].closing = "no" /\ ~Unwinds(t) /\ ~Deletes(t)
      /\ \A j \in Instance : inst[j].reset # "no" => j = i
  BY DEF Resets, Ended, Unwinds, Deletes, InUse, Live, Open
<1>2. Orderly
  BY DEF QuietInv, Orderly, StatusInv, FlowsInv
<1>3. row.status = "CONNECTED" => unsaid \/ inst[i].reset = "row"
  BY <1>1 DEF QuietInv, StatusInv
<1>4. \A p \in active \ leftOn : inst[i].reset # "start" /\ inst[i].prev = p
  BY <1>1 DEF QuietInv, FlowsInv
<1>5. "cache" \in kept \/ cache \in {None, row.creds} \/ inst[i].reset = "cache"
  BY <1>1 DEF QuietInv, CacheInv
<1>6. row # NoRow /\ row.creds \notin linked => "row" \in kept \/ inst[i].reset = "row"
  BY <1>1 DEF QuietInv, PairingInv
<1> QED  BY <1>2, <1>3, <1>4, <1>5, <1>6 DEF ResetQuiet

LEMMA ResetMakes ==
  ASSUME NEW i \in Instance, Resets(i)', Orderly', ResetQuiet(i)'
  PROVE  QuietInv'
<1>1. /\ \A t \in Socket : ~Open(t)' /\ sock'[t].opening = "no"
      /\ SameCredsInv' /\ \A j \in Instance, t \in Socket : inst'[j].old # t
  BY NoneInUse DEF Resets
<1>2. \A t \in Socket : sock'[t].closing = "no" /\ ~Deletes(t)'
  BY DEF Resets, Ended, Deletes
<1>3. StatusInv'
  BY <1>1 DEF ResetQuiet, StatusInv
<1>4. FlowsInv'
  BY <1>1 DEF Resets, ResetQuiet, Orderly, FlowsInv
<1>5. CacheInv'
  BY DEF ResetQuiet, CacheInv
<1>6. PairingInv'
  BY <1>1, <1>2 DEF ResetQuiet, PairingInv
<1> QED  BY <1>1, <1>3, <1>4, <1>5, <1>6 DEF QuietInv

LEMMA RestSees ==
  ASSUME Rests, QuietInv
  PROVE  Orderly /\ RestQuiet
<1>1. /\ \A t \in Socket : ~Open(t) /\ sock[t].closing = "no" /\ ~Unwinds(t) /\ ~Deletes(t)
      /\ \A j \in Instance : inst[j].reset = "no"
  BY DEF Rests, Ended, Unwinds, Deletes, InUse, Live, Open
<1>2. Orderly
  BY DEF QuietInv, Orderly, StatusInv, FlowsInv
<1>3. row.status = "CONNECTED" => unsaid
  BY <1>1 DEF QuietInv, StatusInv
<1>4. active \subseteq leftOn
  BY <1>1 DEF QuietInv, FlowsInv
<1>5. "cache" \in kept \/ cache \in {None, row.creds}
  BY <1>1 DEF QuietInv, CacheInv
<1>6. row # NoRow /\ row.creds \notin linked => "row" \in kept
  BY <1>1 DEF QuietInv, PairingInv
<1> QED  BY <1>2, <1>3, <1>4, <1>5, <1>6 DEF RestQuiet

LEMMA RestMakes ==
  ASSUME Rests', Orderly', RestQuiet'
  PROVE  QuietInv'
<1>1. /\ \A t \in Socket : ~Open(t)' /\ sock'[t].opening = "no"
      /\ SameCredsInv' /\ \A j \in Instance, t \in Socket : inst'[j].old # t
  BY NoneInUse DEF Rests
<1>2. \A t \in Socket : sock'[t].closing = "no" /\ ~Deletes(t)'
  BY DEF Rests, Ended, Deletes
<1>3. StatusInv' /\ FlowsInv'
  BY <1>1 DEF RestQuiet, Orderly, StatusInv, FlowsInv
<1>4. CacheInv' /\ PairingInv'
  BY <1>1, <1>2 DEF RestQuiet, CacheInv, PairingInv
<1> QED  BY <1>1, <1>3, <1>4 DEF QuietInv

----------------------------------------------------------------------------
(* Lemmas *)

LEMMA TidyKeeps ==
  ASSUME NEW k \in Closure
  PROVE  /\ Tidy(k).closing = k.closing /\ Tidy(k).opening = k.opening
         /\ k.stage # "gone" => Tidy(k) = k
         /\ k.stage = "gone" => Tidy(k).stage \in {"gone", "free"}
         /\ k.closing \in {"status", "flows", "decide"} => Tidy(k).reason = k.reason
         /\ k.closing \in {"status", "flows"} => Tidy(k).prev = k.prev
<1>1. CASE k.stage # "gone"
  BY <1>1 DEF Tidy
<1>2. CASE k.stage = "gone" /\ k.opening = "no" /\ k.closing = "no" /\ k.saving = "no"
  <2>1. Tidy(k) = Free
    BY <1>2 DEF Tidy
  <2> QED  BY <1>2, <2>1 DEF Free
<1>3. CASE k.stage = "gone" /\ ~(k.opening = "no" /\ k.closing = "no" /\ k.saving = "no")
  <2>1. Tidy(k) =
          [k EXCEPT !.creds = IF k.opening = "no" /\ k.saving = "no" THEN None ELSE @,
                    !.reason = IF k.closing \in {"status", "flows", "decide"} THEN @ ELSE "no",
                    !.prev = IF k.closing \in {"status", "flows"} THEN @ ELSE None]
    BY <1>3 DEF Tidy
  <2> QED  BY <1>3, <2>1 DEF Closure
<1> QED  BY <1>1, <1>2, <1>3

LEMMA UpdateKeeps ==
  ASSUME Typed, NEW s \in Socket, NEW k \in Closure, Update(s, k)
  PROVE  /\ \A t \in Socket \ {s} : sock'[t] = sock[t]
         /\ sock'[s].closing = k.closing /\ sock'[s].opening = k.opening
         /\ k.stage # "gone" => sock'[s] = k
         /\ k.stage = "gone" => sock'[s].stage \in {"gone", "free"}
         /\ k.closing \in {"status", "flows", "decide"} => sock'[s].reason = k.reason
         /\ k.closing \in {"status", "flows"} => sock'[s].prev = k.prev
BY UpdateEffect, TidyKeeps

LEMMA InUseStands ==
  ASSUME SessionInv, NEW s \in Socket, InUse(s), ~InReset(s)
  PROVE  sock[s].at \in Instance /\ Stands(s, sock[s].at)
<1>1. sock[s].at \in Instance
  BY DEF SessionInv, OwnedInv, InUse, Building, Live
<1>2. PICK i \in Instance : i = sock[s].at
  BY <1>1
<1>3. inst[i].old # s
  BY <1>2 DEF InReset
<1> QED  BY <1>2, <1>3 DEF InUse, Stands, BuiltAt, LiveAt, At

LEMMA OneStandsAnywhere ==
  ASSUME SessionInv, Clean, NEW s \in Socket, NEW i \in Instance, Stands(s, i)
  PROVE  /\ \A j \in Instance : ~inst[j].won
         /\ \A j \in Instance, t \in Socket : Stands(t, j) => t = s /\ j = i
<1>1. \A j \in Instance : Protected(j)
  BY DEF SessionInv, LockInv, Clean
<1>2. \A j \in Instance, t \in Socket : Stands(t, j) => lockKey = j /\ ~inst[j].won
  BY <1>1 DEF Protected, KeyHeld, OneStands, NothingStands, Stands
<1>3. lockKey = i /\ \A j \in Instance : inst[j].won => lockKey = j
  BY <1>1, <1>2 DEF Protected, KeyHeld
<1>4. \A t \in Socket : Stands(t, i) => t = s
  BY <1>1, SessionAssumption DEF Protected, OneStands, Stands, BuiltAt, LiveAt, Building, Live
<1> QED  BY <1>2, <1>3, <1>4

\* With a socket in use, no handler and no other reset is at work.
LEMMA InUseIsLone ==
  ASSUME SessionInv, Clean, AloneInv, NEW s \in Socket, InUse(s)
  PROVE  Lone(s) /\ \A i \in Instance : ~inst[i].won
<1>1. sock[s].at \in Instance
  BY DEF SessionInv, OwnedInv, InUse, Building, Live
<1>2. PICK i \in Instance : i = sock[s].at
  BY <1>1
<1>a. \A j \in Instance : Points(j)
  BY DEF SessionInv, PointsInv
<1>b. \A j \in Instance : inst[j].old \in Socket \cup {None}
  BY TypesAre DEF SessionInv, Service
<1>3. CASE ~InReset(s)
  <2>1. Stands(s, i)
    BY <1>2, <1>3, InUseStands
  <2>2. NoReset /\ \A t \in Socket : ~Ended(t)
    BY <2>1 DEF AloneInv, NobodyStands
  <2>3. \A j \in Instance : inst[j].reset = "no" /\ inst[j].old = None
    BY <1>a, <2>2 DEF Points, NoReset
  <2>4. \A t \in Socket : ~InReset(t) \/ ~InUse(t)
    <3>1. \A t \in Socket : InUse(t) => sock[t].at \in Instance
      BY DEF SessionInv, OwnedInv, InUse, Building, Live
    <3> QED  BY <2>3, <3>1, SessionAssumption DEF InReset
  <2>5. \A t \in Socket : InUse(t) => sock[t].at \in Instance /\ Stands(t, sock[t].at)
    BY <2>4, InUseStands
  <2> QED  BY <1>1, <2>1, <2>2, <2>3, <2>5, OneStandsAnywhere DEF Lone
<1>4. CASE InReset(s)
  <2>1. inst[i].old = s /\ inst[i].reset = "logout"
    BY <1>2, <1>4, <1>a, SessionAssumption DEF InReset, Points
  <2>2. ~NoReset /\ NobodyStands /\ \A t \in Socket : ~Ended(t)
    BY <2>1 DEF AloneInv, NoReset
  <2>3. \A j \in Instance : inst[j].reset # "no" \/ inst[j].old # None => j = i
    BY <1>a, <2>1 DEF AloneInv, Points
  <2>4. ASSUME NEW t \in Socket, InUse(t) PROVE t = s
    <3>1. InReset(t)
      BY <2>2, <2>4, InUseStands DEF NobodyStands
    <3>2. sock[t].at \in Instance
      BY <2>4 DEF SessionInv, OwnedInv, InUse, Building, Live
    <3>3. PICK j \in Instance : j = sock[t].at /\ inst[j].old = t
      BY <3>1, <3>2 DEF InReset
    <3> QED  BY <2>1, <2>3, <3>3, SessionAssumption
  <2> QED  BY <1>1, <1>2, <2>1, <2>2, <2>3, <2>4 DEF Lone, NobodyStands
<1> QED  BY <1>3, <1>4

\* A socket that is being built is in no reset.
LEMMA BuildingIsLone ==
  ASSUME SessionInv, Clean, AloneInv, NEW s \in Socket, Building(s)
  PROVE  /\ Lone(s) /\ NoReset /\ \A i \in Instance : inst[i].old = None
         /\ ~Live(s)
<1>1. Lone(s)
  BY InUseIsLone DEF InUse
<1>2. ~Live(s)
  BY DEF Building, Live
<1>3. \A i \in Instance : inst[i].old # s
  BY <1>2 DEF SessionInv, PointsInv, Points, LiveAt
<1> QED  BY <1>1, <1>2, <1>3 DEF Lone, NoReset

LEMMA EndedHandles ==
  ASSUME SessionInv, AloneInv, NEW s \in Socket, Ended(s)
  PROVE  Handles(s) /\ NoReset /\ NobodyStands
<1>1. NoReset /\ NobodyStands /\ \A t \in Socket \ {s} : ~Ended(t)
  BY DEF AloneInv
<1>2. \A i \in Instance : inst[i].reset = "no" /\ inst[i].old = None
  BY <1>1 DEF SessionInv, PointsInv, Points, NoReset
<1>3. \A t \in Socket : ~InUse(t)
  <2>1. ASSUME NEW t \in Socket, InUse(t) PROVE FALSE
    <3>1. sock[t].at \in Instance
      BY <2>1 DEF SessionInv, OwnedInv, InUse, Building, Live
    <3>2. ~InReset(t)
      BY <1>2, <3>1, SessionAssumption DEF InReset
    <3> QED  BY <1>1, <2>1, <3>2, InUseStands DEF NobodyStands
  <2> QED  BY <2>1
<1> QED  BY <1>1, <1>2, <1>3 DEF Handles

\* A reset whose socket has ended.
LEMMA ResetIsAlone ==
  ASSUME SessionInv, AloneInv, NEW i \in Instance, inst[i].reset # "no", inst[i].old = None
  PROVE  Resets(i) /\ NobodyStands
<1>1. /\ NobodyStands /\ \A t \in Socket : ~Ended(t)
      /\ \A j \in Instance : j # i => inst[j].reset = "no"
  BY DEF AloneInv, NoReset
<1>2. \A j \in Instance : inst[j].old = None
  BY <1>1 DEF SessionInv, PointsInv, Points
<1>3. \A t \in Socket : ~InUse(t)
  <2>1. ASSUME NEW t \in Socket, InUse(t) PROVE FALSE
    <3>1. sock[t].at \in Instance
      BY <2>1 DEF SessionInv, OwnedInv, InUse, Building, Live
    <3>2. ~InReset(t)
      BY <1>2, <3>1, SessionAssumption DEF InReset
    <3> QED  BY <1>1, <2>1, <3>2, InUseStands DEF NobodyStands
  <2> QED  BY <2>1
<1> QED  BY <1>1, <1>2, <1>3 DEF Resets

----------------------------------------------------------------------------
(* Who works alone *)

LEMMA AloneKept ==
  ASSUME AloneInv, \A s \in Socket : Ended(s)' => Ended(s),
         \A j \in Instance : inst[j].reset = "no" => inst'[j].reset = "no",
         NobodyStands => NobodyStands'
  PROVE  AloneInv'
<1>1. NoReset => NoReset'
  BY DEF NoReset
<1>2. \A s \in Socket : Ended(s)' => NobodyStands' /\ NoReset'
  BY <1>1 DEF AloneInv
<1>3. ~NoReset' => NobodyStands'
  BY <1>1 DEF AloneInv
<1>4. \A s, t \in Socket : Ended(s)' /\ Ended(t)' => s = t
  BY DEF AloneInv
<1>5. \A i, j \in Instance : inst'[i].reset # "no" /\ inst'[j].reset # "no" => i = j
  BY DEF AloneInv
<1> QED  BY <1>2, <1>3, <1>4, <1>5 DEF AloneInv

LEMMA AloneNone ==
  ASSUME \A s \in Socket : ~Ended(s)', NoReset'
  PROVE  AloneInv'
BY DEF AloneInv, NoReset

\* Steps that the invariant of the lock sees nothing of.
LEMMA AloneSame ==
  ASSUME AloneInv, \A j \in Instance : SameSockets(j) /\ SameService(j),
         \A s \in Socket : Ended(s)' => Ended(s)
  PROVE  AloneInv'
<1>1. \A j \in Instance, t \in Socket : Stands(t, j)' <=> Stands(t, j)
  BY DEF Stands, SameSockets, SameSocket, SameService
<1>2. NobodyStands => NobodyStands'
  BY <1>1 DEF NobodyStands, SameService
<1>3. \A j \in Instance : inst[j].reset = "no" => inst'[j].reset = "no"
  BY DEF SameService
<1> QED  BY <1>2, <1>3, AloneKept

----------------------------------------------------------------------------
(* Steps under the lock *)

\* What a step has to show.
LEMMA CalmStep ==
  ASSUME CalmInv, Clean' => Clean, RowInv', LinkedInv', KickedInv',
         Clean' /\ Clean /\ AloneInv => AloneInv',
         Clean' /\ Clean /\ AloneInv /\ QuietInv => QuietInv'
  PROVE  CalmInv'
BY DEF CalmInv

LEMMA AloneSoft ==
  ASSUME SessionInv, AloneInv, NEW s \in Socket, NEW k \in Closure, Update(s, k),
         UNCHANGED inst,
         k.at = sock[s].at, sock[s].stage # "free", k.stage # "free",
         k.closing = "no" <=> sock[s].closing = "no",
         k.stage \in BuildStages <=> sock[s].stage \in BuildStages,
         k.stage \in LiveStages <=> sock[s].stage \in LiveStages,
         k.stage \in LiveStages => k.creds # None
  PROVE  AloneInv'
<1> USE DEF SessionInv
<1>1. \A j \in Instance : SameSockets(j) /\ SameService(j)
  BY SoftUpdate DEF SameService
<1>2. \A t \in Socket : Ended(t)' => Ended(t)
  BY UpdateKeeps DEF Ended
<1> QED  BY <1>1, <1>2, AloneSame

\* The socket in use goes on.
LEMMA LoneStays ==
  ASSUME NEW s \in Socket, Lone(s), \A t \in Socket \ {s} : sock'[t] = sock[t],
         sock'[s].at = sock[s].at, sock'[s].closing = sock[s].closing, InUse(s)',
         \A i \in Instance : inst'[i].reset = inst[i].reset /\ inst'[i].old = inst[i].old
  PROVE  Lone(s)' /\ \A t \in Socket \ {s} : sock'[t].opening = sock[t].opening /\ ~Open(t)
<1>1. \A t \in Socket : ~Ended(t)' /\ (t # s => ~InUse(t)')
  BY DEF Lone, Ended, InUse, Building, Live
<1>2. \A t \in Socket \ {s} : ~Open(t)
  BY DEF Lone, InUse, Live, Open
<1> QED  BY <1>1, <1>2 DEF Lone

\* ... with the numbers and the flows as they are.
LEMMA LoneGoesOn ==
  ASSUME NEW s \in Socket, Lone(s), QuietInv, \A t \in Socket \ {s} : sock'[t] = sock[t],
         sock'[s].at = sock[s].at, sock'[s].closing = sock[s].closing, InUse(s)',
         UNCHANGED inst, None \notin active', sock'[s].opening # "no" => Open(s)',
         LoneQuiet(s) => LoneQuiet(s)'
  PROVE  QuietInv'
<1>1. Orderly /\ LoneQuiet(s)
  BY LoneSees
<1>2. Lone(s)' /\ \A t \in Socket \ {s} : sock'[t].opening = sock[t].opening /\ ~Open(t)
  BY LoneStays
<1>3. Orderly'
  BY <1>1, <1>2 DEF Orderly
<1> QED  BY <1>1, <1>2, <1>3, LoneMakes

LEMMA BuildStepCalm ==
  ASSUME SessionInv, CalmInv, NEW s \in Socket, LoadDb(s) \/ FillCache(s)
  PROVE  CalmInv'
<1>a. Typed /\ sock[s] \in Closure /\ row \in Row /\ Building(s)
  BY TypesAre DEF SessionInv, LoadDb, FillCache, Building
<1>b. UNCHANGED <<inst, row, active, phoneOf, linked, raced, blurred, unsaid, leftOn>>
  BY DEF LoadDb, FillCache, database, whatsapp, history, losses, damage
<1>1. PICK k \in Closure :
        /\ Update(s, k) /\ k.at = sock[s].at
        /\ k.stage = IF LoadDb(s) /\ row # NoRow THEN "fill" ELSE "version"
        /\ k.closing = sock[s].closing /\ k.opening = sock[s].opening
        /\ LoadDb(s) => k.creds = row.creds
        /\ FillCache(s) => k.creds = sock[s].creds
  <2>1. CASE LoadDb(s)
    <3>1. PICK k \in Closure :
            k = [sock[s] EXCEPT !.stage = IF row = NoRow THEN "version" ELSE "fill",
                                !.creds = row.creds]
      BY <1>a, StageType, CredsType DEF Row
    <3>2. ~FillCache(s)
      BY <2>1 DEF LoadDb, FillCache
    <3>3. /\ k.at = sock[s].at /\ k.creds = row.creds
          /\ k.stage = IF row = NoRow THEN "version" ELSE "fill"
          /\ k.closing = sock[s].closing /\ k.opening = sock[s].opening
      BY <1>a, <3>1 DEF Closure
    <3> QED  BY <2>1, <3>1, <3>2, <3>3 DEF LoadDb
  <2>2. CASE FillCache(s)
    <3>1. PICK k \in Closure : k = [sock[s] EXCEPT !.stage = "version"]
      BY <1>a, StageType
    <3>2. ~LoadDb(s)
      BY <2>2 DEF LoadDb, FillCache
    <3>3. /\ k.at = sock[s].at /\ k.stage = "version" /\ k.creds = sock[s].creds
          /\ k.closing = sock[s].closing /\ k.opening = sock[s].opening
      BY <1>a, <3>1 DEF Closure
    <3> QED  BY <2>2, <3>1, <3>2, <3>3 DEF FillCache
  <2> QED  BY <2>1, <2>2
<1>2. k.stage \in {"fill", "version"}
  BY <1>1
<1>3. /\ \A t \in Socket \ {s} : sock'[t] = sock[t]
      /\ sock'[s] = k
  BY <1>a, <1>1, <1>2, UpdateKeeps
<1>4. ASSUME AloneInv PROVE AloneInv'
  BY <1>a, <1>b, <1>1, <1>2, <1>4, AloneSoft DEF BuildStages, LiveStages, Building
<1>5. ASSUME Clean, AloneInv, QuietInv PROVE QuietInv'
  <2>1. Lone(s) /\ NoReset
    BY <1>a, <1>5, BuildingIsLone
  <2>2. sock[s].at \in Instance /\ inst[sock[s].at].reset = "no"
    BY <2>1 DEF Lone, NoReset
  <2>3. ~Open(s) /\ ~Open(s)' /\ InUse(s)'
    BY <1>a, <1>2, <1>3 DEF Open, Building, InUse
  <2>4. ASSUME LoneQuiet(s) PROVE LoneQuiet(s)'
    <3>1. "cache" \in kept' \/ cache' \in {None, row.creds}
      BY <1>1, <2>4 DEF LoneQuiet, SameCreds, LoadDb, FillCache, CacheSet, redis, losses, damage
    <3>2. SameCreds(s)'
      BY <1>b, <1>1, <1>3, <2>4 DEF LoneQuiet, SameCreds, LoadDb, FillCache, NoRow
    <3>3. "row" \in kept' <=> "row" \in kept
      BY DEF LoadDb, FillCache, CacheSet, losses, damage
    <3> QED  BY <1>b, <1>1, <1>3, <2>2, <2>3, <2>4, <3>1, <3>2, <3>3 DEF LoneQuiet
  <2>5. Orderly
    BY <1>5, <2>1, LoneSees
  <2> QED  BY <1>b, <1>1, <1>3, <1>5, <2>1, <2>3, <2>4, <2>5, LoneGoesOn DEF Orderly
<1>6. RowInv' /\ LinkedInv' /\ KickedInv'
  BY <1>b, <1>2, <1>3 DEF CalmInv, RowInv, LinkedInv, KickedInv
<1> QED  BY <1>b, <1>4, <1>5, <1>6, CalmStep DEF Clean

LEMMA MakeSocketCalm ==
  ASSUME SessionInv, CalmInv, NEW s \in Socket, MakeSocket(s)
  PROVE  CalmInv'
<1>a. /\ Typed /\ sock[s] \in Closure /\ row \in Row /\ Building(s)
      /\ sock[s].stage = "version"
  BY TypesAre DEF SessionInv, MakeSocket, Building
<1>b. UNCHANGED <<cache, row, active, phoneOf, linked, raced, blurred, unsaid, leftOn, kept>>
  BY DEF MakeSocket, redis, database, whatsapp, history, losses, damage
<1>1. PICK c \in Creds :
        /\ Update(s, [sock[s] EXCEPT !.stage = "connecting", !.creds = c])
        /\ sock[s].creds = None => phoneOf[c] = None
        /\ sock[s].creds # None => c = sock[s].creds
  BY <1>a DEF MakeSocket, NextCreds, Unused, Closure
<1>2. PICK k \in Closure : k = [sock[s] EXCEPT !.stage = "connecting", !.creds = c]
  BY <1>a, StageType, CredsType
<1>3. /\ k.stage = "connecting" /\ k.creds = c /\ k.at = sock[s].at
      /\ k.closing = sock[s].closing /\ k.opening = sock[s].opening
  BY <1>a, <1>2 DEF Closure
<1>4. /\ \A t \in Socket \ {s} : sock'[t] = sock[t]
      /\ sock'[s] = k
  BY <1>a, <1>1, <1>2, <1>3, UpdateKeeps
<1>5. \A i \in Instance : inst'[i].reset = inst[i].reset /\ inst'[i].old = inst[i].old
  <2>1. inst \in [Instance -> Service]
    BY TypesAre DEF SessionInv
  <2> QED  BY <2>1 DEF MakeSocket, Service
<1>7. ASSUME Clean, AloneInv PROVE AloneInv'
  <2>1. NoReset /\ \A t \in Socket : ~Ended(t)
    BY <1>a, <1>7, BuildingIsLone DEF Lone
  <2>2. (\A t \in Socket : ~Ended(t)') /\ NoReset'
    BY <1>3, <1>4, <1>5, <2>1 DEF Ended, NoReset
  <2> QED  BY <2>2, AloneNone
<1>8. ASSUME Clean, AloneInv, QuietInv PROVE QuietInv'
  <2>1. Lone(s) /\ NoReset /\ Orderly /\ LoneQuiet(s)
    BY <1>a, <1>8, BuildingIsLone, LoneSees
  <2>2. PICK i \in Instance : i = sock[s].at
    BY <2>1 DEF Lone
  <2>3. inst[i].reset = "no" /\ inst'[i].reset = "no"
    BY <1>5, <2>1 DEF NoReset
  <2>4. ~Open(s) /\ ~Open(s)' /\ InUse(s)'
    BY <1>a, <1>3, <1>4 DEF Open, Live, InUse
  <2>5. /\ Lone(s)' /\ \A t \in Socket \ {s} : sock'[t].opening = sock[t].opening /\ ~Open(t)
    BY <1>3, <1>4, <1>5, <2>1, <2>4, LoneStays
  <2>6. SameCreds(s)'
    <3>1. "cache" \notin kept => c = row.creds \/ (row = NoRow /\ phoneOf[c] = None)
      BY <1>a, <1>1, <2>1 DEF LoneQuiet, SameCreds, CalmInv, RowInv
    <3> QED  BY <1>b, <1>3, <1>4, <3>1 DEF SameCreds
  <2>7. active \subseteq leftOn
    BY <2>1, <2>2, <2>3, <2>4 DEF LoneQuiet
  <2>8. LoneQuiet(s)'
    <3>1. sock'[s].at = i
      BY <1>3, <1>4, <2>2
    <3>2. inst'[sock'[s].at].reset = "no"
      BY <2>3, <3>1
    <3> QED  BY <1>b, <2>1, <2>4, <2>6, <2>7, <3>2 DEF LoneQuiet
  <2>9. Orderly'
    BY <1>b, <1>3, <1>4, <2>1, <2>4, <2>5 DEF Orderly
  <2> QED  BY <2>5, <2>8, <2>9, LoneMakes
<1>9. RowInv' /\ LinkedInv' /\ KickedInv'
  BY <1>b, <1>3, <1>4 DEF CalmInv, RowInv, LinkedInv, KickedInv
<1> QED  BY <1>b, <1>7, <1>8, <1>9, CalmStep DEF Clean

LEMMA BuildFailsCalm ==
  ASSUME SessionInv, CalmInv, NEW s \in Socket, BuildFails(s)
  PROVE  CalmInv'
<1>a. Typed /\ sock \in [Socket -> Closure] /\ Building(s)
  BY TypesAre DEF SessionInv, BuildFails
<1>b. UNCHANGED <<cache, row, active, phoneOf, linked, raced, blurred, unsaid, leftOn, kept>>
  BY DEF BuildFails, database, whatsapp, history, losses, damage
<1>1. /\ \A t \in Socket \ {s} : sock'[t] = sock[t]
      /\ sock'[s] = Free
  BY <1>a DEF BuildFails
<1>2. \A i \in Instance : inst'[i].reset = inst[i].reset /\ inst'[i].old = inst[i].old
  <2>1. inst \in [Instance -> Service]
    BY TypesAre DEF SessionInv
  <2> QED  BY <2>1 DEF BuildFails, Service, Released
<1>3. ASSUME Clean, AloneInv PROVE AloneInv' /\ (QuietInv => QuietInv')
  <2>1. /\ Lone(s) /\ NoReset /\ \A i \in Instance : inst[i].old = None
        /\ ~Live(s)
    BY <1>a, <1>3, BuildingIsLone
  <2>2. /\ (\A t \in Socket : ~Ended(t)' /\ ~InUse(t)') /\ NoReset'
        /\ \A t \in Socket : ~Open(t)
    BY <1>1, <1>2, <2>1 DEF Ended, NoReset, Free, Lone, InUse, Building, Live, Open
  <2>3. AloneInv'
    BY <2>2, AloneNone
  <2>4. Rests'
    BY <1>2, <2>1, <2>2 DEF Rests, NoReset
  <2>5. ASSUME QuietInv PROVE QuietInv'
    <3>1. Orderly /\ LoneQuiet(s)
      BY <2>1, <2>5, LoneSees
    <3>2. \A t \in Socket : sock'[t].opening = "no"
      BY <1>1, <2>2, <3>1 DEF Orderly, Free
    <3>3. Orderly'
      BY <1>b, <3>1, <3>2 DEF Orderly
    <3>4. RestQuiet'
      <4>1. sock[s].at \in Instance /\ inst[sock[s].at].reset = "no"
        BY <2>1 DEF Lone, NoReset
      <4> QED  BY <1>b, <2>2, <3>1, <4>1 DEF LoneQuiet, RestQuiet
    <3> QED  BY <2>4, <3>3, <3>4, RestMakes
  <2> QED  BY <2>3, <2>5
<1>6. RowInv' /\ LinkedInv' /\ KickedInv'
  BY <1>b, <1>1 DEF CalmInv, RowInv, LinkedInv, KickedInv, Free
<1> QED  BY <1>b, <1>3, <1>6, CalmStep DEF Clean

----------------------------------------------------------------------------
(* What a connected socket does *)

\* One socket moves on, and nothing that the others see of it changes.
LEMMA QuietFrame ==
  ASSUME QuietInv, UNCHANGED <<row, active, phoneOf, linked, unsaid, leftOn, kept>>,
         cache' \in {cache, row.creds},
         \A t \in Socket :
           /\ sock'[t].closing = sock[t].closing /\ (Open(t)' <=> Open(t))
           /\ sock'[t].opening # "no" => sock[t].opening # "no"
           /\ Unwinds(t) => sock'[t].prev = sock[t].prev
           /\ Deletes(t)' <=> Deletes(t)
           /\ \/ sock'[t].stage = sock[t].stage /\ sock'[t].creds = sock[t].creds
              \/ ~InUse(t) /\ ~InUse(t)',
         \A i \in Instance :
           /\ inst'[i].reset = inst[i].reset /\ inst'[i].prev = inst[i].prev
           /\ inst'[i].old = inst[i].old
           /\ \A t \in Socket : inst[i].old = t => Live(t)
  PROVE  QuietInv'
<1> USE DEF QuietInv
<1>1. \A t \in Socket : /\ Open(t) => CurrentPhone(t)' = CurrentPhone(t)
                        /\ Live(t) => CurrentPhone(t)' = CurrentPhone(t)
                        /\ Open(t) => sock'[t].creds = sock[t].creds
                        /\ Unwinds(t)' <=> Unwinds(t)
  BY DEF Open, CurrentPhone, InUse, Live, Unwinds
<1>2. StatusInv'
  BY <1>1 DEF StatusInv
<1>3. FlowsInv'
  <2>1. \A i \in Instance, t \in Socket :
          inst'[i].old = t => inst'[i].prev = CurrentPhone(t)' /\ CurrentPhone(t)' # None
    BY <1>1 DEF FlowsInv
  <2>2. ASSUME NEW p \in active' \ leftOn'
        PROVE  \/ \E t \in Socket : Open(t)' /\ CurrentPhone(t)' = p /\ row'.phone = p
               \/ \E t \in Socket : Unwinds(t)' /\ sock'[t].prev = p
               \/ \E i \in Instance : inst'[i].reset \notin {"no", "start"} /\ inst'[i].prev = p
    <3>1. CASE \E t \in Socket : Open(t) /\ CurrentPhone(t) = p /\ row.phone = p
      BY <1>1, <3>1
    <3>2. CASE \E t \in Socket : Unwinds(t) /\ sock[t].prev = p
      BY <1>1, <3>2
    <3>3. CASE \E i \in Instance : inst[i].reset \notin {"no", "start"} /\ inst[i].prev = p
      BY <3>3
    <3> QED  BY <3>1, <3>2, <3>3 DEF FlowsInv
  <2> QED  BY <2>1, <2>2 DEF FlowsInv
<1>4. CacheInv'
  BY DEF CacheInv
<1>5. SameCredsInv'
  <2>1. ASSUME NEW t \in Socket PROVE SameCreds(t)'
    <3>1. CASE sock'[t].stage = sock[t].stage /\ sock'[t].creds = sock[t].creds
      BY <3>1 DEF SameCredsInv, SameCreds, NoRow
    <3>2. CASE ~InUse(t)'
      BY <3>2 DEF SameCreds, InUse, Building, Live
    <3> QED  BY <3>1, <3>2
  <2> QED  BY <2>1 DEF SameCredsInv
<1>6. PairingInv'
  BY <1>1 DEF PairingInv
<1> QED  BY <1>2, <1>3, <1>4, <1>5, <1>6

\* No reset speaks of a socket that is not live.
LEMMA OldIsLive ==
  ASSUME SessionInv
  PROVE  \A i \in Instance, t \in Socket : inst[i].old = t => Live(t)
BY DEF SessionInv, PointsInv, Points, LiveAt

LEMMA SaveCacheCalm ==
  ASSUME SessionInv, CalmInv, NEW s \in Socket, SaveCache(s)
  PROVE  CalmInv'
<1>a. Typed /\ sock[s] \in Closure /\ sock[s].stage # "free"
  BY TypesAre DEF SessionInv, OwnedInv, SaveCache, Free
<1>b. /\ UNCHANGED <<inst, row, active, phoneOf, linked, raced, unsaid, leftOn>>
      /\ Clean' => Clean /\ row.creds = sock[s].creds
      /\ CacheSet(sock[s].creds, sock[s].stage = "open")
  BY DEF SaveCache, database, whatsapp, Clean
<1>1. PICK k \in Closure : k = [sock[s] EXCEPT !.saving = "no"]
  BY <1>a DEF Closure
<1>2. /\ k.at = sock[s].at /\ k.stage = sock[s].stage /\ k.creds = sock[s].creds
      /\ k.closing = sock[s].closing /\ k.opening = sock[s].opening
      /\ k.reason = sock[s].reason /\ k.prev = sock[s].prev
  BY <1>a, <1>1 DEF Closure
<1>3. Update(s, k)
  BY <1>1 DEF SaveCache
<1>4. /\ \A t \in Socket \ {s} : sock'[t] = sock[t]
      /\ sock'[s].closing = k.closing /\ sock'[s].opening = k.opening
      /\ k.stage # "gone" => sock'[s] = k
      /\ k.stage = "gone" => sock'[s].stage \in {"gone", "free"}
      /\ k.closing \in {"status", "flows", "decide"} => sock'[s].reason = k.reason
      /\ k.closing \in {"status", "flows"} => sock'[s].prev = k.prev
  BY <1>a, <1>3, UpdateKeeps
<1>5. ASSUME AloneInv PROVE AloneInv'
  <2>1. k.stage \in LiveStages => k.creds # None
    BY <1>2 DEF SessionInv, PairedInv, Live, LiveStages
  <2> QED  BY <1>a, <1>b, <1>2, <1>3, <1>5, <2>1, AloneSoft
<1>6. ASSUME Clean, Clean', AloneInv, QuietInv PROVE QuietInv'
  <2>1. CASE sock[s].stage = "open"
    <3>1. InUse(s) /\ Open(s) /\ Open(s)' /\ InUse(s)' /\ sock'[s] = k
      BY <1>2, <1>4, <2>1 DEF InUse, Live, Open
    <3>2. Lone(s) /\ Orderly
      BY <1>6, <3>1, InUseIsLone, LoneSees
    <3>3. ASSUME LoneQuiet(s) PROVE LoneQuiet(s)'
      <4>1. "cache" \in kept' \/ cache' \in {None, row.creds}
        BY <1>b, <1>6, <3>3 DEF LoneQuiet, CacheSet
      <4>2. sock'[s].creds = row'.creds /\ CurrentPhone(s)' = CurrentPhone(s)
        BY <1>b, <1>2, <1>6, <3>1 DEF CurrentPhone
      <4>3. SameCreds(s)'
        BY <2>1, <1>2, <3>1, <4>2 DEF SameCreds
      <4>4. "row" \in kept' <=> "row" \in kept
        BY <1>b DEF CacheSet
      <4> QED  BY <1>b, <1>2, <3>1, <3>3, <4>1, <4>2, <4>3, <4>4 DEF LoneQuiet
    <3> QED  BY <1>b, <1>2, <1>4, <1>6, <3>1, <3>2, <3>3, LoneGoesOn DEF Orderly
  <2>2. CASE sock[s].stage # "open"
    <3>1. cache' \in {cache, row.creds} /\ kept' = kept
      BY <1>b, <1>6, <2>2 DEF CacheSet
    <3>2. /\ sock'[s].closing = sock[s].closing /\ (Open(s)' <=> Open(s))
          /\ sock'[s].opening # "no" => sock[s].opening # "no"
          /\ Unwinds(s) => sock'[s].prev = sock[s].prev
          /\ Deletes(s)' <=> Deletes(s)
          /\ \/ sock'[s].stage = sock[s].stage /\ sock'[s].creds = sock[s].creds
             \/ ~InUse(s) /\ ~InUse(s)'
      BY <1>2, <1>4 DEF Open, Unwinds, Deletes, InUse, Building, Live
    <3>3. ASSUME NEW t \in Socket, t # s
          PROVE  /\ sock'[t] = sock[t] /\ (Open(t)' <=> Open(t))
                 /\ Deletes(t)' <=> Deletes(t)
      BY <1>4, <3>3 DEF Open, Deletes
    <3> QED  BY <1>b, <1>6, <3>1, <3>2, <3>3, QuietFrame, OldIsLive
  <2> QED  BY <2>1, <2>2
<1>7. RowInv' /\ LinkedInv' /\ KickedInv'
  BY <1>b, <1>2, <1>4 DEF CalmInv, RowInv, LinkedInv, KickedInv
<1> QED  BY <1>b, <1>5, <1>6, <1>7, CalmStep

LEMMA SaveCalm ==
  ASSUME SessionInv, CalmInv, NEW s \in Socket, Save(s)
  PROVE  CalmInv'
<1>a. /\ Typed /\ sock[s] \in Closure /\ row \in Row /\ sock[s].stage = "open"
      /\ sock[s].creds # None
  BY TypesAre DEF SessionInv, PairedInv, Live, Save
<1>b. /\ UNCHANGED <<inst, cache, active, phoneOf, linked, raced, blurred, unsaid, leftOn>>
      /\ row' = [row EXCEPT !.creds = sock[s].creds] /\ kept' = kept \ {"row"}
  BY DEF Save, redis, whatsapp, history
<1>c. row'.creds = sock[s].creds /\ row'.status = row.status /\ row'.phone = row.phone
  BY <1>a, <1>b DEF Row
<1>1. PICK k \in Closure : k = [sock[s] EXCEPT !.saving = "cache"]
  BY <1>a DEF Closure
<1>2. /\ k.at = sock[s].at /\ k.stage = sock[s].stage /\ k.creds = sock[s].creds
      /\ k.closing = sock[s].closing /\ k.opening = sock[s].opening
  BY <1>a, <1>1 DEF Closure
<1>3. Update(s, k)
  BY <1>1 DEF Save
<1>4. /\ \A t \in Socket \ {s} : sock'[t] = sock[t]
      /\ sock'[s] = k
  BY <1>a, <1>2, <1>3, UpdateKeeps
<1>5. ASSUME AloneInv PROVE AloneInv'
  BY <1>a, <1>b, <1>2, <1>3, <1>5, AloneSoft DEF BuildStages, LiveStages
<1>6. ASSUME Clean, AloneInv, QuietInv PROVE QuietInv'
  <2>1. InUse(s) /\ Open(s) /\ Open(s)' /\ InUse(s)'
    BY <1>a, <1>2, <1>4 DEF InUse, Live, Open
  <2>2. Lone(s) /\ Orderly
    BY <1>6, <2>1, InUseIsLone, LoneSees
  <2>3. ASSUME LoneQuiet(s) PROVE LoneQuiet(s)'
    <3>1. CurrentPhone(s)' = CurrentPhone(s)
      BY <1>b, <1>2, <1>4 DEF CurrentPhone
    <3>2. "cache" \in kept' \/ cache' \in {None, row'.creds}
      BY <1>a, <1>b, <1>c, <2>3 DEF LoneQuiet, SameCreds
    <3>3. SameCreds(s)'
      BY <1>a, <1>2, <1>4, <1>c DEF SameCreds
    <3>4. row'.creds \in linked'
      BY <1>b, <1>c, <2>1, <2>3 DEF LoneQuiet
    <3> QED  BY <1>b, <1>c, <1>2, <1>4, <2>1, <2>3, <3>1, <3>2, <3>3, <3>4 DEF LoneQuiet
  <2> QED  BY <1>b, <1>2, <1>4, <1>6, <2>1, <2>2, <2>3, LoneGoesOn DEF Orderly
<1>7. RowInv'
  BY <1>a, <1>c DEF RowInv
<1>8. LinkedInv'
  BY <1>b DEF CalmInv, LinkedInv
<1>9. KickedInv'
  <2>1. sock'[s].stage # "kicked"
    BY <1>a, <1>2, <1>4
  <2> QED  BY <1>4, <2>1 DEF CalmInv, KickedInv
<1> QED  BY <1>b, <1>5, <1>6, <1>7, <1>8, <1>9, CalmStep DEF Clean


LEMMA OpenFlowsCalm ==
  ASSUME SessionInv, CalmInv, NEW s \in Socket, OpenFlows(s)
  PROVE  CalmInv'
<1>a. /\ Typed /\ sock[s] \in Closure /\ sock[s].stage # "free" /\ sock[s].opening # "no"
      /\ linked \subseteq Creds /\ None \notin Creds
  BY TypesAre, SessionAssumption DEF SessionInv, OwnedInv, OpenFlows, Free
<1>b. /\ UNCHANGED <<inst, cache, row, phoneOf, linked, raced, blurred, unsaid, leftOn, kept>>
      /\ active' \subseteq active \cup {CurrentPhone(s)}
  BY DEF OpenFlows, redis, whatsapp, history, damage
<1>1. PICK k \in Closure : k = [sock[s] EXCEPT !.opening = "no"]
  BY <1>a DEF Closure
<1>2. /\ k.at = sock[s].at /\ k.stage = sock[s].stage /\ k.creds = sock[s].creds
      /\ k.closing = sock[s].closing /\ k.opening = "no"
      /\ k.reason = sock[s].reason
  BY <1>a, <1>1 DEF Closure
<1>3. Update(s, k)
  BY <1>1 DEF OpenFlows
<1>4. /\ \A t \in Socket \ {s} : sock'[t] = sock[t]
      /\ sock'[s].closing = k.closing /\ sock'[s].opening = k.opening
      /\ k.stage # "gone" => sock'[s] = k
      /\ k.stage = "gone" => sock'[s].stage \in {"gone", "free"}
  BY <1>a, <1>3, UpdateKeeps
<1>5. ASSUME AloneInv PROVE AloneInv'
  <2>1. k.stage \in LiveStages => k.creds # None
    BY <1>2 DEF SessionInv, PairedInv, Live, LiveStages
  <2> QED  BY <1>a, <1>b, <1>2, <1>3, <1>5, <2>1, AloneSoft
<1>6. ASSUME Clean, AloneInv, QuietInv PROVE QuietInv'
  <2>1. Open(s)
    BY <1>a, <1>6 DEF QuietInv, StatusInv
  <2>2. sock'[s] = k /\ InUse(s) /\ InUse(s)' /\ Open(s)'
    BY <1>2, <1>4, <2>1 DEF Open, InUse, Live
  <2>3. Lone(s) /\ Orderly /\ LoneQuiet(s)
    BY <1>6, <2>2, InUseIsLone, LoneSees
  <2>4. CurrentPhone(s)' = CurrentPhone(s)
    BY <1>b, <1>2, <2>2 DEF CurrentPhone
  <2>5. CurrentPhone(s) # None
    BY <1>a, <2>1, <2>3 DEF LoneQuiet, CalmInv, LinkedInv, CurrentPhone
  <2>6. None \notin active'
    BY <1>b, <2>3, <2>5 DEF Orderly
  <2>7. LoneQuiet(s)'
    <3>1. SameCreds(s)'
      BY <1>b, <1>2, <2>2, <2>3 DEF LoneQuiet, SameCreds
    <3>2. ASSUME NEW p \in active' \ leftOn'
          PROVE  CurrentPhone(s) = p
                 /\ (inst[sock[s].at].reset # "no" \/ (Open(s) /\ row.phone = p))
      BY <1>b, <2>1, <2>3, <3>2 DEF LoneQuiet
    <3>3. sock'[s].at = sock[s].at /\ sock'[s].creds = sock[s].creds
      BY <1>2, <2>2
    <3> QED  BY <1>b, <2>1, <2>2, <2>3, <2>4, <3>1, <3>2, <3>3 DEF LoneQuiet
  <2> QED  BY <1>b, <1>2, <1>4, <1>6, <2>2, <2>3, <2>6, <2>7, LoneGoesOn
<1>7. RowInv' /\ LinkedInv'
  BY <1>b DEF CalmInv, RowInv, LinkedInv
<1>8. KickedInv'
  BY <1>2, <1>4 DEF CalmInv, KickedInv
<1> QED  BY <1>b, <1>5, <1>6, <1>7, <1>8, CalmStep DEF Clean

LEMMA ScanCalm ==
  ASSUME SessionInv, CalmInv, NEW s \in Socket, NEW p \in Phone, Scan(s, p)
  PROVE  CalmInv'
<1>a. /\ Typed /\ sock[s] \in Closure /\ row \in Row
      /\ sock[s].stage = "connecting" /\ phoneOf[sock[s].creds] = None
      /\ phoneOf \in [Creds -> Phone \cup {None}]
  BY TypesAre DEF SessionInv, Scan
<1>b. /\ UNCHANGED <<inst, cache, active, raced, blurred, unsaid, leftOn>>
      /\ row' = [row EXCEPT !.creds = sock[s].creds]
      /\ phoneOf' = [phoneOf EXCEPT ![sock[s].creds] = p]
      /\ linked' = linked \cup {sock[s].creds}
      /\ kept' = kept \ {"row"}
  BY DEF Scan, redis, history
<1>c. sock[s].creds \in Creds /\ None \notin Creds \cup Phone
  BY <1>a, SessionAssumption DEF SessionInv, PairedInv, Live, Closure
<1>1. PICK k \in Closure :
        k = [sock[s] EXCEPT !.stage = "kicked", !.reason = "restart", !.saving = "cache"]
  BY <1>a DEF Closure
<1>2. /\ k.at = sock[s].at /\ k.stage = "kicked" /\ k.creds = sock[s].creds
      /\ k.closing = sock[s].closing /\ k.opening = sock[s].opening
      /\ k.reason = "restart"
  BY <1>a, <1>1 DEF Closure
<1>3. Update(s, k)
  BY <1>1 DEF Scan
<1>4. /\ \A t \in Socket \ {s} : sock'[t] = sock[t]
      /\ sock'[s] = k
  BY <1>a, <1>2, <1>3, UpdateKeeps
<1>5. ASSUME AloneInv PROVE AloneInv'
  BY <1>a, <1>b, <1>c, <1>2, <1>3, <1>5, AloneSoft DEF BuildStages, LiveStages
<1>d. /\ row'.creds = sock[s].creds /\ row'.status = row.status /\ row'.phone = row.phone
      /\ row' # NoRow
  BY <1>a, <1>b, <1>c DEF Row, NoRow
<1>6. ASSUME Clean, AloneInv, QuietInv PROVE QuietInv'
  <2>1. InUse(s) /\ InUse(s)' /\ ~Open(s) /\ ~Open(s)'
    BY <1>a, <1>2, <1>4 DEF InUse, Live, Open
  <2>2. Lone(s) /\ Orderly /\ LoneQuiet(s)
    BY <1>6, <2>1, InUseIsLone, LoneSees
  <2>3. CurrentPhone(s) = None
    BY <1>a DEF CurrentPhone
  <2>4. inst[sock[s].at].reset = "no" /\ row.status = "CONNECTED" => unsaid
    BY <2>1, <2>2, <2>3 DEF LoneQuiet
  <2>5. inst[sock[s].at].reset = "no" /\ active \subseteq leftOn
    BY <2>1, <2>2, <2>3 DEF LoneQuiet
  <2>6. "cache" \in kept' \/ cache' \in {None, row'.creds}
    <3>1. "cache" \notin kept => sock[s].creds = row.creds \/ row = NoRow
      BY <1>a, <2>2 DEF LoneQuiet, SameCreds
    <3>2. "cache" \in kept \/ cache \in {None, row.creds}
      BY <2>2 DEF LoneQuiet
    <3> QED  BY <1>b, <1>d, <3>1, <3>2 DEF NoRow
  <2>7. LoneQuiet(s)'
    <3>1. SameCreds(s)'
      BY <1>2, <1>4, <1>d DEF SameCreds
    <3>2. inst'[sock'[s].at].reset = "no"
      BY <1>b, <1>2, <1>4, <2>5
    <3>3. row'.creds \in linked'
      BY <1>b, <1>d
    <3>4. row'.status = "CONNECTED" => unsaid'
      BY <1>b, <1>d, <2>1, <2>2 DEF LoneQuiet
    <3>5. active' \subseteq leftOn'
      BY <1>b, <2>5
    <3> QED  BY <2>1, <2>6, <3>1, <3>2, <3>3, <3>4, <3>5 DEF LoneQuiet
  <2>8. sock'[s].opening # "no" => Open(s)'
    BY <1>2, <1>4, <2>1, <2>2 DEF Orderly
  <2> QED  BY <1>b, <1>2, <1>4, <1>6, <2>1, <2>2, <2>7, <2>8, LoneGoesOn DEF Orderly
<1>7. RowInv' /\ KickedInv'
  BY <1>c, <1>d, <1>2, <1>4 DEF CalmInv, RowInv, KickedInv
<1>8. LinkedInv'
  <2>1. linked \subseteq Creds
    BY <1>a, TypesAre
  <2> QED  BY <1>a, <1>b, <1>c, <2>1 DEF CalmInv, LinkedInv
<1> QED  BY <1>b, <1>5, <1>6, <1>7, <1>8, CalmStep DEF Clean

\* A status is written, or lost; a lost one is remembered.
LEMMA SetStatusEffect ==
  ASSUME row \in Row, RowInv, NEW status, NEW p, SetStatus(status, p)
  PROVE  /\ row'.creds = row.creds /\ (row' = NoRow <=> row = NoRow) /\ RowInv'
         /\ unsaid' <=> ((status = "CONNECTED") # (row'.status = "CONNECTED"))
         /\ \/ row' = row
            \/ row # NoRow /\ row'.status = status /\ row'.phone = p
<1>1. CASE row' = row
  BY <1>1 DEF SetStatus, RowInv
<1>2. CASE row # NoRow /\ row' = [row EXCEPT !.status = status, !.phone = p]
  <2>1. row'.creds = row.creds /\ row'.status = status /\ row'.phone = p
    BY <1>2 DEF Row
  <2>2. row.creds # None /\ row' # NoRow
    BY <1>2, <2>1 DEF RowInv, NoRow
  <2> QED  BY <1>2, <2>1, <2>2 DEF SetStatus, RowInv
<1> QED  BY <1>1, <1>2 DEF SetStatus

LEMMA ShowQrCalm ==
  ASSUME SessionInv, CalmInv, NEW s \in Socket, ShowQr(s)
  PROVE  CalmInv'
<1>a. /\ row \in Row /\ RowInv /\ sock[s].stage = "connecting"
      /\ phoneOf[sock[s].creds] = None
  BY TypesAre DEF SessionInv, CalmInv, ShowQr
<1>b. /\ UNCHANGED <<inst, sock, cache, active, phoneOf, linked, raced, blurred, leftOn, kept>>
      /\ SetStatus("PENDING", None)
  BY DEF ShowQr, process, redis, whatsapp, history
<1>1. ASSUME AloneInv PROVE AloneInv'
  <2>1. \A j \in Instance : SameSockets(j) /\ SameService(j)
    BY <1>b, SocketsUnchanged DEF SessionInv, SameService
  <2> QED  BY <1>1, <1>b, <2>1, AloneSame DEF Ended
<1>2. ASSUME Clean, AloneInv, QuietInv PROVE QuietInv'
  <2>1. InUse(s) /\ InUse(s)' /\ ~Open(s) /\ ~Open(s)'
    BY <1>a, <1>b DEF InUse, Live, Open, Building
  <2>2. Lone(s) /\ Orderly /\ LoneQuiet(s)
    BY <1>2, <2>1, InUseIsLone, LoneSees
  <2>3. /\ row'.creds = row.creds /\ (row' = NoRow <=> row = NoRow)
        /\ row'.status = "CONNECTED" => unsaid'
    BY <1>a, <1>b, SetStatusEffect
  <2>4. CurrentPhone(s)' = CurrentPhone(s)
    BY <1>b DEF CurrentPhone
  <2>5. LoneQuiet(s)'
    <3>1. SameCreds(s)'
      BY <1>b, <2>2, <2>3 DEF LoneQuiet, SameCreds
    <3> QED  BY <1>b, <2>1, <2>2, <2>3, <2>4, <3>1 DEF LoneQuiet
  <2> QED  BY <1>b, <1>2, <2>1, <2>2, <2>5, LoneGoesOn DEF Orderly
<1>3. RowInv' /\ LinkedInv' /\ KickedInv'
  BY <1>a, <1>b, SetStatusEffect DEF CalmInv, LinkedInv, KickedInv
<1> QED  BY <1>b, <1>1, <1>2, <1>3, CalmStep DEF Clean

LEMMA OpenedCalm ==
  ASSUME SessionInv, CalmInv, NEW s \in Socket, Opened(s)
  PROVE  CalmInv'
<1>a. /\ row \in Row /\ RowInv /\ sock \in [Socket -> Closure]
      /\ sock[s].stage = "connecting" /\ sock[s].creds \in linked
      /\ linked \subseteq Creds /\ None \notin Creds
  BY TypesAre, SessionAssumption DEF SessionInv, CalmInv, Opened
<1>b. /\ UNCHANGED <<inst, cache, active, phoneOf, linked, raced, blurred, kept>>
      /\ SetStatus("CONNECTED", CurrentPhone(s))
      /\ leftOn' = IF row'.phone = CurrentPhone(s) THEN leftOn
                   ELSE leftOn \cup {CurrentPhone(s)}
  BY DEF Opened, redis, whatsapp, history
<1>1. ASSUME NEW t \in Socket
      PROVE  /\ sock'[t].at = sock[t].at /\ sock'[t].closing = sock[t].closing
             /\ sock'[t].creds = sock[t].creds
             /\ sock'[t] = sock[t] \/ {sock'[t].stage, sock[t].stage} \subseteq LiveStages
             /\ ~Open(t) /\ t # s => sock'[t] = sock[t]
             /\ sock'[t].stage = "kicked" => sock'[t] = sock[t] \/ sock'[t].reason = "replaced"
  <2>1. sock[t] \in Closure
    BY <1>a
  <2> QED  BY <2>1 DEF Opened, Closure, LiveStages, Open
<1>2. /\ sock'[s].stage = "open" /\ sock'[s].creds = sock[s].creds
  BY <1>a DEF Opened, Closure
<1>3. ASSUME AloneInv PROVE AloneInv'
  <2>1. \A t \in Socket : \A j \in Instance : SameSocket(t, j)
    BY <1>1 DEF SameSocket, BuiltAt, LiveAt, ClosingAt, At, Building, Live, LiveStages
  <2> QED  BY <1>1, <1>3, <1>b, <2>1, AloneSame DEF Ended, SameSockets, SameService
<1>4. ASSUME Clean, AloneInv, QuietInv PROVE QuietInv'
  <2>1. InUse(s) /\ InUse(s)' /\ ~Open(s) /\ Open(s)'
    BY <1>a, <1>2 DEF InUse, Live, Open
  <2>2. Lone(s) /\ Orderly /\ LoneQuiet(s)
    BY <1>4, <2>1, InUseIsLone, LoneSees
  <2>3. \A t \in Socket \ {s} : sock'[t] = sock[t]
    <3>1. \A t \in Socket : ~Open(t)
      BY <2>1, <2>2 DEF Lone, InUse, Live, Open
    <3> QED  BY <1>1, <3>1
  <2>4. phoneOf[sock[s].creds] # None
    BY <1>a DEF CalmInv, LinkedInv
  <2>5. "cache" \notin kept => sock[s].creds = row.creds
    BY <1>a, <2>2, <2>4 DEF LoneQuiet, SameCreds
  <2>6. /\ row'.creds = row.creds /\ (row' = NoRow <=> row = NoRow)
        /\ row'.status = "CONNECTED" \/ unsaid'
        /\ row'.phone = CurrentPhone(s) \/ CurrentPhone(s) \in leftOn'
    BY <1>a, <1>b, SetStatusEffect
  <2>7. CurrentPhone(s)' = CurrentPhone(s) /\ CurrentPhone(s) # None
    BY <1>a, <1>b, <1>2, <2>4 DEF CurrentPhone
  <2>8. LoneQuiet(s)'
    <3>1. SameCreds(s)'
      BY <1>b, <1>2, <2>5, <2>6 DEF SameCreds
    <3>2. sock'[s].at = sock[s].at
      BY <1>1
    <3>3. ASSUME NEW p \in active' \ leftOn'
          PROVE  CurrentPhone(s) = p
                 /\ (inst[sock[s].at].reset # "no" \/ row'.phone = p)
      <4>1. p \in active \ leftOn
        BY <1>b, <3>3
      <4>2. CurrentPhone(s) = p
        BY <2>2, <4>1 DEF LoneQuiet
      <4> QED  BY <2>6, <3>3, <4>2
    <3>4. inst[sock[s].at].reset # "no" => inst[sock[s].at].prev = CurrentPhone(s)
      BY <2>2 DEF LoneQuiet
    <3>5. "cache" \in kept' \/ cache' \in {None, row'.creds}
      BY <1>b, <2>2, <2>6 DEF LoneQuiet
    <3>6. row' # NoRow /\ row'.creds \notin linked' => "row" \in kept'
      BY <1>b, <2>2, <2>6 DEF LoneQuiet
    <3>7. sock'[s].creds \in linked'
      BY <1>a, <1>b, <1>2
    <3> QED  BY <1>b, <2>1, <2>6, <2>7, <3>1, <3>2, <3>3, <3>4, <3>5, <3>6, <3>7 DEF LoneQuiet
  <2>9. /\ sock'[s].at = sock[s].at /\ sock'[s].closing = sock[s].closing
        /\ sock'[s].opening # "no" => Open(s)'
    BY <1>1, <2>1
  <2> QED  BY <1>b, <1>4, <2>1, <2>2, <2>3, <2>8, <2>9, LoneGoesOn DEF Orderly
<1>5. RowInv' /\ LinkedInv'
  BY <1>a, <1>b, SetStatusEffect DEF CalmInv, LinkedInv
<1>6. KickedInv'
  BY <1>1 DEF CalmInv, KickedInv
<1> QED  BY <1>b, <1>3, <1>4, <1>5, <1>6, CalmStep DEF Clean

----------------------------------------------------------------------------
(* The end of a socket *)

\* The session s ends and its handler begins, with what it has read of the row.
LEMMA EndsCalm ==
  ASSUME SessionInv, CalmInv, NEW s \in Socket, Live(s), ~InReset(s),
         NEW k \in Closure, Update(s, k), k.stage = "gone", k.closing = "status",
         k.opening = sock[s].opening, NEW p, Recalled(p), k.prev = p,
         \A i \in Instance : /\ inst'[i].won = inst[i].won /\ inst'[i].reset = inst[i].reset
                             /\ inst'[i].old = inst[i].old,
         UNCHANGED <<cache, row, active, phoneOf, unsaid, kept>>, linked' \subseteq linked,
         Clean' => Clean /\ sock[s].opening = "no",
         linked' = linked \/ k.reason = "loggedOut",
         k.reason = "loggedOut" =>
           /\ sock[s].creds \notin linked'
           /\ Open(s) \/ phoneOf[sock[s].creds] # None
  PROVE  CalmInv'
<1>a. Typed /\ sock[s] \in Closure
  BY TypesAre DEF SessionInv
<1>1. /\ \A t \in Socket \ {s} : sock'[t] = sock[t]
      /\ sock'[s].closing = "status" /\ sock'[s].opening = sock[s].opening
      /\ sock'[s].stage \in {"gone", "free"}
      /\ sock'[s].reason = k.reason /\ sock'[s].prev = p
  BY <1>a, UpdateKeeps
<1>2. ASSUME Clean, AloneInv
      PROVE  /\ Lone(s) /\ Handles(s)' /\ NobodyStands' /\ NoReset'
             /\ inst[sock[s].at].reset = "no"
  <2>1. /\ Lone(s) /\ \A i \in Instance : ~inst[i].won
    BY <1>2, InUseIsLone DEF InUse
  <2>2. \A i \in Instance : inst[i].reset = "no" /\ inst[i].old = None
    BY <2>1 DEF Lone, InReset
  <2>3. \A t \in Socket : ~InUse(t)' /\ (t # s => ~Ended(t)')
    BY <1>1, <2>1 DEF Lone, InUse, Building, Live, Ended
  <2>4. NobodyStands'
    BY <2>1, <2>3 DEF NobodyStands, Stands, BuiltAt, LiveAt, InUse
  <2>5. Handles(s)' /\ NoReset'
    BY <1>1, <2>2, <2>3 DEF Handles, Ended, NoReset
  <2>6. inst[sock[s].at].reset = "no"
    BY <2>1, <2>2 DEF Lone
  <2> QED  BY <2>1, <2>4, <2>5, <2>6
<1>3. ASSUME Clean, AloneInv PROVE AloneInv'
  <2>1. Handles(s)' /\ NobodyStands' /\ NoReset'
    BY <1>2, <1>3
  <2> QED  BY <2>1 DEF AloneInv, Handles, NoReset
<1>4. ASSUME Clean, Clean', AloneInv, QuietInv PROVE QuietInv'
  <2>1. /\ Handles(s)' /\ Orderly /\ LoneQuiet(s) /\ inst[sock[s].at].reset = "no"
        /\ \A t \in Socket \ {s} : ~InUse(t)
    BY <1>2, <1>4, LoneSees DEF Lone
  <2>2. Orderly'
    BY <1>1, <1>4, <2>1 DEF Orderly, Open, InUse, Live
  <2>3. ASSUME NEW q \in active' \ leftOn' PROVE Unwinds(s)' /\ sock'[s].prev = q
    <3>1. q \in active \ leftOn
      BY <2>3 DEF Recalled
    <3>2. row.phone = q
      BY <2>1, <3>1 DEF LoneQuiet
    <3>3. p = q
      BY <2>3, <3>1, <3>2 DEF Recalled
    <3> QED  BY <1>1, <3>3 DEF Unwinds
  <2>4. Deletes(s)' <=> k.reason = "loggedOut"
    BY <1>1 DEF Deletes
  <2>5. k.reason = "loggedOut" => "cache" \in kept \/ row.creds \notin linked'
    <3>1. "cache" \in kept \/ k.reason # "loggedOut" \/ sock[s].creds = row.creds
      BY <2>1 DEF LoneQuiet, SameCreds, Open, Live
    <3> QED  BY <3>1
  <2>6. row # NoRow /\ row.creds \notin linked' => "row" \in kept \/ k.reason = "loggedOut"
    BY <2>1 DEF LoneQuiet
  <2>7. "cache" \in kept \/ cache \in {None, row.creds}
    BY <2>1 DEF LoneQuiet
  <2>8. HandlerQuiet(s)'
    BY <1>1, <2>3, <2>4, <2>5, <2>6, <2>7 DEF HandlerQuiet
  <2> QED  BY <2>1, <2>2, <2>8, HandlerMakes
<1>5. RowInv' /\ LinkedInv' /\ KickedInv'
  BY <1>1 DEF CalmInv, RowInv, LinkedInv, KickedInv
<1> QED  BY <1>3, <1>4, <1>5, CalmStep

LEMMA ClosedCalm ==
  ASSUME SessionInv, CalmInv, NEW s \in Socket, Live(s), ~InReset(s),
         NEW reason \in {"no", "restart", "replaced", "loggedOut", "drop"}, Closed(s, reason),
         UNCHANGED <<cache, row, active, phoneOf, raced>>, linked' \subseteq linked,
         linked' = linked \/ reason = "loggedOut",
         reason = "loggedOut" =>
           /\ sock[s].creds \notin linked'
           /\ Open(s) \/ phoneOf[sock[s].creds] # None
  PROVE  CalmInv'
<1>a. /\ inst \in [Instance -> Service] /\ sock[s] \in Closure
      /\ row.phone \in Phone \cup {None}
  BY TypesAre DEF SessionInv, Row
<1>b. sock[s].at \in Instance
  BY DEF SessionInv, OwnedInv, Live
<1>c. (Clean' => Clean /\ sock[s].opening = "no") /\ UNCHANGED <<unsaid, kept>>
  BY DEF Closed, Clean
<1>1. CASE Mapped(s)
  <2>1. PICK p \in {row.phone, None} :
          /\ Recalled(p)
          /\ Update(s, [sock[s] EXCEPT !.stage = "gone", !.closing = "status",
                                       !.reason = reason, !.prev = p])
    BY <1>1 DEF Closed
  <2>2. PICK k \in Closure :
          k = [sock[s] EXCEPT !.stage = "gone", !.closing = "status",
                              !.reason = reason, !.prev = p]
    BY <1>a, EndedType
  <2>3. /\ k.stage = "gone" /\ k.closing = "status" /\ k.opening = sock[s].opening
        /\ k.prev = p /\ k.reason = reason
    BY <1>a, <2>2 DEF Closure
  <2>4. Update(s, k) /\ inst' = [inst EXCEPT ![sock[s].at].session = None]
    BY <1>1, <2>1, <2>2 DEF Closed
  <2>5. \A i \in Instance : /\ inst'[i].won = inst[i].won /\ inst'[i].reset = inst[i].reset
                            /\ inst'[i].old = inst[i].old
    BY <1>a, <1>b, <2>4 DEF Service
  <2> QED  BY <1>c, <2>1, <2>3, <2>4, <2>5, EndsCalm
<1>2. CASE ~Mapped(s) /\ Clean
  <2>1. PICK i \in Instance : i = sock[s].at
    BY <1>b
  <2>2. Protected(i)
    BY <1>2 DEF SessionInv, LockInv, Clean
  <2>3. inst[i].session = s
    BY <2>1, <2>2 DEF Protected, OneStands, LiveAt, At, InReset
  <2> QED  BY <1>2, <2>1, <2>3 DEF Mapped
<1>3. CASE ~Mapped(s) /\ ~Clean
  <2>1. PICK k \in Closure : k = [sock[s] EXCEPT !.stage = "gone"]
    BY <1>a, StageType
  <2>2. k.stage = "gone"
    BY <1>a, <2>1 DEF Closure
  <2>3. Update(s, k)
    BY <1>3, <2>1 DEF Closed
  <2>4. /\ \A t \in Socket \ {s} : sock'[t] = sock[t]
        /\ sock'[s].stage # "kicked"
    BY <2>2, <2>3, UpdateKeeps DEF SessionInv
  <2>5. RowInv' /\ LinkedInv' /\ KickedInv'
    BY <2>4 DEF CalmInv, RowInv, LinkedInv, KickedInv
  <2> QED  BY <1>3, <1>c, <2>5 DEF CalmInv
<1> QED  BY <1>1, <1>2, <1>3

LEMMA EndStepsCalm ==
  ASSUME SessionInv, CalmInv, NEW s \in Socket,
         QrExpires(s) \/ Refused(s) \/ Kicked(s) \/ Drop(s) \/ Unlink(s)
  PROVE  CalmInv'
<1>a. Live(s) /\ ~InReset(s)
  BY DEF QrExpires, Refused, Kicked, Drop, Unlink, Live
<1>b. UNCHANGED <<cache, row, active, phoneOf, raced>>
  BY DEF QrExpires, Refused, Kicked, Drop, Unlink, redis, database, whatsapp
<1>1. CASE QrExpires(s) \/ Drop(s)
  <2>1. Closed(s, "drop") /\ linked' = linked
    BY <1>1 DEF QrExpires, Drop, whatsapp
  <2> QED  BY <1>a, <1>b, <2>1, ClosedCalm
<1>2. CASE Kicked(s)
  <2>1. Closed(s, sock[s].reason) /\ linked' = linked /\ sock[s].reason # "loggedOut"
    BY <1>2 DEF Kicked, whatsapp, CalmInv, KickedInv
  <2>2. sock[s].reason \in {"no", "restart", "replaced", "loggedOut", "drop"}
    <3>1. sock[s] \in Closure
      BY TypesAre DEF SessionInv
    <3> QED  BY <3>1 DEF Closure
  <2> QED  BY <1>a, <1>b, <2>1, <2>2, ClosedCalm
<1>3. CASE Refused(s)
  <2>1. /\ Closed(s, "loggedOut") /\ linked' = linked
        /\ phoneOf[sock[s].creds] # None /\ sock[s].creds \notin linked
    BY <1>3 DEF Refused, whatsapp
  <2> QED  BY <1>a, <1>b, <2>1, ClosedCalm
<1>4. CASE Unlink(s)
  <2>1. Closed(s, "loggedOut") /\ linked' = linked \ {sock[s].creds} /\ Open(s)
    BY <1>4 DEF Unlink, Open
  <2> QED  BY <1>a, <1>b, <2>1, ClosedCalm
<1> QED  BY <1>1, <1>2, <1>3, <1>4

----------------------------------------------------------------------------
(* The handler of a close *)

\* A step of the handler of s, which works alone, and goes on or is through.
LEMMA HandlerCalm ==
  ASSUME SessionInv, CalmInv, NEW s \in Socket, Ended(s),
         NEW k \in Closure, Update(s, k), k.stage = sock[s].stage, k.reason = sock[s].reason,
         k.opening = sock[s].opening,
         \A i \in Instance : /\ inst'[i].won = inst[i].won /\ inst'[i].reset = inst[i].reset
                             /\ inst'[i].old = inst[i].old,
         UNCHANGED <<phoneOf, linked, raced, blurred>>, RowInv', active' \subseteq active,
         HandlerQuiet(s) /\ k.closing # "no" => HandlerQuiet(s)',
         HandlerQuiet(s) /\ k.closing = "no" => RestQuiet'
  PROVE  CalmInv'
<1>1. /\ \A t \in Socket \ {s} : sock'[t] = sock[t]
      /\ k.stage # "gone" => sock'[s] = k
      /\ k.stage = "gone" => sock'[s].stage \in {"gone", "free"}
      /\ sock'[s].closing = k.closing /\ sock'[s].opening = k.opening
  BY UpdateKeeps DEF SessionInv
<1>2. ASSUME AloneInv
      PROVE  /\ Handles(s) /\ NoReset' /\ NobodyStands'
             /\ \A t \in Socket : ~InUse(t)' /\ (t # s => ~Ended(t)')
             /\ \A i \in Instance : inst'[i].reset = "no" /\ inst'[i].old = None
  <2>1. Handles(s) /\ NoReset /\ NobodyStands
    BY <1>2, EndedHandles
  <2>2. \A t \in Socket : ~InUse(t)' /\ (t # s => ~Ended(t)')
    BY <1>1, <2>1 DEF Handles, InUse, Building, Live, Ended
  <2>3. \A i \in Instance : inst'[i].reset = "no" /\ inst'[i].old = None
    BY <2>1 DEF Handles
  <2>4. NobodyStands' /\ NoReset'
    BY <2>1, <2>2, <2>3 DEF NobodyStands, NoReset, Stands, BuiltAt, LiveAt, InUse
  <2> QED  BY <2>1, <2>2, <2>3, <2>4
<1>3. ASSUME AloneInv PROVE AloneInv'
  BY <1>2, <1>3 DEF AloneInv, NoReset
<1>4. ASSUME AloneInv, QuietInv PROVE QuietInv'
  <2>1. Handles(s) /\ Orderly /\ HandlerQuiet(s)
    BY <1>2, <1>4, HandlerSees
  <2>2. Orderly'
    BY <1>1, <2>1 DEF Orderly, Handles, InUse, Live, Open
  <2>3. CASE k.closing # "no"
    <3>1. Handles(s)'
      BY <1>1, <1>2, <1>4, <2>3 DEF Handles, Ended
    <3> QED  BY <2>1, <2>2, <2>3, <3>1, HandlerMakes
  <2>4. CASE k.closing = "no"
    <3>1. Rests'
      BY <1>1, <1>2, <1>4, <2>4 DEF Rests, Ended
    <3> QED  BY <2>1, <2>2, <2>4, <3>1, RestMakes
  <2> QED  BY <2>3, <2>4
<1>5. LinkedInv' /\ KickedInv'
  BY <1>1 DEF CalmInv, LinkedInv, KickedInv
<1> QED  BY <1>3, <1>4, <1>5, CalmStep DEF Clean

LEMMA CloseStatusCalm ==
  ASSUME SessionInv, CalmInv, NEW s \in Socket, CloseStatus(s)
  PROVE  CalmInv'
<1>a. Typed /\ sock[s] \in Closure /\ row \in Row /\ RowInv /\ sock[s].closing = "status"
  BY TypesAre DEF SessionInv, CalmInv, CloseStatus
<1>b. /\ UNCHANGED <<inst, cache, active, phoneOf, linked, raced, blurred, leftOn, kept>>
      /\ SetStatus("DISCONNECTED", None)
  BY DEF CloseStatus, redis, whatsapp, history
<1>1. PICK k \in Closure : k = [sock[s] EXCEPT !.closing = "flows"]
  BY <1>a, ClosingType
<1>2. /\ k.stage = sock[s].stage /\ k.opening = sock[s].opening /\ k.closing = "flows"
      /\ k.reason = sock[s].reason /\ k.prev = sock[s].prev
  BY <1>a, <1>1 DEF Closure
<1>3. Update(s, k)
  BY <1>1 DEF CloseStatus
<1>4. /\ sock'[s].closing = "flows" /\ sock'[s].reason = sock[s].reason
      /\ sock'[s].prev = sock[s].prev
  BY <1>a, <1>2, <1>3, UpdateKeeps
<1>5. /\ row'.creds = row.creds /\ (row' = NoRow <=> row = NoRow) /\ RowInv'
      /\ row'.status = "CONNECTED" => unsaid'
  BY <1>a, <1>b, SetStatusEffect
<1>6. ASSUME HandlerQuiet(s) PROVE HandlerQuiet(s)'
  <2>1. (Deletes(s)' <=> Deletes(s)) /\ (Unwinds(s)' <=> Unwinds(s))
    BY <1>a, <1>4 DEF Deletes, Unwinds
  <2> QED  BY <1>a, <1>b, <1>4, <1>5, <1>6, <2>1 DEF HandlerQuiet
<1>7. ASSUME HandlerQuiet(s), k.closing = "no" PROVE RestQuiet'
  BY <1>2, <1>7
<1> QED  BY <1>a, <1>b, <1>2, <1>3, <1>5, <1>6, <1>7, HandlerCalm DEF Ended

LEMMA CloseFlowsCalm ==
  ASSUME SessionInv, CalmInv, NEW s \in Socket, CloseFlows(s)
  PROVE  CalmInv'
<1>a. Typed /\ sock[s] \in Closure /\ sock[s].closing = "flows"
  BY TypesAre DEF SessionInv, CloseFlows
<1>b. /\ UNCHANGED <<inst, cache, row, phoneOf, linked, raced, blurred, unsaid, kept>>
      /\ FlowsOff(sock[s].prev)
  BY DEF CloseFlows, redis, whatsapp, history
<1>1. PICK k \in Closure : k = [sock[s] EXCEPT !.closing = "decide"]
  BY <1>a, ClosingType
<1>2. /\ k.stage = sock[s].stage /\ k.opening = sock[s].opening /\ k.closing = "decide"
      /\ k.reason = sock[s].reason
  BY <1>a, <1>1 DEF Closure
<1>3. Update(s, k)
  BY <1>1 DEF CloseFlows
<1>4. sock'[s].closing = "decide" /\ sock'[s].reason = sock[s].reason
  BY <1>a, <1>2, <1>3, UpdateKeeps
<1>5. active' \subseteq active /\ (active \subseteq leftOn \cup {sock[s].prev} => active' \subseteq leftOn')
  BY <1>b DEF FlowsOff
<1>6. ASSUME HandlerQuiet(s) PROVE HandlerQuiet(s)'
  <2>1. Deletes(s)' <=> Deletes(s)
    BY <1>a, <1>4 DEF Deletes
  <2>2. active \subseteq leftOn \cup {sock[s].prev}
    BY <1>6 DEF HandlerQuiet
  <2>3. active' \subseteq leftOn'
    BY <1>5, <2>2
  <2> QED  BY <1>a, <1>b, <1>4, <1>6, <2>1, <2>3 DEF HandlerQuiet
<1>7. ASSUME HandlerQuiet(s), k.closing = "no" PROVE RestQuiet'
  BY <1>2, <1>7
<1>8. RowInv'
  BY <1>b DEF CalmInv, RowInv
<1> QED  BY <1>a, <1>b, <1>2, <1>3, <1>5, <1>6, <1>7, <1>8, HandlerCalm DEF Ended

LEMMA CloseDecideCalm ==
  ASSUME SessionInv, CalmInv, NEW s \in Socket, CloseDecide(s)
  PROVE  CalmInv'
<1>a. /\ Typed /\ sock[s] \in Closure
      /\ sock[s].closing = "decide" \/ (sock[s].closing = "flows" /\ sock[s].prev = None)
  BY TypesAre DEF SessionInv, CloseDecide
<1>b. UNCHANGED <<cache, row, active, phoneOf, linked, raced, blurred, unsaid, leftOn, kept>>
  BY DEF CloseDecide, database, whatsapp, history, losses, damage
<1>1. PICK k \in Closure :
        k = [sock[s] EXCEPT !.closing = IF LogsOut(sock[s].reason) THEN "delete" ELSE "no"]
  BY <1>a, ClosingType
<1>2. /\ k.stage = sock[s].stage /\ k.opening = sock[s].opening
      /\ k.closing = IF sock[s].reason = "loggedOut" THEN "delete" ELSE "no"
      /\ k.reason = sock[s].reason
  BY <1>a, <1>1 DEF Closure, LogsOut
<1>3. Update(s, k)
  BY <1>1 DEF CloseDecide
<1>4. sock'[s].closing = k.closing
  BY <1>a, <1>2, <1>3, UpdateKeeps
<1>5. \A i \in Instance : /\ inst'[i].won = inst[i].won /\ inst'[i].reset = inst[i].reset
                          /\ inst'[i].old = inst[i].old
  <2>1. inst \in [Instance -> Service]
    BY <1>a, TypesAre
  <2> QED  BY <2>1 DEF CloseDecide, Service, Released
<1>6. HandlerQuiet(s) => active \subseteq leftOn \cup {None} /\ (row.status = "CONNECTED" => unsaid)
  BY <1>a DEF HandlerQuiet, Unwinds
<1>7. CASE None \in active
  <2>1. ~QuietInv
    BY <1>7 DEF QuietInv, FlowsInv
  <2>2. ~Clean \/ ~AloneInv \/ ~QuietInv
    BY <2>1
  <2>3. ~Clean'
    BY <1>b, <2>2 DEF CalmInv, Clean
  <2>4. RowInv' /\ LinkedInv'
    BY <1>b DEF CalmInv, RowInv, LinkedInv
  <2>5. KickedInv'
    <3>1. /\ \A t \in Socket \ {s} : sock'[t] = sock[t]
          /\ k.stage # "gone" => sock'[s] = k
          /\ k.stage = "gone" => sock'[s].stage \in {"gone", "free"}
      BY <1>a, <1>3, UpdateKeeps
    <3> QED  BY <1>2, <3>1 DEF CalmInv, KickedInv
  <2> QED  BY <2>3, <2>4, <2>5 DEF CalmInv
<1>8. CASE None \notin active
  <2>1. ASSUME HandlerQuiet(s), k.closing # "no" PROVE HandlerQuiet(s)'
    <3>1. Deletes(s)' /\ Deletes(s)
      BY <1>a, <1>2, <1>4, <2>1 DEF Deletes
    <3>2. active' \subseteq leftOn'
      BY <1>b, <1>6, <1>8, <2>1
    <3> QED  BY <1>a, <1>b, <1>6, <2>1, <3>1, <3>2 DEF HandlerQuiet
  <2>2. ASSUME HandlerQuiet(s), k.closing = "no" PROVE RestQuiet'
    <3>1. ~Deletes(s)
      BY <1>a, <1>2, <2>2 DEF Deletes
    <3>2. active' \subseteq leftOn'
      BY <1>b, <1>6, <1>8, <2>2
    <3> QED  BY <1>a, <1>b, <1>6, <2>2, <3>1, <3>2 DEF HandlerQuiet, RestQuiet
  <2>3. RowInv'
    BY <1>b DEF CalmInv, RowInv
  <2> QED  BY <1>a, <1>b, <1>2, <1>3, <1>5, <2>1, <2>2, <2>3, HandlerCalm DEF Ended
<1> QED  BY <1>7, <1>8

LEMMA CloseDeleteCalm ==
  ASSUME SessionInv, CalmInv, NEW s \in Socket, CloseDelete(s)
  PROVE  CalmInv'
<1>a. Typed /\ sock[s] \in Closure /\ sock[s].closing = "delete"
  BY TypesAre DEF SessionInv, CloseDelete
<1>b. /\ UNCHANGED <<inst, cache, active, phoneOf, linked, raced, blurred, leftOn>>
      /\ row' = NoRow /\ kept' = kept \ {"row"}
  BY DEF CloseDelete, redis, whatsapp, history
<1>1. PICK k \in Closure : k = [sock[s] EXCEPT !.closing = "cache"]
  BY <1>a, ClosingType
<1>2. /\ k.stage = sock[s].stage /\ k.opening = sock[s].opening /\ k.closing = "cache"
      /\ k.reason = sock[s].reason
  BY <1>a, <1>1 DEF Closure
<1>3. Update(s, k)
  BY <1>1 DEF CloseDelete
<1>4. sock'[s].closing = "cache"
  BY <1>a, <1>2, <1>3, UpdateKeeps
<1>5. ASSUME HandlerQuiet(s) PROVE HandlerQuiet(s)'
  <2>1. ~Deletes(s)'
    BY <1>4 DEF Deletes
  <2>2. active \subseteq leftOn
    BY <1>a, <1>5 DEF HandlerQuiet, Unwinds
  <2>3. row'.status # "CONNECTED"
    BY <1>b DEF NoRow
  <2> QED  BY <1>b, <1>4, <2>1, <2>2, <2>3 DEF HandlerQuiet
<1>6. ASSUME HandlerQuiet(s), k.closing = "no" PROVE RestQuiet'
  BY <1>2, <1>6
<1>7. RowInv'
  BY <1>b DEF RowInv
<1> QED  BY <1>a, <1>b, <1>2, <1>3, <1>5, <1>6, <1>7, HandlerCalm DEF Ended

LEMMA CloseCacheCalm ==
  ASSUME SessionInv, CalmInv, NEW s \in Socket, CloseCache(s)
  PROVE  CalmInv'
<1>a. Typed /\ sock[s] \in Closure /\ sock[s].closing = "cache"
  BY TypesAre DEF SessionInv, CloseCache
<1>b. /\ UNCHANGED <<active, row, phoneOf, linked, raced, blurred, unsaid, leftOn>>
      /\ CacheDropped
  BY DEF CloseCache, database, whatsapp, history
<1>1. PICK k \in Closure : k = [sock[s] EXCEPT !.closing = "no"]
  BY <1>a, ClosingType
<1>2. /\ k.stage = sock[s].stage /\ k.opening = sock[s].opening /\ k.closing = "no"
      /\ k.reason = sock[s].reason
  BY <1>a, <1>1 DEF Closure
<1>3. Update(s, k)
  BY <1>1 DEF CloseCache
<1>4. \A i \in Instance : /\ inst'[i].won = inst[i].won /\ inst'[i].reset = inst[i].reset
                          /\ inst'[i].old = inst[i].old
  <2>1. inst \in [Instance -> Service]
    BY <1>a, TypesAre
  <2> QED  BY <2>1 DEF CloseCache, Service, Released
<1>5. ASSUME HandlerQuiet(s) PROVE RestQuiet'
  <2>1. ~Deletes(s) /\ ~Unwinds(s) /\ sock[s].closing # "status"
    BY <1>a DEF Deletes, Unwinds
  <2>2. "cache" \in kept' \/ cache' = None
    BY <1>b DEF CacheDropped
  <2>3. "row" \in kept' <=> "row" \in kept
    BY <1>b DEF CacheDropped
  <2> QED  BY <1>b, <1>5, <2>1, <2>2, <2>3 DEF HandlerQuiet, RestQuiet
<1>6. RowInv'
  BY <1>b DEF CalmInv, RowInv
<1> QED  BY <1>a, <1>b, <1>2, <1>3, <1>4, <1>5, <1>6, HandlerCalm DEF Ended

----------------------------------------------------------------------------
(* startSession *)

LEMMA BuildSockets ==
  ASSUME SessionInv, NEW i \in Instance, NEW r \in Service, Build(i, r)
  PROVE  /\ \A t \in Socket : sock'[t].stage # "kicked" \/ sock'[t] = sock[t]
         /\ \E s \in Socket, c \in {cache, None} :
              /\ sock[s] = Free /\ \A t \in Socket \ {s} : sock'[t] = sock[t]
              /\ sock'[s].at = i /\ sock'[s].creds = c
              /\ sock'[s].closing = "no" /\ sock'[s].opening = "no"
              /\ sock'[s].stage = IF c = None THEN "db" ELSE "version"
<1>a. sock \in [Socket -> Closure]
  BY TypesAre DEF SessionInv
<1>1. PICK s \in Socket, c \in {cache, None} :
        /\ sock[s] = Free
        /\ sock' = [sock EXCEPT ![s] =
             [Free EXCEPT !.at = i, !.creds = c,
                          !.stage = IF c = None THEN "db" ELSE "version"]]
  BY DEF Build
<1>2. /\ \A t \in Socket \ {s} : sock'[t] = sock[t]
      /\ sock'[s].closing = "no" /\ sock'[s].opening = "no" /\ sock'[s].creds = c
      /\ sock'[s].stage = (IF c = None THEN "db" ELSE "version") /\ sock'[s].at = i
  BY <1>a, <1>1 DEF Free
<1>3. \A t \in Socket : sock'[t].stage # "kicked" \/ sock'[t] = sock[t]
  BY <1>2
<1> QED  BY <1>1, <1>2, <1>3

\* The first socket in use.
LEMMA BuildCalm ==
  ASSUME SessionInv, NEW i \in Instance, NEW r \in Service, Build(i, r),
         UNCHANGED <<cache, row, active, phoneOf, linked, damage>>,
         r.reset = "no", r.old = None,
         \A j \in Instance \ {i} : inst[j].reset = "no" /\ inst[j].old = None,
         \A t \in Socket : ~InUse(t) /\ ~Ended(t)
  PROVE  AloneInv' /\ (Orderly /\ RestQuiet => QuietInv')
<1>1. PICK s \in Socket, c \in {cache, None} :
        /\ sock[s] = Free /\ \A t \in Socket \ {s} : sock'[t] = sock[t]
        /\ sock'[s].at = i /\ sock'[s].creds = c
        /\ sock'[s].closing = "no" /\ sock'[s].opening = "no"
        /\ sock'[s].stage = IF c = None THEN "db" ELSE "version"
  BY BuildSockets
<1>2. \A j \in Instance : inst'[j].reset = "no" /\ inst'[j].old = None
  <2>1. inst \in [Instance -> Service]
    BY TypesAre DEF SessionInv
  <2>2. inst' = [inst EXCEPT ![i] = [r EXCEPT !.pending = TRUE]]
    BY DEF Build
  <2>3. inst'[i].reset = "no" /\ inst'[i].old = None
    BY <2>1, <2>2 DEF Service
  <2>4. \A j \in Instance \ {i} : inst'[j] = inst[j]
    BY <2>1, <2>2
  <2> QED  BY <2>3, <2>4
<1>3. InUse(s)' /\ ~Open(s)' /\ \A t \in Socket : ~Ended(t)' /\ (t # s => ~InUse(t)')
  BY <1>1 DEF InUse, Building, Live, Open, Ended
<1>4. Lone(s)'
  BY <1>1, <1>2, <1>3 DEF Lone
<1>5. AloneInv'
  BY <1>2, <1>3, AloneNone DEF NoReset
<1>6. ASSUME Orderly, RestQuiet PROVE QuietInv'
  <2>1. Orderly'
    BY <1>1, <1>6 DEF Orderly, Open
  <2>2. SameCreds(s)'
    BY <1>1, <1>6 DEF SameCreds, RestQuiet, damage
  <2>3. inst'[sock'[s].at].reset = "no"
    BY <1>1, <1>2
  <2>4. LoneQuiet(s)'
    BY <1>3, <1>6, <2>2, <2>3 DEF LoneQuiet, RestQuiet, damage
  <2> QED  BY <1>4, <2>1, <2>4, LoneMakes
<1> QED  BY <1>5, <1>6

LEMMA RestsAlone ==
  ASSUME SessionInv, NoReset, \A t \in Socket : ~InUse(t) /\ ~Ended(t)
  PROVE  Rests
BY DEF SessionInv, PointsInv, Points, Rests, NoReset

\* Whoever may build, with the lock held and nothing in the map, finds no socket in use.
LEMMA MayBuild ==
  ASSUME SessionInv, Clean, AloneInv, NoReset, NEW i \in Instance,
         inst[i].held, ~inst[i].pending, inst[i].session = None
  PROVE  \A t \in Socket : ~InUse(t)
<1> SUFFICES ASSUME NEW t \in Socket, InUse(t) PROVE FALSE
  OBVIOUS
<1>1. sock[t].at \in Instance
  BY DEF SessionInv, OwnedInv, InUse, Building, Live
<1>2. PICK j \in Instance : j = sock[t].at
  BY <1>1
<1>3. ~InReset(t)
  <2>1. inst[j].old = None
    BY DEF SessionInv, PointsInv, Points, NoReset
  <2> QED  BY <1>2, <2>1, SessionAssumption DEF InReset
<1>4. Stands(t, j)
  BY <1>2, <1>3, InUseStands
<1>5. Protected(i) /\ Protected(j)
  BY DEF SessionInv, LockInv, Clean
<1>6. i = j
  BY <1>4, <1>5 DEF Protected, KeyHeld, OneStands, Stands
<1> QED  BY <1>4, <1>5, <1>6, SessionAssumption DEF Protected, OneStands, Stands

\* Nobody sees the instance's own flags, timers and lock.
LEMMA AloneFields ==
  ASSUME AloneInv, UNCHANGED sock,
         \A j \in Instance : /\ inst'[j].won => inst[j].won
                             /\ inst'[j].old = inst[j].old /\ inst'[j].reset = inst[j].reset
  PROVE  AloneInv'
<1>1. NobodyStands => NobodyStands'
  BY DEF NobodyStands, Stands, BuiltAt, LiveAt, At, Building, Live
<1>2. NoReset => NoReset'
  BY DEF NoReset
<1> QED  BY <1>1, <1>2, AloneKept DEF Ended

LEMMA QuietFields ==
  ASSUME SessionInv, QuietInv, UNCHANGED <<sock, cache, row, active, phoneOf, linked, damage>>,
         \A j \in Instance : /\ inst'[j].old = inst[j].old /\ inst'[j].reset = inst[j].reset
                             /\ inst'[j].prev = inst[j].prev
  PROVE  QuietInv'
<1>1. \A t \in Socket : (Open(t)' <=> Open(t)) /\ (Deletes(t)' <=> Deletes(t))
  BY DEF Open, Deletes
<1>2. cache' \in {cache, row.creds} /\ UNCHANGED <<unsaid, leftOn, kept>>
  BY DEF damage
<1> QED  BY <1>1, <1>2, QuietFrame, OldIsLive

LEMMA OwnBusiness ==
  ASSUME SessionInv, CalmInv, Clean' => Clean,
         \A j \in Instance : /\ inst'[j].won => inst[j].won
                             /\ inst'[j].old = inst[j].old /\ inst'[j].reset = inst[j].reset
                             /\ inst'[j].prev = inst[j].prev,
         UNCHANGED <<sock, cache, row, active, phoneOf, linked, damage>>
  PROVE  CalmInv'
<1>1. RowInv' /\ LinkedInv' /\ KickedInv'
  BY DEF CalmInv, RowInv, LinkedInv, KickedInv
<1> QED  BY <1>1, AloneFields, QuietFields, CalmStep

\* What a start leaves: no other is at work, or it races with it.
LEMMA StartIsClean ==
  ASSUME NEW i \in Instance, NEW r \in Service, Start(i, r), Clean'
  PROVE  /\ Clean /\ r.reset = "no" /\ \A j \in Instance \ {i} : inst[j].reset = "no"
         /\ \A t \in Socket : ~Ended(t)
<1>1. raced \subseteq raced' /\ (Resetting(i, r) => i \in raced')
  BY DEF Start
<1>2. ~blurred' => ~blurred /\ \A t \in Socket : ~Ended(t)
  BY DEF Start, Ended
<1> QED  BY <1>1, <1>2 DEF Clean, Resetting

LEMMA StartBranches ==
  ASSUME NEW i \in Instance, NEW r \in Service, Start(i, r)
  PROVE  /\ UNCHANGED damage
         /\ \/ sock' = sock /\ inst' = [inst EXCEPT ![i] = r]
            \/ sock' = sock /\ inst' = [inst EXCEPT ![i] = [r EXCEPT !.won = TRUE]]
            \/ Build(i, r) /\ r.held /\ ~r.pending
BY DEF Start

LEMMA StartKicks ==
  ASSUME SessionInv, CalmInv, NEW i \in Instance, NEW r \in Service, Start(i, r),
         UNCHANGED <<row, phoneOf, linked>>
  PROVE  RowInv' /\ LinkedInv' /\ KickedInv'
<1>1. \A t \in Socket : sock'[t].stage # "kicked" \/ sock'[t] = sock[t]
  <2>1. CASE Build(i, r)
    BY <2>1, BuildSockets
  <2> QED  BY <2>1, StartBranches
<1> QED  BY <1>1 DEF CalmInv, RowInv, LinkedInv, KickedInv

LEMMA StartCalm ==
  ASSUME SessionInv, CalmInv, NEW i \in Instance, NEW r \in Service, SameRecord(i, r),
         r.session = None, r.reset = inst[i].reset, r.prev = inst[i].prev, Start(i, r),
         UNCHANGED <<cache, row, active, phoneOf, linked>>
  PROVE  CalmInv'
<1>a. inst \in [Instance -> Service]
  BY TypesAre DEF SessionInv
<1>1. Clean' => /\ Clean /\ NoReset /\ r.reset = "no"
                /\ \A t \in Socket : ~Ended(t)
  BY StartIsClean DEF NoReset
<1>2. /\ UNCHANGED damage
      /\ \/ sock' = sock /\ inst' = [inst EXCEPT ![i] = r]
         \/ sock' = sock /\ inst' = [inst EXCEPT ![i] = [r EXCEPT !.won = TRUE]]
         \/ Build(i, r) /\ r.held /\ ~r.pending
  BY StartBranches
<1>3. ASSUME Clean', AloneInv, QuietInv PROVE AloneInv' /\ QuietInv'
  <2>1. CASE sock' = sock /\ (\/ inst' = [inst EXCEPT ![i] = r]
                              \/ inst' = [inst EXCEPT ![i] = [r EXCEPT !.won = TRUE]])
    <3>1. \A j \in Instance : /\ inst'[j].old = inst[j].old /\ inst'[j].reset = inst[j].reset
                              /\ inst'[j].prev = inst[j].prev
      BY <1>a, <2>1 DEF Service, SameRecord
    <3>2. (\A t \in Socket : ~Ended(t)') /\ NoReset'
      BY <1>1, <1>3, <2>1, <3>1 DEF Ended, NoReset
    <3> QED  BY <1>2, <1>3, <2>1, <3>1, <3>2, AloneNone, QuietFields
  <2>2. CASE Build(i, r) /\ r.held /\ ~r.pending
    <3>1. /\ Clean /\ NoReset /\ inst[i].held /\ ~inst[i].pending /\ inst[i].session = None
          /\ \A t \in Socket : ~Ended(t)
      BY <1>1, <1>3, <2>2 DEF SameRecord
    <3>2. \A t \in Socket : ~InUse(t)
      BY <1>3, <3>1, MayBuild
    <3>3. Rests
      BY <3>1, <3>2, RestsAlone
    <3>4. Orderly /\ RestQuiet
      BY <1>3, <3>3, RestSees
    <3>5. /\ r.reset = "no" /\ r.old = None
          /\ \A j \in Instance \ {i} : inst[j].reset = "no" /\ inst[j].old = None
      BY <1>1, <1>3, <3>3 DEF Rests, SameRecord
    <3> QED  BY <1>2, <2>2, <3>1, <3>2, <3>4, <3>5, BuildCalm
  <2> QED  BY <1>2, <2>1, <2>2
<1>4. Clean' => AloneInv /\ QuietInv
  BY <1>1 DEF CalmInv
<1> QED  BY <1>3, <1>4, StartKicks DEF CalmInv

\* The start at the end of forceResetSession.
LEMMA ResetStartCalm ==
  ASSUME SessionInv, CalmInv, NEW i \in Instance, ResetStart(i)
  PROVE  CalmInv'
<1>a. inst \in [Instance -> Service]
  BY TypesAre DEF SessionInv
<1>b. UNCHANGED <<cache, row, active, phoneOf, linked>> /\ inst[i].reset = "start"
  BY DEF ResetStart, database, whatsapp
<1>1. PICK r \in Service : r = [inst[i] EXCEPT !.reset = "no"]
  BY <1>a DEF Service
<1>2. r.reset = "no" /\ r.old = inst[i].old
  BY <1>a, <1>1 DEF Service
<1>3. Start(i, r)
  BY <1>1 DEF ResetStart
<1>4. Clean' => Clean /\ \A t \in Socket : ~Ended(t)
  BY <1>3, StartIsClean
<1>5. /\ UNCHANGED damage
      /\ \/ sock' = sock /\ inst' = [inst EXCEPT ![i] = r]
         \/ sock' = sock /\ inst' = [inst EXCEPT ![i] = [r EXCEPT !.won = TRUE]]
         \/ Build(i, r)
  BY <1>3, StartBranches
<1>6. ASSUME AloneInv, QuietInv PROVE AloneInv' /\ QuietInv'
  <2>1. inst[i].old = None
    BY <1>b DEF SessionInv, PointsInv, Points
  <2>2. Resets(i)
    BY <1>6, <1>b, <2>1, ResetIsAlone
  <2>3. Orderly /\ ResetQuiet(i)
    BY <1>6, <2>2, ResetSees
  <2>4. RestQuiet
    BY <1>b, <2>3 DEF ResetQuiet, RestQuiet
  <2>5. CASE sock' = sock /\ (\/ inst' = [inst EXCEPT ![i] = r]
                              \/ inst' = [inst EXCEPT ![i] = [r EXCEPT !.won = TRUE]])
    <3>1. \A j \in Instance : inst'[j].reset = "no" /\ inst'[j].old = None
      <4>1. inst'[i].reset = "no" /\ inst'[i].old = None
        BY <1>a, <1>2, <2>1, <2>5 DEF Service
      <4>2. \A j \in Instance \ {i} : inst'[j] = inst[j]
        BY <1>a, <2>5
      <4> QED  BY <2>2, <4>1, <4>2 DEF Resets
    <3>2. \A t \in Socket : ~InUse(t)' /\ ~Ended(t)'
      BY <2>2, <2>5 DEF Resets, InUse, Building, Live, Ended
    <3>3. Rests' /\ AloneInv'
      BY <3>1, <3>2, AloneNone DEF Rests, NoReset
    <3>4. Orderly' /\ RestQuiet'
      BY <1>b, <1>5, <2>3, <2>4, <2>5 DEF Orderly, RestQuiet, Open, damage
    <3> QED  BY <3>3, <3>4, RestMakes
  <2>6. CASE Build(i, r)
    <3>1. /\ \A j \in Instance \ {i} : inst[j].reset = "no" /\ inst[j].old = None
          /\ \A t \in Socket : ~InUse(t) /\ ~Ended(t)
      BY <2>2 DEF Resets
    <3> QED  BY <1>b, <1>2, <1>5, <2>1, <2>3, <2>4, <2>6, <3>1, BuildCalm
  <2> QED  BY <1>5, <2>5, <2>6
<1>7. Clean' => AloneInv /\ QuietInv
  BY <1>4 DEF CalmInv
<1> QED  BY <1>b, <1>3, <1>6, <1>7, StartKicks DEF CalmInv

LEMMA StartUnlessMappedCalm ==
  ASSUME SessionInv, CalmInv, NEW i \in Instance, NEW r \in Service, SameRecord(i, r),
         r.reset = inst[i].reset, r.prev = inst[i].prev, StartUnlessMapped(i, r),
         UNCHANGED <<cache, row, active, phoneOf, linked>>
  PROVE  CalmInv'
<1>1. CASE r.session # None
  <2>1. inst' = [inst EXCEPT ![i] = r] /\ UNCHANGED <<sock, raced, blurred, damage>>
    BY <1>1 DEF StartUnlessMapped, history, losses
  <2>2. \A j \in Instance : /\ inst'[j].won = inst[j].won /\ inst'[j].old = inst[j].old
                            /\ inst'[j].reset = inst[j].reset /\ inst'[j].prev = inst[j].prev
    BY <2>1, TypesAre DEF SessionInv, SameRecord
  <2> QED  BY <2>1, <2>2, OwnBusiness DEF Clean
<1>2. CASE r.session = None
  BY <1>2, StartCalm DEF StartUnlessMapped
<1> QED  BY <1>1, <1>2

LEMMA CallerCalm ==
  ASSUME SessionInv, CalmInv, NEW i \in Instance,
         \/ Reconcile(i) \/ SendNeedsSession(i) \/ ReconnectTimer(i) \/ StartRequest(i)
         \/ BootStart(i)
  PROVE  CalmInv'
<1>a. inst \in [Instance -> Service] /\ inst[i] \in Service
  BY TypesAre DEF SessionInv
<1>b. SameRecord(i, inst[i])
  BY DEF SameRecord
<1>c. UNCHANGED <<cache, row, active, phoneOf, linked>>
  BY DEF Reconcile, SendNeedsSession, ReconnectTimer, StartRequest, BootStart,
         database, whatsapp
<1>1. CASE Reconcile(i) \/ SendNeedsSession(i)
  <2>1. Start(i, inst[i]) /\ inst[i].session = None
    BY <1>1 DEF Reconcile, SendNeedsSession
  <2> QED  BY <1>a, <1>b, <1>c, <2>1, StartCalm
<1>2. CASE ReconnectTimer(i)
  <2>1. PICK r \in Service : r = [inst[i] EXCEPT !.timers = @ - 1]
    BY <1>2, <1>a DEF ReconnectTimer, Service
  <2>2. SameRecord(i, r) /\ r.reset = inst[i].reset /\ r.prev = inst[i].prev
    BY <1>a, <2>1 DEF Service, SameRecord
  <2>3. StartUnlessMapped(i, r)
    BY <1>2, <2>1 DEF ReconnectTimer
  <2> QED  BY <1>c, <2>2, <2>3, StartUnlessMappedCalm
<1>3. CASE StartRequest(i)
  <2>1. StartUnlessMapped(i, inst[i])
    BY <1>3 DEF StartRequest
  <2> QED  BY <1>a, <1>b, <1>c, <2>1, StartUnlessMappedCalm
<1>4. CASE BootStart(i)
  <2>1. PICK r \in Service : r = [inst[i] EXCEPT !.boot = FALSE]
    BY <1>a DEF Service
  <2>2. SameRecord(i, r) /\ r.reset = inst[i].reset /\ r.prev = inst[i].prev
    BY <1>a, <2>1 DEF Service, SameRecord
  <2>3. CASE row = NoRow
    <3>1. inst' = [inst EXCEPT ![i] = r] /\ UNCHANGED <<sock, raced, blurred, damage>>
      BY <1>4, <2>1, <2>3 DEF BootStart, history, losses
    <3>2. \A j \in Instance : /\ inst'[j].won = inst[j].won /\ inst'[j].old = inst[j].old
                              /\ inst'[j].reset = inst[j].reset /\ inst'[j].prev = inst[j].prev
      BY <1>a, <2>2, <3>1 DEF SameRecord
    <3> QED  BY <1>c, <3>1, <3>2, OwnBusiness DEF Clean
  <2>4. CASE row # NoRow
    <3>1. StartUnlessMapped(i, r)
      BY <1>4, <2>1, <2>4 DEF BootStart
    <3> QED  BY <1>c, <2>2, <3>1, StartUnlessMappedCalm
  <2> QED  BY <2>3, <2>4
<1> QED  BY <1>1, <1>2, <1>3, <1>4

LEMMA AcquiredCalm ==
  ASSUME SessionInv, CalmInv, NEW i \in Instance, Acquired(i)
  PROVE  CalmInv'
<1>a. inst \in [Instance -> Service] /\ inst[i].won
  BY TypesAre DEF SessionInv, Acquired
<1>b. UNCHANGED <<cache, row, active, phoneOf, linked, raced, blurred, damage>>
  BY DEF Acquired, redis, database, whatsapp, history
<1>1. PICK r \in Service : r = [inst[i] EXCEPT !.won = FALSE, !.held = TRUE]
  BY <1>a DEF Service
<1>2. Build(i, r) /\ r.reset = inst[i].reset /\ r.old = inst[i].old
  BY <1>a, <1>1 DEF Acquired, Service
<1>3. ASSUME Clean, AloneInv PROVE AloneInv' /\ (QuietInv => QuietInv')
  <2>1. NoReset /\ \A t \in Socket : ~Ended(t) /\ ~InUse(t)
    BY <1>a, <1>3, InUseIsLone DEF AloneInv, NobodyStands
  <2>2. Rests
    BY <2>1, RestsAlone
  <2>3. /\ r.reset = "no" /\ r.old = None
        /\ \A j \in Instance \ {i} : inst[j].reset = "no" /\ inst[j].old = None
    BY <1>2, <2>2 DEF Rests
  <2>4. AloneInv' /\ (Orderly /\ RestQuiet => QuietInv')
    BY <1>b, <1>2, <2>1, <2>3, BuildCalm
  <2> QED  BY <2>2, <2>4, RestSees
<1>4. RowInv' /\ LinkedInv'
  BY <1>b DEF CalmInv, RowInv, LinkedInv
<1>5. KickedInv'
  <2>1. \A t \in Socket : sock'[t].stage # "kicked" \/ sock'[t] = sock[t]
    BY <1>2, BuildSockets
  <2> QED  BY <2>1 DEF CalmInv, KickedInv
<1> QED  BY <1>b, <1>3, <1>4, <1>5, CalmStep DEF Clean

----------------------------------------------------------------------------
(* Requests with a number: pending flows go on, or forceResetSession *)

LEMMA StartSameNumberCalm ==
  ASSUME SessionInv, CalmInv, NEW i \in Instance, StartSameNumber(i)
  PROVE  CalmInv'
<1>a. inst[i] \in Service
  BY TypesAre DEF SessionInv
<1>1. PICK s \in Socket : s = inst[i].session
  BY <1>a DEF StartSameNumber, Service
<1>b. /\ UNCHANGED <<inst, sock, cache, row, phoneOf, linked, raced, blurred, unsaid, kept>>
      /\ active' = active \cup {CurrentPhone(s)} /\ CurrentPhone(s) # None
      /\ leftOn' = IF Open(s) /\ row.phone = CurrentPhone(s) THEN leftOn
                   ELSE leftOn \cup {CurrentPhone(s)}
  BY <1>1 DEF StartSameNumber, process, redis, whatsapp, history, Open
<1>2. sock[s].at = i /\ Live(s)
  BY <1>1 DEF SessionInv, PointsInv, Points, LiveAt, At
<1>3. AloneInv => AloneInv'
  BY <1>b, AloneFields
<1>4. ASSUME Clean, AloneInv, QuietInv PROVE QuietInv'
  <2>1. Lone(s) /\ Orderly /\ LoneQuiet(s)
    BY <1>2, <1>4, InUseIsLone, LoneSees DEF InUse
  <2>2. /\ Open(s)' <=> Open(s)
        /\ CurrentPhone(s)' = CurrentPhone(s)
        /\ SameCreds(s)' <=> SameCreds(s)
        /\ InUse(s)'
    BY <1>2, <1>b DEF Open, CurrentPhone, SameCreds, InUse, Live
  <2>3. ASSUME NEW p \in active' \ leftOn'
        PROVE  CurrentPhone(s) = p
               /\ (inst[sock[s].at].reset # "no" \/ (Open(s) /\ row.phone = p))
    <3>1. CASE p \in active \ leftOn
      BY <2>1, <3>1 DEF LoneQuiet
    <3>2. CASE p = CurrentPhone(s)
      BY <1>b, <2>3, <3>2
    <3> QED  BY <1>b, <2>3, <3>1, <3>2
  <2>4. row.phone = CurrentPhone(s) \/ CurrentPhone(s) \in leftOn => 
        row.phone = CurrentPhone(s) \/ CurrentPhone(s) \in leftOn'
    BY <1>b
  <2>5. LoneQuiet(s)'
    BY <1>b, <2>1, <2>2, <2>3, <2>4 DEF LoneQuiet
  <2> QED  BY <1>b, <1>4, <2>1, <2>2, <2>5, LoneGoesOn DEF Orderly
<1>5. RowInv' /\ LinkedInv' /\ KickedInv'
  BY <1>b DEF CalmInv, RowInv, LinkedInv, KickedInv
<1> QED  BY <1>b, <1>3, <1>4, <1>5, CalmStep DEF Clean

LEMMA StartOtherNumberCalm ==
  ASSUME SessionInv, CalmInv, NEW i \in Instance, StartOtherNumber(i)
  PROVE  CalmInv'
<1>a. inst \in [Instance -> Service] /\ inst[i] \in Service
  BY TypesAre DEF SessionInv
<1>b. UNCHANGED <<sock, cache, row, active, phoneOf, linked, raced, blurred, unsaid, leftOn, kept>>
  BY DEF StartOtherNumber, database, whatsapp, history, losses, damage
<1>1. PICK s \in Socket : s = inst[i].session /\ CurrentPhone(s) # None
  BY <1>a DEF StartOtherNumber, Service
<1>2. /\ inst'[i].won = inst[i].won /\ inst'[i].old = s /\ inst'[i].reset = "logout"
      /\ inst'[i].prev = CurrentPhone(s)
      /\ \A j \in Instance \ {i} : inst'[j] = inst[j]
  <2>1. CurrentPhone(s) \in Phone \cup {None}
    BY CurrentPhoneType DEF SessionInv
  <2> QED  BY <1>a, <1>1, <2>1 DEF StartOtherNumber, Released, Service
<1>3. sock[s].at = i /\ Live(s) /\ ~InReset(s)
  BY <1>1 DEF SessionInv, PointsInv, Points, LiveAt, At, InReset
<1>4. ASSUME Clean, AloneInv
      PROVE  Lone(s) /\ Lone(s)' /\ AloneInv' /\ inst[i].reset = "no"
  <2>1. Lone(s) /\ \A j \in Instance : ~inst[j].won
    BY <1>3, <1>4, InUseIsLone DEF InUse
  <2>2. \A j \in Instance : inst[j].reset = "no" /\ inst[j].old = None
    BY <1>3, <2>1 DEF Lone, InReset
  <2>3. \A j \in Instance : inst'[j].reset # "no" \/ inst'[j].old # None => j = i
    BY <1>2, <2>2
  <2>4. \A t \in Socket : ~Ended(t)' /\ (t # s => ~InUse(t)')
    BY <1>b, <2>1 DEF Lone, Ended, InUse, Building, Live
  <2>5. Lone(s)'
    BY <1>b, <1>2, <1>3, <2>3, <2>4 DEF Lone, InUse, Live
  <2>6. ASSUME NEW t \in Socket, NEW j \in Instance PROVE ~Stands(t, j)'
    <3>1. CASE t # s
      BY <2>4, <3>1 DEF Stands, BuiltAt, LiveAt, InUse
    <3>2. CASE t = s
      BY <1>b, <1>2, <1>3, <3>2 DEF Stands, BuiltAt, LiveAt, At, Building, Live
    <3> QED  BY <3>1, <3>2
  <2>7. \A j \in Instance : ~inst'[j].won
    BY <1>2, <2>1
  <2>8. NobodyStands'
    BY <2>6, <2>7 DEF NobodyStands
  <2>9. AloneInv'
    BY <2>3, <2>4, <2>8 DEF AloneInv
  <2> QED  BY <2>1, <2>2, <2>5, <2>9
<1>5. ASSUME Clean, AloneInv, QuietInv PROVE QuietInv'
  <2>1. Lone(s)' /\ Orderly /\ LoneQuiet(s) /\ inst[i].reset = "no"
    BY <1>4, <1>5, LoneSees
  <2>2. /\ Open(s)' <=> Open(s)
        /\ CurrentPhone(s)' = CurrentPhone(s)
        /\ SameCreds(s)' <=> SameCreds(s)
        /\ \A t \in Socket : Open(t)' <=> Open(t)
    BY <1>b DEF Open, CurrentPhone, SameCreds
  <2>3. \A p \in active \ leftOn : CurrentPhone(s) = p
    BY <2>1 DEF LoneQuiet
  <2>4. sock'[s].at = i
    BY <1>b, <1>3
  <2>5. LoneQuiet(s)'
    BY <1>b, <1>1, <1>2, <2>1, <2>2, <2>3, <2>4 DEF LoneQuiet
  <2>6. Orderly'
    BY <1>b, <2>1, <2>2 DEF Orderly
  <2> QED  BY <2>1, <2>5, <2>6, LoneMakes
<1>6. RowInv' /\ LinkedInv' /\ KickedInv'
  BY <1>b DEF CalmInv, RowInv, LinkedInv, KickedInv
<1> QED  BY <1>b, <1>4, <1>5, <1>6, CalmStep DEF Clean

LEMMA ResetLogoutCalm ==
  ASSUME SessionInv, CalmInv, NEW i \in Instance, ResetLogout(i)
  PROVE  CalmInv'
<1>a. /\ inst \in [Instance -> Service] /\ inst[i] \in Service
      /\ sock \in [Socket -> Closure] /\ None \notin Socket
  BY TypesAre, SessionAssumption DEF SessionInv
<1>b. /\ UNCHANGED <<cache, row, active, phoneOf, raced, unsaid, leftOn, kept>>
      /\ linked' \subseteq linked /\ inst[i].reset = "logout"
      /\ Clean' => Clean
  BY DEF ResetLogout, redis, database, losses, damage, Clean
<1>1. /\ inst'[i].won = inst[i].won /\ inst'[i].old = None /\ inst'[i].reset = "row"
      /\ inst'[i].prev = inst[i].prev
      /\ \A j \in Instance \ {i} : inst'[j] = inst[j]
  <2>1. inst' = [inst EXCEPT ![i] = [inst[i] EXCEPT !.reset = "row", !.old = None]]
    BY DEF ResetLogout
  <2> QED  BY <1>a, <2>1 DEF Service
<1>2. \A t \in Socket :
        /\ t # inst[i].old => sock'[t] = sock[t]
        /\ t = inst[i].old => /\ sock'[t].stage \in {"gone", "free"}
                              /\ sock'[t].closing = sock[t].closing
                              /\ sock'[t].opening = sock[t].opening
                              /\ Clean' => sock[t].opening = "no"
  <2>1. CASE inst[i].old = None
    BY <1>a, <2>1 DEF ResetLogout, Update
  <2>2. CASE inst[i].old # None
    <3>1. PICK s \in Socket : s = inst[i].old
      BY <1>a, <2>2 DEF Service
    <3>2. PICK k \in Closure : k = [sock[s] EXCEPT !.stage = "gone"]
      BY <1>a, StageType
    <3>3. k.stage = "gone" /\ k.closing = sock[s].closing /\ k.opening = sock[s].opening
      BY <1>a, <3>2 DEF Closure
    <3>4. Update(s, k) /\ (Clean' => sock[s].opening = "no")
      BY <3>1, <3>2 DEF ResetLogout, Clean
    <3> QED  BY <3>1, <3>3, <3>4, UpdateKeeps DEF SessionInv
  <2> QED  BY <2>1, <2>2
<1>3. ASSUME Clean, AloneInv
      PROVE  /\ Resets(i)' /\ AloneInv'
             /\ \/ inst[i].old = None /\ Resets(i)
                \/ \E s \in Socket : s = inst[i].old /\ Lone(s) /\ sock[s].at = i
  <2>1. NobodyStands /\ \A j \in Instance : ~inst[j].won
    BY <1>b, <1>3 DEF AloneInv, NoReset, NobodyStands
  <2>2. \/ inst[i].old = None /\ Resets(i)
        \/ \E s \in Socket : s = inst[i].old /\ Lone(s) /\ sock[s].at = i
    <3>1. CASE inst[i].old = None
      BY <1>b, <1>3, <3>1, ResetIsAlone
    <3>2. CASE inst[i].old # None
      <4>1. PICK s \in Socket : s = inst[i].old
        BY <1>a, <3>2 DEF Service
      <4>2. Live(s) /\ sock[s].at = i
        BY <4>1 DEF SessionInv, PointsInv, Points, LiveAt, At
      <4> QED  BY <1>3, <4>1, <4>2, InUseIsLone DEF InUse
    <3> QED  BY <3>1, <3>2
  <2>3. \A t \in Socket : ~Ended(t) /\ (t # inst[i].old => ~InUse(t))
    BY <2>2 DEF Resets, Lone
  <2>4. \A t \in Socket : ~Ended(t)' /\ ~InUse(t)'
    BY <1>2, <2>3 DEF Ended, InUse, Building, Live
  <2>5. \A j \in Instance \ {i} : inst[j].reset = "no" /\ inst[j].old = None
    BY <2>2 DEF Resets, Lone
  <2>6. Resets(i)'
    BY <1>1, <2>4, <2>5 DEF Resets
  <2>7. \A j \in Instance : ~inst'[j].won
    BY <1>1, <2>1
  <2>8. NobodyStands'
    BY <2>4, <2>7 DEF NobodyStands, Stands, BuiltAt, LiveAt, InUse
  <2>9. \A j \in Instance : inst'[j].reset # "no" => j = i
    BY <1>1, <2>5
  <2>10. AloneInv'
    BY <2>4, <2>8, <2>9 DEF AloneInv
  <2> QED  BY <2>2, <2>6, <2>10
<1>4. ASSUME Clean, Clean', AloneInv, QuietInv PROVE QuietInv'
  <2>1. Resets(i)'
    BY <1>3, <1>4
  <2>2. /\ Orderly /\ (\A p \in active \ leftOn : inst[i].prev = p)
        /\ "cache" \in kept \/ cache \in {None, row.creds}
    <3>1. CASE inst[i].old = None /\ Resets(i)
      BY <1>b, <1>4, <3>1, ResetSees DEF ResetQuiet
    <3>2. CASE \E s \in Socket : s = inst[i].old /\ Lone(s) /\ sock[s].at = i
      <4>1. PICK s \in Socket : s = inst[i].old /\ Lone(s) /\ sock[s].at = i
        BY <3>2
      <4>2. Orderly /\ LoneQuiet(s)
        BY <1>4, <4>1, LoneSees
      <4>3. inst[i].prev = CurrentPhone(s)
        BY <1>b, <4>1, <4>2 DEF LoneQuiet
      <4>4. \A p \in active \ leftOn : inst[i].prev = p
        BY <4>2, <4>3 DEF LoneQuiet
      <4>5. "cache" \in kept \/ cache \in {None, row.creds}
        BY <4>2 DEF LoneQuiet
      <4> QED  BY <4>2, <4>4, <4>5
    <3> QED  BY <1>3, <1>4, <3>1, <3>2
  <2>3. Orderly'
    <3>1. None \notin active'
      BY <1>b, <2>2 DEF Orderly
    <3>2. ASSUME NEW t \in Socket, sock'[t].opening # "no" PROVE Open(t)'
      <4>1. t # inst[i].old /\ sock'[t] = sock[t]
        BY <1>2, <1>4, <3>2
      <4> QED  BY <2>2, <3>2, <4>1 DEF Orderly, Open
    <3> QED  BY <3>1, <3>2 DEF Orderly
  <2>4. ResetQuiet(i)'
    BY <1>b, <1>1, <2>2 DEF ResetQuiet
  <2> QED  BY <2>1, <2>3, <2>4, ResetMakes
<1>5. RowInv' /\ LinkedInv'
  BY <1>b DEF CalmInv, RowInv, LinkedInv
<1>6. KickedInv'
  BY <1>2 DEF CalmInv, KickedInv
<1> QED  BY <1>b, <1>3, <1>4, <1>5, <1>6, CalmStep

\* forceResetSession goes on, with no socket any more.
LEMMA ResetGoesOnCalm ==
  ASSUME SessionInv, CalmInv, NEW i \in Instance, inst[i].reset \notin {"no", "logout"},
         NEW step \in {"cache", "flows", "start"},
         inst'[i].reset = step, inst'[i].old = inst[i].old, inst'[i].won = inst[i].won,
         \A j \in Instance \ {i} : inst'[j] = inst[j],
         UNCHANGED <<sock, phoneOf, linked, raced, blurred>>, active' \subseteq active,
         RowInv', ResetQuiet(i) => ResetQuiet(i)'
  PROVE  CalmInv'
<1>1. inst[i].old = None
  BY DEF SessionInv, PointsInv, Points
<1>2. ASSUME AloneInv PROVE Resets(i) /\ Resets(i)' /\ AloneInv'
  <2>1. Resets(i) /\ NobodyStands
    BY <1>1, <1>2, ResetIsAlone
  <2>2. \A t \in Socket : ~InUse(t)' /\ ~Ended(t)'
    BY <2>1 DEF Resets, InUse, Building, Live, Ended
  <2>3. \A j \in Instance : inst'[j].old = None /\ (j # i => inst'[j].reset = "no")
    BY <1>1, <2>1 DEF Resets
  <2>4. Resets(i)'
    BY <2>2, <2>3 DEF Resets
  <2>5. NobodyStands'
    BY <2>1, <2>2 DEF NobodyStands, Stands, BuiltAt, LiveAt, InUse
  <2>6. AloneInv'
    BY <2>2, <2>3, <2>5 DEF AloneInv
  <2> QED  BY <2>1, <2>4, <2>6
<1>3. ASSUME AloneInv, QuietInv PROVE QuietInv'
  <2>1. Orderly /\ ResetQuiet(i)
    BY <1>2, <1>3, ResetSees
  <2>2. Orderly'
    BY <2>1 DEF Orderly, Open
  <2> QED  BY <1>2, <1>3, <2>1, <2>2, ResetMakes
<1>4. LinkedInv' /\ KickedInv'
  BY DEF CalmInv, LinkedInv, KickedInv
<1> QED  BY <1>2, <1>3, <1>4, CalmStep DEF Clean

LEMMA ResetStoresCalm ==
  ASSUME SessionInv, CalmInv, NEW i \in Instance, ResetRow(i) \/ ResetCache(i) \/ ResetFlows(i)
  PROVE  CalmInv'
<1>a. inst \in [Instance -> Service] /\ inst[i] \in Service
  BY TypesAre DEF SessionInv
<1>1. CASE ResetRow(i)
  <2>1. /\ UNCHANGED <<sock, cache, active, phoneOf, linked, raced, blurred, leftOn>>
        /\ inst[i].reset = "row" /\ inst' = [inst EXCEPT ![i].reset = "cache"]
        /\ \/ row' = NoRow
           \/ row' = row /\ (row.status = "CONNECTED" => unsaid') /\ "row" \in kept'
        /\ "cache" \in kept' <=> "cache" \in kept
    BY <1>1 DEF ResetRow, ResetGoesTo, redis, whatsapp, history
  <2>2. /\ inst'[i].reset = "cache" /\ inst'[i].old = inst[i].old /\ inst'[i].won = inst[i].won
        /\ inst'[i].prev = inst[i].prev /\ \A j \in Instance \ {i} : inst'[j] = inst[j]
    BY <1>a, <2>1 DEF Service
  <2>3. ASSUME ResetQuiet(i) PROVE ResetQuiet(i)'
    <3>1. row'.status = "CONNECTED" => unsaid'
      BY <2>1 DEF NoRow
    <3>2. row' # NoRow => "row" \in kept'
      BY <2>1
    <3> QED  BY <2>1, <2>2, <2>3, <3>1, <3>2 DEF ResetQuiet
  <2>4. RowInv'
    BY <2>1 DEF CalmInv, RowInv
  <2> QED  BY <2>1, <2>2, <2>3, <2>4, ResetGoesOnCalm
<1>2. CASE ResetCache(i)
  <2>1. /\ UNCHANGED <<sock, row, active, phoneOf, linked, raced, blurred, unsaid, leftOn>>
        /\ inst[i].reset = "cache" /\ inst' = [inst EXCEPT ![i].reset = "flows"]
        /\ cache' = None \/ "cache" \in kept'
        /\ "row" \in kept' <=> "row" \in kept
    BY <1>2 DEF ResetCache, ResetGoesTo, CacheDropped, database, whatsapp, history
  <2>2. /\ inst'[i].reset = "flows" /\ inst'[i].old = inst[i].old /\ inst'[i].won = inst[i].won
        /\ inst'[i].prev = inst[i].prev /\ \A j \in Instance \ {i} : inst'[j] = inst[j]
    BY <1>a, <2>1 DEF Service
  <2>3. ASSUME ResetQuiet(i) PROVE ResetQuiet(i)'
    BY <2>1, <2>2, <2>3 DEF ResetQuiet
  <2>4. RowInv'
    BY <2>1 DEF CalmInv, RowInv
  <2> QED  BY <2>1, <2>2, <2>3, <2>4, ResetGoesOnCalm
<1>3. CASE ResetFlows(i)
  <2>1. /\ UNCHANGED <<sock, cache, row, phoneOf, linked, raced, blurred, unsaid, kept>>
        /\ inst[i].reset = "flows"
        /\ inst' = [inst EXCEPT ![i] = [inst[i] EXCEPT !.reset = "start", !.prev = None]]
        /\ FlowsOff(inst[i].prev)
    BY <1>3 DEF ResetFlows, redis, whatsapp, history
  <2>2. /\ inst'[i].reset = "start" /\ inst'[i].old = inst[i].old /\ inst'[i].won = inst[i].won
        /\ \A j \in Instance \ {i} : inst'[j] = inst[j]
    BY <1>a, <2>1 DEF Service
  <2>3. /\ active' \subseteq active
        /\ active \subseteq leftOn \cup {inst[i].prev} => active' \subseteq leftOn'
    BY <2>1 DEF FlowsOff
  <2>4. ASSUME ResetQuiet(i) PROVE ResetQuiet(i)'
    <3>1. active \subseteq leftOn \cup {inst[i].prev}
      BY <2>4 DEF ResetQuiet
    <3>2. active' \subseteq leftOn'
      BY <2>3, <3>1
    <3> QED  BY <2>1, <2>2, <2>4, <3>2 DEF ResetQuiet
  <2>5. RowInv'
    BY <2>1 DEF CalmInv, RowInv
  <2> QED  BY <2>1, <2>2, <2>3, <2>4, <2>5, ResetGoesOnCalm
<1> QED  BY <1>1, <1>2, <1>3

----------------------------------------------------------------------------
(* Elections, crashes and lost locks *)

LEMMA MarkCalm ==
  ASSUME SessionInv, CalmInv, NEW i \in Instance, BecomeLeader(i) \/ StopMark(i)
  PROVE  CalmInv'
<1>a. inst \in [Instance -> Service] /\ row \in Row /\ RowInv
  BY TypesAre DEF SessionInv, CalmInv
<1>b. /\ UNCHANGED <<sock, cache, active, phoneOf, linked, leftOn, kept>>
      /\ SetStatus("DISCONNECTED", None)
      /\ Clean' => Clean /\ \A s \in Socket : ~Open(s)
  BY DEF BecomeLeader, StopMark, redis, whatsapp, Clean, Connected, Open
<1>1. \A j \in Instance : /\ inst'[j].won = inst[j].won /\ inst'[j].prev = inst[j].prev
                          /\ inst'[j].old = inst[j].old /\ inst'[j].reset = inst[j].reset
  BY <1>a DEF BecomeLeader, StopMark, Service
<1>2. /\ row'.creds = row.creds /\ (row' = NoRow <=> row = NoRow) /\ RowInv'
      /\ row'.status = "CONNECTED" => unsaid'
  BY <1>a, <1>b, SetStatusEffect
<1>3. LinkedInv' /\ KickedInv'
  BY <1>b DEF CalmInv, LinkedInv, KickedInv
<1>4. ASSUME QuietInv, \A s \in Socket : ~Open(s) PROVE QuietInv'
  <2>1. StatusInv'
    BY <1>b, <1>2, <1>4 DEF QuietInv, StatusInv, Open
  <2>2. FlowsInv'
    <3>1. \A p \in active \ leftOn :
            \/ \E s \in Socket : Unwinds(s) /\ sock[s].prev = p
            \/ \E j \in Instance : inst[j].reset \notin {"no", "start"} /\ inst[j].prev = p
      BY <1>4 DEF QuietInv, FlowsInv
    <3>2. \A s \in Socket : CurrentPhone(s)' = CurrentPhone(s) /\ (Unwinds(s)' <=> Unwinds(s))
      BY <1>b DEF CurrentPhone, Unwinds
    <3>3. \A p \in active' \ leftOn' :
            \/ \E s \in Socket : Unwinds(s)' /\ sock'[s].prev = p
            \/ \E j \in Instance : inst'[j].reset \notin {"no", "start"} /\ inst'[j].prev = p
      BY <1>b, <1>1, <3>1, <3>2
    <3>4. None \notin active'
      BY <1>b, <1>4 DEF QuietInv, FlowsInv
    <3>5. \A j \in Instance, s \in Socket :
            inst'[j].old = s => inst'[j].prev = CurrentPhone(s)' /\ CurrentPhone(s)' # None
      BY <1>1, <1>4, <3>2 DEF QuietInv, FlowsInv
    <3> QED  BY <3>3, <3>4, <3>5 DEF FlowsInv
  <2>3. CacheInv'
    BY <1>b, <1>1, <1>2, <1>4 DEF QuietInv, CacheInv
  <2>4. SameCredsInv'
    BY <1>b, <1>2, <1>4 DEF QuietInv, SameCredsInv, SameCreds
  <2>5. PairingInv'
    <3>1. \A s \in Socket : (Deletes(s)' <=> Deletes(s)) /\ (Open(s)' <=> Open(s))
      BY <1>b DEF Deletes, Open
    <3> QED  BY <1>b, <1>1, <1>2, <1>4, <3>1 DEF QuietInv, PairingInv
  <2> QED  BY <2>1, <2>2, <2>3, <2>4, <2>5 DEF QuietInv
<1>5. AloneInv => AloneInv'
  BY <1>b, <1>1, AloneFields
<1> QED  BY <1>b, <1>2, <1>3, <1>4, <1>5, CalmStep

\* A socket whose end nobody handles.
LEMMA BlurredCalm ==
  ASSUME CalmInv, blurred' = TRUE, UNCHANGED <<row, phoneOf, linked>>,
         \A s \in Socket : sock'[s] = sock[s] \/ sock'[s].stage # "kicked"
  PROVE  CalmInv'
BY DEF CalmInv, RowInv, LinkedInv, KickedInv, Clean

LEMMA RenewFailsCalm ==
  ASSUME SessionInv, CalmInv, NEW i \in Instance, RenewFails(i)
  PROVE  CalmInv'
<1>a. inst[i] \in Service /\ sock \in [Socket -> Closure]
  BY TypesAre DEF SessionInv
<1>b. UNCHANGED <<row, phoneOf, linked>> /\ blurred' = TRUE
  BY DEF RenewFails, database, whatsapp
<1>1. CASE inst[i].session = None
  BY <1>b, <1>1, BlurredCalm DEF RenewFails
<1>2. CASE inst[i].session # None
  <2>1. PICK s \in Socket : s = inst[i].session
    BY <1>a, <1>2 DEF Service
  <2>2. PICK k \in Closure : k = [sock[s] EXCEPT !.stage = "gone"]
    BY <1>a, StageType
  <2>3. k.stage = "gone" /\ Update(s, k)
    BY <1>a, <1>2, <2>1, <2>2 DEF RenewFails, Closure
  <2>4. \A t \in Socket : sock'[t] = sock[t] \/ sock'[t].stage # "kicked"
    BY <2>3, UpdateKeeps DEF SessionInv
  <2> QED  BY <1>b, <2>4, BlurredCalm
<1> QED  BY <1>1, <1>2

LEMMA CrashCalm ==
  ASSUME CalmInv, NEW i \in Instance, Crash(i)
  PROVE  CalmInv'
<1>1. \A s \in Socket : sock'[s] = sock[s] \/ sock'[s].stage # "kicked"
  BY DEF Crash, Free
<1> QED  BY <1>1, BlurredCalm DEF Crash, database, whatsapp

LEMMA StepDownCalm ==
  ASSUME SessionInv, CalmInv, NEW i \in Instance, StepDown(i)
  PROVE  CalmInv'
<1>a. /\ inst \in [Instance -> Service] /\ inst[i] \in Service
      /\ sock \in [Socket -> Closure] /\ row.phone \in Phone \cup {None}
  BY TypesAre DEF SessionInv, Row
<1>b. /\ UNCHANGED <<cache, row, active, phoneOf, linked, unsaid, kept>>
      /\ raced \subseteq raced'
  BY DEF StepDown, database, whatsapp
<1>1. \A j \in Instance : /\ inst'[j].won = inst[j].won /\ inst'[j].reset = inst[j].reset
                          /\ inst'[j].old = inst[j].old /\ inst'[j].prev = inst[j].prev
  BY <1>a DEF StepDown, Released, Service
<1>2. CASE inst[i].session = None
  <2>1. UNCHANGED <<sock, blurred, leftOn>>
    BY <1>2 DEF StepDown
  <2> QED  BY <1>b, <1>1, <2>1, OwnBusiness DEF Clean, damage
<1>3. CASE inst[i].session # None
  <2>1. PICK s \in Socket : s = inst[i].session
    BY <1>a, <1>3 DEF Service
  <2>2. Live(s) /\ ~InReset(s)
    BY <2>1 DEF SessionInv, PointsInv, Points, LiveAt, At, InReset
  <2>3. PICK h \in {"no", "status"}, p \in {row.phone, None} :
          /\ Recalled(p)
          /\ Update(s, [sock[s] EXCEPT !.stage = "gone", !.closing = h, !.reason = "drop",
                                       !.prev = p])
          /\ blurred' = (blurred \/ h = "no" \/ sock[s].opening # "no")
    BY <1>3, <2>1 DEF StepDown
  <2>4. PICK k \in Closure :
          k = [sock[s] EXCEPT !.stage = "gone", !.closing = h, !.reason = "drop",
                              !.prev = p]
    BY <1>a, EndedType
  <2>5. /\ k.stage = "gone" /\ k.closing = h /\ k.opening = sock[s].opening
        /\ k.prev = p /\ k.reason = "drop"
    BY <1>a, <2>4 DEF Closure
  <2>6. Update(s, k)
    BY <2>3, <2>4
  <2>7. CASE h = "status"
    <3>1. Clean' => Clean /\ sock[s].opening = "no"
      BY <1>b, <2>3 DEF Clean
    <3> QED  BY <1>b, <1>1, <2>2, <2>3, <2>5, <2>6, <2>7, <3>1, EndsCalm
  <2>8. CASE h = "no"
    <3>1. blurred' = TRUE
      BY <2>3, <2>8
    <3>2. \A t \in Socket : sock'[t] = sock[t] \/ sock'[t].stage # "kicked"
      BY <2>5, <2>6, UpdateKeeps DEF SessionInv
    <3> QED  BY <1>b, <3>1, <3>2, BlurredCalm
  <2> QED  BY <2>7, <2>8
<1> QED  BY <1>2, <1>3

LEMMA LostLockCalm ==
  ASSUME SessionInv, CalmInv, Expire \/ \E i \in Instance : AcquireFails(i)
  PROVE  CalmInv'
<1>a. inst \in [Instance -> Service]
  BY TypesAre DEF SessionInv
<1>1. /\ UNCHANGED <<sock, cache, row, active, phoneOf, linked, damage>>
      /\ Clean' => Clean
  BY DEF Expire, AcquireFails, process, redis, database, whatsapp, history, losses, Clean
<1>2. \A j \in Instance : /\ inst'[j].won => inst[j].won
                          /\ inst'[j].old = inst[j].old /\ inst'[j].reset = inst[j].reset
                          /\ inst'[j].prev = inst[j].prev
  <2>1. CASE Expire
    BY <2>1 DEF Expire, process
  <2>2. CASE \E i \in Instance : AcquireFails(i)
    BY <1>a, <2>2 DEF AcquireFails, Service
  <2> QED  BY <2>1, <2>2
<1> QED  BY <1>1, <1>2, OwnBusiness

----------------------------------------------------------------------------
(* The induction *)

LEMMA CalmInit == ASSUME Init PROVE CalmInv
<1>1. PICK c \in Creds, p \in Phone :
        /\ row = [creds |-> c, status |-> "DISCONNECTED", phone |-> None]
        /\ phoneOf = [d \in Creds |-> IF d = c THEN p ELSE None]
        /\ linked = {c}
  BY DEF Init
<1>2. /\ \A s \in Socket : sock[s] = Free
      /\ cache = None /\ active = {} /\ None \notin Creds \cup Phone
  BY SessionAssumption DEF Init
<1>3. RowInv /\ LinkedInv /\ KickedInv
  BY <1>1, <1>2 DEF RowInv, LinkedInv, KickedInv, Free
<1>4. \A s \in Socket : /\ ~Open(s) /\ ~Unwinds(s) /\ ~Deletes(s) /\ ~Ended(s)
                        /\ sock[s].opening = "no" /\ sock[s].stage = "free"
  BY <1>2 DEF Open, Unwinds, Deletes, Ended, Free
<1>5. \A i \in Instance : inst[i].reset = "no" /\ inst[i].old = None
  BY DEF Init, Idle
<1>6. StatusInv /\ CacheInv /\ SameCredsInv /\ PairingInv
  BY <1>1, <1>2, <1>4 DEF StatusInv, CacheInv, SameCredsInv, SameCreds, PairingInv
<1>7. FlowsInv
  BY <1>2, <1>4, <1>5, SessionAssumption DEF FlowsInv
<1>8. AloneInv
  BY <1>4, <1>5 DEF AloneInv, NoReset
<1> QED  BY <1>3, <1>6, <1>7, <1>8 DEF CalmInv, QuietInv

LEMMA CalmStutter == ASSUME SessionInv, CalmInv, UNCHANGED vars PROVE CalmInv'
<1>1. UNCHANGED <<inst, sock, cache, row, active, phoneOf, linked, raced, blurred, damage>>
  BY DEF vars, process, redis, database, whatsapp, history, losses
<1> QED  BY <1>1, OwnBusiness DEF Clean

LEMMA CalmNext == ASSUME SessionInv, CalmInv, Next PROVE CalmInv'
<1>1. CASE \E s \in Socket : \/ SocketStep(s)
                             \/ BuildFails(s) \/ Save(s) \/ Drop(s) \/ Unlink(s)
                             \/ \E p \in Phone : Scan(s, p)
  <2>1. PICK s \in Socket : \/ SocketStep(s)
                            \/ BuildFails(s) \/ Save(s) \/ Drop(s) \/ Unlink(s)
                            \/ \E p \in Phone : Scan(s, p)
    BY <1>1
  <2>2. CASE LoadDb(s) \/ FillCache(s) \/ MakeSocket(s) \/ BuildFails(s)
    BY <2>2, BuildStepCalm, MakeSocketCalm, BuildFailsCalm
  <2>3. CASE Opened(s) \/ ShowQr(s) \/ OpenFlows(s) \/ SaveCache(s) \/ Save(s)
    BY <2>3, OpenedCalm, ShowQrCalm, OpenFlowsCalm, SaveCacheCalm, SaveCalm
  <2>4. CASE \E p \in Phone : Scan(s, p)
    BY <2>4, ScanCalm
  <2>5. CASE QrExpires(s) \/ Refused(s) \/ Kicked(s) \/ Drop(s) \/ Unlink(s)
    BY <2>5, EndStepsCalm
  <2>6. CASE \/ CloseStatus(s) \/ CloseFlows(s) \/ CloseDecide(s) \/ CloseDelete(s)
             \/ CloseCache(s)
    BY <2>6, CloseStatusCalm, CloseFlowsCalm, CloseDecideCalm, CloseDeleteCalm,
       CloseCacheCalm
  <2> QED  BY <2>1, <2>2, <2>3, <2>4, <2>5, <2>6 DEF SocketStep
<1>2. CASE \E i \in Instance :
             \/ InstanceStep(i)
             \/ AcquireFails(i) \/ SendNeedsSession(i) \/ StartRequest(i)
             \/ StartSameNumber(i) \/ StartOtherNumber(i)
             \/ BecomeLeader(i) \/ StepDown(i) \/ Crash(i)
  <2>1. PICK i \in Instance :
             \/ InstanceStep(i)
             \/ AcquireFails(i) \/ SendNeedsSession(i) \/ StartRequest(i)
             \/ StartSameNumber(i) \/ StartOtherNumber(i)
             \/ BecomeLeader(i) \/ StepDown(i) \/ Crash(i)
    BY <1>2
  <2>2. CASE \/ Reconcile(i) \/ SendNeedsSession(i) \/ ReconnectTimer(i)
             \/ StartRequest(i) \/ BootStart(i)
    BY <2>2, CallerCalm
  <2>3. CASE Acquired(i) \/ AcquireFails(i) \/ RenewFails(i)
    BY <2>3, AcquiredCalm, LostLockCalm, RenewFailsCalm
  <2>4. CASE StartSameNumber(i) \/ StartOtherNumber(i)
    BY <2>4, StartSameNumberCalm, StartOtherNumberCalm
  <2>5. CASE ResetStep(i)
    BY <2>5, ResetLogoutCalm, ResetStoresCalm, ResetStartCalm DEF ResetStep
  <2>6. CASE BecomeLeader(i) \/ StopMark(i) \/ StepDown(i) \/ Crash(i)
    BY <2>6, MarkCalm, StepDownCalm, CrashCalm
  <2> QED  BY <2>1, <2>2, <2>3, <2>4, <2>5, <2>6 DEF InstanceStep
<1>3. CASE Expire
  BY <1>3, LostLockCalm
<1> QED  BY <1>1, <1>2, <1>3 DEF Next

LEMMA CalmAlways == Spec => []CalmInv
<1>1. Init => CalmInv
  BY CalmInit
<1>2. SessionInv /\ CalmInv /\ [Next]_vars => CalmInv'
  BY CalmNext, CalmStutter
<1> QED  BY <1>1, <1>2, SessionAlways, PTL DEF Spec

----------------------------------------------------------------------------
(* The theorems about the stores *)

\* With no handler under way, what the invariant says of the row is all there is.
LEMMA CalmIsQuiet ==
  ASSUME SessionInv, CalmInv, Calm
  PROVE  /\ QuietInv /\ NoReset /\ \A s \in Socket : sock[s].closing = "no"
<1>1. Clean /\ NoReset /\ AloneInv /\ QuietInv
  BY DEF Calm, Clean, NoReset, CalmInv
<1>2. \A s \in Socket : sock[s].closing = "no"
  <2>1. \A s \in Socket : Resting(s)
    BY DEF Calm
  <2>2. ASSUME NEW s \in Socket, sock[s].closing # "no" PROVE FALSE
    <3>1. Handles(s)
      BY <1>1, <2>2, EndedHandles DEF Ended
    <3>2. sock[s].stage # "open" /\ sock[s] # Free
      BY <2>2, <3>1 DEF Handles, InUse, Live, Free
    <3> QED  BY <2>1, <3>2 DEF Resting
  <2> QED  BY <2>2
<1> QED  BY <1>1, <1>2

\* Once every handler is through and nothing blurred the picture, the dashboard's status is
\* CONNECTED exactly while a connection is open, unless the last write of it was lost, and
\* no flow is on without a connection, but those a lapse left on.
THEOREM StatusFollowsTheConnection == Spec => []StatusAndFlowsAreTrue
<1>1. ASSUME SessionInv, CalmInv, Calm
      PROVE  /\ ~unsaid => (Connected <=> row.status = "CONNECTED")
             /\ active \ leftOn # {} => Connected
  <2>1. QuietInv /\ NoReset /\ \A s \in Socket : sock[s].closing = "no"
    BY <1>1, CalmIsQuiet
  <2>2. ~unsaid => (Connected <=> row.status = "CONNECTED")
    BY <2>1 DEF QuietInv, StatusInv, Connected, Open, NoReset
  <2>3. active \ leftOn # {} => Connected
    BY <2>1 DEF QuietInv, FlowsInv, Connected, Open, Unwinds, NoReset
  <2> QED  BY <2>2, <2>3
<1>2. SessionInv /\ CalmInv => StatusAndFlowsAreTrue
  BY <1>1 DEF StatusAndFlowsAreTrue
<1> QED  BY <1>2, SessionAlways, CalmAlways, PTL

\* The cache never survives the row, unless invalidateAuthCache lost its redis.del, and no
\* row keeps a pairing that is gone, unless its deletion was lost.
THEOREM StoresAgree == Spec => []CredentialsAgree
<1>1. ASSUME SessionInv, CalmInv, Calm
      PROVE  /\ "cache" \notin kept => cache \in {None, row.creds}
             /\ "row" \notin kept /\ row # NoRow => row.creds \in linked
  <2>1. QuietInv /\ NoReset /\ \A s \in Socket : sock[s].closing = "no"
    BY <1>1, CalmIsQuiet
  <2> QED  BY <2>1 DEF QuietInv, CacheInv, PairingInv, Deletes, NoReset
<1>2. SessionInv /\ CalmInv => CredentialsAgree
  BY <1>1 DEF CredentialsAgree
<1> QED  BY <1>2, SessionAlways, CalmAlways, PTL

\* A row that is there goes only by the close handler of a logout or by forceResetSession.
LEMMA WhoDeletes ==
  ASSUME SessionInv, CalmInv, Next, row # NoRow, row' = NoRow
  PROVE  (\E s \in Socket : CloseDelete(s)) \/ (\E i \in Instance : ResetRow(i))
<1>a. row \in Row /\ RowInv /\ sock \in [Socket -> Closure]
  BY TypesAre DEF SessionInv, CalmInv
<1>b. ASSUME NEW status, NEW p, SetStatus(status, p) PROVE FALSE
  BY <1>a, <1>b, SetStatusEffect
<1>c. ASSUME NEW s \in Socket, Live(s), row' = [row EXCEPT !.creds = sock[s].creds]
      PROVE  FALSE
  BY <1>a, <1>c DEF SessionInv, PairedInv, Row, NoRow
<1>1. ASSUME NEW s \in Socket, SocketStep(s), ~CloseDelete(s) PROVE FALSE
  <2>1. CASE Opened(s) \/ ShowQr(s) \/ CloseStatus(s)
    BY <1>b, <2>1 DEF Opened, ShowQr, CloseStatus
  <2>2. CASE LoadDb(s) \/ FillCache(s) \/ MakeSocket(s) \/ Refused(s) \/ Kicked(s) \/ QrExpires(s)
    BY <2>2 DEF LoadDb, FillCache, MakeSocket, Refused, Kicked, QrExpires, database
  <2>3. CASE \/ OpenFlows(s) \/ CloseFlows(s) \/ CloseDecide(s) \/ CloseCache(s)
             \/ SaveCache(s)
    BY <2>3 DEF OpenFlows, CloseFlows, CloseDecide, CloseCache, SaveCache, database
  <2> QED  BY <1>1, <2>1, <2>2, <2>3 DEF SocketStep
<1>2. ASSUME NEW s \in Socket,
             \/ BuildFails(s) \/ Save(s) \/ Drop(s) \/ Unlink(s)
             \/ \E p \in Phone : Scan(s, p)
      PROVE  FALSE
  <2>1. CASE Save(s) \/ \E p \in Phone : Scan(s, p)
    BY <1>c, <2>1 DEF Save, Scan, Live
  <2>2. CASE BuildFails(s) \/ Drop(s) \/ Unlink(s)
    BY <2>2 DEF BuildFails, Drop, Unlink, database
  <2> QED  BY <1>2, <2>1, <2>2
<1>3. ASSUME NEW i \in Instance, InstanceStep(i), ~ResetRow(i) PROVE FALSE
  <2>1. CASE StopMark(i)
    BY <1>b, <2>1 DEF StopMark
  <2>2. CASE ResetStep(i)
    BY <1>3, <2>2 DEF ResetStep, ResetLogout, ResetCache, ResetFlows, ResetStart, database
  <2>3. CASE Acquired(i) \/ RenewFails(i) \/ ReconnectTimer(i) \/ Reconcile(i) \/ BootStart(i)
    BY <2>3 DEF Acquired, RenewFails, ReconnectTimer, Reconcile, BootStart, database
  <2> QED  BY <1>3, <2>1, <2>2, <2>3 DEF InstanceStep
<1>4. ASSUME NEW i \in Instance,
             \/ AcquireFails(i) \/ SendNeedsSession(i) \/ StartRequest(i)
             \/ StartSameNumber(i) \/ StartOtherNumber(i)
             \/ BecomeLeader(i) \/ StepDown(i) \/ Crash(i)
      PROVE  FALSE
  <2>1. CASE BecomeLeader(i)
    BY <1>b, <2>1 DEF BecomeLeader
  <2>2. CASE ~BecomeLeader(i)
    BY <1>4, <2>2 DEF AcquireFails, SendNeedsSession, StartRequest, StartSameNumber,
         StartOtherNumber, StepDown, Crash, database
  <2> QED  BY <2>1, <2>2
<1>5. ~Expire
  BY DEF Expire, database
<1> QED  BY <1>1, <1>2, <1>3, <1>4, <1>5 DEF Next

\* Only the user's change of number deletes a pairing that stands, or a start from
\* credentials that outlived their deletion in the cache, unless operations met or
\* something blurred the picture.
THEOREM PairingsSurvive == Spec => PairingsAreKept
<1>1. ASSUME SessionInv, CalmInv, Next, row' = NoRow, row.creds \in linked
      PROVE  \/ raced # {} \/ blurred \/ "cache" \in kept
             \/ \E i \in Instance : inst[i].reset = "row"
  <2>1. row # NoRow
    BY <1>1, TypesAre, SessionAssumption DEF SessionInv, NoRow
  <2>2. CASE \E i \in Instance : ResetRow(i)
    BY <2>2 DEF ResetRow
  <2>3. CASE \E s \in Socket : CloseDelete(s)
    <3>1. PICK s \in Socket : Deletes(s)
      BY <2>3 DEF CloseDelete, Deletes
    <3>2. Clean => "cache" \in kept \/ row.creds \notin linked
      BY <1>1, <3>1 DEF CalmInv, QuietInv, PairingInv
    <3> QED  BY <1>1, <3>2 DEF Clean
  <2> QED  BY <1>1, <2>1, <2>2, <2>3, WhoDeletes
<1>2. SessionInv /\ CalmInv /\ [Next]_vars =>
        [row' = NoRow /\ row.creds \in linked =>
           \/ raced # {} \/ blurred \/ "cache" \in kept
           \/ \E i \in Instance : inst[i].reset = "row"]_vars
  BY <1>1
<1> QED  BY <1>2, SessionAlways, CalmAlways, PTL DEF Spec, PairingsAreKept
=============================================================================
