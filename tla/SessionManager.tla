--------------------------- MODULE SessionManager ---------------------------
(***************************************************************************)
(* WhatsappService's sockets for one user (every map of the service is     *)
(* keyed by userId), in legacy mode with Redis: several API instances, the *)
(* session lock, the row of whatsapp_sessions, the cache of its            *)
(* credentials and the flows switched on and off with the connection.      *)
(*                                                                         *)
(* One action is what runs between two awaits; a statement to Postgres or  *)
(* a command to Redis takes effect when it is sent, and its reply comes    *)
(* whenever the next action of its caller is taken.  Who leads is decided  *)
(* by LeaderElection; here an instance becomes leader or steps down when   *)
(* that module says it may.  Baileys and WhatsApp are external: a socket   *)
(* with new credentials waits for a scan, one with linked credentials      *)
(* opens and closes the other socket that uses them, one with unlinked     *)
(* credentials is logged out.                                              *)
(***************************************************************************)
EXTENDS Integers, FiniteSets

CONSTANTS
  Instance, FirstLeader,
  Socket,        \* bound: sockets that exist at one time, positive integers
  Phone,
  Creds,         \* bound: pairings ever begun, positive integers
  None,
  MaxEvents,     \* bound: drops, unlinkings, lost locks, crashes, elections, requests
  MaxLapses      \* bound: statements and commands whose failure the code only logs

ASSUME SessionAssumption ==
  /\ IsFiniteSet(Instance) /\ IsFiniteSet(Socket)
  /\ MaxEvents \in Nat /\ MaxLapses \in Nat
  /\ FirstLeader \in Instance
  /\ Socket \subseteq Nat \ {0} /\ Creds \subseteq Nat \ {0}
  /\ None \notin Instance \cup Socket \cup Phone \cup Creds

VARIABLES
  inst,          \* the service of each instance
  sock,          \* what startSession's closure knows of each socket
  lockKey,       \* Redis: the instance whose token is the lock's value
  cache,         \* Redis: the credentials of wa:auth:<userId>
  row,           \* whatsapp_sessions
  active,        \* the phones whose flow is active
  phoneOf, linked,  \* WhatsApp: the number of each pairing; whether it still stands
  events, lapses,
  raced,         \* history: instances where two operations on the session met
  blurred,       \* history: an end of a socket that no handler saw, or a late mark
  unsaid,        \* history: the row says otherwise than the last status asked of it
  leftOn,        \* history: numbers whose flows are on by a lapse, or ahead of the connection
  kept           \* history: which of "row" and "cache" outlived their last deletion

process == <<inst, sock>>
redis == <<lockKey, cache>>
database == <<row, active>>
whatsapp == <<phoneOf, linked>>
history == <<raced, blurred>>
damage == <<unsaid, leftOn, kept>>
losses == <<lapses, damage>>
vars == <<process, redis, database, whatsapp, events, history, losses>>

\* No whatsapp_sessions row.
NoRow == [creds |-> None, status |-> "DISCONNECTED", phone |-> None]

Free ==
  [at |-> None, stage |-> "free", creds |-> None, opening |-> "no", closing |-> "no",
   reason |-> "no", prev |-> None, saving |-> "no"]

Idle ==
  [leader |-> FALSE, session |-> None, pending |-> FALSE, held |-> FALSE,
   won |-> FALSE, timers |-> 0, boot |-> FALSE, stopping |-> FALSE,
   reset |-> "no", old |-> None, prev |-> None]

\* The processes have just started over the pairing of an earlier run, and one leads.
Init ==
  /\ inst = [i \in Instance |-> [Idle EXCEPT !.leader = i = FirstLeader,
                                                !.boot = i = FirstLeader]]
  /\ sock = [s \in Socket |-> Free]
  /\ lockKey = None /\ cache = None
  /\ \E c \in Creds, p \in Phone :
       /\ \A d \in Creds : c <= d
       /\ row = [creds |-> c, status |-> "DISCONNECTED", phone |-> None]
       /\ phoneOf = [d \in Creds |-> IF d = c THEN p ELSE None]
       /\ linked = {c}
  /\ active = {}
  /\ events = 0 /\ raced = {} /\ blurred = FALSE
  /\ lapses = 0 /\ unsaid = FALSE /\ leftOn = {} /\ kept = {}

Event == events < MaxEvents /\ events' = events + 1

\* A promise that rejects into a catch which logs, if that: the code goes on.
Lapse == lapses < MaxLapses /\ lapses' = lapses + 1

Live(s) == sock[s].stage \in {"connecting", "open", "kicked"}
Building(s) == sock[s].stage \in {"db", "fill", "version"}
Mapped(s) == Live(s) /\ inst[sock[s].at].session = s
CurrentPhone(s) == IF sock[s].creds = None THEN None ELSE phoneOf[sock[s].creds]

\* A dead socket keeps what its pending steps still use.
Tidy(k) ==
  IF k.stage # "gone" THEN k
  ELSE IF k.opening = "no" /\ k.closing = "no" /\ k.saving = "no" THEN Free
  ELSE [k EXCEPT !.creds = IF k.opening = "no" /\ k.saving = "no" THEN None ELSE @,
                 !.reason = IF k.closing \in {"status", "flows", "decide"} THEN @ ELSE "no",
                 !.prev = IF k.closing \in {"status", "flows"} THEN @ ELSE None]
Update(s, k) == sock' = [sock EXCEPT ![s] = Tidy(k)]

Handling(i) == \E s \in Socket : sock[s].at = i /\ sock[s].closing # "no"
Connected == \E s \in Socket : sock[s].stage = "open"
MakingSocket(i) == \E s \in Socket : sock[s].at = i /\ Building(s)

-----------------------------------------------------------------------------
(* The lock *)

\* releaseSessionLock, on the instance's record r and on the key
Released(r) == [r EXCEPT !.held = FALSE]
KeyAfterRelease(i) == IF inst[i].held /\ lockKey = i THEN None ELSE lockKey

\* startSession past its checks: the credentials are looked up in the cache, which
\* looks empty when the read is lost.
Build(i, r) ==
  \E s \in Socket, c \in {cache, None} :
    /\ sock[s] = Free /\ \A t \in Socket : t < s => sock[t] # Free
    /\ IF c = cache THEN UNCHANGED lapses ELSE Lapse
    /\ sock' = [sock EXCEPT ![s] =
         [Free EXCEPT !.at = i, !.creds = c, !.stage = IF c = None THEN "db" ELSE "version"]]
    /\ inst' = [inst EXCEPT ![i] = [r EXCEPT !.pending = TRUE]]

Resetting(i, r) == r.reset # "no" \/ \E j \in Instance \ {i} : inst[j].reset # "no"

\* The part of startSession from the check of pendingSessions on; r is the
\* instance's record as the caller leaves it.
Start(i, r) ==
  /\ IF r.pending \/ (~r.held /\ lockKey # None)
     THEN /\ inst' = [inst EXCEPT ![i] = r]
          /\ UNCHANGED <<sock, lockKey, lapses>>
     ELSE IF r.held
     THEN Build(i, r) /\ UNCHANGED lockKey
     ELSE /\ inst' = [inst EXCEPT ![i] = [r EXCEPT !.won = TRUE]]
          /\ lockKey' = i
          /\ UNCHANGED <<sock, lapses>>
  /\ raced' = IF Handling(i) \/ Resetting(i, r) THEN raced \cup {i} ELSE raced
  /\ blurred' = (blurred \/ \E s \in Socket : sock[s].closing # "no")
  /\ UNCHANGED damage

StartUnlessMapped(i, r) ==
  IF r.session # None
  THEN inst' = [inst EXCEPT ![i] = r] /\ UNCHANGED <<sock, lockKey, history, losses>>
  ELSE Start(i, r)

\* The reply to SET NX arrives; nothing is checked again.
Acquired(i) ==
  /\ inst[i].won
  /\ Build(i, [inst[i] EXCEPT !.won = FALSE, !.held = TRUE])
  /\ UNCHANGED <<redis, database, whatsapp, events, history, damage>>

\* The reply is lost: acquire is caught, and the key stays until it expires.
AcquireFails(i) ==
  /\ inst[i].won /\ Event
  /\ inst' = [inst EXCEPT ![i].won = FALSE]
  /\ UNCHANGED <<sock, redis, database, whatsapp, history, losses>>

\* The TTL runs out: nobody renews the key, or its owner is late (an event).
Expire ==
  /\ lockKey # None
  /\ IF inst[lockKey].held \/ inst[lockKey].won
     THEN Event /\ raced' = raced \cup {lockKey} /\ UNCHANGED blurred
     ELSE UNCHANGED <<events, history, losses>>
  /\ lockKey' = None
  /\ UNCHANGED <<process, cache, database, whatsapp, losses>>

\* The renewal reads another's token, or none: the socket is ended, and its close
\* event meets a session that is no longer its own.
RenewFails(i) ==
  /\ inst[i].held /\ lockKey # i
  /\ inst' = [inst EXCEPT ![i] = [Released(inst[i]) EXCEPT !.session = None]]
  /\ IF inst[i].session # None
     THEN LET s == inst[i].session IN Update(s, [sock[s] EXCEPT !.stage = "gone"])
     ELSE UNCHANGED sock
  /\ blurred' = TRUE
  /\ UNCHANGED <<redis, database, whatsapp, events, raced, losses>>

-----------------------------------------------------------------------------
(* The callers of startSession *)

\* mutant: only the sessions that were connected
ReconcileConnected(i) ==
  /\ inst[i].leader /\ row.status = "CONNECTED"
  /\ inst[i].session = None /\ ~inst[i].pending /\ ~inst[i].held
  /\ Start(i, inst[i])
  /\ UNCHANGED <<cache, database, whatsapp, events>>

\* reconcileSessions, every 30 s
Reconcile(i) ==
  /\ inst[i].leader /\ row # NoRow
  /\ inst[i].session = None /\ ~inst[i].pending /\ ~inst[i].held
  /\ Start(i, inst[i])
  /\ UNCHANGED <<cache, database, whatsapp, events>>

\* waitForActiveSession, when a message is to be sent
SendNeedsSession(i) ==
  /\ inst[i].leader /\ inst[i].session = None /\ ~inst[i].pending
  /\ Event
  /\ Start(i, inst[i])
  /\ UNCHANGED <<cache, database, whatsapp>>

\* mutant: the timer is an interval
ReconnectTimerAgain(i) ==
  /\ StartUnlessMapped(i, [inst[i] EXCEPT !.timers = @ - 1])
  /\ UNCHANGED <<cache, database, whatsapp, events>>

\* The timer set by the close handler does not look at leaderMode again.
ReconnectTimer(i) ==
  /\ inst[i].timers > 0
  /\ StartUnlessMapped(i, [inst[i] EXCEPT !.timers = @ - 1])
  /\ UNCHANGED <<cache, database, whatsapp, events>>

\* POST /whatsapp/start, on any instance, with or without a number
StartRequest(i) ==
  /\ Event
  /\ StartUnlessMapped(i, inst[i])
  /\ UNCHANGED <<cache, database, whatsapp>>

\* ... for the number the session is paired with: pending flows go on, connected or not.
StartSameNumber(i) ==
  LET s == inst[i].session IN
  /\ s # None /\ CurrentPhone(s) # None
  /\ Event
  /\ active' = active \cup {CurrentPhone(s)}
  /\ leftOn' = IF sock[s].stage = "open" /\ row.phone = CurrentPhone(s) THEN leftOn
               ELSE leftOn \cup {CurrentPhone(s)}
  /\ UNCHANGED <<process, redis, row, whatsapp, history, lapses, unsaid, kept>>

\* ... for another number: forceResetSession lets go of the map and the lock first.
StartOtherNumber(i) ==
  /\ inst[i].session # None /\ CurrentPhone(inst[i].session) # None
  /\ inst[i].reset = "no" /\ Event
  /\ LET r == inst[i]
     IN inst' = [inst EXCEPT ![i] = [Released(r) EXCEPT !.session = None, !.reset = "logout",
                                       !.old = r.session, !.prev = CurrentPhone(r.session)]]
  /\ lockKey' = KeyAfterRelease(i)
  /\ UNCHANGED <<sock, cache, database, whatsapp, history, losses>>

-----------------------------------------------------------------------------
(* What a lapse leaves behind *)

\* updateMany: nothing happens while there is no row, or when the write is lost.
SetStatus(status, p) ==
  /\ \/ /\ row' = IF row = NoRow THEN row ELSE [row EXCEPT !.status = status, !.phone = p]
        /\ UNCHANGED lapses
     \/ row # NoRow /\ Lapse /\ UNCHANGED row
  /\ unsaid' = ((status = "CONNECTED") # (row'.status = "CONNECTED"))

\* getConnectionInfo: the number whose flows go off, or none when the read is lost.
Recalled(p) ==
  IF p = row.phone THEN UNCHANGED <<lapses, leftOn>>
  ELSE /\ p = None /\ Lapse
       /\ leftOn' = leftOn \cup (active \cap {row.phone})

\* deactivateActiveByUserAndPhone
FlowsOff(p) ==
  \/ active' = active \ {p} /\ leftOn' = leftOn \ {p} /\ UNCHANGED lapses
  \/ p \in active /\ Lapse /\ leftOn' = leftOn \cup {p} /\ UNCHANGED active

\* invalidateAuthCache
CacheDropped ==
  \/ cache' = None /\ kept' = kept \ {"cache"} /\ UNCHANGED lapses
  \/ cache # None /\ Lapse /\ kept' = kept \cup {"cache"} /\ UNCHANGED cache

\* redis.set of the credentials, sent and forgotten; a stale copy is overwritten.
CacheSet(c, heals) ==
  \/ cache' = c /\ kept' = (IF heals THEN kept \ {"cache"} ELSE kept) /\ UNCHANGED lapses
  \/ cache # c /\ Lapse /\ UNCHANGED <<cache, kept>>

-----------------------------------------------------------------------------
(* forceResetSession, then the rest of startSession *)

ResetGoesTo(i, step) == inst' = [inst EXCEPT ![i].reset = step]

\* sock.logout: the pairing is undone, or the call fails and the socket only ends.
ResetLogout(i) ==
  /\ inst[i].reset = "logout"
  /\ LET s == inst[i].old IN
       /\ \/ linked' = linked \ {sock[s].creds} /\ UNCHANGED events
          \/ Event /\ UNCHANGED linked
       /\ Update(s, [sock[s] EXCEPT !.stage = "gone"])
       /\ blurred' = (blurred \/ sock[s].opening # "no")
  /\ inst' = [inst EXCEPT ![i].reset = "row", ![i].old = None]
  /\ UNCHANGED <<redis, database, phoneOf, raced, losses>>

ResetRow(i) ==
  /\ inst[i].reset = "row"
  /\ ResetGoesTo(i, "cache")
  /\ \/ row' = NoRow /\ unsaid' = FALSE /\ kept' = kept \ {"row"} /\ UNCHANGED lapses
     \/ /\ row # NoRow /\ Lapse /\ UNCHANGED row
        /\ unsaid' = (row.status = "CONNECTED") /\ kept' = kept \cup {"row"}
  /\ UNCHANGED <<sock, redis, active, whatsapp, events, history, leftOn>>

ResetCache(i) ==
  /\ inst[i].reset = "cache"
  /\ ResetGoesTo(i, "flows")
  /\ CacheDropped
  /\ UNCHANGED <<sock, lockKey, database, whatsapp, events, history, unsaid, leftOn>>

ResetFlows(i) ==
  /\ inst[i].reset = "flows"
  /\ FlowsOff(inst[i].prev)
  /\ inst' = [inst EXCEPT ![i].reset = "start", ![i].prev = None]
  /\ UNCHANGED <<sock, redis, row, whatsapp, events, history, unsaid, kept>>

ResetStart(i) ==
  /\ inst[i].reset = "start"
  /\ Start(i, [inst[i] EXCEPT !.reset = "no"])
  /\ UNCHANGED <<cache, database, whatsapp, events>>

-----------------------------------------------------------------------------
(* From the lock to the socket: useWhatsAppAuthState, makeWASocket *)

LoadDb(s) ==
  /\ sock[s].stage = "db"
  /\ Update(s, [sock[s] EXCEPT !.stage = IF row = NoRow THEN "version" ELSE "fill",
                               !.creds = row.creds])
  /\ UNCHANGED <<inst, redis, database, whatsapp, events, history, losses>>

\* The credentials read go to the cache.
FillCache(s) ==
  /\ sock[s].stage = "fill"
  /\ Update(s, [sock[s] EXCEPT !.stage = "version"])
  /\ CacheSet(sock[s].creds, TRUE)
  /\ UNCHANGED <<inst, lockKey, database, whatsapp, events, history, unsaid, leftOn>>

\* initAuthCreds
Unused == {c \in Creds : \A t \in Socket : sock[t].creds # c} \ {row.creds, cache}
NextCreds == {c \in Unused : phoneOf[c] = None /\ \A d \in Unused : phoneOf[d] = None => c <= d}

\* The socket enters the map, whatever became of the lock and the leader meanwhile.
MakeSocket(s) ==
  /\ sock[s].stage = "version"
  /\ \E c \in IF sock[s].creds = None THEN NextCreds ELSE {sock[s].creds} :
       Update(s, [sock[s] EXCEPT !.stage = "connecting", !.creds = c])
  /\ inst' = [inst EXCEPT ![sock[s].at].session = s, ![sock[s].at].pending = FALSE]
  /\ UNCHANGED <<redis, database, whatsapp, events, history, losses>>

\* A load or the fetch of the version rejects.
BuildFails(s) ==
  LET i == sock[s].at IN
  /\ Building(s) /\ Event
  /\ sock' = [sock EXCEPT ![s] = Free]
  /\ inst' = [inst EXCEPT ![i] = [Released(inst[i]) EXCEPT !.pending = FALSE]]
  /\ lockKey' = KeyAfterRelease(i)
  /\ UNCHANGED <<cache, database, whatsapp, history, losses>>

-----------------------------------------------------------------------------
(* WhatsApp, and the first step of the handler of connection.update *)

\* connection=close: a socket that is no longer the mapped one is ignored.
Closed(s, reason) ==
  /\ blurred' = (blurred \/ sock[s].opening # "no")
  /\ IF Mapped(s)
     THEN /\ \E p \in {row.phone, None} :
               /\ Recalled(p)
               /\ Update(s, [sock[s] EXCEPT !.stage = "gone", !.closing = "status",
                                            !.reason = reason, !.prev = p])
          /\ inst' = [inst EXCEPT ![sock[s].at].session = None]
     ELSE /\ Update(s, [sock[s] EXCEPT !.stage = "gone"])
          /\ UNCHANGED <<inst, lapses, leftOn>>
  /\ UNCHANGED <<unsaid, kept>>

InReset(s) == inst[sock[s].at].old = s

ShowQr(s) ==
  /\ sock[s].stage = "connecting" /\ phoneOf[sock[s].creds] = None
  /\ SetStatus("PENDING", None)
  /\ UNCHANGED <<process, redis, active, whatsapp, events, history, leftOn, kept>>

\* Nobody scans: Baileys gives up after a few codes.
QrExpires(s) ==
  /\ sock[s].stage = "connecting" /\ phoneOf[sock[s].creds] = None /\ ~InReset(s)
  /\ Closed(s, "drop")
  /\ UNCHANGED <<redis, database, whatsapp, events, raced>>

\* The user scans: creds.update, then WhatsApp asks for a restart.  The bound keeps
\* one pairing unused, so that a socket without credentials always gets some.
Scan(s, p) ==
  /\ sock[s].stage = "connecting" /\ phoneOf[sock[s].creds] = None
  /\ sock[s].saving = "no" /\ \E c \in Creds : c > sock[s].creds
  /\ phoneOf' = [phoneOf EXCEPT ![sock[s].creds] = p]
  /\ linked' = linked \cup {sock[s].creds}
  /\ Update(s, [sock[s] EXCEPT !.stage = "kicked", !.reason = "restart", !.saving = "cache"])
  /\ row' = [row EXCEPT !.creds = sock[s].creds]
  /\ kept' = kept \ {"row"}
  /\ UNCHANGED <<inst, redis, active, events, history, lapses, unsaid, leftOn>>

\* WhatsApp lets one connection of a pairing live.
Opened(s) ==
  /\ sock[s].stage = "connecting" /\ sock[s].creds \in linked
  /\ sock' = [t \in Socket |->
                IF t = s THEN [sock[t] EXCEPT !.stage = "open", !.opening = "flows"]
                ELSE IF sock[t].stage = "open" /\ sock[t].creds = sock[s].creds
                THEN [sock[t] EXCEPT !.stage = "kicked", !.reason = "replaced"]
                ELSE sock[t]]
  /\ SetStatus("CONNECTED", CurrentPhone(s))
  /\ leftOn' = IF row'.phone = CurrentPhone(s) THEN leftOn ELSE leftOn \cup {CurrentPhone(s)}
  /\ UNCHANGED <<inst, redis, active, whatsapp, events, history, kept>>

Refused(s) ==
  /\ sock[s].stage = "connecting" /\ ~InReset(s)
  /\ phoneOf[sock[s].creds] # None /\ sock[s].creds \notin linked
  /\ Closed(s, "loggedOut")
  /\ UNCHANGED <<redis, database, whatsapp, events, raced>>

Kicked(s) ==
  /\ sock[s].stage = "kicked" /\ ~InReset(s)
  /\ Closed(s, sock[s].reason)
  /\ UNCHANGED <<redis, database, whatsapp, events, raced>>

Drop(s) ==
  /\ sock[s].stage \in {"connecting", "open"} /\ ~InReset(s) /\ Event
  /\ Closed(s, "drop")
  /\ UNCHANGED <<redis, database, whatsapp, raced>>

\* The user removes the device on the phone.
Unlink(s) ==
  /\ sock[s].stage = "open" /\ ~InReset(s) /\ Event
  /\ linked' = linked \ {sock[s].creds}
  /\ Closed(s, "loggedOut")
  /\ UNCHANGED <<redis, database, phoneOf, raced>>

-----------------------------------------------------------------------------
(* The rest of connection.update; creds.update *)

OpenFlows(s) ==
  /\ sock[s].opening = "flows"
  /\ \/ active' = active \cup {CurrentPhone(s)} /\ UNCHANGED lapses
     \/ CurrentPhone(s) \notin active /\ Lapse /\ UNCHANGED active
  /\ Update(s, [sock[s] EXCEPT !.opening = "no"])
  /\ UNCHANGED <<inst, redis, row, whatsapp, events, history, damage>>

\* mutant: the row keeps its status
CloseStatusUnsaid(s) ==
  /\ sock[s].closing = "status"
  /\ Update(s, [sock[s] EXCEPT !.closing = "flows"])
  /\ UNCHANGED <<inst, redis, database, whatsapp, events, history, losses>>

CloseStatus(s) ==
  /\ sock[s].closing = "status"
  /\ SetStatus("DISCONNECTED", None)
  /\ Update(s, [sock[s] EXCEPT !.closing = "flows"])
  /\ UNCHANGED <<inst, redis, active, whatsapp, events, history, leftOn, kept>>

LogsOutOnDrop(reason) == reason # "replaced"    \* mutant: every other close
LogsOut(reason) == reason = "loggedOut"

\* The flows of the number go off, if a number was read.
CloseFlows(s) ==
  /\ sock[s].closing = "flows" /\ sock[s].prev # None
  /\ FlowsOff(sock[s].prev)
  /\ Update(s, [sock[s] EXCEPT !.closing = "decide"])
  /\ UNCHANGED <<inst, redis, row, whatsapp, events, history, unsaid, kept>>

\* Then the reason decides.
CloseDecide(s) ==
  LET i == sock[s].at
      reason == sock[s].reason IN
  /\ sock[s].closing = "decide" \/ (sock[s].closing = "flows" /\ sock[s].prev = None)
  /\ Update(s, [sock[s] EXCEPT !.closing = IF LogsOut(reason) THEN "delete" ELSE "no"])
  /\ IF LogsOut(reason)
     THEN UNCHANGED <<inst, lockKey>>
     ELSE IF reason # "replaced" /\ inst[i].leader
     THEN inst' = [inst EXCEPT ![i].timers = @ + 1] /\ UNCHANGED lockKey
     ELSE inst' = [inst EXCEPT ![i] = Released(inst[i])] /\ lockKey' = KeyAfterRelease(i)
  /\ UNCHANGED <<cache, database, whatsapp, events, history, losses>>

\* Nothing catches this deletion: when it fails the process goes down (Crash).
CloseDelete(s) ==
  /\ sock[s].closing = "delete"
  /\ row' = NoRow /\ unsaid' = FALSE /\ kept' = kept \ {"row"}
  /\ Update(s, [sock[s] EXCEPT !.closing = "cache"])
  /\ UNCHANGED <<inst, redis, active, whatsapp, events, history, lapses, leftOn>>

\* mutant: the cache is forgotten
CloseCacheStale(s) ==
  LET i == sock[s].at IN
  /\ sock[s].closing = "cache"
  /\ inst' = [inst EXCEPT ![i] = Released(inst[i])]
  /\ lockKey' = KeyAfterRelease(i)
  /\ Update(s, [sock[s] EXCEPT !.closing = "no"])
  /\ UNCHANGED <<cache, database, whatsapp, events, history, losses>>

CloseCache(s) ==
  LET i == sock[s].at IN
  /\ sock[s].closing = "cache"
  /\ CacheDropped
  /\ inst' = [inst EXCEPT ![i] = Released(inst[i])]
  /\ lockKey' = KeyAfterRelease(i)
  /\ Update(s, [sock[s] EXCEPT !.closing = "no"])
  /\ UNCHANGED <<database, whatsapp, events, history, unsaid, leftOn>>

\* persist: keys change with every message while the connection is open.
Save(s) ==
  /\ sock[s].stage = "open" /\ sock[s].saving = "no"
  /\ row' = [row EXCEPT !.creds = sock[s].creds]
  /\ kept' = kept \ {"row"}
  /\ Update(s, [sock[s] EXCEPT !.saving = "cache"])
  /\ UNCHANGED <<inst, redis, active, whatsapp, events, history, lapses, unsaid, leftOn>>

\* ... the cache is written when the row is, also when the row is gone by then.
SaveCache(s) ==
  /\ sock[s].saving = "cache"
  /\ CacheSet(sock[s].creds, sock[s].stage = "open")
  /\ blurred' = (blurred \/ row.creds # sock[s].creds)
  /\ Update(s, [sock[s] EXCEPT !.saving = "no"])
  /\ UNCHANGED <<inst, lockKey, database, whatsapp, events, raced, unsaid, leftOn>>

-----------------------------------------------------------------------------
(* Elections and crashes *)

\* startAllSessions marks every row, reads the users and starts their sessions, with
\* no look at leaderMode in between.  An old leader that has not noticed yet costs an event.
BecomeLeader(i) ==
  /\ ~inst[i].leader
  /\ IF \E j \in Instance : inst[j].leader THEN Event ELSE UNCHANGED events
  /\ inst' = [inst EXCEPT ![i].leader = TRUE, ![i].boot = TRUE]
  /\ SetStatus("DISCONNECTED", None)
  /\ blurred' = (blurred \/ Connected)
  /\ UNCHANGED <<sock, redis, active, whatsapp, raced, leftOn, kept>>

BootStart(i) ==
  /\ inst[i].boot
  /\ IF row = NoRow
     THEN inst' = [inst EXCEPT ![i].boot = FALSE] /\ UNCHANGED <<sock, lockKey, history, losses>>
     ELSE StartUnlessMapped(i, [inst[i] EXCEPT !.boot = FALSE])
  /\ UNCHANGED <<cache, database, whatsapp, events>>

\* mutant: the locks are released, the sockets stay
StepDownConnected(i) ==
  /\ inst[i].leader
  /\ IF \E j \in Instance \ {i} : inst[j].leader THEN UNCHANGED events ELSE Event
  /\ inst' = [inst EXCEPT ![i] = [Released(inst[i]) EXCEPT !.leader = FALSE, !.stopping = TRUE]]
  /\ lockKey' = KeyAfterRelease(i)
  /\ UNCHANGED <<sock, cache, database, whatsapp, history, losses>>

\* stepDown: stopAllSessions ends the mapped socket, whose close event is handled at
\* once or comes when the map is empty; what is still being built is not stopped.
StepDown(i) ==
  LET s == inst[i].session IN
  /\ inst[i].leader
  /\ IF \E j \in Instance \ {i} : inst[j].leader THEN UNCHANGED events ELSE Event
  /\ inst' = [inst EXCEPT ![i] = [Released(inst[i]) EXCEPT !.leader = FALSE, !.session = None,
                                    !.pending = FALSE, !.stopping = TRUE]]
  /\ lockKey' = KeyAfterRelease(i)
  /\ IF s = None THEN UNCHANGED <<sock, blurred, lapses, leftOn>>
     ELSE \E h \in {"no", "status"}, p \in {row.phone, None} :
            /\ Recalled(p)
            /\ Update(s, [sock[s] EXCEPT !.stage = "gone", !.closing = h, !.reason = "drop",
                                         !.prev = p])
            /\ blurred' = (blurred \/ h = "no" \/ sock[s].opening # "no")
  /\ raced' = IF inst[i].won \/ MakingSocket(i) THEN raced \cup {i} ELSE raced
  /\ UNCHANGED <<cache, database, whatsapp, unsaid, kept>>

StopMark(i) ==
  /\ inst[i].stopping
  /\ SetStatus("DISCONNECTED", None)
  /\ inst' = [inst EXCEPT ![i].stopping = FALSE]
  /\ blurred' = (blurred \/ Connected)
  /\ UNCHANGED <<sock, redis, active, whatsapp, events, raced, leftOn, kept>>

\* The process dies with its sockets and starts again; the key stays.
Crash(i) ==
  /\ Event
  /\ inst' = [inst EXCEPT ![i] = Idle]
  /\ sock' = [s \in Socket |-> IF sock[s].at = i THEN Free ELSE sock[s]]
  /\ raced' = raced \ {i}
  /\ blurred' = TRUE
  /\ UNCHANGED <<redis, database, whatsapp, losses>>

-----------------------------------------------------------------------------

SocketStep(s) ==
  \/ LoadDb(s) \/ FillCache(s) \/ MakeSocket(s)
  \/ Opened(s) \/ Refused(s) \/ Kicked(s)
  \/ ShowQr(s) \/ QrExpires(s) \/ OpenFlows(s)
  \/ CloseStatus(s) \/ CloseFlows(s) \/ CloseDecide(s)
  \/ CloseDelete(s) \/ CloseCache(s) \/ SaveCache(s)

ResetStep(i) ==
  ResetLogout(i) \/ ResetRow(i) \/ ResetCache(i) \/ ResetFlows(i) \/ ResetStart(i)

InstanceStep(i) ==
  \/ Acquired(i) \/ RenewFails(i) \/ ReconnectTimer(i) \/ Reconcile(i)
  \/ ResetStep(i)
  \/ BootStart(i) \/ StopMark(i)

Next ==
  \/ \E s \in Socket :
       \/ SocketStep(s)
       \/ BuildFails(s) \/ Save(s) \/ Drop(s) \/ Unlink(s)
       \/ \E p \in Phone : Scan(s, p)
  \/ \E i \in Instance :
       \/ InstanceStep(i)
       \/ AcquireFails(i) \/ SendNeedsSession(i) \/ StartRequest(i)
       \/ StartSameNumber(i) \/ StartOtherNumber(i)
       \/ BecomeLeader(i) \/ StepDown(i) \/ Crash(i)
  \/ Expire

Spec == Init /\ [][Next]_vars

\* Handlers, timers and intervals run; events, scans and messages need not happen.
Fairness ==
  /\ \A s \in Socket : WF_vars(SocketStep(s))
  /\ \A i \in Instance :
       /\ WF_vars(Acquired(i)) /\ WF_vars(RenewFails(i)) /\ WF_vars(ReconnectTimer(i))
       /\ WF_vars(Reconcile(i)) /\ WF_vars(ResetStep(i)) /\ WF_vars(BootStart(i))
       /\ WF_vars(StopMark(i))
       /\ WF_vars(StepDown(i) /\ UNCHANGED events)
       /\ WF_vars(BecomeLeader(i) /\ UNCHANGED events)
  /\ WF_vars(Expire /\ UNCHANGED events)

FairSpec == Spec /\ Fairness

-----------------------------------------------------------------------------
(* Properties *)

TypeOK ==
  /\ inst \in [Instance ->
       [leader : BOOLEAN, session : Socket \cup {None}, pending : BOOLEAN, held : BOOLEAN,
        won : BOOLEAN, timers : Nat, boot : BOOLEAN, stopping : BOOLEAN,
        reset : {"no", "logout", "row", "cache", "flows", "start"},
        old : Socket \cup {None}, prev : Phone \cup {None}]]
  /\ sock \in [Socket ->
       [at : Instance \cup {None}, creds : Creds \cup {None}, prev : Phone \cup {None},
        stage : {"free", "db", "fill", "version", "connecting", "open", "kicked", "gone"},
        opening : {"no", "flows"}, closing : {"no", "status", "flows", "decide", "delete", "cache"},
        reason : {"no", "restart", "replaced", "loggedOut", "drop"}, saving : {"no", "cache"}]]
  /\ lockKey \in Instance \cup {None} /\ cache \in Creds \cup {None}
  /\ row \in [creds : Creds \cup {None}, phone : Phone \cup {None},
              status : {"CONNECTED", "PENDING", "DISCONNECTED"}]
  /\ active \subseteq Phone \cup {None} /\ linked \subseteq Creds
  /\ phoneOf \in [Creds -> Phone \cup {None}]
  /\ events \in 0 .. MaxEvents /\ raced \subseteq Instance /\ blurred \in BOOLEAN
  /\ lapses \in 0 .. MaxLapses /\ unsaid \in BOOLEAN
  /\ leftOn \subseteq Phone \cup {None} /\ kept \subseteq {"row", "cache"}

\* One socket per user: a connection lives only under the session lock, and as the
\* session its process knows of.  What breaks it is in raced: a lock that expires under
\* a live process, a step-down while a socket is being built, and a start that overlaps
\* the close handler or forceResetSession, whose late steps release the new lock.
SocketsHoldTheLock ==
  \A s \in Socket :
    LET i == sock[s].at IN
    Live(s) /\ ~InReset(s) /\ i \notin raced =>
      inst[i].session = s /\ inst[i].held /\ lockKey = i

Resting(s) ==
  sock[s] = Free \/ (sock[s].stage = "open" /\ sock[s].opening = "no" /\ sock[s].saving = "no")

\* Nothing is under way, and nothing of what breaks the claims below has happened:
\* besides races, a crash, a socket ended by a lost lock or a step-down without its
\* close event being handled, a connection that closes before its open handler is
\* through, a save that reaches the cache when its row is gone, and markAllDisconnected
\* over an open connection.
Calm ==
  /\ raced = {} /\ ~blurred
  /\ \A s \in Socket : Resting(s)
  /\ \A i \in Instance :
       ~inst[i].won /\ ~inst[i].boot /\ ~inst[i].stopping /\ inst[i].reset = "no"

\* The dashboard's status and the flows follow the connection, but for a status write
\* that was lost, until the next one, and for flows that a lapse left on, until the next
\* end of a connection of that number.
StatusAndFlowsAreTrue ==
  Calm => /\ ~unsaid => (Connected <=> row.status = "CONNECTED")
          /\ active \ leftOn # {} => Connected

\* The cache never survives the row, and no row keeps a pairing that is gone, so that the
\* next start reads credentials that work, or asks for a scan: but for a deletion that
\* failed, until the credentials are deleted or saved again.
CredentialsAgree ==
  Calm => /\ "cache" \notin kept => cache \in {None, row.creds}
          /\ "row" \notin kept /\ row # NoRow => row.creds \in linked

\* Only the user's change of number deletes a pairing that stands, or a start from
\* credentials that outlived their deletion in the cache.
PairingsAreKept ==
  [][row' = NoRow /\ row.creds \in linked =>
       \/ raced # {} \/ blurred \/ "cache" \in kept
       \/ \E i \in Instance : inst[i].reset = "row"]_vars

\* "sem isso, a sessao fica offline" (whatsapp.service.ts:195): whatever happened, a user
\* whose pairing stands is connected again and again.
Served == <>[](row.creds \in linked) => []<>Connected
=============================================================================
