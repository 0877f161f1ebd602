---------------------------- MODULE ProxyStatus ----------------------------
(* The flows switched on and off with the connection in proxy mode: the     *)
(* wa-worker publishes the status of its socket, every API instance gets    *)
(* the events in order and handles each without waiting for the last one.   *)
(* The wa-worker, which also writes whatsapp_sessions, is external.         *)
EXTENDS Naturals, Sequences

CONSTANTS
  Api,           \* API instances
  Number, NoNumber,
  MaxStatuses,   \* bound: events published
  MaxLost        \* bound: rejected statements and crashes

ASSUME StatusAssumption == Api # {} /\ NoNumber \notin Number

VARIABLES
  link,        \* the number the wa-worker is connected with
  rowPhone,    \* whatsapp_sessions.connectedPhone
  channel,     \* the events on their way to each instance
  pending,     \* the statements of each instance that have not run
  answering,   \* the numbers whose flows are active
  statuses, lost,
  met,         \* history: an event was handled while a statement had not run
  strayed      \* history: an event without a phone changed the wrong flows, or none

statusVars ==
  <<link, rowPhone, channel, pending, answering, statuses, lost, met, strayed>>

StatusInit ==
  /\ link = NoNumber /\ rowPhone = NoNumber /\ answering = {}
  /\ channel = [a \in Api |-> <<>>] /\ pending = [a \in Api |-> {}]
  /\ statuses = 0 /\ lost = 0 /\ met = FALSE /\ strayed = FALSE

\* of: the number the event is about, whether it says so or not
Publish(status, phone, of) ==
  /\ statuses < MaxStatuses /\ statuses' = statuses + 1
  /\ channel' = [a \in Api |->
       Append(channel[a], [status |-> status, phone |-> phone, of |-> of])]
  /\ UNCHANGED <<pending, answering, lost, met, strayed>>

LinkOpens ==
  /\ link = NoNumber
  /\ \E n \in Number : /\ link' = n /\ rowPhone' = n
                       /\ \E phone \in {n, NoNumber} : Publish("CONNECTED", phone, n)
LinkCloses ==
  /\ link # NoNumber
  /\ link' = NoNumber /\ rowPhone' \in {link, NoNumber}
  /\ \E phone \in {link, NoNumber} : Publish("DISCONNECTED", phone, link)

----------------------------------------------------------------------------
(* handleStatus *)

SendsIfPhone(e) ==
  IF e.phone = NoNumber THEN {}
  ELSE {[does |-> IF e.status = "CONNECTED" THEN "activate" ELSE "deactivate",
         phone |-> e.phone, of |-> e.of]}
\* Without a phone a connection is ignored; a disconnection asks the session for it.
Sends(e) ==
  IF e.phone = NoNumber /\ e.status = "CONNECTED" THEN {}
  ELSE {[does |-> IF e.status = "CONNECTED" THEN "activate"
                  ELSE IF e.phone = NoNumber THEN "lookUp" ELSE "deactivate",
         phone |-> e.phone, of |-> e.of]}

HandleStatus(a) ==
  /\ channel[a] # <<>>
  /\ LET e == Head(channel[a]) IN
     /\ channel' = [channel EXCEPT ![a] = Tail(@)]
     /\ pending' = [pending EXCEPT ![a] = @ \union Sends(e)]
     /\ met' = (met \/ pending[a] # {})
     /\ strayed' = (strayed \/ (e.phone = NoNumber /\ e.status = "CONNECTED"))
  /\ UNCHANGED <<link, rowPhone, answering, statuses, lost>>

\* getConnectionInfo, with what the row says by then
LookUp(a) ==
  /\ \E s \in pending[a] :
       /\ s.does = "lookUp"
       /\ pending' = [pending EXCEPT ![a] = (@ \ {s}) \union
            IF rowPhone = NoNumber THEN {}
            ELSE {[does |-> "deactivate", phone |-> rowPhone, of |-> s.of]}]
       /\ strayed' = (strayed \/ rowPhone # s.of)
  /\ UNCHANGED <<link, rowPhone, channel, answering, statuses, lost, met>>

\* Neither statement is awaited: they run in any order.
ActivatePending(a) ==
  /\ \E s \in pending[a] : /\ s.does = "activate"
                           /\ answering' = answering \union {s.phone}
                           /\ pending' = [pending EXCEPT ![a] = @ \ {s}]
  /\ UNCHANGED <<link, rowPhone, channel, statuses, lost, met, strayed>>
DeactivateActive(a) ==
  /\ \E s \in pending[a] : /\ s.does = "deactivate"
                           /\ answering' = answering \ {s.phone}
                           /\ pending' = [pending EXCEPT ![a] = @ \ {s}]
  /\ UNCHANGED <<link, rowPhone, channel, statuses, lost, met, strayed>>

\* A rejection is logged and forgotten.
StatementFails(a) ==
  /\ lost < MaxLost /\ lost' = lost + 1
  /\ \E s \in pending[a] : pending' = [pending EXCEPT ![a] = @ \ {s}]
  /\ UNCHANGED <<link, rowPhone, channel, answering, statuses, met, strayed>>

\* Redis keeps no event for a subscriber that is away.
ApiCrashes(a) ==
  /\ lost < MaxLost /\ lost' = lost + 1
  /\ channel[a] # <<>> \/ pending[a] # {}
  /\ channel' = [channel EXCEPT ![a] = <<>>]
  /\ pending' = [pending EXCEPT ![a] = {}]
  /\ UNCHANGED <<link, rowPhone, answering, statuses, met, strayed>>

StatusNext ==
  \/ LinkOpens \/ LinkCloses
  \/ \E a \in Api :
       \/ HandleStatus(a) \/ LookUp(a) \/ ActivatePending(a) \/ DeactivateActive(a)
       \/ StatementFails(a) \/ ApiCrashes(a)

StatusSpec == StatusInit /\ [][StatusNext]_statusVars

----------------------------------------------------------------------------

Settled == \A a \in Api : channel[a] = <<>> /\ pending[a] = {}

\* wa-event-consumer.service.ts:124-126: flows go on when the socket connects and
\* off when it disconnects. However late each instance handles the events, that
\* is how they end, unless an instance handled an event before the statement of
\* an earlier one had run, an event did not say the number, or something was lost.
FlowsFollowTheLink ==
  Settled /\ ~met /\ ~strayed /\ lost = 0 => answering = {link} \ {NoNumber}
=============================================================================
