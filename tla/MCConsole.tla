----------------------------- MODULE MCConsole -----------------------------
(* The dashboard, the inbox, the reports and the flows that follow the      *)
(* connection, side by side: what the four models keep is apart, so a       *)
(* behaviour is about one of them and the others stay as they began.        *)
EXTENDS Dashboard, Inbox, Analytics, ProxyStatus

CONSTANTS p1, l1, l2, g1, g2, a1, a2, n1, n2

VARIABLE about

Phones == [c \in Conv |-> p1]
Titles == [l \in Line |-> "Vendas"]
Names == Permutations({l1, l2}) \union Permutations({g1, g2})

consoleVars == <<vars, inboxVars, analyticsVars, statusVars, about>>

\* The histories and the reports do not need every beginning of the others.
ConsoleInit ==
  /\ about \in {"dashboard", "inbox", "reports", "status"}
  /\ DashboardInit /\ InboxInit /\ AnalyticsInit /\ StatusInit
  /\ about # "inbox" => OpenChats = {} /\ \A c \in Chats : chat[c].auto
  /\ about # "reports" => lines = {}

ConsoleNext ==
  /\ UNCHANGED about
  /\ \/ about = "dashboard" /\ DashboardNext /\ UNCHANGED <<inboxVars, analyticsVars, statusVars>>
     \/ about = "inbox" /\ InboxNext /\ UNCHANGED <<vars, analyticsVars, statusVars>>
     \/ about = "reports" /\ AnalyticsNext /\ UNCHANGED <<vars, inboxVars, statusVars>>
     \/ about = "status" /\ StatusNext /\ UNCHANGED <<vars, inboxVars, analyticsVars>>

ConsoleSpec == ConsoleInit /\ [][ConsoleNext]_consoleVars
=============================================================================
