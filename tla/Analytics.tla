----------------------------- MODULE Analytics -----------------------------
(* The reports of the dashboard: the queries of analytics-v2.repository.ts  *)
(* and analytics.repository.ts as operators over the tables they read.      *)
(*                                                                          *)
(* A unit of time is three hours, the distance from UTC to Brasilia. The    *)
(* database groups by days of UTC, eight units from 8d; the second report   *)
(* asks for days of Brasilia, eight units from 8d + 1. The queries of a     *)
(* report are not one transaction: what is said here is said of a report    *)
(* during which nothing is written.                                         *)
EXTENDS Naturals, Sequences, FiniteSets, FiniteSetsExt

CONSTANTS
  Talk,          \* conversations: numbers
  Line, AllLines,  \* flows, and a request without a flow
  TitleOf,       \* title of each flow: two may share one
  Lead,          \* phone numbers
  Column, NoColumn,   \* stages of the kanban that is shown
  Instants,      \* bound: the moments at which anything happens
  SparkDays,     \* days of the sparkline (14 in the code)
  MaxSaid        \* bound: messages of all conversations

ASSUME AnalyticsAssumption ==
  /\ Talk \subseteq Nat /\ IsFiniteSet(Talk)
  /\ IsFiniteSet(Line) /\ AllLines \notin Line
  /\ IsFiniteSet(Column) /\ NoColumn \notin Column
  /\ Instants \subseteq Nat /\ Instants # {} /\ SparkDays \in Nat

VARIABLES
  talk,      \* conversations with their progress and their messages in order
  lines,     \* the flows that are not deleted
  clock

analyticsVars == <<talk, lines, clock>>

NoTalk == [said |-> <<>>]
Talks == {c \in Talk : talk[c] # NoTalk}

----------------------------------------------------------------------------
(* Periods *)

Within(p, t) == p.start <= t /\ t <= p.end

BrtStartOfDayUtc(t) == t     \* mutant: the date is taken as it was parsed
\* The dates of a request are midnights of UTC.
BrtStartOfDay(t) == t + 1
BrtEndOfDay(t) == BrtStartOfDay(t) + 7     \* the last unit of that day
BrtDays(first, last) == [start |-> BrtStartOfDay(8 * first), end |-> BrtEndOfDay(8 * last)]

\* Without dates the second report counts from this moment, not from a midnight.
DefaultPeriod == [start |-> BrtStartOfDay(clock - 8 * (SparkDays - 1)), end |-> BrtEndOfDay(clock)]

\* The first report takes days of the server, UTC.
UtcDays(first, last) == [start |-> 8 * first, end |-> 8 * last + 7]

\* Today began at midnight of Brasilia (second report) or of UTC (first).
BrtToday == 8 * ((clock - 1) \div 8) + 1
UtcToday == 8 * (clock \div 8)

----------------------------------------------------------------------------
(* Queries of the second report. f is the flow of the request.              *)

\* flowFilterK, a part of every query.
CountsFor(f, c) == talk[c].line \in lines /\ (f = AllLines \/ talk[c].line = f)

Counted(f) == {c \in Talks : CountsFor(f, c)}
Created(f, p) == {c \in Counted(f) : Within(p, talk[c].at)}

\* The messages of conversations, by conversation and place.
Said(f) == UNION {{<<c, i>> : i \in DOMAIN talk[c].said} : c \in Counted(f)}
Message1(x) == talk[x[1]].said[x[2]]
SaidWithin(f, p) == {x \in Said(f) : Within(p, Message1(x).at)}
ByLead(S) == {x \in S : Message1(x).by = "LEAD"}

GroupBy(S, Key(_)) == [k \in {Key(x) : x \in S} |-> Cardinality({x \in S : Key(x) = k})]
Total(groups) == MapThenSumSet(LAMBDA k : groups[k], DOMAIN groups)

MessagesReceivedToday(f) == Cardinality({x \in ByLead(Said(f)) : Message1(x).at >= BrtToday})
NewLeadsToday(f) == Cardinality({c \in Counted(f) : talk[c].at >= BrtToday})
ActiveConversations(f) == Cardinality({c \in Counted(f) : talk[c].status = "ACTIVE"})
PendingResponses(f) ==
  Cardinality({c \in Counted(f) : talk[c].status = "ACTIVE" /\ talk[c].waits})

\* Conversations of the period, and those whose progress is at an END node.
Rate(S) == [total |-> Cardinality(S), completed |-> Cardinality({c \in S : talk[c].ended})]
Completion(f, p) == Rate(Created(f, p))
CompletionByDate(f, p) ==
  LET Of(d) == {c \in Created(f, p) : talk[c].at \div 8 = d} IN
  [d \in {talk[c].at \div 8 : c \in Created(f, p)} |-> Rate(Of(d))]

LeadsByDate(f, p) == GroupBy(Created(f, p), LAMBDA c : talk[c].at \div 8)
MessagesByDate(f, p) == GroupBy(SaidWithin(f, p), LAMBDA x : Message1(x).at \div 8)
MessagesByHour(f, p) == GroupBy(SaidWithin(f, p), LAMBDA x : Message1(x).at % 8)
StatusCounts(f, p) == GroupBy(Created(f, p), LAMBDA c : talk[c].status)
UniqueLeads(f, p) == Cardinality({talk[c].lead : c \in Created(f, p)})

\* Flows without a lead are listed as well.
PerformanceByFlow(f, p) ==
  [l \in {x \in lines : f = AllLines \/ x = f} |->
     Cardinality({c \in Talks : talk[c].line = l /\ Within(p, talk[c].at)})]

\* The sparkline begins at a midnight of the server; the end is the period's.
SparkStart == 8 * (clock \div 8 - (SparkDays - 1))
LeadsByDay(f, p) ==
  [i \in 0 .. SparkDays - 1 |->
     Cardinality({c \in Created(f, [start |-> SparkStart, end |-> p.end]) :
                    talk[c].at \div 8 = SparkStart \div 8 + i})]
\* It is compared with the days before, up to one day before its start.
PreviousTotal(f) ==
  Cardinality(Created(f, [start |-> SparkStart - 8 * SparkDays, end |-> SparkStart - 8]))

\* The kanban's columns count every progress row: the filter of the flow and
\* of deleted rows is on a joined table whose columns are not counted.
Pipeline(f) == [s \in Column |-> Cardinality({c \in Talks : talk[c].stage = s})]

----------------------------------------------------------------------------
(* Queries of the first report, always of all the flows *)

TotalLeads(p) == Cardinality(Created(AllLines, p))
\* Messages of the bot, whenever they were sent.
TotalInteractions(p) ==
  Cardinality(UNION {{<<c, i>> : i \in {j \in DOMAIN talk[c].said : talk[c].said[j].by = "BOT"}} :
                       c \in Created(AllLines, p)})
\* Flows of one title are one row.
LeadsByFlow(p) == GroupBy(Created(AllLines, p), LAMBDA c : TitleOf[talk[c].line])
LeadsSinceMidnight == Cardinality({c \in Counted(AllLines) : talk[c].at >= UtcToday})
MessagesSinceMidnight ==
  Cardinality({x \in ByLead(Said(AllLines)) : Message1(x).at >= UtcToday})

----------------------------------------------------------------------------
(* What is written: by the engine (FlowEngine) and the editor (FlowEditor)  *)

LeadArrives ==
  /\ Talks # Talk
  /\ \E l \in lines, who \in Lead :
       talk' = [talk EXCEPT ![Min(Talk \ Talks)] =
         [line |-> l, lead |-> who, at |-> clock, status |-> "ACTIVE", stage |-> NoColumn,
          waits |-> FALSE, ended |-> FALSE, said |-> <<[by |-> "LEAD", at |-> clock]>>]]
  /\ UNCHANGED <<lines, clock>>

\* The bot asks, or the lead answers.
Speaks ==
  /\ \E c \in Talks, by \in {"LEAD", "BOT"} :
       /\ MapThenSumSet(LAMBDA x : Len(talk[x].said), Talks) < MaxSaid
       /\ talk' = [talk EXCEPT ![c].said = Append(@, [by |-> by, at |-> clock]),
                               ![c].waits = (by = "BOT")]
  /\ UNCHANGED <<lines, clock>>

\* At an END node, which has a stage, or at an arrow that leads nowhere.
Finishes ==
  /\ \E c \in Talks, s \in Column \union {NoColumn} :
       /\ talk[c].status = "ACTIVE"
       /\ talk' = [talk EXCEPT ![c].status = "FINISHED", ![c].ended = (s # NoColumn),
                               ![c].stage = s, ![c].waits = FALSE]
  /\ UNCHANGED <<lines, clock>>

LineIsDeleted ==
  /\ \E l \in lines : lines' = lines \ {l}
  /\ UNCHANGED <<talk, clock>>

TimePasses ==
  /\ \E t \in Instants : t > clock /\ clock' = t
  /\ UNCHANGED <<talk, lines>>

AnalyticsInit ==
  /\ talk = [c \in Talk |-> NoTalk]
  /\ lines \in SUBSET Line
  /\ clock = Min(Instants)

AnalyticsNext == LeadArrives \/ Speaks \/ Finishes \/ LineIsDeleted \/ TimePasses

AnalyticsSpec == AnalyticsInit /\ [][AnalyticsNext]_analyticsVars

----------------------------------------------------------------------------
(* Properties *)

Filters == lines \union {AllLines}
Dates == {t \div 8 : t \in Instants}
Periods ==
  LET pairs == {x \in Dates \X Dates : x[1] <= x[2]} IN
  {BrtDays(x[1], x[2]) : x \in pairs} \union {UtcDays(x[1], x[2]) : x \in pairs}
    \union {DefaultPeriod}

\* The parts of a report that count the same conversations agree: the donut,
\* the two tables by date, the flows and the total of the completion rate.
PartsAgree(f, p) ==
  LET total == Completion(f, p).total  byDate == CompletionByDate(f, p) IN
  /\ Total(LeadsByDate(f, p)) = total
  /\ Total(StatusCounts(f, p)) = total
  /\ Total(PerformanceByFlow(f, p)) = total
  /\ Total([d \in DOMAIN byDate |-> byDate[d].total]) = total
  /\ Total([d \in DOMAIN byDate |-> byDate[d].completed]) = Completion(f, p).completed
  /\ UniqueLeads(f, p) <= total
  /\ Total(MessagesByHour(f, p)) = Total(MessagesByDate(f, p))

\* A report on all flows is the sum of the reports on each.
FlowsAddUp(p) ==
  LET Sum(Of(_)) == Of(AllLines) = Total([l \in lines |-> Of(l)]) IN
  /\ Sum(MessagesReceivedToday) /\ Sum(NewLeadsToday)
  /\ Sum(ActiveConversations) /\ Sum(PendingResponses) /\ Sum(PreviousTotal)
  /\ Sum(LAMBDA f : Completion(f, p).completed)
  /\ Sum(LAMBDA f : Total(LeadsByDay(f, p)))
  /\ Sum(LAMBDA f : Total(MessagesByHour(f, p)))

\* The cards of today show what a request for the date of today shows, in each
\* report's own days, although the one is cut by the database and the other by
\* the use case; and the first report agrees with the second on a common period.
TodayAgrees ==
  LET date == (clock - 1) \div 8     \* in Brasilia
      brt == BrtDays(date, date)
      utc == UtcDays(clock \div 8, clock \div 8)
  IN /\ NewLeadsToday(AllLines) = Completion(AllLines, brt).total
     /\ MessagesReceivedToday(AllLines) = Cardinality(ByLead(SaidWithin(AllLines, brt)))
     /\ LeadsSinceMidnight = TotalLeads(utc)
     /\ MessagesSinceMidnight = Cardinality(ByLead(SaidWithin(AllLines, utc)))

\* What a report shows side by side adds up, for every period, with and
\* without a flow, in both reports. The pipeline is left out: it does not
\* follow the flow of the request, and it counts leads of deleted flows.
ReportsAddUp ==
  /\ TodayAgrees
  /\ \A p \in Periods :
       /\ \A f \in Filters : PartsAgree(f, p)
       /\ FlowsAddUp(p)
       /\ Total(LeadsByFlow(p)) = TotalLeads(p)
       /\ TotalInteractions(p) <= Cardinality(Said(AllLines))
       /\ Total(Pipeline(AllLines)) >= Cardinality({c \in Created(AllLines, p) : talk[c].stage # NoColumn})
=============================================================================
