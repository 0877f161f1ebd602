--------------------------- MODULE ConsoleProofs ---------------------------
(* What holds of two parts of the dashboard that other modules only feed:   *)
(* the reports, for any number of conversations, flows, columns and days    *)
(* and for every period; and the flows that follow the connection, for any  *)
(* number of instances, numbers, events and failures.                       *)
EXTENDS Analytics, ProxyStatus, SequenceTheorems, FiniteSetTheorems, WellFoundedInduction,
        TLAPS

----------------------------------------------------------------------------
(* Sums of counts *)

\* The recursion a total is computed by, over the groups in K.
Adds(f, g, K) ==
  f = [s \in SUBSET K |-> IF s = {} THEN 0
         ELSE g[CHOOSE x \in s : TRUE] + f[s \ {CHOOSE x \in s : TRUE}]]

\* A total is the last value of a function that adds in this way.
LEMMA TotalIsFold ==
  ASSUME NEW g
  PROVE  Total(g) = (CHOOSE f : Adds(f, g, DOMAIN g))[DOMAIN g]
BY DEF Total, MapThenSumSet, MapThenFoldSet, Adds

\* A property of subsets that is lost is lost first at one of them.
LEMMA FirstLoss ==
  ASSUME NEW K, IsFiniteSet(K), NEW B, B \subseteq SUBSET K, B # {}
  PROVE  \E T \in B : \A U \in B : U \subseteq T => U = T
<1> DEFINE R == StrictSubsetOrdering(K)
<1>1. IsWellFoundedOn(R, SUBSET K)
  BY FS_StrictSubsetOrderingWellFounded, FS_FiniteSubsetsOfFinite
<1>2. PICK T \in B : \A U \in B : ~(<<U, T>> \in R)
  <2> HIDE DEF R
  <2> QED  BY <1>1, WFMin, Zenon
<1>3. ASSUME NEW U \in B, U \subseteq T PROVE U = T
  <2>1. U \in SUBSET K /\ T \in SUBSET K
    OBVIOUS
  <2> QED  BY <1>2, <1>3, <2>1 DEF StrictSubsetOrdering
<1> QED  BY <1>3

\* Groups that count the elements of a set by a key are as many together as the
\* elements that have a key of theirs.
LEMMA TotalByKey ==
  ASSUME NEW S, IsFiniteSet(S), NEW key, NEW g, IsFiniteSet(DOMAIN g),
         \A k \in DOMAIN g : g[k] = Cardinality({x \in S : key[x] = k})
  PROVE  Total(g) = Cardinality({x \in S : key[x] \in DOMAIN g})
<1> DEFINE K == DOMAIN g
           Of(T) == {x \in S : key[x] \in T}
           F == [T \in SUBSET K |-> Cardinality(Of(T))]
           pick(T) == CHOOSE x \in T : TRUE
<1>1. ASSUME NEW T \in SUBSET K, T # {}
      PROVE  Cardinality(Of(T)) = g[pick(T)] + Cardinality(Of(T \ {pick(T)}))
  <2>1. PICK k : k = pick(T)
    OBVIOUS
  <2>2. k \in T
    BY <1>1, <2>1
  <2> DEFINE here == {x \in S : key[x] = k}
             there == Of(T \ {k})
  <2>3. Of(T) = here \union there /\ here \intersect there = {}
    BY <2>2
  <2>4. IsFiniteSet(here) /\ IsFiniteSet(there)
    BY FS_Subset
  <2>5. g[k] = Cardinality(here)
    BY <2>2
  <2> HIDE DEF here, there, Of
  <2>6. Cardinality(here) \in Nat /\ Cardinality(there) \in Nat
    BY <2>4, FS_CardinalityType
  <2>7. Cardinality(Of(T)) = Cardinality(here) + Cardinality(there)
    <3>1. Cardinality(here \union there) = Cardinality(here) + Cardinality(there) - 0
      BY <2>3, <2>4, FS_Union, FS_EmptySet
    <3> QED  BY <2>3, <2>6, <3>1
  <2> QED  BY <2>1, <2>5, <2>7 DEF there
<1>2. Cardinality(Of({})) = 0
  <2>1. Of({}) = {}
    OBVIOUS
  <2> QED  BY <2>1, FS_EmptySet
<1>3. Adds(F, g, K)
  <2>1. \A T \in SUBSET K : T \ {pick(T)} \in SUBSET K
    OBVIOUS
  <2>2. \A T \in SUBSET K : F[T] = Cardinality(Of(T))
    OBVIOUS
  <2> HIDE DEF Of, pick
  <2>3. \A T \in SUBSET K : F[T] = IF T = {} THEN 0 ELSE g[pick(T)] + F[T \ {pick(T)}]
    BY <1>1, <1>2, <2>1, <2>2
  <2>4. F = [T \in SUBSET K |-> IF T = {} THEN 0 ELSE g[pick(T)] + F[T \ {pick(T)}]]
    BY <2>3
  <2> QED  BY <2>4 DEF Adds, pick
<1> HIDE DEF Of
<1>4. ASSUME NEW f, Adds(f, g, K) PROVE f[K] = F[K]
  <2> DEFINE B == {T \in SUBSET K : f[T] # F[T]}
  <2>1. SUFFICES ASSUME B # {} PROVE FALSE
    BY <2>1
  <2>2. PICK T \in B : \A U \in B : U \subseteq T => U = T
    <3>1. B \subseteq SUBSET K
      OBVIOUS
    <3> HIDE DEF B
    <3> QED  BY <2>1, <3>1, FirstLoss
  <2>3. \A h : Adds(h, g, K) => h[T] = IF T = {} THEN 0 ELSE g[pick(T)] + h[T \ {pick(T)}]
    <3>1. T \in SUBSET K
      BY <2>2
    <3> QED  BY <3>1 DEF Adds
  <2>4. T # {}
    BY <1>3, <1>4, <2>2, <2>3
  <2>5. pick(T) \in T
    BY <2>4
  <2>6. f[T \ {pick(T)}] = F[T \ {pick(T)}]
    <3> HIDE DEF F, pick
    <3> QED  BY <2>2, <2>5
  <2>7. f[T] = F[T]
    <3> HIDE DEF F, pick
    <3> QED  BY <1>3, <1>4, <2>3, <2>4, <2>6
  <2> QED  BY <2>2, <2>7
<1>5. Adds(CHOOSE f : Adds(f, g, K), g, K)
  <2> HIDE DEF F, K
  <2> QED  BY <1>3
<1>6. Total(g) = F[K]
  <2> HIDE DEF F
  <2> QED  BY <1>4, <1>5, TotalIsFold
<1> QED  BY <1>6 DEF Of

----------------------------------------------------------------------------
(* The tables *)

\* A conversation at moment t: nothing in it is later.
Row(r, t) ==
  /\ r \in [line : Line, lead : Lead, at : Nat, status : {"ACTIVE", "FINISHED"},
            stage : Column \union {NoColumn}, waits : BOOLEAN, ended : BOOLEAN,
            said : Seq([by : {"LEAD", "BOT"}, at : Nat])]
  /\ r.at <= t /\ \A i \in DOMAIN r.said : r.said[i].at <= t
ReportsInv ==
  /\ talk = [c \in Talk |-> talk[c]] /\ \A c \in Talk : talk[c] = NoTalk \/ Row(talk[c], clock)
  /\ lines \subseteq Line /\ clock \in Nat

\* The tables as they begin and as the engine and the editor write them.
LEMMA ReportsInit == AnalyticsInit => ReportsInv
<1>1. Min(Instants) \in Nat
  <2>1. PICK x \in Instants : \A y \in Instants : ~(<<y, x>> \in OpToRel(<, Nat))
    BY AnalyticsAssumption, WFMin, NatLessThanWellFounded, Zenon
  <2>2. \A y \in Instants : x <= y
    <3> SUFFICES ASSUME NEW y \in Instants PROVE x <= y
      OBVIOUS
    <3>1. x \in Nat /\ y \in Nat
      BY AnalyticsAssumption
    <3>2. ~(y < x)
      BY <2>1, <3>1 DEF OpToRel
    <3> QED  BY <3>1, <3>2
  <2> QED  BY <2>1, <2>2, AnalyticsAssumption DEF Min
<1> QED  BY <1>1 DEF AnalyticsInit, ReportsInv

\* What was in the past stays there.
LEMMA RowAges ==
  ASSUME NEW t \in Nat, NEW u \in Nat, t <= u
  PROVE  \A r : Row(r, t) => Row(r, u)
<1> DEFINE M == [by : {"LEAD", "BOT"}, at : Nat]
<1> SUFFICES ASSUME NEW r, Row(r, t) PROVE Row(r, u)
  OBVIOUS
<1>1. PICK said : said = r.said
  OBVIOUS
<1>2. r.at \in Nat /\ said \in Seq(M) /\ r.at <= t /\ \A i \in DOMAIN said : said[i].at <= t
  BY <1>1 DEF Row
<1>3. \A x \in M : x.at \in Nat
  OBVIOUS
<1>4. \A i \in DOMAIN said : said[i] \in M
  <2> HIDE DEF M
  <2> QED  BY <1>2
<1> HIDE DEF M
<1>5. r.at <= u /\ \A i \in DOMAIN said : said[i].at <= u
  BY <1>2, <1>3, <1>4
<1> QED  BY <1>1, <1>5 DEF Row

\* Every step keeps them.
LEMMA ReportsStep == ReportsInv /\ [AnalyticsNext]_analyticsVars => ReportsInv'
<1> SUFFICES ASSUME ReportsInv, [AnalyticsNext]_analyticsVars PROVE ReportsInv'
  OBVIOUS
<1>1. \A c \in Talk : talk[c] = NoTalk \/ Row(talk[c], clock)
  BY DEF ReportsInv
<1>2. CASE LeadArrives
  <2>1. PICK l \in lines, who \in Lead :
          talk' = [talk EXCEPT ![Min(Talk \ Talks)] =
            [line |-> l, lead |-> who, at |-> clock, status |-> "ACTIVE", stage |-> NoColumn,
             waits |-> FALSE, ended |-> FALSE, said |-> <<[by |-> "LEAD", at |-> clock]>>]]
    BY <1>2 DEF LeadArrives
  <2>2. PICK r : r =
            [line |-> l, lead |-> who, at |-> clock, status |-> "ACTIVE", stage |-> NoColumn,
             waits |-> FALSE, ended |-> FALSE, said |-> <<[by |-> "LEAD", at |-> clock]>>]
    OBVIOUS
  <2>3. <<[by |-> "LEAD", at |-> clock]>> \in Seq([by : {"LEAD", "BOT"}, at : Nat])
        /\ \A i \in DOMAIN <<[by |-> "LEAD", at |-> clock]>> :
             <<[by |-> "LEAD", at |-> clock]>>[i].at <= clock
    BY DEF ReportsInv
  <2>4. Row(r, clock)
    BY <2>2, <2>3 DEF Row, ReportsInv
  <2>5. talk' = [talk EXCEPT ![Min(Talk \ Talks)] = r]
    BY <2>1, <2>2
  <2> HIDE <2>1, <2>2
  <2> QED  BY <1>2, <2>4, <2>5 DEF ReportsInv, LeadArrives
<1>3. CASE Speaks
  <2>1. PICK c \in Talks, by \in {"LEAD", "BOT"} :
          talk' = [talk EXCEPT ![c].said = Append(@, [by |-> by, at |-> clock]),
                               ![c].waits = (by = "BOT")]
    BY <1>3 DEF Speaks
  <2>2. c \in Talk /\ Row(talk[c], clock)
    BY DEF ReportsInv, Talks
  <2>3. PICK m : m = [by |-> by, at |-> clock]
    OBVIOUS
  <2>4. PICK r : r = [talk[c] EXCEPT !.said = Append(talk[c].said, m), !.waits = (by = "BOT")]
    OBVIOUS
  <2>5. m \in [by : {"LEAD", "BOT"}, at : Nat] /\ m.at <= clock
    BY <2>3 DEF ReportsInv
  <2>6. /\ Append(talk[c].said, m) \in Seq([by : {"LEAD", "BOT"}, at : Nat])
        /\ \A i \in DOMAIN Append(talk[c].said, m) : Append(talk[c].said, m)[i].at <= clock
    BY <2>2, <2>5 DEF Row
  <2>7. Row(r, clock)
    BY <2>2, <2>4, <2>6 DEF Row
  <2>8. talk' = [talk EXCEPT ![c] = r]
    BY <2>1, <2>2, <2>3, <2>4 DEF ReportsInv
  <2> QED  BY <1>3, <2>7, <2>8 DEF ReportsInv, Speaks
<1>4. CASE Finishes
  <2>1. PICK c \in Talks, s \in Column \union {NoColumn} :
          talk' = [talk EXCEPT ![c].status = "FINISHED", ![c].ended = (s # NoColumn),
                               ![c].stage = s, ![c].waits = FALSE]
    BY <1>4 DEF Finishes
  <2>2. c \in Talk /\ Row(talk[c], clock)
    BY DEF ReportsInv, Talks
  <2>3. PICK r : r = [talk[c] EXCEPT !.status = "FINISHED", !.ended = (s # NoColumn),
                                     !.stage = s, !.waits = FALSE]
    OBVIOUS
  <2>4. Row(r, clock)
    BY <2>2, <2>3 DEF Row
  <2>5. talk' = [talk EXCEPT ![c] = r]
    BY <2>1, <2>2, <2>3 DEF ReportsInv
  <2> QED  BY <1>4, <2>4, <2>5 DEF ReportsInv, Finishes
<1>5. CASE LineIsDeleted
  BY <1>5 DEF LineIsDeleted, ReportsInv
<1>6. CASE TimePasses
  <2>1. PICK t \in Instants : t > clock /\ clock' = t
    BY <1>6 DEF TimePasses
  <2>2. t \in Nat /\ clock \in Nat
    BY AnalyticsAssumption DEF ReportsInv
  <2>3. \A r : Row(r, clock) => Row(r, t)
    BY <2>1, <2>2, RowAges
  <2> QED  BY <1>1, <1>6, <2>1, <2>2, <2>3 DEF TimePasses, ReportsInv
<1>7. CASE UNCHANGED analyticsVars
  BY <1>7 DEF analyticsVars, ReportsInv
<1> QED  BY <1>2, <1>3, <1>4, <1>5, <1>6, <1>7 DEF AnalyticsNext

----------------------------------------------------------------------------
(* The queries *)

\* The values of a function on a finite set are finitely many, and no more than it has.
LEMMA Values ==
  ASSUME NEW S, IsFiniteSet(S), NEW key
  PROVE  IsFiniteSet({key[x] : x \in S}) /\ Cardinality({key[x] : x \in S}) <= Cardinality(S)
<1> DEFINE h == [x \in S |-> key[x]]
           T == {key[x] : x \in S}
<1>1. h \in Surjection(S, T)
  BY DEF Surjection
<1> HIDE DEF h, T
<1>2. IsFiniteSet(T) /\ Cardinality(T) <= Cardinality(S)
  BY <1>1, FS_Surjection
<1> QED  BY <1>2 DEF T

\* A GROUP BY counts every element of the set once.
LEMMA GroupsAddUp ==
  ASSUME NEW S, IsFiniteSet(S), NEW key, NEW g, DOMAIN g = {key[x] : x \in S},
         \A k \in DOMAIN g : g[k] = Cardinality({x \in S : key[x] = k})
  PROVE  Total(g) = Cardinality(S)
<1>1. IsFiniteSet(DOMAIN g)
  BY Values
<1>2. Total(g) = Cardinality({x \in S : key[x] \in DOMAIN g})
  BY <1>1, TotalByKey
<1>3. {x \in S : key[x] \in DOMAIN g} = S
  OBVIOUS
<1> QED  BY <1>2, <1>3

\* The rows the queries read.
LEMMA Reads ==
  ASSUME ReportsInv
  PROVE  /\ IsFiniteSet(Talks) /\ IsFiniteSet(lines) /\ AllLines \notin lines
         /\ \A c \in Talks : /\ talk[c].line \in Line
                             /\ talk[c].at \in Nat /\ talk[c].at <= clock
                             /\ talk[c].stage \in Column \union {NoColumn}
                             /\ talk[c].said \in Seq([by : {"LEAD", "BOT"}, at : Nat])
                             /\ \A i \in DOMAIN talk[c].said : talk[c].said[i].at <= clock
<1>1. Talks \subseteq Talk /\ lines \subseteq Line
  BY DEF Talks, ReportsInv
<1>2. IsFiniteSet(Talks) /\ IsFiniteSet(lines) /\ AllLines \notin lines
  BY <1>1, AnalyticsAssumption, FS_Subset
<1>3. \A c \in Talks : Row(talk[c], clock)
  BY <1>1 DEF Talks, ReportsInv
<1> QED  BY <1>2, <1>3 DEF Row

\* Conversations and messages of a report are finitely many.
LEMMA FinitelyMany ==
  ASSUME ReportsInv, NEW f, NEW p
  PROVE  /\ Counted(f) \subseteq Talks /\ IsFiniteSet(Counted(f))
         /\ Created(f, p) \subseteq Counted(f) /\ IsFiniteSet(Created(f, p))
         /\ IsFiniteSet(Said(f))
         /\ SaidWithin(f, p) \subseteq Said(f) /\ IsFiniteSet(SaidWithin(f, p))
<1>1. Counted(f) \subseteq Talks /\ IsFiniteSet(Talks)
  BY Reads DEF Counted
<1>2. IsFiniteSet(Counted(f))
  BY <1>1, FS_Subset
<1>3. Created(f, p) \subseteq Counted(f) /\ IsFiniteSet(Created(f, p))
  <2>1. Created(f, p) \subseteq Counted(f)
    BY DEF Created
  <2> QED  BY <1>2, <2>1, FS_Subset
<1> DEFINE places == [c \in Counted(f) |-> {<<c, i>> : i \in DOMAIN talk[c].said}]
<1>4. \A c \in Counted(f) : IsFiniteSet(places[c])
  <2> SUFFICES ASSUME NEW c \in Counted(f) PROVE IsFiniteSet(places[c])
    OBVIOUS
  <2>1. PICK said : said = talk[c].said
    OBVIOUS
  <2>2. said \in Seq([by : {"LEAD", "BOT"}, at : Nat])
    BY <1>1, <2>1, Reads
  <2>3. DOMAIN said = 1 .. Len(said) /\ Len(said) \in Nat
    BY <2>2
  <2>4. IsFiniteSet(DOMAIN said)
    BY <2>3, FS_Interval
  <2> DEFINE pair == [i \in DOMAIN said |-> <<c, i>>]
  <2>5. IsFiniteSet({pair[i] : i \in DOMAIN said})
    <3> HIDE DEF pair
    <3> QED  BY <2>4, Values
  <2>6. {pair[i] : i \in DOMAIN said} = {<<c, i>> : i \in DOMAIN said}
    OBVIOUS
  <2> QED  BY <2>1, <2>5, <2>6
<1>5. Said(f) = UNION {places[c] : c \in Counted(f)}
  BY DEF Said
<1>6. IsFiniteSet(Said(f))
  <2> HIDE DEF places
  <2>1. IsFiniteSet({places[c] : c \in Counted(f)})
    BY <1>2, Values
  <2>2. IsFiniteSet(UNION {places[c] : c \in Counted(f)})
    BY <1>4, <2>1, FS_UNION
  <2> QED  BY <1>5, <2>2
<1>7. SaidWithin(f, p) \subseteq Said(f) /\ IsFiniteSet(SaidWithin(f, p))
  <2>1. SaidWithin(f, p) \subseteq Said(f)
    BY DEF SaidWithin
  <2> QED  BY <1>6, <2>1, FS_Subset
<1> QED  BY <1>1, <1>2, <1>3, <1>6, <1>7

----------------------------------------------------------------------------
(* The parts of a report *)

\* The hours count the messages of the period once each.
LEMMA HoursTotal ==
  ASSUME ReportsInv, NEW f, NEW p
  PROVE  Total(MessagesByHour(f, p)) = Cardinality(SaidWithin(f, p))
<1> DEFINE M == SaidWithin(f, p)
           hour == [x \in M |-> Message1(x).at % 8]
<1>1. /\ DOMAIN MessagesByHour(f, p) = {hour[x] : x \in M}
      /\ \A k \in DOMAIN MessagesByHour(f, p) :
           MessagesByHour(f, p)[k] = Cardinality({x \in M : hour[x] = k})
  BY DEF MessagesByHour, GroupBy
<1>2. IsFiniteSet(M)
  BY FinitelyMany
<1> HIDE DEF M, hour
<1>3. Total(MessagesByHour(f, p)) = Cardinality(M)
  BY <1>1, <1>2, GroupsAddUp
<1> QED  BY <1>3 DEF M

\* The parts that count the same conversations, or the same messages, agree.
LEMMA PartsHold ==
  ASSUME ReportsInv, NEW f \in Filters, NEW p
  PROVE  PartsAgree(f, p)
<1> DEFINE S == Created(f, p)
           M == SaidWithin(f, p)
           n == Cardinality(S)
           byDate == CompletionByDate(f, p)
           done == {c \in S : talk[c].ended}
<1>1. IsFiniteSet(S) /\ IsFiniteSet(M)
  BY FinitelyMany
<1>2. Completion(f, p).total = n /\ Completion(f, p).completed = Cardinality(done)
  BY DEF Completion, Rate
<1> DEFINE day == [c \in S |-> talk[c].at \div 8]
<1>3. Total(LeadsByDate(f, p)) = n
  <2>1. /\ DOMAIN LeadsByDate(f, p) = {day[c] : c \in S}
        /\ \A k \in DOMAIN LeadsByDate(f, p) :
             LeadsByDate(f, p)[k] = Cardinality({c \in S : day[c] = k})
    BY DEF LeadsByDate, GroupBy
  <2> HIDE DEF S, day
  <2> QED  BY <1>1, <2>1, GroupsAddUp
<1>4. Total(StatusCounts(f, p)) = n
  <2> DEFINE status == [c \in S |-> talk[c].status]
  <2>1. /\ DOMAIN StatusCounts(f, p) = {status[c] : c \in S}
        /\ \A k \in DOMAIN StatusCounts(f, p) :
             StatusCounts(f, p)[k] = Cardinality({c \in S : status[c] = k})
    BY DEF StatusCounts, GroupBy
  <2> HIDE DEF S, status
  <2> QED  BY <1>1, <2>1, GroupsAddUp
<1>5. Total(PerformanceByFlow(f, p)) = n
  <2> DEFINE T == {c \in Talks : Within(p, talk[c].at)}
             line == [c \in T |-> talk[c].line]
             g == PerformanceByFlow(f, p)
  <2>1. IsFiniteSet(T)
    BY Reads, FS_Subset
  <2>2. DOMAIN g = {x \in lines : f = AllLines \/ x = f}
    BY DEF PerformanceByFlow
  <2>3. IsFiniteSet(DOMAIN g)
    BY <2>2, Reads, FS_Subset
  <2>4. \A k \in DOMAIN g : g[k] = Cardinality({c \in T : line[c] = k})
    <3> SUFFICES ASSUME NEW k \in DOMAIN g PROVE g[k] = Cardinality({c \in T : line[c] = k})
      OBVIOUS
    <3>1. g[k] = Cardinality({c \in Talks : talk[c].line = k /\ Within(p, talk[c].at)})
      BY DEF PerformanceByFlow
    <3>2. {c \in Talks : talk[c].line = k /\ Within(p, talk[c].at)} = {c \in T : line[c] = k}
      OBVIOUS
    <3> QED  BY <3>1, <3>2
  <2>5. {c \in T : line[c] \in DOMAIN g} = S
    <3>1. \A c \in T : line[c] = talk[c].line
      OBVIOUS
    <3> HIDE DEF line
    <3> QED  BY <2>2, <3>1 DEF Created, Counted, CountsFor
  <2> HIDE DEF T, g, line, S
  <2>6. Total(g) = Cardinality(S)
    BY <2>1, <2>3, <2>4, <2>5, TotalByKey
  <2> QED  BY <2>6 DEF g
<1>6. DOMAIN byDate = {day[c] : c \in S}
      /\ \A d \in DOMAIN byDate : byDate[d] = Rate({c \in S : day[c] = d})
  <2>1. \A d : {c \in S : talk[c].at \div 8 = d} = {c \in S : day[c] = d}
    OBVIOUS
  <2>2. /\ DOMAIN byDate = {day[c] : c \in S}
        /\ \A d \in DOMAIN byDate : byDate[d] = Rate({c \in S : talk[c].at \div 8 = d})
    BY DEF CompletionByDate
  <2> HIDE DEF byDate, day, S
  <2> QED  BY <2>1, <2>2
<1> HIDE DEF byDate, day
<1>7. Total([d \in DOMAIN byDate |-> byDate[d].total]) = n
  <2> DEFINE g == [d \in DOMAIN byDate |-> byDate[d].total]
  <2>1. \A T : Rate(T).total = Cardinality(T)
    BY DEF Rate
  <2>2. \A d \in DOMAIN byDate : g[d] = Cardinality({c \in S : day[c] = d})
    BY <1>6, <2>1
  <2>3. DOMAIN g = DOMAIN byDate
    OBVIOUS
  <2> HIDE DEF S, g
  <2>4. Total(g) = Cardinality(S)
    BY <1>1, <1>6, <2>2, <2>3, GroupsAddUp
  <2> QED  BY <2>4 DEF g
<1>8. Total([d \in DOMAIN byDate |-> byDate[d].completed]) = Cardinality(done)
  <2> DEFINE g == [d \in DOMAIN byDate |-> byDate[d].completed]
  <2>1. \A T : Rate(T).completed = Cardinality({c \in T : talk[c].ended})
    BY DEF Rate
  <2>2. \A d \in DOMAIN byDate : g[d] = Cardinality({c \in done : day[c] = d})
    <3> SUFFICES ASSUME NEW d \in DOMAIN byDate
                 PROVE  g[d] = Cardinality({c \in done : day[c] = d})
      OBVIOUS
    <3>1. g[d] = Cardinality({c \in {x \in S : day[x] = d} : talk[c].ended})
      BY <1>6, <2>1
    <3>2. {c \in {x \in S : day[x] = d} : talk[c].ended} = {c \in done : day[c] = d}
      OBVIOUS
    <3> HIDE DEF S, done, g
    <3> QED  BY <3>1, <3>2
  <2>3. DOMAIN g = DOMAIN byDate
    OBVIOUS
  <2>4. done \subseteq S /\ IsFiniteSet(done)
    BY <1>1, FS_Subset
  <2>5. IsFiniteSet(DOMAIN g)
    <3> HIDE DEF S, g
    <3> QED  BY <1>1, <1>6, <2>3, Values
  <2>6. {c \in done : day[c] \in DOMAIN g} = done
    <3> HIDE DEF S, g, done
    <3> QED  BY <1>6, <2>3, <2>4
  <2> HIDE DEF S, g, done
  <2>7. \A d \in DOMAIN g : g[d] = Cardinality({c \in done : day[c] = d})
    BY <2>2, <2>3
  <2>8. Total(g) = Cardinality({c \in done : day[c] \in DOMAIN g})
    BY <2>4, <2>5, <2>7, TotalByKey
  <2> QED  BY <2>6, <2>8 DEF g
<1>9. UniqueLeads(f, p) <= n
  <2> DEFINE lead == [c \in S |-> talk[c].lead]
  <2>1. {talk[c].lead : c \in S} = {lead[c] : c \in S}
    OBVIOUS
  <2>2. UniqueLeads(f, p) = Cardinality({lead[c] : c \in S})
    BY <2>1 DEF UniqueLeads
  <2> HIDE DEF S, lead
  <2> QED  BY <1>1, <2>2, Values
<1>10. Total(MessagesByHour(f, p)) = Cardinality(M)
  BY HoursTotal
<1>11. Total(MessagesByDate(f, p)) = Cardinality(M)
  <2> DEFINE date == [x \in M |-> Message1(x).at \div 8]
  <2>1. /\ DOMAIN MessagesByDate(f, p) = {date[x] : x \in M}
        /\ \A k \in DOMAIN MessagesByDate(f, p) :
             MessagesByDate(f, p)[k] = Cardinality({x \in M : date[x] = k})
    BY DEF MessagesByDate, GroupBy
  <2> HIDE DEF M, date
  <2> QED  BY <1>1, <2>1, GroupsAddUp
<1> USE DEF byDate
<1> HIDE DEF S, M, n, done
<1>12. PartsAgree(f, p)
  BY <1>2, <1>3, <1>4, <1>5, <1>7, <1>8, <1>9, <1>10, <1>11 DEF PartsAgree
<1> QED  BY <1>12

----------------------------------------------------------------------------
(* The report on all the flows *)

\* What a flow counts is what all of them count, of its own.
LEMMA OfALine ==
  ASSUME ReportsInv, NEW l \in lines
  PROVE  /\ Counted(l) = {c \in Counted(AllLines) : talk[c].line = l}
         /\ Said(l) = {x \in Said(AllLines) : talk[x[1]].line = l}
<1>1. l # AllLines
  BY Reads
<1>2. Counted(l) = {c \in Counted(AllLines) : talk[c].line = l}
  BY <1>1 DEF Counted, CountsFor
<1>3. \A x : x \in Said(l) <=>
               \E c \in Counted(l) : \E i \in DOMAIN talk[c].said : x = <<c, i>>
  BY DEF Said
<1>4. \A x : x \in Said(AllLines) <=>
               \E c \in Counted(AllLines) : \E i \in DOMAIN talk[c].said : x = <<c, i>>
  BY DEF Said
<1>5. \A c, i : <<c, i>>[1] = c
  OBVIOUS
<1>6. \A x : x \in Said(l) <=> x \in Said(AllLines) /\ talk[x[1]].line = l
  BY <1>2, <1>3, <1>4, <1>5
<1>7. Said(l) = {x \in Said(AllLines) : talk[x[1]].line = l}
  <2>1. \A x : x \in Said(l) <=> x \in {y \in Said(AllLines) : talk[y[1]].line = l}
    BY <1>6
  <2> QED  BY <2>1
<1> QED  BY <1>2, <1>7

\* Every conversation and every message that is counted is of one flow.
LEMMA InALine ==
  ASSUME ReportsInv
  PROVE  /\ \A c \in Counted(AllLines) : talk[c].line \in lines
         /\ \A x \in Said(AllLines) : talk[x[1]].line \in lines
<1>1. \A c \in Counted(AllLines) : talk[c].line \in lines
  BY DEF Counted, CountsFor
<1>2. \A x \in Said(AllLines) :
        \E c \in Counted(AllLines) : \E i \in DOMAIN talk[c].said : x = <<c, i>>
  BY DEF Said
<1>3. \A c, i : <<c, i>>[1] = c
  OBVIOUS
<1> QED  BY <1>1, <1>2, <1>3

\* The flows' counts of conversations are as many as all of them.
LEMMA TalksOfLines ==
  ASSUME ReportsInv, NEW S, S \subseteq Counted(AllLines), NEW g, DOMAIN g = lines,
         \A l \in lines : g[l] = Cardinality({c \in S : talk[c].line = l})
  PROVE  Total(g) = Cardinality(S)
<1> DEFINE line == [c \in S |-> talk[c].line]
<1>1. IsFiniteSet(S) /\ IsFiniteSet(DOMAIN g)
  BY FinitelyMany, Reads, FS_Subset
<1>2. \A l \in DOMAIN g : g[l] = Cardinality({c \in S : line[c] = l})
  <2> SUFFICES ASSUME NEW l \in lines PROVE g[l] = Cardinality({c \in S : line[c] = l})
    OBVIOUS
  <2>1. {c \in S : line[c] = l} = {c \in S : talk[c].line = l}
    OBVIOUS
  <2> QED  BY <2>1
<1>3. {c \in S : line[c] \in DOMAIN g} = S
  BY InALine
<1> HIDE DEF line
<1> QED  BY <1>1, <1>2, <1>3, TotalByKey

\* The flows' counts of messages are as many as all of them.
LEMMA WordsOfLines ==
  ASSUME ReportsInv, NEW S, S \subseteq Said(AllLines), NEW g, DOMAIN g = lines,
         \A l \in lines : g[l] = Cardinality({x \in S : talk[x[1]].line = l})
  PROVE  Total(g) = Cardinality(S)
<1> DEFINE line == [x \in S |-> talk[x[1]].line]
<1>1. IsFiniteSet(S) /\ IsFiniteSet(DOMAIN g)
  BY FinitelyMany, Reads, FS_Subset
<1>2. \A l \in DOMAIN g : g[l] = Cardinality({x \in S : line[x] = l})
  <2> SUFFICES ASSUME NEW l \in lines PROVE g[l] = Cardinality({x \in S : line[x] = l})
    OBVIOUS
  <2>1. {x \in S : line[x] = l} = {x \in S : talk[x[1]].line = l}
    OBVIOUS
  <2> QED  BY <2>1
<1>3. {x \in S : line[x] \in DOMAIN g} = S
  BY InALine
<1> HIDE DEF line
<1> QED  BY <1>1, <1>2, <1>3, TotalByKey

\* The sparkline counts the conversations of its days, those after its end aside.
Spark(f, p) ==
  {c \in Created(f, [start |-> SparkStart, end |-> p.end]) :
     (talk[c].at \div 8) - (SparkStart \div 8) \in 0 .. SparkDays - 1}
LEMMA SparkTotal ==
  ASSUME ReportsInv, NEW f, NEW p
  PROVE  Total(LeadsByDay(f, p)) = Cardinality(Spark(f, p))
<1> DEFINE S == Created(f, [start |-> SparkStart, end |-> p.end])
           day == [c \in S |-> (talk[c].at \div 8) - (SparkStart \div 8)]
           g == LeadsByDay(f, p)
           D == 0 .. SparkDays - 1
<1>1. IsFiniteSet(S) /\ S \subseteq Talks
  BY FinitelyMany
<1>2. /\ DOMAIN g = D
      /\ \A i \in D :
           g[i] = Cardinality({c \in S : talk[c].at \div 8 = (SparkStart \div 8) + i})
  BY DEF LeadsByDay
<1>3. IsFiniteSet(D) /\ D \subseteq Int
  BY AnalyticsAssumption, FS_Interval
<1>4. SparkStart \div 8 \in Int
  BY AnalyticsAssumption DEF SparkStart, ReportsInv
<1>5. \A c \in S : talk[c].at \div 8 \in Int
  BY <1>1, Reads
<1>6. \A i \in D : g[i] = Cardinality({c \in S : day[c] = i})
  <2> SUFFICES ASSUME NEW i \in D PROVE g[i] = Cardinality({c \in S : day[c] = i})
    OBVIOUS
  <2>1. \A c \in S : talk[c].at \div 8 = (SparkStart \div 8) + i <=> day[c] = i
    <3>1. \A c \in S : day[c] = (talk[c].at \div 8) - (SparkStart \div 8)
      OBVIOUS
    <3> HIDE DEF S, day
    <3> QED  BY <1>3, <1>4, <1>5, <3>1
  <2>2. {c \in S : talk[c].at \div 8 = (SparkStart \div 8) + i} = {c \in S : day[c] = i}
    <3> HIDE DEF S, day
    <3> QED  BY <2>1
  <2> QED  BY <1>2, <2>2
<1>7. {c \in S : day[c] \in D} = Spark(f, p)
  BY DEF Spark
<1> HIDE DEF S, day, g, D
<1>8. IsFiniteSet(DOMAIN g) /\ \A i \in DOMAIN g : g[i] = Cardinality({c \in S : day[c] = i})
  BY <1>2, <1>3, <1>6
<1>9. Total(g) = Cardinality({c \in S : day[c] \in DOMAIN g})
  BY <1>1, <1>8, TotalByKey
<1>10. DOMAIN g = D
  BY <1>2
<1> QED  BY <1>7, <1>9, <1>10 DEF g

\* The report on all the flows is the sum of the reports on each.
LEMMA FlowsHold ==
  ASSUME ReportsInv, NEW p
  PROVE  FlowsAddUp(p)
<1> DEFINE A == Counted(AllLines)
           M == Said(AllLines)
<1>1. \A l \in lines : /\ Counted(l) = {c \in A : talk[c].line = l}
                       /\ Said(l) = {x \in M : talk[x[1]].line = l}
  BY OfALine
<1>2. ASSUME NEW S, S \subseteq A, NEW g, DOMAIN g = lines,
             \A l \in lines : g[l] = Cardinality({c \in S : talk[c].line = l})
      PROVE  Cardinality(S) = Total(g)
  BY <1>2, TalksOfLines
<1>3. ASSUME NEW S, S \subseteq M, NEW g, DOMAIN g = lines,
             \A l \in lines : g[l] = Cardinality({x \in S : talk[x[1]].line = l})
      PROVE  Cardinality(S) = Total(g)
  BY <1>3, WordsOfLines
<1>4. MessagesReceivedToday(AllLines) = Total([l \in lines |-> MessagesReceivedToday(l)])
  <2> DEFINE S == {x \in ByLead(M) : Message1(x).at >= BrtToday}
             g == [l \in lines |-> MessagesReceivedToday(l)]
  <2>1. \A l \in lines : g[l] = Cardinality({x \in S : talk[x[1]].line = l})
    <3> SUFFICES ASSUME NEW l \in lines PROVE g[l] = Cardinality({x \in S : talk[x[1]].line = l})
      OBVIOUS
    <3>1. {x \in ByLead(Said(l)) : Message1(x).at >= BrtToday} = {x \in S : talk[x[1]].line = l}
      <4> HIDE DEF M
      <4> QED  BY <1>1 DEF ByLead
    <3>2. g[l] = Cardinality({x \in ByLead(Said(l)) : Message1(x).at >= BrtToday})
      BY DEF MessagesReceivedToday
    <3> HIDE DEF g, S
    <3> QED  BY <3>1, <3>2
  <2>2. S \subseteq M /\ DOMAIN g = lines
    BY DEF ByLead
  <2> HIDE DEF g, S, M
  <2>3. Cardinality(S) = Total(g)
    BY <1>3, <2>1, <2>2
  <2> QED  BY <2>3 DEF g, S, M, MessagesReceivedToday
<1>5. NewLeadsToday(AllLines) = Total([l \in lines |-> NewLeadsToday(l)])
  <2> DEFINE S == {c \in A : talk[c].at >= BrtToday}
             g == [l \in lines |-> NewLeadsToday(l)]
  <2>1. \A l \in lines : g[l] = Cardinality({c \in S : talk[c].line = l})
    <3> SUFFICES ASSUME NEW l \in lines PROVE g[l] = Cardinality({c \in S : talk[c].line = l})
      OBVIOUS
    <3>1. {c \in Counted(l) : talk[c].at >= BrtToday} = {c \in S : talk[c].line = l}
      <4> HIDE DEF A
      <4> QED  BY <1>1
    <3>2. g[l] = Cardinality({c \in Counted(l) : talk[c].at >= BrtToday})
      BY DEF NewLeadsToday
    <3> HIDE DEF g, S
    <3> QED  BY <3>1, <3>2
  <2>2. S \subseteq A /\ DOMAIN g = lines
    OBVIOUS
  <2> HIDE DEF g, S, A
  <2>3. Cardinality(S) = Total(g)
    BY <1>2, <2>1, <2>2
  <2> QED  BY <2>3 DEF g, S, A, NewLeadsToday
<1>6. ActiveConversations(AllLines) = Total([l \in lines |-> ActiveConversations(l)])
  <2> DEFINE S == {c \in A : talk[c].status = "ACTIVE"}
             g == [l \in lines |-> ActiveConversations(l)]
  <2>1. \A l \in lines : g[l] = Cardinality({c \in S : talk[c].line = l})
    <3> SUFFICES ASSUME NEW l \in lines PROVE g[l] = Cardinality({c \in S : talk[c].line = l})
      OBVIOUS
    <3>1. {c \in Counted(l) : talk[c].status = "ACTIVE"} = {c \in S : talk[c].line = l}
      <4> HIDE DEF A
      <4> QED  BY <1>1
    <3>2. g[l] = Cardinality({c \in Counted(l) : talk[c].status = "ACTIVE"})
      BY DEF ActiveConversations
    <3> HIDE DEF g, S
    <3> QED  BY <3>1, <3>2
  <2>2. S \subseteq A /\ DOMAIN g = lines
    OBVIOUS
  <2> HIDE DEF g, S, A
  <2>3. Cardinality(S) = Total(g)
    BY <1>2, <2>1, <2>2
  <2> QED  BY <2>3 DEF g, S, A, ActiveConversations
<1>7. PendingResponses(AllLines) = Total([l \in lines |-> PendingResponses(l)])
  <2> DEFINE S == {c \in A : talk[c].status = "ACTIVE" /\ talk[c].waits}
             g == [l \in lines |-> PendingResponses(l)]
  <2>1. \A l \in lines : g[l] = Cardinality({c \in S : talk[c].line = l})
    <3> SUFFICES ASSUME NEW l \in lines PROVE g[l] = Cardinality({c \in S : talk[c].line = l})
      OBVIOUS
    <3>1. {c \in Counted(l) : talk[c].status = "ACTIVE" /\ talk[c].waits}
            = {c \in S : talk[c].line = l}
      <4> HIDE DEF A
      <4> QED  BY <1>1
    <3>2. g[l] = Cardinality({c \in Counted(l) : talk[c].status = "ACTIVE" /\ talk[c].waits})
      BY DEF PendingResponses
    <3> HIDE DEF g, S
    <3> QED  BY <3>1, <3>2
  <2>2. S \subseteq A /\ DOMAIN g = lines
    OBVIOUS
  <2> HIDE DEF g, S, A
  <2>3. Cardinality(S) = Total(g)
    BY <1>2, <2>1, <2>2
  <2> QED  BY <2>3 DEF g, S, A, PendingResponses
<1>8. PreviousTotal(AllLines) = Total([l \in lines |-> PreviousTotal(l)])
  <2> DEFINE q == [start |-> SparkStart - 8 * SparkDays, end |-> SparkStart - 8]
             S == Created(AllLines, q)
             g == [l \in lines |-> PreviousTotal(l)]
  <2>1. \A l \in lines : g[l] = Cardinality({c \in S : talk[c].line = l})
    <3> SUFFICES ASSUME NEW l \in lines PROVE g[l] = Cardinality({c \in S : talk[c].line = l})
      OBVIOUS
    <3>1. Created(l, q) = {c \in S : talk[c].line = l}
      <4> HIDE DEF A, q
      <4> QED  BY <1>1 DEF A, Created
    <3>2. g[l] = Cardinality(Created(l, q))
      BY DEF PreviousTotal
    <3> HIDE DEF g, S
    <3> QED  BY <3>1, <3>2
  <2>2. S \subseteq A /\ DOMAIN g = lines
    BY DEF Created
  <2> HIDE DEF g, S, A
  <2>3. Cardinality(S) = Total(g)
    BY <1>2, <2>1, <2>2
  <2> QED  BY <2>3 DEF g, S, A, PreviousTotal
<1>9. Completion(AllLines, p).completed = Total([l \in lines |-> Completion(l, p).completed])
  <2> DEFINE S == {c \in Created(AllLines, p) : talk[c].ended}
             g == [l \in lines |-> Completion(l, p).completed]
  <2>0. \A f : Completion(f, p).completed = Cardinality({c \in Created(f, p) : talk[c].ended})
    BY DEF Completion, Rate
  <2>1. \A l \in lines : g[l] = Cardinality({c \in S : talk[c].line = l})
    <3> SUFFICES ASSUME NEW l \in lines PROVE g[l] = Cardinality({c \in S : talk[c].line = l})
      OBVIOUS
    <3>1. {c \in Created(l, p) : talk[c].ended} = {c \in S : talk[c].line = l}
      <4> HIDE DEF A
      <4> QED  BY <1>1 DEF A, Created
    <3>2. g[l] = Completion(l, p).completed
      OBVIOUS
    <3> HIDE DEF g, S
    <3> QED  BY <2>0, <3>1, <3>2
  <2>2. S \subseteq A /\ DOMAIN g = lines
    BY DEF Created
  <2>3. Completion(AllLines, p).completed = Cardinality(S)
    BY <2>0
  <2> HIDE DEF g, S, A
  <2>4. Cardinality(S) = Total(g)
    BY <1>2, <2>1, <2>2
  <2> QED  BY <2>3, <2>4 DEF g
<1>10. Total(LeadsByDay(AllLines, p)) = Total([l \in lines |-> Total(LeadsByDay(l, p))])
  <2> DEFINE S == Spark(AllLines, p)
             g == [l \in lines |-> Total(LeadsByDay(l, p))]
  <2>1. \A l \in lines : g[l] = Cardinality({c \in S : talk[c].line = l})
    <3> SUFFICES ASSUME NEW l \in lines PROVE g[l] = Cardinality({c \in S : talk[c].line = l})
      OBVIOUS
    <3> DEFINE q == [start |-> SparkStart, end |-> p.end]
               On(c) == (talk[c].at \div 8) - (SparkStart \div 8) \in 0 .. SparkDays - 1
    <3>0. \A f : Spark(f, p) = {c \in Created(f, q) : On(c)}
      BY DEF Spark
    <3>1. Spark(l, p) = {c \in S : talk[c].line = l}
      <4> HIDE DEF A, q, On, S
      <4> QED  BY <1>1, <3>0 DEF A, S, Created
    <3>2. g[l] = Total(LeadsByDay(l, p))
      OBVIOUS
    <3> HIDE DEF g, S
    <3> QED  BY <3>1, <3>2, SparkTotal
  <2>2. S \subseteq A /\ DOMAIN g = lines
    BY DEF Created, Spark
  <2> HIDE DEF g, S, A
  <2>3. Cardinality(S) = Total(g)
    BY <1>2, <2>1, <2>2
  <2>4. Total(LeadsByDay(AllLines, p)) = Cardinality(S)
    BY SparkTotal DEF S
  <2> QED  BY <2>3, <2>4 DEF g
<1>11. Total(MessagesByHour(AllLines, p)) = Total([l \in lines |-> Total(MessagesByHour(l, p))])
  <2> DEFINE S == SaidWithin(AllLines, p)
             g == [l \in lines |-> Total(MessagesByHour(l, p))]
  <2>1. \A l \in lines : g[l] = Cardinality({x \in S : talk[x[1]].line = l})
    <3> SUFFICES ASSUME NEW l \in lines PROVE g[l] = Cardinality({x \in S : talk[x[1]].line = l})
      OBVIOUS
    <3>1. SaidWithin(l, p) = {x \in S : talk[x[1]].line = l}
      <4> HIDE DEF M
      <4> QED  BY <1>1 DEF M, SaidWithin
    <3>2. g[l] = Total(MessagesByHour(l, p))
      OBVIOUS
    <3> HIDE DEF g, S
    <3> QED  BY <3>1, <3>2, HoursTotal
  <2>2. S \subseteq M /\ DOMAIN g = lines
    BY DEF SaidWithin
  <2> HIDE DEF g, S, M
  <2>3. Cardinality(S) = Total(g)
    BY <1>3, <2>1, <2>2
  <2>4. Total(MessagesByHour(AllLines, p)) = Cardinality(S)
    BY HoursTotal DEF S
  <2> QED  BY <2>3, <2>4 DEF g
<1> HIDE DEF A, M
<1> QED
  BY <1>4, <1>5, <1>6, <1>7, <1>8, <1>9, <1>10, <1>11 DEF FlowsAddUp

\* Nothing is later than the last moment of today, whichever day that is.
LEMMA TodayIsNotOver ==
  ASSUME ReportsInv
  PROVE  clock <= BrtToday + 7 /\ clock <= 8 * (clock \div 8) + 7
         /\ UtcDays(clock \div 8, clock \div 8) = [start |-> UtcToday, end |-> UtcToday + 7]
BY DEF ReportsInv, BrtToday, UtcToday, UtcDays

\* A count since the start of today is a count of today.
LEMMA SinceIsWithin ==
  ASSUME ReportsInv, NEW s, clock <= s + 7, s \in Int
  PROVE  /\ {c \in Counted(AllLines) : talk[c].at >= s}
              = Created(AllLines, [start |-> s, end |-> s + 7])
         /\ {x \in ByLead(Said(AllLines)) : Message1(x).at >= s}
              = ByLead(SaidWithin(AllLines, [start |-> s, end |-> s + 7]))
<1> DEFINE today == [start |-> s, end |-> s + 7]
           A == Counted(AllLines)
           M == Said(AllLines)
<1>1. \A t \in Nat : t <= clock => (t >= s <=> Within(today, t))
  BY DEF Within, ReportsInv
<1>2. \A c \in A : talk[c].at \in Nat /\ talk[c].at <= clock
  BY Reads, FinitelyMany
<1>3. \A x \in M : Message1(x).at \in Nat /\ Message1(x).at <= clock
  <2> SUFFICES ASSUME NEW x \in M PROVE Message1(x).at \in Nat /\ Message1(x).at <= clock
    OBVIOUS
  <2>1. PICK c \in A : \E i \in DOMAIN talk[c].said : x = <<c, i>>
    BY DEF Said
  <2>2. c \in Talks
    BY FinitelyMany
  <2>3. PICK said : said = talk[c].said
    OBVIOUS
  <2> PICK i \in DOMAIN talk[c].said : x = <<c, i>>
    BY <2>1
  <2>4. /\ said \in Seq([by : {"LEAD", "BOT"}, at : Nat])
        /\ i \in DOMAIN said /\ said[i].at <= clock
    BY <2>2, <2>3, Reads
  <2>5. said[i].at \in Nat
    <3> DEFINE W == [by : {"LEAD", "BOT"}, at : Nat]
    <3>1. \A w \in W : w.at \in Nat
      OBVIOUS
    <3>2. said \in Seq(W)
      BY <2>4
    <3> HIDE DEF W
    <3>3. said[i] \in W
      BY <2>4, <3>2
    <3> QED  BY <3>1, <3>3
  <2>6. Message1(x) = said[i]
    BY <2>3 DEF Message1
  <2> QED  BY <2>4, <2>5, <2>6
<1> HIDE DEF today, A, M
<1>4. {c \in A : talk[c].at >= s} = Created(AllLines, today)
  <2>1. Created(AllLines, today) = {c \in A : Within(today, talk[c].at)}
    BY DEF Created, A
  <2>2. \A c \in A : talk[c].at >= s <=> Within(today, talk[c].at)
    BY <1>1, <1>2
  <2> QED  BY <2>1, <2>2
<1>5. {x \in ByLead(M) : Message1(x).at >= s} = ByLead(SaidWithin(AllLines, today))
  <2>1. SaidWithin(AllLines, today) = {x \in M : Within(today, Message1(x).at)}
    BY DEF SaidWithin, M
  <2>2. \A x \in M : Message1(x).at >= s <=> Within(today, Message1(x).at)
    BY <1>1, <1>3
  <2> QED  BY <2>1, <2>2 DEF ByLead
<1> QED  BY <1>4, <1>5 DEF A, M, today

\* The cards of today are the period of today, in both reports.
LEMMA TodayHolds == ASSUME ReportsInv PROVE TodayAgrees
<1>1. BrtToday \in Int /\ UtcToday \in Int
  BY DEF ReportsInv, BrtToday, UtcToday
<1>2. clock <= BrtToday + 7 /\ clock <= UtcToday + 7
      /\ UtcDays(clock \div 8, clock \div 8) = [start |-> UtcToday, end |-> UtcToday + 7]
      /\ BrtDays((clock - 1) \div 8, (clock - 1) \div 8)
           = [start |-> BrtToday, end |-> BrtToday + 7]
  BY TodayIsNotOver DEF UtcToday, BrtDays, BrtStartOfDay, BrtEndOfDay, BrtToday
<1> DEFINE brt == [start |-> BrtToday, end |-> BrtToday + 7]
           utc == [start |-> UtcToday, end |-> UtcToday + 7]
<1>3. /\ NewLeadsToday(AllLines) = Cardinality(Created(AllLines, brt))
      /\ MessagesReceivedToday(AllLines) = Cardinality(ByLead(SaidWithin(AllLines, brt)))
  BY <1>1, <1>2, SinceIsWithin DEF NewLeadsToday, MessagesReceivedToday
<1>4. /\ LeadsSinceMidnight = Cardinality(Created(AllLines, utc))
      /\ MessagesSinceMidnight = Cardinality(ByLead(SaidWithin(AllLines, utc)))
  BY <1>1, <1>2, SinceIsWithin DEF LeadsSinceMidnight, MessagesSinceMidnight
<1>5. Completion(AllLines, brt).total = Cardinality(Created(AllLines, brt))
  BY DEF Completion, Rate
<1> QED  BY <1>2, <1>3, <1>4, <1>5 DEF TodayAgrees, TotalLeads

\* The leads by flow of the first report are all its leads.
LEMMA FlowsOfFirstReport ==
  ASSUME ReportsInv, NEW p
  PROVE  Total(LeadsByFlow(p)) = TotalLeads(p)
<1> DEFINE S == Created(AllLines, p)
           line == [c \in S |-> TitleOf[talk[c].line]]
<1>1. /\ DOMAIN LeadsByFlow(p) = {line[c] : c \in S}
      /\ \A k \in DOMAIN LeadsByFlow(p) :
           LeadsByFlow(p)[k] = Cardinality({c \in S : line[c] = k})
  BY DEF LeadsByFlow, GroupBy
<1>2. IsFiniteSet(S)
  BY FinitelyMany
<1> HIDE DEF S, line
<1>3. Total(LeadsByFlow(p)) = Cardinality(S)
  BY <1>1, <1>2, GroupsAddUp
<1> QED  BY <1>3 DEF S, TotalLeads

\* The interactions of the first report are messages.
LEMMA InteractionsAreSaid ==
  ASSUME ReportsInv, NEW p
  PROVE  TotalInteractions(p) <= Cardinality(Said(AllLines))
<1> DEFINE T ==
  UNION {{<<c, i>> : i \in {j \in DOMAIN talk[c].said : talk[c].said[j].by = "BOT"}} :
           c \in Created(AllLines, p)}
<1>1. T \subseteq Said(AllLines)
  <2> SUFFICES ASSUME NEW x \in T PROVE x \in Said(AllLines)
    OBVIOUS
  <2>1. PICK c \in Created(AllLines, p) : \E i \in DOMAIN talk[c].said : x = <<c, i>>
    OBVIOUS
  <2>2. c \in Counted(AllLines)
    BY FinitelyMany
  <2> HIDE DEF T
  <2> QED  BY <2>1, <2>2 DEF Said
<1>2. IsFiniteSet(Said(AllLines))
  BY FinitelyMany
<1>3. TotalInteractions(p) = Cardinality(T)
  BY DEF TotalInteractions
<1> HIDE DEF T
<1> QED  BY <1>1, <1>2, <1>3, FS_Subset

\* The columns of the pipeline hold at least the leads of the period that have one.
LEMMA PipelineHolds ==
  ASSUME ReportsInv, NEW p
  PROVE  Total(Pipeline(AllLines))
           >= Cardinality({c \in Created(AllLines, p) : talk[c].stage # NoColumn})
<1> DEFINE stage == [c \in Talks |-> talk[c].stage]
           g == Pipeline(AllLines)
           placed == {c \in Talks : stage[c] \in Column}
           T == {c \in Created(AllLines, p) : talk[c].stage # NoColumn}
<1>1. IsFiniteSet(Talks) /\ IsFiniteSet(Column)
  BY Reads, AnalyticsAssumption
<1>2. /\ DOMAIN g = Column
      /\ \A s \in Column : g[s] = Cardinality({c \in Talks : talk[c].stage = s})
  BY DEF Pipeline
<1>3. \A s \in Column : {c \in Talks : talk[c].stage = s} = {c \in Talks : stage[c] = s}
  OBVIOUS
<1>4. \A c \in Created(AllLines, p) : c \in Talks /\ talk[c].stage \in Column \union {NoColumn}
  BY FinitelyMany, Reads
<1>5. T \subseteq placed
  BY <1>4
<1>6. placed \subseteq Talks
  OBVIOUS
<1> HIDE DEF stage, g
<1>7. Total(g) = Cardinality({c \in Talks : stage[c] \in DOMAIN g})
  BY <1>1, <1>2, <1>3, TotalByKey
<1>8. {c \in Talks : stage[c] \in DOMAIN g} = placed
  BY <1>2
<1> HIDE DEF placed, T
<1>9. IsFiniteSet(placed) /\ Cardinality(T) <= Cardinality(placed)
  BY <1>1, <1>5, <1>6, FS_Subset
<1>10. IsFiniteSet(T)
  BY <1>5, <1>9, FS_Subset
<1>11. Cardinality(T) \in Nat /\ Cardinality(placed) \in Nat
  BY <1>9, <1>10, FS_CardinalityType
<1>12. Total(g) >= Cardinality(T)
  BY <1>7, <1>8, <1>9, <1>11
<1> QED  BY <1>12 DEF g, T

\* The tables of the reports are as the engine and the editor write them.
THEOREM ReportsInvariant == AnalyticsSpec => []ReportsInv
BY ReportsInit, ReportsStep, PTL DEF AnalyticsSpec

\* What a report shows side by side adds up.
THEOREM ReportsAgree == AnalyticsSpec => []ReportsAddUp
<1>1. ReportsInv => ReportsAddUp
  <2> SUFFICES ASSUME ReportsInv PROVE ReportsAddUp
    OBVIOUS
  <2>1. \A p \in Periods : \A f \in Filters : PartsAgree(f, p)
    BY PartsHold
  <2>2. \A p \in Periods : FlowsAddUp(p)
    BY FlowsHold
  <2>3. \A p \in Periods : /\ Total(LeadsByFlow(p)) = TotalLeads(p)
                           /\ TotalInteractions(p) <= Cardinality(Said(AllLines))
    BY FlowsOfFirstReport, InteractionsAreSaid
  <2>4. \A p \in Periods : Total(Pipeline(AllLines))
          >= Cardinality({c \in Created(AllLines, p) : talk[c].stage # NoColumn})
    BY PipelineHolds
  <2> QED  BY TodayHolds, <2>1, <2>2, <2>3, <2>4 DEF ReportsAddUp
<1> QED  BY <1>1, ReportsInvariant, PTL

----------------------------------------------------------------------------
(* Types of the flows that follow the connection *)

Event ==
  [status : {"CONNECTED", "DISCONNECTED"}, phone : Number \cup {NoNumber}, of : Number]
Statement ==
  [does : {"activate", "deactivate"}, phone : Number, of : Number]
    \cup [does : {"lookUp"}, phone : {NoNumber}, of : Number]

Typed ==
  /\ link \in Number \cup {NoNumber} /\ rowPhone \in Number \cup {NoNumber}
  /\ channel \in [Api -> Seq(Event)]
  /\ pending \in [Api -> SUBSET Statement]
  /\ answering \subseteq Number
  /\ lost \in Nat /\ met \in BOOLEAN /\ strayed \in BOOLEAN

----------------------------------------------------------------------------
(* The invariant of the flows that follow the connection *)

Undisturbed == met = FALSE /\ strayed = FALSE /\ lost = 0

\* Something about n is still on its way to a, or in a's hands.
Told(a, n) == \E k \in 1 .. Len(channel[a]) : channel[a][k].of = n
Owes(a, n) == \E s \in pending[a] : s.of = n

\* An instance has at most one statement in hand, and it is about the number the
\* event was about.
InHand(a) ==
  /\ \A s, t \in pending[a] : s = t
  /\ \A s \in pending[a] : s.does # "lookUp" => s.phone = s.of
OneInHand == \A a \in Api : InHand(a)

\* What an instance hears or does last about a number is what the link is now.
LastHeard(a) ==
  \A k \in 1 .. Len(channel[a]) :
    LET e == channel[a][k] IN
    /\ e.phone \in {e.of, NoNumber}
    /\ (\A j \in 1 .. Len(channel[a]) : j > k => channel[a][j].of # e.of) =>
         (e.status = "CONNECTED" <=> link = e.of)
LastDone(a) ==
  \A s \in pending[a] : ~Told(a, s.of) => (s.does = "activate" <=> link = s.of)
LastWord == \A a \in Api : LastHeard(a) /\ LastDone(a)

\* A number whose flows are not as the link is, is still owed a statement by someone.
SomeoneOwes ==
  \A n \in Number :
    (n \in answering <=> link = n) \/ \E a \in Api : Told(a, n) \/ Owes(a, n)

FollowInv == Undisturbed => OneInHand /\ LastWord /\ SomeoneOwes

----------------------------------------------------------------------------
(* Lemmas *)

LEMMA InitTyped == StatusInit => Typed
<1> SUFFICES ASSUME StatusInit PROVE Typed
  OBVIOUS
<1>1. channel \in [Api -> Seq(Event)]
  BY EmptySeq DEF StatusInit
<1> QED
  BY <1>1 DEF StatusInit, Typed

LEMMA HeadIsEvent ==
  ASSUME Typed, NEW a \in Api, channel[a] # <<>>
  PROVE  /\ Head(channel[a]) \in Event /\ Head(channel[a]) = channel[a][1]
         /\ Tail(channel[a]) \in Seq(Event)
         /\ Len(channel[a]) \in Nat \ {0}
         /\ Len(Tail(channel[a])) = Len(channel[a]) - 1
         /\ \A k \in 1 .. Len(channel[a]) - 1 : Tail(channel[a])[k] = channel[a][k + 1]
<1>1. channel[a] \in Seq(Event)
  BY DEF Typed
<1> QED
  BY <1>1, HeadTailProperties, LenProperties, ElementOfSeq

LEMMA SendsStatements == \A e \in Event : Sends(e) \subseteq Statement
BY DEF Event, Sends, Statement

LEMMA TypedStep == Typed /\ [StatusNext]_statusVars => Typed'
<1> SUFFICES ASSUME Typed, [StatusNext]_statusVars PROVE Typed'
  OBVIOUS
<1> USE StatusAssumption
<1>1. CASE LinkOpens
  <2>1. PICK n \in Number, phone \in Number \cup {NoNumber} :
          link' = n /\ rowPhone' = n /\ Publish("CONNECTED", phone, n)
    BY <1>1 DEF LinkOpens
  <2> DEFINE e == [status |-> "CONNECTED", phone |-> phone, of |-> n]
  <2>2. e \in Event
    BY DEF Event
  <2> HIDE DEF e
  <2>3. channel' = [a \in Api |-> Append(channel[a], e)]
    BY <2>1 DEF Publish, e
  <2>4. channel' \in [Api -> Seq(Event)]
    BY <2>2, <2>3, AppendProperties DEF Typed
  <2> QED
    BY <2>1, <2>4 DEF Typed, Publish
<1>2. CASE LinkCloses
  <2>1. PICK phone \in Number \cup {NoNumber} :
          /\ link' = NoNumber /\ link \in Number /\ rowPhone' \in {link, NoNumber}
          /\ Publish("DISCONNECTED", phone, link)
    BY <1>2 DEF LinkCloses, Typed
  <2> DEFINE e == [status |-> "DISCONNECTED", phone |-> phone, of |-> link]
  <2>2. e \in Event
    BY <2>1 DEF Event
  <2>3. channel' = [a \in Api |-> Append(channel[a], e)]
    BY <2>1 DEF Publish
  <2> HIDE DEF e
  <2>4. channel' \in [Api -> Seq(Event)]
    BY <2>2, <2>3, AppendProperties DEF Typed
  <2> QED
    BY <2>1, <2>4 DEF Typed, Publish
<1>3. ASSUME NEW a \in Api, HandleStatus(a) PROVE Typed'
  <2>1. Tail(channel[a]) \in Seq(Event) /\ Sends(Head(channel[a])) \subseteq Statement
    BY <1>3, HeadIsEvent, SendsStatements DEF HandleStatus
  <2>2. channel' = [channel EXCEPT ![a] = Tail(@)]
        /\ pending' = [pending EXCEPT ![a] = @ \cup Sends(Head(channel[a]))]
    BY <1>3 DEF HandleStatus
  <2>3. met' \in BOOLEAN /\ strayed' \in BOOLEAN
    BY <1>3 DEF HandleStatus
  <2> QED
    BY <1>3, <2>1, <2>2, <2>3 DEF Typed, HandleStatus
<1>4. ASSUME NEW a \in Api, LookUp(a) PROVE Typed'
  <2>1. PICK s \in pending[a] :
          /\ pending' = [pending EXCEPT ![a] = (@ \ {s}) \cup
               IF rowPhone = NoNumber THEN {}
               ELSE {[does |-> "deactivate", phone |-> rowPhone, of |-> s.of]}]
          /\ strayed' = (strayed \/ rowPhone # s.of)
    BY <1>4 DEF LookUp
  <2>2. s.of \in Number /\ pending[a] \subseteq Statement
    BY DEF Typed, Statement
  <2> QED
    BY <1>4, <2>1, <2>2 DEF Typed, LookUp, Statement
<1>5. ASSUME NEW a \in Api, ActivatePending(a) \/ DeactivateActive(a) \/ StatementFails(a)
      PROVE Typed'
  <2>1. PICK s \in pending[a] : pending' = [pending EXCEPT ![a] = @ \ {s}]
    BY <1>5 DEF ActivatePending, DeactivateActive, StatementFails
  <2>2. pending' \in [Api -> SUBSET Statement]
    BY <2>1 DEF Typed
  <2>3. CASE ActivatePending(a)
    <3>1. PICK t \in pending[a] : t.does = "activate" /\ answering' = answering \cup {t.phone}
      BY <2>3 DEF ActivatePending
    <3> QED
      BY <2>2, <2>3, <3>1 DEF ActivatePending, Typed, Statement
  <2>4. CASE DeactivateActive(a)
    BY <2>2, <2>4 DEF DeactivateActive, Typed
  <2>5. CASE StatementFails(a)
    BY <2>2, <2>5 DEF StatementFails, Typed
  <2> QED
    BY <1>5, <2>3, <2>4, <2>5
<1>6. ASSUME NEW a \in Api, ApiCrashes(a) PROVE Typed'
  BY <1>6, EmptySeq DEF Typed, ApiCrashes
<1>7. CASE UNCHANGED statusVars
  BY <1>7 DEF Typed, statusVars
<1> QED
  BY <1>1, <1>2, <1>3, <1>4, <1>5, <1>6, <1>7 DEF StatusNext

----------------------------------------------------------------------------
(* Each step keeps the invariant *)

\* Publishing e leaves the link as e says.
LEMMA PublishKeeps ==
  ASSUME Typed, OneInHand, LastWord, SomeoneOwes, NEW e \in Event,
         e.phone \in {e.of, NoNumber},
         e.status = "CONNECTED" <=> link' = e.of,
         \A n \in Number \ {e.of} : link' = n <=> link = n,
         channel' = [a \in Api |-> Append(channel[a], e)],
         UNCHANGED <<pending, answering>>
  PROVE  OneInHand' /\ LastWord' /\ SomeoneOwes'
<1>1. ASSUME NEW a \in Api
      PROVE  /\ Len(channel[a]) \in Nat /\ Len(channel'[a]) = Len(channel[a]) + 1
             /\ channel'[a][Len(channel[a]) + 1] = e
             /\ \A k \in 1 .. Len(channel[a]) :
                  channel'[a][k] = channel[a][k] /\ channel[a][k] \in Event
  BY AppendProperties, LenProperties, ElementOfSeq DEF Typed
<1>2. \A a \in Api : Told(a, e.of)' /\ \A n : Told(a, n) => Told(a, n)'
  <2> SUFFICES ASSUME NEW a \in Api
               PROVE  Told(a, e.of)' /\ \A n : Told(a, n) => Told(a, n)'
    OBVIOUS
  <2>1. Len(channel[a]) + 1 \in 1 .. Len(channel'[a])
    BY <1>1
  <2>2. Told(a, e.of)'
    BY <1>1, <2>1 DEF Told
  <2>3. \A k \in 1 .. Len(channel[a]) : k \in 1 .. Len(channel'[a])
    BY <1>1
  <2> QED
    BY <1>1, <2>2, <2>3 DEF Told
<1>3. \A a \in Api : LastHeard(a)'
  <2> SUFFICES ASSUME NEW a \in Api, NEW k \in 1 .. Len(channel'[a])
               PROVE  /\ channel'[a][k].phone \in {channel'[a][k].of, NoNumber}
                      /\ (\A j \in 1 .. Len(channel'[a]) :
                            j > k => channel'[a][j].of # channel'[a][k].of) =>
                           (channel'[a][k].status = "CONNECTED" <=> link' = channel'[a][k].of)
    BY DEF LastHeard
  <2>1. CASE k = Len(channel[a]) + 1
    BY <1>1, <2>1
  <2>2. CASE k \in 1 .. Len(channel[a])
    <3>1. /\ channel'[a][k] = channel[a][k] /\ channel[a][k].of \in Number
          /\ channel[a][k].phone \in {channel[a][k].of, NoNumber}
      BY <1>1, <2>2 DEF Event, LastWord, LastHeard
    <3>2. ASSUME \A j \in 1 .. Len(channel'[a]) : j > k => channel'[a][j].of # channel'[a][k].of
          PROVE  channel[a][k].status = "CONNECTED" <=> link' = channel[a][k].of
      <4>1. e.of # channel[a][k].of
        BY <1>1, <2>2, <3>1, <3>2
      <4>2. \A j \in 1 .. Len(channel[a]) : j > k => channel[a][j].of # channel[a][k].of
        BY <1>1, <3>1, <3>2
      <4> QED
        BY <2>2, <3>1, <4>1, <4>2 DEF LastWord, LastHeard
    <3> QED
      BY <3>1, <3>2
  <2> QED
    BY <1>1, <2>1, <2>2
<1>4. \A a \in Api : LastDone(a)'
  BY <1>2 DEF LastWord, LastDone, Typed, Statement
<1>5. SomeoneOwes'
  BY <1>2, StatusAssumption DEF SomeoneOwes, Owes
<1> QED
  BY <1>3, <1>4, <1>5 DEF LastWord, OneInHand, InHand

\* What an instance hears is what it then has in hand.
LEMMA HandleKeeps ==
  ASSUME Typed, OneInHand, LastWord, SomeoneOwes, NEW a \in Api, HandleStatus(a),
         Undisturbed'
  PROVE  OneInHand' /\ LastWord' /\ SomeoneOwes'
<1>0. PICK e, rest : e = channel[a][1] /\ rest = Len(channel[a]) - 1
  OBVIOUS
<1>1. /\ e \in Event /\ rest \in Nat
      /\ Len(channel'[a]) = rest /\ Len(channel[a]) = rest + 1
      /\ \A k \in 1 .. rest : channel'[a][k] = channel[a][k + 1]
      /\ \A b \in Api \ {a} : channel'[b] = channel[b]
  BY <1>0, HeadIsEvent DEF HandleStatus, Typed
<1>2. /\ pending[a] = {} /\ pending'[a] = Sends(e)
      /\ \A b \in Api \ {a} : pending'[b] = pending[b]
      /\ link' = link /\ answering' = answering
      /\ ~(e.phone = NoNumber /\ e.status = "CONNECTED")
  BY <1>0, HeadIsEvent DEF HandleStatus, Typed, Undisturbed
<1>3. 1 \in 1 .. Len(channel[a])
  BY <1>1
<1>4. e.phone \in {e.of, NoNumber}
  BY <1>0, <1>3 DEF LastWord, LastHeard
<1>5. PICK s : /\ pending'[a] = {s} /\ s.of = e.of
               /\ s.does = "activate" <=> e.status = "CONNECTED"
               /\ s.does # "lookUp" => s.phone = s.of
  <2> DEFINE s == [does |-> IF e.status = "CONNECTED" THEN "activate"
                            ELSE IF e.phone = NoNumber THEN "lookUp" ELSE "deactivate",
                   phone |-> e.phone, of |-> e.of]
  <2>1. pending'[a] = {s}
    BY <1>2 DEF Sends
  <2>2. /\ s.of = e.of /\ s.phone = e.phone
        /\ s.does = IF e.status = "CONNECTED" THEN "activate"
                    ELSE IF e.phone = NoNumber THEN "lookUp" ELSE "deactivate"
    OBVIOUS
  <2> HIDE DEF s
  <2>3. /\ s.does = "activate" <=> e.status = "CONNECTED"
        /\ s.does # "lookUp" => s.phone = s.of
    BY <1>2, <1>4, <2>2
  <2> QED
    BY <2>1, <2>2, <2>3
<1>6. \A n : (Told(a, n) <=> Told(a, n)' \/ n = e.of)
  <2>1. ASSUME NEW n, Told(a, n), n # e.of PROVE Told(a, n)'
    <3>1. PICK k \in 1 .. rest + 1 : channel[a][k].of = n
      BY <1>1, <2>1 DEF Told
    <3>2. k # 1
      BY <1>0, <2>1, <3>1
    <3>3. k - 1 \in 1 .. rest /\ (k - 1) + 1 = k
      BY <1>1, <3>2
    <3> QED
      BY <1>1, <3>1, <3>3 DEF Told
  <2>2. ASSUME NEW n, Told(a, n)' PROVE Told(a, n)
    <3>1. PICK k \in 1 .. rest : channel'[a][k].of = n
      BY <1>1, <2>2 DEF Told
    <3>2. k + 1 \in 1 .. rest + 1
      BY <1>1
    <3> QED
      BY <1>1, <3>1, <3>2 DEF Told
  <2>3. Told(a, e.of)
    BY <1>0, <1>3 DEF Told
  <2> QED
    BY <2>1, <2>2, <2>3
<1>7. LastHeard(a)'
  <2> SUFFICES ASSUME NEW k \in 1 .. rest
               PROVE  /\ channel'[a][k].phone \in {channel'[a][k].of, NoNumber}
                      /\ (\A j \in 1 .. rest : j > k => channel'[a][j].of # channel'[a][k].of) =>
                           (channel'[a][k].status = "CONNECTED" <=> link' = channel'[a][k].of)
    BY <1>1 DEF LastHeard
  <2>1. k + 1 \in 1 .. Len(channel[a]) /\ channel'[a][k] = channel[a][k + 1]
    BY <1>1
  <2>2. ASSUME \A j \in 1 .. rest : j > k => channel'[a][j].of # channel'[a][k].of
        PROVE  \A j \in 1 .. Len(channel[a]) :
                 j > k + 1 => channel[a][j].of # channel[a][k + 1].of
    <3> SUFFICES ASSUME NEW j \in 1 .. Len(channel[a]), j > k + 1
                 PROVE  channel[a][j].of # channel[a][k + 1].of
      OBVIOUS
    <3>1. j - 1 \in 1 .. rest /\ j - 1 > k /\ (j - 1) + 1 = j
      BY <1>1
    <3> QED
      BY <1>1, <2>1, <2>2, <3>1
  <2> QED
    BY <1>2, <2>1, <2>2 DEF LastWord, LastHeard
<1>8. LastDone(a)'
  <2> SUFFICES ASSUME ~Told(a, e.of)'
               PROVE  e.status = "CONNECTED" <=> link = e.of
    BY <1>2, <1>5 DEF LastDone
  <2>1. \A j \in 1 .. Len(channel[a]) : j > 1 => channel[a][j].of # e.of
    <3> SUFFICES ASSUME NEW j \in 1 .. Len(channel[a]), j > 1 PROVE channel[a][j].of # e.of
      OBVIOUS
    <3>1. j - 1 \in 1 .. rest /\ (j - 1) + 1 = j
      BY <1>1
    <3> QED
      BY <1>1, <3>1 DEF Told
  <2> QED
    BY <1>0, <1>3, <2>1 DEF LastWord, LastHeard
<1>9. \A b \in Api \ {a} : LastHeard(b)' /\ LastDone(b)' /\ InHand(b)'
  BY <1>1, <1>2 DEF LastWord, LastHeard, LastDone, OneInHand, InHand, Told
<1>10. InHand(a)'
  BY <1>5 DEF InHand
<1>11. SomeoneOwes'
  <2>1. \A n : Owes(a, n)' <=> n = e.of
    BY <1>5 DEF Owes
  <2>2. \A n : ~Owes(a, n)
    BY <1>2 DEF Owes
  <2>3. \A b \in Api \ {a} : \A n : (Told(b, n)' <=> Told(b, n)) /\ (Owes(b, n)' <=> Owes(b, n))
    BY <1>1, <1>2 DEF Told, Owes
  <2> QED
    BY <1>2, <1>6, <2>1, <2>2, <2>3 DEF SomeoneOwes
<1> QED
  BY <1>7, <1>8, <1>9, <1>10, <1>11 DEF LastWord, OneInHand

\* A look-up that finds the number of the event is the deactivation it stands for.
LEMMA LookUpKeeps ==
  ASSUME Typed, OneInHand, LastWord, SomeoneOwes, NEW a \in Api, LookUp(a), Undisturbed'
  PROVE  OneInHand' /\ LastWord' /\ SomeoneOwes'
<1>1. PICK s \in pending[a] :
        /\ s.does = "lookUp"
        /\ pending' = [pending EXCEPT ![a] = (@ \ {s}) \cup
             IF rowPhone = NoNumber THEN {}
             ELSE {[does |-> "deactivate", phone |-> rowPhone, of |-> s.of]}]
        /\ strayed' = (strayed \/ rowPhone # s.of)
  BY DEF LookUp
<1>2. rowPhone = s.of /\ rowPhone # NoNumber
  <2>1. s \in Statement
    BY <1>1 DEF Typed
  <2>2. s.of \in Number
    BY <2>1 DEF Statement
  <2>3. rowPhone = s.of
    BY <1>1 DEF Undisturbed
  <2> QED
    BY <2>2, <2>3, StatusAssumption
<1>3. pending[a] = {s}
  BY DEF OneInHand, InHand
<1>4. PICK t : /\ t.does = "deactivate" /\ t.phone = s.of /\ t.of = s.of
               /\ t = [does |-> "deactivate", phone |-> rowPhone, of |-> s.of]
  BY <1>2
<1>5. /\ pending'[a] = {t} /\ \A b \in Api \ {a} : pending'[b] = pending[b]
      /\ UNCHANGED <<link, channel, answering>>
  BY <1>1, <1>2, <1>3, <1>4 DEF LookUp, Typed
<1>6. \A b \in Api : \A n : (Told(b, n)' <=> Told(b, n)) /\ (Owes(b, n)' <=> Owes(b, n))
  BY <1>3, <1>4, <1>5 DEF Told, Owes
<1>7. OneInHand'
  BY <1>4, <1>5 DEF OneInHand, InHand
<1>8. LastWord'
  <2>1. \A b \in Api : LastHeard(b)'
    BY <1>5 DEF LastWord, LastHeard
  <2>2. \A b \in Api \ {a} : LastDone(b)'
    BY <1>5, <1>6 DEF LastWord, LastDone
  <2>3. LastDone(a)'
    BY <1>1, <1>3, <1>4, <1>5, <1>6 DEF LastWord, LastDone
  <2> QED
    BY <2>1, <2>2, <2>3 DEF LastWord
<1> QED
  BY <1>5, <1>6, <1>7, <1>8 DEF SomeoneOwes

\* A statement that runs does what the last word about its number asks.
LEMMA StatementKeeps ==
  ASSUME Typed, OneInHand, LastWord, SomeoneOwes, NEW a \in Api,
         ActivatePending(a) \/ DeactivateActive(a)
  PROVE  OneInHand' /\ LastWord' /\ SomeoneOwes'
<1>1. PICK s \in pending[a] :
        /\ pending' = [pending EXCEPT ![a] = @ \ {s}]
        /\ \/ s.does = "activate" /\ answering' = answering \cup {s.phone}
           \/ s.does = "deactivate" /\ answering' = answering \ {s.phone}
  BY DEF ActivatePending, DeactivateActive
<1>2. pending[a] = {s} /\ s.phone = s.of
  BY <1>1 DEF OneInHand, InHand
<1>3. /\ pending'[a] = {} /\ \A b \in Api \ {a} : pending'[b] = pending[b]
      /\ UNCHANGED <<link, channel>>
  BY <1>1, <1>2 DEF ActivatePending, DeactivateActive, Typed
<1>4. \A b \in Api : \A n : Told(b, n)' <=> Told(b, n)
  BY <1>3 DEF Told
<1>5. OneInHand'
  BY <1>3 DEF OneInHand, InHand
<1>6. LastWord'
  BY <1>3, <1>4 DEF LastWord, LastHeard, LastDone
<1>7. SomeoneOwes'
  <2> SUFFICES ASSUME NEW n \in Number
               PROVE  (n \in answering' <=> link' = n) \/ \E b \in Api : Told(b, n)' \/ Owes(b, n)'
    BY DEF SomeoneOwes
  <2>1. CASE n = s.of
    <3>1. Told(a, n) \/ (s.does = "activate" <=> link = n)
      BY <1>2, <2>1 DEF LastWord, LastDone
    <3> QED
      BY <1>1, <1>2, <1>3, <1>4, <2>1, <3>1
  <2>2. CASE n # s.of
    <3>1. n \in answering' <=> n \in answering
      BY <1>1, <1>2, <2>2
    <3>2. \A b \in Api : Owes(b, n) => Owes(b, n)'
      BY <1>2, <1>3, <2>2 DEF Owes
    <3> QED
      BY <1>3, <1>4, <3>1, <3>2 DEF SomeoneOwes
  <2> QED
    BY <2>1, <2>2
<1> QED
  BY <1>5, <1>6, <1>7

LEMMA FollowStep == Typed /\ FollowInv /\ [StatusNext]_statusVars => FollowInv'
<1> SUFFICES ASSUME Typed, FollowInv, [StatusNext]_statusVars, Undisturbed'
             PROVE  OneInHand' /\ LastWord' /\ SomeoneOwes'
  BY DEF FollowInv
<1>1. CASE LinkOpens
  <2>1. PICK n \in Number, phone \in Number \cup {NoNumber} :
          phone \in {n, NoNumber} /\ link = NoNumber /\ link' = n /\ Publish("CONNECTED", phone, n)
    BY <1>1 DEF LinkOpens
  <2>2. PICK e : e = [status |-> "CONNECTED", phone |-> phone, of |-> n]
    OBVIOUS
  <2>3. e \in Event /\ e.status = "CONNECTED" /\ e.of = n /\ e.phone \in {n, NoNumber}
    BY <2>1, <2>2 DEF Event
  <2>4. /\ channel' = [a \in Api |-> Append(channel[a], e)]
        /\ UNCHANGED <<pending, answering, lost, met, strayed>>
    BY <2>1, <2>2 DEF Publish
  <2>5. Undisturbed
    BY <2>4 DEF Undisturbed
  <2> QED
    BY <2>1, <2>3, <2>4, <2>5, PublishKeeps, StatusAssumption DEF FollowInv
<1>2. CASE LinkCloses
  <2>1. PICK phone \in {link, NoNumber} :
          link \in Number /\ link' = NoNumber /\ Publish("DISCONNECTED", phone, link)
    BY <1>2 DEF LinkCloses, Typed
  <2>2. PICK e : e = [status |-> "DISCONNECTED", phone |-> phone, of |-> link]
    OBVIOUS
  <2>3. e \in Event /\ e.status = "DISCONNECTED" /\ e.of = link /\ e.phone \in {e.of, NoNumber}
    BY <2>1, <2>2 DEF Event
  <2>4. /\ channel' = [a \in Api |-> Append(channel[a], e)]
        /\ UNCHANGED <<pending, answering, lost, met, strayed>>
    BY <2>1, <2>2 DEF Publish
  <2>5. Undisturbed
    BY <2>4 DEF Undisturbed
  <2>6. \A n \in Number \ {e.of} : link' = n <=> link = n
    BY <2>1, <2>3, StatusAssumption
  <2>7. e.status = "CONNECTED" <=> link' = e.of
    BY <2>1, <2>3, StatusAssumption
  <2> QED
    BY <2>3, <2>4, <2>5, <2>6, <2>7, PublishKeeps DEF FollowInv
<1>3. ASSUME NEW a \in Api, HandleStatus(a) PROVE OneInHand' /\ LastWord' /\ SomeoneOwes'
  <2>1. Undisturbed
    BY <1>3 DEF Undisturbed, HandleStatus, Typed
  <2> QED
    BY <1>3, <2>1, HandleKeeps DEF FollowInv
<1>4. ASSUME NEW a \in Api, LookUp(a) PROVE OneInHand' /\ LastWord' /\ SomeoneOwes'
  <2>1. Undisturbed
    BY <1>4 DEF Undisturbed, LookUp, Typed
  <2> QED
    BY <1>4, <2>1, LookUpKeeps DEF FollowInv
<1>5. ASSUME NEW a \in Api, ActivatePending(a) \/ DeactivateActive(a)
      PROVE  OneInHand' /\ LastWord' /\ SomeoneOwes'
  <2>1. Undisturbed
    BY <1>5 DEF Undisturbed, ActivatePending, DeactivateActive
  <2> QED
    BY <1>5, <2>1, StatementKeeps DEF FollowInv
<1>6. ASSUME NEW a \in Api, StatementFails(a) \/ ApiCrashes(a) PROVE FALSE
  BY <1>6 DEF StatementFails, ApiCrashes, Undisturbed, Typed
<1>7. CASE UNCHANGED statusVars
  BY <1>7 DEF statusVars, FollowInv, Undisturbed, OneInHand, InHand, LastWord, LastHeard,
    LastDone, SomeoneOwes, Told, Owes
<1> QED
  BY <1>1, <1>2, <1>3, <1>4, <1>5, <1>6, <1>7 DEF StatusNext

LEMMA InitFollows == StatusInit => FollowInv
<1> SUFFICES ASSUME StatusInit PROVE OneInHand /\ LastWord /\ SomeoneOwes
  BY DEF FollowInv
<1>1. \A a \in Api : pending[a] = {} /\ Len(channel[a]) = 0
  BY DEF StatusInit
<1>2. OneInHand /\ LastWord
  BY <1>1 DEF OneInHand, InHand, LastWord, LastHeard, LastDone
<1>3. SomeoneOwes
  BY StatusAssumption DEF StatusInit, SomeoneOwes
<1> QED
  BY <1>2, <1>3

\* Once every instance has handled what it was sent and no statement waits, the
\* flows that answer are those of the number the socket is connected with, for any
\* number of instances, numbers and events, as long as no event was handled over a
\* statement in hand, none lacked the number it needed and nothing was lost.
THEOREM FlowsAreAsTheLink == StatusSpec => []FlowsFollowTheLink
<1>1. Typed /\ FollowInv => FlowsFollowTheLink
  <2> SUFFICES ASSUME Typed, FollowInv, Settled, ~met, ~strayed, lost = 0
               PROVE  answering = {link} \ {NoNumber}
    BY DEF FlowsFollowTheLink
  <2>1. SomeoneOwes
    BY DEF FollowInv, Undisturbed, Typed
  <2>2. \A a \in Api : \A n : ~Told(a, n) /\ ~Owes(a, n)
    BY DEF Settled, Told, Owes
  <2>3. \A n \in Number : n \in answering <=> link = n
    BY <2>1, <2>2 DEF SomeoneOwes
  <2> QED
    BY <2>3, StatusAssumption DEF Typed
<1> QED
  BY <1>1, InitTyped, TypedStep, InitFollows, FollowStep, PTL DEF StatusSpec
=============================================================================
