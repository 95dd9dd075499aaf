-------------------------- MODULE StatisticsProofs --------------------------
(* Theorems about Statistics, for any users, requests, limits and payloads *)
(* and any other events.                                                   *)
EXTENDS ViewsProofs, Statistics, WellFoundedInduction

-----------------------------------------------------------------------------
(* A sum over a set, of the values of a function: the fold that computes   *)
(* it satisfies its recursive equation if anything does.                   *)
Total(g, S) == MapThenSumSet(LAMBDA x : g[x], S)
Some(s) == CHOOSE x \in s : TRUE
Folds(f, g, S) ==
  f = [s \in SUBSET S |-> IF s = {} THEN 0 ELSE g[Some(s)] + f[s \ {Some(s)}]]

LEMMA TotalFolds ==
  ASSUME NEW S, NEW g, NEW h, Folds(h, g, S)
  PROVE  \E f : Folds(f, g, S) /\ Total(g, S) = f[S]
<1>1. Total(g, S) = (CHOOSE f : Folds(f, g, S))[S]
  BY DEF Total, Folds, Some, MapThenSumSet, MapThenFoldSet
<1>2. Folds(CHOOSE f : Folds(f, g, S), g, S)
  OBVIOUS
<1> QED BY <1>1, <1>2

(* The equation has one solution, for a finite set: where two of them      *)
(* differed on a smallest subset, they would differ on a smaller one.      *)
LEMMA OneFold ==
  ASSUME NEW S, IsFiniteSet(S), NEW f, NEW g, NEW h, Folds(f, g, S), Folds(h, g, S)
  PROVE  f[S] = h[S]
<1> DEFINE Bad == {s \in SUBSET S : f[s] # h[s]}
           R == StrictSubsetOrdering(S)
<1> SUFFICES ASSUME Bad # {} PROVE FALSE
  OBVIOUS
<1>1. IsWellFoundedOn(R, SUBSET S)
  BY FS_StrictSubsetOrderingWellFounded, FS_FiniteSubsetsOfFinite
<1>2. PICK s \in Bad : \A y \in Bad : <<y, s>> \notin R
  <2> HIDE DEF R
  <2> QED BY <1>1, WFMin
<1>3. \A s_1 \in SUBSET S :
        /\ f[s_1] = IF s_1 = {} THEN 0 ELSE g[Some(s_1)] + f[s_1 \ {Some(s_1)}]
        /\ h[s_1] = IF s_1 = {} THEN 0 ELSE g[Some(s_1)] + h[s_1 \ {Some(s_1)}]
  BY DEF Folds
<1>4. s # {} /\ Some(s) \in s
  BY <1>3 DEF Some
<1>5. s \ {Some(s)} \in SUBSET S /\ <<s \ {Some(s)}, s>> \in R
  BY <1>4 DEF StrictSubsetOrdering
<1>6. f[s \ {Some(s)}] = h[s \ {Some(s)}]
  BY <1>2, <1>5
<1> QED BY <1>3, <1>4, <1>6

(* Counting P by the values of k: the counts add up to all of P.           *)
LEMMA CountsAddUp ==
  ASSUME NEW S, IsFiniteSet(S), NEW P, IsFiniteSet(P), NEW k \in [P -> S],
         NEW g, \A x \in S : g[x] = Cardinality({p \in P : k[p] = x})
  PROVE  Total(g, S) = Cardinality(P)
<1> DEFINE Part(s) == {p \in P : k[p] \in s}
           h == [s \in SUBSET S |-> Cardinality(Part(s))]
<1>1. \A s : IsFiniteSet(Part(s)) /\ Cardinality(Part(s)) \in Nat
  <2> TAKE s
  <2>1. Part(s) \in SUBSET P
    OBVIOUS
  <2> HIDE DEF Part
  <2> QED BY <2>1, FS_Subset, FS_CardinalityType
<1>2. ASSUME NEW s \in SUBSET S
      PROVE  h[s] = IF s = {} THEN 0 ELSE g[Some(s)] + h[s \ {Some(s)}]
  <2>1. CASE s = {}
    <3>1. Part(s) = {}
      BY <2>1
    <3> QED BY <2>1, <3>1, FS_EmptySet
  <2>2. CASE s # {}
    <3> DEFINE x == Some(s)
               one == Part({x})
               rest == Part(s \ {x})
    <3>1. x \in s
      BY <2>2 DEF Some
    <3> HIDE DEF x
    <3>2. Part(s) = one \cup rest /\ one \cap rest = {}
      BY <3>1
    <3>3. g[x] = Cardinality(one)
      <4>1. one = {p \in P : k[p] = x}
        OBVIOUS
      <4> QED BY <3>1, <4>1
    <3>4. h[s \ {x}] = Cardinality(rest) /\ h[s] = Cardinality(Part(s))
      OBVIOUS
    <3>5. IsFiniteSet(one) /\ IsFiniteSet(rest)
      BY <1>1
    <3> HIDE DEF one, rest, h, Part
    <3>6. Cardinality(Part(s)) = Cardinality(one) + Cardinality(rest)
      <4>1. Cardinality(one \cup rest)
              = Cardinality(one) + Cardinality(rest) - Cardinality(one \cap rest)
        BY <3>5, FS_Union
      <4>2. Cardinality(one) \in Nat /\ Cardinality(rest) \in Nat
        BY <3>5, FS_CardinalityType
      <4>3. Cardinality(one \cap rest) = 0
        BY <3>2, FS_EmptySet
      <4>4. Cardinality(Part(s)) = Cardinality(one \cup rest)
        BY <3>2
      <4> QED BY <4>1, <4>2, <4>3, <4>4
    <3> QED BY <2>2, <3>3, <3>4, <3>6 DEF x
  <2> QED BY <2>1, <2>2
<1>3. Folds(h, g, S)
  BY <1>2 DEF Folds
<1>4. h[S] = Cardinality(P)
  <2>1. Part(S) = P
    OBVIOUS
  <2> QED BY <2>1
<1> HIDE DEF h
<1> QED BY <1>3, <1>4, TotalFolds, OneFold

-----------------------------------------------------------------------------
(* As many elements as there are in the domain of a one-to-one function.   *)
LEMMA SameNumber ==
  ASSUME NEW A, IsFiniteSet(A), NEW B, NEW f \in [A -> B],
         \A x, y \in A : f[x] = f[y] => x = y, \A z \in B : \E x \in A : f[x] = z
  PROVE  IsFiniteSet(B) /\ Cardinality(B) = Cardinality(A)
<1>1. f \in Bijection(A, B)
  BY DEF Bijection, Injection, Surjection, IsInjective
<1> QED BY <1>1, FS_Bijection DEF ExistsBijection

(* What is counted is finite, and its times are numbers.                   *)
LEMMA StatisticsTypes ==
  ASSUME TypeInv
  PROVE  /\ IsFiniteSet(EventRows) /\ IsFiniteSet(Unrejected) /\ IsFiniteSet(Joined)
         /\ now \in Int /\ \A e \in EventRows : e.ends \in Int /\ e.rows \in Rosters
         /\ Joined = {p \in Unrejected \X Users : Participates(p)}
         /\ IsFiniteSet(Users)
<1>1. /\ event.ends \in Nat /\ now \in Nat /\ rows \in Rosters /\ event \in Events
  BY ViewTypes DEF TypeInv, TypeOK
<1>2. IsFiniteSet(EventRows)
  <2> DEFINE row == [id |-> This, ends |-> event.ends, rejected |-> event.rejected,
                     rows |-> rows]
  <2>1. IsFiniteSet(Others) /\ IsFiniteSet(Others \cup {row})
    BY OthersAssumption, FS_AddElement
  <2> QED BY <2>1 DEF EventRows
<1>3. \A e \in EventRows : e.ends \in Int /\ e.rows \in Rosters
  BY <1>1, OthersAssumption DEF EventRows
<1>4. IsFiniteSet(Unrejected) /\ IsFiniteSet(Users)
  BY <1>2, FS_Subset, UsersAssumption DEF Unrejected
<1>5. Joined = {p \in Unrejected \X Users : Participates(p)}
  BY DEF Joined, ParticipantRows, Unrejected, Participates
<1>6. IsFiniteSet(Joined)
  <2>1. IsFiniteSet(Unrejected \X Users)
    BY <1>4, FS_Product
  <2> QED BY <1>5, <2>1, FS_Subset
<1> QED BY <1>1, <1>2, <1>3, <1>4, <1>5, <1>6

-----------------------------------------------------------------------------
(* The sums of the statistics are sums of functions.                       *)
LEMMA SumsAreTotals ==
  ASSUME NEW S
  PROVE  /\ MapThenSumSet(EventsPoint, S) = Total([d \in S |-> EventsPoint(d)], S)
         /\ MapThenSumSet(ParticipantsCount, S) = Total([e \in S |-> ParticipantsCount(e)], S)
         /\ MapThenSumSet(ParticipantsPoint, S) = Total([d \in S |-> ParticipantsPoint(d)], S)
         /\ MapThenSumSet(ParticipatingEvents, S)
              = Total([u \in S |-> ParticipatingEvents(u)], S)
<1>1. MapThenSumSet(EventsPoint, S) = Total([d \in S |-> EventsPoint(d)], S)
  <2> DEFINE g == [d \in S |-> EventsPoint(d)]
             Fold(f) == f = [s \in SUBSET S |-> IF s = {} THEN 0
                               ELSE EventsPoint(Some(s)) + f[s \ {Some(s)}]]
  <2>1. \A f : Fold(f) <=> Folds(f, g, S)
    BY DEF Folds, Some
  <2>2. /\ MapThenSumSet(EventsPoint, S) = (CHOOSE f : Fold(f))[S]
        /\ Total(g, S) = (CHOOSE f : Folds(f, g, S))[S]
    BY DEF Total, Folds, Some, MapThenSumSet, MapThenFoldSet
  <2> HIDE DEF Fold, g
  <2>3. (CHOOSE f : Fold(f)) = (CHOOSE f : Folds(f, g, S))
    BY <2>1
  <2> QED BY <2>2, <2>3 DEF g
<1>2. MapThenSumSet(ParticipantsCount, S) = Total([e \in S |-> ParticipantsCount(e)], S)
  <2> DEFINE g == [e \in S |-> ParticipantsCount(e)]
             Fold(f) == f = [s \in SUBSET S |-> IF s = {} THEN 0
                               ELSE ParticipantsCount(Some(s)) + f[s \ {Some(s)}]]
  <2>1. \A f : Fold(f) <=> Folds(f, g, S)
    BY DEF Folds, Some
  <2>2. /\ MapThenSumSet(ParticipantsCount, S) = (CHOOSE f : Fold(f))[S]
        /\ Total(g, S) = (CHOOSE f : Folds(f, g, S))[S]
    BY DEF Total, Folds, Some, MapThenSumSet, MapThenFoldSet
  <2> HIDE DEF Fold, g
  <2>3. (CHOOSE f : Fold(f)) = (CHOOSE f : Folds(f, g, S))
    BY <2>1
  <2> QED BY <2>2, <2>3 DEF g
<1>3. MapThenSumSet(ParticipantsPoint, S) = Total([d \in S |-> ParticipantsPoint(d)], S)
  <2> DEFINE g == [d \in S |-> ParticipantsPoint(d)]
             Fold(f) == f = [s \in SUBSET S |-> IF s = {} THEN 0
                               ELSE ParticipantsPoint(Some(s)) + f[s \ {Some(s)}]]
  <2>1. \A f : Fold(f) <=> Folds(f, g, S)
    BY DEF Folds, Some
  <2>2. /\ MapThenSumSet(ParticipantsPoint, S) = (CHOOSE f : Fold(f))[S]
        /\ Total(g, S) = (CHOOSE f : Folds(f, g, S))[S]
    BY DEF Total, Folds, Some, MapThenSumSet, MapThenFoldSet
  <2> HIDE DEF Fold, g
  <2>3. (CHOOSE f : Fold(f)) = (CHOOSE f : Folds(f, g, S))
    BY <2>1
  <2> QED BY <2>2, <2>3 DEF g
<1>4. MapThenSumSet(ParticipatingEvents, S)
        = Total([u \in S |-> ParticipatingEvents(u)], S)
  <2> DEFINE g == [u \in S |-> ParticipatingEvents(u)]
             Fold(f) == f = [s \in SUBSET S |-> IF s = {} THEN 0
                               ELSE ParticipatingEvents(Some(s)) + f[s \ {Some(s)}]]
  <2>1. \A f : Fold(f) <=> Folds(f, g, S)
    BY DEF Folds, Some
  <2>2. /\ MapThenSumSet(ParticipatingEvents, S) = (CHOOSE f : Fold(f))[S]
        /\ Total(g, S) = (CHOOSE f : Folds(f, g, S))[S]
    BY DEF Total, Folds, Some, MapThenSumSet, MapThenFoldSet
  <2> HIDE DEF Fold, g
  <2>3. (CHOOSE f : Fold(f)) = (CHOOSE f : Folds(f, g, S))
    BY <2>1
  <2> QED BY <2>2, <2>3 DEF g
<1> QED BY <1>1, <1>2, <1>3, <1>4

(* The participants of an event are its rows in event_participant that are *)
(* counted, and the events' counts add up to the rows of those events.     *)
LEMMA CountOfEvent ==
  ASSUME TypeInv, NEW e \in Unrejected
  PROVE  ParticipantsCount(e) = Cardinality({p \in Joined : p[1] = e})
<1> DEFINE A == Going(e.rows)
           B == {p \in Joined : p[1] = e}
           f == [u \in A |-> <<e, u>>]
<1>1. IsFiniteSet(A)
  <2>1. A \subseteq Users
    BY DEF Going
  <2> QED BY <2>1, FS_Subset, UsersAssumption
<1>2. \A u \in A : <<e, u>> \in B
  BY StatisticsTypes DEF Going, Participates
<1>3. \A p \in B : p[2] \in A /\ p = <<e, p[2]>>
  BY StatisticsTypes DEF Going, Participates
<1> HIDE DEF A, B
<1>4. f \in [A -> B] /\ \A x, y \in A : f[x] = f[y] => x = y
  BY <1>2
<1>5. \A z \in B : \E x \in A : f[x] = z
  BY <1>3
<1> HIDE DEF f
<1>6. Cardinality(B) = Cardinality(A)
  BY <1>1, <1>4, <1>5, SameNumber
<1> QED BY <1>6 DEF A, B, ParticipantsCount

LEMMA CountsOfEvents ==
  ASSUME TypeInv, NEW E \in SUBSET Unrejected
  PROVE  MapThenSumSet(ParticipantsCount, E) = Cardinality({p \in Joined : p[1] \in E})
<1> DEFINE P == {p \in Joined : p[1] \in E}
           k == [p \in P |-> p[1]]
           g == [e \in E |-> ParticipantsCount(e)]
<1>1. IsFiniteSet(E) /\ IsFiniteSet(P)
  BY StatisticsTypes, FS_Subset
<1>2. k \in [P -> E]
  OBVIOUS
<1>3. ASSUME NEW e \in E PROVE g[e] = Cardinality({p \in P : k[p] = e})
  <2>1. {p \in P : k[p] = e} = {p \in Joined : p[1] = e}
    OBVIOUS
  <2> QED BY <2>1, CountOfEvent
<1> HIDE DEF P, k
<1>4. Total(g, E) = Cardinality(P)
  <2> HIDE DEF g
  <2> QED BY <1>1, <1>2, <1>3, CountsAddUp
<1> QED BY <1>4, SumsAreTotals DEF P

(* The graphs: their points add up to all events, and to all participants. *)
LEMMA GraphsAddUp ==
  ASSUME TypeInv
  PROVE  /\ MapThenSumSet(EventsPoint, Dates) = Cardinality(Unrejected)
         /\ MapThenSumSet(ParticipantsPoint, Dates) = Cardinality(Joined)
<1> DEFINE date == [e \in Unrejected |-> StartDate[e.id]]
           day == [p \in Joined |-> StartDate[p[1].id]]
           ge == [d \in Dates |-> EventsPoint(d)]
           gp == [d \in Dates |-> ParticipantsPoint(d)]
<1>1. IsFiniteSet(Unrejected) /\ IsFiniteSet(Joined) /\ \A p \in Joined : p[1] \in Unrejected
  BY StatisticsTypes
<1>2. IsFiniteSet(Dates)
  <2>1. date \in Surjection(Unrejected, Dates)
    BY DEF Surjection, Dates
  <2> QED BY <1>1, <2>1, FS_Surjection
<1>3. date \in [Unrejected -> Dates] /\ day \in [Joined -> Dates]
  BY <1>1 DEF Dates
<1>4. ASSUME NEW d \in Dates PROVE ge[d] = Cardinality({e \in Unrejected : date[e] = d})
  <2>1. {e \in Unrejected : date[e] = d} = OnDate(d)
    BY DEF OnDate
  <2> QED BY <2>1 DEF EventsPoint
<1>5. ASSUME NEW d \in Dates PROVE gp[d] = Cardinality({p \in Joined : day[p] = d})
  <2>1. {p \in Joined : day[p] = d} = {p \in Joined : p[1] \in OnDate(d)}
    BY <1>1 DEF OnDate
  <2>2. OnDate(d) \in SUBSET Unrejected
    BY DEF OnDate
  <2> QED BY <2>1, <2>2, CountsOfEvents DEF ParticipantsPoint
<1>6. Total(ge, Dates) = Cardinality(Unrejected)
  <2> HIDE DEF ge, date
  <2> QED BY <1>1, <1>2, <1>3, <1>4, CountsAddUp
<1>7. Total(gp, Dates) = Cardinality(Joined)
  <2> HIDE DEF gp, day
  <2> QED BY <1>1, <1>2, <1>3, <1>5, CountsAddUp
<1> QED BY <1>6, <1>7, SumsAreTotals

(* A user's rows are those of the administrators' join with that user.      *)
LEMMA OwnRows ==
  ASSUME NEW u
  PROVE  /\ {p \in MyRows(u) : Participates(p)} = {p \in Joined : p[2] = u}
         /\ {p \in MyRows(u) : Participates(p) /\ p[1].ends > now}
              = {p \in Joined : p[2] = u /\ p[1] \in Active(Unrejected)}
<1>1. \A p \in ParticipantRows : p[1] \in EventRows
  BY DEF ParticipantRows
<1> QED BY <1>1 DEF MyRows, Joined, Active, Unrejected

(* The users' own numbers add up to all participants.                      *)
LEMMA UsersAddUp ==
  ASSUME TypeInv
  PROVE  MapThenSumSet(ParticipatingEvents, Users) = Cardinality(Joined)
<1> DEFINE who == [p \in Joined |-> p[2]]
           g == [u \in Users |-> ParticipatingEvents(u)]
<1>1. IsFiniteSet(Joined) /\ IsFiniteSet(Users) /\ \A p \in Joined : p[2] \in Users
  BY StatisticsTypes
<1>2. who \in [Joined -> Users]
  BY <1>1
<1>3. ASSUME NEW u \in Users PROVE g[u] = Cardinality({p \in Joined : who[p] = u})
  <2>1. {p \in Joined : who[p] = u} = {p \in Joined : p[2] = u}
    OBVIOUS
  <2> QED BY <2>1, OwnRows DEF ParticipatingEvents
<1> HIDE DEF who, g
<1>4. Total(g, Users) = Cardinality(Joined)
  BY <1>1, <1>2, <1>3, CountsAddUp
<1> QED BY <1>4, SumsAreTotals DEF g

LEMMA AdminNumbers == TypeInv => AdminAgrees
<1> SUFFICES ASSUME TypeInv PROVE AdminAgrees
  OBVIOUS
<1>1. IsFiniteSet(Unrejected) /\ IsFiniteSet(Joined)
  BY StatisticsTypes DEF Unrejected
<1>2. TotalParticipants = TotalParticipations
  <2>1. {p \in Joined : p[1] \in Unrejected} = Joined
    BY StatisticsTypes
  <2> QED BY <2>1, CountsOfEvents DEF TotalParticipants, TotalParticipations
<1>3. {p[2] : p \in Joined} = {u \in Users : ParticipatingEvents(u) > 0}
  <2>1. \A p \in Joined : p[2] \in Users
    BY StatisticsTypes
  <2>2. ASSUME NEW u \in Users
        PROVE  ParticipatingEvents(u) > 0 <=> \E p \in Joined : p[2] = u
    <3> DEFINE own == {p \in Joined : p[2] = u}
    <3>1. IsFiniteSet(own)
      BY <1>1, FS_Subset
    <3>2. Cardinality(own) \in Nat /\ (Cardinality(own) = 0 <=> own = {})
      BY <3>1, FS_CardinalityType, FS_EmptySet
    <3>3. own # {} <=> \E p \in Joined : p[2] = u
      OBVIOUS
    <3> HIDE DEF own
    <3>4. Cardinality(own) > 0 <=> own # {}
      BY <3>2
    <3> QED BY <3>3, <3>4, OwnRows DEF ParticipatingEvents, own
  <2> QED BY <2>1, <2>2
<1> QED BY <1>2, <1>3, GraphsAddUp, UsersAddUp
        DEF AdminAgrees, TotalParticipations, UniqueParticipants

(* What administrators are told adds up, whichever way it is counted.      *)
THEOREM AdminNumbersAgree == Spec => []AdminAgrees
BY AdminNumbers, ParticipationInv, PTL

-----------------------------------------------------------------------------
(* A user's rows, by their events: there is one row for an event.          *)
LEMMA RowsOfUser ==
  ASSUME TypeInv, NEW u \in Users, NEW E \in SUBSET Unrejected
  PROVE  Cardinality({p \in Joined : p[2] = u /\ p[1] \in E})
           = Cardinality({e \in E : e.rows[u] = "PARTICIPATING"})
<1> DEFINE A == {e \in E : e.rows[u] = "PARTICIPATING"}
           B == {p \in Joined : p[2] = u /\ p[1] \in E}
           f == [e \in A |-> <<e, u>>]
<1>1. IsFiniteSet(A)
  BY StatisticsTypes, FS_Subset
<1>2. \A e \in A : <<e, u>> \in B
  BY StatisticsTypes DEF Participates
<1>3. \A p \in B : p[1] \in A /\ p = <<p[1], u>>
  BY StatisticsTypes DEF Participates
<1> HIDE DEF A, B
<1>4. f \in [A -> B] /\ \A x, y \in A : f[x] = f[y] => x = y
  BY <1>2
<1>5. \A z \in B : \E x \in A : f[x] = z
  BY <1>3
<1> HIDE DEF f
<1>6. Cardinality(B) = Cardinality(A)
  BY <1>1, <1>4, <1>5, SameNumber
<1> QED BY <1>6 DEF A, B

LEMMA ExportNumbers ==
  ASSUME NEW u \in Users, NEW f \in Filters, NEW c \in Cards(u, f)
  PROVE  c.count = Cardinality(Exported) /\ (c.mine = "PARTICIPATING") = (u \in Exported)
BY DEF Exported, Cards, Card, ShownCount, Going

LEMMA UserNumbers == TypeInv => UserAgrees
<1> SUFFICES ASSUME TypeInv, NEW u \in Users
             PROVE  /\ ParticipatingEvents(u) <= Cardinality(Unrejected)
                    /\ Upcoming(u) - Cardinality({e \in Active(Others) :
                                        ~e.rejected /\ e.rows[u] = "PARTICIPATING"})
                         = Cardinality({c \in Cards(u, "ACTIVE") : c.mine = "PARTICIPATING"})
  BY ExportNumbers DEF UserAgrees
<1> DEFINE mine(E) == {e \in E : e.rows[u] = "PARTICIPATING"}
           open == {e \in Active(Others) : ~e.rejected /\ e.rows[u] = "PARTICIPATING"}
           row == [id |-> This, ends |-> event.ends, rejected |-> event.rejected,
                   rows |-> rows]
           shown == {c \in Cards(u, "ACTIVE") : c.mine = "PARTICIPATING"}
<1>1. /\ IsFiniteSet(Unrejected) /\ \A p \in Joined : p[1] \in Unrejected
      /\ Active(Unrejected) \in SUBSET Unrejected
  BY StatisticsTypes DEF Active
<1>2. ParticipatingEvents(u) = Cardinality(mine(Unrejected))
  <2>1. {p \in Joined : p[2] = u /\ p[1] \in Unrejected} = {p \in Joined : p[2] = u}
    BY <1>1
  <2>2. Cardinality({p \in Joined : p[2] = u /\ p[1] \in Unrejected})
          = Cardinality(mine(Unrejected))
    BY RowsOfUser
  <2>3. ParticipatingEvents(u) = Cardinality({p \in Joined : p[2] = u})
    BY OwnRows DEF ParticipatingEvents
  <2> QED BY <2>1, <2>2, <2>3
<1>3. Upcoming(u) = Cardinality(mine(Active(Unrejected)))
  BY <1>1, OwnRows, RowsOfUser DEF Upcoming
<1>4. /\ mine(Active(Unrejected)) \in SUBSET mine(Unrejected)
      /\ mine(Unrejected) \in SUBSET Unrejected
  BY DEF Active
<1>5. row \notin Others
  BY OthersAssumption
<1>6. mine(Active(Unrejected)) = open \cup (IF shown # {} THEN {row} ELSE {})
  <2>1. shown # {} <=> /\ event.exists /\ ~event.rejected /\ event.ends > now
                       /\ rows[u] = "PARTICIPATING"
    <3>1. HasCard("ACTIVE") <=> event.exists /\ ~event.rejected /\ event.ends > now
      BY DEF HasCard
    <3>2. shown # {} <=> HasCard("ACTIVE") /\ Card(u).mine = "PARTICIPATING"
      BY DEF Cards
    <3>3. Card(u).mine = rows[u]
      BY DEF Card
    <3> QED BY <3>1, <3>2, <3>3
  <2>2. \A e : e \in mine(Active(Unrejected))
                 <=> e \in EventRows /\ ~e.rejected /\ e.ends > now
                     /\ e.rows[u] = "PARTICIPATING"
    BY DEF Active, Unrejected
  <2>3. \A e : e \in EventRows <=> e \in Others \/ (event.exists /\ e = row)
    BY DEF EventRows
  <2>4. /\ row.rejected = event.rejected /\ row.ends = event.ends
        /\ row.rows = rows
    OBVIOUS
  <2>5. \A e : e \in open <=> e \in Others /\ ~e.rejected /\ e.ends > now
                             /\ e.rows[u] = "PARTICIPATING"
    BY DEF Active
  <2> HIDE DEF row, shown, open, mine
  <2> QED BY <2>1, <2>2, <2>3, <2>4, <2>5
<1>7. Cardinality(shown) = IF shown # {} THEN 1 ELSE 0
  <2>1. shown = {} \/ shown = {Card(u)}
    BY DEF Cards
  <2> QED BY <2>1, FS_EmptySet, FS_Singleton
<1>8. IsFiniteSet(open) /\ row \notin open
  BY <1>5, OthersAssumption, FS_Subset DEF Active
<1> HIDE DEF row, shown, open, mine
<1>9. Cardinality(mine(Active(Unrejected))) - Cardinality(open) = Cardinality(shown)
  <2>1. Cardinality(open) \in Nat
    BY <1>8, FS_CardinalityType
  <2>2. CASE shown # {}
    <3>1. Cardinality(open \cup {row}) = Cardinality(open) + 1
      BY <1>8, FS_AddElement
    <3> QED BY <1>6, <1>7, <2>1, <2>2, <3>1
  <2>3. CASE shown = {}
    <3>1. mine(Active(Unrejected)) = open
      BY <1>6, <2>3
    <3> QED BY <1>7, <2>1, <2>3, <3>1
  <2> QED BY <2>2, <2>3
<1>10. Cardinality(mine(Unrejected)) <= Cardinality(Unrejected)
  <2>1. IsFiniteSet(mine(Unrejected))
    BY <1>1, <1>4, FS_Subset
  <2> QED BY <1>1, <1>4, <2>1, FS_Subset
<1> QED BY <1>2, <1>3, <1>9, <1>10 DEF open, shown

(* A user's numbers are what their cards show, and within all events.      *)
THEOREM UserNumbersAgree == Spec => []UserAgrees
BY UserNumbers, ParticipationInv, PTL
=============================================================================
