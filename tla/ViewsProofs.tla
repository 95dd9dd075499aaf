----------------------------- MODULE ViewsProofs -----------------------------
(* Theorems about Views, for any users, requests, limits, end times and    *)
(* payloads.                                                               *)
EXTENDS ParticipationProofs, Views

(* What the arithmetic of the views needs to know of a well-typed state.   *)
LEMMA ViewTypes ==
  ASSUME TypeInv
  PROVE  /\ Going(rows) \in SUBSET Users /\ IsFiniteSet(Going(rows))
         /\ ShownCount \in Nat
         /\ event \in Events /\ event.max \in Nat
         /\ event.ends \in Nat /\ now \in Nat
<1>1. Going(rows) \in SUBSET Users
  BY DEF Going
<1>2. event \in Events /\ now \in 0..MaxTime
  BY DEF TypeInv, TypeOK
<1>3. event.max \in Limits /\ event.ends \in EndTimes \cup {0}
  BY <1>2 DEF Events
<1> QED BY <1>1, <1>2, <1>3, UserSets, LimitsNat, Instants DEF ShownCount

(* Counting u among the participants, or not, as the check of a join does. *)
LEMMA CountWith ==
  ASSUME TypeInv, NEW u \in Users
  PROVE  Cardinality(Going(rows) \ {u}) + 1
           = IF rows[u] = "PARTICIPATING" THEN ShownCount ELSE ShownCount + 1
<1>1. IsFiniteSet(Going(rows)) /\ ShownCount \in Nat
  BY ViewTypes
<1>2. CASE rows[u] = "PARTICIPATING"
  <2>1. u \in Going(rows)
    BY <1>2 DEF Going
  <2>2. Cardinality(Going(rows) \ {u}) = Cardinality(Going(rows)) - 1
    BY <1>1, <2>1, FS_RemoveElement
  <2> QED BY <1>1, <1>2, <2>2 DEF ShownCount
<1>3. CASE rows[u] # "PARTICIPATING"
  <2>1. Going(rows) \ {u} = Going(rows)
    BY <1>3 DEF Going
  <2> QED BY <1>3, <2>1 DEF ShownCount
<1> QED BY <1>2, <1>3

(* A join that is not overtaken is answered as the card says.              *)
LEMMA CardStep ==
  ASSUME TypeInv, FreshInv, NEW r \in Requests,
         Check(r), req[r].op = "PARTICIPATING", ~req[r].stale
  PROVE  req'[r].pc = "ready" <=> OffersPlace(Card(req[r].user))
<1> DEFINE s == req[r]
           u == s.user
<1>1. s \in Sessions /\ u \in Users
  BY DEF TypeInv, TypeOK, Sessions
<1>2. s.pc = "read" /\ Fresh(s)
  BY DEF Check, FreshInv
<1>3. s.event = event /\ ~event.rejected
  BY <1>2 DEF Fresh
<1>4. req'[r].pc = "ready" <=> JoinAllowed(s)
  <2>1. ~EditAllowed(s) /\ ~LeaveAllowed(s)
    BY DEF EditAllowed, LeaveAllowed
  <2>2. req \in [Requests -> Sessions]
    BY DEF TypeInv, TypeOK
  <2>3. CASE JoinAllowed(s)
    <3>1. req' = [req EXCEPT ![r] = [s EXCEPT !.pc = "ready"]]
      BY <2>3 DEF Check, Advance
    <3> QED BY <1>1, <2>2, <2>3, <3>1 DEF Sessions
  <2>4. CASE ~JoinAllowed(s)
    <3>1. req' = [req EXCEPT ![r] = Idle]
      BY <2>1, <2>4 DEF Check, Stop
    <3> QED BY <2>2, <2>4, <3>1, Records
  <2> QED BY <2>3, <2>4
<1>5. /\ event.ends \in Nat /\ now \in Nat
      /\ EventStatus = "ACTIVE" <=> event.ends > now
  BY <1>3, ViewTypes DEF EventStatus
<1>6. /\ Card(u).status = EventStatus /\ Card(u).mine = rows[u]
      /\ Card(u).count = ShownCount /\ Card(u).max = event.max
  BY DEF Card
<1>7. Cardinality(Going(rows) \ {u}) + 1
        = IF rows[u] = "PARTICIPATING" THEN ShownCount ELSE ShownCount + 1
  BY <1>1, CountWith
<1>8. OffersPlace(Card(u)) <=> /\ event.ends > now
                               /\ Fits(Cardinality(Going(rows) \ {u}) + 1, event.max)
  BY <1>5, <1>6, <1>7 DEF OffersPlace
<1>9. JoinAllowed(s) <=> /\ event.ends > now
                         /\ Fits(Cardinality(Going(rows) \ {u}) + 1, event.max)
  BY <1>3 DEF JoinAllowed
<1> QED BY <1>4, <1>8, <1>9

(* list_event_cards and update_my_participation count alike: who reads a   *)
(* card with a place, and is not overtaken, gets it, and nobody else does. *)
THEOREM CardIsKept == Spec => CardKept
<1>1. TypeInv /\ FreshInv /\ [Next]_vars =>
        [\A r \in Requests :
           (Check(r) /\ req[r].op = "PARTICIPATING" /\ ~req[r].stale)
             => (req'[r].pc = "ready" <=> OffersPlace(Card(req[r].user)))]_vars
  BY CardStep
<1> QED BY <1>1, ParticipationInv, PTL DEF Spec, CardKept

(* A natural number falls into one bin of participants, and its ratio to a *)
(* limit into one of the fill rate.                                        *)
LEMMA OneParticipantBin ==
  ASSUME TypeInv, Counted
  PROVE  \E b \in ParticipantBins : \A c \in ParticipantBins : InParticipantBin(c) <=> c = b
<1>1. PICK n \in Nat : n = ShownCount
  BY ViewTypes
<1>2. /\ InParticipantBin("0") <=> n = 0
      /\ InParticipantBin("1") <=> n = 1
      /\ InParticipantBin("2-3") <=> 2 <= n /\ n <= 3
      /\ InParticipantBin("4-5") <=> 4 <= n /\ n <= 5
      /\ InParticipantBin("6+") <=> n >= 6
  BY <1>1 DEF InParticipantBin
<1>3. PICK b \in ParticipantBins : InParticipantBin(b)
  BY <1>1, <1>2 DEF ParticipantBins
<1>4. \A c \in ParticipantBins : InParticipantBin(c) <=> c = b
  <2> SUFFICES ASSUME NEW c \in ParticipantBins, InParticipantBin(c) PROVE c = b
    BY <1>3
  <2> QED BY <1>1, <1>2, <1>3 DEF ParticipantBins
<1> QED BY <1>4

LEMMA OneFillBin ==
  ASSUME TypeInv, Counted, event.max # Unlimited
  PROVE  \E b \in FillBins : \A c \in FillBins : Fills(c) <=> c = b
<1>1. ShownCount \in Nat /\ event.max \in Nat
  BY ViewTypes
<1>2. PICK n \in Nat : n = ShownCount
  BY <1>1
<1>3. PICK m \in Nat : m = event.max /\ m > 0
  BY <1>1 DEF Unlimited
<1>4. /\ Fills(0) <=> 4 * n < m
      /\ Fills(1) <=> m <= 4 * n /\ 4 * n < 2 * m
      /\ Fills(2) <=> 2 * m <= 4 * n /\ 4 * n < 3 * m
      /\ Fills(3) <=> 3 * m <= 4 * n /\ 4 * n < 4 * m
      /\ Fills(4) <=> 4 * m <= 4 * n
  BY <1>2, <1>3 DEF Fills
<1>5. FillBins = {0, 1, 2, 3, 4}
  BY DEF FillBins
<1>6. PICK b \in FillBins : Fills(b)
  BY <1>3, <1>4, <1>5
<1>7. \A c \in FillBins : Fills(c) <=> c = b
  <2> SUFFICES ASSUME NEW c \in FillBins, Fills(c) PROVE c = b
    BY <1>6
  <2> QED BY <1>3, <1>4, <1>5, <1>6
<1> QED BY <1>7

(* The last bin of the fill rate holds the events without a place.         *)
LEMMA FullIsRefused ==
  ASSUME TypeInv, Counted, event.ends > now, NEW u \in Users \ Going(rows)
  PROVE  Fills(4) <=> ~JoinAllowed(JoinOf(u))
<1>1. ShownCount \in Nat /\ event.max \in Nat
  BY ViewTypes
<1>2. Cardinality(Going(rows) \ {u}) + 1 = ShownCount + 1
  BY CountWith DEF Going
<1>3. JoinOf(u).op = "PARTICIPATING" /\ JoinOf(u).user = u /\ JoinOf(u).event = event
  BY DEF JoinOf, Idle
<1>4. JoinAllowed(JoinOf(u)) <=> Fits(ShownCount + 1, event.max)
  BY <1>2, <1>3 DEF JoinAllowed
<1>5. Fills(4) <=> event.max # Unlimited /\ 4 * event.max <= 4 * ShownCount
  BY DEF Fills
<1> QED BY <1>1, <1>4, <1>5 DEF Fits

(* The histograms of the administrators' statistics count every event once *)
(* and call full what update_my_participation calls full.                  *)
THEOREM HistogramsAreSound == Spec => []HistogramsSound
<1>1. TypeInv => HistogramsSound
  BY OneParticipantBin, OneFillBin, FullIsRefused DEF HistogramsSound
<1> QED BY <1>1, ParticipationInv, PTL

(* The SQL of the filters, case by case.                                   *)
LEMMA FiltersStep ==
  ASSUME TypeInv
  PROVE  FiltersAgree
<1>1. event.ends \in Nat /\ now \in Nat /\ event.exists \in BOOLEAN /\ event.rejected \in BOOLEAN
  BY ViewTypes DEF Events
<1>2. ASSUME NEW f \in Filters PROVE Lists(f) <=> event.exists /\ EventStatus = f
  BY <1>1 DEF Lists, Filters, EventStatus
<1>3. ASSUME NEW u \in Users, NEW f \in Filters
      PROVE  /\ Lists(f) /\ f # "REJECTED" <=> Cards(u, f) # {}
             /\ \A c \in Cards(u, f) : c.status = f
  <2>1. HasCard(f) <=> Lists(f) /\ f # "REJECTED"
    BY <1>1 DEF HasCard, Lists, Filters
  <2>2. HasCard(f) => Card(u).status = f
    BY <1>2, <2>1 DEF Card
  <2> QED BY <2>1, <2>2 DEF Cards
<1> QED BY <1>2, <1>3 DEF FiltersAgree

(* The filters of the lists, the cards and Event.status agree in every     *)
(* state: whoever asks for a status gets the events that have it.          *)
THEOREM FiltersAreAgreed == Spec => []FiltersAgree
<1>1. TypeInv => FiltersAgree
  BY FiltersStep
<1> QED BY <1>1, ParticipationInv, PTL
=============================================================================
