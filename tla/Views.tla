-------------------------------- MODULE Views --------------------------------
(***************************************************************************)
(* What users and administrators are shown of the event of Participation:  *)
(* the card (rest_server/routers/events_cards.py), the list of events      *)
(* (events.py) and the histograms (statistics.py).  A view changes nothing *)
(* and is taken here of one committed state; the handlers select the event *)
(* and its participants in statements of their own.                        *)
(***************************************************************************)
EXTENDS Participation

Filters == {"ACTIVE", "PAST", "REJECTED"} \* status_filter, "ANY" if there is none

(* Event.status.                                                           *)
EventStatus == IF event.rejected THEN "REJECTED"
               ELSE IF event.ends <= now THEN "PAST" ELSE "ACTIVE"

(***************************************************************************)
(* Cards.  A rejected event has none, and without a filter a past event    *)
(* has none either.                                                        *)
(***************************************************************************)
CountsListed == Cardinality(Listed(rows)) \* variant: whatever their status
ShownCount == Cardinality(Going(rows))

Card(u) == [count |-> ShownCount, max |-> event.max,
            status |-> EventStatus, mine |-> rows[u]]
HasCard(filter) ==
  /\ event.exists /\ ~event.rejected
  /\ \/ filter \in {"ANY", "ACTIVE"} /\ event.ends > now
     \/ filter = "PAST" /\ event.ends <= now
Cards(u, filter) == IF HasCard(filter) THEN {Card(u)} ELSE {}

(* The card offers its reader a place when the participants fit with them  *)
(* (an event over its limit offers none, not even to its participants).    *)
OffersPlace(c) ==
  /\ c.status = "ACTIVE"
  /\ Fits(IF c.mine = "PARTICIPATING" THEN c.count ELSE c.count + 1, c.max)

(***************************************************************************)
(* The list of events of the administrators; variant: PAST and ACTIVE      *)
(* overlook that the event is rejected.                                    *)
(***************************************************************************)
ListsRejected(filter) ==
  /\ event.exists
  /\ CASE filter = "REJECTED" -> event.rejected
       [] filter = "PAST" -> event.ends <= now
       [] filter = "ACTIVE" -> event.ends > now
       [] OTHER -> TRUE
Lists(filter) ==
  /\ event.exists
  /\ CASE filter = "REJECTED" -> event.rejected
       [] filter = "PAST" -> ~event.rejected /\ event.ends <= now
       [] filter = "ACTIVE" -> ~event.rejected /\ event.ends > now
       [] OTHER -> TRUE

(***************************************************************************)
(* Histograms: whether the event is counted in a bin.                      *)
(***************************************************************************)
Counted == event.exists /\ ~event.rejected

ParticipantBins == {"0", "1", "2-3", "4-5", "6+"}
InParticipantBin(bin) ==
  LET n == ShownCount
  IN /\ Counted
     /\ CASE bin = "0" -> n = 0
          [] bin = "1" -> n = 1
          [] bin = "2-3" -> 2 <= n /\ n <= 3
          [] bin = "4-5" -> 4 <= n /\ n <= 5
          [] bin = "6+" -> n >= 6

(* The fill rate starts in quarter 0 to 3, or is 100% and more (4); an     *)
(* event without a limit has none.  Variant: bins are closed at both ends. *)
FillBins == 0..4
FillsBoth(quarter) ==
  /\ Counted /\ event.max # Unlimited
  /\ quarter * event.max <= 4 * ShownCount
  /\ quarter = 4 \/ 4 * ShownCount <= (quarter + 1) * event.max
Fills(quarter) ==
  /\ Counted /\ event.max # Unlimited
  /\ quarter * event.max <= 4 * ShownCount
  /\ quarter = 4 \/ 4 * ShownCount < (quarter + 1) * event.max

-----------------------------------------------------------------------------
(* A user is given the place the card shows, and refused when it shows     *)
(* none, unless the request to join is overtaken by another transaction:   *)
(* list_event_cards and update_my_participation count alike.               *)
CardKept ==
  [][\A r \in Requests :
       (Check(r) /\ req[r].op = "PARTICIPATING" /\ ~req[r].stale)
         => (req'[r].pc = "ready" <=> OffersPlace(Card(req[r].user)))]_vars

(* Filters and Event.status agree, though the filters are SQL: whoever     *)
(* asks for a status is shown the events that have it, and users are shown *)
(* no rejected event.                                                      *)
FiltersAgree ==
  /\ \A f \in Filters : Lists(f) <=> event.exists /\ EventStatus = f
  /\ \A u \in Users, f \in Filters :
       /\ Lists(f) /\ f # "REJECTED" <=> Cards(u, f) # {}
       /\ \A c \in Cards(u, f) : c.status = f

(* An event is counted once in each histogram (the fill rate only if it    *)
(* has a limit), and as full exactly when whoever does not take part is    *)
(* refused for want of a place.                                            *)
JoinOf(u) == [Idle EXCEPT !.op = "PARTICIPATING", !.user = u, !.event = event]
HistogramsSound ==
  Counted =>
    /\ \E b \in ParticipantBins : \A c \in ParticipantBins : InParticipantBin(c) <=> c = b
    /\ event.max # Unlimited => \E b \in FillBins : \A c \in FillBins : Fills(c) <=> c = b
    /\ event.ends > now =>
         \A u \in Users \ Going(rows) : Fills(4) <=> ~JoinAllowed(JoinOf(u))
=============================================================================
