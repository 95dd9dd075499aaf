----------------------------- MODULE Statistics -----------------------------
(***************************************************************************)
(* The statistics of administrators and users                              *)
(* (rest_server/routers/statistics.py) and the export of participants      *)
(* (events.py), over the event of Participation and others that nobody     *)
(* changes.  Each statement of a handler is a query of its own; all are    *)
(* taken here of one committed state.                                      *)
(***************************************************************************)
EXTENDS Views, FiniteSetsExt

CONSTANTS Others,   \* the other events: their id, ends, rejected and roster
          StartDate \* date of starts_at, by event id

This == "this"
ASSUME OthersAssumption ==
  /\ IsFiniteSet(Others)
  /\ Others \subseteq [id: DOMAIN StartDate \ {This}, ends: Nat, rejected: BOOLEAN,
                       rows: Rosters]
EventRows == Others \cup
  IF event.exists
  THEN {[id |-> This, ends |-> event.ends, rejected |-> event.rejected, rows |-> rows]}
  ELSE {}
Unrejected == {e \in EventRows : ~e.rejected}
Active(E) == {e \in E : e.ends > now}

(* event_participant: one row per event and user that has answered.        *)
ParticipantRows == {p \in EventRows \X Users : p[1].rows[p[2]] # "NONE"}
Participates(p) == p[1].rows[p[2]] = "PARTICIPATING"

-----------------------------------------------------------------------------
(* get_statistics, after a variant that counts whoever answered.           *)
JoinedAnswered == {p \in ParticipantRows : ~p[1].rejected}
Joined == {p \in ParticipantRows : Participates(p) /\ ~p[1].rejected}
TotalParticipations == Cardinality(Joined)
UniqueParticipants == Cardinality({p[2] : p \in Joined})

(* event_agg_subq: the participants of each event, those with none         *)
(* included; avg_participants_per_event divides their sum by the events.   *)
ParticipantsCount(e) == Cardinality(Going(e.rows))
TotalParticipants == MapThenSumSet(ParticipantsCount, Unrejected)

(* The graphs: a point for each date on which an event starts.             *)
OnDate(d) == {e \in Unrejected : StartDate[e.id] = d}
Dates == {StartDate[e.id] : e \in Unrejected}
EventsPoint(d) == Cardinality(OnDate(d))
ParticipantsPoint(d) == MapThenSumSet(ParticipantsCount, OnDate(d))

(* get_my_statistics: the user's rows, joined with their events;           *)
(* participation_rate is the first number over the events.                 *)
MyRows(u) == {p \in ParticipantRows : p[2] = u /\ ~p[1].rejected}
ParticipatingEvents(u) == Cardinality({p \in MyRows(u) : Participates(p)})
UpcomingAnswered(u) == Cardinality({p \in MyRows(u) : p[1].ends > now})
Upcoming(u) == Cardinality({p \in MyRows(u) : Participates(p) /\ p[1].ends > now})

(* export_event_participants: of any event, whatever its status.           *)
ExportedAll == Listed(rows)
Exported == Going(rows)

-----------------------------------------------------------------------------
(* The numbers an administrator is given agree, though they come from      *)
(* three aggregations, and with the users' own: the total is what the      *)
(* events' own counts, the graph and the numbers of get_my_statistics add  *)
(* up to, and the users counted once are those who take part.              *)
AdminAgrees ==
  /\ MapThenSumSet(EventsPoint, Dates) = Cardinality(Unrejected)
  /\ TotalParticipants = TotalParticipations
  /\ MapThenSumSet(ParticipantsPoint, Dates) = TotalParticipations
  /\ MapThenSumSet(ParticipatingEvents, Users) = TotalParticipations
  /\ UniqueParticipants = Cardinality({u \in Users : ParticipatingEvents(u) > 0})

(* A user's numbers agree with what their cards show: one participation is *)
(* upcoming for each active card that shows them participating; and so     *)
(* does the export, which lists as many as a card counts, and the user     *)
(* exactly when the card shows them participating.                         *)
UserAgrees ==
  \A u \in Users :
    /\ ParticipatingEvents(u) <= Cardinality(Unrejected)
    /\ Upcoming(u) - Cardinality({e \in Active(Others) :
                                    ~e.rejected /\ e.rows[u] = "PARTICIPATING"})
         = Cardinality({c \in Cards(u, "ACTIVE") : c.mine = "PARTICIPATING"})
    /\ \A f \in Filters : \A c \in Cards(u, f) :
         /\ c.count = Cardinality(Exported)
         /\ (c.mine = "PARTICIPATING") = (u \in Exported)
=============================================================================
