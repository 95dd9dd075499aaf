------------------------------- MODULE Roster -------------------------------
(***************************************************************************)
(* What the participation endpoints of rest_server/routers/events.py       *)
(* promise about one event, with every request a single step: who may be   *)
(* admitted, and what an administrator's edit may leave behind.  Slack is  *)
(* the number of participants by which overlapping requests may pass the   *)
(* limit; 0 is what the checks in the code are written for.                *)
(***************************************************************************)
EXTENDS Integers, FiniteSets

CONSTANTS Users, Capacities, Slack

VARIABLES open,   \* whether the event takes requests: created, not rejected
          max,    \* its limit, 0 for none
          rows    \* its participants
vars == <<open, max, rows>>

Going(r) == {u \in Users : r[u] = "PARTICIPATING"}
Listed(r) == {u \in Users : r[u] # "NONE"}
Enrolled(list) == [u \in Users |-> IF u \in list THEN "PARTICIPATING" ELSE "NONE"]
Fits(n, m) == m = 0 \/ n <= m

Init == open = FALSE /\ max = 0 /\ rows = Enrolled({})

(* The roster is set by an administrator, at the creation or later.        *)
Enroll(m, list) == /\ Fits(Cardinality(list), m)
                   /\ max' = m /\ rows' = Enrolled(list)
                   /\ open' \in BOOLEAN

(* The event is edited around its roster, which must fit the limit.        *)
Edit(m) == /\ Fits(Cardinality(Listed(rows)), m)
           /\ max' = m /\ open' \in BOOLEAN
           /\ UNCHANGED rows

(* A user decides for themselves; joining needs a place.                   *)
Decide(u, status) ==
  /\ open
  /\ status = "PARTICIPATING" =>
       Fits(Cardinality(Going(rows) \ {u}) + 1 - Slack, max)
  /\ rows' = [rows EXCEPT ![u] = status]
  /\ UNCHANGED <<open, max>>

Next == \/ \E m \in Capacities \cup {0} :
             Edit(m) \/ \E list \in SUBSET Users : Enroll(m, list)
        \/ \E u \in Users, status \in {"NONE", "PARTICIPATING", "REJECTED"} :
             Decide(u, status)

Spec == Init /\ [][Next]_vars
=============================================================================
