---------------------------- MODULE MCStatistics ----------------------------
(* Instances of Participation, its Views and Statistics for TLC. *)
EXTENDS MCParticipation, Statistics

(* A past, an active and a rejected event, two of them on the date of the  *)
(* event of Participation; everybody but one user takes part.              *)
Absent == CHOOSE u \in Users : TRUE
OtherRows == [u \in Users |-> IF u = Absent THEN "REJECTED" ELSE "PARTICIPATING"]
ThreeOthers == {[id |-> "past", ends |-> 0, rejected |-> FALSE, rows |-> OtherRows],
                [id |-> "active", ends |-> 9, rejected |-> FALSE, rows |-> OtherRows],
                [id |-> "rejected", ends |-> 9, rejected |-> TRUE, rows |-> OtherRows]}
TwoDates == [id \in {"this", "past", "active", "rejected"} |-> IF id = "past" THEN 1 ELSE 2]
=============================================================================
