-------------------------- MODULE MCParticipation --------------------------
(* Instances of Participation and its Views for TLC. *)
EXTENDS Views, TLC

Sets(fields, max, rejected, ends) ==
  [sets |-> fields, max |-> max, rejected |-> rejected, ends |-> ends,
   replace |-> FALSE, list |-> {}]
Replaces(list) == [Sets({}, Unlimited, FALSE, 1) EXCEPT !.replace = TRUE, !.list = list]

NoPayloads == {}
(* An administrator replaces the roster by one user, lifts the limit, sets *)
(* it to one place, rejects the event, and enrols everybody while lifting  *)
(* the limit.                                                              *)
EditPayloads ==
  {Replaces({u}) : u \in Users}
    \cup {Sets({"max"}, max, FALSE, 1) : max \in {Unlimited, 1}}
    \cup {Sets({"rejected"}, Unlimited, TRUE, 1)}
    \cup {[Replaces(Users) EXCEPT !.sets = {"max"}]}

(* Every single edit of one field or of the roster, for one request at a   *)
(* time.                                                                   *)
AllPayloads ==
  {Replaces(list) : list \in SUBSET Users}
    \cup {Sets({"max"}, max, FALSE, 1) : max \in Limits}
    \cup {Sets({"rejected"}, Unlimited, b, 1) : b \in BOOLEAN}
    \cup {Sets({"ends"}, Unlimited, FALSE, e) : e \in EndTimes}
    \cup {[Replaces(list) EXCEPT !.sets = {"max"}, !.max = 1] : list \in SUBSET Users}

(* Requests are interchangeable; users are not, Idle names one of them.    *)
RequestSymmetry == Permutations(Requests)
=============================================================================
