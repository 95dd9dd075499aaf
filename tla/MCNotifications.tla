-------------------------- MODULE MCNotifications --------------------------
(* Instances of Notifications for TLC. *)
EXTENDS Notifications

(* One notice of any kind to anybody, beside one of an event to one user.  *)
Plain(S) == CHOOSE x \in S : TRUE
AnyAndOne == [n \in Notices |->
  IF n = Plain(Notices) THEN Kinds \X SUBSET Users ELSE {<<"EVENT", {Plain(Users)}>>}]

(* Users and addresses are interchangeable: one address book of each size. *)
Books == LET order == SetToSeq(Users)
             names == SetToSeq(Addresses)
             place(u) == CHOOSE i \in DOMAIN order : order[i] = u
         IN {[u \in Users |-> IF place(u) <= k THEN names[place(u)] ELSE None]
               : k \in 0..Cardinality(Users)}
=============================================================================
