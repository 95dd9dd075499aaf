------------------------------- MODULE Outbox -------------------------------
(***************************************************************************)
(* What the handlers are promised of the e-mails they hand over            *)
(* (core/services/notification.py): each is settled sooner or later, and   *)
(* once only; it may be lost, and the order is not kept.                   *)
(***************************************************************************)
CONSTANT Mails

VARIABLES waiting, \* e-mails handed over and not settled
          sent, lost
vars == <<waiting, sent, lost>>

Init == waiting = {} /\ sent = {} /\ lost = {}

HandOver(m) == /\ m \notin waiting \cup sent \cup lost
               /\ waiting' = waiting \cup {m}
               /\ UNCHANGED <<sent, lost>>

Deliver(m) == /\ m \in waiting
              /\ waiting' = waiting \ {m} /\ sent' = sent \cup {m}
              /\ UNCHANGED lost

Drop(m) == /\ m \in waiting
           /\ waiting' = waiting \ {m} /\ lost' = lost \cup {m}
           /\ UNCHANGED sent

Next == \E m \in Mails : HandOver(m) \/ Deliver(m) \/ Drop(m)

(* Mails are finite, so none waits for ever.                               *)
Settling == \E m \in Mails : Deliver(m) \/ Drop(m)

Spec == Init /\ [][Next]_vars /\ WF_vars(Settling)
=============================================================================
