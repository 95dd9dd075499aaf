----------------------------- MODULE Registration -----------------------------
(***************************************************************************)
(* Who has which e-mail address (core/services/access.py, rest_server/     *)
(* routers/access.py and users.py): addresses are registered and verified, *)
(* and administrators change them.  Requests overlap; a handler looks      *)
(* whether an address is free in one statement and takes it in a later     *)
(* one, where the unique index of the user table has the last word.        *)
(* Soft deletion keeps the row and its address, so it changes nothing here.*)
(***************************************************************************)
EXTENDS Integers, FiniteSets

CONSTANTS Emails,
          Tokens,   \* registrations that can be issued
          Accounts, \* bound: rows the user table can have
          Requests, \* requests that can be in flight at the same time
          None

ASSUME NoneAssumption == None \notin Emails \cup Tokens \cup Accounts
ASSUME SetsAssumption == IsFiniteSet(Accounts) /\ IsFiniteSet(Requests)

VARIABLES email,  \* user.email (and username), None for no row
          origin, \* history: the registration a user was created from
          reg,    \* issued_registration: its e-mail address and validity
          req     \* the requests in flight
vars == <<email, origin, reg, req>>

Idle == [pc |-> "idle", op |-> "REGISTER", token |-> None, account |-> None,
         to |-> None, stale |-> FALSE]
RequestStates ==
  [pc: {"idle", "checked", "flushed"},
   op: {"REGISTER", "VERIFY", "RENAME"},
   token: Tokens \cup {None},     \* REGISTER, VERIFY
   account: Accounts \cup {None}, \* RENAME: the user; VERIFY: the new one's id
   to: Emails \cup {None},        \* the address it is about
   stale: BOOLEAN] \* history: another request has committed since the check

Init == /\ email = [a \in Accounts |-> None]
        /\ origin = [a \in Accounts |-> None]
        /\ reg = [t \in Tokens |-> [email |-> None, state |-> "unissued"]]
        /\ req = [r \in Requests |-> Idle]

Begin(r, s) == /\ req[r].pc = "idle"
               /\ req' = [req EXCEPT ![r] = s]
               /\ UNCHANGED <<email, origin, reg>>
Named(field, x) == \E r \in Requests : req[r].pc # "idle" /\ req[r][field] = x

(* SELECT id FROM user WHERE email = ...: deleted users count.  Variant:   *)
(* the answer is not looked at.                                            *)
NeverTaken(e) == FALSE
Taken(e) == \E a \in Accounts : email[a] = e

(* issue_registration; the rate limit may refuse it as well.               *)
Register(r, t, e) ==
  /\ reg[t].state = "unissued" /\ ~Named("token", t)
  /\ ~Taken(e)
  /\ Begin(r, [Idle EXCEPT !.pc = "checked", !.token = t, !.to = e])

(* verify_registration with the right code: nothing marks a registration   *)
(* as used, and the address is not looked up again.                        *)
Verify(r, t) ==
  /\ reg[t].state = "valid"
  /\ Begin(r, [Idle EXCEPT !.pc = "checked", !.op = "VERIFY", !.token = t,
                           !.to = reg[t].email])

(* _get_user_or_404; variant: without the 404.                             *)
NoCheck(a) == TRUE
Exists(a) == email[a] # None

(* update_user with another e-mail address.                                *)
Rename(r, a, e) ==
  /\ Exists(a) /\ email[a] # e
  /\ ~Taken(e)
  /\ Begin(r, [Idle EXCEPT !.pc = "checked", !.op = "RENAME", !.account = a, !.to = e])

(* flush.  A statement that takes an address, or a row, waits for the      *)
(* transactions that have taken it or are about to leave it.               *)
Takes(s) == s.op # "REGISTER"
Waits(r) ==
  \E q \in Requests \ {r} :
    /\ req[q].pc = "flushed" /\ Takes(req[q]) /\ Takes(req[r])
    /\ \/ req[q].to = req[r].to
       \/ req[q].account = req[r].account
       \/ req[q].account # None /\ email[req[q].account] = req[r].to

(* The unique index on user.email; variant: without it.                    *)
NoIndex(s) == FALSE
Violates(s) == Takes(s) /\ \E a \in Accounts \ {s.account} : email[a] = s.to

FlushFails(r) == /\ req[r].pc = "checked" /\ ~Waits(r) /\ Violates(req[r])
                 /\ req' = [req EXCEPT ![r] = Idle] \* IntegrityError: 500
                 /\ UNCHANGED <<email, origin, reg>>

Flush(r) == /\ req[r].pc = "checked" /\ ~Waits(r) /\ ~Violates(req[r])
            /\ \E a \in Accounts :
                 /\ IF req[r].op = "VERIFY" THEN email[a] = None /\ ~Named("account", a)
                    ELSE req[r].account \in {a, None}
                 /\ req' = [req EXCEPT ![r].pc = "flushed",
                                       ![r].account = IF req[r].op = "REGISTER" THEN None ELSE a]
            /\ UNCHANGED <<email, origin, reg>>

(* commit; the code and the welcome are mailed after it.                   *)
Commit(r) ==
  LET s == req[r]
  IN /\ s.pc = "flushed"
     /\ email' = IF Takes(s) THEN [email EXCEPT ![s.account] = s.to] ELSE email
     /\ origin' = IF s.op = "VERIFY" THEN [origin EXCEPT ![s.account] = s.token] ELSE origin
     /\ reg' = IF s.op = "REGISTER"
               THEN [reg EXCEPT ![s.token] = [email |-> s.to, state |-> "valid"]] ELSE reg
     /\ req' = [q \in Requests |->
                  IF q = r THEN Idle ELSE [req[q] EXCEPT !.stale = req[q].pc # "idle"]]

(* The process or the database fails: rolled back.                         *)
Abort(r) == /\ req[r].pc # "idle"
            /\ req' = [req EXCEPT ![r] = Idle]
            /\ UNCHANGED <<email, origin, reg>>

(* REGISTRATION_VERIFICATION_TTL passes.                                   *)
Expire(t) == /\ reg[t].state = "valid"
             /\ reg' = [reg EXCEPT ![t].state = "expired"]
             /\ UNCHANGED <<email, origin, req>>

Next == \/ \E r \in Requests :
             \/ \E t \in Tokens : Verify(r, t) \/ \E e \in Emails : Register(r, t, e)
             \/ \E a \in Accounts, e \in Emails : Rename(r, a, e)
             \/ FlushFails(r) \/ Flush(r) \/ Commit(r) \/ Abort(r)
        \/ \E t \in Tokens : Expire(t)

Spec == Init /\ [][Next]_vars

-----------------------------------------------------------------------------
(* The state is well typed; a registration that has created a user was     *)
(* issued for an address.                                                  *)
TypeOK == /\ email \in [Accounts -> Emails \cup {None}]
          /\ origin \in [Accounts -> Tokens \cup {None}]
          /\ reg \in [Tokens -> [email: Emails \cup {None},
                                 state: {"unissued", "valid", "expired"}]]
          /\ req \in [Requests -> RequestStates]
          /\ \A a \in Accounts :
               /\ (email[a] = None) = (origin[a] = None)
               /\ origin[a] # None => reg[origin[a]].email # None

(* An address belongs to one account at most, however registrations,       *)
(* verifications and changes of the address overlap.                       *)
EmailUnique ==
  \A a, b \in Accounts : (email[a] = email[b] /\ email[a] # None) => a = b

(* An administrator who asks for an address that is taken is told so (400, *)
(* not 500), unless it was taken while the request was running.            *)
ConflictTold ==
  [][\A r \in Requests :
       (FlushFails(r) /\ req[r].op = "RENAME") => req[r].stale]_vars
=============================================================================
