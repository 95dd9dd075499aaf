------------------------- MODULE RegistrationProofs -------------------------
(* Theorems about Registration, for any addresses, registrations, accounts *)
(* and requests.                                                           *)
EXTENDS Registration, TLAPS

(* What is known of a request in flight, besides its type: a registration  *)
(* that it issues is not issued yet, one that it verifies was issued for   *)
(* the address it takes, and an account that it renames exists.            *)
Founded(s) ==
  s.pc # "idle" =>
    /\ s.to \in Emails
    /\ s.op = "REGISTER" => s.token \in Tokens /\ reg[s.token].state = "unissued"
    /\ s.op = "VERIFY" => /\ s.token \in Tokens /\ reg[s.token].state # "unissued"
                          /\ reg[s.token].email = s.to
                          /\ IF s.pc = "flushed" THEN s.account \in Accounts
                             ELSE s.account = None
    /\ s.op = "RENAME" => s.account \in Accounts /\ email[s.account] # None

(* TypeOK is inductive with these: no two requests issue one registration. *)
TokensApart ==
  \A r, q \in Requests :
    (/\ r # q /\ req[r].pc # "idle" /\ req[q].pc # "idle"
     /\ req[r].op = "REGISTER" /\ req[q].op = "REGISTER") => req[r].token # req[q].token
TypeInv == /\ TypeOK
           /\ \A t \in Tokens : reg[t].state # "unissued" => reg[t].email # None
           /\ \A r \in Requests : Founded(req[r])
           /\ TokensApart

(* A request past its flush holds the address and the row it takes: nobody *)
(* else has the address, and no other request past its flush takes either. *)
Holds(s) == s.pc = "flushed" /\ Takes(s)
UniqueInv ==
  /\ EmailUnique
  /\ \A r \in Requests :
       Holds(req[r]) => \A a \in Accounts \ {req[r].account} : email[a] # req[r].to
  /\ \A r, q \in Requests :
       (r # q /\ Holds(req[r]) /\ Holds(req[q]))
         => req[r].to # req[q].to /\ req[r].account # req[q].account

(* A change of address that no other has overtaken sees it free still.     *)
Current(s) ==
  (s.pc # "idle" /\ ~s.stale /\ s.op = "RENAME") => ~Taken(s.to)
FreshInv == \A r \in Requests : Current(req[r])

-----------------------------------------------------------------------------
LEMMA IdleState == Idle \in RequestStates /\ Idle.pc = "idle"
BY DEF Idle, RequestStates

(* Every step that is not a commit or the end of a validity leaves the     *)
(* tables alone and changes one request.                                   *)
LEMMA OneRequest ==
  ASSUME TypeInv, NEW r \in Requests, NEW s \in RequestStates, Founded(s),
         req' = [req EXCEPT ![r] = s], UNCHANGED <<email, origin, reg>>,
         (s.pc # "idle" /\ s.op = "REGISTER") =>
            \A q \in Requests \ {r} : (req[q].pc # "idle" /\ req[q].op = "REGISTER")
                                        => req[q].token # s.token
  PROVE  TypeInv'
<1>1. req' \in [Requests -> RequestStates]
  BY DEF TypeInv, TypeOK
<1>2. TypeOK'
  BY <1>1 DEF TypeInv, TypeOK
<1>3. \A q \in Requests : req'[q] = IF q = r THEN s ELSE req[q]
  BY DEF TypeInv, TypeOK
<1>4. \A q \in Requests : Founded(req[q])'
  BY <1>3 DEF TypeInv, Founded
<1>5. TokensApart'
  BY <1>3 DEF TypeInv, TokensApart
<1> QED BY <1>2, <1>4, <1>5 DEF TypeInv

LEMMA TypeInit == Init => TypeInv
<1> SUFFICES ASSUME Init PROVE TypeInv
  OBVIOUS
<1>1. TypeOK
  BY IdleState DEF Init, TypeOK
<1>2. \A r \in Requests : Founded(req[r])
  BY IdleState DEF Init, Founded
<1> QED BY <1>1, <1>2, IdleState DEF Init, TypeInv, TokensApart

LEMMA CommitType ==
  ASSUME TypeInv, NEW r \in Requests, Commit(r)
  PROVE  TypeInv'
<1> DEFINE s == req[r]
<1>1. s \in RequestStates /\ s.pc = "flushed" /\ Founded(s)
  BY DEF TypeInv, TypeOK, Commit
<1>2. /\ email \in [Accounts -> Emails \cup {None}]
      /\ origin \in [Accounts -> Tokens \cup {None}]
      /\ reg \in [Tokens -> [email: Emails \cup {None},
                             state: {"unissued", "valid", "expired"}]]
  BY DEF TypeInv, TypeOK
<1>3. \A q \in Requests : /\ q = r => req'[q] = Idle
                          /\ q # r => /\ req'[q] \in RequestStates
                                      /\ req'[q].pc = req[q].pc /\ req'[q].op = req[q].op
                                      /\ req'[q].token = req[q].token
                                      /\ req'[q].account = req[q].account
                                      /\ req'[q].to = req[q].to
  <2>1. ASSUME NEW q \in Requests, q # r
        PROVE  /\ req'[q] \in RequestStates
               /\ req'[q].pc = req[q].pc /\ req'[q].op = req[q].op
               /\ req'[q].token = req[q].token /\ req'[q].account = req[q].account
               /\ req'[q].to = req[q].to
    <3>1. req'[q] = [req[q] EXCEPT !.stale = req[q].pc # "idle"] /\ req[q] \in RequestStates
      BY <2>1 DEF Commit, TypeInv, TypeOK
    <3> QED BY <3>1 DEF RequestStates
  <2> QED BY <2>1 DEF Commit
<1>4. req' \in [Requests -> RequestStates]
  BY <1>3, IdleState DEF Commit
<1>5. \A a \in Accounts : email[a] # None => email'[a] # None
  BY <1>1, <1>2, NoneAssumption DEF Commit, Founded, Takes
<1>6. /\ reg' \in [Tokens -> [email: Emails \cup {None},
                              state: {"unissued", "valid", "expired"}]]
      /\ \A t \in Tokens : (reg[t].email # None => reg'[t].email # None)
                           /\ (reg'[t].state # "unissued" => reg'[t].email # None)
                           /\ (reg[t].state # "unissued" => reg'[t] = reg[t])
                           /\ (s.op # "REGISTER" \/ t # s.token => reg'[t] = reg[t])
  BY <1>1, <1>2, NoneAssumption DEF Commit, Founded, TypeInv
<1>7. email' \in [Accounts -> Emails \cup {None}] /\ origin' \in [Accounts -> Tokens \cup {None}]
  BY <1>1, <1>2 DEF Commit, Founded, Takes, RequestStates
<1>8. \A a \in Accounts : /\ (email'[a] = None) = (origin'[a] = None)
                          /\ origin'[a] # None => reg'[origin'[a]].email # None
  <2> TAKE a \in Accounts
  <2>1. (email[a] = None) = (origin[a] = None) /\ (origin[a] # None => reg[origin[a]].email # None)
    BY DEF TypeInv, TypeOK
  <2>2. CASE s.op = "VERIFY"
    <3>1. /\ s.token \in Tokens /\ s.account \in Accounts /\ s.to \in Emails
          /\ reg[s.token].email = s.to /\ reg' = reg
      BY <1>1, <2>2 DEF Founded, Commit
    <3>2. /\ email' = [email EXCEPT ![s.account] = s.to]
          /\ origin' = [origin EXCEPT ![s.account] = s.token]
      BY <2>2 DEF Commit, Takes
    <3> QED BY <1>2, <2>1, <3>1, <3>2, NoneAssumption
  <2>3. CASE s.op = "RENAME"
    <3>1. /\ s.account \in Accounts /\ s.to \in Emails /\ email[s.account] # None
          /\ reg' = reg /\ origin' = origin
      BY <1>1, <2>3 DEF Founded, Commit
    <3>2. email' = [email EXCEPT ![s.account] = s.to]
      BY <2>3 DEF Commit, Takes
    <3> QED BY <1>2, <2>1, <3>1, <3>2, NoneAssumption
  <2>4. CASE s.op = "REGISTER"
    <3>1. email' = email /\ origin' = origin
      BY <2>4 DEF Commit, Takes
    <3> QED BY <1>2, <1>6, <2>1, <3>1
  <2> QED BY <1>1, <2>2, <2>3, <2>4 DEF RequestStates
<1>9. TypeOK'
  BY <1>4, <1>6, <1>7, <1>8 DEF TypeOK
<1>10. ASSUME NEW q \in Requests PROVE Founded(req[q])'
  <2>1. CASE q = r
    BY <1>3, <2>1, IdleState DEF Founded
  <2>2. CASE q # r
    <3>1. Founded(req[q])
      BY DEF TypeInv
    <3>2. (req[q].pc # "idle" /\ req[q].op = "REGISTER" /\ s.op = "REGISTER")
             => req[q].token # s.token
      BY <1>1, <2>2 DEF TypeInv, TokensApart
    <3> QED BY <1>3, <1>5, <1>6, <2>2, <3>1, <3>2 DEF Founded
  <2> QED BY <2>1, <2>2
<1>11. TokensApart'
  BY <1>3, IdleState DEF TypeInv, TokensApart
<1> QED BY <1>6, <1>9, <1>10, <1>11 DEF TypeInv

LEMMA TypeNext == TypeInv /\ [Next]_vars => TypeInv'
<1> SUFFICES ASSUME TypeInv, [Next]_vars PROVE TypeInv'
  OBVIOUS
<1>1. reg \in [Tokens -> [email: Emails \cup {None}, state: {"unissued", "valid", "expired"}]]
      /\ \A t \in Tokens : reg[t].state # "unissued" => reg[t].email \in Emails
  BY DEF TypeInv, TypeOK
<1>2. ASSUME NEW r \in Requests, NEW t \in Tokens, NEW e \in Emails, Register(r, t, e)
      PROVE  TypeInv'
  <2> DEFINE s == [Idle EXCEPT !.pc = "checked", !.token = t, !.to = e]
  <2>1. s \in RequestStates /\ s.pc = "checked" /\ s.op = "REGISTER" /\ s.token = t /\ s.to = e
    BY DEF Idle, RequestStates
  <2>2. /\ reg[t].state = "unissued" /\ ~Named("token", t)
        /\ req' = [req EXCEPT ![r] = s] /\ UNCHANGED <<email, origin, reg>>
    BY <1>2 DEF Register, Begin
  <2>3. Founded(s)
    BY <2>1, <2>2 DEF Founded
  <2>4. \A q \in Requests : req[q].pc # "idle" => req[q].token # t
    BY <2>2 DEF Named
  <2> HIDE DEF s
  <2> QED BY <2>1, <2>2, <2>3, <2>4, OneRequest
<1>3. ASSUME NEW r \in Requests, NEW t \in Tokens, Verify(r, t) PROVE TypeInv'
  <2> DEFINE s == [Idle EXCEPT !.pc = "checked", !.op = "VERIFY", !.token = t,
                               !.to = reg[t].email]
  <2>1. /\ reg[t].state = "valid"
        /\ req' = [req EXCEPT ![r] = s] /\ UNCHANGED <<email, origin, reg>>
    BY <1>3 DEF Verify, Begin
  <2>2. /\ s \in RequestStates /\ s.pc = "checked" /\ s.op = "VERIFY" /\ s.token = t
        /\ s.to = reg[t].email /\ s.to \in Emails /\ s.account = None
    BY <1>1, <2>1 DEF Idle, RequestStates
  <2>3. Founded(s)
    BY <2>1, <2>2 DEF Founded
  <2> HIDE DEF s
  <2> QED BY <2>1, <2>2, <2>3, OneRequest
<1>4. ASSUME NEW r \in Requests, NEW a \in Accounts, NEW e \in Emails, Rename(r, a, e)
      PROVE  TypeInv'
  <2> DEFINE s == [Idle EXCEPT !.pc = "checked", !.op = "RENAME", !.account = a, !.to = e]
  <2>1. /\ email[a] # None
        /\ req' = [req EXCEPT ![r] = s] /\ UNCHANGED <<email, origin, reg>>
    BY <1>4 DEF Rename, Begin, Exists
  <2>2. s \in RequestStates /\ s.pc = "checked" /\ s.op = "RENAME" /\ s.account = a /\ s.to = e
    BY DEF Idle, RequestStates
  <2>3. Founded(s)
    BY <2>1, <2>2 DEF Founded
  <2> HIDE DEF s
  <2> QED BY <2>1, <2>2, <2>3, OneRequest
<1>5. ASSUME NEW r \in Requests, Flush(r) PROVE TypeInv'
  <2>1. PICK a \in Accounts :
          /\ IF req[r].op = "VERIFY" THEN email[a] = None /\ ~Named("account", a)
             ELSE req[r].account \in {a, None}
          /\ req' = [req EXCEPT ![r].pc = "flushed",
                                ![r].account = IF req[r].op = "REGISTER" THEN None ELSE a]
    BY <1>5 DEF Flush
  <2> DEFINE s == [req[r] EXCEPT !.pc = "flushed",
                                 !.account = IF req[r].op = "REGISTER" THEN None ELSE a]
  <2>2. req[r] \in RequestStates /\ req[r].pc = "checked" /\ Founded(req[r])
    BY <1>5 DEF Flush, TypeInv, TypeOK
  <2>3. /\ s \in RequestStates /\ s.pc = "flushed" /\ s.op = req[r].op /\ s.to = req[r].to
        /\ s.token = req[r].token
        /\ s.account = IF req[r].op = "REGISTER" THEN None ELSE a
    BY <2>2 DEF RequestStates
  <2>4. req' = [req EXCEPT ![r] = s] /\ UNCHANGED <<email, origin, reg>>
    BY <1>5, <2>1 DEF Flush
  <2>5. Founded(s)
    BY <2>1, <2>2, <2>3, NoneAssumption DEF Founded
  <2>6. s.op = "REGISTER" =>
           \A q \in Requests \ {r} : (req[q].pc # "idle" /\ req[q].op = "REGISTER")
                                       => req[q].token # s.token
    BY <2>2, <2>3 DEF TypeInv, TokensApart
  <2> HIDE DEF s
  <2> QED BY <2>3, <2>4, <2>5, <2>6, OneRequest
<1>6. ASSUME NEW r \in Requests, FlushFails(r) \/ Abort(r) PROVE TypeInv'
  <2>1. Founded(Idle)
    BY IdleState DEF Founded
  <2> QED BY <1>6, <2>1, IdleState, OneRequest DEF FlushFails, Abort
<1>7. ASSUME NEW r \in Requests, Commit(r) PROVE TypeInv'
  BY <1>7, CommitType
<1>8. ASSUME NEW t \in Tokens, Expire(t) PROVE TypeInv'
  <2>1. /\ \A x \in Tokens : /\ reg'[x].email = reg[x].email
                             /\ reg'[x].state = "unissued" <=> reg[x].state = "unissued"
        /\ reg' \in [Tokens -> [email: Emails \cup {None},
                                state: {"unissued", "valid", "expired"}]]
    BY <1>1, <1>8 DEF Expire
  <2>2. UNCHANGED <<email, origin, req>>
    BY <1>8 DEF Expire
  <2>3. TypeOK'
    BY <2>1, <2>2 DEF TypeInv, TypeOK
  <2>4. \A r \in Requests : Founded(req[r])'
    BY <2>1, <2>2 DEF TypeInv, Founded
  <2> QED BY <2>1, <2>2, <2>3, <2>4 DEF TypeInv, TokensApart
<1>9. CASE UNCHANGED vars
  BY <1>9 DEF vars, TypeInv, TypeOK, Founded, TokensApart
<1> QED BY <1>2, <1>3, <1>4, <1>5, <1>6, <1>7, <1>8, <1>9 DEF Next

(* The tables and the requests keep their type, and whoever has an address *)
(* was created from a registration that was issued for one.                *)
THEOREM RegistrationTyped == Spec => []TypeOK
BY TypeInit, TypeNext, PTL DEF Spec, TypeInv

-----------------------------------------------------------------------------
(* The locks of a flush and the unique index together keep an address with *)
(* one account; a commit writes only what its flush has taken.             *)
LEMMA UniqueCommit ==
  ASSUME TypeInv, UniqueInv, NEW r \in Requests, Commit(r)
  PROVE  UniqueInv'
<1> DEFINE s == req[r]
<1>1. s.pc = "flushed" /\ Founded(s) /\ s \in RequestStates
  BY DEF Commit, TypeInv, TypeOK
<1>2. \A q \in Requests : Holds(req'[q]) => /\ q # r /\ Holds(req[q])
                                            /\ req'[q].to = req[q].to
                                            /\ req'[q].account = req[q].account
  <2> SUFFICES ASSUME NEW q \in Requests, Holds(req'[q])
               PROVE  /\ q # r /\ Holds(req[q])
                      /\ req'[q].to = req[q].to /\ req'[q].account = req[q].account
    OBVIOUS
  <2>1. q # r
    BY IdleState DEF Commit, Holds
  <2>2. req'[q] = [req[q] EXCEPT !.stale = req[q].pc # "idle"] /\ req[q] \in RequestStates
    BY <2>1 DEF Commit, TypeInv, TypeOK
  <2> QED BY <2>1, <2>2 DEF Holds, Takes, RequestStates
<1>3. CASE ~Takes(s)
  <2>1. email' = email
    BY <1>3 DEF Commit
  <2> QED BY <1>2, <2>1 DEF UniqueInv, EmailUnique
<1>4. CASE Takes(s)
  <2>1. /\ s.account \in Accounts /\ s.to \in Emails /\ Holds(s)
        /\ email' = [email EXCEPT ![s.account] = s.to]
        /\ email \in [Accounts -> Emails \cup {None}]
    BY <1>1, <1>4 DEF Commit, Takes, Founded, Holds, RequestStates, TypeInv, TypeOK
  <2>2. \A a \in Accounts : email'[a] = IF a = s.account THEN s.to ELSE email[a]
    BY <2>1
  <2>3. \A a \in Accounts \ {s.account} : email[a] # s.to
    BY <2>1 DEF UniqueInv
  <2>4. EmailUnique'
    BY <2>1, <2>2, <2>3 DEF UniqueInv, EmailUnique
  <2>5. \A q \in Requests : Holds(req'[q]) =>
           \A a \in Accounts \ {req'[q].account} : email'[a] # req'[q].to
    BY <1>2, <2>1, <2>2 DEF UniqueInv
  <2>6. \A p, q \in Requests : (p # q /\ Holds(req'[p]) /\ Holds(req'[q]))
           => req'[p].to # req'[q].to /\ req'[p].account # req'[q].account
    BY <1>2 DEF UniqueInv
  <2> QED BY <2>4, <2>5, <2>6 DEF UniqueInv, Holds, Takes
<1> QED BY <1>3, <1>4

LEMMA UniqueFlush ==
  ASSUME TypeInv, UniqueInv, NEW r \in Requests, Flush(r)
  PROVE  UniqueInv'
<1> DEFINE s == req[r]
<1>1. s.pc = "checked" /\ ~Waits(r) /\ ~Violates(s) /\ UNCHANGED <<email, origin, reg>>
  BY DEF Flush
<1>2. PICK a \in Accounts :
        /\ IF s.op = "VERIFY" THEN email[a] = None /\ ~Named("account", a)
           ELSE s.account \in {a, None}
        /\ req' = [req EXCEPT ![r].pc = "flushed",
                              ![r].account = IF s.op = "REGISTER" THEN None ELSE a]
  BY DEF Flush
<1>3. s \in RequestStates /\ Founded(s) /\ req \in [Requests -> RequestStates]
  BY DEF TypeInv, TypeOK
<1>4. \A q \in Requests : q # r => req'[q] = req[q]
  BY <1>2, <1>3
<1>5. /\ req'[r].op = s.op /\ req'[r].to = s.to
      /\ Takes(s) => req'[r].account = a
  BY <1>2, <1>3 DEF RequestStates, Takes
<1>6. Takes(s) => \A b \in Accounts \ {a} : email[b] # s.to
  <2>1. CASE s.op = "RENAME"
    <3>1. s.account = a
      BY <1>1, <1>2, <1>3, <2>1, NoneAssumption DEF Founded
    <3> QED BY <1>1, <3>1 DEF Violates
  <2>2. CASE s.op = "VERIFY"
    <3>1. email[a] = None /\ s.to # None
      BY <1>1, <1>2, <1>3, <2>2, NoneAssumption DEF Founded
    <3>2. \A b \in Accounts \ {s.account} : Takes(s) => email[b] # s.to
      BY <1>1 DEF Violates
    <3>3. s.account = None
      BY <1>1, <1>3, <2>2 DEF Founded
    <3> QED BY <3>1, <3>2, <3>3, NoneAssumption
  <2> QED BY <1>3, <2>1, <2>2 DEF Takes, RequestStates
<1>7. \A q \in Requests \ {r} : Holds(req[q]) /\ Takes(s) =>
         req[q].to # s.to /\ req[q].account # a
  <2> SUFFICES ASSUME NEW q \in Requests \ {r}, Holds(req[q]), Takes(s)
               PROVE  req[q].to # s.to /\ req[q].account # a
    OBVIOUS
  <2>1. req[q].to # s.to /\ req[q].account # s.account
    BY <1>1 DEF Waits, Holds
  <2>2. CASE s.op = "VERIFY"
    BY <1>2, <2>1, <2>2 DEF Named, Holds
  <2>3. CASE s.op = "RENAME"
    <3>1. s.account = a
      BY <1>1, <1>2, <1>3, <2>3, NoneAssumption DEF Founded
    <3> QED BY <2>1, <3>1
  <2> QED BY <1>3, <2>2, <2>3 DEF Takes, RequestStates
<1>8. EmailUnique'
  BY <1>1 DEF UniqueInv, EmailUnique
<1>9. \A q \in Requests : Holds(req'[q]) =>
         \A b \in Accounts \ {req'[q].account} : email'[b] # req'[q].to
  BY <1>1, <1>4, <1>5, <1>6 DEF UniqueInv, Holds, Takes
<1>10. \A p, q \in Requests : (p # q /\ Holds(req'[p]) /\ Holds(req'[q]))
          => req'[p].to # req'[q].to /\ req'[p].account # req'[q].account
  <2>1. \A q \in Requests : q # r => (Holds(req'[q]) <=> Holds(req[q]))
    BY <1>4
  <2>2. Holds(req'[r]) => Takes(s)
    BY <1>5 DEF Holds, Takes
  <2> QED BY <1>4, <1>5, <1>7, <2>1, <2>2 DEF UniqueInv
<1> QED BY <1>8, <1>9, <1>10 DEF UniqueInv, Holds, Takes

LEMMA UniqueNext == TypeInv /\ UniqueInv /\ [Next]_vars => UniqueInv'
<1> SUFFICES ASSUME TypeInv, UniqueInv, [Next]_vars PROVE UniqueInv'
  OBVIOUS
<1>1. ASSUME email' = email, \A q \in Requests : Holds(req'[q]) => req'[q] = req[q]
      PROVE  UniqueInv'
  BY <1>1 DEF UniqueInv, EmailUnique, Holds, Takes
<1>2. ASSUME NEW r \in Requests, NEW s, s.pc = "checked", Begin(r, s) PROVE UniqueInv'
  <2>1. \A q \in Requests : q # r => req'[q] = req[q]
    BY <1>2 DEF Begin, TypeInv, TypeOK
  <2>2. ~Holds(req'[r]) /\ email' = email
    BY <1>2 DEF Begin, Holds, TypeInv, TypeOK
  <2> QED BY <1>1, <2>1, <2>2
<1>3. ASSUME NEW r \in Requests, NEW t \in Tokens, Verify(r, t) PROVE UniqueInv'
  BY <1>2, <1>3 DEF Verify, Idle
<1>4. ASSUME NEW r \in Requests, NEW t \in Tokens, NEW e \in Emails, Register(r, t, e)
      PROVE  UniqueInv'
  BY <1>2, <1>4 DEF Register, Idle
<1>5. ASSUME NEW r \in Requests, NEW a \in Accounts, NEW e \in Emails, Rename(r, a, e)
      PROVE  UniqueInv'
  BY <1>2, <1>5 DEF Rename, Idle
<1>6. ASSUME NEW r \in Requests, FlushFails(r) \/ Abort(r) PROVE UniqueInv'
  <2>1. \A q \in Requests : q # r => req'[q] = req[q]
    BY <1>6 DEF FlushFails, Abort, TypeInv, TypeOK
  <2>2. ~Holds(req'[r]) /\ email' = email
    BY <1>6, IdleState DEF FlushFails, Abort, Holds, TypeInv, TypeOK
  <2> QED BY <1>1, <2>1, <2>2
<1>7. ASSUME NEW r \in Requests, Flush(r) PROVE UniqueInv'
  BY <1>7, UniqueFlush
<1>8. ASSUME NEW r \in Requests, Commit(r) PROVE UniqueInv'
  BY <1>8, UniqueCommit
<1>9. ASSUME NEW t \in Tokens, Expire(t) PROVE UniqueInv'
  BY <1>1, <1>9 DEF Expire
<1>10. CASE UNCHANGED vars
  BY <1>1, <1>10 DEF vars
<1> QED BY <1>3, <1>4, <1>5, <1>6, <1>7, <1>8, <1>9, <1>10 DEF Next

LEMMA UniqueInit == Init => UniqueInv
BY IdleState, NoneAssumption DEF Init, UniqueInv, EmailUnique, Holds

LEMMA UniqueInvariant == Spec => [](TypeInv /\ UniqueInv)
BY TypeInit, TypeNext, UniqueInit, UniqueNext, PTL DEF Spec

(* An address belongs to one account at most.                              *)
THEOREM EmailsAreUnique == Spec => []EmailUnique
BY UniqueInvariant, PTL DEF UniqueInv

-----------------------------------------------------------------------------
LEMMA FreshNext == TypeInv /\ FreshInv /\ [Next]_vars => FreshInv'
<1> SUFFICES ASSUME TypeInv, FreshInv, [Next]_vars, NEW q \in Requests PROVE Current(req[q])'
  BY DEF FreshInv
<1>1. ASSUME req'[q] = req[q], email' = email PROVE Current(req[q])'
  BY <1>1 DEF FreshInv, Current, Taken
<1>2. ASSUME NEW r \in Requests, NEW s, Begin(r, s),
             s.op = "RENAME" => ~Taken(s.to) PROVE Current(req[q])'
  <2>1. CASE q # r
    BY <1>1, <1>2, <2>1 DEF Begin
  <2>2. CASE q = r
    <3>1. req'[q] = s /\ email' = email
      BY <1>2, <2>2 DEF Begin, TypeInv, TypeOK
    <3> QED BY <1>2, <3>1 DEF Current, Taken
  <2> QED BY <2>1, <2>2
<1>3. ASSUME NEW r \in Requests, NEW t \in Tokens, Verify(r, t) PROVE Current(req[q])'
  BY <1>2, <1>3 DEF Verify, Idle
<1>4. ASSUME NEW r \in Requests, NEW t \in Tokens, NEW e \in Emails, Register(r, t, e)
      PROVE  Current(req[q])'
  BY <1>2, <1>4 DEF Register, Idle
<1>5. ASSUME NEW r \in Requests, NEW a \in Accounts, NEW e \in Emails, Rename(r, a, e)
      PROVE  Current(req[q])'
  BY <1>2, <1>5 DEF Rename, Idle
<1>6. ASSUME NEW r \in Requests, FlushFails(r) \/ Abort(r) PROVE Current(req[q])'
  <2>1. email' = email /\ (q # r => req'[q] = req[q]) /\ (q = r => req'[q] = Idle)
    BY <1>6 DEF FlushFails, Abort, TypeInv, TypeOK
  <2> QED BY <1>1, <2>1, IdleState DEF Current
<1>7. ASSUME NEW r \in Requests, Flush(r) PROVE Current(req[q])'
  <2>1. email' = email /\ (q # r => req'[q] = req[q])
    BY <1>7 DEF Flush, TypeInv, TypeOK
  <2>2. CASE q = r
    <3>1. PICK x : req' = [req EXCEPT ![r].pc = "flushed", ![r].account = x]
      BY <1>7 DEF Flush
    <3>2. /\ req'[q].op = req[q].op /\ req'[q].to = req[q].to /\ req'[q].stale = req[q].stale
          /\ req[q].pc # "idle"
      BY <1>7, <2>2, <3>1 DEF Flush, TypeInv, TypeOK, RequestStates
    <3> QED BY <2>1, <3>2 DEF FreshInv, Current, Taken
  <2> QED BY <1>1, <2>1, <2>2
<1>8. ASSUME NEW r \in Requests, Commit(r) PROVE Current(req[q])'
  <2>1. CASE q = r
    BY <1>8, <2>1, IdleState DEF Commit, Current
  <2>2. CASE q # r
    <3>1. req'[q] = [req[q] EXCEPT !.stale = req[q].pc # "idle"] /\ req[q] \in RequestStates
      BY <1>8, <2>2 DEF Commit, TypeInv, TypeOK
    <3>2. req'[q].pc = req[q].pc /\ (req'[q].stale <=> req[q].pc # "idle")
      BY <3>1 DEF RequestStates
    <3> QED BY <3>2 DEF Current
  <2> QED BY <2>1, <2>2
<1>9. ASSUME NEW t \in Tokens, Expire(t) PROVE Current(req[q])'
  BY <1>1, <1>9 DEF Expire
<1>10. CASE UNCHANGED vars
  BY <1>1, <1>10 DEF vars
<1> QED BY <1>3, <1>4, <1>5, <1>6, <1>7, <1>8, <1>9, <1>10 DEF Next

LEMMA FreshInvariant == Spec => [](TypeInv /\ FreshInv)
<1>1. Init => FreshInv
  BY IdleState DEF Init, FreshInv, Current
<1> QED BY <1>1, TypeInit, TypeNext, FreshNext, PTL DEF Spec

(* The index refuses a change of address only when the address was taken   *)
(* while the request was running.                                          *)
THEOREM ConflictsAreTold == Spec => ConflictTold
<1>1. TypeInv /\ FreshInv =>
        [\A r \in Requests : (FlushFails(r) /\ req[r].op = "RENAME") => req[r].stale]_vars
  BY DEF FreshInv, Current, FlushFails, Violates, Taken
<1> QED BY <1>1, FreshInvariant, PTL DEF ConflictTold
=============================================================================
