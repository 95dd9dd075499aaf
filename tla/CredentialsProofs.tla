------------------------- MODULE CredentialsProofs -------------------------
(* Theorems about Credentials, for any passwords, recovery tokens and      *)
(* requests.                                                               *)
EXTENDS Credentials, FiniteSetTheorems, TLAPS

LEMMA FirstPasswordChosen == FirstPassword \in Passwords
BY CredentialsAssumption DEF FirstPassword

(* TypeOK of one request.                                                  *)
RequestSound(s) ==
  /\ s \in RequestStates
  /\ (s.tokens # {}) = (s.op \in {"ISSUE", "SUBMIT"})
  /\ s.seen.deleted => s.op \in {"SUBMIT", "DELETE", "UPDATE"}

LEMMA TypeOKIs ==
  TypeOK <=> /\ account \in Accounts
             /\ tokens \in [Tokens -> {"unissued", "valid", "expired", "used"}]
             /\ sessions \subseteq Passwords
             /\ req \in [Requests -> RequestStates]
             /\ uses \in [Tokens -> Nat]
             /\ \A r \in Requests : RequestSound(req[r])
BY DEF TypeOK, RequestSound

LEMMA IdleSound == RequestSound(Idle) /\ Idle.pc = "idle" /\ ~Idle.stale
BY FirstPasswordChosen DEF Idle, RequestSound, RequestStates, Ops

(* A step that changes one request, into a sound one.                      *)
LEMMA OneRequestSound ==
  ASSUME TypeOK, NEW r \in Requests, NEW s, RequestSound(s), req' = [req EXCEPT ![r] = s]
  PROVE  req' \in [Requests -> RequestStates] /\ \A q \in Requests : RequestSound(req'[q])
BY TypeOKIs DEF RequestSound

(* What Begin records was let through by the checks of the handler.        *)
LEMMA BeginSound ==
  ASSUME TypeOK, NEW r \in Requests, NEW op \in Ops, NEW p \in Passwords,
         NEW T \in SUBSET Tokens, Begin(r, op, p, T)
  PROVE  RequestSound(req'[r])
<1>1. req'[r] = [pc |-> "loaded", op |-> op, password |-> p, tokens |-> T,
                 seen |-> [outdated |-> account.outdated, deleted |-> account.deleted],
                 stale |-> FALSE]
  BY DEF Begin, TypeOK
<1>2. account.outdated \in BOOLEAN /\ account.deleted \in BOOLEAN
  BY DEF TypeOK, Accounts
<1>3. req'[r] \in RequestStates
  BY <1>1, <1>2 DEF RequestStates
<1>4. (T # {}) = (op \in {"ISSUE", "SUBMIT"})
  BY DEF Begin
<1>5. account.deleted => op \in {"SUBMIT", "DELETE", "UPDATE"}
  BY DEF Begin, Accepted, Identified, SessionFound, Ops
<1> QED BY <1>1, <1>3, <1>4, <1>5 DEF RequestSound

LEMMA TypeOKInit == Init => TypeOK
<1> SUFFICES ASSUME Init PROVE TypeOK
  OBVIOUS
<1>1. account \in Accounts
  BY FirstPasswordChosen DEF Init, Accounts
<1>2. req = [r \in Requests |-> Idle] /\ Idle \in RequestStates
  BY IdleSound DEF Init, RequestSound
<1>3. uses \in [Tokens -> Nat] /\ sessions \subseteq Passwords
      /\ tokens \in [Tokens -> {"unissued", "valid", "expired", "used"}]
  BY DEF Init
<1> QED BY <1>1, <1>2, <1>3, IdleSound DEF TypeOK, RequestSound

LEMMA CommitSound ==
  ASSUME TypeOK, NEW r \in Requests, Commit(r)
  PROVE  TypeOK'
<1> DEFINE s == req[r]
<1>1. RequestSound(s)
  BY TypeOKIs
<1>2. account' \in Accounts
  <2>1. /\ s.password \in Passwords /\ s.seen.deleted \in BOOLEAN
        /\ account.password \in Passwords /\ account.outdated \in BOOLEAN
        /\ account.deleted \in BOOLEAN
    BY <1>1 DEF TypeOK, Accounts, RequestSound, RequestStates
  <2>2. SetsPassword(s) \in BOOLEAN /\ Undeletes(s) \in BOOLEAN
    BY DEF SetsPassword, Undeletes
  <2> QED BY <2>1, <2>2 DEF Commit, Accounts
<1>3. tokens' \in [Tokens -> {"unissued", "valid", "expired", "used"}]
  BY DEF Commit, TypeOK, TokenAfter
<1>4. sessions' \subseteq Passwords
  BY <1>1 DEF Commit, TypeOK, RequestSound, RequestStates
<1>5. ASSUME NEW q \in Requests PROVE RequestSound(req'[q])
  <2>1. CASE q = r
    BY <2>1, IdleSound DEF Commit
  <2>2. CASE q # r
    <3>1. req'[q] = [req[q] EXCEPT !.stale = req[q].pc # "idle"] /\ RequestSound(req[q])
      BY <2>2, TypeOKIs DEF Commit
    <3> QED BY <3>1 DEF RequestSound, RequestStates
  <2> QED BY <2>1, <2>2
<1>6. req' \in [Requests -> RequestStates]
  BY <1>5 DEF Commit, RequestSound
<1>7. uses' \in [Tokens -> Nat]
  BY DEF Commit, TypeOK
<1> QED BY <1>2, <1>3, <1>4, <1>5, <1>6, <1>7 DEF TypeOK, RequestSound

LEMMA TypeOKNext == TypeOK /\ [Next]_vars => TypeOK'
<1> SUFFICES ASSUME TypeOK, [Next]_vars PROVE TypeOK'
  OBVIOUS
<1>1. ASSUME NEW r \in Requests, NEW s, RequestSound(s), req' = [req EXCEPT ![r] = s],
             UNCHANGED <<account, tokens, sessions, uses>>
      PROVE  TypeOK'
  <2>1. req' \in [Requests -> RequestStates] /\ \A q \in Requests : RequestSound(req'[q])
    BY <1>1, OneRequestSound
  <2> QED BY <1>1, <2>1 DEF TypeOK, RequestSound
<1>2. ASSUME NEW r \in Requests, NEW op \in Ops, NEW p \in Passwords,
             NEW T \in SUBSET Tokens, Begin(r, op, p, T)
      PROVE  TypeOK'
  <2>1. RequestSound(req'[r])
    BY <1>2, BeginSound
  <2>2. req' = [req EXCEPT ![r] = req'[r]] /\ UNCHANGED <<account, tokens, sessions, uses>>
    BY <1>2 DEF Begin, TypeOK
  <2> QED BY <1>1, <2>1, <2>2
<1>3. ASSUME NEW r \in Requests, Flush(r) PROVE TypeOK'
  <2> DEFINE s == [req[r] EXCEPT !.pc = "flushed"]
  <2>1. RequestSound(s)
    BY TypeOKIs DEF RequestSound, RequestStates
  <2>2. req' = [req EXCEPT ![r] = s] /\ UNCHANGED <<account, tokens, sessions, uses>>
    BY <1>3 DEF Flush
  <2> QED BY <1>1, <2>1, <2>2
<1>4. ASSUME NEW r \in Requests, Commit(r) PROVE TypeOK'
  BY <1>4, CommitSound
<1>5. ASSUME NEW r \in Requests, Abort(r) PROVE TypeOK'
  BY <1>1, <1>5, IdleSound DEF Abort
<1>6. ASSUME NEW t \in Tokens, Expire(t) PROVE TypeOK'
  BY <1>6 DEF Expire, TypeOK
<1>7. CASE UNCHANGED vars
  BY <1>7 DEF vars, TypeOK
<1> QED BY <1>2, <1>3, <1>4, <1>5, <1>6, <1>7 DEF Next

(* Types, and what the handlers let through: one token for a recovery, and *)
(* a deleted account only where deleted_at is not looked at.               *)
THEOREM CredentialsTyped == Spec => []TypeOK
BY TypeOKInit, TypeOKNext, PTL DEF Spec

-----------------------------------------------------------------------------
(* A request that no other has overtaken still sees what it has checked:   *)
(* every commit makes the others stale.                                    *)
Current(s) ==
  s.pc # "idle" /\ ~s.stale =>
    /\ s.op = "LOGIN" => ~account.deleted /\ s.password = account.password
    /\ s.op = "USE" => ~account.deleted
FreshInv == \A r \in Requests : Current(req[r])

LEMMA FreshNext == TypeOK /\ FreshInv /\ [Next]_vars => FreshInv'
<1> SUFFICES ASSUME TypeOK, FreshInv, [Next]_vars, NEW q \in Requests
             PROVE  Current(req[q])'
  BY DEF FreshInv
<1>1. CASE req'[q] = req[q] /\ UNCHANGED account
  BY <1>1 DEF FreshInv, Current
<1>2. CASE req'[q].pc = "idle"
  BY <1>2 DEF Current
<1>3. ASSUME NEW r \in Requests, NEW op \in Ops, NEW p \in Passwords,
             NEW T \in SUBSET Tokens, Begin(r, op, p, T)
      PROVE  Current(req[q])'
  <2>1. CASE q # r
    BY <1>1, <1>3, <2>1 DEF Begin
  <2>2. CASE q = r
    <3>1. /\ req'[q].op = op /\ req'[q].password = p 
          /\ UNCHANGED account
      BY <1>3, <2>2 DEF Begin, TypeOK
    <3>2. Accepted(op, p, T)
      BY <1>3 DEF Begin
    <3>3. op = "LOGIN" => ~account.deleted /\ p = account.password
      BY <3>2 DEF Accepted, Identified, Verified
    <3>4. op = "USE" => ~account.deleted
      BY <3>2 DEF Accepted, SessionFound
    <3> QED BY <3>1, <3>3, <3>4 DEF Current
  <2> QED BY <2>1, <2>2
<1>4. ASSUME NEW r \in Requests, Flush(r) PROVE Current(req[q])'
  <2>1. CASE q # r
    BY <1>1, <1>4, <2>1 DEF Flush
  <2>2. CASE q = r
    <3>1. /\ req'[q] = [req[q] EXCEPT !.pc = "flushed"] /\ req[q].pc = "loaded"
          /\ req[q] \in RequestStates /\ UNCHANGED account
      BY <1>4, <2>2 DEF Flush, TypeOK
    <3> QED BY <3>1 DEF FreshInv, Current, RequestStates
  <2> QED BY <2>1, <2>2
<1>5. ASSUME NEW r \in Requests, Commit(r) PROVE Current(req[q])'
  <2>1. CASE q = r
    BY <1>2, <1>5, <2>1, IdleSound DEF Commit
  <2>2. CASE q # r
    <3>1. req'[q] = [req[q] EXCEPT !.stale = req[q].pc # "idle"] /\ req[q] \in RequestStates
      BY <1>5, <2>2 DEF Commit, TypeOK
    <3>2. req'[q].pc = req[q].pc /\ (req'[q].stale <=> req[q].pc # "idle")
      BY <3>1 DEF RequestStates
    <3> QED BY <3>2 DEF Current
  <2> QED BY <2>1, <2>2
<1>6. ASSUME NEW r \in Requests, Abort(r) PROVE Current(req[q])'
  BY <1>1, <1>2, <1>6, IdleSound DEF Abort, TypeOK
<1>7. ASSUME NEW t \in Tokens, Expire(t) PROVE Current(req[q])'
  BY <1>1, <1>7 DEF Expire
<1>8. CASE UNCHANGED vars
  BY <1>1, <1>8 DEF vars
<1> QED BY <1>3, <1>4, <1>5, <1>6, <1>7, <1>8 DEF Next

LEMMA FreshInvariant == Spec => [](TypeOK /\ FreshInv)
<1>1. Init => FreshInv
  BY IdleSound DEF Init, FreshInv, Current
<1> QED BY <1>1, TypeOKInit, TypeOKNext, FreshNext, PTL DEF Spec

(* Only a commit changes the account, and only by what its request writes. *)
LEMMA AccountStep ==
  ASSUME [Next]_vars, account' # account
  PROVE  \E r \in Requests :
           /\ Commit(r)
           /\ account'.password # account.password =>
                SetsPassword(req[r]) /\ account'.password = req[r].password
<1>1. PICK r \in Requests : Commit(r)
  BY DEF Next, Begin, Flush, Abort, Expire, vars
<1>2. account' = [password |-> IF SetsPassword(req[r]) THEN req[r].password ELSE account.password,
                  outdated |-> account.outdated /\ ~SetsPassword(req[r]),
                  deleted |-> (account.deleted /\ ~Undeletes(req[r])) \/ req[r].op = "DELETE"]
  BY <1>1 DEF Commit
<1> QED BY <1>1, <1>2

(* A password changes only on demand, or by the rehash of a login that the *)
(* demanded change overtook.                                               *)
THEOREM PasswordsAreKept == Spec => PasswordKept
<1>1. TypeOK /\ FreshInv /\ [Next]_vars =>
        [account'.password # account.password
           => \E r \in Requests : /\ Commit(r)
                                  /\ \/ req[r].op \in {"SUBMIT", "RESET"}
                                     \/ req[r].op = "LOGIN" /\ req[r].stale]_vars
  <2> SUFFICES ASSUME TypeOK, FreshInv, [Next]_vars, account'.password # account.password
               PROVE  \E r \in Requests : /\ Commit(r)
                                          /\ \/ req[r].op \in {"SUBMIT", "RESET"}
                                             \/ req[r].op = "LOGIN" /\ req[r].stale
    OBVIOUS
  <2>1. PICK r \in Requests : /\ Commit(r) /\ SetsPassword(req[r])
                              /\ account'.password = req[r].password
    BY AccountStep
  <2>2. req[r].pc = "flushed"
    BY <2>1 DEF Commit
  <2>3. CASE req[r].op = "LOGIN"
    BY <2>1, <2>2, <2>3 DEF FreshInv, Current
  <2>4. CASE req[r].op # "LOGIN"
    BY <2>1, <2>4 DEF SetsPassword
  <2> QED BY <2>1, <2>3, <2>4
<1> QED BY <1>1, FreshInvariant, PTL DEF Spec, PasswordKept

(* Login and the use of a session are decided on the account as it is,     *)
(* unless it changed while the request was running.                        *)
THEOREM LoginsAreCurrent == Spec => LoginCurrent
<1>1. FreshInv =>
        [\A r \in Requests :
           (Commit(r) /\ req[r].op \in {"LOGIN", "USE"} /\ ~req[r].stale) =>
              /\ ~account.deleted
              /\ req[r].op = "LOGIN" => account.password = req[r].password]_vars
  BY DEF FreshInv, Current, Commit
<1> QED BY <1>1, FreshInvariant, PTL DEF LoginCurrent

-----------------------------------------------------------------------------
(* The passwords a token has set and those it may still set: a token is    *)
(* taken up only before its first use, so by no more requests than there   *)
(* are, and a token being issued is nobody else's.                         *)
Submits(t) == {r \in Requests : req[r].op = "SUBMIT" /\ t \in req[r].tokens}
Counted(t) == /\ tokens[t] # "used" => uses[t] = 0
              /\ uses[t] + Cardinality(Submits(t)) <= Cardinality(Requests)
NewToken(r, t) == /\ tokens[t] = "unissued"
                  /\ \A q \in Requests \ {r} : t \notin req[q].tokens
UsesInv == /\ \A t \in Tokens : Counted(t)
           /\ \A r \in Requests : \A t \in req[r].tokens :
                req[r].op = "ISSUE" => NewToken(r, t)

LEMMA SubmitsAre ==
  ASSUME NEW t
  PROVE  /\ Cardinality(Requests) \in Nat
         /\ IsFiniteSet(Submits(t)) /\ Cardinality(Submits(t)) \in Nat
         /\ IsFiniteSet(Submits(t)') /\ Cardinality(Submits(t)') \in Nat
         /\ Cardinality(Submits(t)') <= Cardinality(Requests)
         /\ Submits(t)' \subseteq Submits(t)
              => Cardinality(Submits(t)') <= Cardinality(Submits(t))
         /\ \A r \in Submits(t) : Submits(t)' \subseteq Submits(t) \ {r}
              => Cardinality(Submits(t)') + 1 <= Cardinality(Submits(t))
<1>1. IsFiniteSet(Requests)
  BY CredentialsAssumption
<1>2. Submits(t) \subseteq Requests /\ Submits(t)' \subseteq Requests
  BY DEF Submits
<1>3. IsFiniteSet(Submits(t)) /\ IsFiniteSet(Submits(t)')
      /\ Cardinality(Submits(t)') <= Cardinality(Requests)
  BY <1>1, <1>2, FS_Subset
<1>4. /\ Cardinality(Requests) \in Nat /\ Cardinality(Submits(t)) \in Nat
      /\ Cardinality(Submits(t)') \in Nat
  BY <1>1, <1>3, FS_CardinalityType
<1>5. Submits(t)' \subseteq Submits(t) => Cardinality(Submits(t)') <= Cardinality(Submits(t))
  BY <1>3, FS_Subset
<1>6. ASSUME NEW r \in Submits(t), Submits(t)' \subseteq Submits(t) \ {r}
      PROVE  Cardinality(Submits(t)') + 1 <= Cardinality(Submits(t))
  <2>1. IsFiniteSet(Submits(t) \ {r})
        /\ Cardinality(Submits(t) \ {r}) = Cardinality(Submits(t)) - 1
    BY <1>3, FS_RemoveElement
  <2>2. Cardinality(Submits(t)') <= Cardinality(Submits(t) \ {r})
    BY <1>6, <2>1, FS_Subset
  <2> QED BY <1>4, <2>1, <2>2
<1> QED BY <1>3, <1>4, <1>5, <1>6

(* Steps that leave tokens alone and take up none.                         *)
LEMMA UsesKept ==
  ASSUME TypeOK, UsesInv, UNCHANGED <<tokens, uses>>,
         \A q \in Requests : \/ /\ req'[q].op = req[q].op
                                /\ req'[q].tokens = req[q].tokens
                             \/ req'[q].tokens = {}
  PROVE  UsesInv'
<1>1. ASSUME NEW t \in Tokens PROVE Counted(t)'
  <2>1. Submits(t)' \subseteq Submits(t)
    BY DEF Submits
  <2>2. Cardinality(Submits(t)') <= Cardinality(Submits(t))
    BY <2>1, SubmitsAre
  <2>3. uses[t] \in Nat
    BY DEF TypeOK
  <2> QED BY <2>2, <2>3, SubmitsAre DEF UsesInv, Counted
<1> QED BY <1>1 DEF UsesInv, NewToken

LEMMA UsesBegin ==
  ASSUME TypeOK, UsesInv, NEW r \in Requests, NEW op \in Ops, NEW p \in Passwords,
         NEW T \in SUBSET Tokens, Begin(r, op, p, T)
  PROVE  UsesInv'
<1>1. /\ req'[r].op = op /\ req'[r].tokens = T
      /\ \A q \in Requests \ {r} : req'[q] = req[q]
      /\ UNCHANGED <<tokens, uses>>
  BY DEF Begin, TypeOK
<1>2. op = "SUBMIT" => \A t \in T : tokens[t] = "valid"
  BY DEF Begin, Accepted, Usable
<1>3. op = "ISSUE" => \A t \in T : Fresh(t)
  BY DEF Begin, Accepted
<1>4. T # {} => op \in {"ISSUE", "SUBMIT"}
  BY DEF Begin
<1>5. ASSUME NEW t \in Tokens PROVE Counted(t)'
  <2>1. uses[t] \in Nat
    BY DEF TypeOK
  <2>2. CASE op = "SUBMIT" /\ t \in T
    BY <1>1, <1>2, <2>1, <2>2, SubmitsAre DEF UsesInv, Counted
  <2>3. CASE ~(op = "SUBMIT" /\ t \in T)
    <3>1. Submits(t)' \subseteq Submits(t)
      BY <1>1, <2>3 DEF Submits
    <3>2. Cardinality(Submits(t)') <= Cardinality(Submits(t))
      BY <3>1, SubmitsAre
    <3> QED BY <1>1, <2>1, <3>2, SubmitsAre DEF UsesInv, Counted
  <2> QED BY <2>2, <2>3
<1>6. ASSUME NEW q \in Requests, NEW t \in req'[q].tokens, req'[q].op = "ISSUE"
      PROVE  NewToken(q, t)'
  <2>1. CASE q = r
    BY <1>1, <1>3, <1>6, <2>1 DEF NewToken, Fresh
  <2>2. CASE q # r
    <3>1. NewToken(q, t)
      BY <1>1, <1>6, <2>2 DEF UsesInv
    <3>2. t \notin T
      BY <1>1, <1>2, <1>3, <1>4, <1>6, <2>2, <3>1 DEF NewToken, Fresh
    <3> QED BY <1>1, <3>1, <3>2 DEF NewToken
  <2> QED BY <2>1, <2>2
<1> QED BY <1>5, <1>6 DEF UsesInv

LEMMA UsesCommit ==
  ASSUME TypeOK, UsesInv, NEW r \in Requests, Commit(r)
  PROVE  UsesInv'
<1> DEFINE s == req[r]
<1>1. /\ \A t \in Tokens : tokens'[t] = IF t \in s.tokens THEN TokenAfter(s, t) ELSE tokens[t]
      /\ \A t \in Tokens : uses'[t] = IF s.op = "SUBMIT" /\ t \in s.tokens
                                     THEN uses[t] + 1 ELSE uses[t]
  BY DEF Commit
<1>2. /\ req'[r].op = "LOGIN" /\ req'[r].tokens = {}
      /\ \A q \in Requests \ {r} : req'[q].op = req[q].op /\ req'[q].tokens = req[q].tokens
  <2>1. ASSUME NEW q \in Requests \ {r}
        PROVE  req'[q].op = req[q].op /\ req'[q].tokens = req[q].tokens
    <3>1. req'[q] = [req[q] EXCEPT !.stale = req[q].pc # "idle"] /\ req[q] \in RequestStates
      BY DEF Commit, TypeOK
    <3> QED BY <3>1 DEF RequestStates
  <2> QED BY <2>1 DEF Commit, Idle
<1>3. s.tokens \subseteq Tokens /\ (s.tokens # {} => s.op \in {"ISSUE", "SUBMIT"})
      /\ \A q \in Requests : req[q].tokens \subseteq Tokens
  BY DEF TypeOK, RequestStates
<1>4. ASSUME NEW t \in Tokens PROVE Counted(t)'
  <2>1. uses[t] \in Nat /\ Counted(t)
    BY DEF TypeOK, UsesInv
  <2>2. Submits(t)' \subseteq Submits(t)
    BY <1>2 DEF Submits
  <2>3. CASE t \in s.tokens /\ s.op = "SUBMIT"
    <3>1. r \in Submits(t) /\ Submits(t)' \subseteq Submits(t) \ {r}
      BY <1>2, <2>2, <2>3 DEF Submits
    <3>2. Cardinality(Submits(t)') + 1 <= Cardinality(Submits(t))
      BY <3>1, SubmitsAre
    <3>3. tokens'[t] = "used" /\ uses'[t] = uses[t] + 1
      BY <1>1, <2>3 DEF TokenAfter
    <3> QED BY <2>1, <3>2, <3>3, SubmitsAre DEF Counted
  <2>4. CASE ~(t \in s.tokens /\ s.op = "SUBMIT")
    <3>1. uses'[t] = uses[t]
      BY <1>1, <2>4
    <3>2. tokens'[t] # "used" => uses[t] = 0
      <4>1. CASE t \in s.tokens
        BY <1>3, <2>1, <2>4, <4>1 DEF UsesInv, NewToken, Counted
      <4>2. CASE t \notin s.tokens
        BY <1>1, <2>1, <4>2 DEF Counted
      <4> QED BY <4>1, <4>2
    <3>3. Cardinality(Submits(t)') <= Cardinality(Submits(t))
      BY <2>2, SubmitsAre
    <3> QED BY <2>1, <3>1, <3>2, <3>3, SubmitsAre DEF Counted
  <2> QED BY <2>3, <2>4
<1>5. ASSUME NEW q \in Requests, NEW t \in req'[q].tokens, req'[q].op = "ISSUE"
      PROVE  NewToken(q, t)'
  <2>1. q # r /\ t \in req[q].tokens /\ req[q].op = "ISSUE"
    BY <1>2, <1>5
  <2>2. NewToken(q, t)
    BY <2>1 DEF UsesInv
  <2>3. tokens'[t] = tokens[t]
    BY <1>1, <1>3, <2>1, <2>2 DEF NewToken
  <2> QED BY <1>2, <2>2, <2>3 DEF NewToken
<1> QED BY <1>4, <1>5 DEF UsesInv

LEMMA UsesNext == TypeOK /\ UsesInv /\ [Next]_vars => UsesInv'
<1> SUFFICES ASSUME TypeOK, UsesInv, [Next]_vars PROVE UsesInv'
  OBVIOUS
<1>1. ASSUME NEW r \in Requests, Flush(r) PROVE UsesInv'
  <2>1. ASSUME NEW q \in Requests
        PROVE  req'[q].op = req[q].op /\ req'[q].tokens = req[q].tokens
    <3>1. req[q] \in RequestStates /\ req' = [req EXCEPT ![r].pc = "flushed"]
      BY <1>1 DEF Flush, TypeOK
    <3> QED BY <3>1 DEF TypeOK, RequestStates
  <2> QED BY <1>1, <2>1, UsesKept DEF Flush
<1>2. ASSUME NEW r \in Requests, Abort(r) PROVE UsesInv'
  <2>1. \A q \in Requests : req'[q] = req[q] \/ req'[q].tokens = {}
    BY <1>2 DEF Abort, TypeOK, Idle
  <2> QED BY <1>2, <2>1, UsesKept DEF Abort
<1>3. ASSUME NEW x \in Tokens, Expire(x) PROVE UsesInv'
  <2>1. /\ tokens[x] = "valid" /\ tokens'[x] = "expired"
        /\ \A t \in Tokens \ {x} : tokens'[t] = tokens[t]
        /\ UNCHANGED <<req, uses>>
    BY <1>3 DEF Expire, TypeOK
  <2>2. \A t \in Tokens : Counted(t)'
    BY <2>1 DEF UsesInv, Counted, Submits
  <2>3. \A q \in Requests : req[q].tokens \subseteq Tokens
    BY DEF TypeOK, RequestStates
  <2> QED BY <2>1, <2>2, <2>3 DEF UsesInv, NewToken
<1>4. CASE UNCHANGED vars
  BY <1>4, UsesKept DEF vars
<1> QED BY <1>1, <1>2, <1>3, <1>4, UsesBegin, UsesCommit DEF Next

LEMMA UsesInit == Init => UsesInv
<1> SUFFICES ASSUME Init PROVE UsesInv
  OBVIOUS
<1>1. ASSUME NEW t \in Tokens PROVE Counted(t)
  <2>1. Submits(t) = {} /\ uses[t] = 0
    BY DEF Init, Submits, Idle
  <2> QED BY <2>1, FS_EmptySet, SubmitsAre DEF Counted
<1> QED BY <1>1 DEF UsesInv, Init, Idle

(* A token sets at most one password for each request that can be in       *)
(* flight: those past the check when it is first used, and none after.     *)
THEOREM TokensAreUsedOnce == Spec => []TokenOnce
<1>1. TypeOK /\ UsesInv => TokenOnce
  <2> SUFFICES ASSUME TypeOK, UsesInv, NEW t \in Tokens
               PROVE  uses[t] <= Cardinality(Requests)
    BY DEF TokenOnce
  <2> QED BY SubmitsAre DEF UsesInv, Counted, TypeOK
<1> QED BY <1>1, UsesInit, UsesNext, TypeOKInit, TypeOKNext, PTL DEF Spec
=============================================================================
