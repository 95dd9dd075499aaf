---------------------------- MODULE Credentials ----------------------------
(***************************************************************************)
(* One account, and the requests that read and change its password and its *)
(* deleted mark: login and the use of a login session, password recovery,  *)
(* the administrator's reset, soft deletion and edit (core/services/       *)
(* access.py, rest_server/providers.py, routers/access.py and users.py).   *)
(* A request loads rows, checks them in memory, writes the columns it      *)
(* changed and commits; requests overlap.  E-mails are left out: no        *)
(* handler reads back what it sent.                                        *)
(***************************************************************************)
EXTENDS Integers, FiniteSets

CONSTANTS Passwords, \* passwords users and administrators choose
          Tokens,    \* recovery tokens that can be issued
          Requests   \* requests that can be in flight at the same time

ASSUME CredentialsAssumption == Passwords # {} /\ Requests # {} /\ IsFiniteSet(Requests)

VARIABLES account,  \* the user row; outdated: check_needs_rehash of its hash
          tokens,   \* issued_login_recovery rows
          sessions, \* passwords by which login sessions were opened
          req,      \* the requests in flight
          uses      \* history: passwords that each token has set
vars == <<account, tokens, sessions, req, uses>>

Accounts == [password: Passwords, outdated: BOOLEAN, deleted: BOOLEAN]
Ops == {"LOGIN", "USE", "ISSUE", "SUBMIT", "RESET", "DELETE", "UPDATE"}
RequestStates ==
  [pc: {"idle", "loaded", "flushed"},
   op: Ops, password: Passwords, tokens: SUBSET Tokens, \* the token it is about
   seen: [outdated: BOOLEAN, deleted: BOOLEAN], \* of the user row it loaded
   stale: BOOLEAN]  \* history: another request has committed since the load

FirstPassword == CHOOSE p \in Passwords : TRUE
Idle == [pc |-> "idle", op |-> "LOGIN", password |-> FirstPassword, tokens |-> {},
         seen |-> [outdated |-> FALSE, deleted |-> FALSE], stale |-> FALSE]

(* The account may have been hashed with parameters since outdated.        *)
Init == /\ account \in [password: {FirstPassword}, outdated: BOOLEAN, deleted: {FALSE}]
        /\ tokens = [t \in Tokens |-> "unissued"]
        /\ sessions = {}
        /\ req = [r \in Requests |-> Idle]
        /\ uses = [t \in Tokens |-> 0]

(* Checks of a request, each after a variant that has a mistake in it:     *)
(* deleted users found, sessions of deleted users accepted, no password    *)
(* verified, used tokens accepted.                                         *)
FindsDeleted == TRUE
SessionOfAnyone == sessions # {}
VerifiesNothing(p) == TRUE
UsableTwice(t) == tokens[t] \in {"valid", "used"}
Identified == ~account.deleted          \* _identify_user
SessionFound == sessions # {} /\ ~account.deleted \* lookup_login_session
Verified(p) == p = account.password     \* _authenticate_user
Usable(t) == tokens[t] = "valid"        \* issued, neither used nor expired
Fresh(t) == tokens[t] = "unissued" /\ \A r \in Requests : t \notin req[r].tokens

(* What a handler requires of what it loads; otherwise it answers 4xx.     *)
(* submit_login_recovery and the administrator's endpoints see deleted     *)
(* users as well.                                                          *)
Accepted(op, p, T) ==
  CASE op = "LOGIN" -> Identified /\ Verified(p)
    [] op = "USE" -> SessionFound
    [] op = "ISSUE" -> Identified /\ \A t \in T : Fresh(t)
    [] op = "SUBMIT" -> \A t \in T : Usable(t)
    [] op = "RESET" -> ~account.deleted
    [] OTHER -> TRUE

Begin(r, op, p, T) ==
  /\ req[r].pc = "idle"
  /\ IF op \in {"ISSUE", "SUBMIT"} THEN \E t \in Tokens : T = {t} ELSE T = {}
  /\ op \in {"LOGIN", "SUBMIT", "RESET"} \/ p = FirstPassword \* the others have none
  /\ Accepted(op, p, T)
  /\ req' = [req EXCEPT ![r] = [pc |-> "loaded", op |-> op, password |-> p, tokens |-> T,
                               seen |-> [outdated |-> account.outdated,
                                         deleted |-> account.deleted],
                               stale |-> FALSE]]
  /\ UNCHANGED <<account, tokens, sessions, uses>>

(* The columns of the user row a request changes: login rewrites the hash  *)
(* of the password it verified when it needs a rehash, update_user clears  *)
(* a deleted_at it has loaded (its payload leaves deleted_at out).         *)
SetsPassword(s) == s.op \in {"SUBMIT", "RESET"} \/ (s.op = "LOGIN" /\ s.seen.outdated)
Undeletes(s) == s.op = "UPDATE" /\ s.seen.deleted
WritesAccount(s) == SetsPassword(s) \/ Undeletes(s) \/ s.op = "DELETE"

(* flush: the UPDATE of the row waits for the transactions that wrote it.  *)
Flush(r) ==
  /\ req[r].pc = "loaded"
  /\ WritesAccount(req[r]) =>
       \A q \in Requests : ~(req[q].pc = "flushed" /\ WritesAccount(req[q]))
  /\ req' = [req EXCEPT ![r].pc = "flushed"]
  /\ UNCHANGED <<account, tokens, sessions, uses>>

(* What a request makes of its token; a variant forgets used_at.           *)
TokenForgotten(s, t) == IF s.op = "ISSUE" THEN "valid" ELSE tokens[t]
TokenAfter(s, t) == IF s.op = "ISSUE" THEN "valid" ELSE "used"

(* commit writes the changed columns, the token and the session.           *)
Commit(r) ==
  LET s == req[r]
  IN /\ s.pc = "flushed"
     /\ account' = [password |-> IF SetsPassword(s) THEN s.password ELSE account.password,
                    outdated |-> account.outdated /\ ~SetsPassword(s),
                    deleted |-> (account.deleted /\ ~Undeletes(s)) \/ s.op = "DELETE"]
     /\ tokens' = [t \in Tokens |-> IF t \in s.tokens THEN TokenAfter(s, t) ELSE tokens[t]]
     /\ uses' = [t \in Tokens |-> IF s.op = "SUBMIT" /\ t \in s.tokens
                                  THEN uses[t] + 1 ELSE uses[t]]
     /\ sessions' = IF s.op = "LOGIN" THEN sessions \cup {s.password} ELSE sessions
     /\ req' = [q \in Requests |->
                  IF q = r THEN Idle
                  ELSE [req[q] EXCEPT !.stale = req[q].pc # "idle"]]

(* The process or the database fails, or the queue does before             *)
(* reset_user_password commits: rolled back.                               *)
Abort(r) == /\ req[r].pc # "idle"
            /\ req' = [req EXCEPT ![r] = Idle]
            /\ UNCHANGED <<account, tokens, sessions, uses>>

(* RECOVERY_TOKEN_TTL passes.                                              *)
Expire(t) == /\ tokens[t] = "valid"
             /\ tokens' = [tokens EXCEPT ![t] = "expired"]
             /\ UNCHANGED <<account, sessions, req, uses>>

Next == \/ \E r \in Requests :
             \/ \E op \in Ops, p \in Passwords, T \in SUBSET Tokens : Begin(r, op, p, T)
             \/ Flush(r) \/ Commit(r) \/ Abort(r)
        \/ \E t \in Tokens : Expire(t)

Spec == Init /\ [][Next]_vars

-----------------------------------------------------------------------------
(* The state is well typed, and a request past its handler's checks has    *)
(* what they let through: one token for a recovery, and a deleted account  *)
(* only where the handler does not look at deleted_at.                     *)
TypeOK == /\ account \in Accounts
          /\ tokens \in [Tokens -> {"unissued", "valid", "expired", "used"}]
          /\ sessions \subseteq Passwords
          /\ req \in [Requests -> RequestStates]
          /\ uses \in [Tokens -> Nat]
          /\ \A r \in Requests :
               /\ (req[r].tokens # {}) = (req[r].op \in {"ISSUE", "SUBMIT"})
               /\ req[r].seen.deleted => req[r].op \in {"SUBMIT", "DELETE", "UPDATE"}

(* The password changes only by a recovery or a reset that someone asked   *)
(* for, or by the rehash of a login that such a change overtook.           *)
PasswordKept ==
  [][account'.password # account.password
       => \E r \in Requests : /\ Commit(r)
                              /\ \/ req[r].op \in {"SUBMIT", "RESET"}
                                 \/ req[r].op = "LOGIN" /\ req[r].stale]_vars

(* A recovery token sets a password once, and once more for each further   *)
(* request that was past its check of used_at at that time: nothing locks  *)
(* the token between the check and the write of used_at.                   *)
TokenOnce == \A t \in Tokens : uses[t] <= Cardinality(Requests)

(* A session is opened with the current password, and nobody acts by one   *)
(* for a deleted account, however long ago it was opened, unless the       *)
(* account changed while the request was running.                          *)
LoginCurrent ==
  [][\A r \in Requests : (Commit(r) /\ req[r].op \in {"LOGIN", "USE"} /\ ~req[r].stale) =>
       /\ ~account.deleted
       /\ req[r].op = "LOGIN" => account.password = req[r].password]_vars

(* After a recovery the old password is refused; but a login that verified *)
(* it before, with an outdated hash, writes it back.                       *)
RecoveredPasswordStays ==
  [][\A r \in Requests : (Commit(r) /\ req[r].op = "LOGIN")
                            => account'.password = account.password]_vars
=============================================================================
