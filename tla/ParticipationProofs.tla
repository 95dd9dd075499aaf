------------------------ MODULE ParticipationProofs ------------------------
(* Theorems about Participation, for any users, requests, limits, end      *)
(* times and payloads.                                                     *)
EXTENDS Participation, FiniteSetTheorems, TLAPS

(* Subsets of Users are finite and no larger than Users.                   *)
LEMMA UserSets ==
  ASSUME NEW S \in SUBSET Users
  PROVE  /\ IsFiniteSet(S) /\ Cardinality(S) \in Nat
         /\ Cardinality(S) <= Cardinality(Users) /\ Cardinality(Users) \in Nat
         /\ \A u \in Users : /\ Cardinality(S \ {u}) \in Nat
                             /\ Cardinality(S \ {u}) < Cardinality(Users)
<1>1. IsFiniteSet(S) /\ Cardinality(S) <= Cardinality(Users)
  BY FS_Subset, UsersAssumption
<1>2. Cardinality(S) \in Nat /\ Cardinality(Users) \in Nat
  BY <1>1, FS_CardinalityType, UsersAssumption
<1>3. ASSUME NEW u \in Users
      PROVE  Cardinality(S \ {u}) \in Nat /\ Cardinality(S \ {u}) < Cardinality(Users)
  <2>1. IsFiniteSet(Users \ {u}) /\ Cardinality(Users \ {u}) = Cardinality(Users) - 1
    BY FS_RemoveElement, UsersAssumption
  <2>2. S \ {u} \in SUBSET (Users \ {u})
    OBVIOUS
  <2>3. IsFiniteSet(S \ {u}) /\ Cardinality(S \ {u}) <= Cardinality(Users \ {u})
    BY <2>1, <2>2, FS_Subset
  <2>4. Cardinality(S \ {u}) \in Nat /\ Cardinality(Users \ {u}) \in Nat
    BY <2>1, <2>3, FS_CardinalityType
  <2> QED BY <1>2, <2>1, <2>3, <2>4
<1> QED BY <1>1, <1>2, <1>3

LEMMA Instants == /\ \A n \in 0..MaxTime : n \in Nat
                  /\ \A e \in EndTimes \cup {0} : e \in Nat
<1>1. EndTimes \subseteq Nat
  BY TimeAssumption, Zenon
<1> QED BY <1>1, TimeAssumption

(* TypeOK is inductive with this: a session that has not selected the      *)
(* user's own row counts others only.                                      *)
TypeInv == /\ TypeOK
           /\ \A r \in Requests :
                req[r].pc = "loaded" => req[r].count < Cardinality(Users)

LEMMA Records ==
  /\ NoEvent \in Events
  /\ \A list : Enrolled(list) \in Rosters
  /\ Idle \in Sessions /\ Idle.pc = "idle"
<1>1. NoEvent \in Events
  BY DEF NoEvent, Events, Limits, Unlimited
<1>2. \A list : Enrolled(list) \in Rosters
  BY DEF Enrolled, Rosters, Status
<1>3. (CHOOSE u \in Users : TRUE) \in Users
  BY UsersAssumption
<1>4. Cardinality(Users) \in Nat
  BY UserSets
<1> QED BY <1>1, <1>2, <1>3, <1>4, TimeAssumption DEF Idle, Sessions, Status
(* What a session keeps from its first statement to its commit, what it    *)
(* keeps once it has loaded its rows, and while it writes nothing.         *)
Kept(s, t) ==
  /\ t.op = s.op /\ t.user = s.user /\ t.next = s.next /\ t.replace = s.replace
  /\ t.list = s.list /\ t.began = s.began /\ t.event = s.event /\ t.stale = s.stale
Same(s, t) == Kept(s, t) /\ t.gone = s.gone /\ t.mine = s.mine /\ t.rows = s.rows
Unwritten(s, t) == t.patched = s.patched /\ t.cut = s.cut /\ t.put = s.put

(* The steps of a request, by what they make of its session.               *)
Begins(s, t) ==
  /\ s.pc = "idle" /\ t.pc = "opened" /\ event.exists
  /\ t.event = event /\ t.began = now /\ t.gone = {} /\ ~t.stale
  /\ ~t.patched /\ t.cut = {} /\ t.put = {}
  /\ \/ t.op \in Status /\ ~event.rejected
     \/ t.op = "EDIT" /\ (t.replace \/ t.list = {}) /\ Payloads # {}
Loads(s, t) ==
  /\ s.pc = "opened" /\ Kept(s, t) /\ Unwritten(s, t) /\ t.gone = s.gone
  /\ \/ s.op = "EDIT" /\ t.pc = "read" /\ t.rows = rows
     \/ s.op # "EDIT" /\ t.pc = "loaded" /\ t.mine = rows[s.user]
Selects(s, t) ==
  /\ s.pc = "loaded" /\ t.pc = "read" /\ Kept(s, t) /\ Unwritten(s, t)
  /\ t.gone = {} /\ t.rows = s.rows
  /\ t.mine = IF s.mine # "NONE" /\ s.user \notin s.gone THEN s.mine ELSE rows[s.user]
Passes(s, t) ==
  /\ s.pc = "read" /\ t.pc = "ready" /\ Same(s, t) /\ Unwritten(s, t)
  /\ JoinAllowed(s) \/ EditAllowed(s) \/ LeaveAllowed(s)
Writes(r, t) ==
  /\ req[r].pc = "ready" /\ t.pc = "ready" /\ Same(req[r], t)
  /\ \/ /\ WantsEvent(req[r]) /\ t.patched /\ t.cut = req[r].cut /\ t.put = req[r].put
        /\ \A q \in Requests \ {r} : ~req[q].patched
     \/ /\ ~WantsEvent(req[r]) /\ t.patched = req[r].patched
        /\ \E u \in Users :
             /\ Unlocked(r, u)
             /\ \/ /\ u \in ToDelete(req[r])
                   /\ t.cut = req[r].cut \cup {u} /\ t.put = req[r].put
                \/ /\ u \in ToPut(req[r]) /\ ~PutFails(req[r], u)
                   /\ t.cut = req[r].cut /\ t.put = req[r].put \cup {u}
Tells(s, t) ==
  /\ Flushed(s) /\ t.pc = "mailed" /\ t.told = Owed(s)
  /\ Same(s, t) /\ Unwritten(s, t)
Moves(r, t) == \/ Begins(req[r], t) \/ Loads(req[r], t) \/ Selects(req[r], t)
               \/ Passes(req[r], t) \/ Writes(r, t) \/ Tells(req[r], t)

(* The session after one of its steps is well typed as well.               *)
Moved(r) == \E t \in Sessions : /\ Advance(r, t) /\ Moves(r, t)
                                /\ t.pc = "loaded" => t.count < Cardinality(Users)

LEMMA BeginMoves ==
  ASSUME TypeInv, NEW r \in Requests
  PROVE  /\ \A u \in Users, op \in Status : BeginMine(r, u, op) => Moved(r)
         /\ \A p \in Payloads : BeginEdit(r, p) => Moved(r)
<1>1. ASSUME NEW u \in Users, NEW op \in Status, BeginMine(r, u, op) PROVE Moved(r)
  <2> DEFINE t == Opened([Idle EXCEPT !.pc = "opened", !.op = op, !.user = u])
  <2>1. t \in Sessions
    BY Records DEF Sessions, Opened, TypeInv, TypeOK
  <2>2. /\ t.pc = "opened" /\ t.op = op /\ t.event = event /\ t.began = now
        /\ t.gone = {} /\ ~t.stale /\ ~t.patched /\ t.cut = {} /\ t.put = {}
    BY DEF Opened, Idle
  <2> HIDE DEF t
  <2>3. Begins(req[r], t)
    BY <1>1, <2>2 DEF BeginMine, MayBeAnswered, Begins, TypeInv, TypeOK, Events
  <2>4. Advance(r, t)
    BY <1>1 DEF BeginMine, t
  <2> QED BY <2>1, <2>2, <2>3, <2>4 DEF Moved, Moves
<1>2. ASSUME NEW p \in Payloads, BeginEdit(r, p) PROVE Moved(r)
  <2> DEFINE next == [event EXCEPT
                        !.max = IF "max" \in p.sets THEN p.max ELSE @,
                        !.rejected = IF "rejected" \in p.sets THEN p.rejected ELSE @,
                        !.ends = IF "ends" \in p.sets THEN p.ends ELSE @]
             list == IF p.replace THEN p.list ELSE {}
             t == Opened([Idle EXCEPT !.pc = "opened", !.op = "EDIT", !.next = next,
                                      !.replace = p.replace, !.list = list])
  <2>1. next \in Events
    BY PayloadAssumption DEF TypeInv, TypeOK, Events, Limits, Unlimited
  <2>2. list \in SUBSET Users /\ p.replace \in BOOLEAN /\ (p.replace \/ list = {})
    BY PayloadAssumption
  <2>3. Advance(r, t) /\ req[r].pc = "idle" /\ event.exists
    BY <1>2 DEF BeginEdit
  <2> HIDE DEF next, list
  <2>4. t \in Sessions
    BY <2>1, <2>2, Records DEF Sessions, Opened, TypeInv, TypeOK
  <2>5. /\ t.pc = "opened" /\ t.op = "EDIT" /\ t.event = event /\ t.began = now
        /\ t.gone = {} /\ ~t.stale /\ ~t.patched /\ t.cut = {} /\ t.put = {}
        /\ t.replace = p.replace /\ t.list = list
    BY DEF Opened, Idle
  <2> HIDE DEF t
  <2>6. Begins(req[r], t)
    BY <2>2, <2>3, <2>5 DEF Begins
  <2> QED BY <2>3, <2>4, <2>5, <2>6 DEF Moved, Moves
<1> QED BY <1>1, <1>2

LEMMA ReadMoves ==
  ASSUME TypeInv, NEW r \in Requests
  PROVE  /\ Load(r) => Moved(r)
         /\ ReadMine(r) => Moved(r)
         /\ Check(r) => Stop(r) \/ Moved(r)
<1> DEFINE s == req[r]
<1>0. s \in Sessions /\ rows \in Rosters
  BY DEF TypeInv, TypeOK
<1>1. ASSUME Load(r), s.op = "EDIT" PROVE Moved(r)
  <2> DEFINE t == [s EXCEPT !.pc = "read", !.rows = rows]
  <2>1. t \in Sessions /\ Advance(r, t)
    BY <1>0, <1>1 DEF Load, Sessions
  <2>2. Loads(s, t) /\ t.pc = "read"
    BY <1>0, <1>1 DEF Load, Loads, Kept, Unwritten, Sessions
  <2> HIDE DEF t
  <2> QED BY <2>1, <2>2 DEF Moved, Moves
<1>2. ASSUME Load(r), s.op # "EDIT" PROVE Moved(r)
  <2> DEFINE n == OthersGoing(s.user)
             t == [s EXCEPT !.pc = "loaded", !.mine = rows[s.user], !.count = n]
  <2>1. n \in 0..Cardinality(Users) /\ n < Cardinality(Users)
    BY <1>0, UserSets, Going(rows) \in SUBSET Users DEF Going, OthersGoing, Sessions
  <2>2. Advance(r, t)
    BY <1>2 DEF Load
  <2> HIDE DEF n
  <2>3. t \in Sessions
    BY <1>0, <2>1 DEF Sessions, Rosters
  <2>4. Loads(s, t) /\ t.count = n
    BY <1>0, <1>2 DEF Load, Loads, Kept, Unwritten, Sessions
  <2> HIDE DEF t
  <2> QED BY <2>1, <2>2, <2>3, <2>4 DEF Moved, Moves
<1>3. ASSUME ReadMine(r) PROVE Moved(r)
  <2> DEFINE held == s.mine # "NONE" /\ s.user \notin s.gone
             shown == IF held /\ s.op # "NONE" THEN s.op ELSE s.mine
             mine == IF held THEN s.mine ELSE rows[s.user]
             count == IF shown = "PARTICIPATING" THEN s.count + 1 ELSE s.count
             t == [s EXCEPT !.pc = "read", !.gone = {}, !.mine = mine, !.count = count]
  <2>1. s.count < Cardinality(Users) /\ Cardinality(Users) \in Nat /\ s.pc = "loaded"
    BY <1>3, UserSets DEF ReadMine, TypeInv
  <2>2. mine \in Status
    BY <1>0 DEF Sessions, Rosters
  <2>3. count \in 0..Cardinality(Users)
    <3> HIDE DEF shown
    <3> QED BY <1>0, <2>1 DEF Sessions
  <2>4. Advance(r, t)
    BY <1>3 DEF ReadMine
  <2>5. mine = IF s.mine # "NONE" /\ s.user \notin s.gone THEN s.mine ELSE rows[s.user]
    OBVIOUS
  <2> HIDE DEF mine, count
  <2>6. t \in Sessions
    BY <1>0, <2>2, <2>3 DEF Sessions
  <2>7. Selects(s, t) /\ t.pc = "read"
    BY <1>0, <2>1, <2>5 DEF Selects, Kept, Unwritten, Sessions
  <2> HIDE DEF t
  <2> QED BY <2>4, <2>6, <2>7 DEF Moved, Moves
<1>4. ASSUME Check(r) PROVE Stop(r) \/ Moved(r)
  <2> DEFINE t == [s EXCEPT !.pc = "ready"]
  <2>1. CASE ~(JoinAllowed(s) \/ EditAllowed(s) \/ LeaveAllowed(s))
    BY <1>4, <2>1 DEF Check
  <2>2. CASE JoinAllowed(s) \/ EditAllowed(s) \/ LeaveAllowed(s)
    <3>1. Advance(r, t) /\ s.pc = "read"
      BY <1>4, <2>2 DEF Check
    <3>2. t \in Sessions /\ t.pc = "ready" /\ Same(s, t) /\ Unwritten(s, t)
      BY <1>0 DEF Sessions, Same, Kept, Unwritten
    <3> HIDE DEF t
    <3>3. Passes(s, t)
      BY <2>2, <3>1, <3>2 DEF Passes
    <3> QED BY <3>1, <3>2, <3>3 DEF Moved, Moves
  <2> QED BY <2>1, <2>2
<1> QED BY <1>1, <1>2, <1>3, <1>4

LEMMA WriteMoves ==
  ASSUME TypeInv, NEW r \in Requests
  PROVE  /\ UpdateEvent(r) => Moved(r)
         /\ \A u \in Users : /\ Delete(r, u) => Moved(r)
                             /\ Put(r, u) => Stop(r) \/ Moved(r)
         /\ Notify(r) => Moved(r)
<1> DEFINE s == req[r]
<1>0. s \in Sessions
  BY DEF TypeInv, TypeOK
<1>1. ASSUME UpdateEvent(r) PROVE Moved(r)
  <2> DEFINE t == [s EXCEPT !.patched = TRUE]
  <2>1. /\ t \in Sessions /\ Same(s, t) /\ t.pc = s.pc
        /\ t.patched /\ t.cut = s.cut /\ t.put = s.put
    BY <1>0 DEF Sessions, Same, Kept
  <2>2. /\ Advance(r, t) /\ s.pc = "ready" /\ WantsEvent(s)
        /\ \A q \in Requests \ {r} : ~req[q].patched
    BY <1>1 DEF UpdateEvent
  <2> HIDE DEF t
  <2>3. Writes(r, t)
    BY <2>1, <2>2 DEF Writes
  <2> QED BY <2>1, <2>2, <2>3 DEF Moved, Moves
<1>2. ASSUME NEW u \in Users, Delete(r, u) PROVE Moved(r)
  <2> DEFINE t == [s EXCEPT !.cut = @ \cup {u}]
  <2>1. /\ t \in Sessions /\ Same(s, t) /\ t.pc = s.pc
        /\ t.patched = s.patched /\ t.cut = s.cut \cup {u} /\ t.put = s.put
    BY <1>0 DEF Sessions, Same, Kept
  <2>2. /\ Advance(r, t) /\ s.pc = "ready" /\ ~WantsEvent(s)
        /\ Unlocked(r, u) /\ u \in ToDelete(s)
    BY <1>2 DEF Delete, Wanted
  <2> HIDE DEF t
  <2>3. Writes(r, t)
    BY <2>1, <2>2 DEF Writes
  <2> QED BY <2>1, <2>2, <2>3 DEF Moved, Moves
<1>3. ASSUME NEW u \in Users, Put(r, u) PROVE Stop(r) \/ Moved(r)
  <2> DEFINE t == [s EXCEPT !.put = @ \cup {u}]
  <2>1. /\ t \in Sessions /\ Same(s, t) /\ t.pc = s.pc
        /\ t.patched = s.patched /\ t.cut = s.cut /\ t.put = s.put \cup {u}
    BY <1>0 DEF Sessions, Same, Kept
  <2>2. /\ s.pc = "ready" /\ ~WantsEvent(s) /\ Unlocked(r, u) /\ u \in ToPut(s)
        /\ Stop(r) \/ (Advance(r, t) /\ ~PutFails(s, u))
    BY <1>3 DEF Put, Wanted
  <2> HIDE DEF t
  <2>3. ~PutFails(s, u) => Writes(r, t)
    BY <2>1, <2>2 DEF Writes
  <2> QED BY <2>1, <2>2, <2>3 DEF Moved, Moves
<1>4. ASSUME Notify(r) PROVE Moved(r)
  <2> DEFINE n == IF s.op = "EDIT" THEN Cardinality(Informed(s)) ELSE s.count
             t == [s EXCEPT !.pc = "mailed", !.told = Owed(s), !.count = n]
  <2>1. n \in 0..Cardinality(Users)
    BY <1>0, UserSets, Informed(s) \in SUBSET Users DEF Informed, Going, Sessions
  <2>2. Owed(s) \in BOOLEAN
    BY <1>0, AdminsAssumption DEF Owed, Sessions
  <2>3. Advance(r, t) /\ Flushed(s)
    BY <1>4 DEF Notify
  <2> HIDE DEF n
  <2>4. t \in Sessions /\ t.pc = "mailed" /\ t.told = Owed(s) /\ Same(s, t) /\ Unwritten(s, t)
    BY <1>0, <2>1, <2>2 DEF Sessions, Same, Kept, Unwritten
  <2> HIDE DEF t
  <2>5. Tells(s, t)
    BY <2>3, <2>4 DEF Tells
  <2> QED BY <2>3, <2>4, <2>5 DEF Moved, Moves
<1> QED BY <1>1, <1>2, <1>3, <1>4

(* The cases of a step, for all that follows.                              *)
LEMMA Steps ==
  ASSUME TypeInv, [Next]_vars
  PROVE  \/ Tick \/ UNCHANGED vars
         \/ \E max \in Limits, ends \in EndTimes, list \in SUBSET Users :
              Create(max, ends, list)
         \/ \E r \in Requests : Stop(r) \/ Moved(r) \/ Commit(r)
<1>1. ASSUME NEW r \in Requests, Step(r) \/ RefuseList(r) \/ Abort(r)
      PROVE  Stop(r) \/ Moved(r) \/ Commit(r)
  BY <1>1, ReadMoves, WriteMoves DEF Step, RefuseList, Abort
<1>2. ASSUME NEW r \in Requests,
             \/ \E u \in Users, op \in Status : BeginMine(r, u, op)
             \/ \E p \in Payloads : BeginEdit(r, p)
      PROVE  Moved(r)
  BY <1>2, BeginMoves
<1> QED BY <1>1, <1>2 DEF Next

(* What a commit makes of the other sessions.                              *)
Overtaken(s, t, cut) ==
  /\ t.pc = s.pc /\ t.op = s.op /\ t.user = s.user /\ t.next = s.next
  /\ t.replace = s.replace /\ t.list = s.list /\ t.began = s.began
  /\ t.event = s.event /\ t.mine = s.mine /\ t.rows = s.rows /\ t.told = s.told
  /\ t.count = s.count /\ Unwritten(s, t)
  /\ t.stale /\ t.gone = s.gone \cup (cut \cap Held(s))

LEMMA Commits ==
  ASSUME TypeInv, NEW r \in Requests, Commit(r), NEW q \in Requests
  PROVE  /\ req'[q] \in Sessions
         /\ \/ q = r /\ req'[q] = Idle
            \/ q # r /\ req[q].pc = "idle" /\ req'[q] = req[q]
            \/ q # r /\ req[q].pc # "idle" /\ Overtaken(req[q], req'[q], req[r].cut)
<1> DEFINE t == [req[q] EXCEPT !.stale = TRUE,
                               !.gone = @ \cup (req[r].cut \cap Held(req[q]))]
<1>1. req[q] \in Sessions /\ req[r] \in Sessions
  BY DEF TypeInv, TypeOK
<1>2. Held(req[q]) \subseteq Users
  BY <1>1 DEF Held, Listed, Sessions
<1>3. t \in Sessions /\ Overtaken(req[q], t, req[r].cut)
  BY <1>1, <1>2 DEF Sessions, Overtaken, Unwritten
<1>4. req'[q] = IF q = r THEN Idle ELSE IF req[q].pc = "idle" THEN req[q] ELSE t
  BY DEF Commit
<1> HIDE DEF t
<1> QED BY <1>1, <1>3, <1>4, Records

LEMMA TypeInvInit == Init => TypeInv
BY Records, TimeAssumption DEF Init, TypeInv, TypeOK

LEMMA TypeInvNext == TypeInv /\ [Next]_vars => TypeInv'
<1> SUFFICES ASSUME TypeInv, [Next]_vars PROVE TypeInv'
  OBVIOUS
<1>1. CASE Tick
  BY <1>1, TimeAssumption DEF Tick, TypeInv, TypeOK
<1>2. CASE UNCHANGED vars
  BY <1>2 DEF vars, TypeInv, TypeOK
<1>3. ASSUME NEW max \in Limits, NEW ends \in EndTimes, NEW list \in SUBSET Users,
             Create(max, ends, list)
      PROVE  TypeInv'
  BY <1>3, Records DEF Create, TypeInv, TypeOK, Events
<1>4. ASSUME NEW r \in Requests, Stop(r) PROVE TypeInv'
  BY <1>4, Records DEF Stop, TypeInv, TypeOK
<1>5. ASSUME NEW r \in Requests, Moved(r) PROVE TypeInv'
  BY <1>5 DEF Moved, Advance, TypeInv, TypeOK
<1>6. ASSUME NEW r \in Requests, Commit(r) PROVE TypeInv'
  <2>1. req[r] \in Sessions
    BY DEF TypeInv, TypeOK
  <2>2. Patched(req[r]) \in Events
    BY <2>1 DEF Patched, Sessions, Events, TypeInv, TypeOK
  <2>3. Written(req[r]) \in Rosters
    BY <2>1 DEF Written, Sessions, Rosters, Status, TypeInv, TypeOK
  <2>4. ASSUME NEW q \in Requests
        PROVE  /\ req'[q] \in Sessions
               /\ req'[q].pc = "loaded" => req'[q].count < Cardinality(Users)
    BY <1>6, Commits, Records DEF Overtaken, TypeInv
  <2> QED BY <1>6, <2>2, <2>3, <2>4 DEF Commit, TypeInv, TypeOK
<1> QED BY <1>1, <1>2, <1>3, <1>4, <1>5, <1>6, Steps

(* The state of Participation is well typed in every behaviour.            *)
THEOREM TypeCorrect == Spec => []TypeOK
<1>1. TypeInv => TypeOK
  BY DEF TypeInv
<1> QED BY <1>1, TypeInvInit, TypeInvNext, PTL DEF Spec

(* The other sessions, and the event and its rows, when a session moves.   *)
LEMMA Elsewhere ==
  ASSUME TypeInv, NEW r \in Requests, NEW t, Advance(r, t)
  PROVE  /\ event' = event /\ rows' = rows /\ now' = now
         /\ \A q \in Requests : req'[q] = IF q = r THEN t ELSE req[q]
BY DEF Advance, TypeInv, TypeOK

LEMMA Stops ==
  ASSUME TypeInv, NEW r \in Requests, Stop(r)
  PROVE  /\ event' = event /\ rows' = rows /\ now' = now
         /\ \A q \in Requests : req'[q] = IF q = r THEN Idle ELSE req[q]
BY DEF Stop, TypeInv, TypeOK

(* A request is in flight only for an event that exists.                   *)
Started == \A r \in Requests : req[r].pc # "idle" => event.exists

LEMMA StartedNext == TypeInv /\ Started /\ [Next]_vars => Started'
<1> SUFFICES ASSUME TypeInv, Started, [Next]_vars PROVE Started'
  OBVIOUS
<1>1. CASE Tick \/ UNCHANGED vars
  BY <1>1 DEF Tick, vars, Started
<1>2. ASSUME NEW max \in Limits, NEW ends \in EndTimes, NEW list \in SUBSET Users,
             Create(max, ends, list)
      PROVE  Started'
  BY <1>2 DEF Create, Started
<1>3. ASSUME NEW r \in Requests, Stop(r) PROVE Started'
  BY <1>3, Stops, Records DEF Started
<1>4. ASSUME NEW r \in Requests, Moved(r) PROVE Started'
  <2>1. PICK t \in Sessions : Advance(r, t) /\ Moves(r, t)
    BY <1>4 DEF Moved
  <2>2. req[r].pc = "idle" => event.exists
    BY <2>1 DEF Moves, Begins, Loads, Selects, Passes, Writes, Tells, Flushed
  <2> QED BY <2>1, <2>2, Elsewhere DEF Started
<1>5. ASSUME NEW r \in Requests, Commit(r) PROVE Started'
  <2>1. event'.exists
    BY <1>5 DEF Commit, Started, Patched, TypeInv, TypeOK, Events
  <2> QED BY <2>1 DEF Started
<1> QED BY <1>1, <1>2, <1>3, <1>4, <1>5, Steps

-----------------------------------------------------------------------------
(* A session that no other transaction has overtaken sees the database as  *)
(* it is, and what its checks found out still holds.                       *)
Passed(s) == s.pc \in {"ready", "mailed"}
Fresh(s) ==
  /\ s.event = event /\ s.gone = {} /\ s.began <= now
  /\ s.op = "EDIT" => /\ s.pc # "opened" => s.rows = rows
                      /\ Passed(s) => EditAllowed(s)
  /\ s.op # "EDIT" => /\ s.pc # "opened" => s.mine = rows[s.user]
                      /\ ~event.rejected
  /\ s.op = "PARTICIPATING" /\ Passed(s) =>
       /\ s.began < event.ends
       /\ Fits(Cardinality(Going(rows) \ {s.user}) + 1, event.max)
FreshInv == \A r \in Requests : req[r].pc # "idle" /\ ~req[r].stale => Fresh(req[r])

(* What a session has fresh does not depend on where its handler is, once  *)
(* the rows are loaded and the checks are passed.                          *)
LEMMA SameFresh ==
  ASSUME NEW s, NEW t, Same(s, t), Passed(s), Fresh(s)
  PROVE  Fresh(t)
BY DEF Same, Kept, Passed, Fresh, EditAllowed

LEMMA MovedFresh ==
  ASSUME TypeInv, FreshInv, NEW r \in Requests, NEW t \in Sessions, Moves(r, t), ~t.stale
  PROVE  Fresh(t)
<1> DEFINE s == req[r]
<1>0. /\ s \in Sessions /\ rows \in Rosters /\ now \in Nat
      /\ \A e \in EndTimes \cup {0} : e \in Nat
  BY Instants DEF TypeInv, TypeOK
<1>7. s.pc # "idle" /\ ~s.stale => Fresh(s)
  BY DEF FreshInv
<1> HIDE DEF s
<1>1. CASE Begins(s, t)
  BY <1>0, <1>1 DEF Begins, Fresh, Passed, Status
<1>2. CASE Loads(s, t)
  BY <1>7, <1>2 DEF Loads, Kept, Fresh, Passed
<1>3. CASE Selects(s, t)
  BY <1>7, <1>3 DEF Selects, Kept, Fresh, Passed
<1>4. CASE Passes(s, t)
  <2>1. Fresh(s) /\ Same(s, t) /\ s.pc = "read" /\ t.pc = "ready"
    BY <1>7, <1>4 DEF Passes, Same, Kept
  <2>2. s.op = "EDIT" => EditAllowed(s)
    BY <1>4 DEF Passes, JoinAllowed, LeaveAllowed
  <2>3. s.op = "PARTICIPATING" => JoinAllowed(s)
    BY <1>4 DEF Passes, EditAllowed, LeaveAllowed
  <2>4. s.began \in Nat /\ event.ends \in Nat
    <3>1. s.began \in 0..MaxTime /\ event.ends \in EndTimes \cup {0}
      BY <1>0 DEF Sessions, Events, TypeInv, TypeOK
    <3> QED BY <1>0, <3>1, Instants
  <2>5. s.op = "PARTICIPATING" => s.began < event.ends
    BY <1>0, <2>1, <2>3, <2>4 DEF JoinAllowed, Fresh
  <2> QED BY <2>1, <2>2, <2>3, <2>5 DEF Same, Kept, Fresh, EditAllowed, JoinAllowed
<1>5. CASE Writes(r, t)
  <2>1. Same(s, t) /\ Passed(s) /\ s.pc # "idle"
    BY <1>5 DEF Writes, Passed, s
  <2> QED BY <1>7, <2>1, SameFresh DEF Same, Kept
<1>6. CASE Tells(s, t)
  <2>1. Same(s, t) /\ Passed(s) /\ s.pc # "idle"
    BY <1>6 DEF Tells, Flushed, Passed
  <2> QED BY <1>7, <2>1, SameFresh DEF Same, Kept
<1> QED BY <1>1, <1>2, <1>3, <1>4, <1>5, <1>6 DEF Moves, s

LEMMA FreshInvNext == TypeInv /\ Started /\ FreshInv /\ [Next]_vars => FreshInv'
<1> SUFFICES ASSUME TypeInv, Started, FreshInv, [Next]_vars, NEW q \in Requests,
                    req'[q].pc # "idle", ~req'[q].stale
             PROVE  Fresh(req[q])'
  BY DEF FreshInv
<1>0. /\ req[q] \in Sessions /\ now \in Nat /\ req[q].began \in Nat
      /\ req[q].pc # "idle" /\ ~req[q].stale => Fresh(req[q])
  <2>1. req[q].began \in 0..MaxTime /\ now \in 0..MaxTime /\ req[q] \in Sessions
    BY DEF TypeInv, TypeOK, Sessions
  <2> QED BY <2>1, Instants DEF FreshInv
<1>1. CASE Tick \/ UNCHANGED vars
  <2>1. event' = event /\ rows' = rows /\ req' = req /\ now' \in {now, now + 1}
    BY <1>1 DEF Tick, vars
  <2>2. Fresh(req[q]) /\ req[q].began <= now'
    BY <1>0, <2>1 DEF Fresh
  <2> QED BY <2>1, <2>2 DEF Fresh, EditAllowed, Passed, Fits, Going, Listed
<1>2. ASSUME NEW max \in Limits, NEW ends \in EndTimes, NEW list \in SUBSET Users,
             Create(max, ends, list)
      PROVE  FALSE
  BY <1>2 DEF Create, Started
<1>3. ASSUME NEW r \in Requests, NEW t, Advance(r, t) \/ (Stop(r) /\ t = Idle),
             q = r => Fresh(t) \/ t.pc = "idle"
      PROVE  Fresh(req[q])'
  <2>1. /\ event' = event /\ rows' = rows /\ now' = now
        /\ req'[q] = IF q = r THEN t ELSE req[q]
    BY <1>3, Elsewhere, Stops
  <2>2. Fresh(req'[q])
    BY <1>0, <1>3, <2>1
  <2> QED BY <2>1, <2>2 DEF Fresh, EditAllowed, Passed, Fits, Going, Listed
<1>4. ASSUME NEW r \in Requests, Stop(r) PROVE Fresh(req[q])'
  BY <1>3, <1>4, Records
<1>5. ASSUME NEW r \in Requests, Moved(r) PROVE Fresh(req[q])'
  <2>1. PICK t \in Sessions : Advance(r, t) /\ Moves(r, t)
    BY <1>5 DEF Moved
  <2>2. q = r => Fresh(t)
    BY <2>1, Elsewhere, MovedFresh
  <2> QED BY <1>3, <2>1, <2>2
<1>6. ASSUME NEW r \in Requests, Commit(r) PROVE FALSE
  BY <1>6, Commits, Records DEF Overtaken
<1> QED BY <1>1, <1>2, <1>4, <1>5, <1>6, Steps

-----------------------------------------------------------------------------
(* What a session has written.  It is among what it means to write, its    *)
(* event row comes first, and once its notice is out there is no more.     *)
Cuttable(s) == IF s.op = "EDIT" THEN IF s.replace THEN Users ELSE {}
               ELSE IF s.op = "NONE" THEN {s.user} ELSE {}
Orderly(s) ==
  /\ ~Passed(s) => ~s.patched /\ Locks(s) = {}
  /\ s.op = "EDIT" => s.replace \/ s.list = {}
  /\ s.patched => SetsEvent(s)
  /\ s.cut \subseteq Cuttable(s)
  /\ s.put \subseteq Inserts(s) \cup Updates(s)
  /\ Locks(s) # {} => ~WantsEvent(s)
  /\ s.pc = "mailed" => /\ ~WantsEvent(s) /\ ToDelete(s) = {} /\ ToPut(s) = {}
                        /\ s.told = Owed(s)
OrderlyInv == \A r \in Requests : req[r].pc # "idle" => Orderly(req[r])

(* What a session means to write depends on what it has loaded only.       *)
LEMMA SameWrites ==
  ASSUME NEW s, NEW t, Same(s, t)
  PROVE  /\ Inserts(t) = Inserts(s) /\ Updates(t) = Updates(s)
         /\ Deletes(t) = Deletes(s) /\ Cuttable(t) = Cuttable(s)
         /\ SetsEvent(t) = SetsEvent(s) /\ Owed(t) = Owed(s) /\ Informed(t) = Informed(s)
BY DEF Same, Kept, Inserts, Updates, Deletes, Cuttable, SetsEvent, Owed, Informed

LEMMA MovedOrderly ==
  ASSUME TypeInv, OrderlyInv, NEW r \in Requests, NEW t \in Sessions, Moves(r, t)
  PROVE  Orderly(t)
<1> DEFINE s == req[r]
<1>0. s \in Sessions /\ (s.pc # "idle" => Orderly(s))
  BY DEF TypeInv, TypeOK, OrderlyInv
<1>1. CASE Begins(s, t)
  BY <1>1 DEF Begins, Orderly, Passed, Locks, Status
<1>2. CASE Loads(s, t) \/ Selects(s, t)
  BY <1>0, <1>2 DEF Loads, Selects, Orderly, Passed, Locks, Kept, Unwritten
<1>3. CASE Passes(s, t)
  <2>1. ~t.patched /\ t.cut = {} /\ t.put = {} /\ t.pc = "ready" /\ Same(s, t)
    BY <1>0, <1>3 DEF Passes, Orderly, Passed, Locks, Unwritten
  <2>2. t.op = "EDIT" => t.replace \/ t.list = {}
    BY <1>0, <1>3, <2>1 DEF Passes, Orderly, Same, Kept
  <2> QED BY <2>1, <2>2 DEF Orderly, Locks, Passed
<1>4. CASE Writes(r, t)
  <2>1. /\ Same(s, t) /\ Orderly(s) /\ t.pc = "ready"
        /\ t.op = "EDIT" => t.replace \/ t.list = {}
    BY <1>0, <1>4 DEF Writes, Orderly, Same, Kept
  <2>2. ToDelete(s) \subseteq Cuttable(s)
    BY <1>0 DEF ToDelete, Deletes, Cuttable, Listed, Sessions
  <2>3. CASE /\ WantsEvent(s) /\ t.patched /\ t.cut = s.cut /\ t.put = s.put
    BY <2>1, <2>3, SameWrites DEF Orderly, Passed, WantsEvent, Locks
  <2>4. CASE /\ ~WantsEvent(s) /\ t.patched = s.patched
             /\ t.cut \subseteq s.cut \cup ToDelete(s)
             /\ t.put \subseteq s.put \cup ToPut(s)
    <3>1. ~WantsEvent(t)
      BY <2>1, <2>4, SameWrites DEF WantsEvent
    <3>2. t.cut \subseteq Cuttable(t)
      BY <2>1, <2>2, <2>4, SameWrites DEF Orderly
    <3>3. t.put \subseteq Inserts(t) \cup Updates(t)
      BY <2>1, <2>4, SameWrites DEF Orderly, ToPut
    <3>4. t.patched => SetsEvent(t)
      BY <2>1, <2>4, SameWrites DEF Orderly
    <3> QED BY <2>1, <3>1, <3>2, <3>3, <3>4 DEF Orderly, Passed
  <2>5. \/ /\ WantsEvent(s) /\ t.patched /\ t.cut = s.cut /\ t.put = s.put
        \/ /\ ~WantsEvent(s) /\ t.patched = s.patched
           /\ t.cut \subseteq s.cut \cup ToDelete(s)
           /\ t.put \subseteq s.put \cup ToPut(s)
    BY <1>4 DEF Writes
  <2> QED BY <2>3, <2>4, <2>5
<1>5. CASE Tells(s, t)
  <2>1. /\ Same(s, t) /\ Unwritten(s, t) /\ Orderly(s) /\ t.pc = "mailed"
        /\ t.told = Owed(s) /\ ~WantsEvent(s) /\ s.pc = "ready" /\ Wanted(s) = {}
        /\ t.op = "EDIT" => t.replace \/ t.list = {}
    BY <1>0, <1>5 DEF Tells, Flushed, Orderly, Same, Kept
  <2>2. ToDelete(s) = {} /\ ToPut(s) = {}
    BY <2>1 DEF Wanted
  <2>3. ~WantsEvent(t) /\ ToDelete(t) = {} /\ ToPut(t) = {} /\ Locks(t) = Locks(s)
    BY <2>1, <2>2, SameWrites DEF WantsEvent, ToDelete, ToPut, Unwritten, Locks
  <2> QED BY <2>1, <2>3, SameWrites DEF Orderly, Passed, Unwritten
<1> QED BY <1>1, <1>2, <1>3, <1>4, <1>5 DEF Moves

(* A session that others overtake has less to delete, and no more.         *)
LEMMA OvertakenWrites ==
  ASSUME NEW s, NEW t, NEW cut, Overtaken(s, t, cut)
  PROVE  /\ Inserts(t) = Inserts(s) /\ Updates(t) = Updates(s)
         /\ Deletes(t) \subseteq Deletes(s) /\ Cuttable(t) = Cuttable(s)
         /\ SetsEvent(t) = SetsEvent(s) /\ Owed(t) = Owed(s) /\ Informed(t) = Informed(s)
BY DEF Overtaken, Inserts, Updates, Deletes, Cuttable, SetsEvent, Owed, Informed

LEMMA OvertakenOrderly ==
  ASSUME NEW s, NEW t, NEW cut, Overtaken(s, t, cut), Orderly(s)
  PROVE  Orderly(t)
<1>1. /\ t.pc = s.pc /\ t.op = s.op /\ t.patched = s.patched /\ t.cut = s.cut
      /\ t.put = s.put /\ t.told = s.told /\ t.replace = s.replace /\ t.list = s.list
  BY DEF Overtaken, Unwritten
<1>2. /\ WantsEvent(t) = WantsEvent(s) /\ ToDelete(t) \subseteq ToDelete(s)
      /\ ToPut(t) = ToPut(s) /\ Locks(t) = Locks(s)
  BY <1>1, OvertakenWrites DEF WantsEvent, ToDelete, ToPut, Locks
<1> QED BY <1>1, <1>2, OvertakenWrites DEF Orderly, Passed

LEMMA OrderlyInvNext == TypeInv /\ OrderlyInv /\ [Next]_vars => OrderlyInv'
<1> SUFFICES ASSUME TypeInv, OrderlyInv, [Next]_vars, NEW q \in Requests,
                    req'[q].pc # "idle"
             PROVE  Orderly(req[q])'
  BY DEF OrderlyInv
<1>0. ASSUME Orderly(req'[q]) PROVE Orderly(req[q])'
  BY <1>0 DEF Orderly, Passed, Locks, Cuttable, Inserts, Updates, Deletes, Listed,
              SetsEvent, WantsEvent, ToDelete, ToPut, Owed, Informed, Going
<1>1. CASE req'[q] = req[q]
  BY <1>0, <1>1 DEF OrderlyInv
<1>2. ASSUME NEW r \in Requests, Moved(r) PROVE Orderly(req[q])'
  <2>1. PICK t \in Sessions : Advance(r, t) /\ Moves(r, t)
    BY <1>2 DEF Moved
  <2> QED BY <1>0, <1>1, <2>1, Elsewhere, MovedOrderly
<1>3. ASSUME NEW r \in Requests, Commit(r) PROVE Orderly(req[q])'
  <2>1. Overtaken(req[q], req'[q], req[r].cut) \/ req'[q] = req[q]
    BY <1>3, Commits, Records
  <2>2. CASE Overtaken(req[q], req'[q], req[r].cut)
    BY <1>0, <2>2, OvertakenOrderly DEF OrderlyInv, Overtaken
  <2> QED BY <1>1, <2>1, <2>2
<1>4. ASSUME NEW r \in Requests, Stop(r) PROVE Orderly(req[q])'
  BY <1>1, <1>4, Stops, Records
<1> QED BY <1>1, <1>2, <1>3, <1>4, Steps DEF Tick, Create, vars

LEMMA ParticipationInv == Spec => [](TypeInv /\ Started /\ FreshInv /\ OrderlyInv)
<1>1. Init => TypeInv /\ Started /\ FreshInv /\ OrderlyInv
  BY TypeInvInit, Records DEF Init, Started, FreshInv, OrderlyInv
<1> QED BY <1>1, TypeInvNext, StartedNext, FreshInvNext, OrderlyInvNext, PTL DEF Spec

-----------------------------------------------------------------------------
(* Without edits the limit can only be passed by joins whose check passed  *)
(* and that others overtook: count them as participants already.           *)
Joining == {r \in Requests : Passed(req[r]) /\ req[r].op = "PARTICIPATING"}
Hopeful == Going(rows) \cup {req[r].user : r \in Joining}
Spare == Cardinality(Requests) - 1
HopefulInv ==
  /\ \A r \in Requests : req[r].pc # "idle" => req[r].op # "EDIT" /\ req[r].event = event
  /\ event.rejected = FALSE
  /\ Fits(Cardinality(Hopeful) - Spare, event.max)

(* Fewer users: they fit as well.                                          *)
LEMMA FitsSmaller ==
  ASSUME NEW S \in SUBSET Users, NEW T \in SUBSET S, NEW max \in Nat, NEW k \in Int,
         Fits(Cardinality(S) - k, max)
  PROVE  Fits(Cardinality(T) - k, max)
<1>1. /\ Cardinality(S) \in Nat /\ Cardinality(T) \in Nat
      /\ IsFiniteSet(S)
  BY UserSets, T \in SUBSET Users
<1>2. Cardinality(T) <= Cardinality(S)
  BY <1>1, FS_Subset
<1> QED BY <1>1, <1>2 DEF Fits

(* The users of all requests but one are no more than those requests.      *)
LEMMA Requesters ==
  ASSUME NEW f \in [Requests -> Users], NEW r \in Requests,
         NEW R \in SUBSET (Requests \ {r})
  PROVE  /\ {f[q] : q \in R} \in SUBSET Users
         /\ Cardinality({f[q] : q \in R}) <= Spare
         /\ Spare \in Nat
<1>1. /\ IsFiniteSet(Requests \ {r})
      /\ Cardinality(Requests \ {r}) = Cardinality(Requests) - 1
  BY FS_RemoveElement, RequestsAssumption
<1>2. IsFiniteSet(R) /\ Cardinality(R) <= Cardinality(Requests \ {r})
  BY <1>1, FS_Subset
<1>3. /\ Cardinality(R) \in Nat /\ Cardinality(Requests) \in Nat
      /\ Cardinality(Requests \ {r}) \in Nat
  BY <1>1, <1>2, FS_CardinalityType, RequestsAssumption
<1> DEFINE T == {f[q] : q \in R}
           g == [q \in R |-> f[q]]
<1>4. g \in Surjection(R, T)
  BY DEF Surjection
<1>5. IsFiniteSet(T) /\ Cardinality(T) <= Cardinality(R)
  BY <1>2, <1>4, FS_Surjection
<1>6. Cardinality(T) \in Nat
  BY <1>5, FS_CardinalityType
<1> QED BY <1>1, <1>2, <1>3, <1>5, <1>6 DEF Spare

LEMMA LimitsNat == Limits \subseteq Nat
<1>1. Capacities \subseteq Nat
  BY CapacityAssumption, Zenon
<1> QED BY <1>1 DEF Limits, Unlimited

LEMMA HopefulUsers == TypeInv => Hopeful \in SUBSET Users /\ Spare \in Nat
<1> SUFFICES ASSUME TypeInv PROVE Hopeful \in SUBSET Users /\ Spare \in Nat
  OBVIOUS
<1>1. Hopeful \in SUBSET Users
  BY DEF TypeInv, TypeOK, Hopeful, Joining, Going, Sessions
<1>2. PICK r \in Requests : TRUE
  BY RequestsAssumption
<1>3. [q \in Requests |-> req[q].user] \in [Requests -> Users]
  BY DEF TypeInv, TypeOK, Sessions
<1>4. Spare \in Nat
  BY <1>3, Requesters, {} \in SUBSET (Requests \ {r})
<1> QED BY <1>1, <1>4

(* Steps after which nobody else hopes for a place.                        *)
LEMMA HopefulShrinks ==
  ASSUME TypeInv, HopefulInv, event' = event, Hopeful' \subseteq Hopeful,
         \A r \in Requests :
           req'[r].pc # "idle" => req'[r].op # "EDIT" /\ req'[r].event = event
  PROVE  HopefulInv'
<1>1. event.max \in Nat
  BY LimitsNat DEF TypeInv, TypeOK, Events
<1>2. Fits(Cardinality(Hopeful') - Spare, event.max)
  BY <1>1, HopefulUsers, FitsSmaller DEF HopefulInv
<1> QED BY <1>2 DEF HopefulInv, Spare

(* A join that passes the check leaves room for itself, and the others     *)
(* that hope are the users of the other requests.                          *)
LEMMA JoinHopeful ==
  ASSUME TypeInv, HopefulInv, NEW r \in Requests, NEW t \in Sessions, Advance(r, t),
         Passes(req[r], t), JoinAllowed(req[r])
  PROVE  HopefulInv'
<1> DEFINE u == req[r].user
           Rest == {req[q].user : q \in Joining \ {r}}
           Others == Going(rows) \ {u}
<1>1. /\ req[r] \in Sessions /\ u \in Users /\ rows' = rows /\ event' = event
      /\ req[r].event = event /\ req[r].op = "PARTICIPATING"
  BY DEF TypeInv, TypeOK, Sessions, Advance, HopefulInv, JoinAllowed, Passes
<1>2. \A q \in Requests : req'[q] = IF q = r THEN t ELSE req[q]
  BY Elsewhere
<1>3. t.op = req[r].op /\ t.user = u /\ t.event = req[r].event
  BY DEF Passes, Same, Kept
<1>4. Hopeful' \subseteq (Others \cup {u}) \cup Rest
  <2>1. ASSUME NEW q \in Joining' PROVE req'[q].user \in {u} \cup Rest
    <3>1. CASE q = r
      BY <1>2, <1>3, <3>1
    <3>2. CASE q # r
      <4>1. req'[q] = req[q] /\ q \in Joining
        BY <1>2, <2>1, <3>2 DEF Joining, Passed
      <4> QED BY <3>2, <4>1
    <3> QED BY <3>1, <3>2
  <2>2. Going(rows') \subseteq Others \cup {u}
    BY <1>1 DEF Going
  <2> HIDE DEF Others, Rest
  <2> QED BY <2>1, <2>2 DEF Hopeful
<1>5. /\ Rest \in SUBSET Users /\ Cardinality(Rest) <= Spare /\ Spare \in Nat
      /\ Others \in SUBSET Users
  <2>1. [q \in Requests |-> req[q].user] \in [Requests -> Users]
    BY DEF TypeInv, TypeOK, Sessions
  <2>2. Joining \ {r} \in SUBSET (Requests \ {r})
    BY DEF Joining
  <2>3. Rest = {[p \in Requests |-> req[p].user][q] : q \in Joining \ {r}}
    BY DEF Joining
  <2> QED BY <2>1, <2>2, <2>3, Requesters DEF Going
<1>6. Cardinality(Others \cup {u}) = Cardinality(Others) + 1
  BY <1>5, UserSets, FS_AddElement
<1>7. Cardinality((Others \cup {u}) \cup Rest) <= Cardinality(Others) + 1 + Spare
  <2>1. /\ IsFiniteSet(Others \cup {u}) /\ IsFiniteSet(Rest)
        /\ Cardinality(Others) \in Nat /\ Cardinality(Rest) \in Nat
        /\ (Others \cup {u}) \cap Rest \in SUBSET Users
    BY <1>1, <1>5, UserSets, Others \cup {u} \in SUBSET Users
  <2>2. Cardinality((Others \cup {u}) \cap Rest) \in Nat
    BY <2>1, UserSets
  <2>3. Cardinality((Others \cup {u}) \cup Rest)
          = Cardinality(Others \cup {u}) + Cardinality(Rest)
              - Cardinality((Others \cup {u}) \cap Rest)
    BY <2>1, FS_Union
  <2> HIDE DEF Others, Rest
  <2> QED BY <1>5, <1>6, <2>1, <2>2, <2>3
<1>8. Fits(Cardinality(Others) + 1, event.max) /\ event.max \in Nat
  BY <1>1, LimitsNat DEF JoinAllowed, TypeInv, TypeOK, Events
<1>9. Fits(Cardinality(Hopeful') - Spare, event.max)
  <2> DEFINE W == (Others \cup {u}) \cup Rest
  <2>1. W \in SUBSET Users
    BY <1>1, <1>5
  <2>2. Cardinality(W) \in Nat /\ Cardinality(Others) \in Nat
    BY <1>5, <2>1, UserSets
  <2>3. Fits(Cardinality(W) - Spare, event.max)
    <3> HIDE DEF Others, Rest
    <3> QED BY <1>5, <1>7, <1>8, <2>2 DEF Fits
  <2> HIDE DEF W
  <2> QED BY <1>4, <1>5, <1>8, <2>1, <2>3, FitsSmaller DEF W
<1>10. \A q \in Requests :
         req'[q].pc # "idle" => req'[q].op # "EDIT" /\ req'[q].event = event
  BY <1>1, <1>2, <1>3 DEF HopefulInv
<1> QED BY <1>1, <1>9, <1>10 DEF HopefulInv, Spare

LEMMA MovedHopeful ==
  ASSUME TypeInv, HopefulInv, Payloads = {}, NEW r \in Requests, NEW t \in Sessions,
         Advance(r, t), Moves(r, t)
  PROVE  HopefulInv'
<1> DEFINE s == req[r]
<1>0. /\ event' = event /\ rows' = rows
      /\ \A q \in Requests : req'[q] = IF q = r THEN t ELSE req[q]
  BY Elsewhere
<1>1. t.op # "EDIT" /\ t.event = event
  <2>1. CASE Begins(s, t)
    BY <2>1 DEF Begins, Status
  <2>2. CASE Kept(s, t) /\ s.pc # "idle"
    BY <2>2 DEF Kept, HopefulInv
  <2> QED BY <2>1, <2>2
          DEF Moves, Loads, Selects, Passes, Writes, Tells, Flushed, Same
<1>2. CASE Passed(t) /\ t.op = "PARTICIPATING" => Passed(s) /\ Kept(s, t)
  <2>1. Hopeful' \subseteq Hopeful
    BY <1>0, <1>2 DEF Hopeful, Joining, Passed, Going, Kept
  <2>2. \A q \in Requests :
          req'[q].pc # "idle" => req'[q].op # "EDIT" /\ req'[q].event = event
    BY <1>0, <1>1 DEF HopefulInv
  <2> QED BY <1>0, <2>1, <2>2, HopefulShrinks
<1>3. CASE Passes(s, t) /\ t.op = "PARTICIPATING"
  <2>1. JoinAllowed(s)
    BY <1>3 DEF Passes, Same, Kept, EditAllowed, LeaveAllowed
  <2> QED BY <1>3, <2>1, JoinHopeful
<1> QED BY <1>2, <1>3
        DEF Moves, Begins, Loads, Selects, Passes, Writes, Tells, Flushed, Same, Passed

LEMMA HopefulNext ==
  ASSUME Payloads = {}
  PROVE  TypeInv /\ Started /\ OrderlyInv /\ HopefulInv /\ [Next]_vars => HopefulInv'
<1> SUFFICES ASSUME TypeInv, Started, OrderlyInv, HopefulInv, [Next]_vars
             PROVE  HopefulInv'
  OBVIOUS
<1>1. CASE Tick \/ UNCHANGED vars
  BY <1>1 DEF Tick, vars, HopefulInv, Hopeful, Joining, Passed, Going, Spare, Fits
<1>2. ASSUME NEW max \in Limits, NEW ends \in EndTimes, NEW list \in SUBSET Users,
             Create(max, ends, list)
      PROVE  HopefulInv'
  <2>1. \A r \in Requests : req'[r].pc = "idle"
    BY <1>2 DEF Create, Started
  <2>2. Hopeful' = list
    BY <1>2, <2>1 DEF Create, Hopeful, Joining, Passed, Going, Enrolled
  <2>3. event'.max = max /\ event'.rejected = FALSE
    BY <1>2 DEF Create
  <2>4. Fits(Cardinality(list) - Spare, max)
    <3>1. Fits(Cardinality(list), max) /\ Cardinality(list) \in Nat /\ Spare \in Nat
      BY <1>2, UserSets, HopefulUsers DEF Create
    <3>2. max \in Nat
      BY LimitsNat
    <3> QED BY <3>1, <3>2 DEF Fits
  <2> QED BY <2>1, <2>2, <2>3, <2>4 DEF HopefulInv, Spare
<1>3. ASSUME NEW r \in Requests, Stop(r) PROVE HopefulInv'
  <2>1. Hopeful' \subseteq Hopeful
    BY <1>3, Stops, Records DEF Hopeful, Joining, Passed, Going
  <2>2. \A q \in Requests :
          req'[q].pc # "idle" => req'[q].op # "EDIT" /\ req'[q].event = event
    BY <1>3, Stops, Records DEF HopefulInv
  <2> QED BY <1>3, <2>1, <2>2, Stops, HopefulShrinks
<1>4. ASSUME NEW r \in Requests, Moved(r) PROVE HopefulInv'
  BY <1>4, MovedHopeful DEF Moved
<1>5. ASSUME NEW r \in Requests, Commit(r) PROVE HopefulInv'
  <2>1. /\ req[r].op # "EDIT" /\ req[r].pc = "mailed" /\ req[r] \in Sessions
        /\ rows' = Written(req[r]) /\ event' = event /\ Orderly(req[r])
    BY <1>5 DEF Commit, HopefulInv, OrderlyInv, Patched, TypeInv, TypeOK
  <2>2. ASSUME NEW q \in Requests
        PROVE  \/ req'[q].pc = "idle"
               \/ /\ req'[q].pc = req[q].pc /\ req'[q].op = req[q].op
                  /\ req'[q].user = req[q].user /\ req'[q].event = req[q].event
    BY <1>5, Commits, Records DEF Overtaken
  <2>3. Going(rows') \subseteq Hopeful
    <3> SUFFICES ASSUME NEW u \in Users, Written(req[r])[u] = "PARTICIPATING",
                        rows[u] # "PARTICIPATING"
                 PROVE  u = req[r].user /\ req[r].op = "PARTICIPATING"
      BY <2>1 DEF Going, Hopeful, Joining, Passed
    <3>1. u \in req[r].put /\ req[r].op = "PARTICIPATING"
      BY <2>1 DEF Written
    <3> QED BY <2>1, <3>1 DEF Orderly, Inserts, Updates
  <2>4. Hopeful' \subseteq Hopeful
    <3>1. ASSUME NEW q \in Joining' PROVE req'[q].user \in Hopeful
      BY <2>2 DEF Joining, Passed, Hopeful
    <3> QED BY <2>3, <3>1 DEF Hopeful
  <2>5. \A q \in Requests :
          req'[q].pc # "idle" => req'[q].op # "EDIT" /\ req'[q].event = event
    BY <2>2 DEF HopefulInv
  <2> QED BY <2>1, <2>4, <2>5, HopefulShrinks
<1> QED BY <1>1, <1>2, <1>3, <1>4, <1>5, Steps

(* With no edits the limit is passed by at most one participant for each   *)
(* further request in flight, however requests overlap: the check of       *)
(* update_my_participation and its missing lock cost no more than that.    *)
THEOREM OversellIsBounded ==
  ASSUME Payloads = {}
  PROVE  Spec => []OversellBound
<1>1. Init => HopefulInv
  <2> SUFFICES ASSUME Init PROVE HopefulInv
    OBVIOUS
  <2>1. \A r \in Requests : req[r].pc = "idle"
    BY Records DEF Init
  <2>2. event.max = 0 /\ event.rejected = FALSE
    BY DEF Init, NoEvent, Unlimited
  <2> QED BY <2>1, <2>2 DEF HopefulInv, Fits, Unlimited
<1>2. TypeInv /\ HopefulInv => OversellBound
  <2> SUFFICES ASSUME TypeInv, HopefulInv PROVE OversellBound
    OBVIOUS
  <2>1. Going(rows) \in SUBSET Hopeful /\ Hopeful \in SUBSET Users /\ Spare \in Nat
    BY HopefulUsers DEF Hopeful
  <2>2. event.max \in Nat
    BY LimitsNat DEF TypeInv, TypeOK, Events
  <2>3. Fits(Cardinality(Hopeful) - Spare, event.max)
    BY DEF HopefulInv
  <2>4. Fits(Cardinality(Going(rows)) - Spare, event.max)
    BY <2>1, <2>2, <2>3, FitsSmaller
  <2> QED BY <2>4 DEF OversellBound, Spare
<1> QED BY <1>1, <1>2, HopefulNext, ParticipationInv, PTL DEF Spec

LEMMA SameCardinality ==
  ASSUME NEW S PROVE Overlapping!Cardinality(S) = Cardinality(S)
BY DEF Overlapping!Cardinality, Cardinality, Overlapping!IsFiniteSet, IsFiniteSet

(* With no edits, the overlapping requests implement Roster with one place *)
(* of slack for each further request: each commit is one decision of one   *)
(* user about themselves, and nothing else changes the roster.             *)
THEOREM ImplementsOverlappingRoster ==
  ASSUME Payloads = {}
  PROVE  Spec => OverlappingRoster
<1> USE DEF Overlapping!Going, Overlapping!Listed, Overlapping!Enrolled, Overlapping!Fits
<1>1. Init => Overlapping!Init
  BY DEF Init, Overlapping!Init, Open, NoEvent, Unlimited, Enrolled
<1>2. Init => HopefulInv
  <2> SUFFICES ASSUME Init PROVE HopefulInv
    OBVIOUS
  <2>1. \A r \in Requests : req[r].pc = "idle"
    BY Records DEF Init
  <2>2. event.max = 0 /\ event.rejected = FALSE
    BY DEF Init, NoEvent, Unlimited
  <2> QED BY <2>1, <2>2 DEF HopefulInv, Fits, Unlimited
<1>3. TypeInv /\ Started /\ OrderlyInv /\ HopefulInv /\ [Next]_vars
        => [Overlapping!Next]_(Overlapping!vars)
  <2> SUFFICES ASSUME TypeInv, Started, OrderlyInv, HopefulInv, [Next]_vars
               PROVE  Overlapping!Next \/ UNCHANGED <<Open, event.max, rows>>
    BY DEF Overlapping!vars
  <2>1. ASSUME event' = event, rows' = rows PROVE UNCHANGED <<Open, event.max, rows>>
    BY <2>1 DEF Open
  <2>2. ASSUME NEW max \in Limits, NEW ends \in EndTimes, NEW list \in SUBSET Users,
               Create(max, ends, list)
        PROVE  Overlapping!Next
    <3>1. Open' = TRUE /\ event'.max = max /\ rows' = Enrolled(list)
      BY <2>2 DEF Create, Open
    <3>2. Fits(Cardinality(list), max) /\ max \in Capacities \cup {0}
      BY <2>2 DEF Create, Limits, Unlimited
    <3>3. Overlapping!Enroll(max, list)
      BY <3>1, <3>2, SameCardinality DEF Overlapping!Enroll, Fits, Unlimited, Enrolled
    <3> QED BY <3>2, <3>3 DEF Overlapping!Next
  <2>3. ASSUME NEW r \in Requests, Commit(r), rows' # rows PROVE Overlapping!Next
    <3> DEFINE s == req[r]
               u == s.user
    <3>1. /\ s \in Sessions /\ s.op # "EDIT" /\ s.pc = "mailed"
          /\ rows' = Written(s) /\ event' = event /\ event.exists
          /\ rows \in Rosters /\ rows' \in Rosters /\ Orderly(s)
      BY <2>3, TypeInvNext
         DEF TypeInv, TypeOK, Commit, HopefulInv, OrderlyInv, Patched, Started
    <3>2. /\ rows' = [rows EXCEPT ![u] = rows'[u]] /\ u \in Users /\ rows'[u] \in Status
          /\ \A v \in Users \ {u} : rows'[v] = rows[v]
      <4>1. s.put \subseteq {u} /\ s.cut \subseteq {u}
        BY <3>1 DEF Orderly, Inserts, Updates, Cuttable
      <4> QED BY <3>1, <4>1 DEF Written, Sessions, Rosters
    <3>3. rows'[u] = "PARTICIPATING" => s.op = "PARTICIPATING"
      <4>1. rows'[u] # rows[u]
        BY <2>3, <3>1, <3>2 DEF Rosters
      <4> QED BY <3>1, <3>2, <4>1 DEF Written, Sessions, Status
    <3>4. ASSUME rows'[u] = "PARTICIPATING"
          PROVE  Fits(Cardinality(Going(rows) \ {u}) + 1 - Spare, event.max)
      <4>1. (Going(rows) \ {u}) \cup {u} \in SUBSET Hopeful
        BY <3>1, <3>3, <3>4 DEF Hopeful, Joining, Passed
      <4>2. Cardinality((Going(rows) \ {u}) \cup {u}) = Cardinality(Going(rows) \ {u}) + 1
        BY UserSets, Going(rows) \ {u} \in SUBSET Users, FS_AddElement DEF Going
      <4>3. event.max \in Nat
        BY LimitsNat DEF TypeInv, TypeOK, Events
      <4>4. Fits(Cardinality((Going(rows) \ {u}) \cup {u}) - Spare, event.max)
        BY <4>1, <4>3, HopefulUsers, FitsSmaller DEF HopefulInv
      <4>5. /\ Cardinality(Going(rows) \ {u}) \in Nat /\ Spare \in Nat
            /\ Cardinality((Going(rows) \ {u}) \cup {u}) \in Nat
        BY <3>2, HopefulUsers, UserSets, Going(rows) \ {u} \in SUBSET Users,
           (Going(rows) \ {u}) \cup {u} \in SUBSET Users DEF Going
      <4> HIDE DEF u
      <4> QED BY <4>2, <4>3, <4>4, <4>5 DEF Fits
    <3>5. Open /\ Open' = Open /\ event'.max = event.max
      BY <3>1 DEF Open, HopefulInv
    <3>6. Overlapping!Decide(u, rows'[u])
      <4> HIDE DEF s, u
      <4> QED BY <3>2, <3>4, <3>5, SameCardinality
               DEF Overlapping!Decide, Fits, Unlimited, Spare, Going
    <3> QED BY <3>2, <3>6 DEF Overlapping!Next, Status
  <2>4. ASSUME NEW r \in Requests, Commit(r), rows' = rows
        PROVE  UNCHANGED <<Open, event.max, rows>>
    <3>1. event' = event
      BY <2>4 DEF Commit, HopefulInv, Patched
    <3> QED BY <2>1, <2>4, <3>1
  <2> QED BY <2>1, <2>2, <2>3, <2>4, Steps DEF vars, Tick, Moved, Advance, Stop
<1> QED BY <1>1, <1>2, <1>3, HopefulNext, ParticipationInv, PTL
        DEF Spec, OverlappingRoster, Overlapping!Spec

-----------------------------------------------------------------------------
(* A commit enrols whom the session has put, and nobody else.              *)
LEMMA EnrolledArePut ==
  ASSUME NEW r \in Requests, Commit(r), NEW u \in Users, NowGoing(u)
  PROVE  u \in req[r].put
BY DEF Commit, NowGoing, Written

(* Nobody starts taking part unannounced: the notice is out before the     *)
(* commit, to the administrators or, for an edit, to whomever it enrols.   *)
(* A user who leaves is announced too, unless the request was overtaken.   *)
THEOREM NoticesComeFirst == Spec => NoticeFirst
<1>1. ASSUME TypeInv, OrderlyInv, NEW r \in Requests, Commit(r), req[r].op = "EDIT",
             NEW u \in Users, NowGoing(u)
      PROVE  req[r].told /\ u \in Informed(req[r])
  <2>1. Orderly(req[r]) /\ req[r].told = Owed(req[r])
    BY <1>1 DEF Commit, OrderlyInv, Orderly
  <2>2. u \in req[r].list
    BY <1>1, <2>1, EnrolledArePut DEF Orderly, Inserts, Updates
  <2>3. Informed(req[r]) = req[r].list
    BY <1>1, <2>1, <2>2 DEF Orderly, Informed
  <2> QED BY <1>1, <2>1, <2>2, <2>3 DEF Owed
<1>2. ASSUME TypeInv, FreshInv, OrderlyInv, NEW r \in Requests, Commit(r),
             HasAdmins, req[r].op # "EDIT", ~req[r].told
      PROVE  ~NowGoing(req[r].user) /\ (NoMoreGoing(req[r].user) => req[r].stale)
  <2> DEFINE s == req[r]
  <2>1. /\ s \in Sessions /\ s.pc = "mailed" /\ rows' = Written(s) /\ s.user \in Users
        /\ Orderly(s) /\ ~Owed(s)
    BY <1>2 DEF Commit, TypeInv, TypeOK, Sessions, OrderlyInv, Orderly
  <2>2. s.op \in {"NONE", "REJECTED"} /\ s.mine # "PARTICIPATING"
    <3>1. s.op \in Status
      BY <1>2, <2>1 DEF Sessions
    <3> QED BY <1>2, <2>1, <3>1 DEF Owed, Status
  <2>3. rows'[s.user] \in {"NONE", "REJECTED", rows[s.user]}
    BY <1>2, <2>1, <2>2 DEF Written
  <2>4. ~s.stale => rows[s.user] = s.mine
    BY <1>2, <2>1 DEF FreshInv, Fresh
  <2> HIDE DEF s
  <2> QED BY <2>2, <2>3, <2>4 DEF NowGoing, NoMoreGoing, s
<1>3. TypeInv /\ FreshInv /\ OrderlyInv =>
        [\A r \in Requests : Commit(r) =>
           /\ req[r].op = "EDIT" =>
                \A u \in Users : NowGoing(u) => req[r].told /\ u \in Informed(req[r])
           /\ HasAdmins /\ req[r].op # "EDIT" =>
                \/ req[r].told
                \/ ~NowGoing(req[r].user) /\ (NoMoreGoing(req[r].user) => req[r].stale)]_vars
  BY <1>1, <1>2
<1> QED BY <1>3, ParticipationInv, PTL DEF NoticeFirst

-----------------------------------------------------------------------------
(* With one request at a time no session is overtaken.                     *)
NeverStale == \A r \in Requests : ~req[r].stale
LEMMA Alone ==
  ASSUME \A q, r \in Requests : q = r
  PROVE  Spec => []NeverStale
<1>1. Init => NeverStale
  BY DEF Init, Idle, NeverStale
<1>2. TypeInv /\ NeverStale /\ [Next]_vars => NeverStale'
  <2> SUFFICES ASSUME TypeInv, NeverStale, [Next]_vars PROVE NeverStale'
    OBVIOUS
  <2>1. ~Idle.stale
    BY DEF Idle
  <2>2. ASSUME NEW r \in Requests, Stop(r) \/ Commit(r) PROVE NeverStale'
    BY <2>1, <2>2, Stops, Commits DEF NeverStale
  <2>3. ASSUME NEW r \in Requests, Moved(r) PROVE NeverStale'
    <3>1. PICK t \in Sessions : Advance(r, t) /\ Moves(r, t)
      BY <2>3 DEF Moved
    <3>2. ~t.stale
      BY <3>1 DEF Moves, Begins, Loads, Selects, Passes, Writes, Tells, Same, Kept, NeverStale
    <3> QED BY <3>1, <3>2, Elsewhere DEF NeverStale
  <2> QED BY <2>2, <2>3, Steps DEF Tick, Create, vars, NeverStale
<1> QED BY <1>1, <1>2, TypeInvInit, TypeInvNext, PTL DEF Spec

LEMMA SameSize ==
  ASSUME NEW S PROVE Serial!Cardinality(S) = Cardinality(S)
BY DEF Serial!Cardinality, Cardinality, Serial!IsFiniteSet, IsFiniteSet

(* What a commit that is not overtaken does to the roster.                 *)
LEMMA SerialCommit ==
  ASSUME TypeInv, TypeInv', Started, FreshInv, OrderlyInv, NEW r \in Requests,
         Commit(r), ~req[r].stale
  PROVE  Serial!Next
<1> USE DEF Serial!Going, Serial!Listed, Serial!Enrolled, Serial!Fits
<1> DEFINE s == req[r]
           u == s.user
<1>1. /\ s \in Sessions /\ s.pc = "mailed" /\ rows' = Written(s) /\ event' = Patched(s)
      /\ event.exists /\ rows \in Rosters /\ rows' \in Rosters
      /\ event \in Events /\ event' \in Events
  BY DEF Commit, TypeInv, TypeOK, Started
<1>2. Fresh(s) /\ Passed(s) /\ Orderly(s)
  BY <1>1 DEF FreshInv, OrderlyInv, Passed
<1>3. event'.max \in Capacities \cup {0} /\ Open' \in BOOLEAN
  BY <1>1 DEF Events, Limits, Unlimited, Open
<1> HIDE DEF s
<1>4. ASSUME s.op = "EDIT" PROVE event'.max = s.next.max
  BY <1>1, <1>2, <1>4 DEF Patched, Fresh, Events
<1>5. /\ Deletes(s) \subseteq s.cut /\ s.cut \subseteq Cuttable(s)
      /\ s.put = Inserts(s) \cup Updates(s)
  BY <1>1, <1>2 DEF Orderly, ToDelete, ToPut
<1>6. CASE s.op = "EDIT" /\ s.replace
  <2>1. /\ s.put = s.list /\ Listed(rows) \subseteq s.cut
    BY <1>1, <1>2, <1>5, <1>6 DEF Inserts, Updates, Deletes, Fresh
  <2>2. rows' = Enrolled(s.list)
    BY <1>1, <1>6, <2>1 DEF Written, Listed, Rosters, Status, Enrolled
  <2>3. Fits(Cardinality(s.list), event'.max) /\ s.list \in SUBSET Users
    BY <1>1, <1>2, <1>4, <1>6 DEF Fresh, EditAllowed, Sessions
  <2>4. Serial!Enroll(event'.max, s.list)
    BY <1>3, <2>2, <2>3, SameSize DEF Serial!Enroll, Fits, Unlimited, Enrolled
  <2> QED BY <1>3, <2>3, <2>4 DEF Serial!Next
<1>7. CASE s.op = "EDIT" /\ ~s.replace
  <2>1. s.put = {} /\ s.cut = {}
    BY <1>2, <1>5, <1>7 DEF Orderly, Inserts, Updates, Cuttable
  <2>2. rows' = rows
    BY <1>1, <2>1 DEF Written, Rosters
  <2>3. Fits(Cardinality(Listed(rows)), event'.max)
    BY <1>1, <1>2, <1>4, <1>7 DEF Fresh, EditAllowed
  <2>4. Serial!Edit(event'.max)
    BY <1>3, <2>2, <2>3, SameSize DEF Serial!Edit, Fits, Unlimited, Listed
  <2> QED BY <1>3, <2>4 DEF Serial!Next
<1>8. CASE s.op # "EDIT"
  <2>1. event' = event /\ Open' = Open /\ Open
    BY <1>1, <1>2, <1>8 DEF Patched, Open, Fresh
  <2>2. s.put \subseteq {u} /\ s.cut \subseteq {u} /\ u \in Users /\ s.op \in Status
    BY <1>1, <1>5, <1>8 DEF Inserts, Updates, Cuttable, Sessions
  <2>3. rows' = [rows EXCEPT ![u] = rows'[u]] /\ rows'[u] \in Status
    BY <1>1, <2>2 DEF Written, Rosters
  <2>4. s.mine = rows[u] /\ s.gone = {}
    BY <1>1, <1>2, <1>8 DEF Fresh
  <2>5. rows'[u] = s.op
    <3>1. CASE s.op = "NONE"
      <4>1. s.put = {}
        BY <1>5, <3>1 DEF Inserts, Updates
      <4>2. s.mine # "NONE" => u \in s.cut
        BY <1>5, <2>4, <3>1 DEF Deletes
      <4> QED BY <1>1, <2>2, <2>4, <3>1, <4>1, <4>2 DEF Written
    <3>2. CASE s.op # "NONE"
      <4>1. s.cut = {}
        BY <1>5, <1>8, <3>2 DEF Cuttable
      <4>2. s.mine # s.op => u \in s.put
        BY <1>5, <1>8, <3>2 DEF Inserts, Updates
      <4> QED BY <1>1, <1>8, <2>2, <2>4, <4>1, <4>2 DEF Written
    <3> QED BY <3>1, <3>2
  <2>6. rows'[u] = "PARTICIPATING" => Fits(Cardinality(Going(rows) \ {u}) + 1, event.max)
    BY <1>2, <2>5 DEF Fresh
  <2>7. Cardinality(Going(rows) \ {u}) + 1 - 0 = Cardinality(Going(rows) \ {u}) + 1
    <3>1. Cardinality(Going(rows) \ {u}) \in Nat
      BY UserSets, Going(rows) \ {u} \in SUBSET Users DEF Going
    <3> QED BY <3>1
  <2> HIDE DEF u
  <2>8. Serial!Decide(u, rows'[u])
    BY <2>1, <2>3, <2>6, <2>7, SameSize DEF Serial!Decide, Fits, Unlimited, Going
  <2> QED BY <2>2, <2>3, <2>8 DEF Serial!Next, Status
<1> QED BY <1>6, <1>7, <1>8

(* However requests overlap, what a commit does that was not overtaken is  *)
(* a step of Roster without slack, and no join is of an event that ended   *)
(* before it began.                                                        *)
THEOREM FreshCommitsAreSerial == Spec => FreshIsSerial
<1>1. ASSUME TypeInv, TypeInv', Started, FreshInv, OrderlyInv, NEW r \in Requests,
             Commit(r), ~req[r].stale
      PROVE  /\ Serial!Next
             /\ req[r].op = "PARTICIPATING" => req[r].began < event.ends
  <2>1. Serial!Next
    BY <1>1, SerialCommit
  <2>2. Fresh(req[r]) /\ Passed(req[r])
    BY <1>1 DEF Commit, FreshInv, Passed
  <2> QED BY <2>1, <2>2 DEF Fresh
<1>2. TypeInv /\ TypeInv' /\ Started /\ FreshInv /\ OrderlyInv
        => [\A r \in Requests : (Commit(r) /\ ~req[r].stale) =>
              /\ Serial!Next
              /\ req[r].op = "PARTICIPATING" => req[r].began < event.ends]_vars
  BY <1>1
<1> QED BY <1>2, ParticipationInv, PTL DEF FreshIsSerial

(* One request at a time implements Roster without slack, edits included:  *)
(* no commit passes the limit that the handlers check.                     *)
THEOREM ImplementsSerialRoster ==
  ASSUME \A q, r \in Requests : q = r
  PROVE  Spec => SerialRoster
<1>1. Init => Serial!Init
  BY DEF Init, Serial!Init, Serial!Enrolled, Open, NoEvent, Unlimited, Enrolled
<1>2. TypeInv /\ TypeInv' /\ Started /\ FreshInv /\ OrderlyInv /\ NeverStale /\ [Next]_vars
        => [Serial!Next]_(Serial!vars)
  <2> SUFFICES ASSUME TypeInv, TypeInv', Started, FreshInv, OrderlyInv, NeverStale,
                      [Next]_vars
               PROVE  Serial!Next \/ UNCHANGED <<Open, event.max, rows>>
    BY DEF Serial!vars
  <2>1. ASSUME event' = event, rows' = rows PROVE UNCHANGED <<Open, event.max, rows>>
    BY <2>1 DEF Open
  <2>2. ASSUME NEW max \in Limits, NEW ends \in EndTimes, NEW list \in SUBSET Users,
               Create(max, ends, list)
        PROVE  Serial!Next
    <3>1. Open' = TRUE /\ event'.max = max /\ rows' = Enrolled(list)
      BY <2>2 DEF Create, Open
    <3>2. Fits(Cardinality(list), max) /\ max \in Capacities \cup {0}
      BY <2>2 DEF Create, Limits, Unlimited
    <3>3. Serial!Enroll(max, list)
      BY <3>1, <3>2, SameSize
         DEF Serial!Enroll, Serial!Fits, Serial!Enrolled, Fits, Unlimited, Enrolled
    <3> QED BY <3>2, <3>3 DEF Serial!Next
  <2>3. ASSUME NEW r \in Requests, Commit(r)
        PROVE  Serial!Next \/ UNCHANGED <<Open, event.max, rows>>
    BY <2>3, SerialCommit DEF NeverStale
  <2> QED BY <2>1, <2>2, <2>3, Steps DEF vars, Tick, Moved, Advance, Stop
<1> QED BY <1>1, <1>2, Alone, ParticipationInv, PTL DEF Spec, SerialRoster, Serial!Spec

(* Roster without slack never passes its limit: the roster it starts with  *)
(* is empty, an edit fits all that are listed, and a user who decides      *)
(* leaves at most as many as the check has counted.                        *)
LEMMA SerialFits ==
  ASSUME TypeInv, TypeInv', NeverOversold, Serial!Next
  PROVE  NeverOversold'
<1> USE DEF Serial!Going, Serial!Listed, Serial!Enrolled, Serial!Fits
<1>1. /\ rows \in Rosters /\ rows' \in Rosters
      /\ event.max \in Nat /\ event'.max \in Nat
  BY LimitsNat DEF TypeInv, TypeOK, Events
<1>2. ASSUME NEW m \in Capacities \cup {0}, Serial!Edit(m) PROVE NeverOversold'
  <2>1. /\ rows' = rows /\ event'.max = m
        /\ Fits(Cardinality(Listed(rows)), m)
    BY <1>2, SameSize DEF Serial!Edit, Fits, Unlimited, Listed
  <2>2. Going(rows) \in SUBSET Listed(rows) /\ Listed(rows) \in SUBSET Users
    BY DEF Going, Listed
  <2>3. /\ Cardinality(Listed(rows)) - 0 = Cardinality(Listed(rows))
        /\ Cardinality(Going(rows)) - 0 = Cardinality(Going(rows))
    BY <2>2, UserSets, Going(rows) \in SUBSET Users
  <2> QED BY <1>1, <2>1, <2>2, <2>3, FitsSmaller DEF NeverOversold
<1>3. ASSUME NEW m \in Capacities \cup {0}, NEW list \in SUBSET Users,
             Serial!Enroll(m, list)
      PROVE  NeverOversold'
  <2>1. /\ rows' = Enrolled(list) /\ event'.max = m /\ Fits(Cardinality(list), m)
    BY <1>3, SameSize DEF Serial!Enroll, Fits, Unlimited, Enrolled
  <2>2. Going(rows') = list
    BY <2>1 DEF Going, Enrolled
  <2> QED BY <2>1, <2>2 DEF NeverOversold
<1>4. ASSUME NEW u \in Users, NEW status \in Status, Serial!Decide(u, status)
      PROVE  NeverOversold'
  <2> DEFINE others == Going(rows) \ {u}
  <2>1. /\ rows' = [rows EXCEPT ![u] = status] /\ event'.max = event.max
        /\ status = "PARTICIPATING" => Fits(Cardinality(others) + 1 - 0, event.max)
    BY <1>4, SameSize DEF Serial!Decide, Fits, Unlimited, Going
  <2>2. others \in SUBSET Users /\ Going(rows) \in SUBSET Users
    BY DEF Going
  <2>3. /\ Cardinality(others) \in Nat /\ IsFiniteSet(others)
        /\ Cardinality(others) - 0 = Cardinality(others)
        /\ Cardinality(others) + 1 - 0 = Cardinality(others) + 1
        /\ Cardinality(Going(rows)) - 0 = Cardinality(Going(rows))
    BY <2>2, UserSets
  <2>4. CASE status = "PARTICIPATING"
    <3>1. Going(rows') = others \cup {u} /\ u \notin others
      BY <1>1, <2>1, <2>4 DEF Going, Rosters
    <3> HIDE DEF others
    <3>2. Cardinality(Going(rows')) = Cardinality(others) + 1
      BY <2>3, <3>1, FS_AddElement
    <3> QED BY <2>1, <2>3, <2>4, <3>2 DEF NeverOversold
  <2>5. CASE status # "PARTICIPATING"
    <3>1. Going(rows') = others /\ others \in SUBSET Going(rows)
      BY <1>1, <2>1, <2>5 DEF Going, Rosters
    <3> HIDE DEF others
    <3>2. Fits(Cardinality(others), event.max)
      BY <1>1, <2>2, <2>3, <3>1, FitsSmaller, 0 \in Int DEF NeverOversold
    <3> QED BY <2>1, <3>1, <3>2 DEF NeverOversold
  <2> QED BY <2>4, <2>5
<1> QED BY <1>2, <1>3, <1>4 DEF Serial!Next, Status

(* One request at a time never passes the limit, edits included: it takes  *)
(* two requests to oversell an event.                                      *)
THEOREM SerialRequestsNeverOversell ==
  ASSUME \A q, r \in Requests : q = r
  PROVE  Spec => []NeverOversold
<1>1. Serial!Init => NeverOversold
  BY DEF Serial!Init, NeverOversold, Fits, Unlimited
<1>2. TypeInv /\ TypeInv' /\ NeverOversold /\ [Serial!Next]_(Serial!vars)
        => NeverOversold'
  BY SerialFits DEF Serial!vars, NeverOversold, Fits
<1> QED BY <1>1, <1>2, ImplementsSerialRoster, ParticipationInv, PTL
        DEF SerialRoster, Serial!Spec

-----------------------------------------------------------------------------
(* Row locks: no two transactions have written the same row.               *)
LocksApart ==
  \A q, r \in Requests : q # r =>
    /\ Locks(req[q]) \cap Locks(req[r]) = {}
    /\ ~(req[q].patched /\ req[r].patched)

LEMMA IdleHoldsNothing == Locks(Idle) = {} /\ ~Idle.patched
BY DEF Locks, Idle

(* The idle sessions are as they were before their request.                *)
IdleInv == \A r \in Requests : req[r].pc = "idle" => req[r] = Idle

LEMMA IdleInvNext == TypeInv /\ IdleInv /\ [Next]_vars => IdleInv'
<1> SUFFICES ASSUME TypeInv, IdleInv, [Next]_vars PROVE IdleInv'
  OBVIOUS
<1>1. ASSUME NEW r \in Requests, Moved(r) PROVE IdleInv'
  <2>1. PICK t \in Sessions : Advance(r, t) /\ Moves(r, t)
    BY <1>1 DEF Moved
  <2>2. t.pc # "idle"
    BY <2>1 DEF Moves, Begins, Loads, Selects, Passes, Writes, Tells
  <2> QED BY <2>1, <2>2, Elsewhere DEF IdleInv
<1>2. ASSUME NEW r \in Requests, Stop(r) \/ Commit(r) PROVE IdleInv'
  BY <1>2, Stops, Commits DEF IdleInv, Overtaken
<1> QED BY <1>1, <1>2, Steps DEF Tick, Create, vars, IdleInv

(* A step of a session locks what it writes, and nobody has it locked.     *)
LEMMA MovedLocks ==
  ASSUME TypeInv, IdleInv, LocksApart, NEW r \in Requests, NEW t \in Sessions, Moves(r, t)
  PROVE  \A q \in Requests \ {r} : /\ Locks(req[q]) \cap Locks(t) = {}
                                   /\ ~(req[q].patched /\ t.patched)
<1> DEFINE s == req[r]
<1> SUFFICES ASSUME NEW q \in Requests \ {r}
             PROVE  /\ Locks(req[q]) \cap Locks(t) = {}
                    /\ ~(req[q].patched /\ t.patched)
  OBVIOUS
<1>0. Locks(req[q]) \cap Locks(s) = {} /\ ~(req[q].patched /\ s.patched)
  BY DEF LocksApart
<1>1. CASE Unwritten(s, t)
  BY <1>0, <1>1 DEF Unwritten, Locks
<1>2. CASE Begins(s, t)
  BY <1>2 DEF Begins, Locks
<1>3. CASE Writes(r, t)
  BY <1>0, <1>3 DEF Writes, Locks, Unlocked
<1> QED BY <1>1, <1>2, <1>3 DEF Moves, Loads, Selects, Passes, Tells

LEMMA LocksApartNext == TypeInv /\ IdleInv /\ LocksApart /\ [Next]_vars => LocksApart'
<1> SUFFICES ASSUME TypeInv, IdleInv, LocksApart, [Next]_vars PROVE LocksApart'
  OBVIOUS
<1> USE IdleHoldsNothing
<1>1. ASSUME NEW r \in Requests, Moved(r) PROVE LocksApart'
  <2>1. PICK t \in Sessions : Advance(r, t) /\ Moves(r, t)
    BY <1>1 DEF Moved
  <2>2. \A q \in Requests : req'[q] = IF q = r THEN t ELSE req[q]
    BY <2>1, Elsewhere
  <2>3. \A q \in Requests \ {r} : /\ Locks(req[q]) \cap Locks(t) = {}
                                  /\ ~(req[q].patched /\ t.patched)
    BY <2>1, MovedLocks
  <2> SUFFICES ASSUME NEW p \in Requests, NEW q \in Requests, p # q
               PROVE  /\ Locks(req'[p]) \cap Locks(req'[q]) = {}
                      /\ ~(req'[p].patched /\ req'[q].patched)
    BY DEF LocksApart, Locks
  <2> QED BY <2>2, <2>3 DEF LocksApart
<1>2. ASSUME \A q \in Requests :
               \/ Locks(req'[q]) = {} /\ ~req'[q].patched
               \/ Locks(req'[q]) = Locks(req[q]) /\ req'[q].patched = req[q].patched
      PROVE  LocksApart'
  <2> SUFFICES ASSUME NEW p \in Requests, NEW q \in Requests, p # q
               PROVE  /\ Locks(req'[p]) \cap Locks(req'[q]) = {}
                      /\ ~(req'[p].patched /\ req'[q].patched)
    BY DEF LocksApart, Locks
  <2> QED BY <1>2 DEF LocksApart
<1>3. ASSUME NEW r \in Requests, Stop(r) \/ Commit(r) PROVE LocksApart'
  <2>1. ASSUME NEW q \in Requests
        PROVE  \/ Locks(req'[q]) = {} /\ ~req'[q].patched
               \/ Locks(req'[q]) = Locks(req[q]) /\ req'[q].patched = req[q].patched
    BY <1>3, Stops, Commits DEF Overtaken, Unwritten, Locks
  <2> QED BY <1>2, <2>1
<1> QED BY <1>1, <1>2, <1>3, Steps DEF Tick, Create, vars

(* Whatever a session has put is there to stay until it commits: nobody    *)
(* else writes the row.                                                    *)
PutStands == \A r \in Requests : \A u \in req[r].put : ~PutFails(req[r], u)

LEMMA PutStandsNext ==
  TypeInv /\ Started /\ OrderlyInv /\ IdleInv /\ LocksApart /\ PutStands /\ [Next]_vars
    => PutStands'
<1> SUFFICES ASSUME TypeInv, Started, OrderlyInv, IdleInv, LocksApart, PutStands,
                    [Next]_vars,
                    NEW q \in Requests, NEW u \in req'[q].put
             PROVE  ~PutFails(req[q], u)'
  BY DEF PutStands
<1>0. ASSUME NEW s, NEW t, ~PutFails(s, u), Inserts(t) = Inserts(s), s.cut \subseteq t.cut,
             rows'[u] = rows[u] \/ u \in s.cut, u \in t.gone => u \in s.gone,
             t = req'[q]
      PROVE  ~PutFails(req[q], u)'
  BY <1>0 DEF PutFails, Inserts
<1>1. CASE req'[q] = req[q] /\ rows' = rows
  BY <1>0, <1>1 DEF PutStands
<1>2. ASSUME NEW max \in Limits, NEW ends \in EndTimes, NEW list \in SUBSET Users,
             Create(max, ends, list)
      PROVE  FALSE
  <2>1. req'[q] = Idle
    BY <1>2 DEF Create, Started, IdleInv
  <2> QED BY <2>1 DEF Idle
<1>3. ASSUME NEW r \in Requests, Stop(r) PROVE ~PutFails(req[q], u)'
  <2>1. Idle.put = {}
    BY DEF Idle
  <2> QED BY <1>1, <1>3, <2>1, Stops
<1>4. ASSUME NEW r \in Requests, Moved(r) PROVE ~PutFails(req[q], u)'
  <2>1. PICK t \in Sessions : Advance(r, t) /\ Moves(r, t)
    BY <1>4 DEF Moved
  <2>2. rows' = rows /\ (q # r => req'[q] = req[q]) /\ (q = r => req'[q] = t)
    BY <2>1, Elsewhere
  <2>3. CASE q = r /\ (Passes(req[r], t) \/ Tells(req[r], t))
    <3>1. Same(req[r], t) /\ Unwritten(req[r], t)
      BY <2>3 DEF Passes, Tells
    <3>2. ~PutFails(req[r], u)
      BY <2>2, <2>3, <3>1 DEF PutStands, Unwritten
    <3> QED BY <1>0, <2>2, <2>3, <3>1, <3>2, SameWrites DEF Same, Unwritten
  <2>4. CASE q = r /\ Writes(r, t)
    <3>1. Same(req[r], t) /\ req[r].cut \subseteq t.cut
      BY <2>4 DEF Writes
    <3>2. ~PutFails(req[r], u)
      BY <2>2, <2>4 DEF PutStands, Writes
    <3> QED BY <1>0, <2>2, <2>4, <3>1, <3>2, SameWrites DEF Same
  <2>5. CASE q = r /\ (Begins(req[r], t) \/ Loads(req[r], t) \/ Selects(req[r], t))
    <3>1. t.put = {}
      BY <2>5 DEF Begins, Loads, Selects, Unwritten, OrderlyInv, Orderly, Passed, Locks
    <3> QED BY <2>2, <2>5, <3>1
  <2> QED BY <1>1, <2>1, <2>2, <2>3, <2>4, <2>5 DEF Moves
<1>5. ASSUME NEW r \in Requests, Commit(r) PROVE ~PutFails(req[q], u)'
  <2>1. /\ q # r /\ req[q].pc # "idle"
        /\ Overtaken(req[q], req'[q], req[r].cut)
    <3>1. Idle.put = {}
      BY DEF Idle
    <3> QED BY <1>5, <3>1, Commits DEF IdleInv
  <2>2. u \in req[q].put /\ u \in Locks(req[q]) /\ u \notin Locks(req[r])
    BY <2>1 DEF Overtaken, Unwritten, Locks, LocksApart
  <2>3. u \in Users
    BY <2>2 DEF TypeInv, TypeOK, Sessions
  <2>4. rows'[u] = rows[u]
    BY <1>5, <2>2, <2>3 DEF Commit, Written, Locks
  <2>5. u \in req'[q].gone => u \in req[q].gone
    BY <2>1, <2>2 DEF Overtaken, Locks
  <2>6. Inserts(req'[q]) = Inserts(req[q]) /\ req'[q].cut = req[q].cut
    BY <2>1, OvertakenWrites DEF Overtaken, Unwritten
  <2> QED BY <1>0, <2>2, <2>4, <2>5, <2>6 DEF PutStands
<1> QED BY <1>1, <1>2, <1>3, <1>4, <1>5, Steps DEF Tick, vars

LEMMA LocksInv == Spec => [](IdleInv /\ LocksApart /\ PutStands)
<1>1. Init => IdleInv /\ LocksApart /\ PutStands
  BY IdleHoldsNothing DEF Init, IdleInv, LocksApart, PutStands, Idle
<1> QED BY <1>1, IdleInvNext, LocksApartNext, PutStandsNext, ParticipationInv, PTL DEF Spec

(* Once its notice is out nothing of a request can be refused any more,    *)
(* for any requests that overlap.                                          *)
THEOREM FlushesStand == Spec => []FlushStands
<1>1. TypeInv /\ OrderlyInv /\ PutStands => FlushStands
  <2> SUFFICES ASSUME TypeInv, OrderlyInv, PutStands, NEW r \in Requests,
                      NEW u \in Inserts(req[r]) \cup Updates(req[r]),
                      req[r].pc = "mailed" \/ u \in req[r].put
               PROVE  ~PutFails(req[r], u)
    BY DEF FlushStands
  <2>1. req[r].pc = "mailed" => u \in req[r].put
    BY DEF OrderlyInv, Orderly, ToPut
  <2> QED BY <2>1 DEF PutStands
<1> QED BY <1>1, ParticipationInv, LocksInv, PTL

(* What a user's request, or an edit that keeps the roster, waits for is   *)
(* the only thing it writes; and who waits for the event row has written   *)
(* nothing yet.  So nobody waits for either.                               *)
LEMMA WaitsEmptyHanded ==
  ASSUME TypeInv, OrderlyInv, NEW r \in Requests, NEW p \in Requests, Waits(r, p),
         ~(req[r].op = "EDIT" /\ req[r].replace) \/ WantsEvent(req[r])
  PROVE  Locks(req[r]) = {} /\ ~req[r].patched
<1> DEFINE s == req[r]
<1>1. s \in Sessions /\ s.pc = "ready" /\ Orderly(s)
  BY DEF Waits, TypeInv, TypeOK, OrderlyInv
<1>2. WantsEvent(s) \/ Wanted(s) # {}
  BY DEF Waits
<1> HIDE DEF s
<1>3. CASE WantsEvent(s)
  BY <1>1, <1>3 DEF Orderly, WantsEvent, s
<1>4. CASE ~WantsEvent(s) /\ s.op = "EDIT" /\ ~s.replace
  <2>1. Wanted(s) = {}
    BY <1>1, <1>4 DEF Wanted, ToDelete, ToPut, Deletes, Inserts, Updates, Orderly
  <2> QED BY <1>2, <1>4, <2>1
<1>5. CASE s.op # "EDIT"
  <2>1. ~s.patched /\ s.cut \subseteq Cuttable(s) /\ s.put \subseteq Inserts(s) \cup Updates(s)
    BY <1>1, <1>5 DEF Orderly, SetsEvent
  <2>2. CASE s.op = "NONE"
    <3>1. s.put = {} /\ ToPut(s) = {} /\ s.cut \subseteq {s.user} /\ Deletes(s) \subseteq {s.user}
      BY <2>1, <2>2 DEF Cuttable, Inserts, Updates, ToPut, Deletes
    <3>2. ToDelete(s) # {}
      BY <1>2, <1>5, <3>1 DEF Wanted, WantsEvent, SetsEvent
    <3> QED BY <2>1, <3>1, <3>2 DEF ToDelete, Locks, s
  <2>3. CASE s.op # "NONE"
    <3>1. /\ s.cut = {} /\ ToDelete(s) = {}
          /\ Inserts(s) \cup Updates(s) \subseteq {s.user}
      BY <1>5, <2>1, <2>3 DEF Cuttable, ToDelete, Deletes, Inserts, Updates
    <3>2. ToPut(s) # {}
      BY <1>2, <1>5, <3>1 DEF Wanted, WantsEvent, SetsEvent
    <3> QED BY <2>1, <3>1, <3>2 DEF ToPut, Locks, s
  <2> QED BY <2>2, <2>3
<1> QED BY <1>3, <1>4, <1>5 DEF s

(* Only edits that replace the roster ever deadlock, at most one of which  *)
(* changes the event as well; users' requests never do.                    *)
THEOREM DeadlocksAreOfReplacements == Spec => []DeadlocksAreReplacements
<1>1. TypeInv /\ OrderlyInv /\ LocksApart => DeadlocksAreReplacements
  <2> SUFFICES ASSUME TypeInv, OrderlyInv, LocksApart,
                      NEW C \in SUBSET Requests, Deadlocked(C)
               PROVE  /\ \A r \in C : req[r].op = "EDIT" /\ req[r].replace
                      /\ \A q, r \in C : SetsEvent(req[q]) /\ SetsEvent(req[r]) => q = r
    BY DEF DeadlocksAreReplacements
  <2>1. ASSUME NEW r \in C
        PROVE  /\ Locks(req[r]) # {} \/ req[r].patched
               /\ \E p \in Requests : Waits(r, p)
    BY DEF Deadlocked, Waits
  <2>2. \A r \in C : req[r].op = "EDIT" /\ req[r].replace /\ ~WantsEvent(req[r])
    BY <2>1, WaitsEmptyHanded
  <2>3. ASSUME NEW q \in C, NEW r \in C, SetsEvent(req[q]), SetsEvent(req[r]) PROVE q = r
    <3>1. req[q].patched /\ req[r].patched
      BY <2>2, <2>3 DEF WantsEvent
    <3> QED BY <3>1 DEF LocksApart
  <2> QED BY <2>2, <2>3
<1> QED BY <1>1, ParticipationInv, LocksInv, PTL
=============================================================================
