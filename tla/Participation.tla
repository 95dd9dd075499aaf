--------------------------- MODULE Participation ---------------------------
(***************************************************************************)
(* One event and the requests that change who takes part in it            *)
(* (rest_server/routers/events.py): an administrator creates it and edits  *)
(* it (create_event, update_event), users join, reject and leave it        *)
(* (update_my_participation).  Requests run in their own READ COMMITTED    *)
(* transactions and interleave between their SQL statements.               *)
(*                                                                         *)
(* A flush sends its statements one by one and keeps the row locks of      *)
(* those before while it waits for the next.                               *)
(*                                                                         *)
(* A request works on the objects its session loaded (its identity map),   *)
(* however old: the event, the participants, the user's own participant.   *)
(* gone names those whose row another transaction has deleted since (a row *)
(* inserted again for the same user has another primary key).              *)
(***************************************************************************)
EXTENDS Integers, FiniteSets

CONSTANTS Users,      \* users that may take part
          Requests,   \* requests that can be in flight at the same time
          Capacities, \* values of max_participants_count that are not NULL
          EndTimes,   \* instants at which the event may end
          MaxTime,    \* bound of the clock
          Payloads,   \* payloads of update_event administrators may send
          HasAdmins   \* whether _load_admin_ids finds an administrator

Unlimited == 0 \* a NULL max_participants_count: the schema admits only gt=0
Limits == Capacities \cup {Unlimited}

ASSUME UsersAssumption == IsFiniteSet(Users) /\ Users # {}
ASSUME RequestsAssumption == IsFiniteSet(Requests) /\ Requests # {}
ASSUME CapacityAssumption == Capacities \subseteq Nat \ {0}
ASSUME TimeAssumption == EndTimes \subseteq Nat \ {0} /\ MaxTime \in Nat
ASSUME PayloadAssumption ==
  Payloads \subseteq [sets: SUBSET {"max", "rejected", "ends"}, \* fields set
                      max: Capacities \cup {0}, rejected: BOOLEAN, ends: EndTimes,
                      replace: BOOLEAN, list: SUBSET Users]     \* participants_ids
ASSUME AdminsAssumption == HasAdmins \in BOOLEAN

VARIABLES event, \* committed event row
          rows,  \* committed event_participant rows: user -> status
          now,   \* instants since the event was created
          req    \* the requests in flight, with their sessions
vars == <<event, rows, now, req>>

Status == {"NONE", "PARTICIPATING", "REJECTED"} \* "NONE": no row
Rosters == [Users -> Status]
Events == [exists: BOOLEAN, max: Limits,
           rejected: BOOLEAN, ends: EndTimes \cup {0}]
NoEvent == [exists |-> FALSE, max |-> Unlimited, rejected |-> FALSE, ends |-> 0]
Going(r) == {u \in Users : r[u] = "PARTICIPATING"}
Listed(r) == {u \in Users : r[u] # "NONE"}
Fits(n, max) == max = Unlimited \/ n <= max
Enrolled(list) == [u \in Users |-> IF u \in list THEN "PARTICIPATING" ELSE "NONE"]

Sessions ==
  [pc: {"idle", "opened", "loaded", "read", "ready", "mailed"},
   op: Status \cup {"EDIT"},   \* the status asked for, or an administrator's edit
   user: Users,
   next: Events,               \* EDIT: the event with the payload's fields set
   replace: BOOLEAN, list: SUBSET Users, \* EDIT: participants_ids, if set
   began: 0..MaxTime, event: Events, \* when the event was loaded, and what
   rows: Rosters,              \* EDIT: event.participants as loaded
   mine: Status,               \* otherwise: the user's own participant
   gone: SUBSET Users,
   patched: BOOLEAN,           \* written, and locked: the event row,
   cut: SUBSET Users,          \* the rows deleted,
   put: SUBSET Users,          \* the rows inserted and updated
   told: BOOLEAN,              \* the notice is queued
   count: 0..Cardinality(Users), \* its participants_count
   stale: BOOLEAN] \* history: another transaction has committed since the load

Idle == [pc |-> "idle", op |-> "NONE", user |-> CHOOSE u \in Users : TRUE,
         next |-> NoEvent, replace |-> FALSE, list |-> {}, began |-> 0,
         event |-> NoEvent, rows |-> Enrolled({}), mine |-> "NONE", gone |-> {},
         patched |-> FALSE, cut |-> {}, put |-> {},
         told |-> FALSE, count |-> 0, stale |-> FALSE]

Init == /\ event = NoEvent /\ rows = Enrolled({})
        /\ now = 0
        /\ req = [r \in Requests |-> Idle]

Tick == event.exists /\ now < MaxTime /\ now' = now + 1
        /\ UNCHANGED <<event, rows, req>>

(* create_event: nobody can address the event before this commits, so its  *)
(* validation, insert, notices and commit are one step.                    *)
Create(max, ends, list) ==
  /\ ~event.exists
  /\ Fits(Cardinality(list), max)
  /\ event' = [exists |-> TRUE, max |-> max, rejected |-> FALSE, ends |-> ends]
  /\ rows' = Enrolled(list)
  /\ UNCHANGED <<now, req>>

(***************************************************************************)
(* Requests.  A refusal, a failure and a rollback end the request and      *)
(* leave the database as it is.                                            *)
(***************************************************************************)
Stop(r) == req' = [req EXCEPT ![r] = Idle] /\ UNCHANGED <<event, rows, now>>
Advance(r, s) == req' = [req EXCEPT ![r] = s] /\ UNCHANGED <<event, rows, now>>
Opened(s) == [s EXCEPT !.event = event, !.began = now]

(* The participants but u; the variant counts u as well.                   *)
Everyone(u) == Cardinality(Going(rows))
OthersGoing(u) == Cardinality(Going(rows) \ {u})

(* There is no answer to a rejected event; variant: to any that exists.    *)
AnyMayBeAnswered == event.exists
MayBeAnswered == event.exists /\ ~event.rejected

(* update_my_participation loads the event.                                *)
BeginMine(r, u, op) ==
  /\ req[r].pc = "idle" /\ MayBeAnswered
  /\ Advance(r, Opened([Idle EXCEPT !.pc = "opened", !.op = op, !.user = u]))

(* update_event loads the event and sets the fields the payload has; dates *)
(* and null fields that it refuses change nothing.                         *)
BeginEdit(r, p) ==
  /\ req[r].pc = "idle"
  /\ event.exists
  /\ Advance(r, Opened([Idle EXCEPT
       !.pc = "opened", !.op = "EDIT",
       !.next = [event EXCEPT !.max = IF "max" \in p.sets THEN p.max ELSE @,
                              !.rejected = IF "rejected" \in p.sets THEN p.rejected ELSE @,
                              !.ends = IF "ends" \in p.sets THEN p.ends ELSE @],
       !.replace = p.replace, !.list = IF p.replace THEN p.list ELSE {}]))

(* selectinload: the participants, by a SELECT of their own; for a user's  *)
(* request, the user and a number of others.                               *)
Load(r) ==
  /\ req[r].pc = "opened"
  /\ Advance(r, IF req[r].op = "EDIT"
                THEN [req[r] EXCEPT !.pc = "read", !.rows = rows]
                ELSE [req[r] EXCEPT !.pc = "loaded", !.mine = rows[req[r].user],
                                    !.count = OthersGoing(req[r].user)])

(* The user's own row is selected; the object the session already holds    *)
(* for it keeps the status it was loaded with.  What _count_participating  *)
(* will find is settled: the others as loaded, and the user's loaded       *)
(* object, which takes the new status when it is the one updated; a row    *)
(* just inserted is not in event.participants, one just deleted still is.  *)
ReadMine(r) ==
  LET s == req[r]
      held == s.mine # "NONE" /\ s.user \notin s.gone
      shown == IF held /\ s.op # "NONE" THEN s.op ELSE s.mine
  IN /\ s.pc = "loaded"
     /\ Advance(r, [s EXCEPT !.pc = "read", !.gone = {},
                             !.mine = IF held THEN s.mine ELSE rows[s.user],
                             !.count = IF shown = "PARTICIPATING" THEN @ + 1 ELSE @])

(* Variants of the checks: room for one too many, after the end, and the   *)
(* limit of before the edit.                                               *)
JoinsFull(s) == /\ s.op = "PARTICIPATING"
                /\ s.event.ends > now
                /\ Fits(Cardinality(Going(rows) \ {s.user}), s.event.max)
JoinsEnded(s) == /\ s.op = "PARTICIPATING"
                 /\ Fits(Cardinality(Going(rows) \ {s.user}) + 1, s.event.max)
EditsOldLimit(s) == /\ s.op = "EDIT"
                    /\ Fits(Cardinality(IF s.replace THEN s.list ELSE Listed(s.rows)),
                            s.event.max)

(* A join needs an event that has not ended and a place: a COUNT of the    *)
(* other participants.  An edit needs _validate_participants_limit.        *)
JoinAllowed(s) == /\ s.op = "PARTICIPATING"
                  /\ s.event.ends > now
                  /\ Fits(Cardinality(Going(rows) \ {s.user}) + 1, s.event.max)
EditAllowed(s) == /\ s.op = "EDIT"
                  /\ Fits(Cardinality(IF s.replace THEN s.list ELSE Listed(s.rows)),
                          s.next.max)
LeaveAllowed(s) == s.op \in {"REJECTED", "NONE"}

Check(r) ==
  /\ req[r].pc = "read"
  /\ IF JoinAllowed(req[r]) \/ EditAllowed(req[r]) \/ LeaveAllowed(req[r])
     THEN Advance(r, [req[r] EXCEPT !.pc = "ready"])
     ELSE Stop(r)

(* Rows a session deletes, inserts and updates.  A DELETE of a row that is *)
(* gone deletes nothing.                                                   *)
Deletes(s) == IF s.op = "EDIT"
              THEN IF s.replace THEN Listed(s.rows) \ s.gone ELSE {}
              ELSE IF s.op = "NONE" /\ s.mine # "NONE" THEN {s.user} \ s.gone ELSE {}
Inserts(s) == IF s.op = "EDIT" THEN s.list
              ELSE IF s.op # "NONE" /\ s.mine = "NONE" THEN {s.user} ELSE {}
Updates(s) == IF s.op \notin {"EDIT", "NONE"} /\ s.mine \notin {"NONE", s.op}
              THEN {s.user} ELSE {}
SetsEvent(s) == s.op = "EDIT" /\ s.next # s.event

(* What is left to flush, in this order: the event row (at the autoflush   *)
(* in _ensure_users_exist, or with the first flush), the DELETEs, then the *)
(* INSERTs.  Rows are deleted in the order of their keys and inserted in   *)
(* that of the payload: here, in any.  Variant: the event row comes last.  *)
ToDelete(s) == Deletes(s) \ s.cut
ToPut(s) == (Inserts(s) \cup Updates(s)) \ s.put
WantsEventLast(s) == SetsEvent(s) /\ ~s.patched /\ ToDelete(s) = {} /\ ToPut(s) = {}
WantsEvent(s) == SetsEvent(s) /\ ~s.patched
Wanted(s) == IF s.pc # "ready" \/ WantsEvent(s) THEN {}
             ELSE IF ToDelete(s) # {} THEN ToDelete(s) ELSE ToPut(s)
FlushedLater(s) == s.pc = "ready" \* variant: the notice does not wait for the flush
Flushed(s) == s.pc = "ready" /\ ~WantsEvent(s) /\ Wanted(s) = {}

(* A statement waits for the rows other transactions have written.         *)
Locks(s) == s.cut \cup s.put
Waits(r, q) == /\ q # r /\ req[r].pc = "ready"
               /\ \/ WantsEvent(req[r]) /\ req[q].patched
                  \/ Wanted(req[r]) \cap Locks(req[q]) # {}
Unlocked(r, u) == \A q \in Requests \ {r} : u \notin Locks(req[q])

UpdateEvent(r) ==
  /\ req[r].pc = "ready" /\ WantsEvent(req[r])
  /\ \A q \in Requests \ {r} : ~req[q].patched
  /\ Advance(r, [req[r] EXCEPT !.patched = TRUE])

(* _ensure_users_exist: a listed user may be missing or deleted.           *)
RefuseList(r) ==
  /\ req[r].pc = "ready" /\ ~WantsEvent(req[r])
  /\ req[r].list # {} /\ Locks(req[r]) = {}
  /\ Stop(r)

Delete(r, u) ==
  /\ u \in Wanted(req[r]) /\ u \in ToDelete(req[r])
  /\ Unlocked(r, u)
  /\ Advance(r, [req[r] EXCEPT !.cut = @ \cup {u}])

(* A unique violation, or an UPDATE that matches no row (StaleDataError).  *)
PutFails(s, u) == IF u \in Inserts(s) THEN rows[u] # "NONE" /\ u \notin s.cut
                  ELSE u \in s.gone

Put(r, u) ==
  /\ u \in Wanted(req[r]) /\ ToDelete(req[r]) = {}
  /\ Unlocked(r, u)
  /\ IF PutFails(req[r], u) THEN Stop(r)
     ELSE Advance(r, [req[r] EXCEPT !.put = @ \cup {u}])

(* Whom an edit informs: the participants its session holds; variant:      *)
(* those it loaded.                                                        *)
InformedBefore(s) == Going(s.rows)
Informed(s) == IF s.replace THEN s.list ELSE Going(s.rows)
Owed(s) == CASE s.op = "EDIT" -> Informed(s) # {}
             [] s.op = "PARTICIPATING" -> HasAdmins
             [] OTHER -> s.mine = "PARTICIPATING" /\ HasAdmins

(* The e-mails are handed to the broker before the transaction commits.    *)
Notify(r) ==
  LET s == req[r]
  IN /\ Flushed(s)
     /\ Advance(r, [s EXCEPT !.pc = "mailed", !.told = Owed(s),
          !.count = IF s.op = "EDIT" THEN Cardinality(Informed(s)) ELSE @])

Written(s) == [u \in Users |->
                 IF u \in s.put THEN IF s.op = "EDIT" THEN "PARTICIPATING" ELSE s.op
                 ELSE IF u \in s.cut THEN "NONE"
                 ELSE rows[u]]
Patched(s) ==
  IF s.op # "EDIT" THEN event
  ELSE [event EXCEPT !.max = IF s.next.max # s.event.max THEN s.next.max ELSE @,
                     !.rejected = IF s.next.rejected # s.event.rejected
                                  THEN s.next.rejected ELSE @,
                     !.ends = IF s.next.ends # s.event.ends THEN s.next.ends ELSE @]

(* The rows whose object a session holds.                                  *)
Held(s) == IF s.op = "EDIT" THEN Listed(s.rows)
           ELSE IF s.mine # "NONE" THEN {s.user} ELSE {}

(* commit: only changed columns are written; every other session in flight *)
(* now works on rows that may have changed or gone.                        *)
Commit(r) ==
  LET s == req[r]
  IN /\ s.pc = "mailed"
     /\ event' = Patched(s)
     /\ rows' = Written(s)
     /\ req' = [q \in Requests |->
                  IF q = r THEN Idle
                  ELSE IF req[q].pc = "idle" THEN req[q]
                  ELSE [req[q] EXCEPT !.stale = TRUE,
                                       !.gone = @ \cup (s.cut \cap Held(req[q]))]]
     /\ UNCHANGED now

(* The process, the database or Redis fails before the commit, or the      *)
(* transaction is a deadlock victim: it is rolled back.                    *)
Abort(r) == req[r].pc # "idle" /\ Stop(r)

Step(r) == \/ Load(r) \/ ReadMine(r) \/ Check(r)
           \/ UpdateEvent(r) \/ (\E u \in Users : Delete(r, u) \/ Put(r, u))
           \/ Notify(r) \/ Commit(r)

Next == \/ Tick
        \/ \E max \in Limits, ends \in EndTimes, list \in SUBSET Users :
             Create(max, ends, list)
        \/ \E r \in Requests :
             \/ \E u \in Users, op \in Status : BeginMine(r, u, op)
             \/ \E p \in Payloads : BeginEdit(r, p)
             \/ Step(r) \/ RefuseList(r) \/ Abort(r)

Spec == Init /\ [][Next]_vars
-----------------------------------------------------------------------------
(* The state is well typed: rows have one status per user (the unique      *)
(* constraint of event_participant) and a session's copy has the same form.*)
TypeOK == /\ event \in Events
          /\ rows \in Rosters
          /\ now \in 0..MaxTime
          /\ req \in [Requests -> Sessions]

NowGoing(u) == rows[u] # "PARTICIPATING" /\ rows'[u] = "PARTICIPATING"
NoMoreGoing(u) == rows[u] = "PARTICIPATING" /\ rows'[u] # "PARTICIPATING"

(* While nobody edits the event, simultaneous joins exceed its limit by at *)
(* most one participant for each further request in flight.                *)
OversellBound ==
  Fits(Cardinality(Going(rows)) - (Cardinality(Requests) - 1), event.max)

(* Nobody starts taking part unannounced: when a commit enrols a user, the *)
(* broker has the notice of it already, to the administrators for a user's *)
(* own request and to the enrolled users for an edit.  A user who leaves is *)
(* announced as well, unless the request was overtaken (it compares with   *)
(* an original_status of the past); an edit tells nobody whom it drops.    *)
NoticeFirst ==
  [][\A r \in Requests : Commit(r) =>
       /\ req[r].op = "EDIT" =>
            \A u \in Users : NowGoing(u) => req[r].told /\ u \in Informed(req[r])
       /\ HasAdmins /\ req[r].op # "EDIT" =>
            \/ req[r].told
            \/ ~NowGoing(req[r].user) /\ (NoMoreGoing(req[r].user) => req[r].stale)]_vars

(* Once its notice is out a request can still commit: no row it inserts is *)
(* there already and none it updates is gone, whatever others have         *)
(* committed since it wrote them.  So a refused row fails the flush, with  *)
(* nothing announced yet, and never the commit.                            *)
FlushStands ==
  \A r \in Requests : \A u \in Inserts(req[r]) \cup Updates(req[r]) :
    req[r].pc = "mailed" \/ u \in req[r].put => ~PutFails(req[r], u)

(* Requests deadlock only when edits replace the roster, and at most one   *)
(* of them changes the event as well: users' requests hold nothing while   *)
(* they wait, and of the edits that change the event row, which comes      *)
(* first, all but one wait for it empty-handed.                            *)
Deadlocked(C) == \A r \in C : /\ \E q \in C : Waits(r, q)
                              /\ \E q \in C : Waits(q, r)
DeadlocksAreReplacements ==
  \A C \in SUBSET Requests : Deadlocked(C) =>
    /\ \A r \in C : req[r].op = "EDIT" /\ req[r].replace
    /\ \A q, r \in C : SetsEvent(req[q]) /\ SetsEvent(req[r]) => q = r

(* What the handlers promise when requests are serial, and when they       *)
(* overlap but nobody edits the event: the limit may be passed by one      *)
(* participant for each further request (rows of a created event).         *)
Open == event.exists /\ ~event.rejected
Serial == INSTANCE Roster WITH Slack <- 0, open <- Open, max <- event.max
Overlapping == INSTANCE Roster WITH Slack <- Cardinality(Requests) - 1,
                                    open <- Open, max <- event.max
SerialRoster == Serial!Spec
OverlappingRoster == Overlapping!Spec

(* However requests overlap, edits included, a commit that no other has    *)
(* overtaken is one that the roster takes when requests are serial, and a  *)
(* join had not ended when its request began: the 404/400 answers of       *)
(* update_my_participation and update_event are wrong in no other way.     *)
FreshIsSerial ==
  [][\A r \in Requests : (Commit(r) /\ ~req[r].stale) =>
       /\ Serial!Next
       /\ req[r].op = "PARTICIPATING" => req[r].began < event.ends]_vars

-----------------------------------------------------------------------------
(* What the code says of itself and does not keep.                         *)

(* "Max participants count exceeded" refuses whoever would be one too      *)
(* many; but the count and the insert are two statements.                  *)
NeverOversold == Fits(Cardinality(Going(rows)), event.max)

(* The limit is one of participants, and REJECTED rows are not             *)
(* participants; but an edit that keeps the roster counts them as well.    *)
EditRefusedWhenOverfull ==
  [][\A r \in Requests :
       (req[r].op = "EDIT" /\ ~req[r].replace /\ ~EditAllowed(req[r]) /\ Check(r))
         => ~Fits(Cardinality(Going(rows)), req[r].next.max)]_vars

(* A notice says how many participants there are once the list has been    *)
(* updated; but the handler counts the participants it loaded before.      *)
NoticeCountCurrent ==
  [][\A r \in Requests :
       (Commit(r) /\ req[r].told) => req[r].count = Cardinality(Going(rows'))]_vars
=============================================================================
