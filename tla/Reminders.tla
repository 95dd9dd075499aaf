------------------------------ MODULE Reminders ------------------------------
(***************************************************************************)
(* The reminders of one event (tasks/tasks/event_reminders.py).  Every     *)
(* minute the scheduler queues queue_event_reminders; several workers may  *)
(* run it at once.  A batch loads the participants without a reminder,     *)
(* mails each of them and marks their rows in one transaction; meanwhile   *)
(* users and administrators change the rows (rest_server/routers/          *)
(* events.py).  A batch works on the rows it loaded; gone are those that   *)
(* were deleted since (a row inserted again has another primary key).      *)
(***************************************************************************)
EXTENDS Integers, FiniteSets

CONSTANTS Users,       \* users that may take part
          Batches,     \* batches that can run at the same time
          MaxEdits,    \* bound: changes of the rows by users and administrators
          MaxFailures  \* bound: failures of a worker, the database or Redis

ASSUME UsersAssumption == IsFiniteSet(Users)
ASSUME BatchesAssumption == IsFiniteSet(Batches) /\ Batches # {}
ASSUME BoundsAssumption == MaxEdits \in Nat /\ MaxFailures \in Nat

VARIABLES due,      \* the event starts within 24 hours and is not rejected
          status,   \* event_participant.status, "NONE" for no row
          queued,   \* event_participant.reminder_queued_at is set
          batch,    \* the batches and their sessions
          mailed,   \* history: e-mails sent about the row,
          lost,     \* of these, by batches that were rolled back
          edits, failures
vars == <<due, status, queued, batch, mailed, lost, edits, failures>>

Idle == [pc |-> "idle", todo |-> {}, sent |-> {}, locked |-> {}, gone |-> {}]
Sessions == [pc: {"idle", "running", "flushed"},
             todo: SUBSET Users,   \* loaded, still to be reminded
             sent: SUBSET Users,   \* mailed, and marked in the session
             locked: SUBSET Users, \* whose mark is flushed
             gone: SUBSET Users]

Init == /\ due = FALSE
        /\ status = [u \in Users |-> "NONE"]
        /\ queued = [u \in Users |-> FALSE]
        /\ batch = [b \in Batches |-> Idle]
        /\ mailed = [u \in Users |-> 0] /\ lost = [u \in Users |-> 0]
        /\ edits = 0 /\ failures = 0

(***************************************************************************)
(* The batch.                                                              *)
(***************************************************************************)
Participating == {u \in Users : status[u] = "PARTICIPATING"}

(* Variants of the selection: the mark is not looked at, or looked at for  *)
(* the event as a whole.                                                   *)
SelectsMarked == IF due THEN Participating ELSE {}
SelectsAll == IF due /\ \A u \in Participating : ~queued[u] THEN Participating ELSE {}

Selected == IF due THEN {u \in Participating : ~queued[u]} ELSE {}

Load(b) ==
  /\ batch[b].pc = "idle" /\ Selected # {}
  /\ batch' = [batch EXCEPT ![b] = [Idle EXCEPT !.pc = "running", !.todo = Selected]]
  /\ UNCHANGED <<due, status, queued, mailed, lost, edits, failures>>

(* A flush writes the marks set so far: it waits for the rows that another *)
(* batch has written, and fails when one of them is gone (StaleDataError). *)
Pending(b) == batch[b].sent \ batch[b].locked
Waits(b, c) == /\ c # b /\ batch[b].pc = "running"
               /\ (Pending(b) \ batch[b].gone) \cap batch[c].locked # {}
Free(b) == batch[b].pc = "running" /\ \A c \in Batches : ~Waits(b, c)
StaleUnnoticed(b) == FALSE \* variant: an UPDATE of no row is no error
Stale(b) == Pending(b) \cap batch[b].gone # {}

(* The batch is rolled back: its marks are lost, its e-mails are not.      *)
LoseMarks(b) ==
  /\ lost' = [u \in Users |-> IF u \in batch[b].sent \ batch[b].gone
                              THEN lost[u] + 1 ELSE lost[u]]
  /\ UNCHANGED <<due, status, queued, mailed, edits>>
RollBack(b) == batch' = [batch EXCEPT ![b] = Idle] /\ LoseMarks(b)

(* notify_about_event selects the recipient, which flushes the marks of    *)
(* those before, and hands the e-mail to the broker; then u is marked.     *)
Remind(b, u) ==
  /\ Free(b) /\ u \in batch[b].todo
  /\ IF Stale(b) THEN RollBack(b) /\ UNCHANGED failures
     ELSE /\ batch' = [batch EXCEPT ![b].todo = @ \ {u}, ![b].sent = @ \cup {u},
                                    ![b].locked = @ \cup Pending(b)]
          /\ mailed' = IF u \in batch[b].gone THEN mailed ELSE [mailed EXCEPT ![u] = @ + 1]
          /\ UNCHANGED <<due, status, queued, lost, edits, failures>>

Flush(b) ==
  /\ Free(b) /\ batch[b].todo = {}
  /\ IF Stale(b) THEN RollBack(b) /\ UNCHANGED failures
     ELSE /\ batch' = [batch EXCEPT ![b].pc = "flushed", ![b].locked = batch[b].sent]
          /\ UNCHANGED <<due, status, queued, mailed, lost, edits, failures>>

Commit(b) ==
  /\ batch[b].pc = "flushed"
  /\ queued' = [u \in Users |-> queued[u] \/ u \in batch[b].locked]
  /\ batch' = [batch EXCEPT ![b] = Idle]
  /\ UNCHANGED <<due, status, mailed, lost, edits, failures>>

Fail(b) == /\ batch[b].pc # "idle" /\ failures < MaxFailures
           /\ failures' = failures + 1
           /\ RollBack(b)

(* PostgreSQL ends a deadlock by failing one of the transactions; the one  *)
(* that waits for it gets its locks then, before anybody asks for them.    *)
Victim(b) ==
  \E c \in Batches :
    /\ Waits(b, c) /\ Waits(c, b)
    /\ batch' = [batch EXCEPT ![b] = Idle,
                             ![c].locked = IF \E d \in Batches \ {b} : Waits(c, d) THEN @
                                           ELSE @ \cup (Pending(c) \ batch[c].gone)]
    /\ LoseMarks(b) /\ UNCHANGED failures

(***************************************************************************)
(* The requests, as far as they change what a batch reads or writes.  They *)
(* wait for the rows a batch has written.                                  *)
(***************************************************************************)
Unlocked(S) == \A b \in Batches : batch[b].locked \cap S = {}
Holds(b) == batch[b].todo \cup batch[b].sent

(* What a batch learns of rows that are deleted: variant, it would write   *)
(* the mark by user instead of by primary key.                             *)
MatchesUser(b, S) == batch[b]
Lose(b, S) == [batch[b] EXCEPT !.gone = @ \cup (Holds(b) \cap S)]

Edit == edits < MaxEdits /\ edits' = edits + 1 /\ UNCHANGED <<due, failures>>

(* update_my_participation: an existing row keeps its mark.                *)
Respond(u, s) ==
  /\ status[u] # s /\ Unlocked({u}) /\ Edit
  /\ status' = [status EXCEPT ![u] = s]
  /\ IF status[u] # "NONE" /\ s # "NONE" THEN UNCHANGED <<queued, mailed, lost, batch>>
     ELSE /\ queued' = [queued EXCEPT ![u] = FALSE]
          /\ mailed' = [mailed EXCEPT ![u] = 0] /\ lost' = [lost EXCEPT ![u] = 0]
          /\ batch' = [b \in Batches |-> IF s = "NONE" THEN Lose(b, {u}) ELSE batch[b]]

(* create_event and update_event with participants_ids: all rows are new.  *)
Replace(list) ==
  LET old == {u \in Users : status[u] # "NONE"}
  IN /\ Unlocked(old) /\ Edit
     /\ status' = [u \in Users |-> IF u \in list THEN "PARTICIPATING" ELSE "NONE"]
     /\ queued' = [u \in Users |-> FALSE]
     /\ mailed' = [u \in Users |-> 0] /\ lost' = [u \in Users |-> 0]
     /\ batch' = [b \in Batches |-> Lose(b, old)]

(* Time passes, or an administrator moves, rejects or restores the event.  *)
Reschedule == /\ due' = ~due
              /\ UNCHANGED <<status, queued, batch, mailed, lost, edits, failures>>

Next == \/ \E b \in Batches :
             \/ Load(b) \/ (\E u \in Users : Remind(b, u)) \/ Flush(b) \/ Commit(b)
             \/ Fail(b) \/ Victim(b)
        \/ \E u \in Users, s \in {"NONE", "PARTICIPATING", "REJECTED"} : Respond(u, s)
        \/ \E list \in SUBSET Users : Replace(list)
        \/ Reschedule

(* The scheduler runs, batches go on, lock waiters are served in turn and  *)
(* deadlocks are detected.                                                 *)
Fairness == /\ \A b \in Batches :
                 /\ WF_vars(Load(b)) /\ SF_vars(\E u \in Users : Remind(b, u))
                 /\ SF_vars(Flush(b)) /\ WF_vars(Commit(b))
            /\ WF_vars(\E b \in Batches : Victim(b))

Spec == Init /\ [][Next]_vars /\ Fairness

-----------------------------------------------------------------------------
(* The state is well typed; no two batches have written the same row, and  *)
(* a row that is written is not deleted.                                   *)
TypeOK ==
  /\ due \in BOOLEAN
  /\ status \in [Users -> {"NONE", "PARTICIPATING", "REJECTED"}]
  /\ queued \in [Users -> BOOLEAN]
  /\ batch \in [Batches -> Sessions]
  /\ mailed \in [Users -> Nat] /\ lost \in [Users -> Nat]
  /\ edits \in 0..MaxEdits /\ failures \in 0..MaxFailures
  /\ \A b \in Batches : batch[b].locked \subseteq batch[b].sent \ batch[b].gone
  /\ \A b, c \in Batches : b # c => batch[b].locked \cap batch[c].locked = {}

(* A participation is reminded of once, and once more at most for each     *)
(* further batch that overlaps the first and for each e-mail whose mark    *)
(* was lost: a batch that is rolled back repeats what it has sent.         *)
RemindedOnce == \A u \in Users : mailed[u] <= Cardinality(Batches) + lost[u]

(* No participation is marked as reminded without its reminder.            *)
MarkedIsMailed == \A u \in Users : queued[u] => mailed[u] > 0

(* Whoever takes part in an event that stays due is reminded, whatever     *)
(* batches overlap, deadlock or fail on the way.                           *)
EventuallyReminded ==
  \A u \in Users :
    (due /\ status[u] = "PARTICIPATING")
      ~> (queued[u] \/ ~due \/ status[u] # "PARTICIPATING")
=============================================================================
