---------------------------- MODULE Notifications ----------------------------
(***************************************************************************)
(* Notices: how a handler that changes something tells the users about it  *)
(* (core/services/notification.py), how the tasks of the worker deliver    *)
(* the e-mails (tasks/tasks/send_email.py over the Redis list of taskiq),  *)
(* and how users read and acknowledge the notices in the application       *)
(* (rest_server/routers/notifications.py).  An e-mail is the address it    *)
(* goes to; what it says is left out.                                      *)
(***************************************************************************)
EXTENDS Integers, Sequences, SequencesExt, FiniteSets

CONSTANTS Users,     \* user ids
          Addresses, \* e-mail addresses
          Notices,   \* requests that notify somebody
          AddressBooks, \* the addresses users may have at first
          Plans,     \* kinds of notice and ids each may have
          Tabs,      \* requests that acknowledge notices
          Tasks,     \* e-mails the worker may be sending at the same time
          None,
          MaxTurns   \* bound on the changes of addresses

ASSUME NotificationsAssumption ==
  /\ None \notin Addresses \cup Tabs /\ MaxTurns \in Nat
  /\ \A book \in AddressBooks :
       /\ book \in [Users -> Addresses \cup {None}]
       /\ \A u, v \in Users : u # v => book[u] = None \/ book[u] # book[v]
  /\ Plans \in [Notices -> SUBSET ({"EVENT", "RESET", "CHANGED", "ISSUED"} \X SUBSET Users)]
  /\ IsFiniteSet(Users) /\ IsFiniteSet(Addresses)

VARIABLES address, \* user.email, None without an account
          turns,   \* changes of address and requests to acknowledge so far
          req,     \* the request behind each notice
          made,    \* in-app notices in the order of created_at
          inbox,   \* committed instant_notification rows: <<notice, user>>
          acked,   \* acked_at: None, or the request that set it
          tab,     \* the requests to acknowledge
          queue,   \* the Redis list
          taken,   \* what each task of the worker is sending
          sent, lost
asking == <<made, inbox, req>>
reading == <<acked, tab>>
mailing == <<queue, taken, sent, lost>>
vars == <<address, turns, asking, reading, mailing>>

(* EVENT: events.py and the reminders; RESET: users.py; CHANGED: recovered *)
(* and verified accounts, and ISSUED: codes and links, of access.py.       *)
Kinds == {"EVENT", "RESET", "CHANGED", "ISSUED"}
CommitsFirst(s) == s.kind \in {"CHANGED", "ISSUED"}
ShownInApp(s) == s.kind = "EVENT" \* isinstance(event, EventNotificationBase)

MaxMails == Cardinality(Users) + 1
Mails == [of: Notices, nr: 1..MaxMails, to: Addresses]
ASSUME MailsAssumption == None \notin Mails
Maybe(S) == S \cup {None}
Requested ==
  [pc: {"idle", "loaded", "mailing", "closed"}, kind: Kinds, committed: BOOLEAN,
   ids: SUBSET Users, emails: SUBSET Addresses, \* recipients_ids and _emails
   held: [Users -> Maybe(Addresses)],  \* users in the identity map of the session
   found: SUBSET Users,                \* recipients
   todo: Seq(Addresses), handed: Nat,  \* all_emails, and how many are in the list
   stale: BOOLEAN]  \* history: an address has changed before the recipients were read
NoRequest == [pc |-> "idle", kind |-> "EVENT", committed |-> FALSE, ids |-> {},
              emails |-> {}, held |-> [u \in Users |-> None], found |-> {},
              todo |-> <<>>, handed |-> 0, stale |-> FALSE]
NoAck == [pc |-> "idle", user |-> None, rows |-> {}, unread |-> {}, stale |-> FALSE]

Accounts == {u \in Users : address[u] # None}

Init == /\ address \in AddressBooks
        /\ turns = 0
        /\ req = [n \in Notices |-> NoRequest]
        /\ made = <<>> /\ inbox = {}
        /\ acked = [row \in Notices \X Users |-> None]
        /\ tab = [t \in Tabs |-> NoAck]
        /\ queue = <<>> /\ taken = [k \in Tasks |-> None]
        /\ sent = {} /\ lost = {}

-----------------------------------------------------------------------------
(* A handler loads some users: the one who asks, and those it is about.    *)
(* Whom it notifies depends on the kind of notice.                         *)
Named(kind, ids, emails, held) ==
  CASE kind = "EVENT" -> ids # {} /\ emails = {}
    [] kind = "ISSUED" -> ids = {} /\ Cardinality(emails) = 1
    [] OTHER -> \E u \in Accounts : /\ held[u] # None
                                    /\ ids = {u} /\ emails = {held[u]}

Begin(n, kind, ids, emails, loaded) ==
  LET held == [u \in Users |-> IF u \in loaded THEN address[u] ELSE None]
  IN /\ req[n].pc = "idle"
     /\ ids \cup loaded \subseteq Accounts
     /\ Named(kind, ids, emails, held)
     /\ req' = [req EXCEPT ![n] = [NoRequest EXCEPT !.pc = "loaded", !.kind = kind,
                                     !.ids = ids, !.emails = emails, !.held = held]]
     /\ UNCHANGED <<address, turns, made, inbox, reading, mailing>>

(* register, verify_registration and the recovery commit, then notify.     *)
CommitFirst(n) ==
  /\ req[n].pc = "loaded" /\ CommitsFirst(req[n]) /\ ~req[n].committed
  /\ req' = [req EXCEPT ![n].committed = TRUE]
  /\ UNCHANGED <<address, turns, made, inbox, reading, mailing>>

(* The address of a recipient: a user the session has loaded keeps the one *)
(* loaded, for the row is found again and not refreshed                    *)
(* (expire_on_commit=False).                                               *)
Email(s, u) == IF s.held[u] # None THEN s.held[u] ELSE address[u]
Recipients(s) == {u \in Accounts : u \in s.ids \/ address[u] \in s.emails}
ExtraAll(s) == s.emails \* variant: addresses are added though a user has them
Extra(s) == s.emails \ {Email(s, u) : u \in Recipients(s)}

(* Commit-first handlers notify after their commit; variant: at once.      *)
MayNotifyEarly(s) == s.pc = "loaded"
MayNotify(s) == s.pc = "loaded" /\ (CommitsFirst(s) => s.committed)

(* notify_about_event reads the recipients, in whatever order the database *)
(* returns them, and adds and flushes their in-app notices.                *)
Select(n) ==
  LET s == req[n]
  IN /\ MayNotify(s)
     /\ \E order \in SetToSeqs(Recipients(s)), extra \in SetToSeqs(Extra(s)) :
          req' = [req EXCEPT ![n].pc = "mailing", ![n].found = Recipients(s),
                   ![n].todo = [i \in DOMAIN order |-> Email(s, order[i])] \o extra,
                   ![n].held = NoRequest.held, ![n].stale = FALSE]
     /\ made' = IF ShownInApp(s) THEN Append(made, n) ELSE made
     /\ UNCHANGED <<address, turns, inbox, reading, mailing>>

(* kiq pushes one e-mail after another.                                    *)
HandOver(n) ==
  LET s == req[n]
      i == s.handed + 1
  IN /\ s.pc = "mailing" /\ s.handed < Len(s.todo)
     /\ queue' = Append(queue, [of |-> n, nr |-> i, to |-> s.todo[i]])
     /\ req' = [req EXCEPT ![n].handed = i]
     /\ UNCHANGED <<address, turns, made, inbox, reading, taken, sent, lost>>

(* The handler ends when all e-mails are handed over (variant: before the  *)
(* last); those that notify first commit now, in-app notices included.     *)
MayFinishEarly(s) == s.pc = "mailing" /\ s.handed + 1 >= Len(s.todo)
MayFinish(s) == s.pc = "mailing" /\ s.handed = Len(s.todo)
InApp(n) == IF ShownInApp(req[n]) THEN {n} \X req[n].found ELSE {}
Finish(n) ==
  /\ MayFinish(req[n])
  /\ req' = [req EXCEPT ![n].pc = "closed", ![n].committed = TRUE]
  /\ inbox' = inbox \cup InApp(n)
  /\ UNCHANGED <<address, turns, made, reading, mailing>>

(* Redis, the database or the process fails: what is not committed is      *)
(* rolled back, what is in the list stays there.                           *)
Fail(n) == /\ req[n].pc \in {"loaded", "mailing"}
           /\ req' = [req EXCEPT ![n].pc = "closed"]
           /\ UNCHANGED <<address, turns, made, inbox, reading, mailing>>

(* update_user changes an address, verify_registration makes an account,   *)
(* with an address nobody has (unique); variant: with any.                 *)
FreeAlways(a) == TRUE
Free(a) == \A v \in Users : address[v] # a
Move(u, a) ==
  /\ turns < MaxTurns /\ Free(a)
  /\ address' = [address EXCEPT ![u] = a] /\ turns' = turns + 1
  /\ req' = [n \in Notices |-> [req[n] EXCEPT !.stale = @ \/ req[n].pc = "loaded"]]
  /\ UNCHANGED <<made, inbox, reading, mailing>>

-----------------------------------------------------------------------------
(* A task of the worker takes the oldest e-mail off the list before it     *)
(* sends it (BRPOP); variant: it leaves it there until it is sent.         *)
LeftAfterTake == queue
AfterTake == Tail(queue)
Take(k) == /\ taken[k] = None /\ queue # <<>>
           /\ taken' = [taken EXCEPT ![k] = Head(queue)]
           /\ queue' = AfterTake
           /\ UNCHANGED <<address, turns, asking, reading, sent, lost>>

Send(k) == /\ taken[k] # None
           /\ sent' = sent \cup {taken[k]} /\ taken' = [taken EXCEPT ![k] = None]
           /\ UNCHANGED <<address, turns, asking, reading, queue, lost>>

(* SMTP refuses it or times out, or the worker dies: nobody tries again,   *)
(* for the task has no retry_on_error label.                               *)
Lose(k) == /\ taken[k] # None
           /\ lost' = lost \cup {taken[k]} /\ taken' = [taken EXCEPT ![k] = None]
           /\ UNCHANGED <<address, turns, asking, reading, queue, sent>>

-----------------------------------------------------------------------------
(* ack_instant_notifications loads the rows of the user and answers 404    *)
(* unless all it is asked for are among them.                              *)
Found(u) == {row \in inbox : row[2] = u}
AckBegin(t, u, rows) ==
  /\ tab[t].pc = "idle" /\ address[u] # None /\ turns < MaxTurns
  /\ rows # {} /\ rows \subseteq Found(u)
  /\ tab' = [tab EXCEPT ![t] = [pc |-> "loaded", user |-> u, rows |-> rows,
                 unread |-> {row \in rows : acked[row] = None}, stale |-> FALSE]]
  /\ turns' = turns + 1
  /\ UNCHANGED <<address, asking, acked, mailing>>

(* It marks those that were not acknowledged when it loaded them; variant: *)
(* all of them.                                                            *)
MarksAll(s) == s.rows
Marks(s) == s.unread
AckCommit(t) ==
  /\ tab[t].pc = "loaded"
  /\ acked' = [row \in DOMAIN acked |-> IF row \in Marks(tab[t]) THEN t ELSE acked[row]]
  /\ tab' = [x \in Tabs |-> IF x = t THEN NoAck
                            ELSE [tab[x] EXCEPT !.stale = @ \/ tab[x].pc = "loaded"]]
  /\ UNCHANGED <<address, turns, asking, mailing>>

AckFail(t) == /\ tab[t].pc = "loaded" /\ tab' = [tab EXCEPT ![t] = NoAck]
              /\ UNCHANGED <<address, turns, asking, acked, mailing>>

(* list_instant_notifications: the newest first, a page of them; variant:  *)
(* the acknowledged are dropped from the page.                             *)
Unread(u) == {n \in Notices : <<n, u>> \in inbox /\ acked[<<n, u>>] = None}
Position(n) == CHOOSE i \in DOMAIN made : made[i] = n
Newer(n, shown) == {m \in shown : Position(m) > Position(n)}
Newest(shown) == [i \in 1..Cardinality(shown) |->
                    CHOOSE n \in shown : Cardinality(Newer(n, shown)) = i - 1]
PageOf(s, limit, offset) ==
  SubSeq(s, offset + 1, IF offset + limit < Len(s) THEN offset + limit ELSE Len(s))
PageSize(limit) == IF limit < 1 THEN 1 ELSE IF limit > 200 THEN 200 ELSE limit
PageDropping(u, limit, offset) ==
  SelectSeq(PageOf(Newest({n \in Notices : <<n, u>> \in inbox}), PageSize(limit), offset),
            LAMBDA n : n \in Unread(u))
Page(u, limit, offset) == PageOf(Newest(Unread(u)), PageSize(limit), offset)

-----------------------------------------------------------------------------
Handler(n) ==
  \/ \E plan \in Plans[n], loaded \in SUBSET Users, emails \in SUBSET Addresses :
       Begin(n, plan[1], plan[2], emails, loaded)
  \/ CommitFirst(n) \/ Select(n) \/ HandOver(n) \/ Finish(n) \/ Fail(n)

Reader(t) == \/ \E u \in Users : \E rows \in SUBSET inbox : AckBegin(t, u, rows)
             \/ AckCommit(t) \/ AckFail(t)

Next == \/ \E n \in Notices : Handler(n)
        \/ \E k \in Tasks : Take(k) \/ Send(k) \/ Lose(k)
        \/ \E t \in Tabs : Reader(t)
        \/ \E u \in Users, a \in Addresses : Move(u, a)

(* The worker keeps taking e-mails, and each attempt ends (ConfigEmail's   *)
(* timeout); the handlers owe nothing.                                     *)
Fairness == \A k \in Tasks : WF_vars(Take(k)) /\ WF_vars(Send(k) \/ Lose(k))

Spec == Init /\ [][Next]_vars /\ Fairness
-----------------------------------------------------------------------------
HandedOver(n) == {[of |-> n, nr |-> i, to |-> req[n].todo[i]] : i \in 1..req[n].handed}
Waiting == {queue[i] : i \in DOMAIN queue} \cup ({taken[k] : k \in Tasks} \ {None})

(* The state is well typed, and an address belongs to one account.         *)
TypeOK ==
  /\ address \in [Users -> Maybe(Addresses)] /\ turns \in 0..MaxTurns
  /\ \A u, v \in Accounts : u # v => address[u] # address[v]
  /\ req \in [Notices -> Requested]
  /\ made \in Seq(Notices) /\ inbox \subseteq Notices \X Users
  /\ acked \in [Notices \X Users -> Maybe(Tabs)]
  /\ \A t \in Tabs : tab[t].unread \subseteq tab[t].rows /\ tab[t].rows \subseteq inbox
  /\ queue \in Seq(Mails) /\ taken \in [Tasks -> Maybe(Mails)]
  /\ sent \subseteq Mails /\ lost \subseteq Mails

(* No code, link or "password changed" is in the list, or in somebody's    *)
(* mailbox, unless what it speaks of is committed: rolling back what comes *)
(* before the notice takes the notice along.                               *)
CommittedFirst ==
  \A m \in Waiting \cup sent \cup lost :
    CommitsFirst(req[m.of]) => req[m.of].committed

(* A committed change of an event, and a password an administrator sets,   *)
(* is silent to nobody: all its e-mails have been handed over, and every   *)
(* participant has it in the application, where a change that is not       *)
(* committed is never seen, whatever e-mails went out.                     *)
NothingSilent ==
  \A n \in Notices :
    LET s == req[n]
    IN /\ s.committed /\ ~CommitsFirst(s) =>
            /\ \A i \in DOMAIN s.todo : \E m \in Waiting \cup sent \cup lost :
                                          m.of = n /\ m.nr = i
            /\ Len(s.todo) >= Cardinality(s.ids)
       /\ {u \in Users : <<n, u>> \in inbox}
            = IF s.committed /\ ShownInApp(s) THEN s.ids ELSE {}

(* A notice goes to each user it names, and to each address it names, and  *)
(* once only: the user of a named address gets one e-mail, unless an       *)
(* address changed after the handler loaded its users.  Then the address   *)
(* the handler has loaded is still the one that is written to.             *)
Addressed ==
  [][\A n \in Notices : Select(n) =>
       LET s == req[n]
           all == req'[n].todo
       IN /\ s.emails \cup {Email(s, u) : u \in s.ids} \subseteq ToSet(all)
          /\ ~s.stale =>
               /\ ToSet(all) = s.emails \cup {address[u] : u \in s.ids}
               /\ IsInjective(all)]_vars

(* Every e-mail in the list is sent or given up, and none is sent twice or *)
(* after it was given up, whatever the worker does to the list.            *)
Promised == INSTANCE Outbox WITH waiting <- Waiting
AtMostOnce == Promised!Spec

(* A notice stays acknowledged, since the request that acknowledged it     *)
(* first, except when requests overlap: the later one sets the time again. *)
(* Only its user acknowledges a notice.                                    *)
AckKept ==
  [][\A row \in DOMAIN acked : acked'[row] # acked[row] =>
       \E t \in Tabs : /\ AckCommit(t) /\ acked'[row] = t /\ tab[t].user = row[2]
                       /\ acked[row] = None \/ tab[t].stale]_vars

(* The pages of a user's unread notices hold each of them once, from the  *)
(* newest to the oldest, however they are cut, and the first page is empty *)
(* only if there are none, whatever limit is asked for (the filter is      *)
(* added to the statement after its limit).                                *)
Pages(u, limit) == [i \in 1..Cardinality(Unread(u)) |->
                      Page(u, limit, (i - 1) * PageSize(limit))]
PagesComplete ==
  \A u \in Users : \A limit \in 0..Cardinality(Unread(u)) :
    LET all == FlattenSeq(Pages(u, limit))
    IN /\ ToSet(all) = Unread(u)
       /\ \A i, j \in DOMAIN all : i < j => Position(all[i]) > Position(all[j])
       /\ Page(u, limit, 0) = <<>> => Unread(u) = {}
=============================================================================
