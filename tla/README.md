# TLA+ models of the TTK Афиша backend

The backend (FastAPI, PostgreSQL, Redis, taskiq; `src/README.md`) lets
administrators publish events and users take part in them. This directory holds
TLA+ models of its own logic, the TLC runs that check them on small instances,
and TLAPS proofs of what holds for every instance.

Paths below are relative to `src/python/src/hack/`.

## The system

### Components

| Component | State | Operations | Module |
|---|---|---|---|
| Participation (`rest_server/routers/events.py`) | rows of `event` and `event_participant` | `create_event`, `update_event`, `update_my_participation` | `Participation`, abstract: `Roster` |
| Credentials (`core/services/access.py`, `rest_server/routers/access.py`, `users.py`) | `user.password_hash`, `user.deleted_at`, `issued_login_recovery`, `login_session` | login, use of a session, recovery (issue, submit), password reset, soft deletion, edit | `Credentials` |
| Registration (the same files) | `user.email`, `issued_registration` | register, verify, change of address | `Registration` |
| Rate limit (`core/services/access.py`) | one Redis key for each address and purpose, with a time to live | `_check_rate_limit` | `RateLimit` |
| Reminders (`tasks/tasks/event_reminders.py`) | `event_participant.reminder_queued_at` | `queue_event_reminders`, every minute | `Reminders` |
| Notifications (`core/services/notification.py`, `tasks/tasks/send_email.py`, `tasks/brokers/redis.py`, `rest_server/routers/notifications.py`) | the Redis list of e-mails, `instant_notification` | `notify_about_event`, `send_email`, list, acknowledge | `Notifications`, abstract: `Outbox` |
| Event cards, lists (`rest_server/routers/events_cards.py`, `events.py`) | none of their own | `list_event_cards`, `list_events` | `Views` |
| Statistics, export (`statistics.py`, `events.py`) | none of their own | `get_statistics`, `get_my_statistics`, `export_event_participants` | `Views` (histograms), `Statistics` |
| E-mail templates, files, debug endpoints, wiring, migrations | none of their own | reads, rendering, uploads | not modelled, see the end |

### How they interact

Every HTTP request and every task has one SQLAlchemy session: one READ COMMITTED
transaction, rolled back unless the handler reaches `uow_ctl.commit()`. Requests
run concurrently (asyncio, several processes) and interleave at every `await`.
They share only the database and Redis, so *a step of a model is what happens
between two database round trips that matter*: a SELECT, a check, the flush (where
row locks are taken), handing a notice to the broker, the commit. Three features of
the ORM matter and are modelled:

- a session keeps the objects it has loaded (identity map): a second SELECT of the
  same row returns the object with its *old* attributes;
- a flush writes only the columns that changed against what was loaded;
- an UPDATE by primary key that matches no row raises `StaleDataError`, a DELETE
  that matches none is only a warning, a duplicate INSERT violates a unique index.

Notices are handed to Redis in the middle of the handler: before the commit in
`events.py`, `users.py` and the reminders, after it in `routers/access.py`. The worker
is another process, which only sees the list.

### What is hard, and what makes each component correct

`PROJECT.json` lists the hazards with their lines. In short:

- *Participation*: the limit of an event is checked by a COUNT in one statement and
  used by an INSERT in a later one, without a lock; administrators replace the
  roster meanwhile; decisions are taken on loaded objects. Correct: nobody is
  admitted beyond the limit (as far as the code can promise it), to a rejected or a
  finished event; nobody starts taking part unannounced; what is written when the notice
  goes out stays possible; requests deadlock only where edits replace the roster.
- *Credentials*: checks happen on a row that another request may be changing.
  Correct: a password changes only on demand, a token sets at most as many passwords as
  submissions of it overlap, a deleted user does not log in.
- *Registration*: an address is looked up and taken in different statements, by
  different requests. Correct: one account per address, refusals where the code says so.
- *Rate limit*: INCR and EXPIRE are two commands. Correct: it limits, it is honest
  about the delay, it lets go of everybody.
- *Notifications*: e-mails leave the transaction one by one, in-app notices with the
  commit; addresses change meanwhile; the worker takes an e-mail before it sends it.
  Correct: nobody is told what is not so (where the code commits first), no change is
  silent (where it notifies first), each recipient is written to once and no e-mail is
  sent twice or left behind; what is acknowledged stays so, and paging hides nothing.
- *Views* and *Statistics*: they count again, in SQL, what the handlers count. Correct: who is offered a
  place gets it, and filters, histograms
  and totals agree with the status, the limit and each other.
- *Reminders*: batches overlap, fail as a whole, and rows disappear under them.
  Correct: everybody is reminded, and again only by batches that overlap or were rolled back.

## Modules

`MCParticipation` (of `Participation` and `Views`), `MCStatistics` (with `Statistics`),
`MCCredentials`, `MCRegistration` and `MCNotifications` add the payloads, the other events,
the address books and the symmetry sets for TLC; the other modules are checked as they are. The modules whose
name ends in `Proofs` hold the theorems about the module they are named after. Definitions named
as *variant* in a comment are a definition of the code with a plausible mistake; no
specification uses them, they are there to show that the properties notice (the
`mutants` of `PROJECT.json`).

### Participation and Roster

`Participation` models one event. `event` and `rows` are its committed row and its
participants, `now` the clock, `req[r]` a request with its session.

| Action | Code (`rest_server/routers/events.py`) |
|---|---|
| `Create` | `create_event` 107-168: one step, since nobody can address the event before it commits |
| `BeginMine`, `BeginEdit` | the SELECT of the event (383-391, 246-258) and, in an edit, the fields of the payload (259-316) |
| `Load` | the SELECT of its participants that `selectinload` adds (386, 249) |
| `ReadMine` | `update_my_participation`: the user's own participant, 393-398 |
| `Check` | the end of the event and the COUNT, 417-443; the limit of an edit, 318-348 |
| `UpdateEvent` | the UPDATE of the event row: the autoflush before the SELECT of `_ensure_users_exist` (97), or the first flush (335, 350) |
| `RefuseList` | `_ensure_users_exist` answers 404 (99-104) |
| `Delete`, `Put` | one row each: the DELETEs of 335 and 403, the INSERTs and UPDATEs of 350 and 461 |
| `Notify` | 351-365, 404-413, 462-478 |
| `Commit` | 366, 414, 479 |
| `Abort` | an exception, a lost connection, a deadlock victim: rolled back by the session of `core/providers.py` 160-169 |
| `Tick` | time passes |

Decisions taken in the translation:

- The check of the end of the event and the COUNT are one step: the first reads
  nothing but the clock.
- A flush goes statement by statement, and a request keeps the rows it has written
  (`patched`, `cut`, `put`) locked while it waits for the next. The event row comes first,
  then the DELETEs, then the INSERTs. Within the last two any order is possible: the code
  deletes in the order of the primary keys and inserts in that of the payload, and both may
  differ between requests that name the same users.
- A payload whose dates or nulls are refused, and a list with a user who does not
  exist, change nothing; `RefuseList` may refuse any list.
- A row has no identity of its own: `gone` names the users whose loaded row has
  been deleted since. `Commit` of one request adds to the `gone` of the others.
- `told` and `count` are the notice handed over; `began` and `stale` are history
  variables that only the properties read.
- `HasAdmins` (does `_load_admin_ids` find anyone) is a constant.

Four properties are about what goes on between the statements:

- `FlushStands`: what a session has inserted or updated cannot fail any more, whoever
  commits before it, and all of it is written when its notice goes out. That is why the
  notice may follow the flush.
- `DeadlocksAreReplacements`: requests that wait for each other are edits that replace the
  roster, and at most one of them changes the event row too, which all such edits lock
  first. A request of a user writes one row and never has one to keep. PostgreSQL ends a
  deadlock by failing one of them, which is an `Abort`.
- `FreshIsSerial`: a commit that no other has overtaken is a step of the roster below
  without slack, edits included, and a join was of an event that had not ended when it
  began. A join that an edit overtakes is exempt: nothing in the code prevents that it is
  written to a roster and a limit it was not counted against.
- `NoticeFirst`: nobody starts taking part before the notice of it is handed over, to the
  administrators when the user joins and to the user when an edit enrols them. A leave is
  announced to the administrators unless the request was overtaken, for it compares with
  the status it loaded. Whom an edit drops, the code tells nobody, and the property does not
  ask for it.

`Roster` is what the handlers promise, one step for each request: `Enroll` a whole
roster, `Edit` around it, `Decide` for oneself. `Slack` is by how many participants
the limit may be passed. `Serial` and `Overlapping` instantiate it with slack 0 and
with the number of other requests; `open` is an event that exists and is not
rejected.

### Views

The cards, the lists of events with their filters, and the histograms, as operators on
the state of `Participation`. A view is taken of one committed state: the handlers use
several statements, so one answer may mix two moments, which nothing is decided on.
Rates are compared as `4 * count` with multiples of the limit; the floats of the code
compare the same, since quarters are exact and limits are 32-bit integers.

### Statistics

The totals, graphs and averages of `get_statistics`, the numbers of `get_my_statistics`
and the list of `export_event_participants`, over the event of `Participation` and a
constant set of `Others`. The numbers of a user come from the user's own query
(`MyRows`), those of administrators from theirs (`Joined`), as in the code. Rows of `event_participant` are pairs of an event and a user, so
a COUNT is a cardinality; the sums of `event_agg_subq` and of the graph are separate
operators, and the properties say that they agree with the counts. `OthersAssumption`
says what the table of events can hold: finitely many, with rosters of the same users. Like
the views, an answer is taken of one state.

### Notifications and Outbox

A notice is the call of `notify_about_event` by one request, `req[n]`; four kinds stand
for its ten callers, by what they notify with (ids, addresses, in-app notices) and by
whether they commit before or after.

| Action | Code |
|---|---|
| `Begin` | the handler up to its commit or its notice: which users its session holds, whom it names |
| `CommitFirst` | `routers/access.py` 70, 110, 174, 216 |
| `Select` | `notification.py` 33-72: recipients by id or address, the addresses, the in-app notices flushed |
| `HandOver` | `notification.py` 73-83: one `kiq`, an LPUSH |
| `Finish` | the end of the handler, for events, resets and reminders with the commit |
| `Fail` | Redis, the database or the process fails; the session of `core/providers.py` rolls back |
| `Move` | `update_user` (`users.py` 102-126) or a new account |
| `Take`, `Send`, `Lose` | the worker: BRPOP, then `send_email`; no acknowledgement, no retry |
| `AckBegin`, `AckCommit`, `AckFail` | `ack_instant_notifications`: load and 404, then mark and commit |

`Page` is `list_instant_notifications`, an operator: `Newest` lists what is unread by its
place in `made`, the order of `created_at`, which is the time of the flush, and `PageOf`
is LIMIT and OFFSET. A reset without `send_email` notifies nobody and has no
`n`. `Move` may come between the flush of a reset and its `Select`, where the row lock
forbids it: that is the same as a `Move` just before the flush. Which tasks are retried is
a label of the task that none has, so `SimpleRetryMiddleware` of `brokers/redis.py` 73 does
nothing; this and BRPOP are facts of taskiq, modelled as external.

`Outbox` is what a handler may count on once `kiq` has returned: each e-mail is settled
once, by being sent or lost, and settled in the end. `Promised` instantiates it with the
e-mails in the list or in the hands of the worker as those that wait.

### Credentials

One account: its password (a hash, possibly with outdated parameters), its deletion,
its recovery tokens, and the passwords with which sessions have been opened. `Begin`
is the SELECT of the row and the handler's checks in memory; `Flush` the UPDATE,
which waits for the row; `Commit` the rest. `USE` is any request with the
headers of a login session (`lookup_login_session`): sessions never end, so they survive a
new password, but not a deletion. E-mails are in `Notifications`: what is sent is not read
back, and a failure to send it is an `Abort`. `uses` is history: how many passwords a token
has set. `TokenOnce` bounds it by the number of requests, because `used_at` is checked and
written in different statements without a lock: submissions that overlap may all set a
password, but one that comes after must find the token used.

### Registration

Addresses, accounts and registrations. The check of an address (`Taken`) and the
statement that takes it (`Flush`) are separate; the unique index of `user.email`
(`Violates`) decides in between, after waiting for those who are about to take or
leave the address (`Waits`). `origin` is history. The rate limit is in its own
module: a refusal is an `Abort`.

### RateLimit

One key: `count` and `ttl` are its value and time to live, an attempt in flight is
between INCR and EXPIRE. Time is relative (remaining times and ages), so no clock is
bounded. `Overflow` is the first count whose delay does not fit a float, 1021 in the
code; larger counts behave alike and are one value. `live` says whether the key an
attempt counted in still exists; `ages`, `told` and `crashed` are history.

### Reminders

One event. `due` stands for the three conditions on the event (starts within 24
hours, has not started, is not rejected) and changes freely. A batch loads who is to
be reminded, then for each of them flushes the marks of those before, mails, and
marks; the marks are committed together. The handlers of `events.py` appear as
`Respond` and `Replace`, one step each (what they do between statements is in
`Participation`), and wait for rows a batch has written. `mailed` and `lost` are history:
`mailed` counts every e-mail about a row, since nothing takes one back, and `lost` those of
them whose batch was rolled back with its marks. `RemindedOnce` bounds the first by the
second and the number of batches.

## Runs

All pass under TLC with the values below; the violation runs end, as they should, with
a counterexample. Numbers are distinct states.

| Run | Values | Checks | Shows |
|---|---|---|---|
| `PartSerial` | 3 users, 1 request, limits 1, 2, 4 and none, 2 ends, clock to 1, all single-field payloads and all rosters, 3 other events; 0.17 M | `TypeOK`, `SerialRoster`, `FreshIsSerial`, `CardKept`, `FiltersAgree`, `HistogramsSound`, `AdminAgrees`, `UserAgrees` | one request at a time implements `Roster` exactly, joins no event that has ended, and views and statistics agree with it and each other |
| `PartJoins` | 3 users, 2 requests, limit 1, no edits; 1.4 M | `OversellBound`, `OverlappingRoster` | overlapping joins implement `Roster` with a slack of one: they pass the limit by one at most |
| `PartEdits` | 2 users, 2 requests, limits 1 and none, edits, clock at 0; 2.3 M | `FlushStands`, `DeadlocksAreReplacements`, `FreshIsSerial`, `NoticeFirst` | what is written can be committed, who may deadlock, only overtaken requests leave the rules of `Roster`, and nobody starts taking part unannounced |
| `PartOversold` | 2 users, 2 requests | `NeverOversold`, violated | two joins for the last place |
| `PartEditRefused` | 2 users, 1 request | `EditRefusedWhenOverfull`, violated | rejections take up places in an edit |
| `PartNoticeCount` | 2 users, 1 request | `NoticeCountCurrent`, violated | notices count the participants of before |
| `CredRequests` | 2 passwords, 2 tokens, 2 requests; 0.1 M | `TypeOK`, `TokenOnce`, `PasswordKept`, `LoginCurrent` | what overlapping requests may do to an account |
| `CredOldPassword` | the same | `RecoveredPasswordStays`, violated | a login brings the old password back |
| `Registration` | 3 addresses, 2 registrations, 3 accounts, 2 requests; 8 000 | `TypeOK`, `EmailUnique`, `ConflictTold` | who has which address |
| `RateLimit` | 3 attempts, 2 free, delays 2, 4, 8, 16, overflow at 7, 2 crashes; 0.3 M | `TypeOK`, `OnlyUnanswered`, `NotLockedOut`, `RetryAfterHonoured`, `SlidingWindow` | the limiter limits and lets go |
| `Notifications` | 2 users, 2 addresses, 2 notices (any, and one of an event), 1 task, 2 acknowledging requests, 2 turns; 0.2 M | `TypeOK`, `CommittedFirst`, `NothingSilent`, `PagesComplete`, `Addressed`, `AtMostOnce`, `AckKept` | who is told what and when, and that the list and its worker implement `Outbox` |
| `Reminders` | 2 users, 2 batches, 4 edits, 1 failure; 0.15 M | `TypeOK`, `RemindedOnce`, `MarkedIsMailed`, `EventuallyReminded` | everybody is reminded, and how often |

**Bounds.** Two requests are the smallest number that race, and every property is
about the requests in flight pairwise (the bound of `OversellBound` grows with them,
which the proof covers). Three users fill a limit of one and exceed it by two, one
more than `OversellBound` allows; limits of 1, 2 and 4 put the fill rate on every edge
between two bins (the bins of four and more participants are left to the proof). The
clock needs two instants, before and after the
end. `PartEdits` has two users, so that two edits can enrol them in different orders and a
limit of one can be full, and payloads that replace the roster alone, change the event alone,
and do both; its clock stands still, so the end of the event is checked in `PartSerial` and
the two together in the proof of `FreshIsSerial`. `RateLimit` has more attempts than the limit has free ones, and `Overflow` is
above the sum of attempts in flight and crashes: below it a key without a time to
live could count to the end, which in the code takes 1021 attempts that all stop
between two Redis commands. `MaxEdits` and `MaxFailures` of `Reminders` are needed
for liveness: a roster that is replaced during every batch, or a worker that always
fails, does starve the reminders. `Registration` may stop (`CHECK_DEADLOCK FALSE`)
when its tokens are used up; the code always has another one. So may `Notifications`, when its
notices are closed and its list is empty. There, `MaxTurns` bounds the changes of address
and the acknowledgements together: two changes are needed for an address to pass from one
user to the other, two acknowledgements to overlap. `Plans` and `AddressBooks` choose one
notice and one address book of each sort, since users and addresses are interchangeable.

**Fairness.** `Reminders`: the scheduler starts
batches and batches go on (weak), lock waiters are served (strong), and PostgreSQL
ends deadlocks (weak fairness of `Victim`). `Notifications`: the worker takes the next
e-mail when it is idle and each attempt ends, by the timeout of `ConfigEmail` if not
before (weak); the handlers and the readers owe nothing. The other modules state none and have
only safety properties.

**Findings** (the violation runs; details and quotations in `PROJECT.json`). The
limit is passed by simultaneous joins; an edit counts rejections as participants;
notices carry the number of participants of before the change; a login that rehashes
restores a password that a recovery has just replaced. Two things seen on the way and
not counted as findings: a user whose own requests overlap can leave without the
notice of it (the exception in `NoticeFirst`), and `update_user` undeletes whenever
`deleted_at` is left out of the payload (`Undeletes`).

## Proofs

`ParticipationProofs` proves, for all values of the constants that satisfy the
assumptions of `Participation` (finite, non-empty sets of users and requests, limits
and times as the schema admits them, any payloads):

| Theorem | Statement | Argument |
|---|---|---|
| `TypeCorrect` | `Spec => []TypeOK` | `TypeInv`: `TypeOK` and that a request which has not read its own participant has counted fewer participants than there are users; without that the count could exceed its type when `ReadMine` adds one |
| `FreshCommitsAreSerial` | `Spec => FreshIsSerial` | `FreshInv`: a request that is not `stale` still sees the event, roster and checks it has passed, because every `Commit` makes all others stale and nothing else changes them; with `OrderlyInv`, what it has written is what those call for; so its commit is `Decide`, `Edit` or `Enroll` (`SerialCommit`) |
| `OversellIsBounded` | without edits, `Spec => []OversellBound` | count as a participant everyone who is one or is being made one by a request past its check (*hopeful*): a check admits one more only if the participants fit with them, and each request makes at most one user hopeful, so the rest are at most the other requests |
| `ImplementsOverlappingRoster` | without edits, `Spec => OverlappingRoster` | from the same invariant: `Create` is `Enroll`, `Commit` is `Decide`, all else stutters |
| `NoticesComeFirst` | `Spec => NoticeFirst` | `OrderlyInv`: a request about to commit has `told` exactly when a notice is owed by its own reading, and has written no row but those it means to (`Inserts`, `Updates`, `Deletes`); so whom an edit enrols is among those it has informed, and a user who starts taking part does so by a join, whose notice is always owed |
| `FlushesStand` | `Spec => []FlushStands` | `LocksApart`: no two sessions have written one row, since each statement waits for those who hold its row; `PutStands`: so no commit deletes or inserts a row that another has put; `OrderlyInv`: a session that has mailed has put all it wanted |
| `DeadlocksAreOfReplacements` | `Spec => []DeadlocksAreReplacements` | `WaitsEmptyHanded`: a user's request, an edit that keeps the roster and one that still waits for the event row have locked nothing that another waits for, so each member of a deadlock replaces the roster and has passed the event row; two that change it would both hold it |
| `ImplementsSerialRoster` | with one request, `Spec => SerialRoster` | nobody makes a request that is alone `stale` (`NeverStale`), so by `FreshInv` its commit is the step of the abstract roster that its checks promised, edits included |
| `SerialRequestsNeverOversell` | with one request, `Spec => []NeverOversold` | from `ImplementsSerialRoster`: no step of the abstract roster without slack passes the limit (`SerialFits`) |

`ViewsProofs` proves, under the same assumptions:

| Theorem | Statement | Argument |
|---|---|---|
| `CardIsKept` | `Spec => CardKept` | from `FreshInv`: a request that is not overtaken checks against the state the card shows, and the others plus the user are the card's count, the user included once |
| `HistogramsAreSound` | `Spec => []HistogramsSound` | a count, or its ratio to the limit, lies in one of the bins; the last bin of the ratio is the negation of the check of a join |
| `FiltersAreAgreed` | `Spec => []FiltersAgree` | the statuses are exclusive and each filter is the condition of one of them |

`NotificationsProofs` proves, under the assumptions of `Notifications` (finite sets of
users and addresses, first addresses that differ, any notices, tasks, tabs and bounds):

| Theorem | Statement | Argument |
|---|---|---|
| `NotificationsTyped` | `Spec => []TypeOK` | `TypeInv`: `TypeOK`, that a notice has at most one address beside its recipients, so its e-mails are numbered up to `MaxMails`, and that it has handed over no more than it found |
| `NoticesFollowCommits` | `Spec => []CommittedFirst` | `MailInv`: each e-mail on its way, sent or lost belongs to a notice that went on mailing under a number that is used (`AllWritten`); going on takes the commit of those that commit first (`Permitted`), and no request forgets its commit |
| `OutboxImplemented` | `Spec => Promised!Init /\ [][Promised!Next]_(Promised!vars)` | `OnePlace`: an e-mail is at one place of the list or with one task, or settled; a new one has a number its notice has not used. `Take` stutters, `Send` is `Deliver`, `Lose` is `Drop` |
| `NobodyMissesAChange` | `Spec => []NothingSilent` | `ToldInv`: a notice that is committed last is closed with everything handed over, and has at least one e-mail for each user it names (`Grounded`); each number handed over is in the list, with the worker or settled (`Handed`); the in-app notices are those of the committed ones (`Shown`) |
| `NoticesAreAddressed` | `Spec => Addressed` | from `Grounded`, a handler that is not overtaken holds the addresses its accounts have; `SelectTodo`: the e-mails are the addresses of the recipients, then the others named, each once |
| `PagesAreComplete` | `Spec => []PagesComplete` | `MadeInv`: a request makes its notice once, when it starts to mail, and what is in an inbox has been made, so unread notices have a position each; `NewestFirst`: a notice is listed where as many come before it as are newer; `PagesJoin`: the pages of a sequence, joined, are the sequence |
| `AcknowledgementsKept` | `Spec => AckKept` | `AckInv`: a request that is not overtaken still sees unread what it found unread, and holds notices of its user only |

`FlattenSeq` of the community modules, by which the pages are joined, is a recursive
function. `PagesJoin` exhibits what solves its equation, the initial pieces of the
sequence, and shows by induction over a set of naturals (`NatSets`) that any solution is
that one.

"Without edits" is `Payloads = {}`: with edits the bound does not hold, since an
administrator's roster and the joins that counted before it are both written. "With one
request" is that no two members of `Requests` differ; `ImplementsOverlappingRoster` is
the case of several.

`StatisticsProofs` proves, under the assumptions of `Views` and `OthersAssumption`, that the
other events are finitely many, with rosters of the same users:

| Theorem | Statement | Argument |
|---|---|---|
| `AdminNumbersAgree` | `Spec => []AdminAgrees` | counting a set is adding up, over the values of a function, how many have each (`CountsAddUp`): participants by event, by day and by user, events by day |
| `UserNumbersAgree` | `Spec => []UserAgrees` | an account has at most one row for an event, so its participations map one to one into events (`RowsOfUser`), and the followed event is the one with a card |

Both need what a sum over a set is. `MapThenSumSet` of the community modules is a
recursive function on sets chosen by CHOOSE: `OneFold` shows that its equation has one
solution on the subsets of a finite set, as a subset where two differ would have a minimal
one, and `TotalFolds` that `SumsAreTotals` may use it.

`CredentialsProofs` proves, for any tokens, requests, passwords and time to live:

| Theorem | Statement | Argument |
|---|---|---|
| `CredentialsTyped` | `Spec => []TypeOK` | inductive as it stands: it says which requests hold a token and which go on for a deleted account |
| `PasswordsAreKept` | `Spec => PasswordKept` | `AccountStep`: only a `Commit` changes the account, and what it writes; a login rehashes the password it has verified, which by `FreshInv` is the one it replaces unless it is `stale` |
| `TokensAreUsedOnce` | `Spec => []TokenOnce` | `UsesInv`: the passwords a token has set and the submissions of it in flight are together no more than the requests; a submission can only begin while the token is valid, when it has set none |
| `LoginsAreCurrent` | `Spec => LoginCurrent` | from `FreshInv`: the password it has verified, the deletion it has looked at |

`RegistrationProofs` proves, for any accounts, tokens, requests and addresses:

| Theorem | Statement | Argument |
|---|---|---|
| `RegistrationTyped` | `Spec => []TypeOK` | `TypeInv`: a registration that was issued has an address, a request holds what it is about, and no two requests issue one token |
| `EmailsAreUnique` | `Spec => []EmailUnique` | `UniqueInv`: a request past its flush holds the address and the row it takes: no other account has the address, and no other request past its flush takes either |
| `ConflictsAreTold` | `Spec => ConflictTold` | `FreshInv`: the check of a request that is not overtaken is still what the index finds |

`RemindersProofs` proves, for any users and batches, from one invariant, `ReminderInv`:

| Theorem | Statement | Argument |
|---|---|---|
| `RemindersTyped` | `Spec => []TypeOK` | `BatchInv`: no two batches have written one row, and nobody deletes a row that a batch has written |
| `ParticipationsAreRemindedOnce` | `Spec => []RemindedOnce` | `Tally`: the e-mails about a row, sent and still to come, without the lost ones, are no more than the batches, since none loads it once it is marked; a roll-back moves those of its batch to `lost` |
| `MarksAreMailed` | `Spec => []MarkedIsMailed` | `Tally`: a marked row has one reminder more than the batches in flight have sent, that of the batch that committed the mark |

`RateLimitProofs` proves, for any base delay, limit and number of attempts:

| Theorem | Statement | Argument |
|---|---|---|
| `RateLimitTyped` | `Spec => []TypeOK` | `KeyInv`: an attempt got back at most what its key has counted, while that lives; by `DelayBounds` every delay is between the shortest and the cap |
| `RetryAfterIsHonoured` | `Spec => []RetryAfterHonoured` | inductive with `KeyInv`: who was told a delay has set the time to live to it |
| `WindowSlides` | `Spec => SlidingWindow` | `WindowInv`: the key lives until the last admission is as old as the window, so a new key finds only old ones; what a key has counted, up to `Free`, are the recent admissions and the attempts it may still admit (`Fitting`) |
| `KeysAreNotKept` | if `MaxCrashes + Cardinality(Requests) < Overflow`, `Spec => []OnlyUnanswered` | a key without a time to live has counted only attempts in flight and crashed ones, which are too few to reach `Overflow` |
| `NobodyIsLockedOut` | under the same condition, `Spec => []NotLockedOut` | together with `OnlyUnanswered` |

The condition is that fewer attempts overlap or crash than make `2 ** n` overflow a float
(1021); without it the code raises `OverflowError` before EXPIRE. `Power` is a recursive
function, and its equation is proved: every initial piece of it exists and any two agree. Induction
there is over a set of naturals, since the library's induction theorems take an operator as a parameter, which
the provers cannot instantiate.

TLC finds no error in any of the inductive invariants named above when it checks them
with the values of the module's run.

Only model-checked: liveness, which the provers do not support: `EventuallyReminded`, and that every e-mail is settled in `AtMostOnce`, whose safety part
is `OutboxImplemented`. Every invariant and action property of a passing run is a theorem
as well.

## Plan

1. Done: `Roster`, `Participation`, its runs and proofs; `Credentials`,
   `Registration`, `RateLimit`, `Reminders`, `Views` and their runs; `Notifications` with
   `Outbox`, and `Statistics`.
2. The moments of the several statements of one answer of the cards and statistics.
3. `RateLimit` composed with `Registration`: how many codes can be tried.
4. Done: proofs of all safety properties of the passing runs.

## Not modelled

Reads without effect that are not in `Views` or `Statistics` (`get_*`, the list of users), rendering
of e-mails and files, the upload to S3, debug endpoints (they bypass the flows and
need `HACK__DEBUG`), dependency injection, migrations, and the names, roles,
descriptions and pictures that no property is about. Authorization is assumed: an
action of a user or administrator is one of somebody who may do it.
