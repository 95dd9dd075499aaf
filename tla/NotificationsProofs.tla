------------------------ MODULE NotificationsProofs ------------------------
(* Theorems about Notifications, for any users, addresses, notices, tasks  *)
(* of the worker and requests to acknowledge.                              *)
EXTENDS Notifications, FiniteSetTheorems, SequenceTheorems, NaturalsInduction,
        WellFoundedInduction, TLAPS

(* TypeOK, in the parts the actions change, is inductive with these: the   *)
(* e-mails of a notice are numbered, and a request to acknowledge is typed.*)
AddressType == /\ address \in [Users -> Maybe(Addresses)] /\ turns \in 0..MaxTurns
               /\ \A u, v \in Accounts : u # v => address[u] # address[v]
Numbered(s) == /\ s \in Requested
               /\ s.pc \in {"idle", "loaded"} => s.handed = 0
               /\ s.handed <= Len(s.todo) /\ Len(s.todo) <= MaxMails
               /\ Cardinality(s.emails) <= 1
RequestType == req \in [Notices -> Requested] /\ \A n \in Notices : Numbered(req[n])
InAppType == made \in Seq(Notices) /\ inbox \subseteq Notices \X Users
Readers == [pc: {"idle", "loaded"}, user: Maybe(Users), rows: SUBSET (Notices \X Users),
            unread: SUBSET (Notices \X Users), stale: BOOLEAN]
ReaderType == /\ acked \in [Notices \X Users -> Maybe(Tabs)]
              /\ tab \in [Tabs -> Readers]
              /\ \A t \in Tabs : tab[t].unread \subseteq tab[t].rows
                                 /\ tab[t].rows \subseteq inbox
MailType == /\ queue \in Seq(Mails) /\ taken \in [Tasks -> Maybe(Mails)]
            /\ sent \subseteq Mails /\ lost \subseteq Mails
TypeInv == AddressType /\ RequestType /\ InAppType /\ ReaderType /\ MailType

LEMMA Bounds == MaxMails \in Nat /\ Cardinality(Users) \in Nat /\ 1 <= MaxMails
BY FS_CardinalityType, NotificationsAssumption DEF MaxMails

(* An enumeration of a finite set is a sequence of its elements, as long   *)
(* as the set is large, with each of them once.                            *)
LEMMA Enumerations ==
  ASSUME NEW S, IsFiniteSet(S), NEW f \in SetToSeqs(S)
  PROVE  /\ f \in Seq(S) /\ Len(f) = Cardinality(S) /\ DOMAIN f = 1..Len(f)
         /\ \A i, j \in DOMAIN f : f[i] = f[j] => i = j
         /\ \A x \in S : \E i \in DOMAIN f : f[i] = x
<1>1. Cardinality(S) \in Nat
  BY FS_CardinalityType
<1>2. f \in [1..Cardinality(S) -> S]
  BY DEF SetToSeqs
<1>3. f \in Seq(S)
  BY <1>1, <1>2, IsASeq
<1>4. \A i, j \in 1..Cardinality(S) : f[i] = f[j] => i = j
  BY DEF SetToSeqs
<1>5. f \in Surjection(1..Cardinality(S), S)
  <2>1. f \in Injection(1..Cardinality(S), S)
    BY <1>2, <1>4 DEF Injection, IsInjective
  <2>2. Cardinality(1..Cardinality(S)) = Cardinality(S)
    BY <1>1, FS_Interval
  <2> QED BY <2>1, <2>2, FS_Injection
<1> QED BY <1>1, <1>2, <1>3, <1>4, <1>5, LenProperties DEF Surjection

LEMMA Fresh ==
  /\ NoRequest \in Requested
  /\ NoRequest.pc = "idle" /\ ~NoRequest.committed /\ NoRequest.emails = {}
  /\ NoRequest.todo = <<>> /\ Len(NoRequest.todo) = 0 /\ NoRequest.handed = 0
<1>1. [u \in Users |-> None] \in [Users -> Maybe(Addresses)]
  BY DEF Maybe
<1>2. <<>> \in Seq(Addresses) /\ Len(<<>>) = 0
  BY EmptySeq
<1> QED BY <1>1, <1>2 DEF NoRequest, Requested, Kinds

(* A step that changes one request, into a well-typed one, keeps the type. *)
LEMMA OneRequest ==
  ASSUME RequestType, NEW n \in Notices, NEW s, Numbered(s), req' = [req EXCEPT ![n] = s]
  PROVE  RequestType'
<1>1. s \in Requested
  BY DEF Numbered
<1>2. req' \in [Notices -> Requested]
  BY <1>1 DEF RequestType
<1>3. ASSUME NEW x \in Notices PROVE Numbered(req'[x])
  BY DEF RequestType
<1>4. ASSUME NEW x \in Notices PROVE Numbered(req[x])'
  BY <1>3 DEF Numbered
<1> QED BY <1>2, <1>4 DEF RequestType

LEMMA TypeInvInit == Init => TypeInv
<1> SUFFICES ASSUME Init PROVE TypeInv
  OBVIOUS
<1>1. AddressType
  BY NotificationsAssumption DEF Init, AddressType, Accounts, Maybe
<1>3. Cardinality({}) = 0
  BY FS_EmptySet
<1>4. RequestType
  <2>1. Numbered(NoRequest)
    BY <1>3, Fresh, Bounds DEF Numbered
  <2> QED BY <2>1, Fresh DEF Init, RequestType
<1>5. InAppType /\ MailType
  BY DEF Init, InAppType, MailType, Maybe
<1>6. ReaderType
  BY DEF Init, ReaderType, Readers, NoAck, Maybe
<1> QED BY <1>1, <1>4, <1>5, <1>6 DEF TypeInv

(* What a handler may name has one address at most.                        *)
LEMMA BeginType ==
  ASSUME TypeInv, NEW n \in Notices, NEW plan \in Plans[n],
         NEW loaded \in SUBSET Users, NEW emails \in SUBSET Addresses,
         Begin(n, plan[1], plan[2], emails, loaded)
  PROVE  RequestType'
<1> DEFINE held == [u \in Users |-> IF u \in loaded THEN address[u] ELSE None]
           s == [NoRequest EXCEPT !.pc = "loaded", !.kind = plan[1], !.ids = plan[2],
                                  !.emails = emails, !.held = held]
<1>1. plan[1] \in Kinds /\ plan[2] \in SUBSET Users
  <2>1. Plans[n] \in SUBSET (Kinds \X SUBSET Users)
    BY NotificationsAssumption DEF Kinds
  <2> QED BY <2>1
<1>2. held \in [Users -> Maybe(Addresses)]
  BY DEF TypeInv, AddressType, Maybe
<1>3. s \in Requested /\ s.handed = 0 /\ Len(s.todo) = 0 /\ s.emails = emails
  BY <1>1, <1>2, Fresh DEF Requested
<1>4. Cardinality(emails) <= 1
  <2>1. CASE emails = {}
    BY <2>1, FS_EmptySet
  <2>2. CASE \E a : emails = {a}
    <3>1. PICK a : emails = {a}
      BY <2>2
    <3>2. Cardinality({a}) = 1
      BY FS_Singleton
    <3> QED BY <3>1, <3>2
  <2>3. Named(plan[1], plan[2], emails, held)
    BY DEF Begin
  <2>4. emails = {} \/ Cardinality(emails) = 1 \/ \E a : emails = {a}
    BY <2>3, Zenon DEF Named
  <2> QED BY <2>1, <2>2, <2>4
<1>5. req' = [req EXCEPT ![n] = s]
  BY DEF Begin
<1> HIDE DEF s
<1>6. Numbered(s)
  BY <1>3, <1>4, Bounds DEF Numbered
<1> QED BY <1>5, <1>6, OneRequest DEF TypeInv

(* Whom a notice is mailed to: its recipients, each at the address the     *)
(* session has, and then the addresses named besides, each of them once.   *)
Listed(s, all, order, extra) ==
  /\ Len(order) = Cardinality(Recipients(s)) /\ Len(extra) = Cardinality(Extra(s))
  /\ Len(all) = Len(order) + Len(extra)
  /\ \A i \in 1..Len(order) : order[i] \in Recipients(s) /\ all[i] = Email(s, order[i])
  /\ \A i \in 1..Len(extra) : extra[i] \in Extra(s) /\ all[Len(order) + i] = extra[i]
  /\ \A u \in Recipients(s) : \E i \in 1..Len(order) : order[i] = u
  /\ \A e \in Extra(s) : \E i \in 1..Len(extra) : extra[i] = e
  /\ \A i, j \in 1..Len(order) : order[i] = order[j] => i = j
  /\ \A i, j \in 1..Len(extra) : extra[i] = extra[j] => i = j
Mailing(s, all) == [s EXCEPT !.pc = "mailing", !.found = Recipients(s), !.todo = all,
                             !.held = NoRequest.held, !.stale = FALSE]

LEMMA SelectTodo ==
  ASSUME TypeInv, NEW n \in Notices, Select(n)
  PROVE  \E all \in Seq(Addresses), order \in Seq(Users), extra \in Seq(Addresses) :
           req' = [req EXCEPT ![n] = Mailing(req[n], all)] /\ Listed(req[n], all, order, extra)
<1> DEFINE s == req[n]
<1>1. s \in Requested
  BY DEF TypeInv, RequestType
<1>2. Recipients(s) \subseteq Users /\ \A u \in Recipients(s) : Email(s, u) \in Addresses
  BY <1>1 DEF Recipients, Accounts, Email, TypeInv, AddressType, Requested, Maybe
<1>3. Extra(s) \subseteq Addresses
  BY <1>1 DEF Requested, Extra
<1>4. IsFiniteSet(Recipients(s)) /\ IsFiniteSet(Extra(s))
  BY <1>2, <1>3, FS_Subset, NotificationsAssumption
<1>5. PICK order \in SetToSeqs(Recipients(s)), extra \in SetToSeqs(Extra(s)) :
        req' = [req EXCEPT ![n].pc = "mailing", ![n].found = Recipients(s),
                  ![n].todo = [i \in DOMAIN order |-> Email(s, order[i])] \o extra,
                  ![n].held = NoRequest.held, ![n].stale = FALSE]
  BY DEF Select
<1> DEFINE mails == [i \in DOMAIN order |-> Email(s, order[i])]
           all == mails \o extra
<1>6. /\ order \in Seq(Recipients(s)) /\ Len(order) = Cardinality(Recipients(s))
      /\ DOMAIN order = 1..Len(order)
      /\ \A i, j \in 1..Len(order) : order[i] = order[j] => i = j
      /\ \A u \in Recipients(s) : \E i \in 1..Len(order) : order[i] = u
  BY <1>4, Enumerations
<1>7. /\ extra \in Seq(Extra(s)) /\ Len(extra) = Cardinality(Extra(s))
      /\ \A i, j \in 1..Len(extra) : extra[i] = extra[j] => i = j
      /\ \A e \in Extra(s) : \E i \in 1..Len(extra) : extra[i] = e
  BY <1>4, Enumerations
<1>8. Len(order) \in Nat /\ \A i \in 1..Len(order) : order[i] \in Recipients(s)
  BY <1>6, LenProperties, ElementOfSeq
<1>9. mails \in Seq(Addresses) /\ Len(mails) = Len(order)
  <2>1. mails \in [1..Len(order) -> Addresses]
    BY <1>2, <1>6, <1>8
  <2>2. mails \in Seq(Addresses)
    BY <1>8, <2>1, IsASeq
  <2> QED BY <1>6, <1>8, <2>1, <2>2, LenProperties
<1>10. extra \in Seq(Addresses) /\ order \in Seq(Users)
  BY <1>2, <1>3, <1>6, <1>7, SeqMonotonic
<1>11. \A i \in 1..Len(extra) : extra[i] \in Extra(s)
  BY <1>7, ElementOfSeq
<1>12. /\ all \in Seq(Addresses) /\ Len(all) = Len(mails) + Len(extra)
       /\ \A i \in 1..Len(all) : all[i] = IF i <= Len(mails) THEN mails[i]
                                          ELSE extra[i - Len(mails)]
  BY <1>9, <1>10, ConcatProperties
<1>13. Len(extra) \in Nat
  BY <1>10, LenProperties
<1>14. \A i \in 1..Len(order) : mails[i] = Email(s, order[i])
  BY <1>6
<1>15. req' = [req EXCEPT ![n] = Mailing(s, all)]
  BY <1>5 DEF Mailing
<1> HIDE DEF mails, all
<1>16. \A i \in 1..Len(order) : all[i] = Email(s, order[i])
  BY <1>8, <1>9, <1>12, <1>13, <1>14
<1>17. \A i \in 1..Len(extra) : all[Len(order) + i] = extra[i]
  <2> TAKE i \in 1..Len(extra)
  <2>1. /\ Len(order) + i \in 1..Len(all) /\ ~(Len(order) + i <= Len(mails))
        /\ (Len(order) + i) - Len(mails) = i
    BY <1>8, <1>9, <1>12, <1>13
  <2> QED BY <1>12, <2>1
<1>18. all \in Seq(Addresses)
  BY <1>12
<1>19. Listed(s, all, order, extra)
  BY <1>6, <1>7, <1>8, <1>9, <1>11, <1>12, <1>16, <1>17 DEF Listed
<1> QED BY <1>10, <1>15, <1>18, <1>19

LEMMA SelectType ==
  ASSUME TypeInv, NEW n \in Notices, Select(n)
  PROVE  RequestType' /\ InAppType'
<1> DEFINE s == req[n]
<1>1. s \in Requested /\ Cardinality(s.emails) <= 1
  BY DEF TypeInv, RequestType, Numbered
<1>2. Recipients(s) \subseteq Users
  BY DEF Recipients, Accounts
<1>3. /\ Cardinality(Recipients(s)) \in Nat
      /\ Cardinality(Recipients(s)) <= Cardinality(Users)
  BY <1>2, FS_Subset, FS_CardinalityType, NotificationsAssumption
<1>4. Cardinality(Extra(s)) \in Nat /\ Cardinality(Extra(s)) <= 1
  <2>1. s.emails \subseteq Addresses /\ Extra(s) \subseteq s.emails
    BY <1>1 DEF Requested, Extra
  <2>2. IsFiniteSet(s.emails) /\ IsFiniteSet(Extra(s))
    BY <2>1, FS_Subset, NotificationsAssumption
  <2>3. Cardinality(Extra(s)) <= Cardinality(s.emails)
    BY <2>1, <2>2, FS_Subset
  <2>4. Cardinality(Extra(s)) \in Nat /\ Cardinality(s.emails) \in Nat
    BY <2>2, FS_CardinalityType
  <2> QED BY <1>1, <2>3, <2>4
<1>5. PICK all \in Seq(Addresses), order \in Seq(Users), extra \in Seq(Addresses) :
        req' = [req EXCEPT ![n] = Mailing(s, all)] /\ Listed(s, all, order, extra)
  BY SelectTodo
<1>6. Len(all) <= MaxMails /\ 0 <= Len(all) /\ Len(all) \in Nat
  BY <1>3, <1>4, <1>5, Bounds DEF MaxMails, Listed
<1>7. s.handed = 0
  BY DEF TypeInv, RequestType, Numbered, Select, MayNotify
<1> DEFINE new == Mailing(s, all)
<1>8. Numbered(new)
  <2>1. NoRequest.held \in [Users -> Maybe(Addresses)]
    BY Fresh DEF Requested
  <2>2. new \in Requested /\ new.todo = all /\ new.handed = s.handed /\ new.emails = s.emails
        /\ new.pc = "mailing"
    BY <1>1, <1>2, <2>1 DEF Requested, Mailing
  <2> QED BY <1>1, <1>6, <1>7, <2>2 DEF Numbered
<1>9. RequestType'
  <2>1. req' = [req EXCEPT ![n] = new]
    BY <1>5
  <2> HIDE DEF new
  <2> QED BY <1>8, <2>1, OneRequest DEF TypeInv
<1>10. InAppType'
  BY AppendProperties DEF TypeInv, InAppType, Select
<1> QED BY <1>9, <1>10

LEMMA TypeInvNext == TypeInv /\ [Next]_vars => TypeInv'
<1> SUFFICES ASSUME TypeInv, [Next]_vars PROVE TypeInv'
  OBVIOUS
<1> USE DEF TypeInv
<1>1. ASSUME NEW n \in Notices, Handler(n) PROVE TypeInv'
  <2>1. ASSUME NEW plan \in Plans[n], NEW loaded \in SUBSET Users,
               NEW emails \in SUBSET Addresses, Begin(n, plan[1], plan[2], emails, loaded)
        PROVE  TypeInv'
    <3>1. RequestType'
      BY <2>1, BeginType
    <3> QED BY <2>1, <3>1 DEF Begin, AddressType, Accounts, InAppType, ReaderType, MailType,
                              reading, mailing
  <2>2. CASE CommitFirst(n)
    <3> DEFINE s == [req[n] EXCEPT !.committed = TRUE]
    <3>1. Numbered(s)
      BY DEF RequestType, Numbered, Requested
    <3>2. req' = [req EXCEPT ![n] = s]
      BY <2>2 DEF CommitFirst
    <3> HIDE DEF s
    <3>3. RequestType'
      BY <3>1, <3>2, OneRequest
    <3> QED BY <2>2, <3>3 DEF CommitFirst, AddressType, Accounts, InAppType,
                              ReaderType, MailType, reading, mailing
  <2>3. CASE Select(n)
    <3>1. RequestType' /\ InAppType'
      BY <2>3, SelectType
    <3> QED BY <2>3, <3>1 DEF Select, AddressType, Accounts, ReaderType, MailType,
                              reading, mailing
  <2>4. CASE HandOver(n)
    <3> DEFINE i == req[n].handed + 1
    <3>1. i \in 1..MaxMails /\ i <= Len(req[n].todo) /\ req[n].todo[i] \in Addresses
      <4>1. req[n].todo \in Seq(Addresses) /\ req[n].handed \in Nat
        BY DEF RequestType, Requested
      <4>2. Len(req[n].todo) \in Nat /\ Len(req[n].todo) <= MaxMails
        BY <4>1, LenProperties DEF RequestType, Numbered
      <4>3. i \in 1..Len(req[n].todo)
        BY <2>4, <4>1, <4>2 DEF HandOver
      <4> QED BY <4>1, <4>2, <4>3, Bounds, ElementOfSeq
    <3>2. [of |-> n, nr |-> i, to |-> req[n].todo[i]] \in Mails
      BY <3>1 DEF Mails
    <3>3. MailType'
      <4>1. queue' = Append(queue, [of |-> n, nr |-> i, to |-> req[n].todo[i]])
        BY <2>4 DEF HandOver
      <4>2. queue' \in Seq(Mails)
        BY <3>2, <4>1, AppendProperties DEF MailType
      <4> QED BY <2>4, <4>2 DEF HandOver, MailType
    <3>4. RequestType'
      <4> DEFINE s == [req[n] EXCEPT !.handed = i]
      <4>1. Numbered(s)
        <5>1. Numbered(req[n]) /\ req[n].pc = "mailing" /\ i \in Nat /\ i <= Len(req[n].todo)
          BY <2>4, <3>1 DEF HandOver, RequestType
        <5>2. s \in Requested /\ s.pc = req[n].pc /\ s.handed = i /\ s.todo = req[n].todo
              /\ s.emails = req[n].emails
          BY <5>1 DEF Numbered, Requested
        <5> HIDE DEF s, i
        <5> QED BY <5>1, <5>2 DEF Numbered
      <4>2. req' = [req EXCEPT ![n] = s]
        BY <2>4 DEF HandOver
      <4> HIDE DEF s
      <4> QED BY <4>1, <4>2, OneRequest
    <3> QED BY <2>4, <3>3, <3>4 DEF HandOver, AddressType, Accounts, InAppType, ReaderType,
                                    reading
  <2>5. CASE Finish(n)
    <3>1. InApp(n) \subseteq Notices \X Users
      BY DEF InApp, RequestType, Requested
    <3> DEFINE s == [req[n] EXCEPT !.pc = "closed", !.committed = TRUE]
    <3>2. Numbered(s)
      BY DEF RequestType, Numbered, Requested
    <3>3. req' = [req EXCEPT ![n] = s]
      BY <2>5 DEF Finish
    <3> HIDE DEF s
    <3>4. RequestType'
      BY <3>2, <3>3, OneRequest
    <3>5. InAppType' /\ ReaderType'
      BY <2>5, <3>1 DEF Finish, InAppType, ReaderType, reading
    <3> QED BY <2>5, <3>4, <3>5 DEF Finish, AddressType, Accounts, MailType, mailing
  <2>6. CASE Fail(n)
    <3> DEFINE s == [req[n] EXCEPT !.pc = "closed"]
    <3>1. Numbered(s)
      BY DEF RequestType, Numbered, Requested
    <3>2. req' = [req EXCEPT ![n] = s]
      BY <2>6 DEF Fail
    <3> HIDE DEF s
    <3>3. RequestType'
      BY <3>1, <3>2, OneRequest
    <3> QED BY <2>6, <3>3 DEF Fail, AddressType, Accounts, InAppType,
                              ReaderType, MailType, reading, mailing
  <2> QED BY <1>1, <2>1, <2>2, <2>3, <2>4, <2>5, <2>6 DEF Handler
<1>2. ASSUME NEW k \in Tasks, Take(k) PROVE TypeInv'
  <2>1. Head(queue) \in Mails /\ Tail(queue) \in Seq(Mails)
    BY <1>2, HeadTailProperties DEF Take, MailType
  <2> QED BY <1>2, <2>1 DEF Take, AfterTake, MailType, Maybe, AddressType, Accounts,
                            RequestType, InAppType, ReaderType, asking, reading
<1>3. ASSUME NEW k \in Tasks, Send(k) \/ Lose(k) PROVE TypeInv'
  BY <1>3 DEF Send, Lose, MailType, Maybe, AddressType, Accounts,
              RequestType, InAppType, ReaderType, asking, reading
<1>4. ASSUME NEW t \in Tabs, Reader(t) PROVE TypeInv'
  <2>1. ASSUME NEW u \in Users, NEW rows \in SUBSET inbox, AckBegin(t, u, rows)
        PROVE  TypeInv'
    <3>1. turns' \in 0..MaxTurns
      BY <2>1, NotificationsAssumption DEF AckBegin, AddressType
    <3>2. ReaderType'
      BY <2>1 DEF AckBegin, ReaderType, Readers, InAppType, asking, Maybe
    <3> QED BY <2>1, <3>1, <3>2 DEF AckBegin, AddressType, Accounts, RequestType, InAppType,
                                    MailType, asking, mailing
  <2>2. CASE AckCommit(t)
    <3>1. ReaderType'
      <4>1. acked' \in [Notices \X Users -> Maybe(Tabs)]
        BY <2>2 DEF AckCommit, ReaderType, Maybe
      <4>2. ASSUME NEW x \in Tabs
            PROVE  tab'[x] \in Readers /\ tab'[x].unread \subseteq tab'[x].rows
                   /\ tab'[x].rows \subseteq inbox
        <5>1. CASE x = t
          BY <2>2, <5>1 DEF AckCommit, NoAck, Readers, Maybe
        <5>2. CASE x # t
          <6>1. tab'[x] = [tab[x] EXCEPT !.stale = @ \/ tab[x].pc = "loaded"]
            BY <2>2, <5>2 DEF AckCommit
          <6>2. tab[x] \in Readers
            BY DEF ReaderType
          <6>3. tab'[x] \in Readers
            BY <6>1, <6>2 DEF Readers
          <6>4. tab'[x].unread = tab[x].unread /\ tab'[x].rows = tab[x].rows
            BY <6>1, <6>2 DEF Readers
          <6> QED BY <6>3, <6>4 DEF ReaderType
        <5> QED BY <5>1, <5>2
      <4>3. tab' \in [Tabs -> Readers]
        BY <2>2, <4>2 DEF AckCommit
      <4>4. inbox' = inbox
        BY <2>2 DEF AckCommit, asking
      <4> QED BY <4>1, <4>2, <4>3, <4>4 DEF ReaderType
    <3> QED BY <2>2, <3>1 DEF AckCommit, AddressType, Accounts, RequestType, InAppType,
                              MailType, asking, mailing
  <2>3. CASE AckFail(t)
    <3>1. ReaderType'
      BY <2>3 DEF AckFail, ReaderType, Readers, NoAck, Maybe, asking
    <3> QED BY <2>3, <3>1 DEF AckFail, AddressType, Accounts, RequestType, InAppType,
                              MailType, asking, mailing
  <2> QED BY <1>4, <2>1, <2>2, <2>3 DEF Reader
<1>5. ASSUME NEW u \in Users, NEW a \in Addresses, Move(u, a) PROVE TypeInv'
  <2>1. AddressType'
    BY <1>5, NotificationsAssumption DEF Move, Free, AddressType, Accounts, Maybe
  <2>2. RequestType'
    <3>1. ASSUME NEW n \in Notices PROVE Numbered(req'[n])
      <4>1. req'[n] = [req[n] EXCEPT !.stale = @ \/ req[n].pc = "loaded"]
        BY <1>5 DEF Move
      <4>2. Numbered(req[n])
        BY DEF RequestType
      <4> DEFINE s == req[n]
                 new == [s EXCEPT !.stale = @ \/ s.pc = "loaded"]
      <4>3. ASSUME NEW b \in BOOLEAN PROVE Numbered([s EXCEPT !.stale = b])
        BY <4>2 DEF Numbered, Requested
      <4> QED BY <4>1, <4>2, <4>3 DEF Numbered, Requested
    <3>2. req' \in [Notices -> Requested]
      BY <1>5, <3>1 DEF Move, Numbered
    <3>3. \A n \in Notices : Numbered(req[n])'
      BY <3>1 DEF Numbered
    <3> QED BY <3>2, <3>3 DEF RequestType
  <2> QED BY <1>5, <2>1, <2>2 DEF Move, InAppType, ReaderType, MailType, reading, mailing
<1>6. CASE UNCHANGED vars
  BY <1>6 DEF vars, asking, reading, mailing, AddressType, Accounts, RequestType,
              InAppType, ReaderType, MailType
<1> QED BY <1>1, <1>2, <1>3, <1>4, <1>5, <1>6 DEF Next

(* The state of the notices keeps its type, whatever fails or moves.       *)
THEOREM NotificationsTyped == Spec => []TypeOK
<1>1. TypeInv => TypeOK
  BY DEF TypeInv, TypeOK, AddressType, RequestType, InAppType, ReaderType, MailType
<1> QED BY <1>1, TypeInvInit, TypeInvNext, PTL DEF Spec

-----------------------------------------------------------------------------
(* Every e-mail has been handed over by a notice that went on, under a     *)
(* number it has used; and an e-mail is in one place at most.              *)
Ready(s) == s.pc = "mailing" /\ CommitsFirst(s) => s.committed
Permitted == \A n \in Notices : Ready(req[n])
OnTheWay == Waiting \cup sent \cup lost
Written(m, s) == /\ s.pc \in {"mailing", "closed"} /\ m.nr <= s.handed
                 /\ CommitsFirst(s) => s.committed
AllWritten == \A m \in OnTheWay : Written(m, req[m.of])
OnePlace == /\ \A i, j \in 1..Len(queue) : queue[i] = queue[j] => i = j
            /\ \A k, l \in Tasks : taken[k] # None /\ taken[k] = taken[l] => k = l
            /\ \A k \in Tasks, i \in 1..Len(queue) : taken[k] # queue[i]
            /\ \A m \in sent \cup lost : m \notin Waiting
MailInv == Permitted /\ AllWritten /\ OnePlace

(* Where e-mails wait, in the terms of the list and of the tasks.          *)
LEMMA WaitingIs ==
  ASSUME MailType
  PROVE  /\ Len(queue) \in Nat /\ DOMAIN queue = 1..Len(queue)
         /\ \A i \in 1..Len(queue) : queue[i] \in Mails
         /\ \A m : m \in Waiting <=> \/ \E i \in 1..Len(queue) : m = queue[i]
                                     \/ m # None /\ \E k \in Tasks : m = taken[k]
         /\ OnTheWay \subseteq Mails
<1>1. Len(queue) \in Nat /\ DOMAIN queue = 1..Len(queue)
  BY LenProperties DEF MailType
<1>2. \A i \in 1..Len(queue) : queue[i] \in Mails
  BY ElementOfSeq DEF MailType
<1>3. \A m : m \in Waiting <=> \/ \E i \in 1..Len(queue) : m = queue[i]
                               \/ m # None /\ \E k \in Tasks : m = taken[k]
  BY <1>1 DEF Waiting
<1>4. Waiting \subseteq Mails
  BY <1>2, <1>3 DEF MailType, Maybe
<1> QED BY <1>1, <1>2, <1>3, <1>4 DEF OnTheWay, MailType

(* A notice that is being mailed has what it speaks of committed, if it    *)
(* commits first, and no request forgets what it has done.                 *)
Onward(s, t) == s.pc \in {"mailing", "closed"} =>
                  /\ t.pc \in {"mailing", "closed"} /\ s.handed <= t.handed
                  /\ t.kind = s.kind /\ (s.committed => t.committed)
LEMMA RequestStep ==
  ASSUME TypeInv, Permitted, [Next]_vars, NEW x \in Notices
  PROVE  Onward(req[x], req'[x]) /\ Ready(req'[x])
<1>1. /\ Numbered(req[x]) /\ Ready(req[x]) /\ req \in [Notices -> Requested]
      /\ req[x].handed \in Nat /\ req[x] \in Requested
  BY DEF TypeInv, RequestType, Permitted, Requested
<1>2. CASE req'[x] = req[x]
  BY <1>1, <1>2 DEF Onward, Ready, CommitsFirst
<1>3. CASE Handler(x)
  <2>1. ASSUME NEW plan \in Plans[x], NEW loaded \in SUBSET Users,
               NEW emails \in SUBSET Addresses, Begin(x, plan[1], plan[2], emails, loaded)
        PROVE  Onward(req[x], req'[x]) /\ Ready(req'[x])
    <3>1. req[x].pc = "idle" /\ req'[x].pc = "loaded"
      BY <1>1, <2>1 DEF Begin, NoRequest
    <3> QED BY <3>1 DEF Onward, Ready
  <2>2. CASE CommitFirst(x)
    <3>1. req[x].pc = "loaded" /\ req'[x].committed
      BY <1>1, <2>2 DEF CommitFirst, Requested
    <3> QED BY <3>1 DEF Onward, Ready
  <2>3. CASE Select(x)
    <3>1. req[x].pc = "loaded" /\ (CommitsFirst(req[x]) => req[x].committed)
      BY <2>3 DEF Select, MayNotify
    <3>2. PICK order \in SetToSeqs(Recipients(req[x])), extra \in SetToSeqs(Extra(req[x])) :
            req' = [req EXCEPT ![x].pc = "mailing", ![x].found = Recipients(req[x]),
                      ![x].todo = [i \in DOMAIN order |-> Email(req[x], order[i])] \o extra,
                      ![x].held = NoRequest.held, ![x].stale = FALSE]
      BY <2>3 DEF Select
    <3>3. req'[x].kind = req[x].kind /\ req'[x].committed = req[x].committed
      BY <1>1, <3>2 DEF Requested
    <3> QED BY <3>1, <3>3 DEF Onward, Ready, CommitsFirst
  <2>4. CASE HandOver(x)
    <3>1. /\ req'[x].pc = req[x].pc /\ req'[x].kind = req[x].kind
          /\ req'[x].committed = req[x].committed /\ req'[x].handed = req[x].handed + 1
      BY <1>1, <2>4 DEF HandOver, Requested
    <3> QED BY <1>1, <3>1 DEF Onward, Ready, CommitsFirst
  <2>5. CASE Finish(x) \/ Fail(x)
    <3>1. /\ req'[x].pc = "closed" /\ req'[x].kind = req[x].kind
          /\ req[x].committed => req'[x].committed
          /\ req'[x].handed = req[x].handed
      BY <1>1, <2>5 DEF Finish, Fail, Requested
    <3> QED BY <1>1, <3>1 DEF Onward, Ready
  <2> QED BY <1>3, <2>1, <2>2, <2>3, <2>4, <2>5 DEF Handler
<1>4. ASSUME NEW n \in Notices, Handler(n), n # x PROVE req'[x] = req[x]
  BY <1>1, <1>4 DEF Handler, Begin, CommitFirst, Select, HandOver, Finish, Fail
<1>5. ASSUME NEW u \in Users, NEW a \in Addresses, Move(u, a)
      PROVE  Onward(req[x], req'[x]) /\ Ready(req'[x])
  <2>1. req'[x] = [req[x] EXCEPT !.stale = @ \/ req[x].pc = "loaded"]
    BY <1>5 DEF Move
  <2>2. /\ req'[x].pc = req[x].pc /\ req'[x].kind = req[x].kind
        /\ req'[x].committed = req[x].committed /\ req'[x].handed = req[x].handed
    BY <1>1, <2>1 DEF Requested
  <2> QED BY <1>1, <2>2 DEF Onward, Ready, CommitsFirst
<1>6. ASSUME NEW k \in Tasks, Take(k) \/ Send(k) \/ Lose(k) PROVE req'[x] = req[x]
  BY <1>6 DEF Take, Send, Lose, asking
<1>7. ASSUME NEW t \in Tabs, Reader(t) PROVE req'[x] = req[x]
  BY <1>7 DEF Reader, AckBegin, AckCommit, AckFail, asking
<1>8. CASE UNCHANGED vars
  BY <1>2, <1>8 DEF vars, asking
<1> QED BY <1>2, <1>3, <1>4, <1>5, <1>6, <1>7, <1>8 DEF Next

(* The new e-mail has a number its notice has not used.                    *)
LEMMA HandOverStep ==
  ASSUME TypeInv, TypeInv', MailInv, NEW n \in Notices, HandOver(n)
  PROVE  /\ OnePlace'
         /\ \E m \in Mails : /\ Promised!HandOver(m) /\ OnTheWay' = OnTheWay \cup {m}
                             /\ m.of = n /\ m.nr = req'[n].handed
<1> DEFINE s == req[n]
           m == [of |-> n, nr |-> s.handed + 1, to |-> s.todo[s.handed + 1]]
<1>1. /\ queue' = Append(queue, m) /\ UNCHANGED <<taken, sent, lost>>
      /\ req'[n].handed = s.handed + 1 /\ s.handed \in Nat
  BY DEF HandOver, TypeInv, RequestType, Requested
<1>2. m.of = n /\ m.nr = s.handed + 1
  OBVIOUS
<1>3. m \notin OnTheWay
  <2>1. SUFFICES ASSUME m \in OnTheWay PROVE FALSE
    OBVIOUS
  <2>2. Written(m, s)
    BY <1>2, <2>1 DEF MailInv, AllWritten
  <2> QED BY <1>1, <1>2, <2>2 DEF Written
<1> HIDE DEF m
<1>4. queue \in Seq(Mails) /\ queue' \in Seq(Mails)
  BY DEF TypeInv, MailType
<1>5. /\ Len(queue') = Len(queue) + 1 /\ queue'[Len(queue) + 1] = m
      /\ \A i \in 1..Len(queue) : queue'[i] = queue[i]
  BY <1>1, <1>4, AppendProperties, LenProperties, ElementOfSeq
<1>6. Len(queue) \in Nat
  BY <1>4, LenProperties
<1>7. m \in Mails /\ m # None
  <2>1. Len(queue) + 1 \in 1..Len(queue')
    BY <1>5, <1>6
  <2> QED BY <1>4, <1>5, <2>1, ElementOfSeq, MailsAssumption
<1>8. Waiting' = Waiting \cup {m}
  <2>1. \A x : x \in Waiting <=> \/ \E i \in 1..Len(queue) : x = queue[i]
                                 \/ x # None /\ \E k \in Tasks : x = taken[k]
    BY WaitingIs DEF TypeInv
  <2>2. \A x : x \in Waiting' <=> \/ \E i \in 1..Len(queue') : x = queue'[i]
                                  \/ x # None /\ \E k \in Tasks : x = taken[k]
    <3>1. DOMAIN queue' = 1..Len(queue')
      BY <1>4, LenProperties
    <3> QED BY <1>1, <3>1 DEF Waiting
  <2>3. \A x : (\E i \in 1..Len(queue') : x = queue'[i])
                 <=> (\E i \in 1..Len(queue) : x = queue[i]) \/ x = m
    BY <1>5, <1>6
  <2> QED BY <1>7, <2>1, <2>2, <2>3
<1>9. OnTheWay' = OnTheWay \cup {m}
  BY <1>1, <1>8 DEF OnTheWay
<1>10. OnePlace'
  <2>1. \A i \in 1..Len(queue) : queue[i] # m
    BY <1>3, WaitingIs DEF OnTheWay, TypeInv
  <2>2. \A k \in Tasks : taken[k] # m
    BY <1>3, <1>7, WaitingIs DEF OnTheWay, TypeInv
  <2>3. \A i, j \in 1..Len(queue') : queue'[i] = queue'[j] => i = j
    BY <1>5, <1>6, <2>1 DEF MailInv, OnePlace
  <2>4. \A k \in Tasks, i \in 1..Len(queue') : taken'[k] # queue'[i]
    BY <1>1, <1>5, <1>6, <2>2 DEF MailInv, OnePlace
  <2>5. \A x \in sent' \cup lost' : x \notin Waiting'
    BY <1>1, <1>3, <1>8 DEF MailInv, OnePlace, OnTheWay
  <2> QED BY <1>1, <2>3, <2>4, <2>5 DEF MailInv, OnePlace
<1>11. Promised!HandOver(m)
  BY <1>1, <1>3, <1>8 DEF Promised!HandOver, OnTheWay
<1> QED BY <1>1, <1>2, <1>7, <1>9, <1>10, <1>11

(* Taking an e-mail off the list moves it, and it waits as before.         *)
LEMMA TakeStep ==
  ASSUME TypeInv, TypeInv', MailInv, NEW k \in Tasks, Take(k)
  PROVE  OnePlace' /\ Waiting' = Waiting /\ UNCHANGED <<sent, lost>>
<1>1. /\ taken[k] = None /\ queue # <<>> /\ taken' = [taken EXCEPT ![k] = Head(queue)]
      /\ queue' = Tail(queue) /\ UNCHANGED <<sent, lost>>
  BY DEF Take, AfterTake
<1>2. /\ queue \in Seq(Mails) /\ queue' \in Seq(Mails)
      /\ taken \in [Tasks -> Maybe(Mails)]
  BY DEF TypeInv, MailType
<1>3. /\ Head(queue) = queue[1] /\ Len(queue') = Len(queue) - 1 /\ Len(queue) \in Nat
      /\ Len(queue) >= 1 /\ \A i \in 1..Len(queue') : queue'[i] = queue[i + 1]
  BY <1>1, <1>2, HeadTailProperties, EmptySeq, LenProperties
<1>4. queue[1] \in Mails /\ queue[1] # None
  BY <1>2, <1>3, ElementOfSeq, MailsAssumption
<1>5. \A x : (\E i \in 1..Len(queue) : x = queue[i])
               <=> (\E i \in 1..Len(queue') : x = queue'[i]) \/ x = queue[1]
  <2>1. ASSUME NEW x, NEW i \in 1..Len(queue), x = queue[i], i # 1
        PROVE  \E j \in 1..Len(queue') : x = queue'[j]
    <3>1. i - 1 \in 1..Len(queue') /\ (i - 1) + 1 = i
      BY <1>3, <2>1
    <3> QED BY <1>3, <2>1, <3>1
  <2>2. ASSUME NEW x, NEW j \in 1..Len(queue'), x = queue'[j]
        PROVE  \E i \in 1..Len(queue) : x = queue[i]
    <3>1. j + 1 \in 1..Len(queue)
      BY <1>3
    <3> QED BY <1>3, <2>2, <3>1
  <2>3. 1 \in 1..Len(queue)
    BY <1>3
  <2> QED BY <2>1, <2>2, <2>3
<1>6. \A l \in Tasks : taken'[l] = IF l = k THEN queue[1] ELSE taken[l]
  BY <1>1, <1>2, <1>3
<1>7. \A x : (\E l \in Tasks : x # None /\ x = taken'[l])
               <=> (\E l \in Tasks : x # None /\ x = taken[l]) \/ x = queue[1]
  BY <1>1, <1>4, <1>6
<1>8. Waiting' = Waiting
  <2>1. \A x : x \in Waiting <=> \/ \E i \in 1..Len(queue) : x = queue[i]
                                 \/ \E l \in Tasks : x # None /\ x = taken[l]
    BY WaitingIs DEF TypeInv
  <2>2. \A x : x \in Waiting' <=> \/ \E i \in 1..Len(queue') : x = queue'[i]
                                  \/ \E l \in Tasks : x # None /\ x = taken'[l]
    <3>1. DOMAIN queue' = 1..Len(queue')
      BY <1>2, LenProperties
    <3> QED BY <3>1 DEF Waiting
  <2>3. \A x : x \in Waiting' <=> x \in Waiting
    BY <1>5, <1>7, <2>1, <2>2, Zenon
  <2> QED BY <2>3
<1>9. OnePlace'
  <2>1. \A i, j \in 1..Len(queue') : queue'[i] = queue'[j] => i = j
    <3>1. ASSUME NEW i \in 1..Len(queue'), NEW j \in 1..Len(queue'), queue'[i] = queue'[j]
          PROVE  i = j
      <4>1. i + 1 \in 1..Len(queue) /\ j + 1 \in 1..Len(queue)
        BY <1>3
      <4>2. i + 1 = j + 1
        BY <1>3, <3>1, <4>1 DEF MailInv, OnePlace
      <4> QED BY <1>3, <4>2
    <3> QED BY <3>1
  <2>2. \A l, j \in Tasks : taken'[l] # None /\ taken'[l] = taken'[j] => l = j
    <3>1. \A l \in Tasks : taken[l] # queue[1]
      BY <1>3 DEF MailInv, OnePlace
    <3> QED BY <1>6, <3>1 DEF MailInv, OnePlace
  <2>3. \A l \in Tasks, i \in 1..Len(queue') : taken'[l] # queue'[i]
    <3>1. ASSUME NEW l \in Tasks, NEW i \in 1..Len(queue') PROVE taken'[l] # queue'[i]
      <4>1. i + 1 \in 1..Len(queue) /\ 1 \in 1..Len(queue) /\ i + 1 # 1
        BY <1>3
      <4>2. queue[i + 1] # queue[1] /\ taken[l] # queue[i + 1]
        BY <4>1 DEF MailInv, OnePlace
      <4> QED BY <1>3, <1>6, <4>2
    <3> QED BY <3>1
  <2>4. \A x \in sent' \cup lost' : x \notin Waiting'
    BY <1>1, <1>8 DEF MailInv, OnePlace
  <2> QED BY <2>1, <2>2, <2>3, <2>4 DEF OnePlace
<1> QED BY <1>1, <1>8, <1>9

(* An e-mail that is sent or lost was in one place, and waits no longer.   *)
LEMMA SettleStep ==
  ASSUME TypeInv, TypeInv', MailInv, NEW k \in Tasks, Send(k) \/ Lose(k)
  PROVE  /\ OnePlace' /\ taken[k] \in Waiting /\ Waiting' = Waiting \ {taken[k]}
         /\ sent' \cup lost' = sent \cup lost \cup {taken[k]}
<1>1. /\ taken[k] # None /\ taken' = [taken EXCEPT ![k] = None] /\ queue' = queue
      /\ sent' \cup lost' = sent \cup lost \cup {taken[k]}
  BY DEF Send, Lose
<1>2. taken \in [Tasks -> Maybe(Mails)]
  BY DEF TypeInv, MailType
<1>3. \A l \in Tasks : taken'[l] = IF l = k THEN None ELSE taken[l]
  BY <1>1, <1>2
<1>4. taken[k] \in Waiting
  BY <1>1, WaitingIs DEF TypeInv
<1>5. \A x : x \in Waiting' <=> x \in Waiting /\ x # taken[k]
  <2>1. \A x : x \in Waiting <=> \/ \E i \in 1..Len(queue) : x = queue[i]
                                 \/ \E l \in Tasks : x # None /\ x = taken[l]
    BY WaitingIs DEF TypeInv
  <2>2. \A x : x \in Waiting' <=> \/ \E i \in 1..Len(queue) : x = queue[i]
                                  \/ \E l \in Tasks : x # None /\ x = taken'[l]
    <3>1. DOMAIN queue = 1..Len(queue)
      BY WaitingIs DEF TypeInv
    <3> QED BY <1>1, <3>1 DEF Waiting
  <2>3. \A i \in 1..Len(queue) : taken[k] # queue[i]
    BY DEF MailInv, OnePlace
  <2>4. \A l \in Tasks : taken[l] = taken[k] => l = k
    BY <1>1 DEF MailInv, OnePlace
  <2> QED BY <1>3, <2>1, <2>2, <2>3, <2>4
<1>6. OnePlace'
  <2>1. \A x \in sent' \cup lost' : x \notin Waiting'
    BY <1>1, <1>5 DEF MailInv, OnePlace
  <2>2. \A l \in Tasks, i \in 1..Len(queue) : taken'[l] # queue[i]
    <3>1. \A i \in 1..Len(queue) : queue[i] # None
      BY WaitingIs, MailsAssumption DEF TypeInv
    <3> QED BY <1>3, <3>1 DEF MailInv, OnePlace
  <2>3. \A l, j \in Tasks : taken'[l] # None /\ taken'[l] = taken'[j] => l = j
    BY <1>3 DEF MailInv, OnePlace
  <2> QED BY <1>1, <2>1, <2>2, <2>3 DEF MailInv, OnePlace
<1> QED BY <1>1, <1>4, <1>5, <1>6

(* Every step keeps e-mails in one place, adds one that its notice may     *)
(* send, if any, and is a step of Outbox.                                  *)
LEMMA MailStep ==
  ASSUME TypeInv, TypeInv', MailInv, [Next]_vars
  PROVE  /\ OnePlace' /\ [Promised!Next]_(Promised!vars) /\ OnTheWay \subseteq OnTheWay'
         /\ \A m \in OnTheWay' :
              \/ m \in OnTheWay
              \/ m.of \in Notices /\ HandOver(m.of) /\ m.nr <= req'[m.of].handed
<1>1. ASSUME NEW n \in Notices, HandOver(n)
      PROVE  /\ OnePlace' /\ [Promised!Next]_(Promised!vars) /\ OnTheWay \subseteq OnTheWay'
             /\ \A m \in OnTheWay' :
                  \/ m \in OnTheWay
                  \/ m.of \in Notices /\ HandOver(m.of) /\ m.nr <= req'[m.of].handed
  <2>1. req'[n].handed \in Nat
    BY DEF TypeInv, RequestType, Requested
  <2> QED BY <1>1, <2>1, HandOverStep DEF Promised!Next
<1>2. ASSUME NEW k \in Tasks, Take(k)
      PROVE  OnePlace' /\ UNCHANGED Promised!vars /\ OnTheWay' = OnTheWay
  BY <1>2, TakeStep DEF Promised!vars, OnTheWay
<1>3. ASSUME NEW k \in Tasks, Send(k) \/ Lose(k)
      PROVE  OnePlace' /\ Promised!Next /\ OnTheWay' = OnTheWay
  <2>1. /\ OnePlace' /\ taken[k] \in Waiting /\ Waiting' = Waiting \ {taken[k]}
        /\ sent' \cup lost' = sent \cup lost \cup {taken[k]}
    BY <1>3, SettleStep
  <2>2. taken[k] \in Mails
    BY <2>1, WaitingIs DEF OnTheWay, TypeInv
  <2>3. Promised!Deliver(taken[k]) \/ Promised!Drop(taken[k])
    BY <1>3, <2>1 DEF Send, Lose, Promised!Deliver, Promised!Drop
  <2> QED BY <2>1, <2>2, <2>3 DEF Promised!Next, OnTheWay
<1>4. CASE UNCHANGED mailing
  <2>1. UNCHANGED <<queue, taken, sent, lost>>
    BY <1>4 DEF mailing
  <2>2. Waiting' = Waiting
    BY <2>1 DEF Waiting
  <2>3. OnePlace' /\ OnTheWay' = OnTheWay
    BY <2>1, <2>2 DEF MailInv, OnePlace, OnTheWay
  <2> QED BY <2>1, <2>2, <2>3 DEF Promised!vars
<1>5. ASSUME NEW n \in Notices, Handler(n) PROVE HandOver(n) \/ UNCHANGED mailing
  BY <1>5 DEF Handler, Begin, CommitFirst, Select, Finish, Fail
<1>6. ASSUME NEW t \in Tabs, Reader(t) PROVE UNCHANGED mailing
  BY <1>6 DEF Reader, AckBegin, AckCommit, AckFail
<1>7. ASSUME NEW u \in Users, NEW a \in Addresses, Move(u, a) PROVE UNCHANGED mailing
  BY <1>7 DEF Move
<1>8. CASE UNCHANGED vars
  BY <1>4, <1>8 DEF vars
<1> QED BY <1>1, <1>2, <1>3, <1>4, <1>5, <1>6, <1>7, <1>8 DEF Next

LEMMA MailInvInit == Init => MailInv
<1> SUFFICES ASSUME Init PROVE MailInv
  OBVIOUS
<1>1. Permitted
  BY Fresh DEF Init, Permitted, Ready
<1>2. Len(queue) = 0 /\ Waiting = {}
  <2>1. Len(<<>>) = 0 /\ DOMAIN <<>> = {}
    OBVIOUS
  <2> QED BY <2>1 DEF Init, Waiting
<1>3. AllWritten
  BY <1>2 DEF Init, AllWritten, OnTheWay
<1>4. OnePlace
  BY <1>2 DEF Init, OnePlace
<1> QED BY <1>1, <1>3, <1>4 DEF MailInv

LEMMA MailInvNext == TypeInv /\ TypeInv' /\ MailInv /\ [Next]_vars => MailInv'
<1> SUFFICES ASSUME TypeInv, TypeInv', MailInv, [Next]_vars PROVE MailInv'
  OBVIOUS
<1>1. \A x \in Notices : Onward(req[x], req'[x]) /\ Ready(req'[x])
  BY RequestStep DEF MailInv
<1>2. Permitted'
  BY <1>1 DEF Permitted, Ready, CommitsFirst
<1>3. OnePlace'
  BY MailStep
<1>4. ASSUME NEW m \in OnTheWay' PROVE Written(m, req'[m.of])
  <2>1. CASE m \in OnTheWay
    <3>1. m.of \in Notices /\ m.nr \in Nat
      BY <2>1, WaitingIs, Bounds DEF TypeInv, Mails
    <3>2. Written(m, req[m.of]) /\ Onward(req[m.of], req'[m.of])
      BY <1>1, <2>1, <3>1 DEF MailInv, AllWritten
    <3>3. req[m.of].handed \in Nat /\ req'[m.of].handed \in Nat
      BY <3>1 DEF TypeInv, RequestType, Requested
    <3> QED BY <3>1, <3>2, <3>3 DEF Written, Onward, CommitsFirst
  <2>2. CASE m.of \in Notices /\ HandOver(m.of) /\ m.nr <= req'[m.of].handed
    <3>1. req'[m.of].pc = "mailing"
      BY <2>2 DEF HandOver, TypeInv, RequestType, Requested
    <3> QED BY <1>1, <2>2, <3>1 DEF Written, Ready
  <2> QED BY <2>1, <2>2, MailStep
<1>5. AllWritten'
  BY <1>4 DEF AllWritten, Written, CommitsFirst
<1> QED BY <1>2, <1>3, <1>5 DEF MailInv

(* No code, link or notice of a change goes out before what it speaks of   *)
(* is committed, for any notices that overlap and any failures.            *)
THEOREM NoticesFollowCommits == Spec => []CommittedFirst
<1>1. TypeInv /\ MailInv => CommittedFirst
  BY DEF MailInv, AllWritten, Written, OnTheWay, CommittedFirst
<1> QED BY <1>1, TypeInvInit, TypeInvNext, MailInvInit, MailInvNext, PTL DEF Spec

(* The list of Redis and the tasks of the worker implement the safety part *)
(* of Outbox: an e-mail that was sent or given up is not sent again.       *)
THEOREM OutboxImplemented == Spec => Promised!Init /\ [][Promised!Next]_(Promised!vars)
<1>1. Init => Promised!Init
  <2>1. DOMAIN <<>> = {}
    OBVIOUS
  <2> QED BY <2>1 DEF Init, Promised!Init, Waiting
<1>2. TypeInv /\ TypeInv' /\ MailInv /\ [Next]_vars => [Promised!Next]_(Promised!vars)
  BY MailStep
<1> QED BY <1>1, <1>2, TypeInvInit, TypeInvNext, MailInvInit, MailInvNext, PTL DEF Spec

-----------------------------------------------------------------------------
(* A request to acknowledge holds notices of its user, and those it found  *)
(* unread are unread as long as no other request overtakes it.             *)
AckSound(s) ==
  s.pc = "loaded" => \A row \in s.rows : /\ row[2] = s.user
                                         /\ row \in s.unread /\ ~s.stale => acked[row] = None
AckInv == \A t \in Tabs : AckSound(tab[t])

LEMMA AckInvNext == TypeInv /\ AckInv /\ [Next]_vars => AckInv'
<1> SUFFICES ASSUME TypeInv, AckInv, [Next]_vars PROVE AckInv'
  OBVIOUS
<1>1. tab \in [Tabs -> Readers]
  BY DEF TypeInv, ReaderType
<1>2. ASSUME UNCHANGED reading PROVE AckInv'
  BY <1>2 DEF reading, AckInv, AckSound
<1>3. ASSUME NEW t \in Tabs, NEW u \in Users, NEW rows \in SUBSET inbox, AckBegin(t, u, rows)
      PROVE  AckInv'
  <2>1. /\ \A x \in Tabs \ {t} : tab'[x] = tab[x]
        /\ acked' = acked /\ rows \subseteq Found(u)
        /\ tab'[t].rows = rows /\ tab'[t].user = u
        /\ tab'[t].unread = {row \in rows : acked[row] = None}
    BY <1>1, <1>3 DEF AckBegin
  <2>2. \A row \in rows : row[2] = u
    BY <2>1 DEF Found
  <2> QED BY <2>1, <2>2 DEF AckInv, AckSound
<1>4. ASSUME NEW t \in Tabs, AckCommit(t) PROVE AckInv'
  <2>1. ASSUME NEW x \in Tabs, tab'[x].pc = "loaded"
        PROVE  \A row \in tab'[x].rows : row[2] = tab'[x].user /\ tab'[x].stale
    <3>1. x # t
      BY <1>4, <2>1 DEF AckCommit, NoAck
    <3>2. tab[x] \in Readers /\ tab'[x] = [tab[x] EXCEPT !.stale = @ \/ tab[x].pc = "loaded"]
      BY <1>1, <1>4, <3>1 DEF AckCommit
    <3>3. /\ tab[x].pc = "loaded" /\ tab'[x].rows = tab[x].rows
          /\ tab'[x].user = tab[x].user /\ tab'[x].stale
      BY <2>1, <3>2 DEF Readers
    <3> QED BY <3>3 DEF AckInv, AckSound
  <2> QED BY <2>1 DEF AckInv, AckSound
<1>5. ASSUME NEW t \in Tabs, AckFail(t) PROVE AckInv'
  <2>1. /\ \A x \in Tabs \ {t} : tab'[x] = tab[x]
        /\ tab'[t].pc = "idle" /\ acked' = acked
    BY <1>1, <1>5 DEF AckFail, NoAck
  <2> QED BY <2>1 DEF AckInv, AckSound
<1>6. ASSUME NEW n \in Notices, Handler(n) PROVE UNCHANGED reading
  BY <1>6 DEF Handler, Begin, CommitFirst, Select, HandOver, Finish, Fail
<1>7. ASSUME NEW k \in Tasks, Take(k) \/ Send(k) \/ Lose(k) PROVE UNCHANGED reading
  BY <1>7 DEF Take, Send, Lose
<1>8. ASSUME NEW u \in Users, NEW a \in Addresses, Move(u, a) PROVE UNCHANGED reading
  BY <1>8 DEF Move
<1>9. CASE UNCHANGED vars
  BY <1>2, <1>9 DEF vars
<1> QED BY <1>2, <1>3, <1>4, <1>5, <1>6, <1>7, <1>8, <1>9 DEF Next, Reader

(* A notice is acknowledged by its user only, and again only by a request  *)
(* that overlapped with the one that acknowledged it.                      *)
THEOREM AcknowledgementsKept == Spec => AckKept
<1>1. Init => AckInv
  BY DEF Init, AckInv, AckSound, NoAck
<1>2. TypeInv /\ AckInv /\ [Next]_vars
        => [\A row \in DOMAIN acked : acked'[row] # acked[row] =>
              \E t \in Tabs : /\ AckCommit(t) /\ acked'[row] = t /\ tab[t].user = row[2]
                              /\ acked[row] = None \/ tab[t].stale]_vars
  <2> SUFFICES ASSUME TypeInv, AckInv, [Next]_vars,
                      NEW row \in DOMAIN acked, acked'[row] # acked[row]
               PROVE  \E t \in Tabs : /\ AckCommit(t) /\ acked'[row] = t
                                      /\ tab[t].user = row[2]
                                      /\ acked[row] = None \/ tab[t].stale
    OBVIOUS
  <2>1. PICK t \in Tabs : AckCommit(t)
    <3>1. CASE UNCHANGED acked
      BY <3>1
    <3>2. CASE \E t \in Tabs : AckCommit(t)
      BY <3>2
    <3>3. UNCHANGED acked \/ \E t \in Tabs : AckCommit(t)
      BY DEF Next, Handler, Begin, CommitFirst, Select, HandOver, Finish, Fail, Take, Send, Lose,
             Move, Reader, AckBegin, AckFail, reading, vars
    <3> QED BY <3>1, <3>2, <3>3
  <2>2. acked'[row] = t /\ row \in tab[t].unread /\ tab[t].pc = "loaded"
    BY <2>1 DEF AckCommit, Marks
  <2>3. row \in tab[t].rows
    BY <2>2 DEF TypeInv, ReaderType
  <2> QED BY <2>1, <2>2, <2>3 DEF AckInv, AckSound
<1> QED BY <1>1, <1>2, TypeInvInit, TypeInvNext, AckInvNext, PTL DEF Spec, AckKept

-----------------------------------------------------------------------------
(* What a handler that notifies has to go on: it names accounts, and, not  *)
(* overtaken, the addresses it has loaded are those they have.  When it    *)
(* commits with its notice, all e-mails are handed over, one at least for  *)
(* each user it names; and these are the users who find it in the inbox.   *)
Grounded(s) ==
  /\ s.pc = "idle" => ~s.committed
  /\ s.pc # "idle" => s.ids \subseteq Accounts /\ (s.kind = "EVENT" => s.emails = {})
  /\ s.pc = "loaded" /\ ~s.stale
       => \A u \in Users : s.held[u] # None => s.held[u] = address[u]
  /\ s.committed /\ ~CommitsFirst(s) => s.pc = "closed" /\ s.handed = Len(s.todo)
  /\ s.pc = "mailing" \/ (s.committed /\ ~CommitsFirst(s))
       => /\ Len(s.todo) >= Cardinality(s.ids)
          /\ ShownInApp(s) => s.found = s.ids
Handed(n) == \A i \in 1..req[n].handed : \E m \in OnTheWay : m.of = n /\ m.nr = i
Told(s) == IF s.committed /\ ShownInApp(s) THEN s.ids ELSE {}
Shown(n) == {u \in Users : <<n, u>> \in inbox} = Told(req[n])
ToldInv == \A n \in Notices : Grounded(req[n]) /\ Handed(n) /\ Shown(n)

(* A handler stays grounded when it reads its recipients: those it names   *)
(* are among them, and they are no others if it names no address.          *)
LEMMA SelectGrounded ==
  ASSUME TypeInv, NEW x \in Notices, Grounded(req[x]), Select(x)
  PROVE  /\ Grounded(req[x])' /\ Told(req'[x]) = Told(req[x])
         /\ req'[x].handed = req[x].handed
<1> DEFINE s == req[x]
<1>1. s \in Requested /\ address' = address /\ req \in [Notices -> Requested]
  BY DEF TypeInv, RequestType, Select
<1>2. s.pc = "loaded" /\ s.ids \subseteq Accounts /\ (s.kind = "EVENT" => s.emails = {})
  BY DEF Select, MayNotify, Grounded
<1>3. ~(s.committed /\ ~CommitsFirst(s))
  BY <1>2 DEF Grounded
<1>4. PICK all \in Seq(Addresses), order \in Seq(Users), extra \in Seq(Addresses) :
        req' = [req EXCEPT ![x] = Mailing(s, all)] /\ Listed(s, all, order, extra)
  BY SelectTodo
<1>5. req'[x] = Mailing(s, all)
  BY <1>1, <1>4
<1>6. /\ req'[x].pc = "mailing" /\ req'[x].found = Recipients(s) /\ req'[x].todo = all
      /\ req'[x].ids = s.ids /\ req'[x].kind = s.kind /\ req'[x].emails = s.emails
      /\ req'[x].committed = s.committed /\ req'[x].handed = s.handed
  BY <1>1, <1>5 DEF Mailing, Requested
<1>7. Len(all) >= Cardinality(s.ids)
  <2>1. /\ IsFiniteSet(Recipients(s)) /\ s.ids \subseteq Recipients(s)
        /\ IsFiniteSet(Extra(s))
    <3>1. Recipients(s) \subseteq Users /\ Extra(s) \subseteq Addresses
      BY <1>1 DEF Recipients, Accounts, Extra, Requested
    <3>2. s.ids \subseteq Recipients(s)
      BY <1>2 DEF Recipients
    <3> QED BY <3>1, <3>2, FS_Subset, NotificationsAssumption
  <2>2. Cardinality(s.ids) <= Cardinality(Recipients(s)) /\ IsFiniteSet(s.ids)
    BY <2>1, FS_Subset
  <2>3. /\ Cardinality(s.ids) \in Nat /\ Cardinality(Recipients(s)) \in Nat
        /\ Cardinality(Extra(s)) \in Nat
    BY <2>1, <2>2, FS_CardinalityType
  <2>4. Len(all) = Cardinality(Recipients(s)) + Cardinality(Extra(s))
    BY <1>4 DEF Listed
  <2> QED BY <2>2, <2>3, <2>4
<1>8. ShownInApp(s) => Recipients(s) = s.ids
  BY <1>2 DEF ShownInApp, Recipients, Accounts
<1>9. Grounded(req[x])'
  BY <1>1, <1>2, <1>3, <1>6, <1>7, <1>8 DEF Grounded, Accounts, CommitsFirst, ShownInApp
<1> QED BY <1>6, <1>9 DEF Told, ShownInApp

(* Every step keeps a handler grounded; whom it has told changes when it   *)
(* ends, and what it has handed over when it hands an e-mail over.         *)
LEMMA GroundedStep ==
  ASSUME TypeInv, NEW x \in Notices, Grounded(req[x]), [Next]_vars
  PROVE  /\ Grounded(req[x])'
         /\ Finish(x) \/ Told(req'[x]) = Told(req[x])
         /\ HandOver(x) \/ req'[x].handed = req[x].handed
<1> DEFINE s == req[x]
           Kept == /\ Grounded(req[x])'
                   /\ Finish(x) \/ Told(req'[x]) = Told(s)
                   /\ HandOver(x) \/ req'[x].handed = s.handed
<1>1. /\ s \in Requested /\ req \in [Notices -> Requested] /\ Numbered(s)
  BY DEF TypeInv, RequestType
<1>2. CASE req'[x] = s /\ address' = address
  BY <1>2 DEF Grounded, Accounts, CommitsFirst, ShownInApp, Told
<1>3. CASE Handler(x)
  <2>1. ASSUME NEW plan \in Plans[x], NEW loaded \in SUBSET Users,
               NEW emails \in SUBSET Addresses, Begin(x, plan[1], plan[2], emails, loaded)
        PROVE  Kept
    <3> DEFINE held == [u \in Users |-> IF u \in loaded THEN address[u] ELSE None]
    <3>1. /\ s.pc = "idle" /\ address' = address
          /\ plan[2] \subseteq Accounts /\ Named(plan[1], plan[2], emails, held)
          /\ req'[x] = [NoRequest EXCEPT !.pc = "loaded", !.kind = plan[1],
                          !.ids = plan[2], !.emails = emails, !.held = held]
      BY <1>1, <2>1 DEF Begin
    <3>2. /\ req'[x].pc = "loaded" /\ req'[x].kind = plan[1] /\ req'[x].ids = plan[2]
          /\ req'[x].emails = emails /\ req'[x].held = held /\ ~req'[x].committed
          /\ req'[x].handed = 0
      BY <3>1 DEF NoRequest
    <3>3. plan[1] = "EVENT" => emails = {}
      BY <3>1, Zenon DEF Named
    <3>4. \A u \in Users : held[u] # None => held[u] = address[u]
      OBVIOUS
    <3> HIDE DEF held
    <3>5. Grounded(req[x])'
      BY <3>1, <3>2, <3>3, <3>4 DEF Grounded, Accounts
    <3>6. ~s.committed /\ s.handed = 0
      BY <1>1, <3>1 DEF Grounded, Numbered
    <3> QED BY <3>2, <3>5, <3>6 DEF Told
  <2>2. CASE CommitFirst(x)
    <3>1. /\ s.pc = "loaded" /\ CommitsFirst(s) /\ address' = address
          /\ req'[x] = [s EXCEPT !.committed = TRUE]
      BY <1>1, <2>2 DEF CommitFirst
    <3>2. /\ req'[x].pc = s.pc /\ req'[x].kind = s.kind /\ req'[x].ids = s.ids
          /\ req'[x].emails = s.emails /\ req'[x].held = s.held /\ req'[x].stale = s.stale
          /\ req'[x].handed = s.handed
      BY <1>1, <3>1 DEF Requested
    <3>3. Grounded(req[x])'
      BY <3>1, <3>2 DEF Grounded, Accounts, CommitsFirst
    <3>4. ~ShownInApp(s) /\ ~ShownInApp(req'[x])
      BY <3>1, <3>2 DEF CommitsFirst, ShownInApp
    <3> QED BY <3>2, <3>3, <3>4 DEF Told
  <2>3. CASE Select(x)
    BY <2>3, SelectGrounded
  <2>4. CASE HandOver(x)
    <3>1. /\ s.pc = "mailing" /\ address' = address
          /\ req'[x] = [s EXCEPT !.handed = s.handed + 1]
      BY <1>1, <2>4 DEF HandOver
    <3>2. /\ req'[x].pc = s.pc /\ req'[x].kind = s.kind /\ req'[x].ids = s.ids
          /\ req'[x].emails = s.emails /\ req'[x].found = s.found
          /\ req'[x].todo = s.todo /\ req'[x].committed = s.committed
      BY <1>1, <3>1 DEF Requested
    <3>3. Grounded(req[x])'
      BY <3>1, <3>2 DEF Grounded, Accounts, CommitsFirst, ShownInApp
    <3> QED BY <2>4, <3>2, <3>3 DEF Told, ShownInApp
  <2>5. CASE Finish(x)
    <3>1. /\ s.pc = "mailing" /\ s.handed = Len(s.todo) /\ address' = address
          /\ req'[x] = [s EXCEPT !.pc = "closed", !.committed = TRUE]
      BY <1>1, <2>5 DEF Finish, MayFinish
    <3>2. /\ req'[x].pc = "closed" /\ req'[x].kind = s.kind /\ req'[x].ids = s.ids
          /\ req'[x].emails = s.emails /\ req'[x].found = s.found
          /\ req'[x].todo = s.todo /\ req'[x].handed = s.handed
      BY <1>1, <3>1 DEF Requested
    <3>3. Grounded(req[x])'
      BY <3>1, <3>2 DEF Grounded, Accounts, CommitsFirst, ShownInApp
    <3> QED BY <2>5, <3>2, <3>3
  <2>6. CASE Fail(x)
    <3>1. /\ s.pc \in {"loaded", "mailing"} /\ address' = address
          /\ req'[x] = [s EXCEPT !.pc = "closed"]
      BY <1>1, <2>6 DEF Fail
    <3>2. /\ req'[x].pc = "closed" /\ req'[x].kind = s.kind /\ req'[x].ids = s.ids
          /\ req'[x].emails = s.emails /\ req'[x].handed = s.handed
          /\ req'[x].committed = s.committed
      BY <1>1, <3>1 DEF Requested
    <3>3. ~(s.committed /\ ~CommitsFirst(s))
      BY <3>1 DEF Grounded
    <3>4. Grounded(req[x])'
      BY <3>1, <3>2, <3>3 DEF Grounded, Accounts, CommitsFirst
    <3> QED BY <3>2, <3>4 DEF Told, ShownInApp
  <2> QED BY <1>3, <2>1, <2>2, <2>3, <2>4, <2>5, <2>6 DEF Handler
<1>4. ASSUME NEW n \in Notices, Handler(n), n # x PROVE req'[x] = s /\ address' = address
  BY <1>1, <1>4 DEF Handler, Begin, CommitFirst, Select, HandOver, Finish, Fail
<1>5. ASSUME NEW u \in Users, NEW a \in Addresses, Move(u, a) PROVE Kept
  <2>1. /\ req'[x] = [s EXCEPT !.stale = @ \/ s.pc = "loaded"]
        /\ address' = [address EXCEPT ![u] = a]
    BY <1>5 DEF Move
  <2>2. /\ req'[x].pc = s.pc /\ req'[x].kind = s.kind /\ req'[x].ids = s.ids
        /\ req'[x].emails = s.emails /\ req'[x].found = s.found /\ req'[x].todo = s.todo
        /\ req'[x].committed = s.committed /\ req'[x].handed = s.handed
        /\ s.pc = "loaded" => req'[x].stale
    BY <1>1, <2>1 DEF Requested
  <2>3. Accounts \subseteq Accounts'
    BY <2>1, NotificationsAssumption DEF TypeInv, AddressType, Accounts
  <2>4. Grounded(req[x])'
    BY <2>2, <2>3 DEF Grounded, CommitsFirst, ShownInApp
  <2> QED BY <2>2, <2>4 DEF Told, ShownInApp
<1>6. ASSUME NEW k \in Tasks, Take(k) \/ Send(k) \/ Lose(k)
      PROVE  req'[x] = s /\ address' = address
  BY <1>6 DEF Take, Send, Lose, asking
<1>7. ASSUME NEW t \in Tabs, Reader(t) PROVE req'[x] = s /\ address' = address
  BY <1>7 DEF Reader, AckBegin, AckCommit, AckFail, asking
<1>8. CASE UNCHANGED vars
  BY <1>8, <1>2 DEF vars, asking
<1> QED BY <1>2, <1>3, <1>4, <1>5, <1>6, <1>7, <1>8 DEF Next

(* An e-mail that is handed over is on its way, and stays known.           *)
LEMMA HandedStep ==
  ASSUME TypeInv, TypeInv', MailInv, [Next]_vars, NEW x \in Notices, Grounded(req[x]),
         Handed(x)
  PROVE  Handed(x)'
<1>1. /\ req[x].handed \in Nat /\ req'[x].handed \in Nat /\ req \in [Notices -> Requested]
      /\ req[x] \in Requested /\ OnTheWay \subseteq OnTheWay'
  BY MailStep DEF TypeInv, RequestType, Requested
<1>2. CASE req'[x].handed = req[x].handed
  BY <1>1, <1>2 DEF Handed
<1>3. CASE HandOver(x)
  <2>1. req'[x].handed = req[x].handed + 1
    BY <1>1, <1>3 DEF HandOver, Requested
  <2>2. PICK m \in OnTheWay' : m.of = x /\ m.nr = req'[x].handed
    BY <1>3, HandOverStep
  <2>3. \A i \in 1..req'[x].handed : i \in 1..req[x].handed \/ i = m.nr
    BY <1>1, <2>1, <2>2
  <2>4. ASSUME NEW i \in 1..req'[x].handed PROVE \E l \in OnTheWay' : l.of = x /\ l.nr = i
    BY <1>1, <2>2, <2>3 DEF Handed
  <2> QED BY <2>4 DEF Handed
<1> QED BY <1>2, <1>3, GroundedStep

(* Users find in the inbox what was committed, and nothing else.           *)
LEMMA ShownStep ==
  ASSUME TypeInv, [Next]_vars, NEW x \in Notices, Grounded(req[x]), Shown(x)
  PROVE  Shown(x)'
<1> DEFINE s == req[x]
<1>1. s \in Requested /\ req \in [Notices -> Requested]
  BY DEF TypeInv, RequestType
<1>2. CASE Finish(x)
  <2>1. /\ s.pc = "mailing" /\ inbox' = inbox \cup InApp(x)
        /\ req'[x] = [s EXCEPT !.pc = "closed", !.committed = TRUE]
    BY <1>1, <1>2 DEF Finish, MayFinish
  <2>2. req'[x].committed /\ req'[x].kind = s.kind /\ req'[x].ids = s.ids
    BY <1>1, <2>1 DEF Requested
  <2>3. Told(s) = {} /\ (ShownInApp(s) => s.found = s.ids)
    BY <2>1 DEF Grounded, Told, CommitsFirst, ShownInApp
  <2>4. s.found \subseteq Users /\ \A u \in Users : <<x, u>> \notin inbox
    BY <1>1, <2>3 DEF Shown, Requested
  <2>5. CASE ShownInApp(s)
    <3>1. \A u \in Users : <<x, u>> \in inbox' <=> u \in s.ids
      BY <2>1, <2>3, <2>4, <2>5 DEF InApp
    <3>2. Told(req'[x]) = s.ids /\ s.ids \subseteq Users
      BY <1>1, <2>2, <2>5 DEF Told, ShownInApp, Requested
    <3> QED BY <3>1, <3>2 DEF Shown, Told, ShownInApp
  <2>6. CASE ~ShownInApp(s)
    BY <2>1, <2>2, <2>4, <2>6 DEF Shown, Told, ShownInApp, InApp
  <2> QED BY <2>5, <2>6
<1>3. CASE ~Finish(x)
  <2>1. Told(req'[x]) = Told(s)
    BY <1>3, GroundedStep
  <2>2. ASSUME NEW n \in Notices, Finish(n), n # x, NEW u \in Users
        PROVE  <<x, u>> \in inbox' <=> <<x, u>> \in inbox
    BY <2>2 DEF Finish, InApp
  <2>3. inbox' = inbox \/ \E n \in Notices : Finish(n)
    BY DEF Next, Handler, Begin, CommitFirst, Select, HandOver, Fail, Take, Send, Lose, Move,
           Reader, AckBegin, AckCommit, AckFail, asking, vars
  <2>4. \A u \in Users : <<x, u>> \in inbox' <=> <<x, u>> \in inbox
    BY <1>3, <2>2, <2>3
  <2> QED BY <2>1, <2>4 DEF Shown, Told, ShownInApp
<1> QED BY <1>2, <1>3

LEMMA ToldInvInit == Init => ToldInv
<1> SUFFICES ASSUME Init, NEW n \in Notices PROVE Grounded(req[n]) /\ Handed(n) /\ Shown(n)
  BY DEF ToldInv
<1>1. req[n] = NoRequest /\ inbox = {}
  BY DEF Init
<1>2. Grounded(NoRequest)
  BY Fresh DEF Grounded
<1>3. Handed(n)
  BY <1>1, Fresh DEF Handed
<1>4. Shown(n)
  BY <1>1, Fresh DEF Shown, Told
<1> QED BY <1>1, <1>2, <1>3, <1>4

LEMMA ToldInvNext == TypeInv /\ TypeInv' /\ MailInv /\ ToldInv /\ [Next]_vars => ToldInv'
BY GroundedStep, HandedStep, ShownStep DEF ToldInv

(* A change that is committed with its notice is silent to nobody it       *)
(* concerns, and users never find a change that was rolled back.           *)
THEOREM NobodyMissesAChange == Spec => []NothingSilent
<1>1. TypeInv /\ ToldInv => NothingSilent
  <2> SUFFICES ASSUME TypeInv, ToldInv, NEW n \in Notices
               PROVE  LET s == req[n]
                      IN /\ s.committed /\ ~CommitsFirst(s) =>
                              /\ \A i \in DOMAIN s.todo :
                                   \E m \in OnTheWay : m.of = n /\ m.nr = i
                              /\ Len(s.todo) >= Cardinality(s.ids)
                         /\ {u \in Users : <<n, u>> \in inbox}
                              = IF s.committed /\ ShownInApp(s) THEN s.ids ELSE {}
    BY DEF NothingSilent, OnTheWay
  <2>1. DOMAIN req[n].todo = 1..Len(req[n].todo)
    BY LenProperties DEF TypeInv, RequestType, Requested
  <2>2. Grounded(req[n]) /\ Handed(n) /\ Shown(n)
    BY DEF ToldInv
  <2> QED BY <2>1, <2>2 DEF Grounded, Handed, Shown, Told
<1> QED BY <1>1, TypeInvInit, TypeInvNext, MailInvInit, MailInvNext, ToldInvInit, ToldInvNext,
           PTL DEF Spec

(* A notice is mailed to each user and each address it names, and once     *)
(* only, to current addresses, unless an address changed meanwhile.        *)
THEOREM NoticesAreAddressed == Spec => Addressed
<1>1. TypeInv /\ ToldInv /\ [Next]_vars
        => [\A n \in Notices : Select(n) =>
              LET s == req[n]
                  all == req'[n].todo
              IN /\ s.emails \cup {Email(s, u) : u \in s.ids} \subseteq ToSet(all)
                 /\ ~s.stale =>
                      /\ ToSet(all) = s.emails \cup {address[u] : u \in s.ids}
                      /\ IsInjective(all)]_vars
  <2> SUFFICES ASSUME TypeInv, ToldInv, NEW n \in Notices, Select(n)
               PROVE  LET s == req[n]
                          all == req'[n].todo
                      IN /\ s.emails \cup {Email(s, u) : u \in s.ids} \subseteq ToSet(all)
                         /\ ~s.stale =>
                              /\ ToSet(all) = s.emails \cup {address[u] : u \in s.ids}
                              /\ IsInjective(all)
    OBVIOUS
  <2> DEFINE s == req[n]
  <2>1. PICK all \in Seq(Addresses), order \in Seq(Users), extra \in Seq(Addresses) :
          req' = [req EXCEPT ![n] = Mailing(s, all)] /\ Listed(s, all, order, extra)
    BY SelectTodo
  <2>2. s \in Requested /\ req'[n].todo = all
    BY <2>1 DEF TypeInv, RequestType, Mailing, Requested
  <2>3. /\ Len(order) \in Nat /\ Len(extra) \in Nat /\ Len(all) = Len(order) + Len(extra)
        /\ DOMAIN all = 1..Len(all)
    BY <2>1, LenProperties DEF Listed
  <2>4. s.ids \subseteq Recipients(s) /\ s.pc = "loaded"
    BY DEF ToldInv, Grounded, Select, MayNotify, Recipients
  <2>5. /\ \A u \in Recipients(s) : \E i \in DOMAIN all : all[i] = Email(s, u)
        /\ \A e \in Extra(s) : \E i \in DOMAIN all : all[i] = e
    <3>1. ASSUME NEW u \in Recipients(s) PROVE \E i \in DOMAIN all : all[i] = Email(s, u)
      <4>1. PICK i \in 1..Len(order) : order[i] = u
        BY <2>1 DEF Listed
      <4> QED BY <2>1, <2>3, <4>1 DEF Listed
    <3>2. ASSUME NEW e \in Extra(s) PROVE \E i \in DOMAIN all : all[i] = e
      <4>1. PICK i \in 1..Len(extra) : extra[i] = e
        BY <2>1 DEF Listed
      <4>2. Len(order) + i \in DOMAIN all /\ all[Len(order) + i] = e
        BY <2>1, <2>3, <4>1 DEF Listed
      <4> QED BY <4>2
    <3> QED BY <3>1, <3>2
  <2>6. \A i \in DOMAIN all :
          \/ i \in 1..Len(order) /\ order[i] \in Recipients(s) /\ all[i] = Email(s, order[i])
          \/ \E j \in 1..Len(extra) : i = Len(order) + j /\ extra[j] \in Extra(s)
                                      /\ all[i] = extra[j]
    <3> TAKE i \in DOMAIN all
    <3>1. CASE i <= Len(order)
      BY <2>1, <2>3, <3>1 DEF Listed
    <3>2. CASE ~(i <= Len(order))
      <4>1. i - Len(order) \in 1..Len(extra) /\ i = Len(order) + (i - Len(order))
        BY <2>3, <3>2
      <4> QED BY <2>1, <4>1 DEF Listed
    <3> QED BY <3>1, <3>2
  <2>7. s.emails \cup {Email(s, u) : u \in s.ids} \subseteq ToSet(all)
    <3>1. \A e \in s.emails : e \in Extra(s) \/ \E u \in Recipients(s) : e = Email(s, u)
      BY DEF Extra
    <3> QED BY <2>4, <2>5, <3>1 DEF ToSet
  <2>8. ASSUME ~s.stale
        PROVE  /\ ToSet(all) = s.emails \cup {address[u] : u \in s.ids}
               /\ IsInjective(all)
    <3>1. \A u \in Recipients(s) : Email(s, u) = address[u]
      BY <2>4, <2>8 DEF ToldInv, Grounded, Recipients, Accounts, Email
    <3>2. \A u \in Recipients(s) : u \in s.ids \/ address[u] \in s.emails
      BY DEF Recipients
    <3>3. \A e \in Extra(s) : e \in s.emails /\ \A u \in Recipients(s) : e # Email(s, u)
      BY DEF Extra
    <3>4. ToSet(all) = s.emails \cup {address[u] : u \in s.ids}
      <4>1. ASSUME NEW i \in DOMAIN all
            PROVE  all[i] \in s.emails \cup {address[u] : u \in s.ids}
        <5>1. CASE i \in 1..Len(order) /\ order[i] \in Recipients(s)
                   /\ all[i] = Email(s, order[i])
          BY <3>1, <3>2, <5>1
        <5>2. CASE \E j \in 1..Len(extra) : i = Len(order) + j /\ extra[j] \in Extra(s)
                                           /\ all[i] = extra[j]
          BY <3>3, <5>2
        <5> QED BY <2>6, <5>1, <5>2
      <4>2. \A u \in s.ids : Email(s, u) = address[u]
        BY <2>4, <3>1
      <4> QED BY <2>7, <4>1, <4>2 DEF ToSet
    <3>5. ASSUME NEW i \in DOMAIN all, NEW j \in DOMAIN all, all[i] = all[j] PROVE i = j
      <4>1. CASE i \in 1..Len(order) /\ j \in 1..Len(order)
        <5>1. /\ order[i] \in Recipients(s) /\ order[j] \in Recipients(s)
              /\ address[order[i]] = address[order[j]]
          BY <2>1, <3>1, <3>5, <4>1 DEF Listed
        <5>2. order[i] = order[j]
          BY <5>1 DEF TypeInv, AddressType, Recipients
        <5> QED BY <2>1, <4>1, <5>2 DEF Listed
      <4>2. CASE i \notin 1..Len(order) /\ j \notin 1..Len(order)
        <5>1. PICK k \in 1..Len(extra) : i = Len(order) + k /\ all[i] = extra[k]
          BY <2>6, <4>2
        <5>2. PICK l \in 1..Len(extra) : j = Len(order) + l /\ all[j] = extra[l]
          BY <2>6, <4>2
        <5>3. k = l
          BY <2>1, <3>5, <5>1, <5>2 DEF Listed
        <5> QED BY <5>1, <5>2, <5>3
      <4>3. CASE i \in 1..Len(order) /\ j \notin 1..Len(order)
        <5>1. order[i] \in Recipients(s) /\ all[i] = Email(s, order[i])
          BY <2>1, <4>3 DEF Listed
        <5>2. all[j] \in Extra(s)
          BY <2>6, <4>3
        <5> QED BY <3>3, <3>5, <5>1, <5>2
      <4>4. CASE i \notin 1..Len(order) /\ j \in 1..Len(order)
        <5>1. order[j] \in Recipients(s) /\ all[j] = Email(s, order[j])
          BY <2>1, <4>4 DEF Listed
        <5>2. all[i] \in Extra(s)
          BY <2>6, <4>4
        <5> QED BY <3>3, <3>5, <5>1, <5>2
      <4> QED BY <4>1, <4>2, <4>3, <4>4
    <3>6. IsInjective(all)
      BY <3>5 DEF IsInjective
    <3> QED BY <3>4, <3>6
  <2> QED BY <2>2, <2>7, <2>8
<1> QED BY <1>1, TypeInvInit, TypeInvNext, MailInvInit, MailInvNext, ToldInvInit, ToldInvNext,
           PTL DEF Spec, Addressed

-----------------------------------------------------------------------------
(* Induction over a set of numbers.                                        *)
LEMMA NatSets ==
  ASSUME NEW S \in SUBSET Nat, 0 \in S, \A n \in S : n + 1 \in S
  PROVE  S = Nat
<1> SUFFICES ASSUME Nat \ S # {} PROVE FALSE
  OBVIOUS
<1> DEFINE R == OpToRel(<, Nat)
<1>1. \A x, y \in Nat : <<y, x>> \in R <=> y < x
  BY DEF OpToRel
<1>2. PICK x \in Nat \ S : \A y \in Nat \ S : <<y, x>> \notin R
  <2>1. IsWellFoundedOn(R, Nat)
    BY NatLessThanWellFounded
  <2> HIDE DEF R
  <2> QED BY <2>1, WFMin
<1> HIDE DEF R
<1>3. x - 1 \in Nat /\ x - 1 < x
  OBVIOUS
<1>4. x - 1 \in S
  BY <1>1, <1>2, <1>3
<1> QED BY <1>3, <1>4

(* Notices with a position each are listed by it, the last made first: a   *)
(* notice is where as many come before it as are newer.                    *)
LEMMA NewestFirst ==
  ASSUME NEW S, IsFiniteSet(S), \A n \in S : Position(n) \in Int,
         \A m, n \in S : Position(m) = Position(n) => m = n
  PROVE  /\ Newest(S) \in Seq(S) /\ Len(Newest(S)) = Cardinality(S)
         /\ Cardinality(S) \in Nat
         /\ \A n \in S : \E i \in 1..Cardinality(S) : Newest(S)[i] = n
         /\ \A i, j \in 1..Cardinality(S) :
              i < j => Position(Newest(S)[i]) > Position(Newest(S)[j])
<1> DEFINE size == Cardinality(S)
           rank(n) == Cardinality(Newer(n, S))
<1>1. size \in Nat
  BY FS_CardinalityType
<1>2. ASSUME NEW n \in S
      PROVE  /\ Newer(n, S) \in SUBSET S /\ IsFiniteSet(Newer(n, S))
             /\ rank(n) \in Nat /\ rank(n) < size
  <2>1. Newer(n, S) \in SUBSET S /\ Newer(n, S) # S
    BY DEF Newer
  <2>2. IsFiniteSet(Newer(n, S)) /\ rank(n) <= size /\ rank(n) # size
    BY <2>1, FS_Subset
  <2>3. rank(n) \in Nat
    BY <2>2, FS_CardinalityType
  <2> QED BY <1>1, <2>1, <2>2, <2>3
<1>3. ASSUME NEW m \in S, NEW n \in S, Position(m) > Position(n) PROVE rank(m) < rank(n)
  <2>1. Newer(m, S) \in SUBSET Newer(n, S) /\ m \in Newer(n, S) /\ m \notin Newer(m, S)
    BY <1>3 DEF Newer
  <2>2. rank(m) <= rank(n) /\ rank(m) # rank(n)
    BY <1>2, <2>1, FS_Subset
  <2> QED BY <1>2, <2>2
<1>4. ASSUME NEW m \in S, NEW n \in S, rank(m) = rank(n) PROVE m = n
  BY <1>2, <1>3, <1>4
<1>5. ASSUME NEW i \in 1..size PROVE \E n \in S : rank(n) = i - 1
  <2> DEFINE f == [n \in S |-> rank(n) + 1]
  <2>1. \A n \in S : f[n] = rank(n) + 1
    OBVIOUS
  <2>2. f \in Injection(S, 1..size)
    <3>1. f \in [S -> 1..size]
      BY <1>1, <1>2
    <3>2. \A m, n \in S : f[m] = f[n] => m = n
      BY <1>2, <1>4, <2>1
    <3> QED BY <3>1, <3>2 DEF Injection, IsInjective
  <2>3. IsFiniteSet(1..size) /\ Cardinality(1..size) = size
    BY <1>1, FS_Interval
  <2> HIDE DEF f
  <2>4. f \in Surjection(S, 1..size)
    BY <2>2, <2>3, FS_Injection
  <2>5. PICK n \in S : f[n] = i
    BY <2>4 DEF Surjection
  <2> QED BY <1>2, <2>1, <2>5
<1>6. ASSUME NEW i \in 1..size PROVE Newest(S)[i] \in S /\ rank(Newest(S)[i]) = i - 1
  BY <1>5 DEF Newest
<1>7. Newest(S) \in Seq(S) /\ Len(Newest(S)) = size
  <2>1. Newest(S) \in [1..size -> S]
    BY <1>6 DEF Newest
  <2>2. Newest(S) \in Seq(S)
    BY <1>1, <2>1, IsASeq
  <2> QED BY <1>1, <2>1, <2>2, LenProperties
<1>8. ASSUME NEW n \in S PROVE \E i \in 1..size : Newest(S)[i] = n
  <2>1. rank(n) + 1 \in 1..size
    BY <1>1, <1>2
  <2>2. Newest(S)[rank(n) + 1] \in S /\ rank(Newest(S)[rank(n) + 1]) = rank(n)
    BY <1>2, <1>6, <2>1
  <2> QED BY <1>4, <2>1, <2>2
<1>9. ASSUME NEW i \in 1..size, NEW j \in 1..size, i < j
      PROVE  Position(Newest(S)[i]) > Position(Newest(S)[j])
  <2> DEFINE m == Newest(S)[i]  n == Newest(S)[j]
  <2>1. m \in S /\ n \in S /\ rank(m) < rank(n)
    BY <1>6, <1>9
  <2> HIDE DEF m, n
  <2>2. Position(m) > Position(n) \/ Position(m) = Position(n) \/ Position(n) > Position(m)
    BY <2>1
  <2>3. Position(m) > Position(n)
    BY <1>2, <1>3, <2>1, <2>2
  <2> QED BY <2>3 DEF m, n
<1> QED BY <1>1, <1>7, <1>8, <1>9

(* The pages of a sequence, one after another, are the sequence.           *)
LEMMA PagesJoin ==
  ASSUME NEW S, NEW s \in Seq(S), NEW size \in Nat \ {0}
  PROVE  FlattenSeq([i \in 1..Len(s) |-> PageOf(s, size, (i - 1) * size)]) = s
<1> DEFINE k == Len(s)
           end(i) == IF i * size < k THEN i * size ELSE k
           cut == [i \in 1..k |-> PageOf(s, size, (i - 1) * size)]
           h == [i \in 1..k |-> SubSeq(s, 1, end(i))]
           IsJoin(F) == F = [i \in 1..k |-> IF i = 1 THEN cut[i] ELSE F[i - 1] \o cut[i]]
<1>1. k \in Nat
  BY LenProperties
<1>2. \A i \in Nat : i * size \in Nat /\ end(i) \in 0..k
  BY <1>1
<1>3. Len(cut) = k
  <2>1. cut \in [1..k -> {cut[i] : i \in 1..k}]
    BY Zenon
  <2> HIDE DEF cut
  <2>2. cut \in Seq({cut[i] : i \in 1..k})
    BY <1>1, <2>1, IsASeq
  <2> QED BY <1>1, <2>1, <2>2, LenProperties
<1>4. CASE k = 0
  <2>1. s = <<>>
    BY <1>4, EmptySeq
  <2>2. cut = <<>>
    BY <1>4
  <2>3. FlattenSeq(cut) = cut
    BY <1>3, <1>4 DEF FlattenSeq
  <2> QED BY <2>1, <2>2, <2>3
<1>5. CASE k # 0
  <2>1. ASSUME NEW i \in 1..k
        PROVE  cut[i] = SubSeq(s, (i - 1) * size + 1, end(i))
    <3>1. (i - 1) * size + size = i * size
      OBVIOUS
    <3>2. cut[i] = PageOf(s, size, (i - 1) * size)
      OBVIOUS
    <3> QED BY <3>1, <3>2 DEF PageOf
  <2>2. h[1] = cut[1]
    <3>1. (1 - 1) * size + 1 = 1 /\ 1 \in 1..k
      BY <1>1, <1>5
    <3> QED BY <2>1, <3>1
  <2>3. ASSUME NEW i \in 2..k PROVE h[i] = h[i - 1] \o cut[i]
    <3>1. /\ i \in 1..k /\ i - 1 \in 1..k /\ i \in Nat /\ i - 1 \in Nat
          /\ (i - 1) * size + size = i * size
      BY <1>1
    <3>2. h[i] = SubSeq(s, 1, end(i)) /\ h[i - 1] = SubSeq(s, 1, end(i - 1))
      BY <3>1
    <3>3. cut[i] = SubSeq(s, (i - 1) * size + 1, end(i))
      BY <2>1, <3>1
    <3> DEFINE a == (i - 1) * size
               b == i * size
    <3>4. a \in Nat /\ b \in Nat /\ b = a + size /\ a < b
      BY <1>2, <3>1
    <3>5. CASE a < k
      <4>1. end(i - 1) = a /\ end(i) \in a..k /\ a \in 0..k
        <5> HIDE DEF a, b
        <5>1. end(i - 1) = (IF a < k THEN a ELSE k) /\ end(i) = (IF b < k THEN b ELSE k)
          BY DEF a, b
        <5> HIDE DEF end
        <5> QED BY <1>1, <3>4, <3>5, <5>1
      <4>2. SubSeq(s, 1, a) \o SubSeq(s, a + 1, end(i)) = SubSeq(s, 1, end(i))
        <5> HIDE DEF a, b, end
        <5>1. 1 \in 1..Len(s) + 1 /\ a \in (1 - 1)..Len(s) /\ end(i) \in a..Len(s)
          BY <1>1, <4>1
        <5> QED BY <5>1, ConcatAdjacentSubSeq
      <4> QED BY <3>2, <3>3, <4>1, <4>2
    <3>6. CASE ~(a < k)
      <4>1. end(i - 1) = k /\ end(i) = k
        <5> HIDE DEF a, b
        <5>1. end(i - 1) = (IF a < k THEN a ELSE k) /\ end(i) = (IF b < k THEN b ELSE k)
          BY DEF a, b
        <5> HIDE DEF end
        <5> QED BY <1>1, <3>4, <3>6, <5>1
      <4>2. SubSeq(s, a + 1, k) = <<>>
        <5> HIDE DEF a, b
        <5>1. a + 1 \in Int /\ k \in Int /\ k < a + 1
          BY <1>1, <3>4, <3>6
        <5> QED BY <5>1, SubSeqEmpty
      <4>3. SubSeq(s, 1, k) \in Seq(S)
        BY SubSeqFull
      <4>4. SubSeq(s, 1, k) \o <<>> = SubSeq(s, 1, k)
        BY <4>3, ConcatEmptySeq
      <4> QED BY <3>2, <3>3, <4>1, <4>2, <4>4
    <3> QED BY <3>5, <3>6
  <2>4. h[k] = s
    <3>1. end(k) = k
      <4>1. k <= k * size
        BY <1>1
      <4> QED BY <1>1, <4>1
    <3>2. k \in 1..k
      BY <1>1, <1>5
    <3> QED BY <3>1, <3>2, SubSeqFull
  <2> HIDE DEF h, cut
  <2>5. IsJoin(h)
    <3>1. DOMAIN h = 1..k
      BY DEF h
    <3>2. ASSUME NEW i \in 1..k PROVE h[i] = IF i = 1 THEN cut[i] ELSE h[i - 1] \o cut[i]
      <4>1. i # 1 => i \in 2..k
        BY <1>1
      <4> QED BY <2>2, <2>3, <4>1
    <3>3. h = [i \in 1..k |-> h[i]]
      BY DEF h
    <3> QED BY <3>1, <3>2, <3>3
  <2> DEFINE F == CHOOSE f : IsJoin(f)
  <2>6. IsJoin(F)
    BY <2>5
  <2>7. FlattenSeq(cut) = F[k]
    BY <1>3, <1>5 DEF FlattenSeq
  <2> HIDE DEF F
  <2>8. \A i \in 1..k : F[i] = IF i = 1 THEN cut[i] ELSE F[i - 1] \o cut[i]
    BY <2>6
  <2> HIDE DEF IsJoin
  <2> DEFINE Agree == {i \in Nat : i \in 1..k => F[i] = h[i]}
  <2>9. 0 \in Agree
    OBVIOUS
  <2>10. ASSUME NEW i \in Agree PROVE i + 1 \in Agree
    <3>1. CASE i + 1 \notin 1..k
      BY <3>1
    <3>2. CASE i = 0 /\ i + 1 \in 1..k
      BY <2>2, <2>8, <3>2
    <3>3. CASE i # 0 /\ i + 1 \in 1..k
      <4>1. i \in 1..k /\ i + 1 \in 2..k /\ (i + 1) - 1 = i /\ i + 1 # 1 /\ i + 1 \in Nat
        BY <1>1, <3>3
      <4>2. F[i + 1] = F[i] \o cut[i + 1]
        BY <2>8, <3>3, <4>1
      <4>3. h[i + 1] = h[i] \o cut[i + 1]
        BY <2>3, <4>1
      <4>4. F[i] = h[i]
        BY <4>1
      <4> QED BY <4>1, <4>2, <4>3, <4>4
    <3> QED BY <3>1, <3>2, <3>3
  <2>11. Agree = Nat
    <3> HIDE DEF Agree
    <3>1. Agree \in SUBSET Nat
      BY DEF Agree
    <3> QED BY <2>9, <2>10, <3>1, NatSets
  <2>12. F[k] = h[k]
    BY <1>1, <1>5, <2>11
  <2> HIDE DEF Agree
  <2> QED BY <2>4, <2>7, <2>12, Zenon DEF cut
<1> QED BY <1>4, <1>5

-----------------------------------------------------------------------------
(* In-app notices are made once each, when their request starts to mail,   *)
(* and what is in somebody's inbox has been made.                          *)
InMade(n) == \E i \in 1..Len(made) : made[i] = n
MadeInv ==
  /\ \A i, j \in 1..Len(made) : made[i] = made[j] => i = j
  /\ \A i \in 1..Len(made) : req[made[i]].pc \in {"mailing", "closed"}
  /\ \A n \in Notices : req[n].pc = "mailing" /\ ShownInApp(req[n]) => InMade(n)
  /\ \A row \in inbox : InMade(row[1])

LEMMA MadeInvInit == Init => MadeInv
<1> SUFFICES ASSUME Init PROVE MadeInv
  OBVIOUS
<1>1. Len(made) = 0
  BY EmptySeq DEF Init
<1>2. \A n \in Notices : req[n].pc = "idle"
  BY DEF Init, NoRequest
<1> QED BY <1>1, <1>2 DEF Init, MadeInv

(* A step keeps it that makes no notice and lets no request start to mail, *)
(* and puts in the inboxes only what was made.                             *)
LEMMA NothingMade ==
  ASSUME TypeInv, Permitted, MadeInv, [Next]_vars, made' = made,
         \A x \in Notices : req'[x].pc = "mailing" => req[x].pc = "mailing",
         \A row \in inbox' : row \in inbox \/ InMade(row[1])
  PROVE  MadeInv'
<1>1. \A x \in Notices : Onward(req[x], req'[x])
  BY RequestStep
<1>2. \A i \in 1..Len(made) : made[i] \in Notices
  BY ElementOfSeq DEF TypeInv, InAppType
<1>3. \A i \in 1..Len(made) : req'[made[i]].pc \in {"mailing", "closed"}
  BY <1>1, <1>2 DEF MadeInv, Onward
<1>4. \A x \in Notices : InMade(x)' <=> InMade(x)
  BY DEF InMade
<1>5. \A x \in Notices : req'[x].pc = "mailing" /\ ShownInApp(req'[x]) => InMade(x)'
  BY <1>1, <1>4 DEF MadeInv, Onward, ShownInApp
<1>6. \A row \in inbox' : InMade(row[1])'
  BY DEF MadeInv, InMade
<1> QED BY <1>3, <1>5, <1>6 DEF MadeInv, ShownInApp

(* The request that makes a notice has not made one before.                *)
LEMMA SelectMade ==
  ASSUME TypeInv, Permitted, MadeInv, [Next]_vars, NEW n \in Notices, Select(n)
  PROVE  MadeInv'
<1>1. \A x \in Notices : Onward(req[x], req'[x])
  BY RequestStep
<1>2. /\ made \in Seq(Notices) /\ Len(made) \in Nat
      /\ \A i \in 1..Len(made) : made[i] \in Notices
  BY ElementOfSeq, LenProperties DEF TypeInv, InAppType
<1>3. req[n].pc = "loaded" /\ req \in [Notices -> Requested] /\ inbox' = inbox
  BY DEF Select, MayNotify, TypeInv, RequestType
<1>4. PICK all \in Seq(Addresses) : req' = [req EXCEPT ![n] = Mailing(req[n], all)]
  BY SelectTodo
<1>5. /\ req'[n].pc = "mailing" /\ req'[n].kind = req[n].kind
      /\ \A x \in Notices : x # n => req'[x] = req[x]
  BY <1>3, <1>4 DEF Mailing, Requested
<1>6. CASE ~ShownInApp(req[n])
  <2>1. made' = made
    BY <1>6 DEF Select
  <2>2. \A i \in 1..Len(made) : req'[made[i]].pc \in {"mailing", "closed"}
    BY <1>1, <1>2 DEF MadeInv, Onward
  <2>3. \A x \in Notices : InMade(x)' <=> InMade(x)
    BY <2>1 DEF InMade
  <2>4. \A x \in Notices : req'[x].pc = "mailing" /\ ShownInApp(req'[x]) => InMade(x)'
    BY <1>5, <1>6, <2>3 DEF MadeInv, ShownInApp
  <2>5. \A row \in inbox' : InMade(row[1])'
    BY <1>3, <2>1 DEF MadeInv, InMade
  <2> QED BY <2>1, <2>2, <2>4, <2>5 DEF MadeInv, ShownInApp
<1>7. CASE ShownInApp(req[n])
  <2>1. made' = Append(made, n)
    BY <1>7 DEF Select
  <2>2. /\ Len(made') = Len(made) + 1 /\ made'[Len(made) + 1] = n
        /\ \A i \in 1..Len(made) : made'[i] = made[i]
    BY <1>2, <2>1, AppendProperties
  <2>3. \A i \in 1..Len(made) : made[i] # n
    BY <1>3 DEF MadeInv
  <2>4. \A i \in 1..Len(made') : i \in 1..Len(made) \/ i = Len(made) + 1
    BY <1>2, <2>2
  <2>5. \A i, j \in 1..Len(made') : made'[i] = made'[j] => i = j
    BY <2>2, <2>3, <2>4 DEF MadeInv
  <2>6. \A i \in 1..Len(made') : req'[made'[i]].pc \in {"mailing", "closed"}
    BY <1>1, <1>2, <1>5, <2>2, <2>4 DEF MadeInv, Onward
  <2>7. /\ \A x : InMade(x) => InMade(x)'
        /\ InMade(n)'
    <3>1. 1..Len(made) \subseteq 1..Len(made') /\ Len(made) + 1 \in 1..Len(made')
      BY <1>2, <2>2
    <3> QED BY <2>2, <3>1 DEF InMade
  <2>8. \A x \in Notices : req'[x].pc = "mailing" /\ ShownInApp(req'[x]) => InMade(x)'
    BY <1>5, <2>7 DEF MadeInv, ShownInApp
  <2>9. \A row \in inbox' : InMade(row[1])'
    BY <1>3, <2>7 DEF MadeInv
  <2> QED BY <2>5, <2>6, <2>8, <2>9 DEF MadeInv, ShownInApp
<1> QED BY <1>6, <1>7

LEMMA MadeInvNext ==
  TypeInv /\ Permitted /\ MadeInv /\ [Next]_vars => MadeInv'
<1> SUFFICES ASSUME TypeInv, Permitted, MadeInv, [Next]_vars PROVE MadeInv'
  OBVIOUS
<1>1. req \in [Notices -> Requested]
  BY DEF TypeInv, RequestType
<1>2. ASSUME NEW n \in Notices, Handler(n) PROVE MadeInv'
  <2>1. ASSUME NEW plan \in Plans[n], NEW loaded \in SUBSET Users,
               NEW emails \in SUBSET Addresses,
               Begin(n, plan[1], plan[2], emails, loaded)
        PROVE  MadeInv'
    <3>1. made' = made /\ inbox' = inbox
      BY <2>1 DEF Begin
    <3>2. \A x \in Notices : req'[x].pc = "mailing" => req[x].pc = "mailing"
      BY <1>1, <2>1, Fresh DEF Begin, Requested
    <3> QED BY <3>1, <3>2, NothingMade
  <2>2. CASE Select(n)
    BY <2>2, SelectMade
  <2>3. CASE CommitFirst(n) \/ HandOver(n) \/ Fail(n)
    <3>1. made' = made /\ inbox' = inbox
      BY <2>3 DEF CommitFirst, HandOver, Fail
    <3>2. \A x \in Notices : req'[x].pc = "mailing" => req[x].pc = "mailing"
      BY <1>1, <2>3 DEF CommitFirst, HandOver, Fail, Requested
    <3> QED BY <3>1, <3>2, NothingMade
  <2>4. CASE Finish(n)
    <3>1. made' = made /\ inbox' = inbox \cup InApp(n)
      BY <2>4 DEF Finish
    <3>2. \A x \in Notices : req'[x].pc = "mailing" => req[x].pc = "mailing"
      BY <1>1, <2>4 DEF Finish, Requested
    <3>3. \A row \in InApp(n) : row[1] = n /\ ShownInApp(req[n])
      BY DEF InApp
    <3>4. req[n].pc = "mailing"
      BY <2>4 DEF Finish, MayFinish
    <3>5. \A row \in InApp(n) : InMade(row[1])
      BY <3>3, <3>4 DEF MadeInv
    <3> QED BY <3>1, <3>2, <3>5, NothingMade
  <2> QED BY <1>2, <2>1, <2>2, <2>3, <2>4 DEF Handler
<1>3. CASE /\ made' = made /\ inbox' = inbox
           /\ \A x \in Notices : req'[x].pc = req[x].pc
  BY <1>3, NothingMade
<1>4. ASSUME NEW u \in Users, NEW a \in Addresses, Move(u, a) PROVE MadeInv'
  BY <1>1, <1>3, <1>4 DEF Move, Requested
<1>5. ASSUME NEW k \in Tasks, Take(k) \/ Send(k) \/ Lose(k) PROVE MadeInv'
  BY <1>3, <1>5 DEF Take, Send, Lose, asking
<1>6. ASSUME NEW t \in Tabs, Reader(t) PROVE MadeInv'
  BY <1>3, <1>6 DEF Reader, AckBegin, AckCommit, AckFail, asking
<1>7. CASE UNCHANGED vars
  BY <1>3, <1>7 DEF vars, asking
<1> QED BY <1>2, <1>4, <1>5, <1>6, <1>7 DEF Next

(* What a user has not read has a position each.                           *)
LEMMA UnreadPositions ==
  ASSUME TypeInv, MadeInv, NEW u \in Users
  PROVE  /\ \A n \in Unread(u) : Position(n) \in Int
         /\ \A m, n \in Unread(u) : Position(m) = Position(n) => m = n
         /\ IsFiniteSet(Unread(u))
<1> DEFINE S == Unread(u)
<1>1. Len(made) \in Nat /\ DOMAIN made = 1..Len(made)
  BY LenProperties DEF TypeInv, InAppType
<1>2. ASSUME NEW n \in S PROVE Position(n) \in 1..Len(made) /\ made[Position(n)] = n
  <2>1. InMade(n)
    BY DEF MadeInv, Unread
  <2> QED BY <1>1, <2>1 DEF InMade, Position
<1>3. \A m, n \in S : Position(m) = Position(n) => m = n
  BY <1>2
<1>4. IsFiniteSet(S)
  <2> DEFINE f == [n \in S |-> Position(n)]
  <2>1. f \in Injection(S, 1..Len(made))
    BY <1>2, <1>3 DEF Injection, IsInjective
  <2>2. IsFiniteSet(1..Len(made))
    BY <1>1, FS_Interval
  <2> QED BY <2>1, <2>2, FS_Injection
<1> QED BY <1>1, <1>2, <1>3, <1>4

(* Whatever was made, read and cut, the pages are the unread notices from  *)
(* the newest to the oldest, and a page is as long as it may be.           *)
LEMMA PagesAreUnread == TypeInv /\ MadeInv => PagesComplete
<1> SUFFICES ASSUME TypeInv, MadeInv, NEW u \in Users,
                    NEW limit \in 0..Cardinality(Unread(u))
             PROVE  LET all == FlattenSeq(Pages(u, limit))
                    IN /\ ToSet(all) = Unread(u)
                       /\ \A i, j \in DOMAIN all : i < j => Position(all[i]) > Position(all[j])
                       /\ Page(u, limit, 0) = <<>> => Unread(u) = {}
  BY Zenon DEF PagesComplete
<1> DEFINE S == Unread(u)
           N == Newest(S)
           size == PageSize(limit)
<1>1. /\ N \in Seq(S) /\ Len(N) = Cardinality(S) /\ Cardinality(S) \in Nat
      /\ \A n \in S : \E i \in 1..Cardinality(S) : N[i] = n
      /\ \A i, j \in 1..Cardinality(S) : i < j => Position(N[i]) > Position(N[j])
  <2> HIDE DEF S
  <2>1. /\ IsFiniteSet(S)
        /\ \A n \in S : Position(n) \in Int
        /\ \A m, n \in S : Position(m) = Position(n) => m = n
    BY UnreadPositions DEF S
  <2> QED BY <2>1, NewestFirst
<1>2. size \in Nat \ {0}
  BY DEF PageSize
<1>3. Pages(u, limit) = [i \in 1..Len(N) |-> PageOf(N, size, (i - 1) * size)]
  BY <1>1 DEF Pages, Page
<1>4. FlattenSeq(Pages(u, limit)) = N
  <2> HIDE DEF S, N, size
  <2> QED BY <1>1, <1>2, <1>3, PagesJoin
<1>5. DOMAIN N = 1..Cardinality(S) /\ \A i \in 1..Cardinality(S) : N[i] \in S
  <2> HIDE DEF S, N
  <2> QED BY <1>1, LenProperties, ElementOfSeq
<1>6. ToSet(N) = S
  <2> HIDE DEF S, N
  <2> QED BY <1>1, <1>5 DEF ToSet
<1>7. ASSUME Page(u, limit, 0) = <<>> PROVE S = {}
  <2> DEFINE last == IF size < Len(N) THEN size ELSE Len(N)
  <2>1. Page(u, limit, 0) = SubSeq(N, 1, last) /\ last \in 0..Len(N)
        /\ (Len(N) # 0 => last # 0)
    BY <1>1, <1>2 DEF Page, PageOf
  <2> HIDE DEF S, N, last
  <2>2. Len(SubSeq(N, 1, last)) = last
    <3>1. \A i \in 1..last : N[i] \in S
      BY <1>1, <1>5, <2>1
    <3>2. last \in Nat
      BY <1>1, <2>1
    <3> QED BY <3>1, <3>2, SubSeqProperties
  <2>3. Cardinality(S) = 0
    BY <1>1, <1>7, <2>1, <2>2, EmptySeq
  <2> QED BY <1>1, <2>3
<1>8. \A i, j \in DOMAIN N : i < j => Position(N[i]) > Position(N[j])
  <2> HIDE DEF N
  <2> QED BY <1>1, <1>5
<1>9. S = Unread(u)
  OBVIOUS
<1> HIDE DEF N, S
<1> QED BY <1>4, <1>6, <1>7, <1>8, <1>9, Zenon

(* However a user's unread notices are cut into pages, each is on one of   *)
(* them, once, the newest first, and no page comes out empty before them:  *)
(* the filter applies before the limit.                                    *)
THEOREM PagesAreComplete == Spec => []PagesComplete
<1>1. MailInv => Permitted
  BY DEF MailInv
<1> QED BY <1>1, TypeInvInit, TypeInvNext, MailInvInit, MailInvNext, MadeInvInit, MadeInvNext,
           PagesAreUnread, PTL DEF Spec
=============================================================================
