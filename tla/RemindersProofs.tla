-------------------------- MODULE RemindersProofs --------------------------
(* Theorems about Reminders, for any users and batches and any number of   *)
(* changes and failures.                                                   *)
EXTENDS Reminders, FiniteSetTheorems, TLAPS

(* A batch works off what it has loaded; what it has flushed is what it    *)
(* has mailed and not lost, and when it is about to commit that is all.    *)
Shaped(s) ==
  /\ s \in Sessions
  /\ s.locked \subseteq s.sent \ s.gone /\ s.todo \cap s.sent = {}
  /\ s.pc = "idle" => s = Idle
  /\ s.pc = "flushed" => s.todo = {} /\ s.locked = s.sent
BatchInv ==
  /\ batch \in [Batches -> Sessions]
  /\ \A b \in Batches : Shaped(batch[b])
  /\ \A b, c \in Batches : b # c => batch[b].locked \cap batch[c].locked = {}

(* The batches that have mailed the present row of a user, or still will.  *)
(* The reminders of the row whose mark is not lost are theirs as long as   *)
(* the row is not marked; once it is, one at least is of a batch that has  *)
(* committed, and no batch comes anew.  So these, sent and to come, are no *)
(* more than there are batches.                                            *)
SentBy(u) == {b \in Batches : u \in batch[b].sent \ batch[b].gone}
TodoBy(u) == {b \in Batches : u \in batch[b].todo \ batch[b].gone}
Standing(u) == mailed[u] - lost[u]
Tally(u) ==
  /\ mailed[u] \in Nat /\ lost[u] \in Nat /\ Standing(u) \in Nat
  /\ status[u] = "NONE" => SentBy(u) = {} /\ TodoBy(u) = {}
  /\ IF queued[u] THEN Standing(u) > Cardinality(SentBy(u))
     ELSE Standing(u) = Cardinality(SentBy(u))
  /\ Standing(u) + Cardinality(TodoBy(u)) <= Cardinality(Batches)

RowType == /\ due \in BOOLEAN
           /\ status \in [Users -> {"NONE", "PARTICIPATING", "REJECTED"}]
           /\ queued \in [Users -> BOOLEAN]
           /\ mailed \in [Users -> Nat] /\ lost \in [Users -> Nat]
           /\ edits \in 0..MaxEdits /\ failures \in 0..MaxFailures
ReminderInv == RowType /\ BatchInv /\ \A u \in Users : Tally(u)

-----------------------------------------------------------------------------
(* Sets of batches, and their sizes.                                       *)
LEMMA Sizes ==
  ASSUME NEW A \in SUBSET Batches
  PROVE  /\ IsFiniteSet(A) /\ Cardinality(A) \in Nat
         /\ Cardinality(A) <= Cardinality(Batches)
         /\ \A b \in A : Cardinality(A \ {b}) = Cardinality(A) - 1
         /\ \A b \in Batches \ A : Cardinality(A \cup {b}) = Cardinality(A) + 1
<1>1. IsFiniteSet(A) /\ Cardinality(A) <= Cardinality(Batches)
  BY FS_Subset, BatchesAssumption
<1> QED BY <1>1, FS_CardinalityType, FS_AddElement, FS_RemoveElement

LEMMA SizesApart ==
  ASSUME NEW A \in SUBSET Batches, NEW B \in SUBSET Batches, A \cap B = {}
  PROVE  Cardinality(A) + Cardinality(B) <= Cardinality(Batches)
<1>1. /\ IsFiniteSet(A) /\ IsFiniteSet(B)
      /\ Cardinality(A) \in Nat /\ Cardinality(B) \in Nat
  BY Sizes
<1>2. Cardinality(A \cup B)
        = Cardinality(A) + Cardinality(B) - Cardinality(A \cap B)
  BY <1>1, FS_Union
<1>3. Cardinality(A \cap B) = 0
  BY FS_EmptySet
<1>4. Cardinality(A \cup B) <= Cardinality(Batches)
  BY FS_Subset, BatchesAssumption
<1> QED BY <1>1, <1>2, <1>3, <1>4

LEMMA IdleState == Shaped(Idle) /\ Idle.locked = {} /\ Idle.sent = {} /\ Idle.todo = {}
BY DEF Shaped, Idle, Sessions

(* A step of one batch: the invariant of the batches, and what becomes of  *)
(* the two sets of each user.                                              *)
LEMMA OneBatch ==
  ASSUME BatchInv, NEW b \in Batches, NEW s, Shaped(s), batch' = [batch EXCEPT ![b] = s],
         \A c \in Batches \ {b} : s.locked \cap batch[c].locked = {}
  PROVE  BatchInv'
<1>1. s \in Sessions /\ batch' \in [Batches -> Sessions]
  BY DEF BatchInv, Shaped
<1>2. \A c \in Batches : batch'[c] = IF c = b THEN s ELSE batch[c]
  BY DEF BatchInv
<1>3. \A c \in Batches : Shaped(batch[c])'
  BY <1>2 DEF BatchInv, Shaped
<1>4. \A c, d \in Batches : c # d => batch'[c].locked \cap batch'[d].locked = {}
  BY <1>2 DEF BatchInv
<1> QED BY <1>1, <1>3, <1>4 DEF BatchInv

LEMMA OneBatchSets ==
  ASSUME BatchInv, NEW b \in Batches, NEW s, batch' = [batch EXCEPT ![b] = s], NEW u
  PROVE  /\ SentBy(u)' = IF u \in s.sent \ s.gone THEN SentBy(u) \cup {b} ELSE SentBy(u) \ {b}
         /\ TodoBy(u)' = IF u \in s.todo \ s.gone THEN TodoBy(u) \cup {b} ELSE TodoBy(u) \ {b}
<1>1. \A c \in Batches : batch'[c] = IF c = b THEN s ELSE batch[c]
  BY DEF BatchInv
<1> QED BY <1>1 DEF SentBy, TodoBy

LEMMA UserSets ==
  ASSUME NEW u
  PROVE  /\ SentBy(u) \in SUBSET Batches /\ TodoBy(u) \in SUBSET Batches
         /\ BatchInv => SentBy(u) \cap TodoBy(u) = {}
         /\ BatchInv' => SentBy(u)' \cap TodoBy(u)' = {}
         /\ SentBy(u)' \in SUBSET Batches /\ TodoBy(u)' \in SUBSET Batches
BY DEF SentBy, TodoBy, BatchInv, Shaped

-----------------------------------------------------------------------------
LEMMA ReminderInit == Init => ReminderInv
<1> SUFFICES ASSUME Init PROVE ReminderInv
  OBVIOUS
<1>1. RowType
  <2>1. edits \in 0..MaxEdits /\ failures \in 0..MaxFailures
    BY BoundsAssumption DEF Init
  <2>2. mailed \in [Users -> Nat] /\ lost \in [Users -> Nat]
    BY DEF Init
  <2>4. queued \in [Users -> BOOLEAN] /\ due \in BOOLEAN
    BY DEF Init
  <2>3. status \in [Users -> {"NONE", "PARTICIPATING", "REJECTED"}]
    BY DEF Init
  <2> QED BY <2>1, <2>2, <2>3, <2>4 DEF RowType
<1>2. BatchInv
  BY IdleState DEF Init, BatchInv, Shaped
<1>3. ASSUME NEW u \in Users PROVE Tally(u)
  <2>1. SentBy(u) = {} /\ TodoBy(u) = {}
    BY IdleState DEF Init, SentBy, TodoBy
  <2>2. Cardinality({}) = 0 /\ Cardinality(Batches) \in Nat
    BY FS_EmptySet, Sizes
  <2> QED BY <2>1, <2>2 DEF Init, Tally, Standing
<1> QED BY <1>1, <1>2, <1>3 DEF ReminderInv

LEMMA LoadKeeps ==
  ASSUME ReminderInv, NEW b \in Batches, Load(b)
  PROVE  ReminderInv'
<1> DEFINE s == [Idle EXCEPT !.pc = "running", !.todo = Selected]
<1>1. BatchInv /\ RowType /\ batch[b] = Idle
  BY DEF ReminderInv, Load, BatchInv, Shaped
<1>2. /\ Shaped(s) /\ s.locked = {} /\ s.sent = {} /\ s.gone = {} /\ s.todo = Selected
      /\ batch' = [batch EXCEPT ![b] = s]
  BY DEF Shaped, Idle, Sessions, Selected, Participating, Load
<1> HIDE DEF s
<1>3. BatchInv'
  BY <1>1, <1>2, OneBatch
<1>4. RowType'
  BY <1>1 DEF RowType, Load
<1>5. ASSUME NEW u \in Users PROVE Tally(u)'
  <2>1. Tally(u) /\ UNCHANGED <<status, queued, mailed, lost>>
    BY DEF ReminderInv, Load
  <2>2. b \notin SentBy(u) /\ b \notin TodoBy(u)
    BY <1>1, IdleState DEF SentBy, TodoBy
  <2>3. SentBy(u)' = SentBy(u)
    <3>1. SentBy(u)' = SentBy(u) \ {b}
      BY <1>1, <1>2, OneBatchSets
    <3> QED BY <2>2, <3>1
  <2>4. CASE u \in Selected
    <3>1. ~queued[u] /\ status[u] = "PARTICIPATING"
      BY <2>4 DEF Selected, Participating
    <3>2. /\ TodoBy(u)' \in SUBSET Batches /\ SentBy(u)' \in SUBSET Batches
          /\ SentBy(u)' \cap TodoBy(u)' = {}
      BY <1>3, UserSets
    <3>3. Cardinality(SentBy(u)') + Cardinality(TodoBy(u)') <= Cardinality(Batches)
      BY <3>2, SizesApart
    <3> QED BY <2>1, <2>3, <3>1, <3>3 DEF Tally, Standing
  <2>5. CASE u \notin Selected
    <3>1. TodoBy(u)' = TodoBy(u) \ {b}
      BY <1>1, <1>2, <2>5, OneBatchSets
    <3>2. TodoBy(u)' = TodoBy(u)
      BY <2>2, <3>1
    <3> QED BY <2>1, <2>3, <3>2 DEF Tally, Standing
  <2> QED BY <2>4, <2>5
<1> QED BY <1>3, <1>4, <1>5 DEF ReminderInv

(* The e-mails of a batch that is rolled back stand for nothing.           *)
LEMMA EndKeeps ==
  ASSUME ReminderInv, NEW b \in Batches, LoseMarks(b), failures' \in 0..MaxFailures, BatchInv',
         \A u \in Users : SentBy(u)' = SentBy(u) \ {b} /\ TodoBy(u)' = TodoBy(u) \ {b}
  PROVE  ReminderInv'
<1>1. BatchInv /\ RowType
  BY DEF ReminderInv
<1>2. RowType'
  <2>1. lost' \in [Users -> Nat]
    BY <1>1 DEF RowType, LoseMarks
  <2> QED BY <1>1, <2>1 DEF RowType, LoseMarks
<1>3. ASSUME NEW u \in Users PROVE Tally(u)'
  <2>1. /\ Tally(u) /\ UNCHANGED <<status, queued, mailed>>
        /\ lost'[u] = IF b \in SentBy(u) THEN lost[u] + 1 ELSE lost[u]
    BY DEF ReminderInv, LoseMarks, SentBy
  <2>2. SentBy(u)' = SentBy(u) \ {b} /\ TodoBy(u)' = TodoBy(u) \ {b}
    OBVIOUS
  <2>3. /\ SentBy(u) \in SUBSET Batches /\ TodoBy(u) \in SUBSET Batches
        /\ SentBy(u) \cap TodoBy(u) = {}
    BY <1>1, UserSets
  <2>4. /\ Cardinality(SentBy(u)) \in Nat /\ Cardinality(TodoBy(u)) \in Nat
        /\ b \in SentBy(u) => Cardinality(SentBy(u) \ {b}) = Cardinality(SentBy(u)) - 1
        /\ b \in TodoBy(u) => Cardinality(TodoBy(u) \ {b}) = Cardinality(TodoBy(u)) - 1
        /\ Cardinality(Batches) \in Nat
        /\ Cardinality(SentBy(u) \ {b}) \in Nat
    BY <2>3, Sizes
  <2>5. CASE b \in SentBy(u)
    <3>1. TodoBy(u)' = TodoBy(u)
      BY <2>2, <2>3, <2>5
    <3>2. Cardinality(SentBy(u)') = Cardinality(SentBy(u)) - 1
      BY <2>2, <2>4, <2>5
    <3>3. status'[u] # "NONE"
      BY <2>1, <2>5 DEF Tally
    <3>4. Standing(u)' = Standing(u) - 1 /\ Standing(u)' \in Nat
      BY <2>1, <2>4, <2>5, <3>2 DEF Tally, Standing
    <3> QED BY <2>1, <2>4, <2>5, <3>1, <3>2, <3>3, <3>4 DEF Tally
  <2>6. CASE b \notin SentBy(u)
    <3>1. SentBy(u)' = SentBy(u)
      BY <2>2, <2>6
    <3>2. Cardinality(TodoBy(u)') <= Cardinality(TodoBy(u)) /\ Cardinality(TodoBy(u)') \in Nat
      <4>1. CASE b \in TodoBy(u)
        BY <2>2, <2>3, <2>4, <4>1, Sizes
      <4>2. CASE b \notin TodoBy(u)
        <5>1. TodoBy(u)' = TodoBy(u)
          BY <2>2, <4>2
        <5> QED BY <2>4, <5>1
      <4> QED BY <4>1, <4>2
    <3>3. status[u] = "NONE" => TodoBy(u)' = {} /\ SentBy(u)' = {}
      BY <2>1, <2>2 DEF Tally
    <3>4. Standing(u)' = Standing(u)
      BY <2>1, <2>6 DEF Standing
    <3> QED BY <2>1, <2>4, <2>6, <3>1, <3>2, <3>3, <3>4 DEF Tally
  <2> QED BY <2>5, <2>6
<1> QED BY <1>2, <1>3 DEF ReminderInv

LEMMA RollBackKeeps ==
  ASSUME ReminderInv, NEW b \in Batches, RollBack(b), failures' \in 0..MaxFailures
  PROVE  ReminderInv'
<1>1. BatchInv /\ batch' = [batch EXCEPT ![b] = Idle] /\ LoseMarks(b)
  BY DEF ReminderInv, RollBack
<1>2. BatchInv'
  BY <1>1, IdleState, OneBatch
<1>3. \A u \in Users : SentBy(u)' = SentBy(u) \ {b} /\ TodoBy(u)' = TodoBy(u) \ {b}
  BY <1>1, IdleState, OneBatchSets
<1> QED BY <1>1, <1>2, <1>3, EndKeeps

(* The batch that gets its locks from a deadlock victim asked for no row   *)
(* of a third one.                                                         *)
LEMMA VictimKeeps ==
  ASSUME ReminderInv, NEW b \in Batches, Victim(b)
  PROVE  ReminderInv'
<1>1. PICK c \in Batches :
        /\ Waits(b, c) /\ Waits(c, b)
        /\ batch' = [batch EXCEPT ![b] = Idle,
                                 ![c].locked = IF \E d \in Batches \ {b} : Waits(c, d) THEN @
                                               ELSE @ \cup (Pending(c) \ batch[c].gone)]
  BY DEF Victim
<1> DEFINE L == IF \E d \in Batches \ {b} : Waits(c, d) THEN batch[c].locked
                ELSE batch[c].locked \cup (Pending(c) \ batch[c].gone)
           s == [batch[c] EXCEPT !.locked = L]
<1>2. BatchInv /\ b # c /\ batch[c].pc = "running" /\ Shaped(batch[c])
  BY <1>1 DEF ReminderInv, BatchInv, Waits
<1>3. /\ batch' \in [Batches -> Sessions] /\ batch'[b] = Idle /\ batch'[c] = s
      /\ \A d \in Batches \ {b, c} : batch'[d] = batch[d]
      /\ L \subseteq batch[c].sent \ batch[c].gone /\ s \in Sessions
      /\ s.locked = L /\ s.sent = batch[c].sent /\ s.todo = batch[c].todo
      /\ s.gone = batch[c].gone /\ s.pc = "running"
  <2>1. L \subseteq batch[c].sent \ batch[c].gone
    BY <1>2 DEF Shaped, Pending
  <2>2. s \in Sessions /\ s.locked = L /\ s.sent = batch[c].sent /\ s.todo = batch[c].todo
        /\ s.gone = batch[c].gone /\ s.pc = "running"
    BY <1>2, <2>1 DEF Shaped, Sessions
  <2>3. batch'[b] = Idle /\ batch'[c] = s /\ \A d \in Batches \ {b, c} : batch'[d] = batch[d]
    BY <1>1, <1>2 DEF BatchInv
  <2>4. DOMAIN batch' = Batches /\ batch' = [d \in Batches |-> batch'[d]]
    BY <1>1, <1>2 DEF BatchInv
  <2>5. \A d \in Batches : batch'[d] \in Sessions
    BY <1>2, <2>2, <2>3, IdleState DEF Shaped, BatchInv
  <2> HIDE DEF s, L
  <2>6. batch' \in [Batches -> Sessions]
    BY <2>4, <2>5
  <2> QED BY <2>1, <2>2, <2>3, <2>6
<1>4. \A d \in Batches \ {b, c} : L \cap batch[d].locked = {}
  BY <1>2 DEF Waits, BatchInv
<1> HIDE DEF s, L
<1>5. Shaped(s)
  BY <1>2, <1>3 DEF Shaped
<1>6. BatchInv'
  <2>1. \A d \in Batches : Shaped(batch'[d])
    BY <1>2, <1>3, <1>5, IdleState DEF BatchInv
  <2>2. \A d, e \in Batches : d # e => batch'[d].locked \cap batch'[e].locked = {}
    BY <1>2, <1>3, <1>4, IdleState DEF BatchInv
  <2> QED BY <1>3, <2>1, <2>2 DEF BatchInv, Shaped
<1>7. \A u \in Users : SentBy(u)' = SentBy(u) \ {b} /\ TodoBy(u)' = TodoBy(u) \ {b}
  BY <1>2, <1>3, IdleState DEF SentBy, TodoBy
<1>8. LoseMarks(b) /\ failures' \in 0..MaxFailures
  BY DEF Victim, ReminderInv, RowType
<1> QED BY <1>6, <1>7, <1>8, EndKeeps

(* A reminder: the row goes from those still to be mailed to those mailed. *)
LEMMA RemindKeeps ==
  ASSUME ReminderInv, NEW b \in Batches, NEW u \in Users, Remind(b, u), ~Stale(b)
  PROVE  ReminderInv'
<1> DEFINE s == [batch[b] EXCEPT !.todo = @ \ {u}, !.sent = @ \cup {u},
                                 !.locked = @ \cup Pending(b)]
<1>1. /\ BatchInv /\ RowType /\ Shaped(batch[b]) /\ Pending(b) \cap batch[b].gone = {}
      /\ batch[b].pc = "running" /\ u \in batch[b].todo
      /\ UNCHANGED <<due, status, queued, lost, edits, failures>>
      /\ mailed' = IF u \in batch[b].gone THEN mailed ELSE [mailed EXCEPT ![u] = @ + 1]
  BY DEF ReminderInv, Remind, Stale, Free, BatchInv
<1>2. /\ s.todo = batch[b].todo \ {u} /\ s.sent = batch[b].sent \cup {u}
      /\ s.locked = batch[b].locked \cup Pending(b) /\ s.gone = batch[b].gone
      /\ s.pc = "running" /\ s \in Sessions
  BY <1>1 DEF Shaped, Sessions, Pending
<1>3. batch' = [batch EXCEPT ![b] = s]
  BY DEF Remind
<1> HIDE DEF s
<1>4. Shaped(s)
  BY <1>1, <1>2 DEF Shaped, Pending
<1>5. \A c \in Batches \ {b} : s.locked \cap batch[c].locked = {}
  <2>1. \A c \in Batches : ~Waits(b, c)
    BY DEF Remind, Free
  <2> QED BY <1>1, <1>2, <2>1 DEF Waits, BatchInv
<1>6. BatchInv'
  BY <1>1, <1>3, <1>4, <1>5, OneBatch
<1>7. RowType'
  BY <1>1 DEF RowType
<1>8. ASSUME NEW v \in Users PROVE Tally(v)'
  <2>1. Tally(v) /\ UNCHANGED <<status, queued, lost>>
    BY <1>1 DEF ReminderInv
  <2>2. /\ SentBy(v)' = IF v \in s.sent \ s.gone THEN SentBy(v) \cup {b} ELSE SentBy(v) \ {b}
        /\ TodoBy(v)' = IF v \in s.todo \ s.gone THEN TodoBy(v) \cup {b} ELSE TodoBy(v) \ {b}
    BY <1>1, <1>3, OneBatchSets
  <2>3. CASE v = u /\ u \notin batch[b].gone
    <3>1. b \in TodoBy(u) /\ b \notin SentBy(u)
      BY <1>1, <2>3 DEF TodoBy, SentBy, Shaped
    <3>2. SentBy(u)' = SentBy(u) \cup {b} /\ TodoBy(u)' = TodoBy(u) \ {b}
      BY <1>2, <2>2, <2>3
    <3>3. SentBy(u) \in SUBSET Batches /\ TodoBy(u) \in SUBSET Batches
      BY UserSets
    <3>4. /\ Cardinality(SentBy(u)) \in Nat /\ Cardinality(TodoBy(u)) \in Nat
          /\ Cardinality(Batches) \in Nat
          /\ Cardinality(SentBy(u) \cup {b}) = Cardinality(SentBy(u)) + 1
          /\ Cardinality(TodoBy(u) \ {b}) = Cardinality(TodoBy(u)) - 1
      BY <3>1, <3>3, Sizes
    <3>5. mailed'[u] = mailed[u] + 1 /\ status'[u] # "NONE"
      BY <1>1, <2>1, <2>3, <3>1 DEF RowType, Tally, Standing
    <3>6. Standing(u)' = Standing(u) + 1 /\ mailed'[u] \in Nat
      <4>1. mailed[u] \in Nat /\ lost[u] \in Nat /\ lost'[u] = lost[u]
        BY <2>1, <2>3 DEF Tally
      <4> QED BY <3>5, <4>1 DEF Standing
    <3>7. /\ Standing(u)' \in Nat
          /\ IF queued[u] THEN Standing(u)' > Cardinality(SentBy(u)')
             ELSE Standing(u)' = Cardinality(SentBy(u)')
          /\ Standing(u)' + Cardinality(TodoBy(u)') <= Cardinality(Batches)
      BY <2>1, <2>3, <3>2, <3>4, <3>6 DEF Tally
    <3> QED BY <2>1, <2>3, <3>5, <3>6, <3>7 DEF Tally
  <2>4. CASE ~(v = u /\ u \notin batch[b].gone)
    <3>1. (v \in s.sent \ s.gone <=> b \in SentBy(v)) /\ (v \in s.todo \ s.gone <=> b \in TodoBy(v))
      BY <1>2, <2>4 DEF SentBy, TodoBy
    <3>2. SentBy(v)' = SentBy(v)
      BY <2>2, <3>1
    <3>3. TodoBy(v)' = TodoBy(v)
      BY <2>2, <3>1
    <3>4. mailed'[v] = mailed[v]
      BY <1>1, <2>4 DEF RowType
    <3> QED BY <2>1, <3>2, <3>3, <3>4 DEF Tally, Standing
  <2> QED BY <2>3, <2>4
<1> QED BY <1>6, <1>7, <1>8 DEF ReminderInv

(* The last flush: only what the batch has written changes.                *)
LEMMA FlushKeeps ==
  ASSUME ReminderInv, NEW b \in Batches, Flush(b), ~Stale(b)
  PROVE  ReminderInv'
<1> DEFINE s == [batch[b] EXCEPT !.pc = "flushed", !.locked = batch[b].sent]
<1>1. /\ BatchInv /\ RowType /\ Shaped(batch[b]) /\ Pending(b) \cap batch[b].gone = {}
      /\ batch[b].pc = "running" /\ batch[b].todo = {}
      /\ UNCHANGED <<due, status, queued, mailed, lost, edits, failures>>
  BY DEF ReminderInv, Flush, Stale, Free, BatchInv
<1>2. /\ s.todo = {} /\ s.sent = batch[b].sent /\ s.locked = batch[b].sent
      /\ s.gone = batch[b].gone /\ s.pc = "flushed" /\ s \in Sessions
  BY <1>1 DEF Shaped, Sessions
<1>3. batch' = [batch EXCEPT ![b] = s]
  BY DEF Flush
<1> HIDE DEF s
<1>4. Shaped(s)
  BY <1>1, <1>2 DEF Shaped, Pending
<1>5. \A c \in Batches \ {b} : s.locked \cap batch[c].locked = {}
  <2>1. \A c \in Batches : ~Waits(b, c)
    BY DEF Flush, Free
  <2> QED BY <1>1, <1>2, <2>1 DEF Waits, BatchInv, Pending
<1>6. BatchInv'
  BY <1>1, <1>3, <1>4, <1>5, OneBatch
<1>7. ASSUME NEW v \in Users PROVE Tally(v)'
  <2>1. Tally(v)
    BY DEF ReminderInv
  <2>2. /\ SentBy(v)' = IF v \in s.sent \ s.gone THEN SentBy(v) \cup {b} ELSE SentBy(v) \ {b}
        /\ TodoBy(v)' = IF v \in s.todo \ s.gone THEN TodoBy(v) \cup {b} ELSE TodoBy(v) \ {b}
    BY <1>1, <1>3, OneBatchSets
  <2>3. (v \in s.sent \ s.gone <=> b \in SentBy(v)) /\ (v \in s.todo \ s.gone <=> b \in TodoBy(v))
    BY <1>1, <1>2 DEF SentBy, TodoBy
  <2>4. SentBy(v)' = SentBy(v)
    BY <2>2, <2>3
  <2>5. TodoBy(v)' = TodoBy(v)
    BY <2>2, <2>3
  <2> QED BY <1>1, <2>1, <2>4, <2>5 DEF Tally, Standing
<1>8. RowType'
  BY <1>1 DEF RowType
<1> QED BY <1>6, <1>7, <1>8 DEF ReminderInv

(* A commit marks the rows the batch has mailed: it no longer counts for   *)
(* them, and its reminders are what the marks stand for.                   *)
LEMMA CommitKeeps ==
  ASSUME ReminderInv, NEW b \in Batches, Commit(b)
  PROVE  ReminderInv'
<1>1. /\ BatchInv /\ RowType /\ Shaped(batch[b]) /\ batch[b].pc = "flushed"
      /\ batch' = [batch EXCEPT ![b] = Idle]
      /\ UNCHANGED <<due, status, mailed, lost, edits, failures>>
      /\ queued' = [u \in Users |-> queued[u] \/ u \in batch[b].locked]
  BY DEF ReminderInv, Commit, BatchInv
<1>2. BatchInv'
  BY <1>1, IdleState, OneBatch
<1>3. RowType'
  BY <1>1 DEF RowType
<1>4. ASSUME NEW u \in Users PROVE Tally(u)'
  <2>1. /\ Tally(u) /\ queued[u] \in BOOLEAN
        /\ queued'[u] = (queued[u] \/ u \in batch[b].locked)
        /\ mailed' = mailed /\ lost' = lost /\ status' = status
    BY <1>1 DEF ReminderInv, RowType
  <2>2. SentBy(u)' = SentBy(u) \ {b} /\ TodoBy(u)' = TodoBy(u) \ {b}
    BY <1>1, IdleState, OneBatchSets
  <2>3. b \notin TodoBy(u) /\ (b \in SentBy(u) <=> u \in batch[b].locked)
    BY <1>1 DEF TodoBy, SentBy, Shaped
  <2>4. TodoBy(u)' = TodoBy(u)
    BY <2>2, <2>3
  <2>5. /\ Cardinality(SentBy(u)) \in Nat
        /\ b \in SentBy(u) => Cardinality(SentBy(u) \ {b}) = Cardinality(SentBy(u)) - 1
    BY UserSets, Sizes
  <2>6. CASE b \in SentBy(u)
    <3>1. queued'[u] /\ status'[u] # "NONE"
      BY <2>1, <2>3, <2>6 DEF Tally, Standing
    <3>2. Standing(u)' > Cardinality(SentBy(u)')
      BY <2>1, <2>2, <2>5, <2>6 DEF Tally, Standing
    <3> QED BY <2>1, <2>4, <3>1, <3>2 DEF Tally, Standing
  <2>7. CASE b \notin SentBy(u)
    <3>1. SentBy(u)' = SentBy(u)
      BY <2>2, <2>7
    <3>2. queued'[u] = queued[u]
      BY <2>1, <2>3, <2>7
    <3> QED BY <2>1, <2>4, <3>1, <3>2 DEF Tally, Standing
  <2> QED BY <2>6, <2>7
<1> QED BY <1>2, <1>3, <1>4 DEF ReminderInv

-----------------------------------------------------------------------------
(* The requests.  Rows that no batch has written are deleted under it: the *)
(* batches lose them, and the users' sets are empty.                       *)
LEMMA LoseKeeps ==
  ASSUME BatchInv, NEW S \in SUBSET Users, Unlocked(S),
         batch' = [b \in Batches |-> Lose(b, S)]
  PROVE  /\ BatchInv'
         /\ \A u \in S : SentBy(u)' = {} /\ TodoBy(u)' = {}
         /\ \A u \in Users \ S : SentBy(u)' = SentBy(u) /\ TodoBy(u)' = TodoBy(u)
<1>1. ASSUME NEW b \in Batches
      PROVE  /\ Shaped(Lose(b, S))
             /\ Lose(b, S).locked = batch[b].locked
             /\ Lose(b, S).sent = batch[b].sent /\ Lose(b, S).todo = batch[b].todo
             /\ Lose(b, S).gone = batch[b].gone \cup (Holds(b) \cap S)
  <2>1. Shaped(batch[b]) /\ batch[b].locked \cap S = {}
    BY DEF BatchInv, Unlocked
  <2>2. /\ Lose(b, S) \in Sessions
        /\ Lose(b, S).pc = batch[b].pc
        /\ Lose(b, S).locked = batch[b].locked
        /\ Lose(b, S).sent = batch[b].sent /\ Lose(b, S).todo = batch[b].todo
        /\ Lose(b, S).gone = batch[b].gone \cup (Holds(b) \cap S)
    BY <2>1 DEF Lose, Shaped, Sessions, Holds
  <2>3. batch[b].pc = "idle" => Lose(b, S) = Idle
    <3>1. batch[b] = Idle => Holds(b) \cap S = {}
      BY DEF Holds, Idle
    <3>2. [Idle EXCEPT !.gone = @ \cup {}] = Idle
      BY DEF Idle
    <3> QED BY <2>1, <3>1, <3>2 DEF Lose, Shaped
  <2> QED BY <2>1, <2>2, <2>3 DEF Shaped
<1>2. \A b \in Batches : batch'[b] = Lose(b, S)
  OBVIOUS
<1>3. BatchInv'
  <2>1. batch' \in [Batches -> Sessions]
    BY <1>1 DEF Shaped
  <2>2. \A b \in Batches : Shaped(batch[b])'
    BY <1>1, <1>2 DEF Shaped
  <2>3. \A b, c \in Batches : b # c => batch'[b].locked \cap batch'[c].locked = {}
    BY <1>1, <1>2 DEF BatchInv
  <2> QED BY <2>1, <2>2, <2>3 DEF BatchInv
<1>4. ASSUME NEW u \in S PROVE SentBy(u)' = {} /\ TodoBy(u)' = {}
  BY <1>1, <1>2 DEF SentBy, TodoBy, Holds
<1>5. ASSUME NEW u \in Users \ S PROVE SentBy(u)' = SentBy(u) /\ TodoBy(u)' = TodoBy(u)
  BY <1>1, <1>2 DEF SentBy, TodoBy, Holds
<1> QED BY <1>3, <1>4, <1>5

(* A row that is new or deleted has no reminder and no batch.              *)
LEMMA NewRow ==
  ASSUME NEW u \in Users, mailed'[u] = 0, lost'[u] = 0, ~queued'[u], SentBy(u)' = {}, TodoBy(u)' = {}
  PROVE  Tally(u)'
<1>1. Cardinality({}) = 0 /\ Cardinality(Batches) \in Nat
  BY FS_EmptySet, Sizes
<1> QED BY <1>1 DEF Tally, Standing

LEMMA RespondKeeps ==
  ASSUME ReminderInv, NEW u \in Users, NEW s \in {"NONE", "PARTICIPATING", "REJECTED"},
         Respond(u, s)
  PROVE  ReminderInv'
<1>1. /\ BatchInv /\ RowType /\ status[u] # s
      /\ status' = [status EXCEPT ![u] = s] /\ UNCHANGED <<due, failures>>
      /\ edits < MaxEdits /\ edits' = edits + 1
      /\ Unlocked({u})
  BY DEF ReminderInv, Respond, Edit
<1>2. edits' \in 0..MaxEdits
  BY <1>1, BoundsAssumption DEF RowType
<1>3. status' \in [Users -> {"NONE", "PARTICIPATING", "REJECTED"}]
  BY <1>1 DEF RowType
<1>4. \A v \in Users \ {u} : status'[v] = status[v]
  BY <1>1 DEF RowType
<1>5. CASE status[u] # "NONE" /\ s # "NONE"
  <2>1. UNCHANGED <<queued, mailed, lost, batch>>
    BY <1>5 DEF Respond
  <2>2. RowType'
    BY <1>1, <1>2, <1>3, <2>1 DEF RowType
  <2>3. BatchInv'
    BY <1>1, <2>1 DEF BatchInv, Shaped
  <2>4. ASSUME NEW v \in Users PROVE Tally(v)'
    <3>1. status'[v] = "NONE" => status[v] = "NONE"
      BY <1>1, <1>4, <1>5 DEF RowType
    <3>2. SentBy(v)' = SentBy(v) /\ TodoBy(v)' = TodoBy(v)
      BY <2>1 DEF SentBy, TodoBy
    <3>3. Tally(v)
      BY DEF ReminderInv
    <3> QED BY <2>1, <3>1, <3>2, <3>3 DEF Tally, Standing
  <2> QED BY <2>2, <2>3, <2>4 DEF ReminderInv
<1>6. CASE ~(status[u] # "NONE" /\ s # "NONE")
  <2>1. /\ queued' = [queued EXCEPT ![u] = FALSE]
        /\ mailed' = [mailed EXCEPT ![u] = 0] /\ lost' = [lost EXCEPT ![u] = 0]
        /\ batch' = [b \in Batches |-> IF s = "NONE" THEN Lose(b, {u}) ELSE batch[b]]
    BY <1>6 DEF Respond
  <2>2. RowType'
    BY <1>1, <1>2, <1>3, <2>1 DEF RowType
  <2>3. /\ BatchInv' /\ SentBy(u)' = {} /\ TodoBy(u)' = {}
        /\ \A v \in Users \ {u} : SentBy(v)' = SentBy(v) /\ TodoBy(v)' = TodoBy(v)
    <3>1. CASE s = "NONE"
      <4>1. batch' = [b \in Batches |-> Lose(b, {u})]
        BY <2>1, <3>1
      <4> QED BY <1>1, <4>1, LoseKeeps
    <3>2. CASE s # "NONE"
      <4>1. batch' = batch
        BY <1>1, <2>1, <3>2 DEF BatchInv
      <4>2. SentBy(u) = {} /\ TodoBy(u) = {}
        BY <1>6, <3>2 DEF ReminderInv, Tally
      <4>3. BatchInv'
        BY <1>1, <4>1 DEF BatchInv, Shaped
      <4> QED BY <4>1, <4>2, <4>3 DEF SentBy, TodoBy
    <3> QED BY <3>1, <3>2
  <2>4. Tally(u)'
    BY <1>1, <2>1, <2>3, NewRow DEF RowType
  <2>5. ASSUME NEW v \in Users \ {u} PROVE Tally(v)'
    <3>1. mailed'[v] = mailed[v] /\ lost'[v] = lost[v] /\ queued'[v] = queued[v] /\ status'[v] = status[v]
      BY <1>1, <1>4, <2>1 DEF RowType
    <3>2. Tally(v)
      BY DEF ReminderInv
    <3>3. SentBy(v)' = SentBy(v) /\ TodoBy(v)' = TodoBy(v)
      BY <2>3
    <3> QED BY <3>1, <3>2, <3>3 DEF Tally, Standing
  <2> QED BY <2>2, <2>3, <2>4, <2>5 DEF ReminderInv
<1> QED BY <1>5, <1>6

LEMMA ReplaceKeeps ==
  ASSUME ReminderInv, NEW list \in SUBSET Users, Replace(list)
  PROVE  ReminderInv'
<1> DEFINE old == {u \in Users : status[u] # "NONE"}
<1>1. /\ BatchInv /\ RowType /\ Unlocked(old) /\ UNCHANGED <<due, failures>>
      /\ edits < MaxEdits /\ edits' = edits + 1
      /\ status' = [u \in Users |-> IF u \in list THEN "PARTICIPATING" ELSE "NONE"]
      /\ queued' = [u \in Users |-> FALSE] /\ mailed' = [u \in Users |-> 0]
      /\ lost' = [u \in Users |-> 0]
      /\ batch' = [b \in Batches |-> Lose(b, old)]
  BY DEF ReminderInv, Replace, Edit
<1>2. RowType'
  <2>1. edits' \in 0..MaxEdits
    BY <1>1, BoundsAssumption DEF RowType
  <2>2. mailed' \in [Users -> Nat] /\ lost' \in [Users -> Nat]
    BY <1>1
  <2>3. queued' \in [Users -> BOOLEAN]
    BY <1>1
  <2>4. status' \in [Users -> {"NONE", "PARTICIPATING", "REJECTED"}]
    BY <1>1
  <2> QED BY <1>1, <2>1, <2>2, <2>3, <2>4 DEF RowType
<1>3. /\ BatchInv' /\ \A u \in old : SentBy(u)' = {} /\ TodoBy(u)' = {}
      /\ \A u \in Users \ old : SentBy(u)' = SentBy(u) /\ TodoBy(u)' = TodoBy(u)
  BY <1>1, LoseKeeps
<1>4. ASSUME NEW u \in Users PROVE Tally(u)'
  <2>1. SentBy(u)' = {} /\ TodoBy(u)' = {}
    BY <1>3 DEF ReminderInv, Tally
  <2> QED BY <1>1, <2>1, NewRow
<1> QED BY <1>2, <1>3, <1>4 DEF ReminderInv

-----------------------------------------------------------------------------
LEMMA NothingElse ==
  ASSUME ReminderInv, due' \in BOOLEAN,
         UNCHANGED <<status, queued, batch, mailed, lost, edits, failures>>
  PROVE  ReminderInv'
<1>1. RowType'
  BY DEF ReminderInv, RowType
<1>2. BatchInv'
  BY DEF ReminderInv, BatchInv, Shaped
<1>3. ASSUME NEW u \in Users PROVE Tally(u)'
  <2>1. SentBy(u)' = SentBy(u) /\ TodoBy(u)' = TodoBy(u)
    BY DEF SentBy, TodoBy
  <2>2. Tally(u)
    BY DEF ReminderInv
  <2> QED BY <2>1, <2>2 DEF Tally, Standing
<1> QED BY <1>1, <1>2, <1>3 DEF ReminderInv

LEMMA ReminderStep == ReminderInv /\ [Next]_vars => ReminderInv'
<1> SUFFICES ASSUME ReminderInv, [Next]_vars PROVE ReminderInv'
  OBVIOUS
<1>1. failures \in 0..MaxFailures /\ due \in BOOLEAN
  BY DEF ReminderInv, RowType
<1>2. CASE UNCHANGED vars
  BY <1>1, <1>2, NothingElse DEF vars
<1>3. ASSUME NEW b \in Batches, Load(b) PROVE ReminderInv'
  BY <1>3, LoadKeeps
<1>4. ASSUME NEW b \in Batches, NEW u \in Users, Remind(b, u) PROVE ReminderInv'
  <2>1. CASE Stale(b)
    BY <1>1, <1>4, <2>1, RollBackKeeps DEF Remind
  <2> QED BY <1>4, <2>1, RemindKeeps
<1>5. ASSUME NEW b \in Batches, Flush(b) PROVE ReminderInv'
  <2>1. CASE Stale(b)
    BY <1>1, <1>5, <2>1, RollBackKeeps DEF Flush
  <2> QED BY <1>5, <2>1, FlushKeeps
<1>6. ASSUME NEW b \in Batches, Commit(b) PROVE ReminderInv'
  BY <1>6, CommitKeeps
<1>7. ASSUME NEW b \in Batches, Fail(b) PROVE ReminderInv'
  <2>1. failures' \in 0..MaxFailures
    BY <1>1, <1>7, BoundsAssumption DEF Fail
  <2> QED BY <1>7, <2>1, RollBackKeeps DEF Fail
<1>8. ASSUME NEW b \in Batches, Victim(b) PROVE ReminderInv'
  BY <1>8, VictimKeeps
<1>9. ASSUME NEW u \in Users, NEW s \in {"NONE", "PARTICIPATING", "REJECTED"}, Respond(u, s)
      PROVE  ReminderInv'
  BY <1>9, RespondKeeps
<1>10. ASSUME NEW list \in SUBSET Users, Replace(list) PROVE ReminderInv'
  BY <1>10, ReplaceKeeps
<1>11. CASE Reschedule
  BY <1>1, <1>11, NothingElse DEF Reschedule
<1> QED BY <1>2, <1>3, <1>4, <1>5, <1>6, <1>7, <1>8, <1>9, <1>10, <1>11 DEF Next

LEMMA RemindersInvariant == Spec => []ReminderInv
BY ReminderInit, ReminderStep, PTL DEF Spec

(* The state is well typed; no two batches have written the same row, and  *)
(* a row that is written is not deleted (event_reminders.py).              *)
THEOREM RemindersTyped == Spec => []TypeOK
<1>1. ReminderInv => TypeOK
  <2> SUFFICES ASSUME ReminderInv PROVE TypeOK
    OBVIOUS
  <2> QED BY DEF ReminderInv, RowType, BatchInv, Shaped, TypeOK
<1> QED BY <1>1, RemindersInvariant, PTL

(* Whatever batches overlap, deadlock or fail, the e-mails about one       *)
(* participation are at most one per batch, and those whose marks were     *)
(* lost: the batches that load it do so before any of them commits, and    *)
(* each mails it once; a batch that is rolled back may do it all again.    *)
THEOREM ParticipationsAreRemindedOnce == Spec => []RemindedOnce
<1>1. ReminderInv => RemindedOnce
  <2> SUFFICES ASSUME ReminderInv, NEW u \in Users
               PROVE  mailed[u] <= Cardinality(Batches) + lost[u]
    BY DEF RemindedOnce
  <2>1. Cardinality(TodoBy(u)) \in Nat /\ Cardinality(Batches) \in Nat
    BY UserSets, Sizes
  <2>2. Tally(u)
    BY DEF ReminderInv
  <2> QED BY <2>1, <2>2 DEF Tally, Standing
<1> QED BY <1>1, RemindersInvariant, PTL

(* A participation is marked as reminded only when its reminder was handed *)
(* over, although rows are changed, deleted and inserted under the batch.  *)
THEOREM MarksAreMailed == Spec => []MarkedIsMailed
<1>1. ReminderInv => MarkedIsMailed
  <2> SUFFICES ASSUME ReminderInv, NEW u \in Users, queued[u] PROVE mailed[u] > 0
    BY DEF MarkedIsMailed
  <2>1. Cardinality(SentBy(u)) \in Nat
    BY UserSets, Sizes
  <2>2. Tally(u)
    BY DEF ReminderInv
  <2> QED BY <2>1, <2>2 DEF Tally, Standing
<1> QED BY <1>1, RemindersInvariant, PTL
=============================================================================
