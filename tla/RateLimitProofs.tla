-------------------------- MODULE RateLimitProofs --------------------------
(* Theorems about RateLimit, for any attempts and any limits.              *)
EXTENDS RateLimit, FiniteSetTheorems, NaturalsInduction, WellFoundedInduction, TLAPS

(* The attempts whose key still exists, and those that will be admitted.   *)
Live == {r \in InFlight : req[r].live}
Fitting == {r \in Live : Admitted(r)}

(* An attempt counts from one, and its key has counted as far as it has.   *)
Counted(s) ==
  s.pc = "counted" => s.n \in 1..Overflow /\ (s.live => s.n <= count)
KeyInv == TypeOK /\ \A r \in Requests : Counted(req[r])

(* The key lives until the last admission is as old as the window, so a    *)
(* new key finds only old ones; and what the key has counted, up to Free,  *)
(* are the recent admissions and the attempts that will still be admitted. *)
Places == IF count < Free THEN count ELSE Free
WindowInv ==
  /\ \A i \in 1..Free : ages[i] + ttl >= Window
  /\ Cardinality(Fitting) <= Places
  /\ \A i \in 1..Free : i + Places <= Free + Cardinality(Fitting) => ages[i] = Window

-----------------------------------------------------------------------------
(* The powers of two are what their recursive equation says: there is a    *)
(* function that satisfies it, because every initial piece of it exists    *)
(* and any two of them agree.  Induction is over a set of numbers.         *)
LEMMA NatSets ==
  ASSUME NEW S \in SUBSET Nat, 0 \in S, \A n \in S : n + 1 \in S
  PROVE  S = Nat
<1> SUFFICES ASSUME Nat \ S # {} PROVE FALSE
  OBVIOUS
<1> DEFINE R == OpToRel(<, Nat)
<1>1. \A x, y \in Nat : <<y, x>> \in R <=> y < x
  BY DEF OpToRel
<1>2. PICK x \in Nat \ S : \A y \in Nat \ S : <<y, x>> \notin R
  <2>1. IsWellFoundedOn(R, Nat)
    BY NatLessThanWellFounded
  <2> HIDE DEF R
  <2> QED BY <2>1, WFMin
<1> HIDE DEF R
<1>3. x - 1 \in Nat /\ x - 1 < x
  OBVIOUS
<1>4. x - 1 \in S
  BY <1>1, <1>2, <1>3
<1> QED BY <1>3, <1>4

Pieces(n) == {f \in [0..n -> Nat] : f[0] = 1 /\ \A i \in 1..n : f[i] = 2 * f[i - 1]}
Piece(n) == CHOOSE f \in Pieces(n) : TRUE

LEMMA PiecesExist == \A n \in Nat : Pieces(n) # {}
<1> DEFINE S == {n \in Nat : Pieces(n) # {}}
<1>1. 0 \in S
  <2>1. [i \in 0..0 |-> 1] \in Pieces(0)
    BY DEF Pieces
  <2> QED BY <2>1
<1>2. ASSUME NEW n \in S PROVE n + 1 \in S
  <2>1. PICK f \in Pieces(n) : TRUE
    OBVIOUS
  <2> DEFINE g == [i \in 0..(n + 1) |-> IF i = n + 1 THEN 2 * f[n] ELSE f[i]]
  <2>2. /\ f \in [0..n -> Nat] /\ f[0] = 1 /\ \A i \in 1..n : f[i] = 2 * f[i - 1]
        /\ n \in Nat
    BY <2>1 DEF Pieces
  <2>3. g \in [0..(n + 1) -> Nat]
    BY <2>2
  <2>4. g[0] = 1 /\ \A i \in 1..(n + 1) : g[i] = 2 * g[i - 1]
    <3>1. \A i \in 0..n : g[i] = f[i]
      BY <2>2
    <3>2. g[n + 1] = 2 * f[n] /\ n \in 0..n /\ 0 \in 0..n /\ (n + 1) - 1 = n
      BY <2>2
    <3> HIDE DEF g
    <3>3. \A i \in 1..n : g[i] = 2 * g[i - 1]
      BY <2>2, <3>1
    <3>4. g[n + 1] = 2 * g[(n + 1) - 1]
      BY <2>2, <3>1, <3>2
    <3>5. \A i \in 1..(n + 1) : i \in 1..n \/ i = n + 1
      BY <2>2
    <3> QED BY <2>2, <3>1, <3>2, <3>3, <3>4, <3>5
  <2>5. g \in Pieces(n + 1)
    BY <2>3, <2>4 DEF Pieces
  <2> QED BY <2>2, <2>5
<1> HIDE DEF S
<1>3. S \in SUBSET Nat
  BY DEF S
<1>4. S = Nat
  BY <1>1, <1>2, <1>3, NatSets
<1> QED BY <1>4 DEF S

LEMMA PiecesAgree ==
  \A i \in Nat : \A m, n \in Nat : i <= m /\ i <= n
    => \A f \in Pieces(m), g \in Pieces(n) : f[i] = g[i]
<1> DEFINE S == {i \in Nat : \A m, n \in Nat : i <= m /\ i <= n
                    => \A f \in Pieces(m), g \in Pieces(n) : f[i] = g[i]}
<1>1. 0 \in S
  BY DEF Pieces
<1>2. ASSUME NEW i \in S PROVE i + 1 \in S
  <2> SUFFICES ASSUME NEW m \in Nat, NEW n \in Nat, i + 1 <= m, i + 1 <= n,
                      NEW f \in Pieces(m), NEW g \in Pieces(n)
               PROVE  f[i + 1] = g[i + 1]
    OBVIOUS
  <2>1. f[i] = g[i]
    OBVIOUS
  <2>2. i + 1 \in 1..m /\ i + 1 \in 1..n /\ (i + 1) - 1 = i
    OBVIOUS
  <2>3. f[i + 1] = 2 * f[i] /\ g[i + 1] = 2 * g[i]
    <3> HIDE DEF S
    <3> QED BY <2>2 DEF Pieces
  <2> QED BY <2>1, <2>3
<1> HIDE DEF S
<1>3. S \in SUBSET Nat
  BY DEF S
<1>4. S = Nat
  BY <1>1, <1>2, <1>3, NatSets
<1> QED BY <1>4 DEF S

LEMMA PowerUnfolds == Power = [n \in Nat |-> IF n = 0 THEN 1 ELSE 2 * Power[n - 1]]
<1> DEFINE F == [n \in Nat |-> Piece(n)[n]]
<1>1. \A n \in Nat : Piece(n) \in Pieces(n)
  BY PiecesExist DEF Piece
<1>2. ASSUME NEW n \in Nat
      PROVE  F[n] = IF n = 0 THEN 1 ELSE 2 * F[n - 1]
  <2>1. CASE n = 0
    BY <1>1, <2>1 DEF Pieces
  <2>2. CASE n # 0
    <3>1. n - 1 \in Nat /\ n \in 1..n /\ n - 1 <= n
      BY <2>2
    <3>2. Piece(n)[n] = 2 * Piece(n)[n - 1]
      BY <1>1, <3>1 DEF Pieces
    <3>3. Piece(n)[n - 1] = Piece(n - 1)[n - 1]
      BY <1>1, <3>1, PiecesAgree
    <3> QED BY <2>2, <3>1, <3>2, <3>3
  <2> QED BY <2>1, <2>2
<1>3. F = [n \in Nat |-> IF n = 0 THEN 1 ELSE 2 * F[n - 1]]
  <2>1. \A n \in Nat : F[n] = [k \in Nat |-> IF k = 0 THEN 1 ELSE 2 * F[k - 1]][n]
    BY <1>2
  <2> QED BY <2>1
<1> HIDE DEF F
<1> QED BY <1>3 DEF Power

LEMMA PowerIs ==
  /\ Power[0] = 1
  /\ \A n \in Nat : Power[n + 1] = 2 * Power[n]
<1>1. \A n \in Nat : Power[n] = IF n = 0 THEN 1 ELSE 2 * Power[n - 1]
  BY PowerUnfolds
<1> QED BY <1>1

LEMMA PowerPositive == \A n \in Nat : Power[n] \in Nat \ {0}
<1> DEFINE S == {n \in Nat : Power[n] \in Nat \ {0}}
<1>1. 0 \in S /\ \A n \in S : n + 1 \in S
  BY PowerIs
<1> HIDE DEF S
<1>2. S \in SUBSET Nat
  BY DEF S
<1>3. S = Nat
  BY <1>1, <1>2, NatSets
<1> QED BY <1>3 DEF S

-----------------------------------------------------------------------------
(* The delays: from one tick to the maximum, and none shorter than that of *)
(* the first attempt.                                                      *)
LEMMA DivOrder ==
  ASSUME NEW x \in Nat, NEW y \in Nat, NEW d \in Nat \ {0}, x <= y
  PROVE  x \div d <= y \div d
OBVIOUS

LEMMA DivType ==
  ASSUME NEW x \in Nat, NEW d \in Nat \ {0}
  PROVE  x \div d \in Nat
OBVIOUS

LEMMA TimesOrder ==
  ASSUME NEW x \in Nat, NEW y \in Nat, NEW z \in Nat, y <= z
  PROVE  x * y \in Nat /\ x * z \in Nat /\ x * y <= x * z
OBVIOUS

LEMMA DelayBounds ==
  \A n \in 1..Overflow : Delay(n) \in 1..Cap /\ Delay(n) >= Window
<1>1. Free \in Nat \ {0} /\ Cap \in Nat \ {0} /\ Base \in Nat /\ Overflow \in Nat \ {0}
  BY NumbersAssumption
<1> DEFINE d == Power[Free]
           p == Power[Free - 1]
<1>2. d \in Nat \ {0} /\ p \in Nat \ {0} /\ d = 2 * p
  <2>1. Free - 1 \in Nat /\ (Free - 1) + 1 = Free
    BY <1>1
  <2> QED BY <1>1, <2>1, PowerPositive, PowerIs
<1>3. Power[1] = 2
  <2>1. 0 + 1 = 1
    OBVIOUS
  <2> QED BY <2>1, PowerIs
<1>4. Base \div p >= 1
  BY NumbersAssumption
<1> HIDE DEF d, p
<1>5. Base >= p
  BY <1>1, <1>2, <1>4
<1>6. (Base * 2) \div d >= 1
  <2>1. Base * 2 >= d
    BY <1>1, <1>2, <1>5
  <2>2. d \div d = 1
    BY <1>2
  <2>3. Base * 2 \in Nat
    BY <1>1
  <2>4. d \div d <= (Base * 2) \div d
    BY <1>2, <2>1, <2>3, DivOrder
  <2> QED BY <2>2, <2>4
<1>7. ASSUME NEW n \in 1..Overflow
      PROVE  Uncapped(n) \in Nat /\ Uncapped(1) <= Uncapped(n) /\ Uncapped(1) \in Nat \ {0}
  <2>1. n - 1 \in Nat /\ (n - 1) + 1 = n
    BY <1>1
  <2>2. Power[n] \in Nat /\ 2 <= Power[n]
    <3>1. Power[n - 1] \in Nat \ {0} /\ Power[n] = 2 * Power[n - 1]
      BY <2>1, PowerPositive, PowerIs
    <3> QED BY <3>1
  <2>3. Base * 2 \in Nat /\ Base * Power[n] \in Nat /\ Base * 2 <= Base * Power[n]
    BY <1>1, <2>2, TimesOrder
  <2>4. (Base * 2) \div d <= (Base * Power[n]) \div d
    BY <1>2, <2>3, DivOrder
  <2>5. (Base * 2) \div d \in Nat /\ (Base * Power[n]) \div d \in Nat
    BY <1>2, <2>3, DivType
  <2>6. Uncapped(n) = (Base * Power[n]) \div d /\ Uncapped(1) = (Base * 2) \div d
    BY <1>3 DEF Uncapped, d
  <2> QED BY <1>6, <2>4, <2>5, <2>6
<1> QED BY <1>1, <1>7 DEF Delay, Window

LEMMA WindowType == Window \in 1..Cap
<1>1. 1 \in 1..Overflow
  BY NumbersAssumption
<1> QED BY <1>1, DelayBounds DEF Window

-----------------------------------------------------------------------------
(* The key.                                                                *)
LEMMA Numbers ==
  /\ Free \in Nat \ {0} /\ Cap \in Nat \ {0} /\ Overflow \in Nat \ {0}
  /\ MaxCrashes \in Nat \ {0} /\ Free < Overflow /\ Window \in 1..Cap
BY NumbersAssumption, WindowType

RequestStates == [pc: {"idle", "counted"}, n: 0..Overflow, live: BOOLEAN]
LEMMA IdleState == Idle \in RequestStates /\ Idle.pc = "idle"
BY Numbers DEF Idle, RequestStates

LEMMA OneRequest ==
  ASSUME KeyInv, NEW r \in Requests, NEW s \in RequestStates,
         req' = [req EXCEPT ![r] = s]
  PROVE  /\ req' \in [Requests -> RequestStates]
         /\ \A q \in Requests : req'[q] = IF q = r THEN s ELSE req[q]
BY DEF KeyInv, TypeOK, RequestStates

LEMMA KeyInit == Init => KeyInv
<1> SUFFICES ASSUME Init PROVE KeyInv
  OBVIOUS
<1>1. req \in [Requests -> RequestStates] /\ \A r \in Requests : Counted(req[r])
  BY IdleState DEF Init, Counted
<1>2. ages \in [1..Free -> 0..Window]
  BY Numbers DEF Init
<1> QED BY <1>1, <1>2, Numbers DEF Init, KeyInv, TypeOK, RequestStates

LEMMA CountKey ==
  ASSUME KeyInv, NEW r \in Requests, Count(r)
  PROVE  /\ KeyInv' /\ count' \in 1..Overflow /\ count <= count'
         /\ \A q \in Requests :
              req'[q] = IF q = r THEN [pc |-> "counted", n |-> count', live |-> TRUE]
                        ELSE req[q]
<1> DEFINE s == [pc |-> "counted", n |-> count', live |-> TRUE]
<1>1. count \in 0..Overflow /\ count' \in 1..Overflow /\ count <= count'
  BY Numbers DEF Count, KeyInv, TypeOK
<1>2. s \in RequestStates /\ s.pc = "counted" /\ s.n = count'
  BY <1>1 DEF RequestStates
<1>3. req' = [req EXCEPT ![r] = s]
  BY DEF Count
<1> HIDE DEF s
<1>4. /\ req' \in [Requests -> RequestStates]
      /\ \A q \in Requests : req'[q] = IF q = r THEN s ELSE req[q]
  BY <1>2, <1>3, OneRequest
<1>5. ASSUME NEW q \in Requests PROVE Counted(req[q])'
  <2>1. Counted(req[q]) /\ req[q] \in RequestStates
    BY DEF KeyInv, TypeOK, RequestStates
  <2> QED BY <1>1, <1>2, <1>4, <2>1 DEF Counted, RequestStates
<1>6. TypeOK'
  BY <1>1, <1>4, Numbers DEF KeyInv, TypeOK, Count, RequestStates
<1> QED BY <1>1, <1>4, <1>5, <1>6 DEF KeyInv, s

(* An attempt that ends, in whatever way.                                  *)
LEMMA EndKey ==
  ASSUME KeyInv, NEW r \in Requests, req' = [req EXCEPT ![r] = Idle], UNCHANGED count
  PROVE  /\ req' \in [Requests -> RequestStates]
         /\ \A q \in Requests : Counted(req[q])'
         /\ \A q \in Requests : req'[q] = IF q = r THEN Idle ELSE req[q]
<1>1. /\ req' \in [Requests -> RequestStates]
      /\ \A q \in Requests : req'[q] = IF q = r THEN Idle ELSE req[q]
  BY IdleState, OneRequest
<1> QED BY <1>1, IdleState DEF KeyInv, Counted

LEMMA AnswerKey ==
  ASSUME KeyInv, NEW r \in Requests, Answer(r)
  PROVE  /\ KeyInv'
         /\ ttl' = IF count = 0 THEN 0 ELSE Delay(req[r].n)
         /\ count' = count
         /\ Delay(req[r].n) \in 1..Cap /\ Delay(req[r].n) >= Window
<1>1. req[r].n \in 1..Overflow
  BY DEF Answer, KeyInv, Counted
<1>2. Delay(req[r].n) \in 1..Cap /\ Delay(req[r].n) >= Window
  BY <1>1, DelayBounds
<1>3. ttl' = IF count = 0 THEN 0 ELSE Delay(req[r].n)
  BY DEF Answer, Expires
<1>4. ages' \in [1..Free -> 0..Window]
  <2>1. ages \in [1..Free -> 0..Window]
    BY DEF KeyInv, TypeOK
  <2>2. [i \in 1..Free |-> IF i = Free THEN 0 ELSE ages[i + 1]] \in [1..Free -> 0..Window]
    <3>1. ASSUME NEW i \in 1..Free, i # Free PROVE ages[i + 1] \in 0..Window
      <4>1. i + 1 \in 1..Free
        BY <3>1, Numbers
      <4> QED BY <2>1, <4>1
    <3>2. 0 \in 0..Window
      BY Numbers
    <3> QED BY <3>1, <3>2
  <2> QED BY <2>1, <2>2 DEF Answer
<1>5. told' \in 0..Cap
  BY <1>2, Numbers DEF Answer, RetryAfter
<1>6. ttl' \in 0..Cap /\ (ttl' > 0 => count > 0)
  BY <1>2, <1>3, Numbers DEF KeyInv, TypeOK
<1>7. /\ req' \in [Requests -> RequestStates] /\ \A q \in Requests : Counted(req[q])'
      /\ count' = count /\ crashed' = crashed
  BY EndKey DEF Answer
<1> QED BY <1>2, <1>3, <1>4, <1>5, <1>6, <1>7 DEF KeyInv, TypeOK, RequestStates

LEMMA TickKey ==
  ASSUME KeyInv, Tick
  PROVE  /\ KeyInv'
         /\ \A q \in Requests : /\ req'[q].pc = req[q].pc /\ req'[q].n = req[q].n
                                 /\ req'[q].live = (req[q].live /\ ttl # 1)
<1>1. /\ ages \in [1..Free -> 0..Window] /\ told \in 0..Cap /\ ttl \in 0..Cap
      /\ count \in 0..Overflow /\ crashed \in 0..MaxCrashes /\ (ttl > 0 => count > 0)
      /\ req \in [Requests -> RequestStates]
  BY DEF KeyInv, TypeOK, RequestStates
<1>2. ages' \in [1..Free -> 0..Window]
  <2>1. ASSUME NEW i \in 1..Free
        PROVE  (IF ages[i] < Window THEN ages[i] + 1 ELSE Window) \in 0..Window
    <3>1. ages[i] \in 0..Window
      BY <1>1
    <3> QED BY <3>1, Numbers
  <2> QED BY <2>1 DEF Tick
<1>3. /\ told' \in 0..Cap /\ ttl' \in 0..Cap /\ crashed' \in 0..MaxCrashes
      /\ count' \in 0..Overflow /\ (ttl' > 0 => count' > 0)
  BY <1>1, Numbers DEF Tick
<1>4. ASSUME NEW q \in Requests
      PROVE  /\ req'[q] \in RequestStates /\ req'[q].pc = req[q].pc /\ req'[q].n = req[q].n
             /\ req'[q].live = (req[q].live /\ ttl # 1)
  <2>1. req[q] \in RequestStates
    BY <1>1
  <2>2. CASE ttl = 1
    <3>1. req'[q] = [req[q] EXCEPT !.live = FALSE]
      BY <2>2 DEF Tick
    <3> QED BY <2>1, <2>2, <3>1 DEF RequestStates
  <2>3. CASE ttl # 1
    <3>1. req' = req
      BY <2>3 DEF Tick
    <3> QED BY <2>1, <2>3, <3>1 DEF RequestStates
  <2> QED BY <2>2, <2>3
<1>5. req' \in [Requests -> RequestStates]
  <2>1. DOMAIN req' = Requests /\ req' = [q \in Requests |-> req'[q]]
    BY <1>1 DEF Tick
  <2> QED BY <1>4, <2>1
<1>6. ASSUME NEW q \in Requests PROVE Counted(req[q])'
  <2>1. Counted(req[q])
    BY DEF KeyInv
  <2>2. ttl # 1 => count' = count
    BY DEF Tick
  <2> QED BY <1>4, <2>1, <2>2 DEF Counted
<1> QED BY <1>2, <1>3, <1>4, <1>5, <1>6 DEF KeyInv, TypeOK, RequestStates

LEMMA KeyStep == KeyInv /\ [Next]_vars => KeyInv'
<1> SUFFICES ASSUME KeyInv, [Next]_vars PROVE KeyInv'
  OBVIOUS
<1>1. ASSUME NEW r \in Requests, Count(r) PROVE KeyInv'
  BY <1>1, CountKey
<1>2. ASSUME NEW r \in Requests, Answer(r) PROVE KeyInv'
  BY <1>2, AnswerKey
<1>3. ASSUME NEW r \in Requests, Overflows(r) PROVE KeyInv'
  BY <1>3, EndKey DEF Overflows, KeyInv, TypeOK, RequestStates
<1>4. ASSUME NEW r \in Requests, Crash(r) PROVE KeyInv'
  <2>1. crashed' \in 0..MaxCrashes
    BY <1>4, Numbers DEF Crash, KeyInv, TypeOK
  <2> QED BY <1>4, <2>1, EndKey DEF Crash, KeyInv, TypeOK, RequestStates
<1>5. CASE Tick
  BY <1>5, TickKey
<1>6. CASE UNCHANGED vars
  BY <1>6 DEF vars, KeyInv, TypeOK, Counted
<1> QED BY <1>1, <1>2, <1>3, <1>4, <1>5, <1>6 DEF Next

LEMMA KeyInvariant == Spec => []KeyInv
BY KeyInit, KeyStep, PTL DEF Spec

(* The state is well typed; the key lives at most the longest delay.       *)
THEOREM RateLimitTyped == Spec => []TypeOK
<1>1. KeyInv => TypeOK
  BY DEF KeyInv
<1> QED BY <1>1, KeyInvariant, PTL

-----------------------------------------------------------------------------
(* Retry-After is honest: nobody else trying, the key is gone when the     *)
(* time the last refused client was told to wait is over.                  *)
LEMMA RetryStep == KeyInv /\ RetryAfterHonoured /\ [Next]_vars => RetryAfterHonoured'
<1> SUFFICES ASSUME KeyInv, RetryAfterHonoured, [Next]_vars PROVE RetryAfterHonoured'
  OBVIOUS
<1>1. told \in 0..Cap /\ ttl \in 0..Cap /\ Cap \in Nat /\ count \in Nat
  BY Numbers DEF KeyInv, TypeOK
<1>2. ASSUME NEW r \in Requests, Count(r) PROVE RetryAfterHonoured'
  BY <1>2 DEF Count, RetryAfterHonoured
<1>3. ASSUME NEW r \in Requests, Answer(r) PROVE RetryAfterHonoured'
  <2>1. /\ ttl' = IF count = 0 THEN 0 ELSE Delay(req[r].n)
        /\ count' = count /\ Delay(req[r].n) \in 1..Cap
    BY <1>3, AnswerKey
  <2>2. told' = 0 \/ told' = Delay(req[r].n)
    BY <1>3 DEF Answer, RetryAfter
  <2> QED BY <1>1, <2>1, <2>2 DEF RetryAfterHonoured
<1>4. ASSUME NEW r \in Requests, Overflows(r) \/ Crash(r) PROVE RetryAfterHonoured'
  BY <1>4 DEF Overflows, Crash, RetryAfterHonoured
<1>5. CASE Tick
  <2>1. /\ told' = IF told > 0 THEN told - 1 ELSE 0
        /\ ttl' = IF ttl > 0 THEN ttl - 1 ELSE 0
        /\ count' = IF ttl = 1 THEN 0 ELSE count
    BY <1>5 DEF Tick
  <2> QED BY <1>1, <2>1 DEF RetryAfterHonoured
<1>6. CASE UNCHANGED vars
  BY <1>6 DEF vars, RetryAfterHonoured
<1> QED BY <1>2, <1>3, <1>4, <1>5, <1>6 DEF Next

THEOREM RetryAfterIsHonoured == Spec => []RetryAfterHonoured
<1>1. Init => RetryAfterHonoured
  BY DEF Init, RetryAfterHonoured
<1> QED BY <1>1, RetryStep, KeyInvariant, PTL DEF Spec

-----------------------------------------------------------------------------
(* The window.                                                             *)
LEMMA Sizes ==
  ASSUME NEW A \in SUBSET Requests
  PROVE  /\ Cardinality(A) \in Nat /\ Cardinality(A) <= Cardinality(Requests)
         /\ Cardinality(Requests) \in Nat
         /\ \A r \in A : Cardinality(A \ {r}) = Cardinality(A) - 1
         /\ \A r \in Requests \ A : Cardinality(A \cup {r}) = Cardinality(A) + 1
<1>1. IsFiniteSet(A) /\ IsFiniteSet(Requests) /\ Cardinality(A) <= Cardinality(Requests)
  BY FS_Subset, RequestsAssumption
<1> QED BY <1>1, FS_CardinalityType, FS_AddElement, FS_RemoveElement

LEMMA Sets ==
  /\ Live = {r \in Requests : req[r].pc = "counted" /\ req[r].live}
  /\ Fitting = {r \in Requests : req[r].pc = "counted" /\ req[r].live /\ req[r].n <= Free}
  /\ Live' = {r \in Requests : req'[r].pc = "counted" /\ req'[r].live}
  /\ Fitting' = {r \in Requests : req'[r].pc = "counted" /\ req'[r].live /\ req'[r].n <= Free}
BY DEF Live, Fitting, InFlight, Admitted

(* An attempt counts: it is new among those in flight.                     *)
LEMMA CountSets ==
  ASSUME KeyInv, NEW r \in Requests, Count(r)
  PROVE  /\ r \notin Live /\ r \notin Fitting /\ Live' = Live \cup {r}
         /\ Fitting' = IF count' <= Free THEN Fitting \cup {r} ELSE Fitting
<1>1. \A q \in Requests :
        req'[q] = IF q = r THEN [pc |-> "counted", n |-> count', live |-> TRUE] ELSE req[q]
  BY CountKey
<1>2. r \notin Live /\ r \notin Fitting
  BY Sets DEF Count
<1>3. \A q : q \in Live' <=> q \in Live \cup {r}
  BY <1>1, Sets
<1>4. \A q : q \in Fitting' <=> q \in IF count' <= Free THEN Fitting \cup {r} ELSE Fitting
  BY <1>1, <1>2, Sets
<1> QED BY <1>2, <1>3, <1>4

LEMMA EndSets ==
  ASSUME KeyInv, NEW r \in Requests, req' = [req EXCEPT ![r] = Idle], UNCHANGED count
  PROVE  Live' = Live \ {r} /\ Fitting' = Fitting \ {r}
<1>1. \A q \in Requests : req'[q] = IF q = r THEN Idle ELSE req[q]
  BY EndKey
<1>2. \A q : q \in Live' <=> q \in Live \ {r}
  BY <1>1, IdleState, Sets
<1>3. \A q : q \in Fitting' <=> q \in Fitting \ {r}
  BY <1>1, IdleState, Sets
<1> QED BY <1>2, <1>3

LEMMA TickSets ==
  ASSUME KeyInv, Tick
  PROVE  IF ttl = 1 THEN Live' = {} /\ Fitting' = {} ELSE Live' = Live /\ Fitting' = Fitting
<1>1. \A q \in Requests : /\ req'[q].pc = req[q].pc /\ req'[q].n = req[q].n
                          /\ req'[q].live = (req[q].live /\ ttl # 1)
  BY TickKey
<1> QED BY <1>1, Sets

(* An attempt that ends without being admitted takes nobody's place.       *)
LEMMA EndWindow ==
  ASSUME KeyInv, WindowInv, NEW r \in Requests, req' = [req EXCEPT ![r] = Idle],
         UNCHANGED <<count, ages>>, \A i \in 1..Free : ages[i] + ttl' >= Window
  PROVE  WindowInv'
<1>1. Fitting' = Fitting \ {r} /\ Fitting \in SUBSET Requests
  BY EndSets, Sets
<1>2. /\ Cardinality(Fitting') <= Cardinality(Fitting)
      /\ Cardinality(Fitting) \in Nat /\ Cardinality(Fitting') \in Nat
  <2>1. CASE r \in Fitting
    BY <1>1, <2>1, Sizes
  <2>2. CASE r \notin Fitting
    <3>1. Fitting' = Fitting
      BY <1>1, <2>2
    <3>2. Cardinality(Fitting) \in Nat
      BY <1>1, Sizes
    <3> QED BY <3>1, <3>2
  <2> QED BY <2>1, <2>2
<1>3. Places' = Places /\ Places \in Nat
  BY Numbers DEF Places, KeyInv, TypeOK
<1>4. \A i \in 1..Free : i + Places <= Free + Cardinality(Fitting') => ages[i] = Window
  BY <1>2, <1>3, Numbers DEF WindowInv
<1> QED BY <1>2, <1>3, <1>4 DEF WindowInv

LEMMA CountWindow ==
  ASSUME KeyInv, WindowInv, NEW r \in Requests, Count(r)
  PROVE  WindowInv'
<1>1. count \in Nat /\ count' = IF count = Overflow THEN Overflow ELSE count + 1
  BY Numbers DEF KeyInv, TypeOK, Count
<1>2. ages' = ages /\ ttl' = ttl
  BY DEF Count
<1>3. CASE count' <= Free
  <2>1. Fitting' = Fitting \cup {r} /\ r \notin Fitting /\ Fitting \in SUBSET Requests
    BY <1>3, CountSets, Sets
  <2>2. Cardinality(Fitting') = Cardinality(Fitting) + 1 /\ Cardinality(Fitting) \in Nat
    BY <2>1, Sizes
  <2>3. Places' = Places + 1 /\ Places \in Nat
    BY <1>1, <1>3, Numbers DEF Places
  <2>4. \A i \in 1..Free : i + Places' <= Free + Cardinality(Fitting') => ages[i] = Window
    BY <2>2, <2>3, Numbers DEF WindowInv
  <2> QED BY <1>2, <2>2, <2>3, <2>4 DEF WindowInv
<1>4. CASE ~(count' <= Free)
  <2>1. Fitting' = Fitting
    BY <1>4, CountSets
  <2>2. Places' = Places
    BY <1>1, <1>4, Numbers DEF Places
  <2> QED BY <1>2, <2>1, <2>2 DEF WindowInv
<1> QED BY <1>3, <1>4

(* An admission is a place taken before; it finds the oldest one free.     *)
LEMMA AdmissionAges ==
  ASSUME KeyInv, WindowInv, NEW r \in Requests, r \in Fitting
  PROVE  ages[1] = Window
<1>1. Fitting \in SUBSET Requests
  BY Sets
<1>2. Cardinality(Fitting) \in Nat /\ Cardinality(Fitting \ {r}) \in Nat
      /\ Cardinality(Fitting \ {r}) = Cardinality(Fitting) - 1
  BY <1>1, Sizes
<1>3. Places <= Free /\ Places \in Nat
  BY Numbers DEF Places, KeyInv, TypeOK
<1> QED BY <1>2, <1>3, Numbers DEF WindowInv

LEMMA AnswerWindow ==
  ASSUME KeyInv, WindowInv, NEW r \in Requests, Answer(r)
  PROVE  WindowInv'
<1>1. /\ ttl' = IF count = 0 THEN 0 ELSE Delay(req[r].n)
      /\ count' = count /\ Delay(req[r].n) \in 1..Cap /\ Delay(req[r].n) >= Window
  BY AnswerKey
<1>2. /\ ages \in [1..Free -> 0..Window] /\ ttl \in 0..Cap /\ count \in Nat
      /\ ttl > 0 => count > 0
  BY Numbers DEF KeyInv, TypeOK
<1>3. count # 0 => \A i \in 1..Free : ages[i] + ttl' >= Window
  BY <1>1, <1>2, Numbers
<1>4. count = 0 => ttl = 0 /\ ttl' = 0
  BY <1>1, <1>2
<1>5. CASE r \notin Fitting
  <2>1. ages' = ages /\ req' = [req EXCEPT ![r] = Idle]
    BY <1>5, Sets DEF Answer, Admitted
  <2>2. \A i \in 1..Free : ages[i] + ttl' >= Window
    BY <1>3, <1>4 DEF WindowInv
  <2> QED BY <1>1, <2>1, <2>2, EndWindow
<1>6. CASE r \in Fitting
  <2>1. /\ ages' = [i \in 1..Free |-> IF i = Free THEN 0 ELSE ages[i + 1]]
        /\ req' = [req EXCEPT ![r] = Idle]
    BY <1>6, Sets DEF Answer, Admitted
  <2>2. count # 0
    <3>1. req[r].n \in 1..Overflow /\ req[r].n <= count
      BY <1>6, Sets DEF KeyInv, Counted
    <3> QED BY <1>2, <3>1, Numbers
  <2>3. Fitting' = Fitting \ {r} /\ Fitting \in SUBSET Requests
    BY <1>1, <2>1, EndSets, Sets
  <2>4. Cardinality(Fitting') = Cardinality(Fitting) - 1 /\ Cardinality(Fitting) \in Nat
    BY <1>6, <2>3, Sizes
  <2>5. /\ Places' = Places /\ Places \in Nat
        /\ Cardinality(Fitting) <= Places
    BY <1>1, <1>2, Numbers DEF Places, WindowInv
  <2>6. ASSUME NEW i \in 1..Free PROVE ages'[i] + ttl' >= Window
    <3>1. ages'[i] \in Nat
      <4>1. CASE i = Free
        BY <2>1, <4>1
      <4>2. CASE i # Free
        <5>1. i + 1 \in 1..Free
          BY <4>2, Numbers
        <5>2. ages'[i] = ages[i + 1]
          BY <2>1, <4>2
        <5>3. ages[i + 1] \in 0..Window
          BY <1>2, <5>1
        <5> QED BY <5>2, <5>3, Numbers
      <4> QED BY <4>1, <4>2
    <3> QED BY <1>1, <2>2, <3>1, Numbers
  <2>7. ASSUME NEW i \in 1..Free, i + Places <= Free + Cardinality(Fitting')
        PROVE  ages'[i] = Window
    <3>1. i # Free /\ i + 1 \in 1..Free /\ (i + 1) + Places <= Free + Cardinality(Fitting)
      BY <2>4, <2>5, <2>7, Numbers
    <3>2. ages[i + 1] = Window
      BY <3>1 DEF WindowInv
    <3> QED BY <2>1, <3>1, <3>2
  <2>8. Cardinality(Fitting') <= Places
    BY <2>4, <2>5
  <2> QED BY <2>5, <2>6, <2>7, <2>8 DEF WindowInv
<1> QED BY <1>5, <1>6

LEMMA TickWindow ==
  ASSUME KeyInv, WindowInv, Tick
  PROVE  WindowInv'
<1>1. /\ ages' = [i \in 1..Free |-> IF ages[i] < Window THEN ages[i] + 1 ELSE Window]
      /\ ttl' = IF ttl > 0 THEN ttl - 1 ELSE 0
      /\ count' = IF ttl = 1 THEN 0 ELSE count
  BY DEF Tick
<1>2. ages \in [1..Free -> 0..Window] /\ ttl \in 0..Cap
  BY DEF KeyInv, TypeOK
<1>3. ASSUME NEW i \in 1..Free
      PROVE  ages'[i] + ttl' >= Window /\ (ages[i] = Window => ages'[i] = Window)
             /\ (ttl = 1 => ages'[i] = Window)
  <2>1. ages[i] \in 0..Window /\ ages[i] + ttl >= Window
    BY <1>2 DEF WindowInv
  <2>2. ages'[i] = IF ages[i] < Window THEN ages[i] + 1 ELSE Window
    BY <1>1
  <2> QED BY <1>1, <1>2, <2>1, <2>2, Numbers
<1>4. CASE ttl = 1
  <2>1. Fitting' = {} /\ Places' = 0
    BY <1>1, <1>4, TickSets, Numbers DEF Places
  <2>2. Cardinality({}) = 0
    BY FS_EmptySet
  <2> QED BY <1>3, <1>4, <2>1, <2>2 DEF WindowInv
<1>5. CASE ttl # 1
  <2>1. Fitting' = Fitting /\ Places' = Places
    BY <1>1, <1>5, TickSets DEF Places
  <2> QED BY <1>3, <2>1 DEF WindowInv
<1> QED BY <1>4, <1>5

LEMMA WindowInit == Init => WindowInv
<1> SUFFICES ASSUME Init PROVE WindowInv
  OBVIOUS
<1>1. Fitting = {} /\ Cardinality({}) = 0
  BY IdleState, Sets, FS_EmptySet DEF Init
<1>2. Places = 0
  BY Numbers DEF Init, Places
<1> QED BY <1>1, <1>2, Numbers DEF Init, WindowInv

LEMMA WindowStep == KeyInv /\ WindowInv /\ [Next]_vars => WindowInv'
<1> SUFFICES ASSUME KeyInv, WindowInv, [Next]_vars PROVE WindowInv'
  OBVIOUS
<1>1. ASSUME NEW r \in Requests, Count(r) PROVE WindowInv'
  BY <1>1, CountWindow
<1>2. ASSUME NEW r \in Requests, Answer(r) PROVE WindowInv'
  BY <1>2, AnswerWindow
<1>3. ASSUME NEW r \in Requests, Overflows(r) \/ Crash(r) PROVE WindowInv'
  <2>1. req' = [req EXCEPT ![r] = Idle] /\ UNCHANGED <<count, ages, ttl>>
    BY <1>3 DEF Overflows, Crash
  <2> QED BY <2>1, EndWindow DEF WindowInv
<1>4. CASE Tick
  BY <1>4, TickWindow
<1>5. CASE UNCHANGED vars
  BY <1>5 DEF vars, WindowInv, Fitting, Live, InFlight, Admitted, Places
<1> QED BY <1>1, <1>2, <1>3, <1>4, <1>5 DEF Next

(* The limiter limits, however the INCRs and EXPIREs interleave: one more  *)
(* than Free attempts are never admitted within the shortest delay.        *)
THEOREM WindowSlides == Spec => SlidingWindow
<1> DEFINE Slides ==
      \A r \in Requests : (Answer(r) /\ Admitted(r) /\ req[r].live) => ages[1] = Window
<1>1. KeyInv /\ WindowInv /\ [Next]_vars => [Slides]_vars
  <2> SUFFICES ASSUME KeyInv, WindowInv, NEW r \in Requests,
                      Answer(r), Admitted(r), req[r].live
               PROVE  ages[1] = Window
    OBVIOUS
  <2>1. r \in Fitting
    BY Sets DEF Answer, Admitted
  <2> QED BY <2>1, AdmissionAges
<1>2. Spec => []WindowInv
  BY WindowInit, WindowStep, KeyInvariant, PTL DEF Spec
<1> QED BY <1>1, <1>2, KeyInvariant, PTL DEF Spec, SlidingWindow

-----------------------------------------------------------------------------
(* Crashes.  A key without a time to live has counted attempts in flight   *)
(* and attempts that stopped half way, and no others: when these are fewer *)
(* than the count that overflows, it is never reached without one.         *)
LEMMA CrashInit == Init => OnlyUnanswered /\ NotLockedOut
BY Numbers DEF Init, OnlyUnanswered, NotLockedOut

LEMMA CrashStep ==
  ASSUME MaxCrashes + Cardinality(Requests) < Overflow
  PROVE  KeyInv /\ OnlyUnanswered /\ NotLockedOut /\ [Next]_vars
           => OnlyUnanswered' /\ NotLockedOut'
<1> SUFFICES ASSUME KeyInv, OnlyUnanswered, NotLockedOut, [Next]_vars
             PROVE  OnlyUnanswered' /\ NotLockedOut'
  OBVIOUS
<1>1. /\ count \in 0..Overflow /\ ttl \in 0..Cap /\ (ttl > 0 => count > 0)
      /\ crashed \in 0..MaxCrashes
  BY DEF KeyInv, TypeOK
<1>2. Live \in SUBSET Requests /\ Live' \in SUBSET Requests
  BY Sets
<1>3. /\ count > 0 /\ ttl = 0 => count <= crashed + Cardinality(Live)
      /\ (OnlyUnanswered' <=> (count' > 0 /\ ttl' = 0
                                => count' <= crashed' + Cardinality(Live')))
  BY DEF OnlyUnanswered, Live
<1>4. ASSUME NEW r \in Requests, Count(r) PROVE OnlyUnanswered' /\ NotLockedOut'
  <2>1. r \notin Live /\ Live' = Live \cup {r}
    BY <1>4, CountSets
  <2>2. /\ Cardinality(Live') = Cardinality(Live) + 1 /\ Cardinality(Live) \in Nat
        /\ Cardinality(Live') <= Cardinality(Requests) /\ Cardinality(Requests) \in Nat
    BY <1>2, <2>1, Sizes
  <2>3. /\ count' = IF count = Overflow THEN Overflow ELSE count + 1
        /\ ttl' = ttl /\ crashed' = crashed
    BY <1>4 DEF Count
  <2>4. OnlyUnanswered'
    BY <1>1, <1>3, <2>2, <2>3, Numbers
  <2>5. NotLockedOut'
    BY <1>1, <1>3, <2>2, <2>3, Numbers DEF NotLockedOut
  <2> QED BY <2>4, <2>5
<1>5. ASSUME NEW r \in Requests, Answer(r) PROVE OnlyUnanswered' /\ NotLockedOut'
  <2>1. /\ ttl' = IF count = 0 THEN 0 ELSE Delay(req[r].n)
        /\ count' = count /\ Delay(req[r].n) \in 1..Cap
    BY <1>5, AnswerKey
  <2> QED BY <1>1, <2>1, Numbers DEF OnlyUnanswered, NotLockedOut
<1>6. ASSUME NEW r \in Requests, Overflows(r) PROVE OnlyUnanswered' /\ NotLockedOut'
  <2>1. UNCHANGED <<count, ttl, crashed>> /\ Live' = Live \ {r}
    BY <1>6, EndSets DEF Overflows
  <2>2. CASE r \in Live
    <3>1. count = Overflow
      BY <1>1, <1>6, <2>2, Sets, Numbers DEF Overflows, KeyInv, Counted
    <3> QED BY <2>1, <3>1 DEF OnlyUnanswered, NotLockedOut
  <2>3. CASE r \notin Live
    <3>1. Live' = Live
      BY <2>1, <2>3
    <3> QED BY <1>3, <2>1, <3>1 DEF NotLockedOut
  <2> QED BY <2>2, <2>3
<1>7. ASSUME NEW r \in Requests, Crash(r) PROVE OnlyUnanswered' /\ NotLockedOut'
  <2>1. UNCHANGED <<count, ttl>> /\ Live' = Live \ {r}
    BY <1>7, EndSets DEF Crash
  <2>2. CASE r \in Live
    <3>1. crashed' = crashed + 1
      BY <1>7, <2>2, Sets DEF Crash
    <3>2. Cardinality(Live') = Cardinality(Live) - 1 /\ Cardinality(Live) \in Nat
      BY <1>2, <2>1, <2>2, Sizes
    <3> QED BY <1>1, <1>3, <2>1, <3>1, <3>2 DEF NotLockedOut
  <2>3. CASE r \notin Live
    <3>1. Live' = Live /\ crashed' = crashed
      BY <1>7, <2>1, <2>3, Sets DEF Crash
    <3> QED BY <1>3, <2>1, <3>1 DEF NotLockedOut
  <2> QED BY <2>2, <2>3
<1>8. CASE Tick
  <2>1. /\ ttl' = IF ttl > 0 THEN ttl - 1 ELSE 0
        /\ count' = IF ttl = 1 THEN 0 ELSE count
    BY <1>8 DEF Tick
  <2>2. CASE ttl = 1
    BY <2>1, <2>2, Numbers DEF OnlyUnanswered, NotLockedOut
  <2>3. CASE ttl # 1
    <3>1. Live' = Live /\ crashed' = crashed
      BY <1>8, <2>3, TickSets DEF Tick
    <3> QED BY <1>1, <1>3, <2>1, <2>3, <3>1 DEF NotLockedOut
  <2> QED BY <2>2, <2>3
<1>9. CASE UNCHANGED vars
  BY <1>9 DEF vars, OnlyUnanswered, NotLockedOut, InFlight
<1> QED BY <1>4, <1>5, <1>6, <1>7, <1>8, <1>9 DEF Next

(* A key without a time to live, which Redis would keep for ever, has had  *)
(* no attempt that was answered, so the next answer gives it one, as long  *)
(* as fewer attempts are in flight or stop half way than overflow.         *)
THEOREM KeysAreNotKept ==
  ASSUME MaxCrashes + Cardinality(Requests) < Overflow
  PROVE  Spec => []OnlyUnanswered
<1>1. Spec => [](OnlyUnanswered /\ NotLockedOut)
  BY CrashInit, CrashStep, KeyInvariant, PTL DEF Spec
<1> QED BY <1>1, PTL

(* Crashes lock nobody out: a key that counts too far to be given a time   *)
(* to live again has one, under the same condition.                        *)
THEOREM NobodyIsLockedOut ==
  ASSUME MaxCrashes + Cardinality(Requests) < Overflow
  PROVE  Spec => []NotLockedOut
<1>1. Spec => [](OnlyUnanswered /\ NotLockedOut)
  BY CrashInit, CrashStep, KeyInvariant, PTL DEF Spec
<1> QED BY <1>1, PTL
=============================================================================
