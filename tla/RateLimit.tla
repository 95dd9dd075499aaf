------------------------------ MODULE RateLimit ------------------------------
(***************************************************************************)
(* One key of the Redis rate limiter (AccessService._check_rate_limit in   *)
(* core/services/access.py), which counts the attempts to register an      *)
(* e-mail address, or to verify its registration.  An attempt increments   *)
(* the key and sets its time to live in two commands, between which other  *)
(* attempts run, time passes, and the process may stop.                    *)
(*                                                                         *)
(* Time is kept as ages and remaining times, so that it has no bound.      *)
(***************************************************************************)
EXTENDS Integers, FiniteSets

CONSTANTS Requests,  \* attempts that can be in flight at the same time
          Free,      \* REGISTRATION_RATE_FREE_ATTEMPTS
          Base, Cap, \* REGISTRATION_RATE_LIMIT_BASE and _MAX, in ticks
          Overflow,  \* first count whose delay overflows a float: 1021
          MaxCrashes \* bound: attempts of one key that stop half way

(* 2 ** n, as a recursive function, whose equations can be reasoned with.  *)
Power[n \in Nat] == IF n = 0 THEN 1 ELSE 2 * Power[n - 1]

ASSUME RequestsAssumption == IsFiniteSet(Requests)
ASSUME NumbersAssumption ==
  /\ {Free, Cap, Overflow, MaxCrashes} \subseteq Nat \ {0} /\ Free < Overflow
  /\ Base \in Nat /\ Base \div Power[Free - 1] \in 1..Cap

VARIABLES count, \* the key's value, 0 if it does not exist; Overflow stands for all above
          ttl,   \* its remaining time to live, 0 for none
          req,   \* the attempts in flight
          ages,  \* history: ages of the last Free admissions, up to Window
          told,  \* history: time left of the latest Retry-After, 0 for none
          crashed \* history: attempts of this key that stopped half way
vars == <<count, ttl, req, ages, told, crashed>>

(* A variant that forgets the maximum.                                     *)
Uncapped(n) == (Base * Power[n]) \div Power[Free]

(* min(int(base * 2 ** (attempts - free)), max)                            *)
Delay(n) == IF Uncapped(n) > Cap THEN Cap ELSE Uncapped(n)
Window == Delay(1)

(* The time to live EXPIRE leaves, and the delay the 429 answer gives;     *)
(* variants: only the first attempt sets it, the answer is one step behind.*)
FirstExpires(n, t) == IF n = 1 THEN Delay(n) ELSE t
Expires(n, t) == Delay(n)
RetryBefore(n) == Delay(n - 1)
RetryAfter(n) == Delay(n)

Idle == [pc |-> "idle", n |-> 0, live |-> FALSE]
InFlight == {r \in Requests : req[r].pc = "counted"}

Init == /\ count = 0 /\ ttl = 0
        /\ req = [r \in Requests |-> Idle]
        /\ ages = [i \in 1..Free |-> Window]
        /\ told = 0 /\ crashed = 0

(* INCR keeps the time to live.  live: the key it counted in still exists. *)
Count(r) ==
  /\ req[r].pc = "idle"
  /\ count' = IF count = Overflow THEN Overflow ELSE count + 1
  /\ req' = [req EXCEPT ![r] = [pc |-> "counted", n |-> count', live |-> TRUE]]
  /\ told' = 0
  /\ UNCHANGED <<ttl, ages, crashed>>

(* EXPIRE, if the key still exists, and the answer: the attempt is         *)
(* admitted or refused.                                                    *)
Admitted(r) == req[r].n <= Free
Answer(r) ==
  /\ req[r].pc = "counted" /\ req[r].n < Overflow
  /\ ttl' = IF count = 0 THEN 0 ELSE Expires(req[r].n, ttl)
  /\ ages' = IF Admitted(r) /\ req[r].live
             THEN [i \in 1..Free |-> IF i = Free THEN 0 ELSE ages[i + 1]]
             ELSE ages
  /\ told' = IF Admitted(r) \/ InFlight # {r} THEN 0 ELSE RetryAfter(req[r].n)
  /\ req' = [req EXCEPT ![r] = Idle]
  /\ UNCHANGED <<count, crashed>>

(* The delay overflows: OverflowError, answered 500, and no EXPIRE.        *)
Overflows(r) ==
  /\ req[r].pc = "counted" /\ req[r].n = Overflow
  /\ req' = [req EXCEPT ![r] = Idle]
  /\ UNCHANGED <<count, ttl, ages, told, crashed>>

(* The process or its connection fails between INCR and EXPIRE.            *)
Crash(r) ==
  /\ req[r].pc = "counted"
  /\ req[r].live => crashed < MaxCrashes
  /\ crashed' = IF req[r].live THEN crashed + 1 ELSE crashed
  /\ req' = [req EXCEPT ![r] = Idle]
  /\ UNCHANGED <<count, ttl, ages, told>>

(* Time passes; Redis deletes the key when its time to live is over.       *)
Tick ==
  /\ ages' = [i \in 1..Free |-> IF ages[i] < Window THEN ages[i] + 1 ELSE Window]
  /\ told' = IF told > 0 THEN told - 1 ELSE 0
  /\ ttl' = IF ttl > 0 THEN ttl - 1 ELSE 0
  /\ IF ttl = 1
     THEN /\ count' = 0 /\ crashed' = 0
          /\ req' = [r \in Requests |-> [req[r] EXCEPT !.live = FALSE]]
     ELSE UNCHANGED <<count, req, crashed>>

Next == \/ \E r \in Requests : Count(r) \/ Answer(r) \/ Overflows(r) \/ Crash(r)
        \/ Tick

Spec == Init /\ [][Next]_vars

-----------------------------------------------------------------------------
(* The state is well typed: a time to live is never longer than the        *)
(* maximum, and belongs to a key that exists.                              *)
TypeOK ==
  /\ count \in 0..Overflow
  /\ ttl \in 0..Cap /\ (ttl > 0 => count > 0)
  /\ req \in [Requests -> [pc: {"idle", "counted"}, n: 0..Overflow, live: BOOLEAN]]
  /\ ages \in [1..Free -> 0..Window]
  /\ told \in 0..Cap /\ crashed \in 0..MaxCrashes

(* The limiter limits: one more than Free attempts are never admitted      *)
(* within the shortest delay, as long as each answers while the key it     *)
(* counted in exists, however the INCRs and EXPIREs interleave.            *)
SlidingWindow ==
  [][\A r \in Requests :
       (Answer(r) /\ Admitted(r) /\ req[r].live) => ages[1] = Window]_vars

(* A key without a time to live, which Redis would keep for ever, has had  *)
(* no attempt that was answered: all of them are in flight or stopped half *)
(* way, and the next one that is answered gives it one.                    *)
OnlyUnanswered ==
  (count > 0 /\ ttl = 0)
    => count <= crashed + Cardinality({r \in InFlight : req[r].live})

(* Crashes lock nobody out: a key that counts too far to be given a time   *)
(* to live again has one.                                                  *)
NotLockedOut == count = Overflow => ttl > 0

(* Retry-After is honest: nobody else trying, the key is gone when the     *)
(* time the last refused client was told to wait is over.                  *)
RetryAfterHonoured == (told > 0 /\ count > 0) => ttl \in 1..told
=============================================================================
