---------------------------- MODULE MCRegistration ----------------------------
(* Instances of Registration for TLC. *)
EXTENDS Registration, TLC

(* Nothing tells the elements of each set apart.                           *)
Symmetry == Permutations(Emails) \cup Permutations(Tokens)
              \cup Permutations(Accounts) \cup Permutations(Requests)
=============================================================================
