--------------------------- MODULE MCCredentials ---------------------------
(* Instances of Credentials for TLC. *)
EXTENDS Credentials, TLC

(* Requests and tokens are interchangeable.                                *)
Symmetry == Permutations(Requests) \cup Permutations(Tokens)
=============================================================================
