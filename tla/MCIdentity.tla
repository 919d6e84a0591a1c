----------------------------- MODULE MCIdentity -----------------------------
(* Model values and symmetry for Identity. *)
EXTENDS Identity, TLC

Symmetry == Permutations(Requests) \union Permutations(Passwords)
=============================================================================
