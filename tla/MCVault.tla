------------------------------- MODULE MCVault -------------------------------
(* Two callers and two passwords. *)
EXTENDS Vault, TLC

CONSTANTS c1, c2, p, q

Symmetric == Permutations(Callers) \cup Permutations(Passwords)
=============================================================================
