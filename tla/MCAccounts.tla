----------------------------- MODULE MCAccounts -----------------------------
(* Small instances of Accounts. *)
EXTENDS Accounts, TLC

CONSTANTS r1, r2, j1, j2, m1

TwoRequests == {r1, r2}
TwoJobs == {j1, j2}
OneMessage == {m1}
Symmetry == Permutations(Requests) \cup Permutations(Jobs)
=============================================================================
