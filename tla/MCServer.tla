------------------------------ MODULE MCServer ------------------------------
(* Small instances of Server. *)
EXTENDS Server, TLC

CONSTANTS a1, r1, r2, e1, e2

OneAccount == {a1}
TwoRuns == {r1, r2}
OneEmail == {e1}
=============================================================================
