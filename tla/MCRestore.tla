------------------------------ MODULE MCRestore ------------------------------
(* Two emails of different sizes, selections of one or both, and a cache   *)
(* that holds one of them at a time.                                       *)
EXTENDS Restore, TLC

CONSTANTS a, b

SizeAB   == (a :> 1) @@ (b :> 2)
OneOrTwo == {<<b>>, <<a, b>>}
=============================================================================
