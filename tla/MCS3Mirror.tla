----------------------------- MODULE MCS3Mirror -----------------------------
(* Small instances of S3Mirror. *)
EXTENDS S3Mirror, TLC

CONSTANTS e1, e2, w1, w2, r1, r2, q1, q2, d1, d2

OneEmail == {e1}
TwoEmails == {e1, e2}
TwoWorkers == {w1, w2}
NoRunners == {}
TwoRunners == {r1, r2}
OneRequest == {q1}
TwoRequests == {q1, q2}
TwoDirs == {d1, d2}

(* Every message has its own content, and its file its own base name. *)
OwnKey  == [e \in Emails |-> e]
OwnName == [e \in Emails |-> e]
InDir1  == [e \in Emails |-> d1]

(* Nothing in these sets has an order; used with safety properties only. *)
Symmetry == Permutations(Emails) \cup Permutations(Workers)
                \cup Permutations(Runners) \cup Permutations(Requests)
=============================================================================
