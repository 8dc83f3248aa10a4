---------------------------- MODULE MCCursorSync ----------------------------
(* Small instances of CursorSync. *)
EXTENDS CursorSync, TLC

CONSTANTS m1, m2, j1, j2

TwoMessages == {m1, m2}
TwoJobs == {j1, j2}
OneJob == {j1}
TwoFolders == {"Inbox", Trash}

(* Each message has its own Message-ID. *)
AllNamed == (m1 :> "id1") @@ (m2 :> "id2")

JobSymmetry == Permutations(Jobs)
=============================================================================
