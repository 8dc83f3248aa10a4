--------------------------- MODULE MCMailboxSync ---------------------------
(* Small instances of MailboxSync. *)
EXTENDS MailboxSync, TLC

CONSTANTS f1, f2, m1, m2, j1, j2

TwoFolders == {f1, f2}
OneFolder == {f1}
TwoJobs == {j1, j2}
OneJob == {j1}
TwoMessages == {m1, m2}

(* One Maildir directory per folder. *)
OwnDirectory == [f \in Folders |-> f]

(* m1 has a Message-ID, m2 has none. *)
OneBlank == (m1 :> "id1") @@ (m2 :> "")

(* Jobs are interchangeable; used with safety properties only. *)
JobSymmetry == Permutations(Jobs)
=============================================================================
