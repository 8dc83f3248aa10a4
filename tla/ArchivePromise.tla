--------------------------- MODULE ArchivePromise ---------------------------
(***************************************************************************)
(* What an archiver promises about one account, whatever the schedule of   *)
(* its synchronisation runs: the readable archive only grows, and a        *)
(* message disappears from the source mailbox on the archiver's account    *)
(* only when a readable copy of it is already in the archive.              *)
(* MailboxSync implements this specification.                              *)
(***************************************************************************)
CONSTANTS Messages,     \* message contents
          MessageId     \* the Message-ID header of each message, "" when absent

VARIABLES stored,       \* the messages a reader of the archive can open
          purged        \* the messages the archiver deleted at the source

Covers(m, n) == m = n \/ (MessageId[m] # "" /\ MessageId[m] = MessageId[n])

Init == stored = {} /\ purged = {}

Keep(m) ==
    /\ stored' = stored \cup {m}
    /\ UNCHANGED purged

Purge(m) ==
    /\ \E n \in stored : Covers(n, m)
    /\ purged' = purged \cup {m}
    /\ UNCHANGED stored

Next == \E m \in Messages : Keep(m) \/ Purge(m)

Spec == Init /\ [][Next]_<<stored, purged>>
=============================================================================
