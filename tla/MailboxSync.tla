----------------------------- MODULE MailboxSync -----------------------------
(***************************************************************************)
(* Synchronisation of one IMAP account into the archive: SyncAccount,      *)
(* SyncFolders, FetchNewMessages and ArchiveOne of internal/sync, the      *)
(* Maildir writer they store through and the folders/emails rows they      *)
(* commit.  A job is one SyncAccount call; cron, the web UI and the CLI    *)
(* start them independently, so several may run at once.                   *)
(*                                                                         *)
(* Maildir files live in two maps from a path to the content: tmp/ and     *)
(* new/.  A path is <<directory, second, counter>>, what is left of        *)
(* {unix_sec}.{pid}_{counter}.{host} inside one process.                   *)
(*                                                                         *)
(* The search index write and the s3_upload_queue insert that ArchiveOne   *)
(* also makes are outside this module.                                     *)
(***************************************************************************)
EXTENDS Naturals, FiniteSets

CONSTANTS
    Folders,            \* IMAP folder names
    Directory,          \* SafeFolderName of each folder
    Messages,           \* message contents
    MessageId,          \* the Message-ID header of each message, "" when absent
    NoMsg,              \* no message
    Jobs,               \* SyncAccount calls that may overlap
    Seconds,            \* seconds in which a maildir.Writer may name its files
    DistinctSeconds,    \* TRUE: the clock never gives two Writers the same names
    UidPlus,            \* the server supports UID EXPUNGE
    MaxUid,             \* bound: UIDs the server assigns in a folder
    MaxMail,            \* bound: UIDs it assigns in all folders, as they are numbered now
    MaxValidity,        \* bound: UIDVALIDITY values of a folder
    MaxFaults           \* bound: failures, crashes, sweeps, deletions, renumberings

Uids    == 1 .. MaxUid
Paths   == {Directory[f] : f \in Folders} \X Seconds \X Uids
Actions == {"skip", "archive", "archive_and_delete"}

ASSUME MessagesAssumption ==
    /\ NoMsg \notin Messages
    /\ MessageId \in [Messages -> STRING]
    /\ Folders # {}

ASSUME BoundsAssumption ==
    /\ MaxUid \in Nat /\ MaxMail \in Nat /\ MaxValidity \in Nat \ {0} /\ MaxFaults \in Nat
    /\ Seconds \subseteq Nat \ {0}
    /\ DistinctSeconds \in BOOLEAN /\ UidPlus \in BOOLEAN

VARIABLES
    server,     \* server[f][u]: the message the IMAP server holds at UID u
    uidNext,    \* the server's UIDNEXT
    validity,   \* the server's UIDVALIDITY
    flagged,    \* UIDs carrying \Deleted on the server
    folders,    \* the folders table
    emails,     \* the emails table
    tmp, new,   \* the Maildir files
    job,        \* the running SyncAccount calls
    skipped,    \* history: messages a rule kept out of the archive
    purged,     \* history: messages a job's EXPUNGE removed, and who flagged them
    faults      \* such events so far

serverVars == <<server, uidNext, validity, flagged>>
vars == <<serverVars, folders, emails, tmp, new, job, skipped, purged, faults>>

NoBatch == [u \in Uids |-> NoMsg]
NoFiles == [p \in Paths |-> NoMsg]

(* A job between two folders: maildir.NewWriter starts its counter at 0. *)
Between(pc, todo, last) ==
    [pc |-> pc, todo |-> todo, last |-> last,
     folder |-> CHOOSE f \in Folders : TRUE, batch |-> NoBatch, validity |-> 0,
     uid |-> 0, rule |-> "archive", second |-> 0, counter |-> 0]

Idle == Between("idle", {}, [f \in Folders |-> 0])

Init ==
    /\ server = [f \in Folders |-> NoBatch]
    /\ uidNext = [f \in Folders |-> 1]
    /\ validity = [f \in Folders |-> 1]
    /\ flagged = [f \in Folders |-> {}]
    /\ folders = [f \in Folders |-> [uidvalidity |-> 0, lastUid |-> 0, enabled |-> TRUE]]
    /\ emails = {}
    /\ tmp = NoFiles /\ new = NoFiles
    /\ job = [j \in Jobs |-> Idle]
    /\ skipped = {} /\ purged = {} /\ faults = 0

------------------------------------------------------------------------------
(* The message a job holds and the file it stores it in. *)
Held(j)   == job[j].batch[job[j].uid]
PathOf(j) == <<Directory[job[j].folder], job[j].second, job[j].counter>>

(* ExistsByAccountMessageID; a blank Message-ID is never looked up. *)
IsDuplicate(m) ==
    /\ MessageId[m] # ""
    /\ \E e \in emails : MessageId[e.msg] = MessageId[m]

(* Mutant of Advance: the watermark names the next UID, not the last one. *)
AdvanceToNext(f, u) ==
    folders' = IF folders[f].lastUid < u + 1
               THEN [folders EXCEPT ![f] = [folders[f] EXCEPT !.lastUid = u + 1]] ELSE folders

(* UpdateLastUID: the watermark never goes back. *)
Advance(f, u) ==
    folders' = IF folders[f].lastUid < u
               THEN [folders EXCEPT ![f] = [folders[f] EXCEPT !.lastUid = u]] ELSE folders

(* The job moves to pc, still on the same message. *)
Step(j, pc) == job' = [job EXCEPT ![j] = [job[j] EXCEPT !.pc = pc]]

(* The job is done with its message: folder.LastUID = msg.Uid, next one. *)
Passed(j) ==
    [job[j] EXCEPT !.pc = "fetch", !.uid = 0, !.rule = "archive",
                   !.last = [job[j].last EXCEPT ![job[j].folder] = job[j].uid],
                   !.batch = [job[j].batch EXCEPT ![job[j].uid] = NoMsg]]

NextMessage(j) == job' = [job EXCEPT ![j] = Passed(j)]

Fault == faults < MaxFaults /\ faults' = faults + 1

------------------------------------------------------------------------------
(* SyncAccount connects and lists the account's folders. *)
StartSync(j) ==
    /\ job[j].pc = "idle"
    /\ job' = [job EXCEPT ![j] = Between("list", Folders, job[j].last)]
    /\ UNCHANGED <<serverVars, folders, emails, tmp, new, skipped, purged, faults>>

(* SyncFolders: STATUS, then UpsertFolder; the job keeps the returned row. *)
Upsert(j, f) ==
    /\ job[j].pc = "list" /\ f \in job[j].todo
    /\ LET last == IF folders[f].uidvalidity = validity[f] THEN folders[f].lastUid ELSE 0
           rest == job[j].todo \ {f}
       IN  /\ folders' = [folders EXCEPT ![f] = [uidvalidity |-> validity[f], lastUid |-> last,
                                              enabled |-> folders[f].enabled]]
           /\ job' = [job EXCEPT ![j] = Between(IF rest = {} THEN "pick" ELSE "list",
                                                IF rest = {} THEN Folders ELSE rest,
                                                [job[j].last EXCEPT ![f] = last])]
    /\ UNCHANGED <<serverVars, emails, tmp, new, skipped, purged, faults>>

(* UID FETCH start:*.  "*" is the highest UID present, and a range matches  *)
(* in either direction, so the last message is returned even below start.   *)
Fetched(f, start) ==
    [u \in Uids |->
        IF u >= start \/ \A v \in Uids : v > u => server[f][v] = NoMsg
        THEN server[f][u] ELSE NoMsg]

(* The second a new Writer names its files in.  The code reads the clock    *)
(* for each file; all that matters here is whether two Writers ever use the *)
(* same second, so one stands for all of a Writer's.  The name of an orphan *)
(* may come back, as no row refers to it.                                   *)
WriterSeconds ==
    LET free == {s \in Seconds : /\ \A e \in emails : e.path[2] # s
                                 /\ \A j \in Jobs : job[j].second # s}
    IN  IF DistinctSeconds THEN {s \in free : \A t \in free : s <= t} ELSE Seconds

(* Mutant of HasNew: the newest UID taken for UIDNEXT. *)
HasNewOffByOne(j, f) == job[j].last[f] + 2 < uidNext[f]

(* startUID < UidNext. *)
HasNew(j, f) == job[j].last[f] + 1 < uidNext[f]

(* FetchNewMessages: a folder with sync switched off or nothing new. *)
NothingNew(j, f) ==
    /\ job[j].pc = "pick" /\ f \in job[j].todo
    /\ ~(folders[f].enabled /\ HasNew(j, f))
    /\ job' = [job EXCEPT ![j] = [job[j] EXCEPT !.todo = job[j].todo \ {f}]]
    /\ UNCHANGED <<serverVars, folders, emails, tmp, new, skipped, purged, faults>>

(* A job in folder f, with a new Writer and the channel UID FETCH fills. *)
InFolder(j, f, s) ==
    [pc |-> "fetch", todo |-> job[j].todo \ {f}, last |-> job[j].last,
     folder |-> f, batch |-> Fetched(f, job[j].last[f] + 1), validity |-> validity[f],
     uid |-> 0, rule |-> "archive", second |-> s, counter |-> 0]

(* FetchNewMessages: SELECT, then UID FETCH from the job's own LastUID. *)
Select(j, f) ==
    /\ job[j].pc = "pick" /\ f \in job[j].todo
    /\ folders[f].enabled /\ HasNew(j, f)
    /\ \E s \in WriterSeconds :
        job' = [job EXCEPT ![j] = InFolder(j, f, s)]
    /\ UNCHANGED <<serverVars, folders, emails, tmp, new, skipped, purged, faults>>

(* The channel is drained: on to the next folder. *)
FolderDone(j) ==
    /\ job[j].pc = "fetch" /\ job[j].batch = NoBatch
    /\ job' = [job EXCEPT ![j] = Between("pick", job[j].todo, job[j].last)]
    /\ UNCHANGED <<serverVars, folders, emails, tmp, new, skipped, purged, faults>>

EndSync(j) ==
    /\ job[j].pc = "pick" /\ job[j].todo = {}
    /\ job' = [job EXCEPT ![j] = Idle]
    /\ UNCHANGED <<serverVars, folders, emails, tmp, new, skipped, purged, faults>>

(* Mutant of Examine: the duplicate check looks at the message's folder only. *)
ExamineFolderScope(j) ==
    /\ job[j].pc = "fetch"
    /\ \E u \in Uids, rule \in Actions :
        /\ job[j].batch[u] # NoMsg
        /\ \A v \in Uids : v < u => job[j].batch[v] = NoMsg
        /\ job' = [job EXCEPT ![j] = [job[j] EXCEPT !.uid = u, !.rule = rule,
                    !.pc = IF rule = "skip" THEN "skip"
                              ELSE IF \E e \in emails : /\ e.folder = job[j].folder
                                                        /\ MessageId[e.msg] =
                                                              MessageId[job[j].batch[u]]
                              THEN "dup" ELSE "stage"]]
    /\ UNCHANGED <<serverVars, folders, emails, tmp, new, skipped, purged, faults>>

(* The next message in UID order, and what its rule and the duplicate check *)
(* make of it.  Rules are edited at run time, so any action may apply.      *)
Examine(j) ==
    /\ job[j].pc = "fetch"
    /\ \E u \in Uids, rule \in Actions :
        /\ job[j].batch[u] # NoMsg
        /\ \A v \in Uids : v < u => job[j].batch[v] = NoMsg
        /\ job' = [job EXCEPT ![j] = [job[j] EXCEPT !.uid = u, !.rule = rule,
                    !.pc = IF rule = "skip" THEN "skip"
                           ELSE IF IsDuplicate(job[j].batch[u]) THEN "dup" ELSE "stage"]]
    /\ UNCHANGED <<serverVars, folders, emails, tmp, new, skipped, purged, faults>>

(* skipOne for a rule's skip. *)
SkipByRule(j) ==
    /\ job[j].pc = "skip"
    /\ Advance(job[j].folder, job[j].uid)
    /\ skipped' = skipped \cup {[folder |-> job[j].folder, validity |-> job[j].validity,
                                 uid |-> job[j].uid]}
    /\ NextMessage(j)
    /\ UNCHANGED <<serverVars, emails, tmp, new, purged, faults>>

(* skipOne for a duplicate; the rule's side effect still follows. *)
SkipDuplicate(j) ==
    /\ job[j].pc = "dup"
    /\ Advance(job[j].folder, job[j].uid)
    /\ Step(j, "effect")
    /\ UNCHANGED <<serverVars, emails, tmp, new, skipped, purged, faults>>

(* Writer.Stage: O_CREATE|O_EXCL in tmp/ under the Writer's next name. *)
Stage(j) ==
    LET p == <<Directory[job[j].folder], job[j].second, job[j].counter + 1>>
    IN  /\ job[j].pc = "stage"
        /\ IF tmp[p] = NoMsg
           THEN /\ tmp' = [tmp EXCEPT ![p] = Held(j)]
                /\ job' = [job EXCEPT ![j] = [job[j] EXCEPT !.pc = "commit",
                                                              !.counter = job[j].counter + 1]]
           ELSE /\ job' = [job EXCEPT ![j] = Idle]
                /\ UNCHANGED tmp
        /\ UNCHANGED <<serverVars, folders, emails, new, skipped, purged, faults>>

(* Mutant of Commit: a failed rename is not noticed. *)
CommitUnchecked(j) ==
    /\ job[j].pc = "commit"
    /\ new' = [new EXCEPT ![PathOf(j)] = tmp[PathOf(j)]]
    /\ tmp' = [tmp EXCEPT ![PathOf(j)] = NoMsg]
    /\ Step(j, "persist")
    /\ UNCHANGED <<serverVars, folders, emails, skipped, purged, faults>>

(* Mutant of Commit: a failed message is passed over, not stopped at. *)
CommitSkipsFailed(j) ==
    /\ job[j].pc = "commit"
    /\ IF tmp[PathOf(j)] # NoMsg
       THEN /\ new' = [new EXCEPT ![PathOf(j)] = tmp[PathOf(j)]]
            /\ tmp' = [tmp EXCEPT ![PathOf(j)] = NoMsg]
            /\ Step(j, "persist")
       ELSE /\ NextMessage(j)
            /\ UNCHANGED <<tmp, new>>
    /\ UNCHANGED <<serverVars, folders, emails, skipped, purged, faults>>

(* Mutant of Commit: the rule's side effect runs although nothing was kept. *)
CommitThenEffect(j) ==
    /\ job[j].pc = "commit"
    /\ IF tmp[PathOf(j)] # NoMsg
       THEN /\ new' = [new EXCEPT ![PathOf(j)] = tmp[PathOf(j)]]
            /\ tmp' = [tmp EXCEPT ![PathOf(j)] = NoMsg]
            /\ Step(j, "persist")
       ELSE /\ Step(j, "effect")
            /\ UNCHANGED <<tmp, new>>
    /\ UNCHANGED <<serverVars, folders, emails, skipped, purged, faults>>

(* Writer.Commit: rename into new/, replacing what has the name; it fails,  *)
(* and the run with it, when a sweep took the staged file away.             *)
Commit(j) ==
    /\ job[j].pc = "commit"
    /\ IF tmp[PathOf(j)] # NoMsg
       THEN /\ new' = [new EXCEPT ![PathOf(j)] = tmp[PathOf(j)]]
            /\ tmp' = [tmp EXCEPT ![PathOf(j)] = NoMsg]
            /\ Step(j, "persist")
       ELSE /\ job' = [job EXCEPT ![j] = Idle]
            /\ UNCHANGED <<tmp, new>>
    /\ UNCHANGED <<serverVars, folders, emails, skipped, purged, faults>>

UidTaken(f, u) == \E e \in emails : e.folder = f /\ e.uid = u

InsertRow(j) ==
    /\ ~UidTaken(job[j].folder, job[j].uid)
    /\ emails' = emails \cup {[folder |-> job[j].folder, uid |-> job[j].uid,
                               msg |-> Held(j), path |-> PathOf(j)]}
    /\ Advance(job[j].folder, job[j].uid)

(* The transaction of ArchiveOne: emails row and last_uid together. *)
Persist(j) ==
    /\ job[j].pc = "persist"
    /\ InsertRow(j)
    /\ Step(j, "effect")
    /\ UNCHANGED <<serverVars, tmp, new, skipped, purged, faults>>

(* UNIQUE(account_id, folder_id, uid) refuses the row: the run fails and    *)
(* the committed file stays behind as an orphan.                            *)
PersistConflict(j) ==
    /\ job[j].pc = "persist"
    /\ UidTaken(job[j].folder, job[j].uid)
    /\ job' = [job EXCEPT ![j] = Idle]
    /\ UNCHANGED <<serverVars, folders, emails, tmp, new, skipped, purged, faults>>

(* writer.Do gives up on its context while the transaction still commits. *)
PersistUnreported(j) ==
    /\ job[j].pc = "persist"
    /\ InsertRow(j) /\ Fault
    /\ job' = [job EXCEPT ![j] = Idle]
    /\ UNCHANGED <<serverVars, tmp, new, skipped, purged>>

(* The server drops the messages of folder f at the UIDs of gone. *)
Remove(f, gone) ==
    /\ server' = [server EXCEPT ![f] = [u \in Uids |-> IF u \in gone THEN NoMsg ELSE server[f][u]]]
    /\ flagged' = [flagged EXCEPT ![f] = flagged[f] \ gone]
    /\ UNCHANGED <<uidNext, validity>>

(* applyPostArchiveRuleAction.  archive_and_mark_read changes nothing that  *)
(* is modelled.  The session is gone once UIDVALIDITY has changed.          *)
RuleEffect(j) ==
    LET f == job[j].folder
        u == job[j].uid
        live == job[j].rule = "archive_and_delete" /\ job[j].validity = validity[f]
                /\ server[f][u] # NoMsg
        gone == IF UidPlus THEN {u} ELSE flagged[f] \cup {u}
    IN  /\ job[j].pc = "effect"
        /\ IF live
           THEN /\ Remove(f, gone)
                /\ purged' = purged \cup {[msg |-> server[f][v], own |-> v = u] : v \in gone}
           ELSE UNCHANGED <<serverVars, purged>>
        /\ NextMessage(j)
        /\ UNCHANGED <<folders, emails, tmp, new, skipped, faults>>

(* DeleteMessage fails, after the STORE or before it; the sync goes on. *)
RuleEffectFails(j) ==
    LET f == job[j].folder
        u == job[j].uid
    IN  /\ job[j].pc = "effect" /\ job[j].rule = "archive_and_delete"
        /\ Fault
        /\ \/ UNCHANGED flagged
           \/ /\ job[j].validity = validity[f] /\ server[f][u] # NoMsg
              /\ flagged' = [flagged EXCEPT ![f] = flagged[f] \cup {u}]
        /\ NextMessage(j)
        /\ UNCHANGED <<server, uidNext, validity, folders, emails, tmp, new, skipped, purged>>

(* Any other failure or a cancelled context: the whole run stops.  A staged *)
(* file whose rename failed is discarded.                                   *)
FailSync(j) ==
    /\ job[j].pc \notin {"idle", "effect"}
    /\ Fault
    /\ job' = [job EXCEPT ![j] = Idle]
    /\ tmp' = IF job[j].pc = "commit" THEN [tmp EXCEPT ![PathOf(j)] = NoMsg] ELSE tmp
    /\ UNCHANGED <<serverVars, folders, emails, new, skipped, purged>>

------------------------------------------------------------------------------
(* The process dies; the next start sweeps tmp/. *)
CrashAndRestart ==
    /\ \E j \in Jobs : job[j].pc # "idle"
    /\ Fault
    /\ job' = [j \in Jobs |-> Idle]
    /\ tmp' = NoFiles
    /\ UNCHANGED <<serverVars, folders, emails, new, skipped, purged>>

(* Another marchi command starts and runs SweepAll while jobs are running. *)
SweepByCommand ==
    /\ tmp # NoFiles
    /\ Fault
    /\ tmp' = NoFiles
    /\ UNCHANGED <<serverVars, folders, emails, new, job, skipped, purged>>

(* A user moves mail into a folder name not seen before: GetOrCreateManual. *)
CreateManualFolder(f) ==
    /\ folders[f].uidvalidity = 0 /\ folders[f].enabled
    /\ folders' = [folders EXCEPT ![f] = [folders[f] EXCEPT !.enabled = FALSE]]
    /\ UNCHANGED <<serverVars, emails, tmp, new, job, skipped, purged, faults>>

(* The mail server and its other clients. *)
Deliver(f, m) ==
    /\ uidNext[f] <= MaxUid
    /\ Cardinality({p \in Folders \X Uids : p[2] < uidNext[p[1]]}) < MaxMail
    /\ server' = [server EXCEPT ![f] = [server[f] EXCEPT ![uidNext[f]] = m]]
    /\ uidNext' = [uidNext EXCEPT ![f] = uidNext[f] + 1]
    /\ UNCHANGED <<validity, flagged, folders, emails, tmp, new, job, skipped, purged, faults>>

FlagByOther(f, u) ==
    /\ server[f][u] # NoMsg /\ u \notin flagged[f]
    /\ Fault
    /\ flagged' = [flagged EXCEPT ![f] = flagged[f] \cup {u}]
    /\ UNCHANGED <<server, uidNext, validity, folders, emails, tmp, new, job, skipped, purged>>

ExpungeByOther(f) ==
    /\ flagged[f] # {}
    /\ Remove(f, flagged[f])
    /\ UNCHANGED <<folders, emails, tmp, new, job, skipped, purged, faults>>

(* The folder is deleted and made again on the server: UIDs restart. *)
Recreate(f) ==
    /\ validity[f] < MaxValidity /\ Fault
    /\ validity' = [validity EXCEPT ![f] = validity[f] + 1]
    /\ uidNext' = [uidNext EXCEPT ![f] = 1]
    /\ server' = [server EXCEPT ![f] = NoBatch]
    /\ flagged' = [flagged EXCEPT ![f] = {}]
    /\ UNCHANGED <<folders, emails, tmp, new, job, skipped, purged>>

Environment ==
    \/ CrashAndRestart \/ SweepByCommand
    \/ \E f \in Folders : \/ CreateManualFolder(f) \/ Recreate(f) \/ ExpungeByOther(f)
                          \/ \E m \in Messages : Deliver(f, m)
                          \/ \E u \in Uids : FlagByOther(f, u)

(* The steps a job takes by itself, and those a failure forces on it. *)
Work(j) ==
    \/ StartSync(j) \/ EndSync(j) \/ FolderDone(j) \/ Examine(j)
    \/ \E f \in Folders : Upsert(j, f) \/ NothingNew(j, f) \/ Select(j, f)
    \/ SkipByRule(j) \/ SkipDuplicate(j) \/ Stage(j) \/ Commit(j)
    \/ Persist(j) \/ PersistConflict(j) \/ RuleEffect(j)

Failure(j) == PersistUnreported(j) \/ RuleEffectFails(j) \/ FailSync(j)

Next == Environment \/ \E j \in Jobs : Work(j) \/ Failure(j)

Spec == Init /\ [][Next]_vars

(* Cron ticks for as long as the server runs, and a run that has started    *)
(* goes on: nothing it does waits for another job.                          *)
FairSpec == Spec /\ \A j \in Jobs : WF_vars(Work(j))
------------------------------------------------------------------------------
(* Where a job is: between folders, in a folder, on a message of it. *)
MessagePcs == {"skip", "dup", "stage", "commit", "persist", "effect"}
FolderPcs  == {"fetch"} \cup MessagePcs

JobRecords ==
    [pc : {"idle", "list", "pick"} \cup FolderPcs, todo : SUBSET Folders,
     last : [Folders -> 0 .. MaxUid], folder : Folders,
     batch : [Uids -> Messages \cup {NoMsg}], validity : 0 .. MaxValidity,
     uid : 0 .. MaxUid, rule : Actions, second : Seconds \cup {0}, counter : 0 .. MaxUid]

TypeOK ==
    /\ server \in [Folders -> [Uids -> Messages \cup {NoMsg}]]
    /\ uidNext \in [Folders -> 1 .. MaxUid + 1]
    /\ validity \in [Folders -> 1 .. MaxValidity]
    /\ flagged \in [Folders -> SUBSET Uids]
    /\ folders \in [Folders -> [uidvalidity : 0 .. MaxValidity, lastUid : 0 .. MaxUid,
                                enabled : BOOLEAN]]
    /\ emails \subseteq [folder : Folders, uid : Uids, msg : Messages, path : Paths]
    /\ tmp \in [Paths -> Messages \cup {NoMsg}]
    /\ new \in [Paths -> Messages \cup {NoMsg}]
    /\ job \in [Jobs -> JobRecords]
    /\ skipped \subseteq [folder : Folders, validity : 1 .. MaxValidity, uid : Uids]
    /\ purged \subseteq [msg : Messages, own : BOOLEAN]
    /\ faults \in 0 .. MaxFaults

(* m and n are one message to the archive: the same content, or one         *)
(* Message-ID, which is all the duplicate check looks at.                   *)
Covers(m, n) == m = n \/ (MessageId[m] # "" /\ MessageId[m] = MessageId[n])

(* The archive holds m, or what it takes for m. *)
Archived(m) == \E e \in emails : Covers(e.msg, m)

(* The row of every archived email leads to a file that is there and holds  *)
(* that email: what the order Stage, Commit, SQL of ArchiveOne is for.      *)
RowsReadable == \A e \in emails : new[e.path] = e.msg

(* Nothing at or below last_uid is lost: last_uid is one watermark, so any  *)
(* message it has passed, and the server still holds, is in the archive or  *)
(* was skipped by a rule.  Stopping at the first failure is for this.       *)
NothingBelowWatermarkLost ==
    \A f \in Folders, u \in Uids :
        /\ server[f][u] # NoMsg
        /\ folders[f].uidvalidity = validity[f]
        /\ u <= folders[f].lastUid
        => \/ Archived(server[f][u])
           \/ [folder |-> f, validity |-> validity[f], uid |-> u] \in skipped

(* archive_and_delete removes from the server only what the archive has: a  *)
(* message a job's own EXPUNGE aimed at is readable in the archive.         *)
PurgedIsArchived ==
    \A p \in purged : p.own => \E e \in emails : Covers(e.msg, p.msg) /\ new[e.path] = e.msg

(* A Message-ID is archived once per account, however often the message     *)
(* comes back under a new UID or in another folder.                         *)
NoDuplicateRows ==
    \A e, d \in emails : MessageId[e.msg] # "" /\ MessageId[e.msg] = MessageId[d.msg] => e = d

(* A message is gone from the server, in a folder that is not synced, in    *)
(* the archive, or passed over by a rule.                                   *)
Reached(f, u) ==
    \/ server[f][u] = NoMsg
    \/ ~folders[f].enabled
    \/ Archived(server[f][u])
    \/ [folder |-> f, validity |-> validity[f], uid |-> u] \in skipped

(* A run that comes to folder f fetches a message that no duplicate check   *)
(* passes over and whose UID a row has: one the folder was renumbered to,   *)
(* or the last one again, below start, which has no Message-ID.             *)
Refused(f) ==
    LET last == IF folders[f].uidvalidity = validity[f] THEN folders[f].lastUid ELSE 0 IN
    /\ folders[f].enabled /\ last + 1 < uidNext[f]
    /\ \E u \in Uids : /\ Fetched(f, last + 1)[u] # NoMsg
                       /\ UidTaken(f, u) /\ ~IsDuplicate(server[f][u])

(* A message that stays on the server is reached in the end, whatever       *)
(* failed on the way.  The one thing that stops the sync for good, of       *)
(* every folder it has not come to, is a folder that is refused: its first  *)
(* error ends the run (account.go:174-178).                                 *)
EveryMessageReached ==
    <>[](\A f \in Folders : ~Refused(f)) =>
        \A f \in Folders, u \in Uids : [](server[f][u] # NoMsg => <>Reached(f, u))

(* The synchronised archive is append-only and deletes at the source only   *)
(* what it holds.                                                           *)
Promise == INSTANCE ArchivePromise WITH
    stored <- {e.msg : e \in {d \in emails : new[d.path] = d.msg}},
    purged <- {p.msg : p \in {q \in purged : q.own}}

AppendOnlyArchive == Promise!Spec
=============================================================================
