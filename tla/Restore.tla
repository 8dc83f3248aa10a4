------------------------------- MODULE Restore -------------------------------
(***************************************************************************)
(* Reading archived emails back: restore batches (internal/restore,        *)
(* httpapi/restore_api.go, backend.runRestoreItemsAsync) and exports       *)
(* (httpapi/export.go) over the read cache of S3 objects                   *)
(* (internal/s3store/cache.go), while retention moves emails to S3 and     *)
(* users delete emails and the target account.                             *)
(*                                                                         *)
(* A cache file is "none", "partial" (truncated by os.WriteFile and not    *)
(* yet written) or "whole".  Object keys are content hashes, so an email   *)
(* names its object, its cache entry and its cache file.                   *)
(***************************************************************************)
EXTENDS Naturals, Sequences, SequencesExt, FiniteSetsExt

CONSTANTS
    Emails,
    Local,              \* those still in the local stage at the start
    Batches,            \* restore batches that may run at the same time
    Exports,            \* exports that may run at the same time
    Lists,              \* the selections of emails requests come with
    Size,               \* email -> its bytes
    MaxBytes,           \* the cache's budget
    MaxStarts,          \* bound: batches and exports
    MaxChanges,         \* bound: evictions and deletions
    MaxFaults           \* bound: failures, lost answers and crashes

Readers == Batches \cup Exports

ASSUME RestoreAssumption ==
    /\ Local \subseteq Emails /\ Batches \cap Exports = {} /\ IsFiniteSet(Batches)
    /\ Size \in [Emails -> Nat] /\ Lists \subseteq Seq(Emails)
    /\ MaxBytes \in Nat /\ MaxStarts \in Nat /\ MaxChanges \in Nat /\ MaxFaults \in Nat

VARIABLES
    email,      \* the emails table: storage_location, or "gone"
    file,       \* emails with a local .eml
    object,     \* emails with an S3 object
    target,     \* the target account is there
    entries,    \* the cache's LRU list, most recent first
    curBytes,
    disk,       \* the cache's files
    reader,     \* batches and exports
    mailbox,    \* copies of each email delivered to the target
    logs,       \* restore_logs: outcomes recorded for each email
    lost,       \* history: deliveries whose answer or record was lost to a fault
    starts, changes, faults

emailVars   == <<email, file, object, target, changes>>
cacheVars   == <<entries, curBytes, disk>>
targetVars  == <<mailbox, logs, lost>>
restoreVars == <<emailVars, cacheVars, reader, targetVars, starts, faults>>

\* attached: the file this reader writes is still the one under its name.
Idle   == [pc |-> "idle", todo |-> <<>>, content |-> "none", attached |-> FALSE, outcome |-> "none"]
NoLogs == [completed |-> 0, failed |-> 0]

RestoreInit ==
    /\ email = [e \in Emails |-> IF e \in Local THEN "local" ELSE "s3"] /\ file = Local
    /\ object = Emails /\ target = TRUE
    /\ entries = <<>> /\ curBytes = 0 /\ disk = [e \in Emails |-> "none"]
    /\ reader = [r \in Readers |-> Idle]
    /\ mailbox = [e \in Emails |-> 0] /\ logs = [e \in Emails |-> NoLogs]
    /\ lost = [e \in Emails |-> 0]
    /\ starts = 0 /\ changes = 0 /\ faults = 0

Change   == changes < MaxChanges /\ changes' = changes + 1
Fault    == faults < MaxFaults /\ faults' = faults + 1
Cached   == ToSet(entries)
At(r)    == Head(reader[r].todo)
Sits(r, pc) == reader[r].pc = pc

Goes(r, pc)             == reader' = [reader EXCEPT ![r].pc = pc]
GoesWith(r, pc, c)      == reader' = [reader EXCEPT ![r].pc = pc, ![r].content = c]
Concludes(r, outcome)   == reader' = [reader EXCEPT ![r].pc = "record", ![r].outcome = outcome]
\* The next item of the batch, or its end.
Advanced(r) ==
    IF Len(reader[r].todo) > 1
    THEN [Idle EXCEPT !.pc = "row", !.todo = Tail(reader[r].todo)] ELSE Idle
Advances(r) == reader' = [reader EXCEPT ![r] = Advanced(r)]
\* Content cannot be loaded: recorded for a restore, only counted for an export.
LoadFails(r) == IF r \in Batches THEN Concludes(r, "failed") ELSE Advances(r)
Served       == [r \in Readers |-> IF r \in Batches THEN "append" ELSE "entry"]

------------------------------------------------------------------------------
(* Other components: retention's Stage A -> B (the row first, then the     *)
(* file), deletion (the object, the row with its logs, the file), deletion *)
(* of the target account.                                                  *)
Others == UNCHANGED <<cacheVars, reader, mailbox, lost, starts, faults>>

EvictToS3Only(e) ==
    /\ email[e] = "local" /\ Change
    /\ email' = [email EXCEPT ![e] = "s3"]
    /\ Others /\ UNCHANGED <<file, object, target, logs>>

RemoveLocalFile(e) ==
    /\ email[e] # "local" /\ e \in file
    /\ file' = file \ {e}
    /\ Others /\ UNCHANGED <<email, object, target, changes, logs>>

DeleteObject(e) ==
    /\ email[e] # "gone" /\ e \in object /\ Change
    /\ object' = object \ {e}
    /\ Others /\ UNCHANGED <<email, file, target, logs>>

DeleteEmailRow(e) ==
    /\ email[e] # "gone" /\ e \notin object /\ Change
    /\ email' = [email EXCEPT ![e] = "gone"] /\ logs' = [logs EXCEPT ![e] = NoLogs]
    /\ Others /\ UNCHANGED <<file, object, target>>

DeleteAccount ==
    /\ target /\ Change /\ target' = FALSE /\ logs' = [e \in Emails |-> NoLogs]
    /\ Others /\ UNCHANGED <<email, file, object>>

------------------------------------------------------------------------------
(* A request starts a batch or an export: of the emails it names, or of    *)
(* every email a folder or an account has by then.                         *)
Starts(r, list) ==
    /\ Sits(r, "idle") /\ starts < MaxStarts /\ starts' = starts + 1 /\ list # <<>>
    /\ reader' = [reader EXCEPT ![r] = [Idle EXCEPT !.pc = "row", !.todo = list]]
    /\ UNCHANGED <<emailVars, cacheVars, targetVars, faults>>

\* An unknown target account is refused.
StartRestore(r, list)     == target /\ Starts(r, list)
StartBulkRestore(r, list) == target /\ ToSet(list) = {e \in Emails : email[e] # "gone"} /\ Starts(r, list)
StartExport(r, list)      == Starts(r, list)
\* One email: its .eml, one of its attachments, or the archive page's viewer.
StartDownload(r, e)       == Starts(r, <<e>>)
StartAttachment(r, e)     == email[e] # "gone" /\ Starts(r, <<e>>)
StartViewer(r, e)         == email[e] # "gone" /\ Starts(r, <<e>>)

Private == UNCHANGED <<emailVars, cacheVars, targetVars, starts, faults>>

\* RestoreOne reads the row and the target account; either gone is an error
\* that leaves no log.
LoadRow(r) ==
    /\ Sits(r, "row")
    /\ IF email[At(r)] = "gone" \/ (r \in Batches /\ ~target) THEN Advances(r)
       ELSE Goes(r, IF email[At(r)] = "local" THEN "local" ELSE "lookup")
    /\ Private

\* The row was read before: retention may have removed the file since.
ReadLocal(r) ==
    /\ Sits(r, "local")
    /\ IF At(r) \in file THEN GoesWith(r, Served[r], "whole") ELSE LoadFails(r)
    /\ Private

------------------------------------------------------------------------------
(* LazyLoader.Load over Cache.Get and Cache.Put.                           *)
ToFront(e) == <<e>> \o RemoveFirst(entries, e)

\* Get under the lock.
Lookup(r) ==
    /\ Sits(r, "lookup")
    /\ IF At(r) \in Cached
       THEN entries' = ToFront(At(r)) /\ Goes(r, "hit")
       ELSE entries' = entries /\ Goes(r, "download")
    /\ UNCHANGED <<emailVars, curBytes, disk, targetVars, starts, faults>>

\* Get after the unlock: os.ReadFile of whatever is there by now.
ReadCached(r) ==
    /\ Sits(r, "hit")
    /\ CASE disk[At(r)] = "whole"   -> GoesWith(r, Served[r], "whole")
         [] disk[At(r)] = "partial" -> GoesWith(r, Served[r], "broken")
         [] disk[At(r)] = "none"    -> Goes(r, "forget")
    /\ Private

\* Mutant of Forget: the bytes are subtracted without looking the entry up.
ForgetTwice(r) ==
    /\ Sits(r, "forget")
    /\ entries' = RemoveFirst(entries, At(r))
    /\ curBytes' = IF curBytes >= Size[At(r)] THEN curBytes - Size[At(r)] ELSE 0
    /\ Goes(r, "download")
    /\ UNCHANGED <<emailVars, disk, targetVars, starts, faults>>

\* removeLocked drops the entry, one put since the failed read included.
Forget(r) ==
    /\ Sits(r, "forget")
    /\ entries' = RemoveFirst(entries, At(r))
    /\ curBytes' = IF At(r) \in Cached THEN curBytes - Size[At(r)] ELSE curBytes
    /\ Goes(r, "download")
    /\ UNCHANGED <<emailVars, disk, targetVars, starts, faults>>

\* Mutant of Download: the row's content is taken for loaded without a body.
DownloadEmpty(r) ==
    /\ Sits(r, "download")
    /\ IF At(r) \in object THEN GoesWith(r, "open", "whole") ELSE Goes(r, Served[r])
    /\ Private

Download(r) ==
    /\ Sits(r, "download")
    /\ IF At(r) \in object THEN GoesWith(r, "open", "whole") ELSE LoadFails(r)
    /\ Private

DownloadFails(r) ==
    /\ Sits(r, "download") /\ Fault /\ LoadFails(r)
    /\ UNCHANGED <<emailVars, cacheVars, targetVars, starts>>

\* Put's os.WriteFile, outside the lock: open with O_TRUNC, then write.
PutOpen(r) ==
    /\ Sits(r, "open")
    /\ disk' = [disk EXCEPT ![At(r)] = "partial"]
    /\ reader' = [reader EXCEPT ![r].pc = "write", ![r].attached = TRUE]
    /\ UNCHANGED <<emailVars, entries, curBytes, targetVars, starts, faults>>

PutWrite(r) ==
    /\ Sits(r, "write")
    /\ disk' = IF reader[r].attached THEN [disk EXCEPT ![At(r)] = "whole"] ELSE disk
    /\ Goes(r, "enter")
    /\ UNCHANGED <<emailVars, entries, curBytes, targetVars, starts, faults>>

\* A failed write is not an error of Load, but the truncated file stays.
PutFails(r) ==
    /\ Sits(r, "write") /\ Fault /\ Goes(r, Served[r])
    /\ UNCHANGED <<emailVars, cacheVars, targetVars, starts>>

Bytes(list) == FoldLeft(LAMBDA sum, e : sum + Size[e], 0, list)

\* Put under the lock, with evictLocked: entries go from the back until the
\* rest fits; a removed file is detached from whoever is writing it.
PutEntry(r) ==
    /\ Sits(r, "enter")
    /\ LET order   == ToFront(At(r))
           grown   == curBytes + Size[At(r)] - (IF At(r) \in Cached THEN Size[At(r)] ELSE 0)
           Fits(k) == grown - Bytes(SubSeq(order, k + 1, Len(order))) <= MaxBytes
           kept    == Max({k \in 0 .. Len(order) : k = 0 \/ Fits(k)})
           evicted == SubSeq(order, kept + 1, Len(order))
       IN  /\ entries' = SubSeq(order, 1, kept)
           /\ curBytes' = grown - Bytes(evicted)
           /\ disk' = [e \in Emails |-> IF e \in ToSet(evicted) THEN "none" ELSE disk[e]]
           /\ reader' = [q \in Readers |->
                 IF q = r THEN [reader[q] EXCEPT !.pc = Served[r], !.attached = FALSE]
                 ELSE IF reader[q].todo # <<>> /\ At(q) \in ToSet(evicted)
                 THEN [reader[q] EXCEPT !.attached = FALSE] ELSE reader[q]]
    /\ UNCHANGED <<emailVars, targetVars, starts, faults>>

------------------------------------------------------------------------------
(* Delivery: APPEND, then SMTP, then the record.                           *)
Delivered(e) == mailbox' = [mailbox EXCEPT ![e] = @ + 1]
Lost(e)      == lost' = [lost EXCEPT ![e] = @ + 1]
Outgoing     == UNCHANGED <<emailVars, cacheVars, logs, starts>>

\* No credentials, a refresh that fails: recorded, nothing is sent.
AuthFails(r) ==
    /\ Sits(r, "append") /\ Fault /\ Concludes(r, "failed")
    /\ Outgoing /\ UNCHANGED <<mailbox, lost>>

AppendAccepted(r) ==
    /\ Sits(r, "append") /\ Delivered(At(r)) /\ Concludes(r, "completed")
    /\ Outgoing /\ UNCHANGED <<lost, faults>>

AppendRefused(r) ==
    /\ Sits(r, "append") /\ Goes(r, "smtp")
    /\ Outgoing /\ UNCHANGED <<mailbox, lost, faults>>

AppendAnswerLost(r) ==
    /\ Sits(r, "append") /\ Fault /\ Delivered(At(r)) /\ Lost(At(r)) /\ Goes(r, "smtp")
    /\ Outgoing

SMTPAccepted(r) ==
    /\ Sits(r, "smtp") /\ Delivered(At(r)) /\ Concludes(r, "completed")
    /\ Outgoing /\ UNCHANGED <<lost, faults>>

SMTPRefused(r) ==
    /\ Sits(r, "smtp") /\ Concludes(r, "failed")
    /\ Outgoing /\ UNCHANGED <<mailbox, lost, faults>>

\* QUIT fails after the server took the message.
SMTPAnswerLost(r) ==
    /\ Sits(r, "smtp") /\ Fault /\ Delivered(At(r)) /\ Lost(At(r)) /\ Concludes(r, "failed")
    /\ Outgoing

\* Mutant of Record: a failed attempt is recorded with the default status.
RecordCompleted(r) ==
    /\ Sits(r, "record")
    /\ logs' = IF email[At(r)] = "gone" \/ ~target THEN logs
               ELSE [logs EXCEPT ![At(r)].completed = @ + 1]
    /\ Advances(r)
    /\ UNCHANGED <<emailVars, cacheVars, mailbox, lost, starts, faults>>

\* restore_logs references the email and the target account: with either
\* gone the insert fails, and so does the item.
Record(r) ==
    /\ Sits(r, "record")
    /\ logs' = IF email[At(r)] = "gone" \/ ~target THEN logs
               ELSE [logs EXCEPT ![At(r)][reader[r].outcome] = @ + 1]
    /\ Advances(r)
    /\ UNCHANGED <<emailVars, cacheVars, mailbox, lost, starts, faults>>

RecordFails(r) ==
    /\ Sits(r, "record") /\ Fault /\ Advances(r)
    /\ IF reader[r].outcome = "completed" THEN Lost(At(r)) ELSE lost' = lost
    /\ UNCHANGED <<emailVars, cacheVars, mailbox, logs, starts>>

ExportEntry(r) == Sits(r, "entry") /\ Advances(r) /\ Private

\* The process ends: batches are not resumed, NewCache wipes the directory.
InFlight(e) ==
    {r \in Readers : Sits(r, "record") /\ At(r) = e /\ reader[r].outcome = "completed"}

Crash ==
    /\ Fault /\ \E r \in Readers : ~Sits(r, "idle")
    /\ reader' = [r \in Readers |-> Idle]
    /\ entries' = <<>> /\ curBytes' = 0 /\ disk' = [e \in Emails |-> "none"]
    /\ lost' = [e \in Emails |-> lost[e] + Cardinality(InFlight(e))]
    /\ UNCHANGED <<emailVars, mailbox, logs, starts>>

Loads(r) ==
    \/ LoadRow(r) \/ ReadLocal(r) \/ Lookup(r) \/ ReadCached(r) \/ Forget(r)
    \/ Download(r) \/ DownloadFails(r)
    \/ PutOpen(r) \/ PutWrite(r) \/ PutFails(r) \/ PutEntry(r)

Delivers(r) ==
    \/ AuthFails(r) \/ AppendAccepted(r) \/ AppendRefused(r) \/ AppendAnswerLost(r)
    \/ SMTPAccepted(r) \/ SMTPRefused(r) \/ SMTPAnswerLost(r)
    \/ Record(r) \/ RecordFails(r) \/ ExportEntry(r)

RestoreNext ==
    \/ \E e \in Emails : EvictToS3Only(e) \/ RemoveLocalFile(e) \/ DeleteObject(e) \/ DeleteEmailRow(e)
    \/ DeleteAccount
    \/ \E r \in Batches, list \in Lists : StartRestore(r, list) \/ StartBulkRestore(r, list)
    \/ \E r \in Exports, list \in Lists : StartExport(r, list)
    \/ \E r \in Exports, e \in Emails : StartDownload(r, e) \/ StartAttachment(r, e) \/ StartViewer(r, e)
    \/ \E r \in Readers : Loads(r) \/ Delivers(r)
    \/ Crash

RestoreSpec == RestoreInit /\ [][RestoreNext]_restoreVars

------------------------------------------------------------------------------
ReaderType ==
    [pc : {"idle", "row", "local", "lookup", "hit", "forget", "download", "open", "write", "enter",
           "append", "smtp", "record", "entry"},
     todo : Seq(Emails), content : {"none", "whole", "broken"}, attached : BOOLEAN,
     outcome : {"none", "completed", "failed"}]

(* Types: the tables, the cache's list without repetition, and readers     *)
(* that hold an item exactly while they work.                              *)
TypeOK ==
    /\ email \in [Emails -> {"local", "s3", "gone"}] /\ file \subseteq Emails
    /\ object \subseteq Emails /\ target \in BOOLEAN
    /\ entries \in Seq(Emails) /\ IsInjective(entries) /\ curBytes \in Nat
    /\ disk \in [Emails -> {"none", "partial", "whole"}]
    /\ reader \in [Readers -> ReaderType]
    /\ \A r \in Readers :
         /\ (reader[r].todo = <<>>) <=> (reader[r].pc = "idle")
         /\ reader[r].pc \in {"append", "smtp", "entry"} => reader[r].content # "none"
         /\ reader[r].pc \in {"append", "smtp", "record"} => r \in Batches
    /\ mailbox \in [Emails -> Nat] /\ lost \in [Emails -> Nat]
    /\ logs \in [Emails -> [completed : Nat, failed : Nat]]
    /\ starts \in 0 .. MaxStarts /\ changes \in 0 .. MaxChanges /\ faults \in 0 .. MaxFaults

(* The cache's byte count is the sum of the entries it tracks and stays    *)
(* within the budget, whatever gets, puts, evictions and removals of the   *)
(* same key interleave (cache.go Put, removeLocked, evictLocked).          *)
BudgetKept == curBytes = Bytes(entries) /\ curBytes <= MaxBytes

(* While an email and the target account exist, every copy in the target   *)
(* mailbox is accounted for by a "completed" row of restore_logs, by an    *)
(* outcome about to be written or by a fault that lost the answer or the   *)
(* record: APPEND and SMTP never both deliver one attempt, a "completed"   *)
(* row stands for a copy, a "failed" one for none (restore.go RestoreOne). *)
CopiesAccounted ==
    target => \A e \in Emails : email[e] # "gone" =>
        mailbox[e] = logs[e].completed + lost[e] + Cardinality(InFlight(e))
=============================================================================
