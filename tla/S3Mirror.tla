------------------------------ MODULE S3Mirror ------------------------------
(***************************************************************************)
(* The life of an archived email after its row is committed: the S3 mirror *)
(* (s3_upload_queue and internal/s3store's Uploader), the retention runs   *)
(* that evict or delete it (internal/retention), and the web requests that *)
(* delete it or move it to another folder (internal/httpapi/emails.go).    *)
(* They share the emails row, the Maildir file and the bucket, and each    *)
(* takes several steps over them from a copy of the row read at the start. *)
(*                                                                         *)
(* An object key holds the SHA-256 of the raw message, so a key stands for *)
(* its bytes as well.  Ages and retention thresholds are not modelled: a   *)
(* run finds any of the eligible emails due.  Encryption, backoff delays   *)
(* and the search index are outside this module.                           *)
(***************************************************************************)
EXTENDS Naturals, FiniteSets

CONSTANTS
    Emails,         \* row ids of the emails table
    Key,            \* Key[e]: the object key of the message, which is its content
    Home,           \* Home[e]: the directory ArchiveOne stores the file in
    Name,           \* Name[e]: the base name of the file
    Dirs,           \* the folder directories
    None,           \* no path, no object, no file
    Workers,        \* the uploader's worker goroutines
    Runners,        \* retention runs that may overlap (cron, web UI)
    Requests,       \* delete or move requests that may overlap
    BatchSize,      \* rows ClaimBatch claims at most
    MaxAttempts,    \* tries before an upload is given up
    MaxFaults,      \* bound: failing calls and changes of the S3 switch
    MaxMoves,       \* bound: folder moves
    MaxRestarts     \* bound: stops and crashes of the process

Keys  == {Key[e] : e \in Emails}
Paths == Dirs \X {Name[e] : e \in Emails}
HomePath(e) == <<Home[e], Name[e]>>

ASSUME EmailsAssumption ==
    /\ Home \in [Emails -> Dirs]
    /\ None \notin Keys \cup Paths \cup Emails

ASSUME LimitsAssumption ==
    /\ BatchSize \in Nat \ {0} /\ MaxAttempts \in Nat \ {0}
    /\ MaxFaults \in Nat /\ MaxMoves \in Nat /\ MaxRestarts \in Nat

VARIABLES
    row,        \* row[e]: the emails row
    files,      \* files[p]: the content of the file at p
    bucket,     \* bucket[k]: the content of the object at k
    queue,      \* queue[e]: its s3_upload_queue row
    claimed,    \* rows the dispatcher has claimed and not yet handed out
    worker, runner, request,    \* what each of them is doing
    enabled,    \* s3_config.enabled
    mirroring,  \* the uploader and the lazy loader were started at unlock
    doomed,     \* history: emails whose object or row a deletion has removed
    torn,       \* history: emails whose rename and row update came apart: a restart
                \* in between, or an update that was committed and reported as failed
    crossed,    \* history: emails renamed by one move while another was in between
    unmarked,   \* history: emails whose failed upload could not be recorded
    faults, moves, restarts

storage    == <<row, files, bucket, queue>>
configVars == <<enabled, mirroring>>
counters   == <<faults, moves, restarts>>
history    == <<doomed, torn, crossed, unmarked>>
vars == <<storage, claimed, worker, runner, request, configVars, history, counters>>

NoRow   == [there |-> FALSE, loc |-> "local", path |-> None, etag |-> FALSE]
NoEntry == [status |-> "none", tries |-> 0, path |-> None]
Resting == [pc |-> "idle", email |-> None, path |-> None, data |-> None]
NoRun   == [pc |-> "idle", due |-> {}, email |-> None, path |-> None]
NoReq   == [pc |-> "idle", email |-> None, path |-> None, key |-> FALSE, dest |-> None]

Init ==
    /\ row = [e \in Emails |-> NoRow]
    /\ files = [p \in Paths |-> None]
    /\ bucket = [k \in Keys |-> None]
    /\ queue = [e \in Emails |-> NoEntry]
    /\ claimed = {}
    /\ worker = [w \in Workers |-> Resting]
    /\ runner = [r \in Runners |-> NoRun]
    /\ request = [q \in Requests |-> NoReq]
    /\ enabled = TRUE /\ mirroring = TRUE
    /\ doomed = {} /\ torn = {} /\ crossed = {} /\ unmarked = {}
    /\ faults = 0 /\ moves = 0 /\ restarts = 0

Fault == faults < MaxFaults /\ faults' = faults + 1 /\ UNCHANGED <<moves, restarts>>
------------------------------------------------------------------------------
(* ArchiveOne: the file, then the emails row and its queue row in one       *)
(* transaction.  An id is never used twice, so an email comes once.         *)
Archive(e) ==
    /\ row[e] = NoRow /\ e \notin doomed
    /\ files[HomePath(e)] = None
    /\ files' = [files EXCEPT ![HomePath(e)] = Key[e]]
    /\ row' = [row EXCEPT ![e] = [NoRow EXCEPT !.there = TRUE, !.path = HomePath(e)]]
    /\ queue' = IF enabled
                THEN [queue EXCEPT ![e] = [status |-> "pending", tries |-> 0,
                                           path |-> HomePath(e)]]
                ELSE queue
    /\ UNCHANGED <<bucket, claimed, worker, runner, request, configVars, history, counters>>

(* The settings page changes s3_config; the uploader and the lazy loader    *)
(* only look at it when the vault is unlocked.                              *)
ToggleS3 ==
    /\ Fault
    /\ enabled' = ~enabled
    /\ UNCHANGED <<storage, claimed, worker, runner, request, mirroring, history>>

(* DeleteCompletely: ON DELETE CASCADE takes the queue row along. *)
DropRow(e) ==
    /\ row' = [row EXCEPT ![e] = NoRow]
    /\ queue' = [queue EXCEPT ![e] = NoEntry]
    /\ doomed' = doomed \cup {e}
    /\ UNCHANGED <<torn, crossed, unmarked>>
------------------------------------------------------------------------------
(* Mutant: a claim that also takes the rows left "uploading". *)
ClaimLeftOver ==
    /\ mirroring /\ claimed = {}
    /\ \E e \in {f \in Emails : queue[f].status \in {"pending", "uploading"}} :
        /\ claimed' = {[email |-> e, path |-> queue[e].path]}
        /\ queue' = [queue EXCEPT ![e].status = "uploading"]
    /\ UNCHANGED <<row, files, bucket, worker, runner, request, configVars, history, counters>>

(* Uploader.dispatch and ClaimBatch: any of the pending rows may be due; the *)
(* next poll comes when the whole batch has been handed to the workers.      *)
Claim ==
    /\ mirroring /\ claimed = {}
    /\ \E batch \in SUBSET {e \in Emails : queue[e].status = "pending"} :
        /\ batch # {} /\ Cardinality(batch) <= BatchSize
        /\ claimed' = {[email |-> e, path |-> queue[e].path] : e \in batch}
        /\ queue' = [e \in Emails |-> IF e \in batch THEN [queue[e] EXCEPT !.status = "uploading"]
                                                     ELSE queue[e]]
    /\ UNCHANGED <<row, files, bucket, worker, runner, request, configVars, history, counters>>

(* items <- item: a worker takes a claimed row, deleted meanwhile or not. *)
Hand(w) ==
    /\ worker[w].pc = "idle"
    /\ \E i \in claimed :
        /\ claimed' = claimed \ {i}
        /\ worker' = [worker EXCEPT ![w] = [pc |-> "read", email |-> i.email,
                                            path |-> i.path, data |-> None]]
    /\ UNCHANGED <<storage, runner, request, configVars, history, counters>>

At(w, pc) == worker[w].pc = pc
Goto(w, pc) == worker' = [worker EXCEPT ![w].pc = pc]

(* Uploader.upload: read the file the queue row names, wherever it is now. *)
Read(w) ==
    /\ At(w, "read")
    /\ LET data == files[worker[w].path] IN
        worker' = [worker EXCEPT ![w].pc = IF data = None THEN "failed" ELSE "put",
                                 ![w].data = data]
    /\ UNCHANGED <<storage, claimed, runner, request, configVars, history, counters>>

Put(w) ==
    /\ At(w, "put")
    /\ bucket' = [bucket EXCEPT ![Key[worker[w].email]] = worker[w].data]
    /\ Goto(w, "done")
    /\ UNCHANGED <<row, files, queue, claimed, runner, request, configVars, history, counters>>

(* Mutant: the answer of the PUT is not looked at. *)
PutUnchecked(w) ==
    /\ At(w, "put") /\ Fault
    /\ Goto(w, "done")
    /\ UNCHANGED <<storage, claimed, runner, request, configVars, history>>

(* The PUT is refused, or is carried out and its answer lost. *)
PutFails(w) ==
    /\ At(w, "put") /\ Fault
    /\ bucket' \in {bucket, [bucket EXCEPT ![Key[worker[w].email]] = worker[w].data]}
    /\ Goto(w, "failed")
    /\ UNCHANGED <<row, files, queue, claimed, runner, request, configVars, history>>

(* MarkDone: two updates that find nothing when the email is gone. *)
MarkDone(w) ==
    /\ At(w, "done")
    /\ LET e == worker[w].email IN
        /\ row' = IF row[e].there THEN [row EXCEPT ![e].etag = TRUE] ELSE row
        /\ queue' = [queue EXCEPT ![e] = NoEntry]
    /\ worker' = [worker EXCEPT ![w] = Resting]
    /\ UNCHANGED <<files, bucket, claimed, runner, request, configVars, history, counters>>

MarkDoneFails(w) ==
    /\ At(w, "done") /\ Fault
    /\ Goto(w, "failed")
    /\ UNCHANGED <<storage, claimed, runner, request, configVars, history>>

(* Mutants: one attempt too many; the row is not made claimable again. *)
MarkFailedLate(w) ==
    /\ At(w, "failed")
    /\ LET e == worker[w].email IN
        queue' = IF queue[e] = NoEntry THEN queue ELSE
                 [queue EXCEPT ![e].tries = @ + 1,
                               ![e].status = IF queue[e].tries >= MaxAttempts THEN "failed" ELSE "pending"]
    /\ worker' = [worker EXCEPT ![w] = Resting]
    /\ UNCHANGED <<row, files, bucket, claimed, runner, request, configVars, history, counters>>

MarkFailedKeepsStatus(w) ==
    /\ At(w, "failed")
    /\ LET e == worker[w].email IN
        queue' = IF queue[e] = NoEntry THEN queue ELSE [queue EXCEPT ![e].tries = @ + 1]
    /\ worker' = [worker EXCEPT ![w] = Resting]
    /\ UNCHANGED <<row, files, bucket, claimed, runner, request, configVars, history, counters>>

(* process: the attempt is counted; the last one makes the row "failed". *)
MarkFailed(w) ==
    /\ At(w, "failed")
    /\ LET e == worker[w].email
           tries == queue[e].tries + 1
       IN  queue' = IF queue[e] = NoEntry THEN queue ELSE
                    [queue EXCEPT ![e].tries = tries,
                                  ![e].status = IF tries >= MaxAttempts THEN "failed" ELSE "pending"]
    /\ worker' = [worker EXCEPT ![w] = Resting]
    /\ UNCHANGED <<row, files, bucket, claimed, runner, request, configVars, history, counters>>

(* That update fails too: it is logged, and the row stays "uploading". *)
MarkFailedFails(w) ==
    /\ At(w, "failed") /\ Fault
    /\ unmarked' = unmarked \cup {worker[w].email}
    /\ worker' = [worker EXCEPT ![w] = Resting]
    /\ UNCHANGED <<storage, claimed, runner, request, configVars, doomed, torn, crossed>>
------------------------------------------------------------------------------
InRun(r, pc) == runner[r].pc = pc
Snapshots(emails) == {[email |-> e, path |-> row[e].path] : e \in emails}
Local(e)   == row[e].there /\ row[e].loc = "local"
Evicted(e) == row[e].there /\ row[e].loc = "s3"

(* Mutant: any old local email is evicted, uploaded or not. *)
ListAllForEviction(r) ==
    /\ InRun(r, "idle") /\ enabled
    /\ \E due \in SUBSET {e \in Emails : Local(e)} :
        runner' = [runner EXCEPT ![r].pc = "evict", ![r].due = Snapshots(due)]
    /\ UNCHANGED <<storage, claimed, worker, request, configVars, history, counters>>

(* Runner.Run on an account: with S3, the emails to evict are those whose    *)
(* upload is confirmed; without it, or when its client cannot be built, every *)
(* email that is due is deleted outright.                                    *)
ListForEviction(r) ==
    /\ InRun(r, "idle") /\ enabled
    /\ \E due \in SUBSET {e \in Emails : Local(e) /\ row[e].etag} :
        runner' = [runner EXCEPT ![r].pc = "evict", ![r].due = Snapshots(due)]
    /\ UNCHANGED <<storage, claimed, worker, request, configVars, history, counters>>

ListForDeletion(r) ==
    /\ InRun(r, "idle")
    /\ IF enabled THEN Fault ELSE UNCHANGED counters
    /\ \E due \in SUBSET {e \in Emails : Local(e)} \ {{}} :
        runner' = [runner EXCEPT ![r].pc = "direct", ![r].due = Snapshots(due)]
    /\ UNCHANGED <<storage, claimed, worker, request, configVars, history>>

(* evictToS3Only: the row first, then the file at the path that was listed. *)
EvictRow(r) ==
    /\ InRun(r, "evict")
    /\ \E d \in runner[r].due :
        /\ row' = IF row[d.email].there
                  THEN [row EXCEPT ![d.email].loc = "s3", ![d.email].path = None]
                  ELSE row
        /\ runner' = [runner EXCEPT ![r].due = @ \ {d}, ![r].pc = "evictFile", ![r].path = d.path]
    /\ UNCHANGED <<files, bucket, queue, claimed, worker, request, configVars, history, counters>>

(* deleteDirectNoBackup: the same order; the object, if any, stays. *)
DeleteRow(r) ==
    /\ InRun(r, "direct")
    /\ \E d \in runner[r].due :
        /\ DropRow(d.email)
        /\ runner' = [runner EXCEPT ![r].due = @ \ {d}, ![r].pc = "directFile", ![r].path = d.path]
    /\ UNCHANGED <<files, bucket, claimed, worker, request, configVars, counters>>

RemoveFile(r) ==
    /\ runner[r].pc \in {"evictFile", "directFile"}
    /\ files' = IF runner[r].path = None THEN files ELSE [files EXCEPT ![runner[r].path] = None]
    /\ runner' = [runner EXCEPT ![r].pc = IF @ = "evictFile" THEN "evict" ELSE "direct",
                                ![r].path = None]
    /\ UNCHANGED <<row, bucket, queue, claimed, worker, request, configVars, history, counters>>

(* deleteFromS3 follows the evictions of the same account. *)
ListForPurge(r) ==
    /\ InRun(r, "evict") /\ runner[r].due = {}
    /\ \E due \in SUBSET {e \in Emails : Evicted(e)} :
        runner' = [runner EXCEPT ![r].pc = "purge", ![r].due = Snapshots(due)]
    /\ UNCHANGED <<storage, claimed, worker, request, configVars, history, counters>>

PurgeObject(r) ==
    /\ InRun(r, "purge")
    /\ \E d \in runner[r].due :
        /\ bucket' = [bucket EXCEPT ![Key[d.email]] = None]
        /\ doomed' = doomed \cup {d.email}
        /\ runner' = [runner EXCEPT ![r].due = @ \ {d}, ![r].pc = "purgeRow", ![r].email = d.email]
    /\ UNCHANGED <<row, files, queue, claimed, worker, request, configVars, torn, crossed, unmarked,
                   counters>>

PurgeRow(r) ==
    /\ InRun(r, "purgeRow")
    /\ DropRow(runner[r].email)
    /\ runner' = [runner EXCEPT ![r].pc = "purge", ![r].email = None]
    /\ UNCHANGED <<files, bucket, claimed, worker, request, configVars, counters>>

(* A failing call leaves the email to the next run, or its file behind. *)
SkipEmail(r) ==
    /\ Fault
    /\ \/ /\ runner[r].pc \in {"evict", "direct", "purge"}
          /\ \E d \in runner[r].due : runner' = [runner EXCEPT ![r].due = @ \ {d}]
       \/ /\ InRun(r, "purgeRow")
          /\ runner' = [runner EXCEPT ![r].pc = "purge", ![r].email = None]
       \/ /\ runner[r].pc \in {"evictFile", "directFile"}
          /\ runner' = [runner EXCEPT ![r].pc = IF @ = "evictFile" THEN "evict" ELSE "direct",
                                      ![r].path = None]
    /\ UNCHANGED <<storage, claimed, worker, request, configVars, history>>

EndRun(r) ==
    /\ runner[r].pc \in {"direct", "purge"} /\ runner[r].due = {}
    /\ runner' = [runner EXCEPT ![r] = NoRun]
    /\ UNCHANGED <<storage, claimed, worker, request, configVars, history, counters>>
------------------------------------------------------------------------------
InRequest(q, pc) == request[q].pc = pc
Continue(q, pc) == request' = [request EXCEPT ![q].pc = pc]
Answer(q) == request' = [request EXCEPT ![q] = NoReq]

(* GetByID: a delete or move handler works from this copy of the row. *)
StartDelete(q) ==
    /\ InRequest(q, "idle")
    /\ \E e \in Emails :
        /\ row[e].there
        /\ row[e].etag => mirroring        \* else 409: the object is out of reach
        /\ request' = [request EXCEPT ![q] =
               [pc |-> IF row[e].etag THEN "object" ELSE "row", email |-> e,
                path |-> row[e].path, key |-> row[e].etag, dest |-> None]]
    /\ UNCHANGED <<storage, claimed, worker, runner, configVars, history, counters>>

(* deleteEmailCompletely: the object, the row, then the file. *)
DeleteObject(q) ==
    /\ InRequest(q, "object")
    /\ bucket' = [bucket EXCEPT ![Key[request[q].email]] = None]
    /\ doomed' = doomed \cup {request[q].email}
    /\ Continue(q, "row")
    /\ UNCHANGED <<row, files, queue, claimed, worker, runner, configVars, torn, crossed, unmarked,
                   counters>>

DeleteEmailRow(q) ==
    /\ InRequest(q, "row")
    /\ DropRow(request[q].email)
    /\ Continue(q, "file")
    /\ UNCHANGED <<files, bucket, claimed, worker, runner, configVars, counters>>

DeleteEmailFile(q) ==
    /\ InRequest(q, "file")
    /\ files' = IF request[q].path = None THEN files
                ELSE [files EXCEPT ![request[q].path] = None]
    /\ Answer(q)
    /\ UNCHANGED <<row, bucket, queue, claimed, worker, runner, configVars, history, counters>>

(* The call a handler is at fails: an error answer, nothing is undone. *)
RequestFails(q) ==
    /\ request[q].pc \in {"object", "row", "file", "rename"} /\ Fault
    /\ Answer(q)
    /\ UNCHANGED <<storage, claimed, worker, runner, configVars, history>>

(* handleBulkFolderMove: to another folder's directory, under the same base  *)
(* name.  For an email without a local file there is nothing to rename.      *)
StartMove(q) ==
    /\ InRequest(q, "idle") /\ moves < MaxMoves
    /\ moves' = moves + 1
    /\ \E e \in Emails, d \in Dirs :
        /\ row[e].there
        /\ LET from == row[e].path
           IN  /\ from # None => from[1] # d
               /\ request' = [request EXCEPT ![q] =
                      [pc |-> IF from = None THEN "assign" ELSE "rename", email |-> e,
                       path |-> from, key |-> FALSE,
                       dest |-> IF from = None THEN None ELSE <<d, from[2]>>]]
    /\ UNCHANGED <<storage, claimed, worker, runner, configVars, history, faults, restarts>>

Renamed(from, to) == [files EXCEPT ![to] = files[from], ![from] = None]
Renaming == {q \in Requests : InRequest(q, "assign") /\ request[q].dest # None}

(* moveEmailToFolder: os.Rename replaces a file that is already there. *)
RenameFile(q) ==
    /\ InRequest(q, "rename")
    /\ IF files[request[q].path] = None
       THEN UNCHANGED <<files, crossed>> /\ Answer(q)
       ELSE /\ files' = Renamed(request[q].path, request[q].dest)
            /\ crossed' = crossed \cup ({request[q].email} \cap {request[o].email : o \in Renaming})
            /\ Continue(q, "assign")
    /\ UNCHANGED <<row, bucket, queue, claimed, worker, runner, configVars, doomed, torn, unmarked,
                   counters>>

(* UpdateFolderAssignment finds nothing when the email is gone. *)
Reassigned(q) ==
    row' = IF row[request[q].email].there
           THEN [row EXCEPT ![request[q].email].path = request[q].dest] ELSE row

MovedBack(q) ==
    files' = IF request[q].dest = None \/ files[request[q].dest] = None THEN files
             ELSE Renamed(request[q].dest, request[q].path)

AssignFolder(q) ==
    /\ InRequest(q, "assign")
    /\ Reassigned(q)
    /\ Answer(q)
    /\ UNCHANGED <<files, bucket, queue, claimed, worker, runner, configVars, history, counters>>

(* Mutant: the file is not moved back. *)
AssignFailsLeavesFile(q) ==
    /\ InRequest(q, "assign") /\ Fault
    /\ Answer(q)
    /\ UNCHANGED <<storage, claimed, worker, runner, configVars, history>>

(* The transaction fails: the file is moved back when it is still there. *)
AssignFails(q) ==
    /\ InRequest(q, "assign") /\ Fault
    /\ MovedBack(q)
    /\ Answer(q)
    /\ UNCHANGED <<row, bucket, queue, claimed, worker, runner, configVars, history>>

(* writer.Do returns the error of its context while the transaction it queued *)
(* is committed, before the handler moves the file back or after it.  Where   *)
(* nothing is undone this is the step itself with an error as its answer; the *)
(* uploader's context only ends with a stop.                                  *)
AssignUnheard(q) ==
    /\ InRequest(q, "assign") /\ request[q].dest # None /\ Fault
    /\ torn' = torn \cup {request[q].email}
    /\ \/ Reassigned(q) /\ Continue(q, "back") /\ UNCHANGED files
       \/ MovedBack(q) /\ Continue(q, "late") /\ UNCHANGED row
    /\ UNCHANGED <<bucket, queue, claimed, worker, runner, configVars, doomed, crossed, unmarked>>

MoveBack(q) ==
    /\ InRequest(q, "back")
    /\ MovedBack(q)
    /\ Answer(q)
    /\ UNCHANGED <<row, bucket, queue, claimed, worker, runner, configVars, history, counters>>

AssignLate(q) ==
    /\ InRequest(q, "late")
    /\ Reassigned(q)
    /\ Answer(q)
    /\ UNCHANGED <<files, bucket, queue, claimed, worker, runner, configVars, history, counters>>
------------------------------------------------------------------------------
(* A crash, or backend.close on a stop or a lock, which cancels the          *)
(* uploader's context before it waits for the workers; then the next unlock, *)
(* where the S3 client may fail to be built.  Nothing looks at rows left     *)
(* "uploading".                                                              *)
Restart ==
    /\ restarts < MaxRestarts /\ restarts' = restarts + 1
    /\ claimed' = {}
    /\ worker' = [w \in Workers |-> Resting]
    /\ runner' = [r \in Runners |-> NoRun]
    /\ request' = [q \in Requests |-> NoReq]
    /\ \/ mirroring' = enabled /\ UNCHANGED faults
       \/ mirroring' = FALSE /\ faults < MaxFaults /\ faults' = faults + 1
    /\ torn' = torn \cup {request[q].email : q \in Renaming}
    /\ UNCHANGED <<storage, enabled, doomed, crossed, unmarked, moves>>
------------------------------------------------------------------------------
Upload(w) == Hand(w) \/ Read(w) \/ Put(w) \/ MarkDone(w) \/ MarkFailed(w)

Retain(r) ==
    \/ ListForEviction(r) \/ ListForDeletion(r) \/ ListForPurge(r)
    \/ EvictRow(r) \/ DeleteRow(r) \/ RemoveFile(r)
    \/ PurgeObject(r) \/ PurgeRow(r) \/ EndRun(r)

Serve(q) ==
    \/ StartDelete(q) \/ DeleteObject(q) \/ DeleteEmailRow(q) \/ DeleteEmailFile(q)
    \/ StartMove(q) \/ RenameFile(q) \/ AssignFolder(q)
    \/ MoveBack(q) \/ AssignLate(q)

Failure ==
    \/ \E w \in Workers : PutFails(w) \/ MarkDoneFails(w) \/ MarkFailedFails(w)
    \/ \E r \in Runners : SkipEmail(r)
    \/ \E q \in Requests : RequestFails(q) \/ AssignFails(q) \/ AssignUnheard(q)
    \/ Restart

Next ==
    \/ \E e \in Emails : Archive(e)
    \/ ToggleS3
    \/ Claim
    \/ \E w \in Workers : Upload(w)
    \/ \E r \in Runners : Retain(r)
    \/ \E q \in Requests : Serve(q)
    \/ Failure

Spec == Init /\ [][Next]_vars

(* The dispatcher's ticker keeps polling and a worker that took an item      *)
(* finishes it; each backoff delay ends.                                     *)
FairSpec ==
    /\ Spec
    /\ WF_vars(Claim)
    /\ \A w \in Workers : WF_vars(Upload(w))
------------------------------------------------------------------------------
Statuses == {"none", "pending", "uploading", "failed"}
OrNone(S) == S \cup {None}

RowRecords == [there : BOOLEAN, loc : {"local", "s3"}, path : OrNone(Paths), etag : BOOLEAN]

EntryRecords == [status : Statuses, tries : 0..MaxAttempts, path : OrNone(Paths)]

ItemRecords == [email : Emails, path : Paths]

WorkerRecords ==
    [pc : {"idle", "read", "put", "done", "failed"},
     email : OrNone(Emails), path : OrNone(Paths), data : OrNone(Keys)]

DueRecords == [email : Emails, path : OrNone(Paths)]

RunnerRecords ==
    [pc : {"idle", "evict", "evictFile", "direct", "directFile", "purge", "purgeRow"},
     due : SUBSET DueRecords, email : OrNone(Emails), path : OrNone(Paths)]

RequestRecords ==
    [pc : {"idle", "object", "row", "file", "rename", "assign", "back", "late"},
     email : OrNone(Emails), path : OrNone(Paths), key : BOOLEAN, dest : OrNone(Paths)]

(* Types of the variables, in every state. *)
TypeOK ==
    /\ row \in [Emails -> RowRecords]
    /\ files \in [Paths -> OrNone(Keys)]
    /\ bucket \in [Keys -> OrNone(Keys)]
    /\ queue \in [Emails -> EntryRecords]
    /\ claimed \subseteq ItemRecords
    /\ worker \in [Workers -> WorkerRecords]
    /\ runner \in [Runners -> RunnerRecords]
    /\ request \in [Requests -> RequestRecords]
    /\ enabled \in BOOLEAN /\ mirroring \in BOOLEAN
    /\ doomed \subseteq Emails /\ torn \subseteq Emails
    /\ crossed \subseteq Emails /\ unmarked \subseteq Emails
    /\ faults \in 0..MaxFaults /\ moves \in 0..MaxMoves /\ restarts \in 0..MaxRestarts

(* An email whose local copy was evicted (retention Stage B) can be loaded   *)
(* from the bucket, and what is stored there is that email: eviction, the    *)
(* uploader's retries, moves and deletes together never break this.          *)
S3OnlyRetrievable ==
    \A e \in Emails : Evicted(e) /\ e \notin doomed => bucket[Key[e]] = Key[e]

Moving(e) ==
    \E q \in Requests : /\ InRequest(q, "assign") /\ request[q].email = e
                        /\ request[q].dest # None /\ files[request[q].dest] = Key[e]

(* The local_path of a local email names a file with its content, except     *)
(* between a move's rename and its row update, when the file is already at   *)
(* the move's destination (moveEmailToFolder).  Excepted are emails a restart *)
(* met in that window or whose update was committed although its caller heard *)
(* of a failure and moved the file back (torn), and those a second move       *)
(* renamed in the first one's window (crossed): their row updates may then    *)
(* come in the other order.                                                   *)
LocalReadable ==
    \A e \in Emails \ (torn \cup crossed) : Local(e) => files[row[e].path] = Key[e] \/ Moving(e)

(* Retention's rule "never evict the only copy": whatever the interleaving   *)
(* of runs, moves, uploads and restarts, an email the archive lists and      *)
(* nobody deletes has its content in some file or in the bucket.             *)
ContentSurvives ==
    \A e \in Emails : row[e].there /\ e \notin doomed =>
        bucket[Key[e]] = Key[e] \/ \E p \in Paths : files[p] = Key[e]

Holders(e) ==
    {i \in claimed : i.email = e} \cup {w \in Workers : worker[w].email = e}

(* ClaimBatch's promise: a queue row is handled by one worker at a time, is  *)
(* not claimable while one has it, and says "uploading" only while somebody  *)
(* has it, or a restart or a failed update has lost it.                      *)
OneUploadAtATime ==
    \A e \in Emails :
        /\ Cardinality(Holders(e)) <= 1
        /\ queue[e].status = "pending" => Holders(e) = {}
        /\ queue[e].status = "uploading" =>
               Holders(e) # {} \/ e \in unmarked \/ restarts > 0

Settled(e) == row[e].etag \/ ~row[e].there \/ queue[e].status = "failed"

(* Every upload the archive queues is confirmed or given up in the end,      *)
(* unless a restart, or an attempt that could not be recorded, comes between. *)
EveryUploadSettles ==
    \A e \in Emails : queue[e].status = "pending" ~> Settled(e) \/ e \in unmarked \/ restarts > 0
=============================================================================
