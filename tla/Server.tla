------------------------------- MODULE Server -------------------------------
(***************************************************************************)
(* The server process around the engines: unlocking the vault builds the   *)
(* backend (internal/httpapi/backend.go), the scheduler starts syncs from  *)
(* its cron table and from the API on a bounded pool                       *)
(* (internal/scheduler), every change of the database goes through one     *)
(* writer goroutine (internal/db/writer), the search index is written by   *)
(* syncs and deletions and replaced by a reindex (internal/reindex), and a *)
(* signal takes all of it down in order (Serve, backend.close).            *)
(*                                                                         *)
(* A run is one syncOne call; it archives at most one email here.  What it *)
(* does with its server is in MailboxSync and CursorSync.                  *)
(***************************************************************************)
EXTENDS Naturals, FiniteSets

CONSTANTS
    Accounts, Runs, Emails,
    NoRun,              \* nobody
    PoolSize,           \* cfg.Sync.MaxConcurrentAccounts
    MaxEdits,           \* bound: account edits
    MaxReindexes,       \* bound: reindex requests
    MaxFaults           \* bound: failures, forced exits, restarts

Specs == {"hourly", "daily", "invalid"}

ASSUME ServerAssumption ==
    /\ Accounts # {} /\ Emails # {} /\ NoRun \notin Runs /\ Runs \cap Emails = {}
    /\ PoolSize \in Nat \ {0}
    /\ MaxEdits \in Nat /\ MaxReindexes \in Nat /\ MaxFaults \in Nat

VARIABLES
    phase,      \* how far the process is from start to exit
    account,    \* the accounts table: is_active and sync_cron
    entry,      \* Scheduler.entries: the cron spec of each account, or "none"
    run,        \* the syncOne calls
    releasing,  \* pool.Release was called
    writer,     \* the writer goroutine: "open", "closing", "stopped"
    executing,  \* the run whose transaction the writer executes
    db,         \* the database is open
    rows,       \* each email: "none", "local", "s3_only" or "deleted"
    index,      \* backend.index: open, and the emails it finds
    holders,    \* runs and deletions whose *search.Index is the current one
    reindex,    \* the reindex holding indexMu, and what it still has to do
    deletion,   \* the delete request of each email
    late,       \* writes that timed out on the open index and may still land
    missed,     \* history: index errors counted since the last full listing
    unlisted,   \* history: what a reindex that could not list left out
    unremoved,  \* history: documents whose removal failed
    cut,        \* history: emails the index had wrong when a process ended
    raced,      \* history: emails deleted before their run had indexed them
    edits, reindexes, faults

processVars == <<phase, account, entry>>
dbVars      == <<writer, executing, db, rows>>
searchVars  == <<index, holders, reindex, deletion, late>>
failedVars  == <<unlisted, unremoved, cut>>
historyVars == <<missed, failedVars, raced>>
bounds      == <<edits, reindexes, faults>>
vars == <<processVars, run, releasing, dbVars, searchVars, historyVars, bounds>>

IdleRun  == [pc |-> "idle", account |-> CHOOSE a \in Accounts : TRUE, by |-> "cron", email |-> CHOOSE e \in Emails : TRUE]
NoReindex == [pc |-> "none", todo |-> {}, built |-> {}]

Init ==
    /\ phase = "locked"
    /\ account = [a \in Accounts |-> [active |-> TRUE, spec |-> "hourly"]]
    /\ entry = [a \in Accounts |-> "none"]
    /\ run = [r \in Runs |-> IdleRun] /\ releasing = FALSE
    /\ writer = "stopped" /\ executing = NoRun /\ db = FALSE
    /\ rows = [e \in Emails |-> "none"]
    /\ index = [open |-> FALSE, docs |-> {}] /\ holders = {}
    /\ reindex = NoReindex /\ deletion = [e \in Emails |-> "none"]
    /\ late = {} /\ missed = {} /\ unlisted = {} /\ unremoved = {} /\ cut = {} /\ raced = {}
    /\ edits = 0 /\ reindexes = 0 /\ faults = 0

Fault == faults < MaxFaults /\ faults' = faults + 1

------------------------------------------------------------------------------
(* Mutant of Wanted: an expression cron rejects keeps an entry. *)
WantedUnparsed(a) == IF account[a].active THEN account[a].spec ELSE "none"

(* The cron table refresh wants: active accounts with a spec cron accepts. *)
Wanted(a) == IF account[a].active /\ account[a].spec # "invalid" THEN account[a].spec ELSE "none"

(* newBackend: open the database, the index and start the scheduler. *)
Unlock ==
    /\ phase = "locked"
    /\ phase' = "serving" /\ db' = TRUE /\ writer' = "open"
    /\ index' = [index EXCEPT !.open = TRUE]
    /\ entry' = [a \in Accounts |-> Wanted(a)]
    /\ UNCHANGED <<account, run, releasing, executing, rows, holders, reindex, deletion, late, historyVars, bounds>>

(* Mutant of Refresh: entries of accounts no longer wanted stay. *)
RefreshAddsOnly ==
    /\ phase \in {"serving", "http"}
    /\ entry' = [a \in Accounts |-> IF account[a].active THEN Wanted(a) ELSE entry[a]]
    /\ entry' # entry
    /\ UNCHANGED <<phase, account, run, releasing, dbVars, searchVars, historyVars, bounds>>

(* The minute's refresh; its goroutine ends with stopSched. *)
Refresh ==
    /\ phase \in {"serving", "http"}
    /\ entry' = [a \in Accounts |-> Wanted(a)]
    /\ entry' # entry
    /\ UNCHANGED <<phase, account, run, releasing, dbVars, searchVars, historyVars, bounds>>

(* The accounts API while the server runs. *)
EditAccount(a) ==
    /\ phase = "serving" /\ edits < MaxEdits /\ edits' = edits + 1
    /\ \E active \in BOOLEAN, spec \in Specs :
         account' = [account EXCEPT ![a] = [active |-> active, spec |-> spec]]
    /\ account' # account
    /\ UNCHANGED <<phase, entry, run, releasing, dbVars, searchVars, historyVars, reindexes, faults>>

------------------------------------------------------------------------------
(* A run moves to pc. *)
Goto(r, pc) == run' = [run EXCEPT ![r].pc = pc]
EndRun(r)   == run' = [run EXCEPT ![r] = IdleRun] /\ holders' = holders \ {r}
RunStep     == UNCHANGED <<processVars, releasing, bounds>>

Submit(r, a, by) ==
    /\ run[r].pc = "idle"
    /\ run' = [run EXCEPT ![r] = [IdleRun EXCEPT !.pc = "queued", !.account = a, !.by = by]]
    /\ RunStep /\ UNCHANGED <<dbVars, searchVars, historyVars>>

(* Mutant of CronTick: cron goes on until the process ends. *)
CronTickLate(r, a) == entry[a] # "none" /\ Submit(r, a, "cron")

(* runSync blocks in pool.Submit in cron's goroutine, TriggerSync in the   *)
(* request's.                                                              *)
CronTick(r, a)    == phase \in {"serving", "http"} /\ entry[a] # "none" /\ Submit(r, a, "cron")
TriggerSync(r, a) == phase = "serving" /\ Submit(r, a, "http")

InPool == {r \in Runs : run[r].pc \notin {"idle", "queued"}}

(* The pool has a free worker, or is released and refuses. *)
Admit(r) ==
    /\ run[r].pc = "queued"
    /\ IF releasing THEN EndRun(r)
       ELSE Cardinality(InPool) < PoolSize /\ Goto(r, "started") /\ UNCHANGED holders
    /\ RunStep /\ UNCHANGED <<dbVars, index, reindex, deletion, late, historyVars>>

(* syncOne: the account may have gone inactive; IndexFunc waits for indexMu. *)
Begin(r) ==
    /\ run[r].pc = "started"
    /\ IF account[run[r].account].active
       THEN reindex.pc = "none" /\ holders' = holders \cup {r} /\ Goto(r, "fetching")
       ELSE EndRun(r)
    /\ RunStep /\ UNCHANGED <<dbVars, index, reindex, deletion, late, historyVars>>

(* The mail server answers: a new email to archive, or nothing more. *)
Fetch(r) ==
    /\ run[r].pc = "fetching"
    /\ \/ \E e \in Emails :
            /\ rows[e] = "none" /\ \A s \in Runs : run[s].pc \in {"insert", "waiting"} => run[s].email # e
            /\ run' = [run EXCEPT ![r].pc = "insert", ![r].email = e] /\ UNCHANGED holders
       \/ EndRun(r)
    /\ RunStep /\ UNCHANGED <<dbVars, index, reindex, deletion, late, historyVars>>

(* writer.Do: the loop takes the request, or has been told to close. *)
Accept(r) ==
    /\ run[r].pc = "insert" /\ writer # "stopped" /\ executing = NoRun
    /\ executing' = r /\ Goto(r, "waiting")
    /\ RunStep /\ UNCHANGED <<writer, db, rows, searchVars, historyVars>>

Refused(r) ==
    /\ run[r].pc = "insert" /\ writer # "open"
    /\ EndRun(r)
    /\ RunStep /\ UNCHANGED <<dbVars, index, reindex, deletion, late, historyVars>>

(* exec: the transaction commits, or fails with the run. *)
Commit(r) ==
    /\ executing = r /\ executing' = NoRun
    /\ rows' = [rows EXCEPT ![run[r].email] = "local"] /\ Goto(r, "index")
    /\ RunStep /\ UNCHANGED <<writer, db, searchVars, historyVars>>

Rollback(r) ==
    /\ executing = r /\ executing' = NoRun /\ Fault /\ EndRun(r)
    /\ UNCHANGED <<processVars, releasing, writer, db, rows, index, reindex, deletion, late, historyVars, edits, reindexes>>

(* Mutant of IndexWrite: the error of a closed index is dropped. *)
IndexWriteUncounted(r) ==
    /\ run[r].pc = "index"
    /\ IF index.open /\ r \in holders
       THEN index' = [index EXCEPT !.docs = @ \cup {run[r].email}] ELSE UNCHANGED index
    /\ Goto(r, "fetching")
    /\ RunStep /\ UNCHANGED <<dbVars, holders, reindex, deletion, late, historyVars>>

(* ArchiveOne's index write goes to the index the run began with; a closed *)
(* one times out and is counted.                                           *)
IndexWrite(r) ==
    /\ run[r].pc = "index"
    /\ IF index.open /\ r \in holders
       THEN index' = [index EXCEPT !.docs = @ \cup {run[r].email}] /\ UNCHANGED missed
       ELSE missed' = missed \cup {run[r].email} /\ UNCHANGED index
    /\ Goto(r, "fetching")
    /\ RunStep /\ UNCHANGED <<dbVars, holders, reindex, deletion, late, failedVars, raced>>

(* Bluge refuses the write, or has not answered in five seconds: an error   *)
(* is counted, and the goroutine left behind may still write.               *)
IndexWriteFails(r) ==
    /\ run[r].pc = "index" /\ index.open /\ r \in holders /\ Fault
    /\ missed' = missed \cup {run[r].email} /\ late' = late \cup {run[r].email}
    /\ Goto(r, "fetching")
    /\ UNCHANGED <<processVars, releasing, dbVars, index, holders, reindex, deletion, failedVars, raced, edits, reindexes>>

(* It writes into the index that is open or under construction then.        *)
LateWrite(e) ==
    /\ e \in late /\ late' = late \ {e}
    /\ \/ index.open /\ index' = [index EXCEPT !.docs = @ \cup {e}] /\ UNCHANGED reindex
       \/ reindex.pc = "building" /\ reindex' = [reindex EXCEPT !.built = @ \cup {e}] /\ UNCHANGED index
    /\ UNCHANGED <<processVars, run, releasing, dbVars, holders, deletion, historyVars, bounds>>

------------------------------------------------------------------------------
(* Retention leaves an email only in S3; the index keeps it. *)
Evict(e) ==
    /\ phase = "serving" /\ rows[e] = "local"
    /\ rows' = [rows EXCEPT ![e] = "s3_only"]
    /\ UNCHANGED <<processVars, run, releasing, writer, executing, db, searchVars, historyVars, bounds>>

(* deleteEmailCompletely: the row, then the document of whatever index is *)
(* current then.                                                          *)
DeleteRow(e) ==
    /\ phase = "serving" /\ rows[e] \in {"local", "s3_only"}
    /\ rows' = [rows EXCEPT ![e] = "deleted"]
    /\ deletion' = [deletion EXCEPT ![e] = "row"]
    /\ raced' = IF \E r \in Runs : run[r].pc = "index" /\ run[r].email = e THEN raced \cup {e} ELSE raced
    /\ UNCHANGED <<processVars, run, releasing, writer, executing, db, index, holders, reindex, late, missed, failedVars, bounds>>

(* Mutant of TakeIndex: currentIndex does not wait for indexMu. *)
TakeIndexUnlocked(e) ==
    /\ deletion[e] = "row"
    /\ deletion' = [deletion EXCEPT ![e] = "index"]
    /\ holders' = IF reindex.pc = "none" THEN holders \cup {e} ELSE holders
    /\ UNCHANGED <<processVars, run, releasing, dbVars, index, reindex, late, historyVars, bounds>>

(* currentIndex waits for a reindex to end. *)
TakeIndex(e) ==
    /\ deletion[e] = "row" /\ reindex.pc = "none"
    /\ deletion' = [deletion EXCEPT ![e] = "index"] /\ holders' = holders \cup {e}
    /\ UNCHANGED <<processVars, run, releasing, dbVars, index, reindex, late, historyVars, bounds>>

DeleteDoc(e) ==
    /\ deletion[e] = "index"
    /\ index' = IF index.open /\ e \in holders THEN [index EXCEPT !.docs = @ \ {e}] ELSE index
    /\ deletion' = [deletion EXCEPT ![e] = "none"] /\ holders' = holders \ {e}
    /\ UNCHANGED <<processVars, run, releasing, dbVars, reindex, late, historyVars, bounds>>

(* Index.Delete fails or times out; the caller drops the error or logs it.  *)
DeleteDocFails(e) ==
    /\ deletion[e] = "index" /\ Fault
    /\ unremoved' = unremoved \cup {e}
    /\ deletion' = [deletion EXCEPT ![e] = "none"] /\ holders' = holders \ {e}
    /\ UNCHANGED <<processVars, run, releasing, dbVars, index, reindex, late, missed, unlisted, cut, raced, edits, reindexes>>

------------------------------------------------------------------------------
ReindexStep == UNCHANGED <<processVars, run, releasing, dbVars, deletion, raced, edits>>

(* POST /admin/reindex: lock indexMu, close the index. *)
StartReindex ==
    /\ phase = "serving" /\ reindex.pc = "none" /\ index.open
    /\ reindexes < MaxReindexes /\ reindexes' = reindexes + 1
    /\ reindex' = [NoReindex EXCEPT !.pc = "closed"]
    /\ index' = [open |-> FALSE, docs |-> {}] /\ holders' = {} /\ late' = {}
    /\ ReindexStep /\ UNCHANGED <<missed, failedVars, faults>>

(* reindex.Run: a fresh index, every row of the moment that is local; what *)
(* went wrong before no longer counts.                                     *)
ListAll ==
    /\ reindex.pc = "closed"
    /\ reindex' = [reindex EXCEPT !.pc = "building", !.todo = {e \in Emails : rows[e] = "local"}]
    /\ missed' = {} /\ unlisted' = {} /\ unremoved' = {} /\ cut' = {}
    /\ ReindexStep /\ UNCHANGED <<index, holders, late, reindexes, faults>>

(* search.Open failed: the backend keeps the closed index. *)
OpenFails ==
    /\ reindex.pc = "closed" /\ Fault
    /\ reindex' = NoReindex
    /\ ReindexStep /\ UNCHANGED <<index, holders, late, missed, failedVars, reindexes>>

(* The rows cannot be listed: the backend takes over the new, empty index, *)
(* and no error is counted.                                                *)
ListFails ==
    /\ reindex.pc = "closed" /\ Fault
    /\ reindex' = NoReindex /\ index' = [open |-> TRUE, docs |-> {}]
    /\ unlisted' = unlisted \cup {e \in Emails : rows[e] = "local"}
    /\ ReindexStep /\ UNCHANGED <<holders, late, missed, unremoved, cut, reindexes>>

(* indexOne: the file is read and indexed, or the error is counted. *)
IndexOne(e) ==
    /\ reindex.pc = "building" /\ e \in reindex.todo
    /\ IF rows[e] = "local"
       THEN reindex' = [reindex EXCEPT !.todo = @ \ {e}, !.built = @ \cup {e}] /\ UNCHANGED missed
       ELSE reindex' = [reindex EXCEPT !.todo = @ \ {e}] /\ missed' = missed \cup {e}
    /\ ReindexStep /\ UNCHANGED <<index, holders, late, failedVars, reindexes, faults>>

(* The write of one email fails or times out, as IndexWriteFails. *)
IndexOneFails(e) ==
    /\ reindex.pc = "building" /\ e \in reindex.todo /\ Fault
    /\ reindex' = [reindex EXCEPT !.todo = @ \ {e}]
    /\ missed' = missed \cup {e} /\ late' = late \cup {e}
    /\ ReindexStep /\ UNCHANGED <<index, holders, failedVars, reindexes>>

(* All are indexed: the new index becomes the backend's, indexMu is free. *)
Swap ==
    /\ reindex.pc = "building" /\ reindex.todo = {}
    /\ reindex' = NoReindex /\ index' = [open |-> TRUE, docs |-> reindex.built]
    /\ ReindexStep /\ UNCHANGED <<holders, late, missed, failedVars, reindexes, faults>>

------------------------------------------------------------------------------
(* Serve and backend.close, one wait after the other. *)
To(from, next) == phase = from /\ phase' = next
Closing == UNCHANGED <<account, entry, run, reindex, deletion, late, historyVars, edits, reindexes, faults>>

Signal == /\ phase \in {"locked", "serving"} /\ phase' = IF phase = "locked" THEN "exited" ELSE "http"
          /\ Closing /\ UNCHANGED <<releasing, dbVars, index, holders>>

(* app.Shutdown waits for the handlers, also those blocked in Submit. *)
HandlersDone ==
    /\ To("http", "cron")
    /\ \A r \in Runs : run[r].pc = "queued" => run[r].by = "cron"
    /\ \A e \in Emails : deletion[e] = "none"
    /\ Closing /\ UNCHANGED <<releasing, dbVars, index, holders>>

(* cronSched.Stop().Done(): the cron functions have returned. *)
CronDone ==
    /\ To("cron", "pool") /\ \A r \in Runs : run[r].pc # "queued"
    /\ releasing' = TRUE
    /\ Closing /\ UNCHANGED <<dbVars, index, holders>>

(* ReleaseTimeout: the pool is empty, or twenty seconds have passed. *)
PoolDone ==
    /\ To("pool", "jobs") /\ InPool = {}
    /\ Closing /\ UNCHANGED <<releasing, dbVars, index, holders>>

PoolTimeout ==
    /\ To("pool", "jobs") /\ InPool # {}
    /\ Closing /\ UNCHANGED <<releasing, dbVars, index, holders>>

(* bgJobs.Wait, then writer.Close closes its channel. *)
JobsDone ==
    /\ To("jobs", "writer") /\ reindex.pc = "none" /\ writer' = "closing"
    /\ Closing /\ UNCHANGED <<releasing, executing, db, rows, index, holders>>

(* Mutant of WriterLoopEnds: Close does not wait for the loop. *)
WriterAbandoned ==
    /\ phase = "writer" /\ writer = "closing" /\ writer' = "stopped"
    /\ UNCHANGED <<processVars, run, releasing, executing, db, rows, searchVars, historyVars, bounds>>

(* The loop sees its closed channel only between two transactions. *)
WriterLoopEnds ==
    /\ phase = "writer" /\ writer = "closing" /\ executing = NoRun
    /\ writer' = "stopped"
    /\ UNCHANGED <<processVars, run, releasing, executing, db, rows, searchVars, historyVars, bounds>>

CloseIndexAndDb ==
    /\ To("writer", "closed") /\ writer = "stopped"
    /\ index' = [index EXCEPT !.open = FALSE] /\ db' = FALSE
    /\ Closing /\ UNCHANGED <<releasing, writer, executing, rows, holders>>

(* The documents on disk, of the index or of its successor. *)
Written == IF reindex.pc = "building" THEN reindex.built ELSE index.docs

(* The process ends, by itself or by the watchdog, whatever still runs. *)
Vanish ==
    /\ phase' = "exited"
    /\ run' = [r \in Runs |-> IdleRun] /\ releasing' = FALSE
    /\ entry' = [a \in Accounts |-> "none"]
    /\ writer' = "stopped" /\ executing' = NoRun /\ db' = FALSE
    /\ index' = [open |-> FALSE, docs |-> Written]
    /\ holders' = {} /\ reindex' = NoReindex /\ late' = {}
    /\ deletion' = [e \in Emails |-> "none"]
    /\ cut' = cut \cup {e \in Emails : rows[e] = "local" /\ e \notin Written}
                   \cup {e \in Written : rows[e] = "deleted"}
    /\ UNCHANGED <<account, rows, missed, unlisted, unremoved, raced, edits, reindexes>>

Exit      == phase = "closed" /\ Vanish /\ UNCHANGED faults
ForceExit == phase \in {"http", "cron", "pool", "jobs", "writer", "closed"} /\ Fault /\ Vanish
Restart   == /\ phase = "exited" /\ Fault /\ phase' = "locked"
             /\ UNCHANGED <<account, entry, run, releasing, dbVars, searchVars, historyVars, edits, reindexes>>

------------------------------------------------------------------------------
Sync(r) == Admit(r) \/ Begin(r) \/ Accept(r) \/ Refused(r) \/ Commit(r) \/ IndexWrite(r)

Request == \/ \E a \in Accounts : EditAccount(a) \/ \E r \in Runs : CronTick(r, a) \/ TriggerSync(r, a)
           \/ \E e \in Emails : DeleteRow(e) \/ Evict(e)
           \/ StartReindex \/ Unlock \/ Signal

Background == Refresh \/ ListAll \/ Swap \/ \E e \in Emails : IndexOne(e) \/ TakeIndex(e) \/ DeleteDoc(e)

Shutdown == \/ HandlersDone \/ CronDone \/ PoolDone \/ PoolTimeout \/ JobsDone
            \/ WriterLoopEnds \/ CloseIndexAndDb \/ Exit

Failure == \/ \E r \in Runs : Rollback(r) \/ IndexWriteFails(r)
           \/ \E e \in Emails : LateWrite(e) \/ DeleteDocFails(e) \/ IndexOneFails(e)
           \/ OpenFails \/ ListFails \/ ForceExit \/ Restart

Next == (\E r \in Runs : Sync(r) \/ Fetch(r)) \/ Request \/ Background \/ Shutdown \/ Failure

Spec == Init /\ [][Next]_vars

(* Every goroutine of the process goes on while it can; the mail server is *)
(* not the process, requests need not come and nothing has to fail.  A     *)
(* blocked Submit gets a worker in the end (SF): the pool wakes its        *)
(* waiters in order and cron ticks are minutes apart.                      *)
OwnFairness == /\ \A r \in Runs : WF_vars(Sync(r)) /\ SF_vars(Admit(r))
               /\ WF_vars(Refresh) /\ WF_vars(ListAll) /\ WF_vars(Swap)
               /\ \A e \in Emails : WF_vars(IndexOne(e)) /\ WF_vars(TakeIndex(e)) /\ WF_vars(DeleteDoc(e))
               /\ WF_vars(Shutdown)
FairSpec    == Spec /\ OwnFairness /\ \A r \in Runs : WF_vars(Fetch(r))

------------------------------------------------------------------------------
AccountType == [active : BOOLEAN, spec : Specs]
RunType     == [pc : {"idle", "queued", "started", "fetching", "insert", "waiting", "index"},
                account : Accounts, by : {"cron", "http"}, email : Emails]
IndexType   == [open : BOOLEAN, docs : SUBSET Emails]
ReindexType == [pc : {"none", "closed", "building"}, todo : SUBSET Emails, built : SUBSET Emails]

(* Every variable has its type. *)
TypeOK ==
    /\ phase \in {"locked", "serving", "http", "cron", "pool", "jobs", "writer", "closed", "exited"}
    /\ account \in [Accounts -> AccountType]
    /\ entry \in [Accounts -> (Specs \ {"invalid"}) \cup {"none"}]
    /\ run \in [Runs -> RunType]
    /\ writer \in {"open", "closing", "stopped"} /\ executing \in Runs \cup {NoRun}
    /\ db \in BOOLEAN /\ releasing \in BOOLEAN
    /\ rows \in [Emails -> {"none", "local", "s3_only", "deleted"}]
    /\ index \in IndexType /\ holders \subseteq Runs \cup Emails
    /\ reindex \in ReindexType
    /\ deletion \in [Emails -> {"none", "row", "index"}]
    /\ late \subseteq Emails /\ missed \subseteq Emails /\ unlisted \subseteq Emails
    /\ unremoved \subseteq Emails /\ cut \subseteq Emails /\ raced \subseteq Emails

(* The database and the writer outlive every transaction: none is cut off  *)
(* by a close, although syncs may outlast the drain (backend.close).       *)
NoTxAfterClose == executing # NoRun => db /\ writer # "stopped" /\ run[executing].pc = "waiting"

(* While the index is open, a local email a search does not find is about  *)
(* to be indexed or, since the last reindex that listed the rows, was       *)
(* counted as an index error, was missing when a process ended, or was left *)
(* out by a reindex that could not list them (reindex.Run returns its error *)
(* and an empty index, and counts nothing).                                 *)
NoSilentGap ==
    index.open => \A e \in Emails :
        rows[e] = "local" => \/ e \in index.docs \cup missed \cup cut \cup unlisted
                             \/ \E r \in Runs : run[r].pc = "index" /\ run[r].email = e

(* A search finds no deleted email once its deletion is through, unless    *)
(* the deletion overtook the sync that was indexing it, or, since the last *)
(* reindex, the removal of its document failed (the callers drop or only   *)
(* log that), a write of it timed out and may have landed afterwards, or a *)
(* process ended in between.                                               *)
NoGhost ==
    index.open => \A e \in index.docs :
        rows[e] = "deleted" => deletion[e] # "none" \/ e \in raced \cup unremoved \cup missed \cup cut

(* Once accounts are no longer edited, the cron table follows them.        *)
EntriesSettle ==
    \A a \in Accounts : (edits = MaxEdits /\ phase = "serving") ~> (phase # "serving" \/ entry[a] = Wanted(a))

(* If mail servers answer, a signal ends the process without the watchdog: *)
(* handlers, cron functions, pool, reindex and writer never wait in a ring. *)
StopsByItself == (phase = "http") ~> (phase = "exited")
=============================================================================
