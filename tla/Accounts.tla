------------------------------ MODULE Accounts ------------------------------
(***************************************************************************)
(* One mail address and the accounts created for it one after the other:   *)
(* the handlers of internal/httpapi/accounts.go and accounts_ui.go over    *)
(* internal/account.Manager and the accounts table, while syncs and        *)
(* connection tests resolve the account's OAuth2 token and syncs archive   *)
(* mail for it and reindexes rebuild the search index.                     *)
(*                                                                         *)
(* A row keeps what the requests and the jobs tell apart: "active", which  *)
(* an edit may omit, and "token", the generation of the stored OAuth2      *)
(* token.  The scheduler and what the index may miss are in Server,        *)
(* archiving in MailboxSync.                                               *)
(***************************************************************************)
EXTENDS Naturals, FiniteSets

CONSTANTS
    Requests,           \* requests handled at the same time
    Jobs,               \* syncs and connection tests that may overlap
    Messages,           \* the messages of the mailbox
    MaxId,              \* bound: accounts ever created
    MaxGen,             \* bound: tokens the provider issues for an account
    MaxFaults,          \* bound: failures, crashes and reindexes
    Rotates             \* TRUE: the provider revokes a refresh token it replaces

Ids  == 1 .. MaxId
Gens == 0 .. MaxGen
Kinds == {"edit", "delete"}

ASSUME AccountsAssumption ==
    /\ MaxId \in Nat \ {0} /\ MaxGen \in Nat /\ MaxFaults \in Nat /\ Rotates \in BOOLEAN

VARIABLES
    row,        \* the accounts table
    nextId,     \* AUTOINCREMENT: an id is never given again
    life,       \* how long each access token the provider issued still lasts
    accepted,   \* the refresh tokens the provider still takes
    request,    \* the handlers' progress
    job,        \* the jobs' progress
    tree,       \* the account's Maildir directory exists
    files,      \* messages with a file in it
    emails,     \* messages with a row in the emails table
    docs,       \* messages a search finds
    reindex,    \* the live reindex's progress
    stale,      \* syncs that hold the index a reindex closed
    overtaken,  \* history: accounts deleted while a sync of theirs was running
    relisted,   \* history: accounts a reindex listed in the middle of their deletion
    cut,        \* history: accounts whose deletion a crash or an error cut short
    strained,   \* history: accounts with a refresh not stored or refreshed twice
    faults

tokenVars   == <<life, accepted>>
reindexVars == <<reindex, stale>>
archiveVars == <<tree, files, emails, docs, reindexVars>>
historyVars == <<overtaken, relisted, cut, strained>>
vars == <<row, nextId, tokenVars, request, job, archiveVars, historyVars, faults>>

NewRow == [live |-> TRUE, active |-> TRUE, oauth2 |-> FALSE, token |-> 0]
NoRow  == [NewRow EXCEPT !.live = FALSE]

IdleRequest == [pc |-> "idle", kind |-> "edit", id |-> 1, active |-> TRUE, todo |-> {}]
IdleJob     == [pc |-> "idle", kind |-> "test", id |-> 1, token |-> 0, msg |-> {}]
NoReindex   == [pc |-> "none", todo |-> [i \in Ids |-> {}]]

Init ==
    /\ row = [i \in Ids |-> NoRow] /\ nextId = 1
    /\ life = [i \in Ids |-> [g \in Gens |-> "unissued"]]
    /\ accepted = [i \in Ids |-> {}]
    /\ request = [r \in Requests |-> IdleRequest] /\ job = [j \in Jobs |-> IdleJob]
    /\ tree = [i \in Ids |-> FALSE]
    /\ files = [i \in Ids |-> {}] /\ emails = [i \in Ids |-> {}] /\ docs = [i \in Ids |-> {}]
    /\ reindex = NoReindex /\ stale = {}
    /\ overtaken = {} /\ relisted = {} /\ cut = {} /\ strained = {} /\ faults = 0

Fault == faults < MaxFaults /\ faults' = faults + 1

Syncing(i)  == \E j \in Jobs : job[j].pc # "idle" /\ job[j].kind = "sync" /\ job[j].id = i
Deleting(i) == \E r \in Requests : request[r].pc # "idle" /\ request[r].kind = "delete" /\ request[r].id = i

------------------------------------------------------------------------------
(* UNIQUE(email) allows one live account of the address. *)
Create(account) ==
    /\ nextId <= MaxId /\ \A i \in Ids : ~row[i].live
    /\ row' = [row EXCEPT ![nextId] = account] /\ nextId' = nextId + 1
    /\ UNCHANGED <<request, job, archiveVars, historyVars, faults>>

AddAccount == Create(NewRow) /\ UNCHANGED tokenVars

AddOAuth2Account ==
    /\ Create([NewRow EXCEPT !.oauth2 = TRUE])
    /\ life' = [life EXCEPT ![nextId][0] = "fresh"]
    /\ accepted' = [accepted EXCEPT ![nextId] = {0}]

RequestStep == UNCHANGED <<nextId, tokenVars, job, faults>>
Answer(r)   == request' = [request EXCEPT ![r] = IdleRequest]

(* UpdateAccount begins with GetByID: 404 when the account is gone.  What *)
(* the edit omits keeps the value read here.                               *)
StartEdit(r, i) ==
    /\ request[r].pc = "idle" /\ row[i].live
    /\ \E omitted, chosen \in BOOLEAN :
         request' = [request EXCEPT ![r] = [IdleRequest EXCEPT
             !.pc = "write", !.id = i, !.active = IF omitted THEN row[i].active ELSE chosen]]
    /\ RequestStep /\ UNCHANGED <<row, archiveVars, historyVars>>

(* The toggle reads the row, then is an edit of "active" through           *)
(* UpdateAccount.                                                          *)
StartToggle(r, i) ==
    /\ request[r].pc = "idle" /\ row[i].live
    /\ request' = [request EXCEPT ![r] = [IdleRequest EXCEPT
             !.pc = "read", !.id = i, !.active = ~row[i].active]]
    /\ RequestStep /\ UNCHANGED <<row, archiveVars, historyVars>>

ToggleReads(r) ==
    /\ request[r].pc = "read"
    /\ IF row[request[r].id].live THEN request' = [request EXCEPT ![r].pc = "write"] ELSE Answer(r)
    /\ RequestStep /\ UNCHANGED <<row, archiveVars, historyVars>>

(* AccountsRepo.Update: every column but the token and the history cursor, *)
(* ErrNoRows when the row is gone.                                         *)
WriteRow(r) ==
    LET i == request[r].id IN
    /\ request[r].pc = "write"
    /\ row' = IF row[i].live THEN [row EXCEPT ![i].active = request[r].active] ELSE row
    /\ Answer(r) /\ RequestStep /\ UNCHANGED <<archiveVars, historyVars>>

------------------------------------------------------------------------------
(* Mutant of StartDelete: the emails are listed when the row is gone. *)
StartDeleteLate(r, i) ==
    /\ request[r].pc = "idle" /\ row[i].live
    /\ request' = [request EXCEPT ![r] = [IdleRequest EXCEPT !.pc = "docs", !.kind = "delete", !.id = i]]
    /\ overtaken' = IF Syncing(i) THEN overtaken \cup {i} ELSE overtaken
    /\ RequestStep /\ UNCHANGED <<row, archiveVars, relisted, cut, strained>>

(* handleDeleteAccount lists the account's emails for the index clean-up. *)
StartDelete(r, i) ==
    /\ request[r].pc = "idle" /\ row[i].live
    /\ request' = [request EXCEPT ![r] = [IdleRequest EXCEPT
             !.pc = "docs", !.kind = "delete", !.id = i, !.todo = emails[i]]]
    /\ overtaken' = IF Syncing(i) THEN overtaken \cup {i} ELSE overtaken
    /\ RequestStep /\ UNCHANGED <<row, archiveVars, relisted, cut, strained>>

(* currentIndex() waits for a reindex. *)
DeleteDoc(r) ==
    /\ request[r].pc = "docs" /\ reindex.pc = "none"
    /\ \E m \in request[r].todo :
         /\ request' = [request EXCEPT ![r].todo = @ \ {m}]
         /\ docs' = [docs EXCEPT ![request[r].id] = @ \ {m}]
    /\ RequestStep /\ UNCHANGED <<row, tree, files, emails, reindexVars, historyVars>>

(* The row goes and folders, emails and logs with it (ON DELETE CASCADE). *)
DeleteRow(r) ==
    LET i == request[r].id IN
    /\ request[r].pc = "docs" /\ request[r].todo = {}
    /\ IF row[i].live
       THEN /\ row' = [row EXCEPT ![i] = NoRow] /\ emails' = [emails EXCEPT ![i] = {}]
            /\ request' = [request EXCEPT ![r].pc = "tree"]
       ELSE Answer(r) /\ UNCHANGED <<row, emails>>
    /\ RequestStep /\ UNCHANGED <<tree, files, docs, reindexVars, historyVars>>

DeleteTree(r) ==
    LET i == request[r].id IN
    /\ request[r].pc = "tree"
    /\ tree' = [tree EXCEPT ![i] = FALSE] /\ files' = [files EXCEPT ![i] = {}]
    /\ Answer(r) /\ RequestStep /\ UNCHANGED <<row, emails, docs, reindexVars, historyVars>>

(* An index delete or the removal of the tree fails: nobody is told. *)
DeleteFails(r) ==
    LET i == request[r].id IN
    /\ request[r].pc \in {"docs", "tree"} /\ Fault /\ cut' = cut \cup {i}
    /\ IF request[r].pc = "docs"
       THEN request[r].todo # {} /\ \E m \in request[r].todo : request' = [request EXCEPT ![r].todo = @ \ {m}]
       ELSE Answer(r)
    /\ UNCHANGED <<row, nextId, tokenVars, job, archiveVars, overtaken, relisted, strained>>

------------------------------------------------------------------------------
JobStep   == UNCHANGED <<row, nextId, request>>
Goto(j, pc) == job' = [job EXCEPT ![j].pc = pc]
EndJob(j)   == job' = [job EXCEPT ![j] = IdleJob]
Token(j)    == job[j].token
Resolved(j) == IF job[j].kind = "sync" THEN job' = [job EXCEPT ![j].pc = "folder", ![j].token = 0] ELSE EndJob(j)

(* syncOne loads the row and goes on if it is active; a test in any case.  *)
(* A password is at hand, a token has to be resolved.                      *)
StartJob(j, i, kind) ==
    /\ job[j].pc = "idle" /\ row[i].live /\ (kind = "sync" => row[i].active)
    /\ kind = "test" => row[i].oauth2
    /\ job' = [job EXCEPT ![j] = [IdleJob EXCEPT !.pc = IF row[i].oauth2 THEN "resolve" ELSE "folder",
                                                !.kind = kind, !.id = i, !.token = row[i].token]]
    /\ overtaken' = IF kind = "sync" /\ Deleting(i) THEN overtaken \cup {i} ELSE overtaken
    /\ stale' = stale \ {j}
    /\ JobStep /\ UNCHANGED <<tokenVars, tree, files, emails, docs, reindex, relisted, cut, strained, faults>>

(* resolveOAuth2Token: the token lasts for more than half a minute. *)
UseToken(j) ==
    /\ job[j].pc = "resolve" /\ life[job[j].id][Token(j)] = "fresh" /\ Resolved(j)
    /\ JobStep /\ UNCHANGED <<tokenVars, archiveVars, historyVars, faults>>

(* Under thirty seconds left but over ten: Expired() asks for a refresh,   *)
(* the oauth2 library still finds the token valid and returns it.          *)
KeepToken(j) ==
    /\ job[j].pc = "resolve" /\ life[job[j].id][Token(j)] = "soon" /\ Goto(j, "persist")
    /\ JobStep /\ UNCHANGED <<tokenVars, archiveVars, historyVars, faults>>

Issued(i) == {g \in Gens : life[i][g] # "unissued"}

(* App.Refresh: the provider issues a new token for one it accepts.  Two   *)
(* jobs that hold the same token strain the account: one result is stored  *)
(* over the other.                                                         *)
Refresh(j) ==
    LET i == job[j].id
        g == Cardinality(Issued(i))
        twice == \E k \in Jobs \ {j} : job[k].pc \in {"resolve", "persist"} /\ job[k].id = i
    IN  /\ job[j].pc = "resolve" /\ life[i][Token(j)] = "expired" /\ Token(j) \in accepted[i] /\ g <= MaxGen
        /\ life' = [life EXCEPT ![i][g] = "fresh"]
        /\ accepted' = [accepted EXCEPT ![i] = IF Rotates THEN (@ \ {Token(j)}) \cup {g} ELSE @ \cup {g}]
        /\ job' = [job EXCEPT ![j].pc = "persist", ![j].token = g]
        /\ strained' = IF twice THEN strained \cup {i} ELSE strained
        /\ JobStep /\ UNCHANGED <<archiveVars, overtaken, relisted, cut, faults>>

(* Mutant of RefreshFails: the error is ignored and the result stored. *)
StoreWhatever(j) ==
    LET i == job[j].id IN
    /\ job[j].pc = "resolve" /\ life[i][Token(j)] = "expired" /\ Cardinality(Issued(i)) <= MaxGen
    /\ job' = [job EXCEPT ![j].pc = "persist", ![j].token = Cardinality(Issued(i))]
    /\ JobStep /\ UNCHANGED <<tokenVars, archiveVars, historyVars, faults>>

(* The provider refuses, or no app is registered: the job ends silently. *)
RefreshFails(j) ==
    /\ job[j].pc = "resolve" /\ life[job[j].id][Token(j)] = "expired"
    /\ EndJob(j) /\ JobStep /\ UNCHANGED <<tokenVars, archiveVars, historyVars, faults>>

(* Mutant of StoreToken: the refreshed token is only kept in memory. *)
ForgetToken(j) ==
    /\ job[j].pc = "persist" /\ Resolved(j)
    /\ UNCHANGED <<row, nextId, request, tokenVars, archiveVars, historyVars, faults>>

(* UpdateOAuth2Token: only this column, ErrNoRows when the row is gone. *)
StoreToken(j) ==
    LET i == job[j].id IN
    /\ job[j].pc = "persist"
    /\ IF row[i].live THEN row' = [row EXCEPT ![i].token = Token(j)] /\ Resolved(j)
       ELSE EndJob(j) /\ UNCHANGED row
    /\ UNCHANGED <<nextId, request, tokenVars, archiveVars, historyVars, faults>>

StoreFails(j) ==
    /\ job[j].pc = "persist" /\ Fault /\ strained' = strained \cup {job[j].id} /\ EndJob(j)
    /\ JobStep /\ UNCHANGED <<tokenVars, archiveVars, overtaken, relisted, cut>>

------------------------------------------------------------------------------
SyncStep == JobStep /\ UNCHANGED <<tokenVars, historyVars, faults>>

(* A sync takes its index before it connects and waits for a reindex to    *)
(* end.  UpsertFolder needs the account's row, NewLayout makes the         *)
(* directories.                                                            *)
UpsertFolder(j) ==
    /\ job[j].pc = "folder" /\ (reindex.pc = "none" \/ j \in stale)
    /\ IF row[job[j].id].live THEN Goto(j, "layout") ELSE EndJob(j)
    /\ SyncStep /\ UNCHANGED archiveVars

NewLayout(j) ==
    /\ job[j].pc = "layout" /\ Goto(j, "stage")
    /\ tree' = [tree EXCEPT ![job[j].id] = TRUE]
    /\ SyncStep /\ UNCHANGED <<files, emails, docs, reindexVars>>

(* Stage and Commit write the message's file; a removed tree is an error. *)
WriteFile(j, m) ==
    LET i == job[j].id IN
    /\ job[j].pc = "stage" /\ m \notin emails[i]
    /\ IF tree[i]
       THEN files' = [files EXCEPT ![i] = @ \cup {m}] /\ job' = [job EXCEPT ![j].pc = "insert", ![j].msg = {m}]
       ELSE EndJob(j) /\ UNCHANGED files
    /\ SyncStep /\ UNCHANGED <<tree, emails, docs, reindexVars>>

(* The foreign keys refuse an email of a deleted account; its file stays. *)
InsertEmail(j) ==
    LET i == job[j].id IN
    /\ job[j].pc = "insert"
    /\ IF row[i].live THEN emails' = [emails EXCEPT ![i] = @ \cup job[j].msg] /\ Goto(j, "index")
       ELSE EndJob(j) /\ UNCHANGED emails
    /\ SyncStep /\ UNCHANGED <<tree, files, docs, reindexVars>>

(* A write to the index a reindex closed fails and is only counted. *)
IndexEmail(j) ==
    /\ job[j].pc = "index"
    /\ docs' = IF j \in stale THEN docs ELSE [docs EXCEPT ![job[j].id] = @ \cup job[j].msg]
    /\ job' = [job EXCEPT ![j].pc = "stage", ![j].msg = {}]
    /\ SyncStep /\ UNCHANGED <<tree, files, emails, reindexVars>>

FinishSync(j) == job[j].pc = "stage" /\ EndJob(j) /\ SyncStep /\ UNCHANGED archiveVars

------------------------------------------------------------------------------
ReindexStep == UNCHANGED <<row, nextId, tokenVars, request, job, tree, files, emails, overtaken, cut, strained>>

(* runReindex closes the index and wipes it, under indexMu's write lock. *)
StartReindex ==
    /\ reindex.pc = "none" /\ Fault /\ reindex' = [NoReindex EXCEPT !.pc = "list"]
    /\ stale' = {j \in Jobs : job[j].pc # "idle" /\ job[j].kind = "sync"}
    /\ docs' = [i \in Ids |-> {}]
    /\ ReindexStep /\ UNCHANGED relisted

(* EmailsRepo.ListAll takes no notice of deletions: one that has removed   *)
(* documents but not yet the row gets them back.                           *)
ListAll ==
    /\ reindex.pc = "list" /\ reindex' = [pc |-> "build", todo |-> emails]
    /\ relisted' = relisted \cup {request[r].id : r \in {q \in Requests :
           request[q].pc = "docs" /\ ~(emails[request[q].id] \subseteq request[q].todo)}}
    /\ ReindexStep /\ UNCHANGED <<docs, stale, faults>>

(* The index is swapped in all the same, and is empty. *)
ListFails ==
    /\ reindex.pc = "list" /\ reindex' = NoReindex
    /\ ReindexStep /\ UNCHANGED <<docs, stale, relisted, faults>>

(* indexOne reads the file: without it, or when the index refuses, nothing *)
(* is written and the reindex goes on.                                     *)
IndexOne(i, m) ==
    /\ reindex.pc = "build" /\ m \in reindex.todo[i]
    /\ reindex' = [reindex EXCEPT !.todo[i] = @ \ {m}]
    /\ docs' = docs \/ (m \in files[i] /\ docs' = [docs EXCEPT ![i] = @ \cup {m}])
    /\ ReindexStep /\ UNCHANGED <<stale, relisted, faults>>

FinishReindex ==
    /\ reindex.pc = "build" /\ (\A i \in Ids : reindex.todo[i] = {}) /\ reindex' = NoReindex
    /\ ReindexStep /\ UNCHANGED <<docs, stale, relisted, faults>>

------------------------------------------------------------------------------
(* The process is killed: a deletion, a refresh or a reindex under way is  *)
(* cut short.                                                              *)
Crash ==
    /\ Fault
    /\ \/ \E r \in Requests : request[r].pc # "idle"
       \/ \E j \in Jobs : job[j].pc # "idle"
       \/ reindex.pc # "none"
    /\ reindex' = NoReindex /\ stale' = {}
    /\ request' = [r \in Requests |-> IdleRequest] /\ job' = [j \in Jobs |-> IdleJob]
    /\ cut' = cut \cup {i \in Ids : Deleting(i)}
    /\ strained' = strained \cup {i \in Ids : \E j \in Jobs : job[j].pc = "persist" /\ job[j].id = i}
    /\ UNCHANGED <<row, nextId, tokenVars, tree, files, emails, docs, overtaken, relisted>>

(* Access tokens last for an hour. *)
Age(i, g) ==
    /\ life[i][g] \in {"fresh", "soon"}
    /\ life' = [life EXCEPT ![i][g] = IF @ = "fresh" THEN "soon" ELSE "expired"]
    /\ UNCHANGED <<row, nextId, accepted, request, job, archiveVars, historyVars, faults>>

------------------------------------------------------------------------------
Handle(r) == \/ \E i \in Ids : StartEdit(r, i) \/ StartToggle(r, i) \/ StartDelete(r, i)
             \/ ToggleReads(r) \/ WriteRow(r)
             \/ DeleteDoc(r) \/ DeleteRow(r) \/ DeleteTree(r) \/ DeleteFails(r)

Resolve(j) == \/ \E i \in Ids, kind \in {"sync", "test"} : StartJob(j, i, kind)
              \/ UseToken(j) \/ KeepToken(j) \/ Refresh(j) \/ RefreshFails(j)
              \/ StoreToken(j) \/ StoreFails(j)

Archive(j) == \/ UpsertFolder(j) \/ NewLayout(j) \/ \E m \in Messages : WriteFile(j, m)
              \/ InsertEmail(j) \/ IndexEmail(j) \/ FinishSync(j)

Reindex == \/ StartReindex \/ ListAll \/ ListFails \/ FinishReindex
           \/ \E i \in Ids, m \in Messages : IndexOne(i, m)

Next == \/ AddAccount \/ AddOAuth2Account \/ Crash \/ Reindex
        \/ \E r \in Requests : Handle(r)
        \/ \E j \in Jobs : Resolve(j) \/ Archive(j)
        \/ \E i \in Ids, g \in Gens : Age(i, g)

Spec == Init /\ [][Next]_vars

------------------------------------------------------------------------------
RowType     == [live : BOOLEAN, active : BOOLEAN, oauth2 : BOOLEAN, token : Gens]
RequestType == [pc : {"idle", "read", "write", "docs", "tree"}, kind : Kinds, id : Ids,
                active : BOOLEAN, todo : SUBSET Messages]
JobType     == [pc : {"idle", "resolve", "persist", "folder", "layout", "stage", "insert", "index"},
                kind : {"sync", "test"}, id : Ids, token : Gens, msg : SUBSET Messages]
Lives       == {"unissued", "fresh", "soon", "expired"}

(* Every variable has its type, and a stored token was issued. *)
TypeOK ==
    /\ row \in [Ids -> RowType] /\ \A i \in Ids : row[i].oauth2 => life[i][row[i].token] # "unissued"
    /\ nextId \in 1 .. MaxId + 1
    /\ life \in [Ids -> [Gens -> Lives]]
    /\ accepted \in [Ids -> SUBSET Gens]
    /\ request \in [Requests -> RequestType] /\ job \in [Jobs -> JobType]
    /\ tree \in [Ids -> BOOLEAN] /\ files \in [Ids -> SUBSET Messages]
    /\ emails \in [Ids -> SUBSET Messages] /\ docs \in [Ids -> SUBSET Messages]
    /\ reindex \in [pc : {"none", "list", "build"}, todo : [Ids -> SUBSET Messages]] /\ stale \subseteq Jobs
    /\ overtaken \subseteq Ids /\ relisted \subseteq Ids /\ cut \subseteq Ids /\ strained \subseteq Ids
    /\ faults \in 0 .. MaxFaults

(* The provider accepts the refresh token a live account has stored,       *)
(* whatever edits, toggles and deletions run beside the jobs: only two     *)
(* jobs refreshing at once or a result that was not stored may cost it.    *)
TokenUsable ==
    \A i \in Ids :
        row[i].oauth2 => \/ row[i].token \in accepted[i] \/ i \in strained
                         \/ \E j \in Jobs : job[j].pc = "persist" /\ job[j].id = i

(* When a deletion is through, no file and no search hit of the account is *)
(* left, and a reindex under way brings none back, unless a sync of it was *)
(* running, a reindex listed emails whose documents the deletion had       *)
(* already removed and whose rows it had not, or a step of it failed.      *)
NothingLeftBehind ==
    \A i \in 1 .. nextId - 1 :
        ~row[i].live /\ ~Deleting(i) =>
            \/ files[i] = {} /\ ~tree[i] /\ docs[i] = {} /\ reindex.todo[i] = {}
            \/ i \in overtaken \cup relisted \cup cut
=============================================================================
