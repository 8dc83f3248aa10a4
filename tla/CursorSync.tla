----------------------------- MODULE CursorSync -----------------------------
(***************************************************************************)
(* Synchronisation of one account whose server is read through a cursor    *)
(* and not by UIDs: SyncAccountGmailAPI (one synthetic folder, a history   *)
(* id kept in the account row) and SyncAccountMSGraph (the server's        *)
(* folders, a delta link kept in each folder row) of internal/sync, with   *)
(* their clients internal/gmailapi and internal/msgraph.                   *)
(*                                                                         *)
(* The server's change log of a folder is a sequence of messages; a cursor *)
(* is a position in it: 0 is "none yet", c > 0 covers the first c - 1      *)
(* entries.  ArchiveOne, refined in MailboxSync, is one step here.  The    *)
(* sync_logs row, progress reports and match counters are left out.        *)
(***************************************************************************)
EXTENDS Naturals, Sequences, FiniteSets

CONSTANTS
    Messages,           \* messages that may be delivered, each at most once
    MessageId,          \* the Message-ID header of each message, "" when absent
    NoMsg,              \* no message
    Connectors,         \* the connectors checked, a subset of {"gmail", "graph"}
    GraphFolders,       \* the folders of a Graph mailbox, Deleted Items included
    Jobs,               \* sync runs that may overlap (cron and manual triggers)
    RuleActions,        \* what the account's rules may decide of a message
    MaxFaults           \* bound: failures, crashes and changes by other clients

AllMail == "All Mail"
Trash   == "Deleted Items"
Places  == GraphFolders \cup {AllMail, "none", "hidden", "gone"}
Actions == {"archive", "archive_and_delete", "skip"}

ASSUME CursorAssumption ==
    /\ NoMsg \notin Messages /\ MessageId \in [Messages -> STRING]
    /\ Connectors \subseteq {"gmail", "graph"} /\ Connectors # {}
    /\ Trash \in GraphFolders /\ {AllMail, "none", "hidden", "gone"} \cap GraphFolders = {}
    /\ RuleActions \subseteq Actions /\ MaxFaults \in Nat

VARIABLES
    connector,  \* the account's connector; never changes
    where,      \* where the server holds each message; "hidden" is Gmail's Trash
    log,        \* log[f]: the folder's change log, messages in order of arrival
    horizon,    \* the oldest cursor of each folder the server still accepts
    cursor,     \* accounts.gmail_history_id or folders.msgraph_delta_link
    lastUid,    \* folders.last_uid
    emails,     \* the emails table
    job,        \* the running syncs
    skipped,    \* history: messages a rule kept out of the archive
    purged,     \* history: messages a sync removed from their folder
    faults      \* such events so far

serverVars == <<connector, where, log, horizon>>
vars == <<serverVars, cursor, lastUid, emails, job, skipped, purged, faults>>

Folders == IF connector = "gmail" THEN {AllMail} ELSE GraphFolders
AllFolders == GraphFolders \cup {AllMail}

Idle == [pc |-> "idle", todo |-> {}, folder |-> AllMail, link |-> 0, next |-> 0,
         more |-> FALSE, ids |-> {}, msg |-> NoMsg, rule |-> "archive", uid |-> 1]

Init ==
    /\ connector \in Connectors
    /\ where = [m \in Messages |-> "none"]
    /\ log = [f \in AllFolders |-> <<>>]
    /\ horizon = [f \in AllFolders |-> 1]
    /\ cursor = [f \in AllFolders |-> 0]
    /\ lastUid = [f \in AllFolders |-> 0]
    /\ emails = {}
    /\ job = [j \in Jobs |-> Idle]
    /\ skipped = {} /\ purged = {} /\ faults = 0

------------------------------------------------------------------------------
(* What the services answer. *)
Now(f) == Len(log[f]) + 1

(* users.history.list and a delta link: 404 or 410 once the cursor aged out. *)
Served(f, c) == c >= horizon[f]

(* The messages between two cursors, in history order. *)
Between(f, c, d) == {log[f][p] : p \in c .. d - 1}

(* users.messages.list leaves Spam and Trash out. *)
Listed(f) == {m \in Messages : where[m] = f}

(* GET of one message: a Graph id dies when its message leaves the folder. *)
Readable(m, f) == IF connector = "gmail" THEN where[m] # "gone" ELSE where[m] = f

(* users.messages.trash hides the message; DELETE moves it to Deleted Items, *)
(* and erases a message that already is there.                              *)
Discard(m, f) ==
    CASE connector = "gmail" -> /\ where' = [where EXCEPT ![m] = IF @ = f THEN "hidden" ELSE @]
                                /\ UNCHANGED log
      [] connector = "graph" /\ where[m] = f /\ f # Trash ->
                                /\ where' = [where EXCEPT ![m] = Trash]
                                /\ log' = [log EXCEPT ![Trash] = Append(@, m)]
      [] connector = "graph" /\ where[m] = f /\ f = Trash ->
                                where' = [where EXCEPT ![m] = "gone"] /\ UNCHANGED log
      [] OTHER -> UNCHANGED <<where, log>>

Fault == faults < MaxFaults /\ faults' = faults + 1

Covers(m, n)  == m = n \/ (MessageId[m] # "" /\ MessageId[m] = MessageId[n])
Archived      == {e.msg : e \in emails}
IsDuplicate(m) == MessageId[m] # "" /\ \E n \in Archived : Covers(n, m)

Set(j, r) == job' = [job EXCEPT ![j] = r]
Stop(j)   == Set(j, Idle)

------------------------------------------------------------------------------
(* syncOne loads the account row; a Graph run lists the folders first. *)
StartSync(j) ==
    /\ job[j].pc = "idle"
    /\ Set(j, [Idle EXCEPT !.pc = "open", !.todo = Folders, !.link = cursor[AllMail]])
    /\ UNCHANGED <<serverVars, cursor, lastUid, emails, skipped, purged, faults>>

(* UpsertFolder returns the row the run keeps: last_uid and the delta link. *)
OpenFolder(j, f) ==
    /\ job[j].pc = "open" /\ f \in job[j].todo
    /\ Set(j, [job[j] EXCEPT !.pc = "list", !.todo = @ \ {f}, !.folder = f, !.uid = lastUid[f] + 1,
                             !.link = IF connector = "gmail" THEN @ ELSE cursor[f]])
    /\ UNCHANGED <<serverVars, cursor, lastUid, emails, skipped, purged, faults>>

Listing(j, pc) == job[j].pc = pc /\ UNCHANGED <<serverVars, cursor, lastUid, emails, skipped, purged, faults>>

(* resolveMessageIDs with a cursor: the additions since, and the latest id. *)
ListHistory(j) ==
    LET f == job[j].folder IN
    /\ Listing(j, "list") /\ connector = "gmail"
    /\ job[j].link # 0 /\ Served(f, job[j].link)
    /\ Set(j, [job[j] EXCEPT !.pc = "fetch", !.next = Now(f), !.ids = Between(f, job[j].link, Now(f))])

(* Mutant of GetProfile: an expired cursor is an error like any other. *)
GetProfileFirstOnly(j) ==
    IF Served(job[j].folder, job[j].link) \/ job[j].link = 0
    THEN /\ Listing(j, "list") /\ connector = "gmail" /\ job[j].link = 0
         /\ Set(j, [job[j] EXCEPT !.pc = "listall", !.next = Now(job[j].folder)])
    ELSE Listing(j, "list") /\ Stop(j)

(* Mutant of GetProfile: the cursor names the change after the latest one. *)
GetProfileAhead(j) ==
    /\ Listing(j, "list") /\ connector = "gmail"
    /\ job[j].link = 0 \/ ~Served(job[j].folder, job[j].link)
    /\ Set(j, [job[j] EXCEPT !.pc = "listall", !.next = Now(job[j].folder) + 1])

(* No cursor, or ErrHistoryExpired: the history id is taken before listing. *)
GetProfile(j) ==
    /\ Listing(j, "list") /\ connector = "gmail"
    /\ job[j].link = 0 \/ ~Served(job[j].folder, job[j].link)
    /\ Set(j, [job[j] EXCEPT !.pc = "listall", !.next = Now(job[j].folder)])

ListAll(j) ==
    /\ Listing(j, "listall")
    /\ Set(j, [job[j] EXCEPT !.pc = "fetch", !.ids = Listed(job[j].folder)])

(* One page of a folder's delta query: some of the changes since the link, *)
(* removed ones only as stubs; the last page carries the delta link.       *)
DeltaPage(j) ==
    LET f == job[j].folder
        c == IF job[j].link = 0 THEN 1 ELSE job[j].link
    IN  /\ Listing(j, "list") /\ connector = "graph"
        /\ job[j].link = 0 \/ job[j].more \/ Served(f, job[j].link)
        /\ \E d \in c .. Now(f) :
             /\ d > c \/ d = Now(f)
             /\ Set(j, [job[j] EXCEPT !.pc = "fetch", !.link = d, !.more = d < Now(f),
                                      !.next = IF d < Now(f) THEN @ ELSE d,
                                      !.ids = Between(f, c, d) \cap Listed(f)])

(* A forgotten delta link is an error: nothing falls back to a fresh query. *)
DeltaExpired(j) ==
    /\ Listing(j, "list") /\ connector = "graph"
    /\ job[j].link # 0 /\ ~job[j].more /\ ~Served(job[j].folder, job[j].link)
    /\ Stop(j)

(* The next page: @odata.nextLink was present. *)
NextPage(j) ==
    /\ Listing(j, "fetch") /\ job[j].ids = {} /\ job[j].more
    /\ Set(j, [job[j] EXCEPT !.pc = "list"])

------------------------------------------------------------------------------
(* GetMessageRaw of a message that is gone ends the run. *)
FetchFails(j, m) ==
    /\ Listing(j, "fetch") /\ m \in job[j].ids /\ ~Readable(m, job[j].folder)
    /\ Stop(j)

Drop(j, m) == [job[j] EXCEPT !.pc = "fetch", !.ids = @ \ {m}, !.msg = NoMsg, !.rule = "archive"]

(* The message is parsed and the run's rules decide what becomes of it. *)
Evaluate(j, m, a) ==
    /\ job[j].pc = "fetch" /\ m \in job[j].ids /\ Readable(m, job[j].folder)
    /\ IF a = "skip"
       THEN Set(j, Drop(j, m)) /\ skipped' = skipped \cup {m}
       ELSE Set(j, [job[j] EXCEPT !.pc = "check", !.msg = m, !.rule = a]) /\ UNCHANGED skipped
    /\ UNCHANGED <<serverVars, cursor, lastUid, emails, purged, faults>>

(* ExistsByAccountMessageID: a duplicate only gets its rule's effect. *)
CheckDuplicate(j) ==
    /\ job[j].pc = "check"
    /\ Set(j, [job[j] EXCEPT !.pc = IF IsDuplicate(job[j].msg) THEN "effect" ELSE "archive"])
    /\ UNCHANGED <<serverVars, cursor, lastUid, emails, skipped, purged, faults>>

UidTaken(j) == \E e \in emails : e.folder = job[j].folder /\ e.uid = job[j].uid

Row(j) == [folder |-> job[j].folder, uid |-> job[j].uid, msg |-> job[j].msg]

Insert(j) ==
    /\ emails' = emails \cup {Row(j)}
    /\ lastUid' = [lastUid EXCEPT ![job[j].folder] = IF @ < job[j].uid THEN job[j].uid ELSE @]

(* Mutant of Archive: a taken UID is skipped over instead of refused. *)
ArchiveNextFree(j) ==
    /\ job[j].pc = "archive"
    /\ IF UidTaken(j)
       THEN Set(j, [job[j] EXCEPT !.uid = @ + 1]) /\ UNCHANGED <<emails, lastUid>>
       ELSE Insert(j) /\ Set(j, [job[j] EXCEPT !.pc = "effect", !.uid = @ + 1])
    /\ UNCHANGED <<serverVars, cursor, skipped, purged, faults>>

(* ArchiveOne under the run's next UID; UNIQUE(account_id, folder_id, uid). *)
Archive(j) ==
    /\ job[j].pc = "archive" /\ ~UidTaken(j)
    /\ Insert(j)
    /\ Set(j, [job[j] EXCEPT !.pc = "effect", !.uid = @ + 1])
    /\ UNCHANGED <<serverVars, cursor, skipped, purged, faults>>

(* Another run archived under this UID first: the run ends. *)
ArchiveConflict(j) == Listing(j, "archive") /\ UidTaken(j) /\ Stop(j)

(* writer.Do gave up on a transaction that committed all the same. *)
ArchiveUnreported(j) ==
    /\ job[j].pc = "archive" /\ ~UidTaken(j) /\ Fault
    /\ Insert(j) /\ Stop(j)
    /\ UNCHANGED <<serverVars, cursor, skipped, purged>>

(* applyPostArchive...RuleAction: mark-read changes nothing kept here. *)
RuleEffect(j) ==
    LET m == job[j].msg IN
    /\ job[j].pc = "effect" /\ Set(j, Drop(j, m))
    /\ IF job[j].rule = "archive_and_delete"
       THEN Discard(m, job[j].folder) /\ purged' = purged \cup {m}
       ELSE UNCHANGED <<where, log, purged>>
    /\ UNCHANGED <<connector, horizon, cursor, lastUid, emails, skipped, faults>>

(* The request fails: counted, and the sync goes on. *)
RuleEffectFails(j) ==
    /\ job[j].pc = "effect" /\ job[j].rule = "archive_and_delete" /\ Fault
    /\ Set(j, Drop(j, job[j].msg))
    /\ UNCHANGED <<serverVars, cursor, lastUid, emails, skipped, purged>>

(* Mutant of PersistCursor: the cursor is asked for when the batch is through. *)
PersistLatestCursor(j) ==
    /\ job[j].pc = "fetch" /\ job[j].ids = {} /\ ~job[j].more
    /\ cursor' = [cursor EXCEPT ![job[j].folder] = Now(job[j].folder)]
    /\ IF job[j].todo = {} THEN Stop(j)
       ELSE Set(j, [Idle EXCEPT !.pc = "open", !.todo = job[j].todo])
    /\ UNCHANGED <<serverVars, lastUid, emails, skipped, purged, faults>>

(* The batch is through: UpdateGmailHistoryID or UpdateMSGraphDeltaLink. *)
PersistCursor(j) ==
    /\ job[j].pc = "fetch" /\ job[j].ids = {} /\ ~job[j].more
    /\ cursor' = [cursor EXCEPT ![job[j].folder] = job[j].next]
    /\ IF job[j].todo = {} THEN Stop(j)
       ELSE Set(j, [Idle EXCEPT !.pc = "open", !.todo = job[j].todo])
    /\ UNCHANGED <<serverVars, lastUid, emails, skipped, purged, faults>>

(* Mutant of FailSync: a failed ArchiveOne is counted, its effect applied. *)
FailSyncThenEffect(j) ==
    /\ job[j].pc # "idle" /\ Fault
    /\ IF job[j].pc = "archive" THEN Set(j, [job[j] EXCEPT !.pc = "effect"]) ELSE Stop(j)
    /\ UNCHANGED <<serverVars, cursor, lastUid, emails, skipped, purged>>

(* A request, a query or the disk fails, or the context is cancelled. *)
FailSync(j) ==
    /\ job[j].pc # "idle" /\ Fault /\ Stop(j)
    /\ UNCHANGED <<serverVars, cursor, lastUid, emails, skipped, purged>>

CrashAndRestart ==
    /\ Fault /\ \E j \in Jobs : job[j].pc # "idle"
    /\ job' = [j \in Jobs |-> Idle]
    /\ UNCHANGED <<serverVars, cursor, lastUid, emails, skipped, purged>>

------------------------------------------------------------------------------
(* The mailbox and its other clients. *)
Mailbox == UNCHANGED <<connector, cursor, lastUid, emails, job, skipped, purged>>

Arrive(m, f) ==
    /\ where' = [where EXCEPT ![m] = f]
    /\ log' = [log EXCEPT ![f] = Append(@, m)]
    /\ Mailbox /\ UNCHANGED horizon

Deliver(m, f) ==
    /\ where[m] = "none" /\ f \in Folders \ {Trash}
    /\ Arrive(m, f) /\ UNCHANGED faults

MoveByOther(m, f) ==
    /\ connector = "graph" /\ where[m] \in Folders \ {f} /\ f \in Folders
    /\ Fault /\ Arrive(m, f)

EraseByOther(m) ==
    /\ where[m] \in Folders \cup {"hidden"} /\ Fault
    /\ where' = [where EXCEPT ![m] = "gone"]
    /\ Mailbox /\ UNCHANGED <<log, horizon>>

(* Cursors older than the present state are no longer accepted: Gmail's    *)
(* history ages out, Graph forgets a delta link.                           *)
Expire(f) ==
    /\ f \in Folders /\ horizon[f] < Now(f)
    /\ horizon' = [horizon EXCEPT ![f] = Now(f)]
    /\ IF connector = "gmail" THEN faults' = faults ELSE Fault
    /\ Mailbox /\ UNCHANGED <<where, log>>

------------------------------------------------------------------------------
List(j) == \/ \E f \in AllFolders : OpenFolder(j, f)
           \/ ListHistory(j) \/ GetProfile(j) \/ ListAll(j)
           \/ DeltaPage(j) \/ DeltaExpired(j) \/ NextPage(j)

Process(j) == \/ \E m \in Messages : FetchFails(j, m) \/ \E a \in RuleActions : Evaluate(j, m, a)
              \/ CheckDuplicate(j) \/ Archive(j) \/ ArchiveConflict(j)
              \/ RuleEffect(j) \/ PersistCursor(j)

Work(j) == StartSync(j) \/ List(j) \/ Process(j)

Failure == \/ \E j \in Jobs : ArchiveUnreported(j) \/ RuleEffectFails(j) \/ FailSync(j)
           \/ CrashAndRestart

Environment == \/ \E m \in Messages, f \in AllFolders : Deliver(m, f) \/ MoveByOther(m, f)
               \/ \E m \in Messages : EraseByOther(m)
               \/ \E f \in AllFolders : Expire(f)

Next == (\E j \in Jobs : Work(j)) \/ Failure \/ Environment

Spec == Init /\ [][Next]_vars

(* Cron starts a run again and again and a run goes on to its end; Gmail   *)
(* keeps its history for about a week.                                     *)
FairSpec == /\ Spec
            /\ \A j \in Jobs : WF_vars(Work(j))
            /\ WF_vars(connector = "gmail" /\ \E f \in AllFolders : Expire(f))

------------------------------------------------------------------------------
(* Every variable has its type. *)
JobType == [pc : {"idle", "open", "list", "listall", "fetch", "check", "archive", "effect"},
            todo : SUBSET AllFolders, folder : AllFolders, link : Nat, next : Nat, more : BOOLEAN,
            ids : SUBSET Messages, msg : Messages \cup {NoMsg}, rule : Actions, uid : Nat]
TypeOK ==
    /\ connector \in Connectors
    /\ where \in [Messages -> Places]
    /\ log \in [AllFolders -> Seq(Messages)]
    /\ horizon \in [AllFolders -> Nat] /\ cursor \in [AllFolders -> Nat]
    /\ \A f \in AllFolders : cursor[f] <= Now(f) /\ horizon[f] <= Now(f)
    /\ lastUid \in [AllFolders -> Nat]
    /\ emails \subseteq [folder : AllFolders, uid : Nat, msg : Messages]
    /\ job \in [Jobs -> JobType]
    /\ skipped \subseteq Messages /\ purged \subseteq Messages /\ faults \in 0 .. MaxFaults

Reached(m) == m \in skipped \/ \E n \in Archived : Covers(n, m)

(* A stored cursor never covers a message that is still in its folder and  *)
(* that no run archived or skipped: no later listing would return it       *)
(* (resolveMessageIDs, syncOneMSGraphFolder).                              *)
NothingBelowCursorLost ==
    \A f \in Folders : \A m \in Listed(f) :
        (\A p \in DOMAIN log[f] : log[f][p] = m => p < cursor[f]) => Reached(m)

(* Overlapping runs, retries and relistings archive a Message-ID once in a *)
(* folder: the UIDs a run took from the folder row are free only while no  *)
(* other run has archived there.  Two Graph folders have no such guard.    *)
NoDuplicateRows ==
    \A d, e \in emails :
        d.folder = e.folder /\ MessageId[d.msg] # "" /\ MessageId[d.msg] = MessageId[e.msg] => d = e

\* The service no longer accepts a folder's delta link; every run ends there.
LinkForgotten ==
    connector = "graph" /\ \E f \in Folders : cursor[f] # 0 /\ cursor[f] < horizon[f]

(* A message that stays in a synced folder is archived or skipped in the   *)
(* end, whatever fails and however often Gmail's history ages out; only    *)
(* Graph has no way back from a delta link that is no longer accepted.     *)
EveryMessageReached ==
    \A m \in Messages :
        (where[m] \in Folders) ~>
            (where[m] \notin Folders \/ Reached(m) \/ LinkForgotten)

(* The archive only grows, and only archived messages are discarded.       *)
Promise == INSTANCE ArchivePromise WITH stored <- Archived
AppendOnlyArchive == Promise!Spec
=============================================================================
