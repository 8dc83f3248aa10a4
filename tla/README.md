# Marchi in TLA+

Marchi is a self-hosted mail archiver. It copies mailboxes (IMAP, Gmail API, Microsoft Graph) into
a local Maildir tree with an SQLite catalogue and a Bluge index, mirrors the archive to S3, applies
rules and retention to it, restores and exports emails, imports mail and backs itself up. This
directory holds TLA+ models of it, the TLC configurations that check them, and proofs for TLAPS.
Paths are relative to `src/`.

## 1. The system

### Components

| Component | Source (`internal/`) | State | Operations | Module |
|---|---|---|---|---|
| IMAP sync engine | `sync/account.go`, `folders.go`, `fetch.go` | one `SyncAccount` call: the folder rows it read, the channel of fetched messages | `SyncFolders`, `FetchNewMessages`, `ArchiveOne`, rule effects | `MailboxSync` |
| Gmail and Graph sync | `sync/gmailapi_*.go`, `msgraph_*.go` | a history id per account or a delta link per folder | list, fetch, store, move the cursor | `CursorSync` |
| Maildir store | `maildir/` | files in `tmp/`, `new/`, `cur/`; one name counter per `Writer` | `Stage`, `Commit`, `Discard`, `SweepAll`, renames | `MailboxSync`, `S3Mirror` |
| Repositories | `db/repo/`, `db/migrations/` | the tables | transactions | with their users |
| Single writer | `db/writer/` | a queue of jobs over one connection | `Do`, `Close` | `Server`, `MailboxSync` |
| S3 mirror | `s3store/uploader.go`, `keys.go` | claimed queue rows, a dispatcher, workers | claim, upload, `MarkDone`, `MarkFailed` | `S3Mirror` |
| S3 settings, read cache | `s3config/`, `s3store/cache.go` | the switch; an LRU of decrypted messages | `Save`; `Get`, `Put` | `S3Mirror`, `Restore` |
| Retention | `retention/` | the lists of one run | delete or evict local copies, delete from S3 | `S3Mirror` |
| Email requests | `httpapi/emails.go` | the row a handler read | delete, move, bulk variants, download | `S3Mirror`, `Server`, `Restore` |
| Scheduler | `scheduler/` | cron entries, a worker pool | refresh, run, trigger, stop | `Server` |
| Backend life cycle, reindex | `httpapi/state.go`, `backend.go`, `reindex/` | the services of an unlocked vault | unlock, stop, index swap | `Server` |
| Search | `search/` | the index | index, delete, close, query | `Server` (all but queries) |
| Rules | `rules/`, `httpapi/rules_*.go` | ordered rules, `rules.yaml` and its watcher | CRUD, reorder, reload, match, count | `Rules` |
| Accounts, OAuth2 | `account/`, `oauth2/`, `httpapi/accounts*.go` | account rows, tokens | create, edit, toggle, delete, refresh | `Accounts` |
| Unlock and vault | `httpapi/unlock*.go`, `security/` | `.salt`, `.mk-verify`, `.dek`; failure counters | unlock, change the password | `Vault` |
| Restore, exports | `restore/`, `httpapi/restore_api.go`, `export.go` | a batch's list, `restore_logs` | load, APPEND, SMTP, record | `Restore` |
| Import, backup | `importer/`, `backup/`, `cmd/marchi/` | none of their own | import, backup run, verify | `Commands` |
| Notifications | `notify/` | the last time of each alert | throttle, send | - |
| IMAP client; Web API and pages; MIME, logging, configuration, languages | `imapclient/`, `httpapi/`, `web/`, ... | connections, sessions | connect, decode, render, parse | - |

`PROJECT.json` names each of them with its files and says what of it is modelled.

### How they interact

* Cron, the web UI's "sync now" and the command line each start a sync. There is no lock per
  account and no lock on the data directory, so runs overlap, within a process and across commands.
  Only the index is different: Bluge locks its directory, so one process at a time has it open.
* `ArchiveOne` writes the file first (`Stage`, `Commit`), then in one transaction the `emails` row,
  the folder's `last_uid` and, with S3 on, the `s3_upload_queue` row, then the index document. The
  rule's deletion on the mail server comes after that.
* All writes of a process go through its single writer, so a transaction is one step; its caller
  may hear of its own context's end instead of the commit.
* The uploader, retention, the email requests, restores and exports share the email's row, its file
  and its object. Each reads the row once and then takes several steps from that copy.
* Unlocking builds the backend; a signal takes it down in order: handlers, cron functions, pool,
  background jobs, writer, index and database, under a watchdog.
* Settings pages write whole rows back that they read earlier; `rules.yaml` is a second writer of the
  rules, running syncs a third.

### What is hard

Overlapping runs over stale copies of a row; a crash between two of {rename, transaction, object,
document, server-side deletion}; transactions that commit unreported; server-side renumbering and
cursors that expire; failed messages in the middle of a batch; retries with a limit; answers lost
after delivery; files replaced one by one; a shutdown with syncs still running; an index swapped under
its users; names and keys that are unique only under conditions. `PROJECT.json` lists the
hazards one by one with their lines and the properties that cover them.

### What makes each component correct

* Sync: a row leads to a file with its message; neither the watermark nor a cursor passes a message
  that was neither archived nor skipped; a Message-ID is archived once; the server loses a message on our
  account only when it is in the archive; every message is reached in the end.
* Mirror, retention, requests: a queue row has one holder; every queued upload is confirmed or given
  up; nothing evicts the only copy; an evicted email can be loaded; a local email's path leads to its file.
* Server: the database outlives its transactions; a search finds what is there and nothing deleted; the
  cron table follows the accounts; a signal ends the process.
* Accounts: the stored refresh token is one the provider accepts; a deleted account leaves nothing.
* Rules: nothing invalid is stored, no match is lost from the counts, no save of `rules.yaml` is lost.
* Vault: the last password set opens the store and yields the one DEK; guesses are bounded.
* Restore: the cache keeps its budget; a mailbox holds the copies the log says it holds.
* Import and backup: what was exported comes back as it was, once; a backup that verifies can be restored.

## 2. Modules

| Module | Content |
|---|---|
| `ArchivePromise` | what an archiver promises of one account: the readable archive only grows, and the source loses only what is in it |
| `MailboxSync` | the IMAP sync engine, the Maildir writer, the `folders` and `emails` tables, an IMAP server with other clients; implements `ArchivePromise` |
| `CursorSync` | the Gmail and Graph sync engines and their services; implements `ArchivePromise` |
| `S3Mirror` | the uploader, retention, deletion and moves over row, file, object and queue row |
| `Server` | unlock, scheduler, pool, syncs, writer, index, reindex, deletions and shutdown of one process |
| `Accounts` | the accounts of one address, their tokens and what deletion leaves |
| `Rules` | the rules table under requests, `rules.yaml` and syncs |
| `Restore` | restores, exports and downloads over the read cache |
| `Vault` | the key files under unlocks, password changes, commands and crashes; the lockout |
| `Commands` | imports and backups beside the server |
| `MC...` | the instances of each |
| `MailboxSyncProofs`, `CursorSyncProofs`, `S3MirrorProofs`, `ServerProofs`, `AccountsProofs`, `RulesProofs`, `VaultProofs`, `CommandsProofs` | the theorems about each |

A component module defines, just before the definition it alters, the mutants that show what each
property catches (comment "Mutant ..."); the specification never uses them. The modules meet at
shared operations, each detailed in one of them: archiving one message is six actions in
`MailboxSync`, one in `CursorSync`, file-row-document in `Accounts`, row-document in `Server`, file-row in
`Commands`; deleting an email is detailed in `S3Mirror` and reduced to the steps that matter elsewhere.

### MailboxSync

One `SyncAccount` call is a job; `job[j]` holds what the Go call keeps in local variables: the
folders still to do, its copy of each `LastUID` (`last`), the messages left in the channel (`batch`), the
UIDVALIDITY of the SELECT, and for the current message its UID, its rule's action and the
Writer's second and counter. `pc` names the next thing the code does:

| `pc` | Code | Actions |
|---|---|---|
| `idle` | no call | `StartSync` |
| `list` | `SyncFolders`: STATUS and `UpsertFolder` per folder | `Upsert` |
| `pick` | the folder loop of `SyncAccount` | `NothingNew`, `Select`, `EndSync` |
| `fetch` | `for msg := range messages` in `FetchNewMessages` | `Examine`, `FolderDone` |
| `skip`, `dup` | `skipOne` | `SkipByRule`, `SkipDuplicate` |
| `stage`, `commit`, `persist` | `ArchiveOne` | `Stage`, `Commit`, `Persist`, `PersistConflict`, `PersistUnreported` |
| `effect` | `applyPostArchiveRuleAction` | `RuleEffect`, `RuleEffectFails` |

`FailSync` is any other error or cancelled context, at any `pc`; `CrashAndRestart` and
`SweepByCommand` are a dying process and another command's `SweepAll`; `CreateManualFolder` is
`GetOrCreateManual`; `Deliver`, `FlagByOther`, `ExpungeByOther` and `Recreate` are the mail
server and its other clients. `Fetched` keeps IMAP's rule that `n:*` matches the last message even
below `n`, and without UIDPLUS the engine's EXPUNGE takes what others flagged.

`skipped` and `purged` are history. A file name `{sec}.{pid}_{counter}.{host}` is reduced to
directory, second and counter; one second stands for all the files of a Writer, since only the
question whether two Writers ever use the same one matters. With `DistinctSeconds` a new Writer
gets a second that no row and no running job has; without it, any second. A message is a model
value; its Message-ID is all the duplicate check sees of it.

### CursorSync

The server's change log of a folder is a sequence, a history id or delta link a position in it,
and `horizon` the oldest position the service still accepts. `connector` is chosen at the start:

| Actions | Gmail (`gmailapi_sync.go`) | Graph (`msgraph_sync.go`) |
|---|---|---|
| `StartSync`, `OpenFolder` | load the account, `UpsertFolder` of "All Mail" | list the folders, `UpsertFolder` each |
| `ListHistory`, `GetProfile`, `ListAll` | `resolveMessageIDs`: history since the id, or, without one or when it has expired, the present id and then the full list | - |
| `DeltaPage`, `DeltaExpired`, `NextPage` | - | one page of `delta`, 410 for a link that is no longer accepted, the next page |
| `FetchFails`, `Evaluate`, `CheckDuplicate` | `GetMessageRaw`, parse, rules, `ExistsByAccountMessageID` | the same |
| `Archive`, `ArchiveConflict`, `ArchiveUnreported` | `ArchiveOne` under a synthetic UID | the same |
| `RuleEffect`, `RuleEffectFails` | trash | delete, which is a move to Deleted Items |
| `PersistCursor` | `UpdateGmailHistoryID` when the batch is through | `UpdateMSGraphDeltaLink` per folder |

`Deliver`, `MoveByOther`, `EraseByOther` and `Expire` are the service and other clients; a message that
vanished between listing and GET ends the run, as in the code.

### S3Mirror

| State | Code |
|---|---|
| `row[e]` | `storage_location`, `local_path` and "has `s3_etag`" of the `emails` row |
| `files`, `bucket` | the Maildir files by path, the objects by key |
| `queue[e]` | the `s3_upload_queue` row: status, attempts, the `local_path` of the enqueue |
| `claimed`, `worker` | the batch `dispatch` holds, each worker's step in `process`/`upload` |
| `runner`, `request` | a retention run on an account and its lists; a delete or move handler and its copy of the row |
| `enabled`, `mirroring` | `s3_config.enabled`, and whether the unlock started the uploader |

| Actions | Code |
|---|---|
| `Archive`, `ToggleS3` | the end of `ArchiveOne`; the settings page |
| `Claim`, `Hand`, `Read`, `Put`, `PutFails`, `MarkDone`, `MarkDoneFails`, `MarkFailed`, `MarkFailedFails` | `Uploader.dispatch`, `process`, `upload`, and the queue's repository |
| `ListForEviction`, `ListForDeletion`, `EvictRow`, `DeleteRow`, `RemoveFile`, `ListForPurge`, `PurgeObject`, `PurgeRow`, `SkipEmail`, `EndRun` | `Runner.Run` on one account |
| `StartDelete`, `DeleteObject`, `DeleteEmailRow`, `DeleteEmailFile`, `RequestFails` | `deleteEmailCompletely` and its handlers |
| `StartMove`, `RenameFile`, `AssignFolder`, `AssignFails`, `AssignUnheard` with `MoveBack` or `AssignLate` | `moveEmailToFolder`, and `writer.Do` returning its context's error while the transaction is committed |
| `Restart` | a crash, a stop or a lock, and the next unlock |

`doomed`, `torn`, `crossed` and `unmarked` are history: emails whose deletion has begun, emails a
restart caught between rename and row or whose row update was committed although its caller heard of an
error and moved the file back, emails renamed by one move while another one was between its
rename and its row, emails whose failed attempt could not be recorded. A key is the SHA-256 of
the message, so it stands for the content as well.

### Server

| State | Code |
|---|---|
| `phase` | where the process is: `locked`, `serving`, then the waits of `Serve` and `backend.close` in their order (`http`, `cron`, `pool`, `jobs`, `writer`, `closed`), `exited` |
| `account`, `entry` | `is_active` and `sync_cron` of the account rows; `Scheduler.entries` |
| `run`, `releasing` | the `syncOne` calls, queued on the pool or inside it; `pool.Release` was called |
| `writer`, `executing`, `db` | the writer goroutine, the transaction it executes, the open database |
| `index`, `holders`, `reindex`, `deletion` | `backend.index`; who fetched the present `*search.Index`; the reindex that holds `indexMu`; the delete requests |

`CronTick` and `TriggerSync` block in `pool.Submit` until `Admit`; `Begin` fetches the index reference
(`IndexFunc`, which waits for `indexMu`) and keeps it for the whole run. `Accept`, `Commit`, `Rollback`
and `Refused` are `writer.Do` against its loop, `IndexWrite` the end of `ArchiveOne`.
`StartReindex`, `OpenFails`, `ListAll`, `ListFails`, `IndexOne`, `IndexOneFails` and `Swap` are `runReindex` with
`reindex.Run`, whose failed list leaves a new, empty index in use; `DeleteRow`, `TakeIndex`, `DeleteDoc` and
`DeleteDocFails` the deletion. `IndexWriteFails` is a write to the open index that Bluge refuses or
does not answer in five seconds: the goroutine left behind may still write (`late`, `LateWrite`). `HandlersDone` to `CloseIndexAndDb` are the shutdown, with
`PoolTimeout` for the drain's limit, `ForceExit` for the watchdog. `missed`, `unlisted`, `unremoved`, `cut` and
`raced` are history: index errors somebody counted, what a reindex that could not list the rows left out, documents
whose removal failed, emails the index had wrong when a process ended, emails deleted before their sync had indexed
them. All but the last start anew with a reindex that has listed the rows.

### Accounts

`row[i]` is the account of id `i` (never reused), with the generation of its stored token; `life` and
`accepted` are the provider's side: how long each access token lasts, which refresh tokens it takes.
`request[r]` is a handler between its read and its write: `StartEdit`/`StartToggle`, `ToggleReads`,
`WriteRow` (`Manager.UpdateAccount`), `StartDelete`, `DeleteDoc`, `DeleteRow`, `DeleteTree`
(`handleDeleteAccount`). `job[j]` is a sync or a connection test: `StartJob`, then `UseToken`,
`KeepToken`, `Refresh`, `RefreshFails`, `StoreToken`, `StoreFails` (`resolveOAuth2Token`, `App.Refresh`),
then `UpsertFolder`, `NewLayout`, `WriteFile`, `InsertEmail`, `IndexEmail`. `KeepToken` is
the window where `Expired()` asks for a refresh and the library still returns the token it has.
`StartReindex`, `ListAll`, `ListFails`, `IndexOne`, `FinishReindex` are the reindex beside all that; `stale` are the
syncs that hold the index it closed. `overtaken`, `relisted` and `cut` are history: accounts deleted while a sync of them
ran, accounts a reindex listed when their deletion had removed documents but not yet the row, accounts whose
deletion a failure or a crash cut short.

### Rules

`rules` is the table; a condition is a node of a tree, which leaves hold for a message is a constant.
`ValidWithin` and `HoldsWithin` are `validateDepth` and `Evaluate` as functions of depth; `FirstMatch` is
the ordered scan. Requests: `CreateRule`, `UpdateRule`, `DeleteRule` (API); `CountRules`/`InsertCounted`,
`ReadForEdit`, `ReadForToggle`, `StartReorder`/`ReadForReorder`, all ending in `WriteBack` (pages). A version of `rules.yaml` may name two
rules alike, as `ParseYAML` lets it (`Repeated`). Watcher:
`ReadFile`, `ListRules`, `ApplyRule`, `FinishLoad` are `LoadYAMLFile`; `AddWatch`, `TakeEvent`,
`TimerFires`, `Reload` the goroutine with its debounce timer. Syncs: `StartRun` lists the active rules,
`MatchOne` counts, `RecordMatches` adds the counts up in one transaction.

### Restore

`email`, `file` and `object` are the row's storage location, the local file and the S3 object;
`entries`, `curBytes` and `disk` the cache's list, its byte count and its files; `reader[r]` a batch,
export or download with the items left. `Lookup`, `PutEntry` and `Forget` run under the cache's lock;
`ReadCached`, `PutOpen` and `PutWrite` outside it, as in `cache.go`; `attached` tells whether the file a
reader writes is still the one under its name. `AppendAccepted`, `AppendRefused`, `AppendAnswerLost`, then
`SMTPAccepted`, `SMTPRefused`, `SMTPAnswerLost`, then `Record` are `RestoreOne`.

### Vault

`store` holds the three key files: a salt, the key (salt and password) the verifier was made
with, and a DEK wrapped under a key; `tmp` their `.tmp` siblings. `caller[c]` is an unlock, a
password change or a command inside `UnlockDEK` or `ChangePassword`: `ReadSalt`, `Bootstrap`, `WriteSalt`,
`WriteVerify`, `ReadVerify`, `ReadDEK`, `CreateDEK`, `WriteDEK`; then `WriteTmp` and `Rename` for each file in
the order of the code, or `OpenVault`/`UseDEK`. `failures` and `locked` are the lockout entry of one address.
`disturbed` is history: two writers overlapped or one ended half-way.

### Commands

`account`, `lastUid`, `rows` and `files` are the archive; `import[i]` a `marchi import` (`Resolve`,
`CreateAccount`, `UpsertFolder`, `OpenIndex`, then `CheckDuplicate`, `WriteFile`, `InsertRow` per message);
`server` the request the server is serving (delete, evict, move: file and row in the code's order);
`backup` a `marchi backup run`: `BackupDatabase`, `ReadDir`/`TarFile` per directory, `CopyKey`,
`WriteManifest`; `Verify` is `backup verify`. A message is a sequence of lines that tell apart what the mbox
form changes: envelope look-alikes and their `>`, blank lines, carriage returns, a last line without a newline, and
a line's size, since both scanners give up on a line over their limit (`Fits`). `WriteMboxEntry` is the export, which
leaves the beginning of such a message in the file and goes on with the next one; `WalkMbox`, which ends in an error
there, and `WalkMaildir` are the two readers, and `WalkFails` is the import that ends so. `Ids` are the Message-IDs, a message's being the kind of its
first line. Of a Maildir tree the walk reads the entries that are regular files (`Regular`, `Wanted`).

## 3. Runs

| Run | Instance | Checks | States |
|---|---|---|---|
| `concurrent` | 1 folder, 2 messages (one without a Message-ID), 2 jobs, UIDs 1-2, no UIDPLUS, 1 fault, one second per Writer | `TypeOK`, `RowsReadable`, `NothingBelowWatermarkLost`, `PurgedIsArchived` | 0.6 M |
| `epochs` | 2 folders, 2 messages (one without a Message-ID), 1 job, UIDs 1-2 and 2 UIDVALIDITY values per folder, 2 UIDs assigned in all, 1 fault or renumbering, fair | `NoDuplicateRows`, `EveryMessageReached`, `AppendOnlyArchive` | 0.5 M |
| `races` | 1 email, 2 workers, 2 retention runs, 2 requests, 3 moves, 1 fault, 1 restart | `TypeOK`, `S3OnlyRetrievable`, `LocalReadable`, `ContentSurvives`, `OneUploadAtATime` | 1.8 M |
| `drain` | 2 emails, 2 workers, 1 request, batches of 2, 2 attempts, 1 fault, fair | `EveryUploadSettles` | 31 k |
| `cursors` | both connectors, 2 messages, 2 jobs, Inbox and Deleted Items, no fault | `TypeOK`, `NothingBelowCursorLost`, `NoDuplicateRows` | 1.8 M |
| `reach` | both connectors, 2 messages, 1 job, all rule actions, 1 fault, fair | `AppendOnlyArchive`, `EveryMessageReached` | 0.13 M |
| `server` | 1 account, 2 runs, 1 email, a pool of 1, 1 edit, 1 reindex, 1 fault or restart, fair | `TypeOK`, `NoTxAfterClose`, `NoSilentGap`, `NoGhost`, `EntriesSettle`, `StopsByItself` | 0.4 M |
| `accounts` | 1 account, 2 requests, 2 jobs, 1 message, 2 tokens, a provider that rotates, 1 fault or reindex | `TypeOK`, `TokenUsable`, `NothingLeftBehind` | 1.9 M |
| `rules` | 2 writers with 2 requests, 1 run, 2 rules, 8 condition trees, three versions of `rules.yaml` (one with a name twice, one invalid), 1 fault | `TypeOK`, `CountsExact`, `OneRowPerFileName`, `ReloadMatchesFile`, `NoSaveMissed` | 2.6 M |
| `restore` | 2 emails of different sizes, a cache for one of them, 1 batch and 1 export, 3 starts, 2 changes, 1 fault | `TypeOK`, `BudgetKept`, `CopiesAccounted` | 1.2 M |
| `vault` | 2 callers, 2 passwords, 3 salts, 2 DEKs, threshold 2, 1 command, failure or crash | `TypeOK`, `LastPasswordOpens`, `GuessesBounded` | 2.5 M |
| `commands` | 2 imports (an mbox of 3 messages, a Maildir) of a shared message into one of 2 folders, lines of up to 5 bytes, 2 files, 2 passwords, 1 request, failure or crash, a backup | `ImportFaithful`, `BackupRestorable` | 2.0 M |

Every property holds. For each one `PROJECT.json` names a mutant, a plausible bug in a mapped
definition, under which TLC finds it violated.

**Why the bounds are enough for the cases that matter.** Two jobs, workers, runs, callers or
requests are what the races need: each actor works from its own copy of a row, and a third one adds
another copy. Two UIDs give a batch in which one message fails and a later one is waiting; one of
two messages without a Message-ID separates the duplicate check from content. In `epochs` two UIDs let
`UID FETCH n:*` return a message below `n`, and two assigned in all (`MaxMail`) give one message under two numberings,
in two folders, or two in one folder; overlap is the other run's. One fault lets a failure, crash, sweep or unreported commit
happen at every point; the recovery after it is explored in full. Two attempts give a first failure
and a last one. Three moves let two that overlap be followed by one that starts from what they left. `races` has one email since the rows of different emails meet only in batches and
in keys, the first of which `drain` covers. In `cursors` two runs can race for
either message and Gmail's history may age out at any point; faults are the business of `reach`. One worker in `server`'s
pool makes a second run wait, the situation shutdown has to survive. Three salts in `vault` allow a
bootstrap and two changes; two DEKs tell a late DEK from an early one. Two files in `commands` are two
archived messages, so one import can take the UID the other one has read; its mbox has a message that comes back
whole, one cut at a line too long to export and one with a line too long to import once it is quoted. The walk of that file
therefore always ends in the error, and what the property says of an mbox import that reports success rests on the theorem.
In `rules`, requests submit one of the two names (`GivenNames`), so that the file also has a name no request touches. `server` and
`accounts` have one fault or restart (in `accounts`, one reindex among them): what two together do, a failed write followed by a
crash, is covered by the theorems alone. Jobs, workers, runs, callers and requests
are interchangeable, and the symmetry is used with safety properties only.

Where a run says `CHECK_DEADLOCK FALSE` the system really may stop: everything archived and the
bounds on requests and faults spent (`S3Mirror`, `Accounts`, `Rules`, `Restore`), no salts left (`Vault`), the process
exited (`Server`). The `MailboxSync`, `CursorSync` and `Commands` runs check for deadlock.

**Fairness.** Every assumption is about the program's own scheduling or a service that answers:

* `MailboxSync!FairSpec`, `CursorSync!FairSpec`: each job's own steps (`Work(j)`) are weakly fair. Cron keeps ticking while
  the server runs, and nothing a run does waits for another one, so one of its steps is always
  possible. `CursorSync` adds that Gmail's history ages out, as it does after about a week: a run
  that stumbles over an erased message does so until then.
* `S3Mirror!FairSpec`: `Claim` and each worker's `Upload(w)` are weakly fair, as the dispatcher's
  ticker polls for ever and a worker finishes what it took. There is none for retention and requests.
* `Server!FairSpec`: the goroutines of the process (syncs, refresh, reindex, deletions under way, each wait of
  the shutdown) are weakly fair, a blocked `Submit` is served in the end (strong fairness on
  `Admit`: the pool wakes its waiters in order), and mail servers answer (`Fetch`). Without that last one
  `StopsByItself` does not hold; see below.

### Where the code does not keep what a comment says

The properties above are stated for what the code does. In these places it differs from what a reader
of its comments would expect; each is a hazard in `PROJECT.json`, and where a property makes an exception
for it the exception is a named part of the property.

* `db/repo/folders.go:25-27` speaks of a full resync after a UIDVALIDITY change. `last_uid` returns to 0 but
  the folder's rows stay: a renumbered message whose UID an old row holds is refused by the unique
  index, the run stops there, and so does every later one. `EveryMessageReached` excepts runs in which
  a folder stays refused for ever (`Refused`); a refusal that passes is no exception.
* The same befalls a folder that keeps its numbering: when the messages after the watermark were deleted on the server before
  they were read, `UID FETCH n:*` (`sync/fetch.go:141-152`) returns the last one archived again. If it has no Message-ID, the check
  for a duplicate (`fetch.go:213-221`) does not know it, and the unique index refuses it in every run until new mail comes.
* `sync/account.go:56-58` says that a folder's fetch error does not abort the remaining folders. The loop at
  `account.go:174-178` skips every folder after the first error, so one refused folder keeps the ones after it from ever being
  read. This is why the exception in `EveryMessageReached` is about all folders.
* `UpdateLastUID` knows the folder by id alone. A run that read the folder before another one
  recorded a new UIDVALIDITY moves the new watermark past messages nobody has seen. `concurrent` therefore
  keeps the numbering, and `epochs` one job at a time.
* Each folder's Writer counts from 0 and two folder names may map to one directory: within one second both
  give the same name and the second rename replaces the first file. An instance with
  `DistinctSeconds = FALSE` and one directory for two folders shows `RowsReadable` violated.
* Queue rows left `uploading` by a crash, a stop or a lock are never claimed again, and the backlog
  alert counts pending and failed rows only. `S3Mirror!Restart` is outside `drain`.
* `httpapi/emails.go:412-418` calls a crash between rename and row update a harmless orphan; the row then
  names a path without a file. `LocalReadable` leaves such rows (`torn`) out. So does an
  update that is committed although `writer.Do` returned its context's error (`db/writer/writer.go:75`): the handler takes it
  for a failure and moves the file back (`AssignUnheard`). The same comes of two moves of
  one email that overlap: each works from its own copy of the row, and when the second rename happens
  before the first row update, the row may end up with the path the second one has emptied (`crossed`).
* An email deleted while its upload is in flight leaves its object in the bucket unrecorded, which
  `httpapi/emails.go:239-243` wants to rule out.
* `sync/gmailapi_sync.go` relies on the Message-ID check to recognise what a repeated batch has
  archived already; a message without a Message-ID is archived again. `NoDuplicateRows` is about Message-IDs.
* Graph has no way back from a forgotten delta link (`LinkForgotten`), unlike Gmail.
* `scheduler.go:53-56` keeps the drain of the pool well below the watchdog, but `Stop` first waits without a limit for
  the cron functions, which wait for a place in the pool, which a silent mail server may hold.
* `backend.go:391` says that a write to a closed index is recoverable by the reindex already running. It
  is counted (`missed`), but an email archived after the rebuild has listed the rows is not in it.
* `reindex.Run` promises an index "even a partial or empty one on error" (`reindex.go:51-56`). When listing the rows fails it is
  empty, `backend.go:402-405` puts it to use and no error is counted: every email is missing from the search without a trace
  in the numbers (`unlisted`).
* The removal of a document may fail or time out; `httpapi/emails.go:274` drops the error and `retention/runner.go:266-270`
  only logs it, so that a search finds a deleted email until the next reindex (`unremoved`). A write that timed out
  may land after the deletion, with the same effect.
* A deletion of an account removes its emails' documents before their rows (`httpapi/accounts.go:282-286`); a reindex that lists
  the rows in between writes the documents again, and they stay (`relisted`).
* `SyncYAML` matches by name, which `ParseYAML` does not require to be unique: of two entries with one name the second
  overwrites the first, or, if the table has none yet, both become rows, and from then on the file updates only one of
  them. `OneRowPerFileName` excepts names a version of the file has had twice, `ReloadMatchesFile` speaks of the last entry of a name.
* `httpapi/export.go:269-275` says that a reader of an exported mbox recovers the original byte for byte. Carriage returns are
  gone (`bufio.ScanLines`), and a last line without a newline gets one. `ByteForByte` says when the sentence holds.
* `streamExport` speaks of skipping an email that fails (`export.go:187-191`). One with a line over the scanner's limit
  has by then left its envelope and the lines before in the file, and an import archives that beginning as an email.
* `importer/mbox.go:41` allows for "a single message up to 64MB"; the limit is a line's. A `From ` line that just fits when it is exported
  no longer does with its `>`: the import ends in an error there, and neither that message nor any after it is imported.
* `rules_ui.go:107-108`: a new rule is appended to the end. It gets the number of rules as its priority, which after
  deletions or API requests need not be the largest.
* Between the first load of `rules.yaml` and the start of the watch a save is not seen until the next one.
* `Cache.Put` truncates and writes outside the lock: a reader may get a torn file (`content = "broken"`).
* Two first runs at once, two password changes at once, or a crash between the renames of one leave key
  files no password opens; `LastPasswordOpens` excepts exactly these (`disturbed`).
* A backup taken around a password change may hold key files of two passwords (`mixed`), one taken while an
  email moves may hold neither of its files (`touched`).

## 4. Proofs

A run shows a property on one small instance; a theorem shows it for every value of the constants. All
theorems are of the form `Spec => []P` (for `Restore`, `RestoreSpec => []P`) for a property `P` of section 3, except where
the table says otherwise.

| Module | Theorem | Property | Assumes |
|---|---|---|---|
| `MailboxSyncProofs` | `TypeCorrect` | `TypeOK` | |
| | `RowsAlwaysReadable` | `RowsReadable` | `DistinctSeconds` |
| | `PurgedAlwaysArchived` | `PurgedIsArchived` | `DistinctSeconds` |
| | `ImplementsPromise` | `AppendOnlyArchive`: every step is one of `ArchivePromise` or a stutter | `DistinctSeconds` |
| | `NothingPassedOver` | `NothingBelowWatermarkLost` | `OneJobOrEpoch` |
| | `MessageIdsStayUnique` | `NoDuplicateRows` | one job |
| `CursorSyncProofs` | `TypeCorrect` | `TypeOK` | |
| | `CursorsPassNothing` | `NothingBelowCursorLost` | |
| | `OneRowPerMessage` | `NoDuplicateRows` | |
| | `ImplementsPromise` | `AppendOnlyArchive` | |
| `S3MirrorProofs` | `TypeCorrect` | `TypeOK` | |
| | `UploadsExclusive` | `OneUploadAtATime` | |
| | `EvictedIsRetrievable` | `S3OnlyRetrievable` | `OwnContent` |
| | `ContentAlwaysSurvives` | `ContentSurvives` | `OwnContent` |
| | `RowsLeadToFiles` | `LocalReadable` | `OwnContent` |
| `ServerProofs` | `ServerInvariant`, `TypeCorrect` | `ServerInv`, `TypeOK` | |
| | `NoTransactionCut` | `NoTxAfterClose` | |
| | `SearchMissesNothing` | `NoSilentGap` | |
| | `SearchForgetsDeleted` | `NoGhost` | |
| `AccountsProofs` | `AccountsInvariant`, `TypeCorrect` | `AccountsInv`, `TypeOK` | |
| | `TokensStayUsable` | `TokenUsable` | |
| | `DeletionLeavesNothing` | `NothingLeftBehind` | |
| `RulesProofs` | `RulesInvariant`, `TypeCorrect` | `RulesInv`, `TypeOK` | |
| | `CountsStayExact` | `CountsExact` | |
| | `FileNamesStayUnique` | `OneRowPerFileName` | |
| | `ReloadsAreComplete` | `ReloadMatchesFile` | |
| | `SavesAreNotMissed` | `NoSaveMissed` | |
| `VaultProofs` | `VaultInvariant`, `TypeCorrect` | `VaultInv`, `TypeOK` | |
| | `GuessingIsBounded` | `GuessesBounded` | |
| | `LastPasswordAlwaysOpens` | `LastPasswordOpens` | |
| `CommandsProofs` | `RoundTrip` | `WalkMbox(Mbox(texts))` is `Returned` of each text up to the first with a line that no longer fits once quoted, where it fails, for every sequence of messages | |
| | `ByteForByte` | a message that comes back is the one exported if and only if all its lines fit and end in a bare newline | |
| | `CommandsInvariant` | `CommandsInv` | |
| | `ImportsAreFaithful` | `ImportFaithful` | |
| | `BackupsRestore` | `BackupRestorable` | |
| | `RestoreInvariant`, `RestoresTypeCorrect` | `RestoreInv`, `TypeOK` of `Restore` | |
| | `CacheKeepsBudget` | `BudgetKept` | |
| | `EveryCopyAccounted` | `CopiesAccounted` | |

**Assumptions.** The assumptions on constants are in the component modules (`...Assumption`), so every run
evaluates them: bounds are numbers, the "nothing" values are not data, sets a run needs are not
empty. Four groups of theorems assume more, because the code does:

* `DistinctSeconds`: no two Writers name their files alike. The code does **not** establish it; the theorems say
  that colliding names are the only way for a row to lose its file, however many jobs overlap
  and whatever crashes, sweeps, failures and renumberings occur. The run `concurrent` has it too.
* `OneJobOrEpoch` (`NothingPassedOver`): the runs of an account do not overlap, or folders keep their UIDVALIDITY.
  With both, a job's stale copy of the folder row moves the new watermark too far (section 3).
* One job (`MessageIdsStayUnique`): the check for a duplicate and the insert are apart, so two runs of an
  account may both find a Message-ID absent and store it in two folders.
* `OwnContent`: different emails have different object keys and base names. Section 5 says when the code
  does not give them; two rows that share an object or a path do lose it to each other.

**Inductive invariants.** None of the properties is inductive as it stands. What is proved, after TLC has
checked it as an invariant of the component's run, is a conjunction of named parts, each with its own step lemma:

* `MailboxSync`, files and server. A rename could replace a file some row names, and the row a job is
  about to insert must name a file that holds its message. `JobInv` says what goes with each `pc`;
  `FlaggedPresent`, that only messages that are there carry `\Deleted`; `FileInv`, that jobs inside folders have
  different seconds (`SecondsApart`), that a row's name is below the counter of any job of that second
  (`NamesUsed`), so that no later rename hits it, and that the files of a job in `commit` or `persist` are in
  place unless swept (`FilesOf`); `ServerInv`, that UIDs from `uidNext` on are empty, that a UID in a
  job's batch still means the same message or none while the numbering holds (`SessionOf`), so that a
  deletion hits what was archived.
* `MailboxSync`, watermark: `MarkInv`. Every UID up to the folder row's watermark (`RowMark`) and up to a
  job's copy of it (`JobMark`) is safe, and in a folder being read whatever lies below a message still in
  the batch is safe or in the batch as well (`BatchMark`). `DuplicateInv` adds to uniqueness that a message
  being stored has no row yet.
* `CursorSync`: `CursorInv`. `ReachInv` says of every cursor, stored or held by a job, that what it will not
  return again is archived, skipped or still in the job's batch; it needs `ServerInv` (a message in a folder is in its log)
  and `JobInv` (positions lie within the log). `RowsInv` says that the synthetic UIDs of a folder have no gaps: a
  job's next UID is free only if nobody archived in that folder since it looked.
* `S3Mirror`: `UploadInv` (who holds a queue row, and what status that implies), `ContentInv` (whatever a row, a
  worker, a retention run or a request carries belongs to its email; an object that was recorded is there unless the
  email is doomed; a file is only removed for an email whose local copy is given up), `MoveInv` (a local email's
  file is at its row's path, or at the destination of the one move that has yet to write the row).
* `Server`: `ServerInv`. `ProcessInv` ties phases to services, `RunInv` makes the run that waits the one the writer
  executes and the only one on its email. `GapInv` and `GhostInv` say what an index, or one under construction, lacks
  and holds besides what the exceptions name: a write that may still land belongs to an email that was counted (`late` lies
  within `missed`), and while a reindex builds, the old index is empty.
* `Accounts`: `AccountsInv`. `TokenInv`: a token that has not run out is accepted, so a job that kept or
  refreshed one is about to store an accepted one. `LeftoverInv`: a deletion no sync overlaps
  knows every search hit and every email a reindex has still to index (`Unreached`), and once the row is gone only
  the directory can be left. `ReindexInv`: a reindex holds emails only while it indexes, and a deleted account has none.
* `Rules`: `RulesInv`. `VersionInv`, `TodoInv` and `ListedInv` say that what a reload looked up by name still holds
  unless a request touched the name or the file has it twice, `PresentInv` that the rules applied so far, of several
  with one name the last, are in the table, `PendingInv` that the current version of the file is applied or on its way.
* `Vault`: `VaultInv`. `LockInv`: before a lockout guesses are counted failures, after it only requests in flight can
  add one. While undisturbed there is at most one writer (`OneWriter`), the files fit together and the last password, or
  lack exactly what the writer's place says (`Settled`, `Prepared`), and every DEK in a caller's hands is
  the stored one (`DekInv`).
* `Commands`: `CommandsInv`. Names are unique and every local row has its file, where the request being
  served may just have moved it (`ArchiveInv`); an import's report agrees with the rows and is only given when
  the walk came to its end (`JobsInv`); the key files lag one
  another in a fixed order (`KeyInv`); a row a backup has copied has its file in the archive file, in a directory still to
  be read, or in the part of the present one not reached yet (`CopyInv`, `SealInv`).
* `Restore`: `RestoreInv`. A reader holds an item exactly while it works on one (`ReadersOk`); the cache lists an entry
  once and its byte count is the sum of the sizes listed (`CacheOk`); every copy delivered is a record, an outcome
  about to be recorded or one a fault lost (`CopiesAccounted`, itself inductive beside `EmailsOk`, `TargetOk` and `BoundsOk`).

`RoundTrip`, `ByteForByte` and the cache's `Bytes` are about folds over sequences. The prover has no induction over an operator, so
`CommandsProofs` states induction for sets of numbers and derives from it that `FoldLeft` is the last value of a
step-by-step history. The reader is then followed along each exported entry, whole or cut short; `Bytes` of a list is shown to be
what its parts have, so that moving to the front, dropping the last and removing an entry change the sum by that entry's size.

**Only model-checked.** All liveness properties (`EveryMessageReached` of both syncs, `EveryUploadSettles`, `EntriesSettle`,
`StopsByItself`): liveness under fairness and ENABLED are outside the prover's reach.

## 5. What is not modelled, and what is assumed

* The IMAP library's reader and its channel of 16 messages, on whose connection STORE and EXPUNGE are
  issued while UID FETCH still streams: whether all can wait on all depends on code that is not in
  the repository. In `MailboxSync` the channel is filled at once.
* Notifications: one map under one lock, and deliveries without retry or state.
* Search queries and ranking (a library's), the parser of dates and sizes in rule conditions (a
  condition is a truth value per message), MIME parsing, languages, logging, pages.
* Plain CRUD without further effect: sync logs (a crash leaves one in status "running"), the audit
  log, settings tables, OAuth2 app registration.
* `marchi import` of directories of `.eml` files (it differs in the walk only) and of mbox files other programs wrote.
* Errors of reading `rules.yaml` or listing the rules, and a watcher whose event queue overflows; the uploader's stop and
  the restore batches in the chain of a shutdown, which `backend.close` waits for as it does for a reindex.
* Ages, thresholds, backoff delays and retries inside a client (any eligible email may be due, a
  request succeeds or fails), encryption (a key is the pair of salt and password).
* The bootstrap of a vault while a backup copies its keys; the lockout of more than one address; the
  sweep of old lockout entries.
* Opening a key file and writing its few bytes is one step in `Vault`; the cache's larger files are two.
* `Commands` lets the server serve requests beside an import although an unlocked server holds the index
  open: during a reindex it does not.
* Instances of `S3Mirror` give every email a key and a base name of its own. The code
  guarantees neither: two emails without a Message-ID and with the same bytes share an object, and
  names repeat across the folders of one account within a second, where a move's rename replaces the
  other email's file. Both are hazards without a property that could hold.
* No crash loses a completed `rename` or a committed transaction (SQLite's and the filesystem's promise).

## 6. Plan

Done: all modules above, and the proofs of every invariant the runs check. Next:

1. `S3Mirror` with equal base names in different directories, as far as a property holds for it.
2. `Server` with the uploader's stop and a restore batch among the background jobs of the shutdown.

## 7. Running

    tlc -config MCMailboxSync_concurrent.cfg MCMailboxSync
    tlapm MailboxSyncProofs.tla

Each configuration is named after its module and run. `drain` and `reach` take seconds, the others
one to three minutes with two workers. Each proof module takes between one and six minutes from nothing.
