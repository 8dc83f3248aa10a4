------------------------------ MODULE Commands ------------------------------
(***************************************************************************)
(* The commands that work on the data directory in processes of their own, *)
(* beside the server and beside each other:                                *)
(*                                                                         *)
(*   - marchi import (cmd_import.go, internal/importer), of mbox files the  *)
(*     export wrote (httpapi/export.go) and of Maildir folders;             *)
(*   - marchi backup run and backup verify (internal/backup).               *)
(*                                                                         *)
(* They share the database, the Maildir tree and the key files with the    *)
(* server, which deletes, evicts and moves emails and changes the password *)
(* meanwhile.  One process at a time holds the search index open.          *)
(***************************************************************************)
EXTENDS Naturals, Sequences, FiniteSets, SequencesExt

CONSTANTS
    Imports,            \* import processes
    Folders,            \* directories of the Maildir tree, in the order of a walk
    Source,             \* import -> [type, path]: what --path holds
    Target,             \* import -> its --folder
    Ids,                \* the Message-IDs, and "none" for a message without one
    None,
    MaxLine,            \* the bytes a bufio.Scanner can buffer, 64 MB
    MaxFiles,           \* bound: files ever written to the Maildir tree
    MaxKeys,            \* bound: passwords ever set
    MaxEvents           \* bound: deletions, evictions, moves, failures and crashes

Dirs == {Folders[k] : k \in DOMAIN Folders}

(* A message is a sequence of lines: "from" begins with From and a space   *)
(* after its quotes >, size is the length without them, cr and nl are the  *)
(* carriage return and the newline; only a last line that is not empty may *)
(* have no newline.  The first line gives the Message-ID.                  *)
Kinds    == Ids \cup {"from", "other"}
LineType == [is : Kinds, quotes : Nat, size : Nat, cr : BOOLEAN, nl : BOOLEAN]
Texts    == {t \in Seq(LineType) : \A k \in DOMAIN t :
                ~t[k].nl => k = Len(t) /\ (t[k].is # "other" \/ t[k].quotes + t[k].size > 0 \/ t[k].cr)}

(* An mbox file that the export wrote is the messages in it; a Maildir     *)
(* folder has two directories of entries, not all of them regular files.   *)
Entries      == Seq([regular : BOOLEAN, text : Texts])
MboxFile     == [type : {"mbox"}, path : Seq(Texts)]
MaildirTree  == [type : {"maildir"}, path : [cur : Entries, new : Entries]]

KeyNames == {"salt", "verify", "dek"}
RowType  == [name : Nat, id : Ids, folder : Dirs, uid : Nat, dir : Dirs, local : BOOLEAN]
FileType == [name : Nat, dir : Dirs, text : Texts]
CopyType == [db : SUBSET RowType, tar : SUBSET FileType, keys : [KeyNames -> Nat]]

ASSUME CommandsAssumption ==
    /\ MaxLine \in Nat \ {0} /\ MaxFiles \in Nat /\ MaxKeys \in Nat /\ MaxEvents \in Nat
    /\ Folders \in Seq(Dirs) /\ Target \in [Imports -> Dirs]
    /\ \A i \in Imports : Source[i] \in MboxFile \/ Source[i] \in MaildirTree
    /\ "none" \in Ids /\ None \notin Imports \cup CopyType

------------------------------------------------------------------------------
Blank    == [is |-> "other", quotes |-> 0, size |-> 0, cr |-> FALSE, nl |-> TRUE]
Envelope == [is |-> "from", quotes |-> 0, size |-> 0, cr |-> FALSE, nl |-> TRUE]
MessageId(text) == IF text # <<>> /\ text[1].is \in Ids THEN text[1].is ELSE "none"

(* bufio.ScanLines drops a carriage return, and both who call it write a   *)
(* newline after the line, whether there was one or not.  A line that does *)
(* not fit the buffer with its end ends the scan with an error.            *)
Scan(line)  == [line EXCEPT !.cr = FALSE, !.nl = TRUE]
Fits(line)  == line.quotes + line.size + (IF line.cr THEN 1 ELSE 0) + 1 <= MaxLine
Quote(line) == IF line.is = "from" THEN [line EXCEPT !.quotes = @ + 1] ELSE line

\* How far 1, 2, ... n goes without leaving s.
Reach(s, n) == CHOOSE k \in 0 .. n : 1 .. k \subseteq s /\ (k < n => k + 1 \notin s)

\* The lines the scanner gives of a message, and whether it came to the end of it.
Cut(text)   == Reach({k \in DOMAIN text : Fits(text[k])}, Len(text))
Lines(text) == [k \in 1 .. Cut(text) |-> Scan(text[k])]
Whole(text) == Cut(text) = Len(text)

(* A scan that fails leaves what has been written of the entry; the email  *)
(* is counted as failed and the export goes on with the next one.          *)
WriteMboxEntry(text) ==
    <<Envelope>> \o [k \in 1 .. Cut(text) |-> Quote(Scan(text[k]))]
                 \o (IF Whole(text) THEN <<Blank>> ELSE <<>>)
Mbox(texts) == FoldLeft(LAMBDA file, text : file \o WriteMboxEntry(text), <<>>, texts)

\* Mutant of Unquote: only a single > is undone.
UnquoteOne(line) == IF line.quotes = 1 THEN [line EXCEPT !.quotes = 0] ELSE line

Unquote(line) == IF line.is = "from" /\ line.quotes > 0 THEN [line EXCEPT !.quotes = @ - 1] ELSE line

(* flush: the last newline goes, that of the blank line that separates     *)
(* messages or, if there is none, that of the last line.                   *)
Trim(lines) ==
    IF lines = <<>> THEN <<>>
    ELSE IF Last(lines) = Blank THEN Front(lines)
         ELSE Append(Front(lines), [Last(lines) EXCEPT !.nl = FALSE])

Flush(walk) == IF walk.started THEN Append(walk.found, Trim(walk.current)) ELSE walk.found

IsFrom(line) == line.is = "from" /\ line.quotes = 0

WalkLine(walk, line) ==
    CASE walk.failed \/ ~Fits(line) -> [walk EXCEPT !.failed = TRUE]
      [] ~walk.failed /\ Fits(line) /\ IsFrom(line) ->
            [started |-> TRUE, current |-> <<>>, found |-> Flush(walk), failed |-> FALSE]
      [] ~walk.failed /\ Fits(line) /\ ~IsFrom(line) /\ walk.started ->
            [walk EXCEPT !.current = Append(@, Unquote(Scan(line)))]
      [] OTHER -> walk

NotStarted == [started |-> FALSE, current |-> <<>>, found |-> <<>>, failed |-> FALSE]

\* The message at which the scan failed is not handed over, nor is any after it.
WalkMbox(file) ==
    LET walk == FoldLeft(WalkLine, NotStarted, file)
    IN  [failed |-> walk.failed, found |-> IF walk.failed THEN walk.found ELSE Flush(walk)]

(* A Maildir folder: every regular file of cur, then of new, as it is. *)
Regular(entries) ==
    FoldLeft(LAMBDA texts, e : IF e.regular THEN Append(texts, e.text) ELSE texts, <<>>, entries)
WalkMaildir(folder) == Regular(folder.cur) \o Regular(folder.new)

(* What an exported message is on its way back: all lines end in a bare    *)
(* newline, and from a line too long for the export on it is missing.      *)
Returned(text) == IF Whole(text) THEN Lines(text) ELSE Trim(Lines(text))

\* What the walk hands to an import, and the texts it should archive.
Walk == [i \in Imports |->
    IF Source[i].type = "mbox" THEN WalkMbox(Mbox(Source[i].path))
    ELSE [failed |-> FALSE, found |-> WalkMaildir(Source[i].path)]]
Walked == [i \in Imports |-> Walk[i].found]
Wanted == [i \in Imports |->
    IF Source[i].type = "mbox" THEN {Returned(Source[i].path[k]) : k \in DOMAIN Source[i].path}
    ELSE {e.text : e \in {x \in ToSet(Source[i].path.cur \o Source[i].path.new) : x.regular}}]

------------------------------------------------------------------------------
VARIABLES
    account,    \* of --as-account: "none", "imported" or "imap"
    lastUid,    \* folders.last_uid, 0 as well when the folder has no row
    rows,       \* emails: [name, id, folder, uid, dir, local]; name stands for the id
    files,      \* the Maildir tree: [name, dir, text]
    nextName,
    index,      \* the import that holds the search index open
    import,
    gone,       \* history: the Message-IDs of deleted emails
    server,     \* the request on an email the server is serving
    store,      \* .salt, .mk-verify, .dek: the password each was made with, 0: no file
    changing,   \* key files a password change has replaced so far
    backup,
    dest,       \* the destination directory
    events

archiveVars == <<account, lastUid, rows, files, nextName>>
serverVars  == <<server, gone>>
keyVars     == <<store, changing>>
backupVars  == <<backup, dest>>
vars == <<archiveVars, index, import, serverVars, keyVars, backupVars, events>>

KeyFiles == <<"salt", "verify", "dek">>             \* in the order they are copied
\* excused is history: a fault hit the import, or another took UIDs it had read as free.
IdleImport == [pc |-> "idle", uid |-> 0, at |-> 1, failed |-> {}, excused |-> FALSE]
IdleServer == [pc |-> "idle", kind |-> None, row |-> None, to |-> None]
IdleBackup == [pc |-> "idle", dir |-> 1, todo |-> {}, key |-> 1]
NoKeys == [k \in KeyNames |-> 0]
\* touched and mixed are history: emails requests worked on, keys changed meanwhile.
Fresh == [db |-> {}, tar |-> {}, keys |-> NoKeys, manifest |-> None,
          empty |-> TRUE, touched |-> {}, mixed |-> FALSE]

Init ==
    /\ account = "none" /\ lastUid = [f \in Dirs |-> 0]
    /\ rows = {} /\ files = {} /\ nextName = 1 /\ index = None
    /\ import = [i \in Imports |-> IdleImport]
    /\ server = IdleServer /\ gone = {}
    /\ store \in {NoKeys, [k \in KeyNames |-> 1]} /\ changing = 0
    /\ backup = IdleBackup /\ dest = Fresh
    /\ events = 0

Event == events < MaxEvents /\ events' = events + 1

------------------------------------------------------------------------------
(* marchi import, up to its hold on the index. *)
ImportAt(i, pc) == import[i].pc = pc
ImportStep      == UNCHANGED <<serverVars, keyVars, backupVars>>
Ends(i)         == import' = [import EXCEPT ![i] = IdleImport]
Text(i)         == Walked[i][import[i].at]

\* An account found by its email has to be an import account.
Resolve(i) ==
    /\ ImportAt(i, "idle") /\ account # "imap"
    /\ import' = [import EXCEPT ![i].pc = IF account = "none" THEN "create" ELSE "upsert"]
    /\ ImportStep /\ UNCHANGED <<archiveVars, index, events>>

\* UNIQUE(email): it may exist by now.
CreateAccount(i) ==
    /\ ImportAt(i, "create")
    /\ IF account = "none"
       THEN account' = "imported" /\ import' = [import EXCEPT ![i].pc = "upsert"]
       ELSE Ends(i) /\ UNCHANGED account
    /\ ImportStep /\ UNCHANGED <<lastUid, rows, files, nextName, index, events>>

\* The server adds an account with this email.
AddAccount ==
    /\ account = "none" /\ account' = "imap"
    /\ UNCHANGED <<lastUid, rows, files, nextName, index, import, serverVars, keyVars, backupVars, events>>

(* The UIDVALIDITY of an import folder is constant, so last_uid is kept. *)
UpsertFolder(i) ==
    /\ ImportAt(i, "upsert")
    /\ import' = [import EXCEPT ![i].pc = "open", ![i].uid = lastUid[Target[i]] + 1]
    /\ ImportStep /\ UNCHANGED <<archiveVars, index, events>>

OpenIndex(i) ==
    /\ ImportAt(i, "open") /\ index = None
    /\ index' = i /\ import' = [import EXCEPT ![i].pc = "check"]
    /\ ImportStep /\ UNCHANGED <<archiveVars, events>>

\* Another import has it open, or the server does.
OpenIndexFails(i) ==
    /\ ImportAt(i, "open")
    /\ Ends(i) /\ ImportStep /\ UNCHANGED <<archiveVars, index, events>>

------------------------------------------------------------------------------
(* The walk: every message is looked up by its Message-ID and archived.  A *)
(* failure is counted and the walk goes on with the UID it had.            *)
Walking(i, pc) == ImportAt(i, pc) /\ import[i].at <= Len(Walked[i])

NextMessage(i, job) ==
    import' = [import EXCEPT ![i] = [job EXCEPT !.pc = "check", !.at = @ + 1]]

Failed(i) == [import[i] EXCEPT !.failed = @ \cup {import[i].at}]

IsDuplicate(i) == \E r \in rows : r.id = MessageId(Text(i)) /\ r.id # "none"

CheckDuplicate(i) ==
    /\ Walking(i, "check")
    /\ IF IsDuplicate(i) THEN NextMessage(i, import[i])
       ELSE import' = [import EXCEPT ![i].pc = "file"]
    /\ ImportStep /\ UNCHANGED <<archiveVars, index, events>>

(* ArchiveOne: the file first, then one transaction for row and last_uid. *)
WriteFile(i) ==
    /\ ImportAt(i, "file") /\ nextName <= MaxFiles
    /\ files' = files \cup {[name |-> nextName, dir |-> Target[i], text |-> Text(i)]}
    /\ nextName' = nextName + 1
    /\ import' = [import EXCEPT ![i].pc = "insert"]
    /\ ImportStep /\ UNCHANGED <<account, lastUid, rows, index, events>>

UidTaken(i) == \E r \in rows : r.folder = Target[i] /\ r.uid = import[i].uid

InsertRow(i) ==
    LET f == Target[i]  u == import[i].uid IN
    /\ ImportAt(i, "insert") /\ ~UidTaken(i)
    /\ rows' = rows \cup {[name |-> nextName - 1, id |-> MessageId(Text(i)), folder |-> f, uid |-> u,
                           dir |-> f, local |-> TRUE]}
    /\ lastUid' = [lastUid EXCEPT ![f] = IF @ < u THEN u ELSE @]
    /\ import' = [j \in Imports |->
         IF j = i THEN [import[i] EXCEPT !.pc = "check", !.at = @ + 1, !.uid = u + 1]
         ELSE IF ImportAt(j, "open") /\ Target[j] = f THEN [import[j] EXCEPT !.excused = TRUE]
         ELSE import[j]]
    /\ ImportStep /\ UNCHANGED <<account, files, nextName, index, events>>

InsertConflict(i) ==
    /\ ImportAt(i, "insert") /\ UidTaken(i) /\ NextMessage(i, Failed(i))
    /\ ImportStep /\ UNCHANGED <<archiveVars, index, events>>

MessageFails(i) ==
    /\ import[i].pc \in {"check", "file", "insert"} /\ import[i].at <= Len(Walked[i]) /\ Event
    /\ NextMessage(i, [Failed(i) EXCEPT !.excused = TRUE])
    /\ ImportStep /\ UNCHANGED <<archiveVars, index>>

FinishImport(i) ==
    /\ ImportAt(i, "check") /\ import[i].at > Len(Walked[i]) /\ ~Walk[i].failed
    /\ import' = [import EXCEPT ![i] =
         [IdleImport EXCEPT !.pc = "done", !.failed = import[i].failed, !.excused = import[i].excused]]
    /\ index' = None
    /\ ImportStep /\ UNCHANGED <<archiveVars, events>>

\* The walk's error ends the command, without a report.
WalkFails(i) ==
    /\ ImportAt(i, "check") /\ import[i].at > Len(Walked[i]) /\ Walk[i].failed
    /\ Ends(i) /\ index' = None
    /\ ImportStep /\ UNCHANGED <<archiveVars, events>>

RunAgain(i) == ImportAt(i, "done") /\ Ends(i) /\ ImportStep /\ UNCHANGED <<archiveVars, index, events>>

KillImport(i) ==
    /\ import[i].pc \notin {"idle", "done"} /\ Event
    /\ Ends(i) /\ index' = IF index = i THEN None ELSE index
    /\ ImportStep /\ UNCHANGED archiveVars

------------------------------------------------------------------------------
(* The server's requests on one email; they work on the row they read. *)
ServerStep == UNCHANGED <<account, lastUid, nextName, index, import, keyVars, backup>>
ServerAt(kind, pc) == server.pc = pc /\ server.kind = kind
Replace(r, new) == rows' = (rows \ {r}) \cup {new}
FileOf(r) == {f \in files : f.name = r.name /\ f.dir = r.dir}

StartRequest(kind, r, to) ==
    /\ server.pc = "idle" /\ r.local /\ Event
    /\ server' = [pc |-> "first", kind |-> kind, row |-> r, to |-> to]
    /\ dest' = IF backup.pc = "idle" THEN dest ELSE [dest EXCEPT !.touched = @ \cup {r.name}]
    /\ ServerStep /\ UNCHANGED <<rows, files, gone>>

\* deleteEmailCompletely and evictToS3Only: the row, then the file.
DeleteRow ==
    /\ ServerAt("delete", "first")
    /\ rows' = rows \ {server.row} /\ gone' = gone \cup {server.row.id}
    /\ server' = [server EXCEPT !.pc = "file"]
    /\ ServerStep /\ UNCHANGED <<files, events, dest>>

EvictRow ==
    /\ ServerAt("evict", "first")
    /\ Replace(server.row, [server.row EXCEPT !.local = FALSE])
    /\ server' = [server EXCEPT !.pc = "file"]
    /\ ServerStep /\ UNCHANGED <<files, events, gone, dest>>

RemoveFile ==
    /\ server.pc = "file"
    /\ files' = files \ FileOf(server.row) /\ server' = IdleServer
    /\ ServerStep /\ UNCHANGED <<rows, events, gone, dest>>

\* moveEmailToFolder: the file, then the row, with a UID no import reaches (0).
RenameFile ==
    /\ ServerAt("move", "first")
    /\ files' = (files \ FileOf(server.row)) \cup {[f EXCEPT !.dir = server.to] : f \in FileOf(server.row)}
    /\ server' = [server EXCEPT !.pc = "row"]
    /\ ServerStep /\ UNCHANGED <<rows, events, gone, dest>>

AssignFolder ==
    /\ server.pc = "row"
    /\ Replace(server.row, [server.row EXCEPT !.folder = server.to, !.dir = server.to, !.uid = 0])
    /\ server' = IdleServer
    /\ ServerStep /\ UNCHANGED <<files, events, gone, dest>>

\* A password change renames .dek, .mk-verify and .salt into place.
ReplaceKey ==
    LET k == Reverse(KeyFiles)[changing + 1] IN
    /\ store[k] \in 1 .. MaxKeys - 1 /\ store' = [store EXCEPT ![k] = @ + 1]
    /\ changing' = (changing + 1) % Len(KeyFiles)
    /\ dest' = [dest EXCEPT !.mixed = @ \/ backup.pc = "keys"]
    /\ UNCHANGED <<archiveVars, index, import, serverVars, backup, events>>

------------------------------------------------------------------------------
(* marchi backup run: the database, the Maildir tree directory by          *)
(* directory, the key files, the manifest of what was written.             *)
BackupStep == UNCHANGED <<archiveVars, index, import, serverVars, keyVars, events>>

StartBackup ==
    /\ backup.pc = "idle" /\ dest.empty
    /\ backup' = [IdleBackup EXCEPT !.pc = "db"]
    /\ BackupStep /\ UNCHANGED dest

\* The caller picks a directory that does not exist.
PickDestination ==
    /\ backup.pc = "idle" /\ ~dest.empty
    /\ dest' = Fresh /\ BackupStep /\ UNCHANGED backup

\* SQLite's online backup is a snapshot.
BackupDatabase ==
    /\ backup.pc = "db"
    /\ dest' = [dest EXCEPT !.db = rows, !.empty = FALSE,
                            !.touched = IF server.pc = "idle" THEN {} ELSE {server.row.name}]
    /\ backup' = [backup EXCEPT !.pc = "dir"]
    /\ BackupStep

ReadDir ==
    /\ backup.pc = "dir" /\ backup.todo = {} /\ backup.dir <= Len(Folders)
    /\ backup' = [backup EXCEPT !.pc = "tar", !.todo = {f \in files : f.dir = Folders[backup.dir]}]
    /\ BackupStep /\ UNCHANGED dest

TarFile ==
    /\ backup.pc = "tar"
    /\ \E f \in backup.todo \cap files :
         /\ dest' = [dest EXCEPT !.tar = @ \cup {f}]
         /\ backup' = [backup EXCEPT !.todo = @ \ {f}]
    /\ BackupStep

TreeDone ==
    /\ backup.pc = "tar" /\ backup.todo = {}
    /\ backup' = [backup EXCEPT !.dir = @ + 1, !.pc = IF backup.dir = Len(Folders) THEN "keys" ELSE "dir"]
    /\ dest' = [dest EXCEPT !.mixed = backup.dir = Len(Folders) /\ changing # 0]
    /\ BackupStep

\* What an aborted backup has written stays, without a manifest.
AbortBackup == backup' = IdleBackup /\ dest' = [Fresh EXCEPT !.empty = FALSE]

\* A file listed and gone when its turn comes aborts the backup.
TarFails ==
    /\ backup.pc = "tar" /\ backup.todo \ files # {}
    /\ AbortBackup /\ BackupStep

\* A key file that does not exist is left out.
CopyKey ==
    LET k == KeyFiles[backup.key] IN
    /\ backup.pc = "keys" /\ backup.key <= Len(KeyFiles)
    /\ dest' = [dest EXCEPT !.keys[k] = store[k]]
    /\ backup' = [backup EXCEPT !.key = @ + 1]
    /\ BackupStep

Content == [db |-> dest.db, tar |-> dest.tar, keys |-> dest.keys]

\* Mutant of WriteManifest: the database is copied last.
WriteManifestDbLast ==
    /\ backup.pc = "keys" /\ backup.key > Len(KeyFiles)
    /\ dest' = [dest EXCEPT !.db = rows, !.manifest = [Content EXCEPT !.db = rows]]
    /\ backup' = IdleBackup /\ BackupStep

WriteManifest ==
    /\ backup.pc = "keys" /\ backup.key > Len(KeyFiles)
    /\ dest' = [dest EXCEPT !.manifest = Content]
    /\ backup' = IdleBackup /\ BackupStep

BackupFails ==
    /\ backup.pc # "idle" /\ AbortBackup /\ BackupStep

\* A copy of the backup loses part of the tree.
Damage ==
    /\ backup.pc = "idle" /\ dest.tar # {} /\ Event
    /\ \E f \in dest.tar : dest' = [dest EXCEPT !.tar = @ \ {f}]
    /\ UNCHANGED <<archiveVars, index, import, serverVars, keyVars, backup>>

(* marchi backup verify: there is a manifest and every file matches it. *)
Verify == dest.manifest = Content

------------------------------------------------------------------------------
ImportNext == \E i \in Imports :
    \/ Resolve(i) \/ CreateAccount(i) \/ UpsertFolder(i) \/ OpenIndex(i) \/ OpenIndexFails(i)
    \/ CheckDuplicate(i) \/ WriteFile(i) \/ InsertRow(i) \/ InsertConflict(i)
    \/ MessageFails(i) \/ FinishImport(i) \/ WalkFails(i) \/ RunAgain(i) \/ KillImport(i)

ServerNext ==
    \/ AddAccount
    \/ \E r \in rows : \/ \E kind \in {"delete", "evict"} : StartRequest(kind, r, None)
                       \/ \E to \in Dirs \ {r.dir} : StartRequest("move", r, to)
    \/ DeleteRow \/ EvictRow \/ RemoveFile \/ RenameFile \/ AssignFolder
    \/ ReplaceKey

BackupNext ==
    \/ StartBackup \/ PickDestination \/ BackupDatabase \/ ReadDir \/ TarFile \/ TreeDone \/ TarFails
    \/ CopyKey \/ WriteManifest \/ BackupFails \/ Damage

Next == ImportNext \/ ServerNext \/ BackupNext

Spec == Init /\ [][Next]_vars

------------------------------------------------------------------------------
(* A Message-ID is archived once, however many imports of it run, overlap, *)
(* fail half-way or are repeated.                                          *)
ImportedOnce == \A r, s \in rows : r.id = s.id /\ r.id # "none" => r = s

(* An import that reports no failure has archived every message it was to  *)
(* import, unless the email was deleted, and one that met no fault and     *)
(* whose UIDs no other import took meanwhile reports none.                 *)
ReportTrue == \A i \in Imports :
    /\ ImportAt(i, "done") /\ import[i].failed = {} =>
         {MessageId(t) : t \in Wanted[i]} \subseteq {r.id : r \in rows} \cup gone
    /\ import[i].failed # {} => import[i].excused

(* What was exported to mbox and imported again is the exported message,   *)
(* From lines in its text included, but for the ends of its lines and what *)
(* comes after a line too long to scan; it stands in the file its row      *)
(* names.  That of a Maildir is the same.                                  *)
ContentKept == \A r \in rows :
    r.local /\ r # server.row => \E f \in FileOf(r) :
        MessageId(f.text) = r.id /\ \E i \in Imports : f.text \in Wanted[i]

ImportFaithful == ImportedOnce /\ ReportTrue /\ ContentKept

(* backup run beside a working archive: a backup that verifies holds the   *)
(* file of every email its database says is local, unless a request worked *)
(* on that email while the backup ran, and key files of one password,      *)
(* unless the password changed while they were copied.                     *)
BackupRestorable == Verify =>
    /\ \A r \in dest.db : r.local /\ r.name \notin dest.touched =>
         \E f \in dest.tar : f.name = r.name /\ f.dir = r.dir /\ MessageId(f.text) = r.id
    /\ ~dest.mixed => \A k, l \in DOMAIN dest.keys : dest.keys[k] = dest.keys[l]
=============================================================================
