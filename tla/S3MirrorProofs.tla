--------------------------- MODULE S3MirrorProofs ---------------------------
(***************************************************************************)
(* Proofs about S3Mirror, for any emails, workers, runs, requests and      *)
(* bounds: type correctness and OneUploadAtATime; and, when messages have  *)
(* their own object keys and file names, S3OnlyRetrievable,                *)
(* ContentSurvives and LocalReadable.                                      *)
(***************************************************************************)
EXTENDS S3Mirror, FiniteSetTheorems, TLAPS

(* Which fields of a row go together, and what a step of a worker, a run or *)
(* a request relies on.                                                     *)
RowOf(e) ==
    /\ ~row[e].there => row[e] = NoRow
    /\ queue[e] # NoEntry => row[e].there
    /\ queue[e].status = "none" => queue[e] = NoEntry
    /\ queue[e].status \in {"pending", "uploading"} =>
           queue[e].path \in Paths /\ queue[e].tries < MaxAttempts

WorkerOf(w) ==
    /\ worker[w].pc = "idle" <=> worker[w].email = None
    /\ worker[w].pc # "idle" => worker[w].path \in Paths
    /\ worker[w].pc = "put" => worker[w].data \in Keys

RunnerOf(r) == runner[r].pc = "purgeRow" => runner[r].email \in Emails

RequestOf(q) ==
    /\ request[q].pc # "idle" => request[q].email \in Emails
    /\ request[q].pc \in {"rename", "assign", "back", "late"} =>
           \/ request[q].pc = "assign" /\ request[q].dest = None
           \/ /\ request[q].path \in Paths /\ request[q].dest \in Paths
              /\ request[q].path # request[q].dest

FieldsInv ==
    /\ \A e \in Emails : RowOf(e)
    /\ \A w \in Workers : WorkerOf(w)
    /\ \A r \in Runners : RunnerOf(r)
    /\ \A q \in Requests : RequestOf(q)

(* Whoever has a queue row: the dispatcher or one worker. *)
Held(e) == \/ \E i \in claimed : i.email = e
           \/ \E w \in Workers : worker[w].email = e

HoldInv ==
    /\ \A i, j \in claimed : i.email = j.email => i = j
    /\ \A v, w \in Workers : worker[v].email # None /\ worker[v].email = worker[w].email => v = w
    /\ \A i \in claimed, w \in Workers : worker[w].email # i.email
    /\ \A e \in Emails : Held(e) => /\ row[e].there \/ e \in doomed
                                    /\ queue[e].status \in {"uploading", "none"}
    /\ \A e \in Emails : queue[e].status = "uploading" =>
           Held(e) \/ e \in unmarked \/ restarts > 0

UploadInv == TypeOK /\ FieldsInv /\ HoldInv

(* No two messages have the same content, nor files of the same base name. *)
OwnContent == \A e, f \in Emails : Key[e] = Key[f] \/ Name[e] = Name[f] => e = f

(* An email's local copy has been evicted or deleted for good. *)
Past(e) == Evicted(e) \/ (e \in doomed /\ ~row[e].there)

Stored(e) == bucket[Key[e]] = Key[e] \/ e \in doomed

Named(e, p) == p # None => p[2] = Name[e]

(* Every path a row, an item or a handler carries has its email's name. *)
NamesInv ==
    /\ \A e \in Emails : Named(e, row[e].path) /\ Named(e, queue[e].path)
    /\ \A i \in claimed : Named(i.email, i.path)
    /\ \A w \in Workers : worker[w].pc # "idle" => Named(worker[w].email, worker[w].path)
    /\ \A r \in Runners : \A d \in runner[r].due : Named(d.email, d.path)
    /\ \A q \in Requests : request[q].pc # "idle" =>
           /\ Named(request[q].email, request[q].path)
           /\ Named(request[q].email, request[q].dest)

(* What the files and the objects under an email's name and key hold. *)
FilesInv == \A e \in Emails, p \in Paths : p[2] = Name[e] => files[p] \in {None, Key[e]}

ObjectsInv ==
    /\ \A e \in Emails : row[e].etag => Stored(e)
    /\ \A e \in Emails : Evicted(e) => row[e].etag \/ e \in doomed
    /\ \A w \in Workers :
           /\ worker[w].pc = "put" => worker[w].data = Key[worker[w].email]
           /\ worker[w].pc = "done" => Stored(worker[w].email)
    /\ \A r \in Runners : runner[r].pc \in {"evict", "evictFile"} =>
           \A d \in runner[r].due : row[d.email].etag \/ d.email \in doomed

(* Whoever is about to remove a file does it for an email that is past, and  *)
(* while an email is not, its content is in some file.                       *)
RemovalInv ==
    /\ \A r \in Runners : runner[r].pc \in {"evictFile", "directFile"} /\ runner[r].path # None =>
           \E e \in Emails : Past(e) /\ Named(e, runner[r].path)
    /\ \A q \in Requests : request[q].pc = "file" => Past(request[q].email)
    /\ \A e \in Emails : row[e].there /\ ~Past(e) /\ e \notin doomed =>
           \E p \in Paths : p[2] = Name[e] /\ files[p] = Key[e]

ContentInv == NamesInv /\ FilesInv /\ ObjectsInv /\ RemovalInv

(* Where the file of a local email is, while its moves do not overlap: at    *)
(* the path of its row, or at the destination of the one move in between.    *)
FileOnlyAt(e, p) == \A o \in Paths : o[2] = Name[e] => (files[o] # None <=> o = p)

FileOf(e) ==
    /\ \A q \in Renaming : request[q].email = e =>
           row[e].path = request[q].path /\ FileOnlyAt(e, request[q].dest)
    /\ (\A q \in Renaming : request[q].email # e) => FileOnlyAt(e, row[e].path)

MoveInv ==
    /\ \A e \in Emails : Local(e) => row[e].path \in Paths
    /\ \A e \in Emails : ~row[e].there /\ e \notin doomed =>
           \A p \in Paths : p[2] = Name[e] => files[p] = None
    /\ \A q \in Requests : request[q].pc # "idle" =>
           row[request[q].email].there \/ request[q].email \in doomed
    /\ \A q \in Requests : request[q].pc = "assign" /\ request[q].dest = None =>
           Past(request[q].email)
    /\ \A o, q \in Renaming : request[o].email = request[q].email =>
           o = q \/ request[q].email \in crossed
    /\ \A q \in Requests : request[q].pc \in {"back", "late"} => request[q].email \in torn
    /\ \A e \in Emails \ (torn \cup crossed) : Local(e) => FileOf(e)
------------------------------------------------------------------------------
(* Facts about the records the model is built from. *)
LEMMA HomeIsPath == ASSUME NEW e \in Emails PROVE HomePath(e) \in Paths
  BY EmailsAssumption DEF HomePath, Paths

LEMMA NoneApart == None \notin Emails /\ None \notin Keys /\ None \notin Paths
  BY EmailsAssumption

LEMMA KeyIsKey == ASSUME NEW e \in Emails PROVE Key[e] \in Keys
  BY DEF Keys

LEMMA EmptyRecords ==
  /\ NoRow \in RowRecords /\ NoEntry \in EntryRecords /\ Resting \in WorkerRecords
  /\ NoRun \in RunnerRecords /\ NoReq \in RequestRecords
  BY LimitsAssumption DEF NoRow, NoEntry, Resting, NoRun, NoReq, RowRecords, EntryRecords,
     WorkerRecords, RunnerRecords, RequestRecords, DueRecords, OrNone, Statuses

LEMMA InitUploadInv == Init => UploadInv
<1> SUFFICES ASSUME Init PROVE UploadInv
  OBVIOUS
<1>1. TypeOK
  BY EmptyRecords, LimitsAssumption DEF Init, TypeOK, OrNone
<1>2. FieldsInv
  BY DEF Init, FieldsInv, RowOf, WorkerOf, RunnerOf, RequestOf, NoRow, NoEntry, Resting, NoRun, NoReq
<1>3. HoldInv
  BY NoneApart DEF Init, HoldInv, Held, NoRow, NoEntry, Resting
<1> QED BY <1>1, <1>2, <1>3 DEF UploadInv

(* An email is archived, or its row dropped: no worker loses or gains it. *)
LEMMA UploadArchive ==
  ASSUME UploadInv, NEW e \in Emails, Archive(e)
  PROVE  UploadInv'
<1>1. HomePath(e) \in Paths /\ HomePath(e) # None
  BY HomeIsPath, NoneApart
<1>2. ~Held(e)
  BY DEF UploadInv, HoldInv, Archive, NoRow
<1>3. TypeOK'
  <2>1. row' \in [Emails -> RowRecords]
    <3>1. [NoRow EXCEPT !.there = TRUE, !.path = HomePath(e)] \in RowRecords
      BY <1>1 DEF NoRow, RowRecords, OrNone
    <3> QED BY <3>1 DEF UploadInv, TypeOK, Archive
  <2>2. files' \in [Paths -> OrNone(Keys)]
    BY KeyIsKey DEF UploadInv, TypeOK, Archive, OrNone
  <2>3. queue' \in [Emails -> EntryRecords]
    <3>1. [status |-> "pending", tries |-> 0, path |-> HomePath(e)] \in EntryRecords
      BY <1>1, LimitsAssumption DEF EntryRecords, OrNone, Statuses
    <3> QED BY <3>1 DEF UploadInv, TypeOK, Archive
  <2> QED BY <2>1, <2>2, <2>3 DEF UploadInv, TypeOK, Archive, configVars, history, counters
<1>4. FieldsInv'
  <2>1. \A f \in Emails : RowOf(f)'
    BY <1>1, LimitsAssumption DEF UploadInv, FieldsInv, TypeOK, RowOf, Archive, NoRow, NoEntry
  <2> QED BY <2>1 DEF UploadInv, FieldsInv, WorkerOf, RunnerOf, RequestOf, Archive
<1>5. HoldInv'
  BY <1>2 DEF UploadInv, HoldInv, Held, TypeOK, FieldsInv, RowOf, Archive, NoRow, NoEntry, history, counters
<1> QED BY <1>3, <1>4, <1>5 DEF UploadInv

LEMMA UploadToggle ==
  ASSUME UploadInv, ToggleS3
  PROVE  UploadInv'
<1>1. TypeOK'
  BY LimitsAssumption DEF UploadInv, TypeOK, ToggleS3, Fault, storage, history
<1>2. FieldsInv'
  BY DEF UploadInv, FieldsInv, RowOf, WorkerOf, RunnerOf, RequestOf, ToggleS3, storage
<1>3. HoldInv'
  BY DEF UploadInv, HoldInv, Held, ToggleS3, Fault, storage, history
<1> QED BY <1>1, <1>2, <1>3 DEF UploadInv

LEMMA UploadClaim ==
  ASSUME UploadInv, Claim
  PROVE  UploadInv'
<1> PICK batch \in SUBSET {e \in Emails : queue[e].status = "pending"} :
      /\ claimed' = {[email |-> e, path |-> queue[e].path] : e \in batch}
      /\ queue' = [e \in Emails |-> IF e \in batch THEN [queue[e] EXCEPT !.status = "uploading"]
                                                   ELSE queue[e]]
  BY DEF Claim
<1>1. \A e \in batch : e \in Emails /\ queue[e].status = "pending" /\ queue[e].path \in Paths
  BY DEF UploadInv, FieldsInv, RowOf
<1>2. TypeOK'
  <2>1. queue' \in [Emails -> EntryRecords]
    <3>1. \A e \in Emails : queue'[e] \in EntryRecords
      BY DEF UploadInv, TypeOK, EntryRecords, Statuses
    <3> QED BY <3>1
  <2>2. claimed' \subseteq ItemRecords
    BY <1>1 DEF ItemRecords
  <2> QED BY <2>1, <2>2 DEF UploadInv, TypeOK, Claim, configVars, history, counters
<1>3. FieldsInv'
  <2>1. \A e \in Emails : RowOf(e)'
    BY <1>1 DEF UploadInv, TypeOK, FieldsInv, RowOf, Claim, NoEntry
  <2> QED BY <2>1 DEF UploadInv, FieldsInv, WorkerOf, RunnerOf, RequestOf, Claim
<1>4. HoldInv'
  <2>1. \A e \in batch : ~Held(e) /\ row[e].there
    BY <1>1 DEF UploadInv, HoldInv, FieldsInv, RowOf, NoEntry
  <2>2. \A e \in Emails : Held(e)' <=> Held(e) \/ e \in batch
    <3>1. \A i \in claimed' : i.email \in batch
      OBVIOUS
    <3>2. \A e \in batch : [email |-> e, path |-> queue[e].path] \in claimed'
      OBVIOUS
    <3>3. \A e \in batch : \E i \in claimed' : i.email = e
      BY <3>2
    <3> QED BY <3>1, <3>3 DEF Held, Claim
  <2>3. \A e \in Emails : queue'[e].status = IF e \in batch THEN "uploading" ELSE queue[e].status
    BY DEF UploadInv, TypeOK
  <2>4. \A i \in claimed', w \in Workers : worker'[w].email # i.email
    BY <2>1 DEF Held, Claim
  <2>5. UNCHANGED <<row, worker, doomed, unmarked, restarts>>
    BY DEF Claim, history, counters
  <2>6. \A i, j \in claimed' : i.email = j.email => i = j
    OBVIOUS
  <2> QED BY <2>1, <2>2, <2>3, <2>4, <2>5, <2>6 DEF UploadInv, HoldInv
<1> QED BY <1>2, <1>3, <1>4 DEF UploadInv

LEMMA UploadHand ==
  ASSUME UploadInv, NEW w \in Workers, Hand(w)
  PROVE  UploadInv'
<1> PICK i \in claimed :
      /\ claimed' = claimed \ {i}
      /\ worker' = [worker EXCEPT ![w] = [pc |-> "read", email |-> i.email,
                                          path |-> i.path, data |-> None]]
  BY DEF Hand
<1>1. i.email \in Emails /\ i.path \in Paths /\ worker[w].email = None
  BY DEF UploadInv, TypeOK, ItemRecords, FieldsInv, WorkerOf, Hand
<1>2. TypeOK'
  <2>1. [pc |-> "read", email |-> i.email, path |-> i.path, data |-> None] \in WorkerRecords
    BY <1>1 DEF WorkerRecords, OrNone
  <2> QED BY <2>1 DEF UploadInv, TypeOK, Hand, storage, configVars, history, counters
<1>3. FieldsInv'
  <2>1. \A v \in Workers : WorkerOf(v)'
    BY <1>1, NoneApart DEF UploadInv, TypeOK, FieldsInv, WorkerOf
  <2> QED BY <2>1 DEF UploadInv, FieldsInv, RowOf, RunnerOf, RequestOf, Hand, storage
<1>4. HoldInv'
  <2>1. \A e \in Emails : Held(e)' <=> Held(e)
    BY <1>1, NoneApart DEF UploadInv, TypeOK, HoldInv, Held
  <2>2. \A v \in Workers : worker'[v].email = IF v = w THEN i.email ELSE worker[v].email
    BY DEF UploadInv, TypeOK
  <2>3. UNCHANGED <<row, queue, doomed, unmarked, restarts>>
    BY DEF Hand, storage, history, counters
  <2> QED BY <1>1, <2>1, <2>2, <2>3 DEF UploadInv, HoldInv
<1> QED BY <1>2, <1>3, <1>4 DEF UploadInv

(* A worker goes on with its email, or fails at it, or is through with it. *)
LEMMA UploadRead ==
  ASSUME UploadInv, NEW w \in Workers, Read(w) \/ Put(w) \/ PutFails(w) \/ MarkDoneFails(w)
  PROVE  UploadInv'
<1>1. /\ \A v \in Workers : worker'[v].email = worker[v].email
      /\ \A v \in Workers : v # w => worker'[v] = worker[v]
      /\ worker[w].pc # "idle" /\ worker'[w].pc # "idle"
      /\ worker'[w].path = worker[w].path
      /\ UNCHANGED <<row, queue, claimed, runner, request, doomed, unmarked, restarts>>
  <2>1. CASE Read(w)
    BY <2>1 DEF UploadInv, TypeOK, Read, At, storage, history, counters
  <2>2. CASE Put(w)
    BY <2>2 DEF UploadInv, TypeOK, Put, At, Goto, history, counters
  <2>3. CASE PutFails(w)
    BY <2>3 DEF UploadInv, TypeOK, PutFails, At, Goto, Fault, history
  <2>4. CASE MarkDoneFails(w)
    BY <2>4 DEF UploadInv, TypeOK, MarkDoneFails, At, Goto, Fault, storage, history
  <2> QED BY <2>1, <2>2, <2>3, <2>4
<1>2. worker[w].email \in Emails /\ worker[w].path \in Paths
  BY <1>1 DEF UploadInv, TypeOK, WorkerRecords, FieldsInv, WorkerOf, OrNone
<1>3. worker' \in [Workers -> WorkerRecords]
  <2>1. CASE Read(w)
    <3>1. PICK pc \in {"failed", "put"}, data \in OrNone(Keys) :
            worker' = [worker EXCEPT ![w].pc = pc, ![w].data = data]
      BY <1>2, <2>1 DEF UploadInv, TypeOK, Read
    <3>2. [worker[w] EXCEPT !.pc = pc, !.data = data] \in WorkerRecords
      BY <3>1 DEF UploadInv, TypeOK, WorkerRecords
    <3> QED BY <3>1, <3>2 DEF UploadInv, TypeOK
  <2>2. CASE Put(w) \/ PutFails(w) \/ MarkDoneFails(w)
    <3>1. PICK pc \in {"done", "failed"} : worker' = [worker EXCEPT ![w].pc = pc]
      BY <2>2 DEF Put, PutFails, MarkDoneFails, Goto
    <3>2. [worker[w] EXCEPT !.pc = pc] \in WorkerRecords
      BY <3>1 DEF UploadInv, TypeOK, WorkerRecords
    <3> QED BY <3>1, <3>2 DEF UploadInv, TypeOK
  <2> QED BY <2>1, <2>2
<1>4. bucket' \in [Keys -> OrNone(Keys)] /\ files' = files
  BY DEF UploadInv, TypeOK, WorkerRecords, Read, Put, PutFails, MarkDoneFails, storage
<1>5. TypeOK'
  BY <1>1, <1>3, <1>4, LimitsAssumption
     DEF UploadInv, TypeOK, Read, Put, PutFails, MarkDoneFails, Fault, configVars, history, counters
<1>6. FieldsInv'
  <2>1. \A v \in Workers : WorkerOf(v)'
    <3>1. worker'[w].pc = "put" => worker'[w].data \in Keys
      <4>1. CASE Read(w)
        BY <1>2, <4>1 DEF UploadInv, TypeOK, WorkerRecords, Read, OrNone
      <4>2. CASE ~Read(w)
        BY <4>2 DEF UploadInv, TypeOK, WorkerRecords, Put, PutFails, MarkDoneFails, Goto
      <4> QED BY <4>1, <4>2
    <3> QED BY <1>1, <3>1 DEF UploadInv, FieldsInv, WorkerOf
  <2> QED BY <1>1, <2>1 DEF UploadInv, FieldsInv, RowOf, RunnerOf, RequestOf
<1>7. HoldInv'
  BY <1>1 DEF UploadInv, HoldInv, Held
<1> QED BY <1>5, <1>6, <1>7 DEF UploadInv

LEMMA UploadMark ==
  ASSUME UploadInv, NEW w \in Workers, MarkDone(w) \/ MarkFailed(w) \/ MarkFailedFails(w)
  PROVE  UploadInv'
<1>1. /\ worker' = [worker EXCEPT ![w] = Resting]
      /\ UNCHANGED <<files, bucket, claimed, runner, request, doomed, torn, crossed, moves, restarts>>
      /\ unmarked \subseteq unmarked'
      /\ worker[w].pc # "idle"
  BY DEF MarkDone, MarkFailed, MarkFailedFails, At, Fault, storage, history, counters
<1>2. PICK e \in Emails : worker[w].email = e
  BY <1>1 DEF UploadInv, TypeOK, WorkerRecords, FieldsInv, WorkerOf, OrNone
<1>3. queue[e].status \in {"uploading", "none"}
  BY <1>2 DEF UploadInv, HoldInv, Held
<1>4. /\ \A f \in Emails : f # e => queue'[f] = queue[f] /\ row'[f] = row[f]
      /\ row'[e].there = row[e].there /\ (~row[e].there => row'[e] = row[e])
  <2>1. row' = row \/ (row[e].there /\ row' = [row EXCEPT ![e].etag = TRUE])
    BY <1>2 DEF MarkDone, MarkFailed, MarkFailedFails, storage
  <2>2. \A f \in Emails : f # e => queue'[f] = queue[f]
    <3>1. CASE MarkDone(w)
      BY <1>2, <3>1 DEF UploadInv, TypeOK, MarkDone
    <3>2. CASE MarkFailed(w)
      BY <1>2, <3>2 DEF UploadInv, TypeOK, MarkFailed
    <3>3. CASE MarkFailedFails(w)
      BY <3>3 DEF MarkFailedFails, storage
    <3> QED BY <3>1, <3>2, <3>3
  <2> QED BY <2>1, <2>2 DEF UploadInv, TypeOK, RowRecords
<1>5. \/ queue'[e] = NoEntry
      \/ /\ row[e].there
         /\ queue'[e].status \in {"pending", "failed"}
         /\ queue'[e].path = queue[e].path /\ queue[e].path \in Paths
         /\ queue'[e].tries \in 0..MaxAttempts
         /\ queue'[e].status = "pending" => queue'[e].tries < MaxAttempts
      \/ queue'[e] = queue[e] /\ e \in unmarked'
  <2>1. CASE MarkDone(w)
    BY <1>2, <2>1 DEF UploadInv, TypeOK, MarkDone
  <2>2. CASE MarkFailed(w)
    <3>1. RowOf(e) /\ queue[e] \in EntryRecords
      BY DEF UploadInv, TypeOK, FieldsInv
    <3>2. CASE queue[e] = NoEntry
      BY <1>2, <2>2, <3>2 DEF MarkFailed
    <3>3. CASE queue[e] # NoEntry
      <4>1. /\ queue'[e].tries = queue[e].tries + 1 /\ queue'[e].path = queue[e].path
            /\ queue'[e].status = IF queue[e].tries + 1 >= MaxAttempts THEN "failed" ELSE "pending"
        BY <1>2, <2>2, <3>1, <3>3 DEF UploadInv, TypeOK, MarkFailed, EntryRecords
      <4>2. queue[e].tries < MaxAttempts /\ queue[e].tries \in Nat /\ queue[e].path \in Paths
            /\ row[e].there
        BY <1>3, <3>1, <3>3, LimitsAssumption DEF RowOf, EntryRecords
      <4> QED BY <4>1, <4>2, LimitsAssumption
    <3> QED BY <3>2, <3>3
  <2>3. CASE MarkFailedFails(w)
    BY <1>2, <2>3 DEF MarkFailedFails, storage
  <2> QED BY <2>1, <2>2, <2>3
<1>6. TypeOK'
  <2>1. row' \in [Emails -> RowRecords]
    <3>1. row' = row \/ row' = [row EXCEPT ![e].etag = TRUE]
      BY <1>2 DEF MarkDone, MarkFailed, MarkFailedFails, storage
    <3>2. [row[e] EXCEPT !.etag = TRUE] \in RowRecords
      BY DEF UploadInv, TypeOK, RowRecords
    <3> QED BY <3>1, <3>2 DEF UploadInv, TypeOK
  <2>2. queue' \in [Emails -> EntryRecords]
    <3>1. queue'[e] \in EntryRecords
      <4>1. CASE MarkDone(w)
        BY <1>2, <4>1, EmptyRecords DEF UploadInv, TypeOK, MarkDone
      <4>2. CASE MarkFailed(w)
        BY <1>2, <1>3, <4>2, LimitsAssumption
           DEF UploadInv, TypeOK, EntryRecords, FieldsInv, RowOf, MarkFailed, Statuses
      <4>3. CASE MarkFailedFails(w)
        BY <1>2, <4>3 DEF UploadInv, TypeOK, MarkFailedFails, storage
      <4> QED BY <4>1, <4>2, <4>3
    <3>2. queue' = [queue EXCEPT ![e] = queue'[e]]
      BY <1>2 DEF UploadInv, TypeOK, MarkDone, MarkFailed, MarkFailedFails, storage
    <3> QED BY <3>1, <3>2 DEF UploadInv, TypeOK
  <2>3. worker' \in [Workers -> WorkerRecords]
    BY <1>1, EmptyRecords DEF UploadInv, TypeOK
  <2>4. unmarked' \subseteq Emails /\ faults' \in 0..MaxFaults /\ UNCHANGED <<enabled, mirroring>>
    BY <1>2, LimitsAssumption
       DEF UploadInv, TypeOK, MarkDone, MarkFailed, MarkFailedFails, Fault, configVars, history, counters
  <2> QED BY <1>1, <2>1, <2>2, <2>3, <2>4 DEF UploadInv, TypeOK
<1>7. FieldsInv'
  <2>1. \A f \in Emails : RowOf(f)'
    <3>1. ~row'[e].there => row'[e] = NoRow
      BY <1>2, <1>4 DEF UploadInv, FieldsInv, RowOf
    <3>2. queue[e] # NoEntry => row[e].there
      BY <1>2 DEF UploadInv, FieldsInv, RowOf
    <3>3. RowOf(e)
      BY <1>2 DEF UploadInv, FieldsInv
    <3>4. RowOf(e)'
      <4>1. CASE queue'[e] = NoEntry
        BY <3>1, <4>1 DEF RowOf, NoEntry
      <4>2. CASE queue'[e] = queue[e]
        BY <1>4, <3>1, <3>3, <4>2 DEF RowOf
      <4> QED BY <1>4, <1>5, <3>1, <4>1, <4>2 DEF RowOf
    <3>5. ASSUME NEW f \in Emails, f # e PROVE RowOf(f)'
      <4>1. RowOf(f) /\ queue'[f] = queue[f] /\ row'[f] = row[f]
        BY <1>4, <3>5 DEF UploadInv, FieldsInv
      <4> QED BY <4>1 DEF RowOf
    <3> QED BY <3>4, <3>5
  <2>2. \A v \in Workers : WorkerOf(v)'
    BY <1>1 DEF UploadInv, TypeOK, FieldsInv, WorkerOf, Resting
  <2> QED BY <1>1, <2>1, <2>2 DEF UploadInv, FieldsInv, RunnerOf, RequestOf
<1>8. HoldInv'
  <2>1. \A v \in Workers : worker'[v].email = IF v = w THEN None ELSE worker[v].email
    BY <1>1 DEF UploadInv, TypeOK, Resting
  <2>2. \A f \in Emails : Held(f)' <=> Held(f) /\ f # e
    BY <1>1, <1>2, <2>1, NoneApart DEF UploadInv, HoldInv, Held
  <2>3. \A i \in claimed : i.email \in Emails
    BY DEF UploadInv, TypeOK, ItemRecords
  <2>4. \A f \in Emails : row'[f].there = row[f].there
    BY <1>4
  <2>5. queue'[e].status = "uploading" => e \in unmarked'
    BY <1>5 DEF NoEntry
  <2> QED BY <1>1, <1>4, <2>1, <2>2, <2>3, <2>4, <2>5, NoneApart DEF UploadInv, HoldInv
<1> QED BY <1>6, <1>7, <1>8 DEF UploadInv

(* A retention run or a request takes a step: what it does to the rows is a *)
(* drop, an eviction or a new path, and uploads in flight stay as they are. *)
DropsRow(e) ==
    /\ row' = [row EXCEPT ![e] = NoRow]
    /\ queue' = [queue EXCEPT ![e] = NoEntry]
    /\ doomed' = doomed \cup {e}

LEMMA UploadDrop ==
  ASSUME UploadInv, NEW e \in Emails, DropsRow(e), UNCHANGED <<claimed, worker, unmarked, restarts>>
  PROVE  /\ row' \in [Emails -> RowRecords] /\ queue' \in [Emails -> EntryRecords]
         /\ doomed' \subseteq Emails
         /\ \A f \in Emails : RowOf(f)'
         /\ HoldInv'
<1>1. row' \in [Emails -> RowRecords] /\ queue' \in [Emails -> EntryRecords] /\ doomed' \subseteq Emails
  BY EmptyRecords DEF UploadInv, TypeOK, DropsRow
<1>2. \A f \in Emails : RowOf(f)'
  BY DEF UploadInv, TypeOK, FieldsInv, RowOf, DropsRow, NoRow, NoEntry
<1>3. HoldInv'
  BY DEF UploadInv, TypeOK, HoldInv, Held, DropsRow, NoRow, NoEntry
<1> QED BY <1>1, <1>2, <1>3

LEMMA UploadKeepRow ==
  ASSUME UploadInv, NEW e \in Emails,
         \/ UNCHANGED row
         \/ row[e].there /\ row' = [row EXCEPT ![e].loc = "s3", ![e].path = None]
         \/ \E p \in OrNone(Paths) : row[e].there /\ row' = [row EXCEPT ![e].path = p],
         doomed \subseteq doomed', doomed' \subseteq Emails,
         UNCHANGED <<queue, claimed, worker, unmarked, restarts>>
  PROVE  /\ row' \in [Emails -> RowRecords]
         /\ \A f \in Emails : RowOf(f)'
         /\ HoldInv'
<1>1. PICK r \in RowRecords : r.there = row[e].there /\ (row' = row \/ (r.there /\ row' = [row EXCEPT ![e] = r]))
  <2>1. CASE UNCHANGED row
    BY <2>1 DEF UploadInv, TypeOK
  <2>2. CASE row[e].there /\ row' = [row EXCEPT ![e].loc = "s3", ![e].path = None]
    <3> DEFINE gone == [row[e] EXCEPT !.loc = "s3", !.path = None]
    <3>1. row[e] \in RowRecords
      BY DEF UploadInv, TypeOK
    <3>2. gone \in RowRecords /\ gone.there = row[e].there
      BY <3>1 DEF RowRecords, OrNone
    <3>3. row' = [row EXCEPT ![e] = gone]
      BY <2>2
    <3> QED BY <2>2, <3>2, <3>3
  <2>3. CASE \E p \in OrNone(Paths) : row[e].there /\ row' = [row EXCEPT ![e].path = p]
    <3>1. PICK p \in OrNone(Paths) : row[e].there /\ row' = [row EXCEPT ![e].path = p]
      BY <2>3
    <3>2. [row[e] EXCEPT !.path = p] \in RowRecords
      BY DEF UploadInv, TypeOK, RowRecords
    <3> QED BY <3>1, <3>2 DEF UploadInv, TypeOK, RowRecords
  <2> QED BY <2>1, <2>2, <2>3
<1>2. /\ row' \in [Emails -> RowRecords]
      /\ \A f \in Emails : row'[f].there = row[f].there
      /\ \A f \in Emails : ~row[f].there => row'[f] = row[f]
  BY <1>1 DEF UploadInv, TypeOK
<1>3. \A f \in Emails : RowOf(f)'
  BY <1>2 DEF UploadInv, FieldsInv, RowOf
<1>4. HoldInv'
  BY <1>2 DEF UploadInv, HoldInv, Held
<1> QED BY <1>2, <1>3, <1>4

LEMMA SnapshotsType ==
  ASSUME TypeOK, NEW emails \in SUBSET Emails
  PROVE  Snapshots(emails) \subseteq DueRecords
  BY DEF Snapshots, TypeOK, RowRecords, DueRecords

LEMMA RunnerSettles ==
  ASSUME TypeOK, NEW r \in Runners,
         \/ \E pc \in {"evict", "direct"} : runner' = [runner EXCEPT ![r].pc = pc, ![r].path = None]
         \/ runner' = [runner EXCEPT ![r].pc = "purge", ![r].email = None]
         \/ runner' = [runner EXCEPT ![r] = NoRun]
  PROVE  \E s \in RunnerRecords : runner' = [runner EXCEPT ![r] = s] /\ s.pc # "purgeRow"
<1>1. runner[r] \in RunnerRecords
  BY DEF TypeOK
<1>2. CASE \E pc \in {"evict", "direct"} : runner' = [runner EXCEPT ![r].pc = pc, ![r].path = None]
  <2>1. PICK pc \in {"evict", "direct"} : runner' = [runner EXCEPT ![r].pc = pc, ![r].path = None]
    BY <1>2
  <2> DEFINE s == [runner[r] EXCEPT !.pc = pc, !.path = None]
  <2>2. s \in RunnerRecords /\ s.pc = pc
    BY <1>1 DEF RunnerRecords, OrNone
  <2>3. runner' = [runner EXCEPT ![r] = s]
    BY <2>1
  <2> QED BY <2>2, <2>3
<1>3. CASE runner' = [runner EXCEPT ![r].pc = "purge", ![r].email = None]
  <2> DEFINE s == [runner[r] EXCEPT !.pc = "purge", !.email = None]
  <2>1. s \in RunnerRecords /\ s.pc = "purge"
    BY <1>1 DEF RunnerRecords, OrNone
  <2>2. runner' = [runner EXCEPT ![r] = s]
    BY <1>3
  <2> QED BY <2>1, <2>2
<1>4. CASE runner' = [runner EXCEPT ![r] = NoRun]
  BY <1>4, EmptyRecords DEF NoRun
<1> QED BY <1>2, <1>3, <1>4

LEMMA UploadRunner ==
  ASSUME UploadInv, NEW r \in Runners, Retain(r) \/ SkipEmail(r)
  PROVE  /\ runner' \in [Runners -> RunnerRecords]
         /\ \A o \in Runners : RunnerOf(o)'
<1>1. runner[r] \in RunnerRecords /\ runner[r].due \subseteq DueRecords
  BY DEF UploadInv, TypeOK, RunnerRecords
<1>2. PICK s \in RunnerRecords :
        runner' = [runner EXCEPT ![r] = s] /\ (s.pc = "purgeRow" => s.email \in Emails)
  <2> DEFINE Goal == \E s \in RunnerRecords :
        runner' = [runner EXCEPT ![r] = s] /\ (s.pc = "purgeRow" => s.email \in Emails)
  <2>1. CASE ListForEviction(r) \/ ListForDeletion(r) \/ ListForPurge(r)
    <3>1. PICK pc \in {"evict", "direct", "purge"}, due \in SUBSET Emails :
            runner' = [runner EXCEPT ![r].pc = pc, ![r].due = Snapshots(due)]
      BY <2>1 DEF ListForEviction, ListForDeletion, ListForPurge
    <3>2. [runner[r] EXCEPT !.pc = pc, !.due = Snapshots(due)] \in RunnerRecords
      BY <1>1, SnapshotsType DEF UploadInv, RunnerRecords
    <3> WITNESS [runner[r] EXCEPT !.pc = pc, !.due = Snapshots(due)] \in RunnerRecords
    <3> QED BY <1>1, <3>1 DEF UploadInv, TypeOK, RunnerRecords
  <2>2. CASE EvictRow(r) \/ DeleteRow(r)
    <3>1. PICK d \in runner[r].due, pc \in {"evictFile", "directFile"} :
            runner' = [runner EXCEPT ![r].due = @ \ {d}, ![r].pc = pc, ![r].path = d.path]
      BY <2>2 DEF EvictRow, DeleteRow
    <3>2. [runner[r] EXCEPT !.due = @ \ {d}, !.pc = pc, !.path = d.path] \in RunnerRecords
      BY <1>1 DEF RunnerRecords, DueRecords
    <3> WITNESS [runner[r] EXCEPT !.due = @ \ {d}, !.pc = pc, !.path = d.path] \in RunnerRecords
    <3> QED BY <1>1, <3>1 DEF UploadInv, TypeOK, RunnerRecords
  <2>3. CASE PurgeObject(r)
    <3>1. PICK d \in runner[r].due :
            runner' = [runner EXCEPT ![r].due = @ \ {d}, ![r].pc = "purgeRow", ![r].email = d.email]
      BY <2>3 DEF PurgeObject
    <3>2. [runner[r] EXCEPT !.due = @ \ {d}, !.pc = "purgeRow", !.email = d.email] \in RunnerRecords
      BY <1>1 DEF RunnerRecords, DueRecords, OrNone
    <3> WITNESS [runner[r] EXCEPT !.due = @ \ {d}, !.pc = "purgeRow", !.email = d.email] \in RunnerRecords
    <3> QED BY <1>1, <3>1 DEF UploadInv, TypeOK, RunnerRecords, DueRecords
  <2>4. CASE RemoveFile(r) \/ PurgeRow(r) \/ EndRun(r)
    <3>1. \/ \E pc \in {"evict", "direct"} : runner' = [runner EXCEPT ![r].pc = pc, ![r].path = None]
          \/ runner' = [runner EXCEPT ![r].pc = "purge", ![r].email = None]
          \/ runner' = [runner EXCEPT ![r] = NoRun]
      BY <1>1, <2>4 DEF UploadInv, TypeOK, RemoveFile, PurgeRow, EndRun
    <3> QED BY <1>1, <3>1, RunnerSettles DEF UploadInv
  <2>5. CASE SkipEmail(r)
    <3>1. CASE \E d \in runner[r].due : /\ runner[r].pc # "purgeRow"
                                        /\ runner' = [runner EXCEPT ![r].due = @ \ {d}]
      <4>1. PICK d \in runner[r].due : runner' = [runner EXCEPT ![r].due = @ \ {d}]
        BY <3>1
      <4> DEFINE s == [runner[r] EXCEPT !.due = @ \ {d}]
      <4>2. s \in RunnerRecords /\ s.pc = runner[r].pc
        BY <1>1 DEF RunnerRecords
      <4>3. runner' = [runner EXCEPT ![r] = s]
        BY <4>1
      <4> QED BY <3>1, <4>2, <4>3
    <3>2. CASE \E pc \in {"evict", "direct"} : runner' = [runner EXCEPT ![r].pc = pc, ![r].path = None]
      BY <1>1, <3>2, RunnerSettles DEF UploadInv
    <3>3. CASE runner' = [runner EXCEPT ![r].pc = "purge", ![r].email = None]
      BY <1>1, <3>3, RunnerSettles DEF UploadInv
    <3> QED BY <1>1, <2>5, <3>1, <3>2, <3>3 DEF UploadInv, TypeOK, SkipEmail
  <2> QED BY <2>1, <2>2, <2>3, <2>4, <2>5 DEF Retain
<1> QED BY <1>2 DEF UploadInv, TypeOK, FieldsInv, RunnerOf

LEMMA UploadRetain ==
  ASSUME UploadInv, NEW r \in Runners, Retain(r) \/ SkipEmail(r)
  PROVE  UploadInv'
<1>1. /\ UNCHANGED <<claimed, worker, request, configVars, torn, crossed, unmarked, moves, restarts>>
      /\ faults' \in 0..MaxFaults
  <2>1. CASE ListForEviction(r) \/ ListForPurge(r) \/ EvictRow(r) \/ RemoveFile(r) \/ EndRun(r)
    BY <2>1 DEF UploadInv, TypeOK, ListForEviction, ListForPurge, EvictRow, RemoveFile, EndRun,
       history, counters
  <2>2. CASE DeleteRow(r) \/ PurgeObject(r) \/ PurgeRow(r)
    BY <2>2 DEF UploadInv, TypeOK, DeleteRow, PurgeObject, PurgeRow, DropRow, counters
  <2>3. CASE ListForDeletion(r) \/ SkipEmail(r)
    BY <2>3, LimitsAssumption DEF UploadInv, TypeOK, ListForDeletion, SkipEmail, Fault, history, counters
  <2> QED BY <2>1, <2>2, <2>3 DEF Retain
<1>2. runner' \in [Runners -> RunnerRecords] /\ \A o \in Runners : RunnerOf(o)'
  BY UploadRunner
<1>3. \A d \in runner[r].due : d.email \in Emails /\ d.path \in OrNone(Paths)
  BY DEF UploadInv, TypeOK, RunnerRecords, DueRecords
<1>4. runner[r].pc = "purgeRow" => runner[r].email \in Emails
  BY DEF UploadInv, FieldsInv, RunnerOf
<1>5. files' \in [Paths -> OrNone(Keys)] /\ bucket' \in [Keys -> OrNone(Keys)]
  <2>1. CASE RemoveFile(r)
    BY <2>1 DEF UploadInv, TypeOK, RemoveFile, OrNone
  <2>2. CASE PurgeObject(r)
    BY <2>2 DEF UploadInv, TypeOK, PurgeObject, OrNone
  <2>3. CASE ~RemoveFile(r) /\ ~PurgeObject(r)
    BY <2>3 DEF UploadInv, TypeOK, Retain, ListForEviction, ListForDeletion, ListForPurge,
       EvictRow, DeleteRow, PurgeRow, EndRun, SkipEmail, storage
  <2> QED BY <2>1, <2>2, <2>3
<1>6. \/ \E e \in Emails : DropsRow(e)
      \/ /\ UNCHANGED queue /\ doomed \subseteq doomed' /\ doomed' \subseteq Emails
         /\ \/ UNCHANGED row
            \/ \E e \in Emails :
                  row[e].there /\ row' = [row EXCEPT ![e].loc = "s3", ![e].path = None]
  <2>1. CASE DeleteRow(r) \/ PurgeRow(r)
    BY <1>3, <1>4, <2>1 DEF DeleteRow, PurgeRow, InRun, DropRow, DropsRow
  <2>2. CASE EvictRow(r)
    BY <1>3, <2>2 DEF UploadInv, TypeOK, EvictRow, history
  <2>3. CASE PurgeObject(r)
    BY <1>3, <2>3 DEF UploadInv, TypeOK, PurgeObject
  <2>4. CASE ListForEviction(r) \/ ListForDeletion(r) \/ ListForPurge(r) \/ RemoveFile(r) \/ EndRun(r)
             \/ SkipEmail(r)
    BY <2>4 DEF UploadInv, TypeOK, ListForEviction, ListForDeletion, ListForPurge, RemoveFile, EndRun,
       SkipEmail, storage, history
  <2> QED BY <2>1, <2>2, <2>3, <2>4 DEF Retain
<1>7. /\ row' \in [Emails -> RowRecords] /\ queue' \in [Emails -> EntryRecords]
      /\ doomed' \subseteq Emails
      /\ \A f \in Emails : RowOf(f)'
      /\ HoldInv'
  <2>1. CASE \E e \in Emails : DropsRow(e)
    BY <1>1, <2>1, UploadDrop
  <2>2. CASE UNCHANGED <<row, queue>> /\ doomed \subseteq doomed' /\ doomed' \subseteq Emails
    BY <1>1, <2>2 DEF UploadInv, TypeOK, FieldsInv, RowOf, HoldInv, Held
  <2>3. CASE \E e \in Emails :
          row[e].there /\ row' = [row EXCEPT ![e].loc = "s3", ![e].path = None]
    BY <1>1, <1>6, <2>1, <2>3, UploadKeepRow DEF UploadInv, TypeOK
  <2> QED BY <1>6, <2>1, <2>2, <2>3
<1>8. TypeOK'
  BY <1>1, <1>2, <1>5, <1>7 DEF UploadInv, TypeOK, configVars
<1>9. FieldsInv'
  BY <1>1, <1>2, <1>7 DEF UploadInv, FieldsInv, WorkerOf, RequestOf
<1> QED BY <1>7, <1>8, <1>9 DEF UploadInv

LEMMA RequestEnds ==
  ASSUME TypeOK, NEW q \in Requests, Answer(q)
  PROVE  request' \in [Requests -> RequestRecords] /\ request'[q].pc = "idle"
         /\ \A o \in Requests : o # q => request'[o] = request[o]
  BY EmptyRecords DEF TypeOK, Answer, NoReq

LEMMA RequestContinues ==
  ASSUME TypeOK, NEW q \in Requests, NEW pc \in {"row", "file", "assign", "back", "late"}, Continue(q, pc)
  PROVE  /\ request' \in [Requests -> RequestRecords]
         /\ request'[q] = [request[q] EXCEPT !.pc = pc]
         /\ \A o \in Requests : o # q => request'[o] = request[o]
<1> DEFINE s == [request[q] EXCEPT !.pc = pc]
<1>1. s \in RequestRecords
  BY DEF TypeOK, RequestRecords
<1>2. request' = [request EXCEPT ![q] = s]
  BY DEF Continue
<1> QED BY <1>1, <1>2 DEF TypeOK

LEMMA UploadRequest ==
  ASSUME UploadInv, NEW q \in Requests, Serve(q) \/ RequestFails(q) \/ AssignFails(q) \/ AssignUnheard(q)
  PROVE  /\ request' \in [Requests -> RequestRecords]
         /\ \A o \in Requests : RequestOf(o)'
<1>1. request[q] \in RequestRecords /\ RequestOf(q)
  BY DEF UploadInv, TypeOK, FieldsInv
<1>2. /\ request' \in [Requests -> RequestRecords]
      /\ \A o \in Requests : o # q => request'[o] = request[o]
      /\ RequestOf(q)'
  <2>1. CASE Answer(q)
    BY <2>1, RequestEnds DEF UploadInv, RequestOf
  <2>2. CASE StartDelete(q)
    <3>1. PICK e \in Emails : request' = [request EXCEPT ![q] =
               [pc |-> IF row[e].etag THEN "object" ELSE "row", email |-> e,
                path |-> row[e].path, key |-> row[e].etag, dest |-> None]]
      BY <2>2 DEF StartDelete
    <3> DEFINE s == [pc |-> IF row[e].etag THEN "object" ELSE "row", email |-> e,
                     path |-> row[e].path, key |-> row[e].etag, dest |-> None]
    <3>2. s \in RequestRecords
      BY DEF UploadInv, TypeOK, RowRecords, RequestRecords, OrNone
    <3> QED BY <3>1, <3>2 DEF UploadInv, TypeOK, RequestOf
  <2>3. CASE StartMove(q)
    <3>1. PICK e \in Emails, d \in Dirs : /\ row[e].path # None => row[e].path[1] # d
              /\ request' = [request EXCEPT ![q] =
                 [pc |-> IF row[e].path = None THEN "assign" ELSE "rename", email |-> e,
                  path |-> row[e].path, key |-> FALSE,
                  dest |-> IF row[e].path = None THEN None ELSE <<d, row[e].path[2]>>]]
      BY <2>3 DEF StartMove
    <3> DEFINE s == [pc |-> IF row[e].path = None THEN "assign" ELSE "rename", email |-> e,
                     path |-> row[e].path, key |-> FALSE,
                     dest |-> IF row[e].path = None THEN None ELSE <<d, row[e].path[2]>>]
    <3>2. row[e].path \in OrNone(Paths)
      BY DEF UploadInv, TypeOK, RowRecords
    <3>3. row[e].path # None => /\ <<d, row[e].path[2]>> \in Paths
                                /\ row[e].path # <<d, row[e].path[2]>>
      BY <3>1, <3>2 DEF Paths, OrNone
    <3>4. s \in RequestRecords /\ (s.pc = "rename" => s.path \in Paths /\ s.dest \in Paths
                                                      /\ s.path # s.dest)
          /\ (s.pc = "assign" => s.dest = None) /\ s.email \in Emails
      BY <3>2, <3>3 DEF RequestRecords, OrNone
    <3>5. s.pc \in {"assign", "rename"}
      OBVIOUS
    <3>6. request' = [request EXCEPT ![q] = s]
      BY <3>1
    <3> HIDE DEF s
    <3>7. request'[q] = s
      BY <3>6 DEF UploadInv, TypeOK
    <3> QED BY <3>4, <3>5, <3>6, <3>7 DEF UploadInv, TypeOK, RequestOf
  <2>4. CASE DeleteObject(q) \/ DeleteEmailRow(q)
    <3>1. PICK pc \in {"row", "file"} : Continue(q, pc)
      BY <2>4 DEF DeleteObject, DeleteEmailRow
    <3>2. request[q].pc \in {"object", "row"}
      BY <2>4 DEF DeleteObject, DeleteEmailRow, InRequest
    <3>3. /\ request' \in [Requests -> RequestRecords]
          /\ request'[q] = [request[q] EXCEPT !.pc = pc]
          /\ \A o \in Requests : o # q => request'[o] = request[o]
      BY <3>1, RequestContinues DEF UploadInv
    <3>4. request'[q].email = request[q].email /\ request'[q].pc = pc
      BY <1>1, <3>3 DEF RequestRecords
    <3> QED BY <1>1, <3>1, <3>2, <3>3, <3>4 DEF RequestOf
  <2>5. CASE RenameFile(q) /\ Continue(q, "assign")
    <3>1. request[q].pc = "rename"
      BY <2>5 DEF RenameFile, InRequest
    <3>2. /\ request' \in [Requests -> RequestRecords]
          /\ request'[q] = [request[q] EXCEPT !.pc = "assign"]
          /\ \A o \in Requests : o # q => request'[o] = request[o]
      BY <2>5, RequestContinues DEF UploadInv
    <3>3. /\ request'[q].email = request[q].email /\ request'[q].path = request[q].path
          /\ request'[q].dest = request[q].dest
      BY <1>1, <3>2 DEF RequestRecords
    <3> QED BY <1>1, <3>1, <3>2, <3>3 DEF RequestOf
  <2>6. CASE AssignUnheard(q)
    <3>1. PICK pc \in {"back", "late"} : Continue(q, pc)
      BY <2>6 DEF AssignUnheard
    <3>2. request[q].pc = "assign" /\ request[q].dest # None
      BY <2>6 DEF AssignUnheard, InRequest
    <3>3. /\ request' \in [Requests -> RequestRecords]
          /\ request'[q] = [request[q] EXCEPT !.pc = pc]
          /\ \A o \in Requests : o # q => request'[o] = request[o]
      BY <3>1, RequestContinues DEF UploadInv
    <3>4. /\ request'[q].email = request[q].email /\ request'[q].path = request[q].path
          /\ request'[q].dest = request[q].dest
      BY <1>1, <3>3 DEF RequestRecords
    <3> QED BY <1>1, <3>2, <3>3, <3>4 DEF RequestOf
  <2> QED BY <2>1, <2>2, <2>3, <2>4, <2>5, <2>6
          DEF Serve, RequestFails, AssignFails, MoveBack, AssignLate, RenameFile, DeleteEmailFile,
              AssignFolder
<1> QED BY <1>2 DEF UploadInv, FieldsInv, RequestOf

LEMMA UploadServe ==
  ASSUME UploadInv, NEW q \in Requests, Serve(q) \/ RequestFails(q) \/ AssignFails(q) \/ AssignUnheard(q)
  PROVE  UploadInv'
<1>1. /\ UNCHANGED <<claimed, worker, runner, configVars, unmarked, restarts>>
      /\ faults' \in 0..MaxFaults /\ moves' \in 0..MaxMoves
  BY LimitsAssumption DEF UploadInv, TypeOK, Serve, StartDelete, DeleteObject, DeleteEmailRow,
     DeleteEmailFile, StartMove, RenameFile, AssignFolder, RequestFails, AssignFails, AssignUnheard, MoveBack, AssignLate, MovedBack, Reassigned, DropRow, Fault,
     storage, history, counters
<1>2. request' \in [Requests -> RequestRecords] /\ \A o \in Requests : RequestOf(o)'
  BY UploadRequest
<1>3. /\ request[q].pc # "idle" => request[q].email \in Emails
      /\ request[q].path \in OrNone(Paths) /\ request[q].dest \in OrNone(Paths)
  BY DEF UploadInv, TypeOK, RequestRecords, FieldsInv, RequestOf
<1>4. files' \in [Paths -> OrNone(Keys)] /\ bucket' \in [Keys -> OrNone(Keys)]
      /\ crossed' \subseteq Emails /\ torn' \subseteq Emails
  <2>1. CASE DeleteEmailFile(q)
    BY <1>3, <2>1 DEF UploadInv, TypeOK, DeleteEmailFile, OrNone, history
  <2>2. CASE DeleteObject(q)
    BY <1>3, <2>2 DEF UploadInv, TypeOK, DeleteObject, InRequest, OrNone
  <2>3. CASE RenameFile(q)
    <3>1. request[q].path \in Paths /\ request[q].dest \in Paths /\ request[q].email \in Emails
      BY <1>3, <2>3 DEF UploadInv, FieldsInv, RequestOf, RenameFile, InRequest
    <3> QED BY <2>3, <3>1 DEF UploadInv, TypeOK, RenameFile, Renamed, OrNone
  <2>4. CASE AssignFails(q) \/ MoveBack(q) \/ AssignUnheard(q)
    <3>1. request[q].dest # None => request[q].path \in Paths /\ request[q].dest \in Paths
      BY <2>4 DEF UploadInv, FieldsInv, RequestOf, AssignFails, MoveBack, AssignUnheard, InRequest
    <3>2. files' \in {files, Renamed(request[q].dest, request[q].path)}
          /\ (files' # files => request[q].dest # None)
      BY <2>4 DEF AssignFails, MoveBack, AssignUnheard, MovedBack
    <3>3. files' \in [Paths -> OrNone(Keys)]
      BY <3>1, <3>2 DEF UploadInv, TypeOK, Renamed, OrNone
    <3>4. bucket' = bucket /\ crossed' = crossed /\ torn' \in {torn, torn \cup {request[q].email}}
          /\ request[q].pc # "idle"
      BY <2>4 DEF AssignFails, MoveBack, AssignUnheard, history, InRequest
    <3> QED BY <1>3, <3>3, <3>4 DEF UploadInv, TypeOK
  <2>5. CASE StartDelete(q) \/ DeleteEmailRow(q) \/ StartMove(q) \/ AssignFolder(q) \/ RequestFails(q)
             \/ AssignLate(q)
    BY <2>5 DEF UploadInv, TypeOK, StartDelete, DeleteEmailRow, StartMove, AssignFolder, RequestFails,
       AssignLate, DropRow, storage, history
  <2> QED BY <2>1, <2>2, <2>3, <2>4, <2>5 DEF Serve
<1>5. \/ \E e \in Emails : DropsRow(e)
      \/ /\ UNCHANGED queue /\ doomed \subseteq doomed' /\ doomed' \subseteq Emails
         /\ \/ UNCHANGED row
            \/ \E e \in Emails : \E p \in OrNone(Paths) :
                  row[e].there /\ row' = [row EXCEPT ![e].path = p]
  <2>1. CASE DeleteEmailRow(q)
    BY <1>3, <2>1 DEF DeleteEmailRow, InRequest, DropRow, DropsRow
  <2>2. CASE AssignFolder(q) \/ AssignLate(q) \/ AssignUnheard(q)
    <3>1. request[q].email \in Emails
      BY <1>3, <2>2 DEF AssignFolder, AssignLate, AssignUnheard, InRequest
    <3>2. Reassigned(q) \/ UNCHANGED row
      BY <2>2 DEF AssignFolder, AssignLate, AssignUnheard
    <3>3. UNCHANGED <<queue, doomed>>
      BY <2>2 DEF AssignFolder, AssignLate, AssignUnheard, history
    <3> QED BY <1>3, <3>1, <3>2, <3>3 DEF UploadInv, TypeOK, Reassigned
  <2>3. CASE DeleteObject(q)
    BY <1>3, <2>3 DEF UploadInv, TypeOK, DeleteObject, InRequest
  <2>4. CASE StartDelete(q) \/ DeleteEmailFile(q) \/ StartMove(q) \/ RenameFile(q) \/ RequestFails(q)
             \/ AssignFails(q) \/ MoveBack(q)
    BY <2>4 DEF UploadInv, TypeOK, StartDelete, DeleteEmailFile, StartMove, RenameFile, RequestFails,
       AssignFails, MoveBack, storage, history
  <2> QED BY <2>1, <2>2, <2>3, <2>4 DEF Serve
<1>6. /\ row' \in [Emails -> RowRecords] /\ queue' \in [Emails -> EntryRecords]
      /\ doomed' \subseteq Emails
      /\ \A f \in Emails : RowOf(f)'
      /\ HoldInv'
  <2>1. CASE \E e \in Emails : DropsRow(e)
    BY <1>1, <2>1, UploadDrop
  <2>2. CASE UNCHANGED <<row, queue>> /\ doomed \subseteq doomed' /\ doomed' \subseteq Emails
    BY <1>1, <2>2 DEF UploadInv, TypeOK, FieldsInv, RowOf, HoldInv, Held
  <2>3. CASE \E e \in Emails : \E p \in OrNone(Paths) :
          row[e].there /\ row' = [row EXCEPT ![e].path = p]
    BY <1>1, <1>5, <2>1, <2>3, UploadKeepRow DEF UploadInv, TypeOK
  <2> QED BY <1>5, <2>1, <2>2, <2>3
<1>7. TypeOK'
  BY <1>1, <1>2, <1>4, <1>6 DEF UploadInv, TypeOK, configVars
<1>8. FieldsInv'
  BY <1>1, <1>2, <1>6 DEF UploadInv, FieldsInv, WorkerOf, RunnerOf
<1> QED BY <1>6, <1>7, <1>8 DEF UploadInv

LEMMA UploadRestart ==
  ASSUME UploadInv, Restart
  PROVE  UploadInv'
<1>1. /\ worker' = [w \in Workers |-> Resting] /\ claimed' = {}
      /\ runner' = [r \in Runners |-> NoRun] /\ request' = [q \in Requests |-> NoReq]
      /\ UNCHANGED <<row, files, bucket, queue, enabled, doomed, crossed, unmarked, moves>>
      /\ restarts' \in 1..MaxRestarts /\ faults' \in 0..MaxFaults /\ mirroring' \in BOOLEAN
  <2>1. restarts' \in 1..MaxRestarts
    BY LimitsAssumption DEF UploadInv, TypeOK, Restart
  <2>2. faults' \in 0..MaxFaults /\ mirroring' \in BOOLEAN
    <3>1. enabled \in BOOLEAN /\ faults \in 0..MaxFaults
      BY DEF UploadInv, TypeOK
    <3>2. (mirroring' = enabled /\ faults' = faults)
          \/ (mirroring' = FALSE /\ faults < MaxFaults /\ faults' = faults + 1)
      BY DEF Restart
    <3>3. faults' \in 0..MaxFaults
      BY <3>1, <3>2, LimitsAssumption
    <3>4. mirroring' \in BOOLEAN
      BY <3>1, <3>2, Zenon
    <3> QED BY <3>3, <3>4
  <2> QED BY <2>1, <2>2 DEF Restart, storage
<1>2. torn' \subseteq Emails
  BY DEF UploadInv, TypeOK, FieldsInv, RequestOf, Restart, Renaming, InRequest
<1>3. TypeOK'
  BY <1>1, <1>2, EmptyRecords DEF UploadInv, TypeOK
<1>4. FieldsInv'
  BY <1>1 DEF UploadInv, FieldsInv, RowOf, WorkerOf, RunnerOf, RequestOf, Resting, NoRun, NoReq
<1>5. HoldInv'
  <2>1. \A w \in Workers : worker'[w].email = None
    BY <1>1 DEF Resting
  <2>2. \A e \in Emails : ~Held(e)'
    BY <1>1, <2>1, NoneApart DEF Held
  <2> QED BY <1>1, <2>1, <2>2 DEF HoldInv
<1> QED BY <1>3, <1>4, <1>5 DEF UploadInv

LEMMA UploadNext == UploadInv /\ [Next]_vars => UploadInv'
<1> SUFFICES ASSUME UploadInv, [Next]_vars PROVE UploadInv'
  OBVIOUS
<1>1. ASSUME NEW e \in Emails, Archive(e) PROVE UploadInv'
  BY <1>1, UploadArchive
<1>2. CASE ToggleS3
  BY <1>2, UploadToggle
<1>3. CASE Claim
  BY <1>3, UploadClaim
<1>4. ASSUME NEW w \in Workers, Upload(w) PROVE UploadInv'
  BY <1>4, UploadHand, UploadRead, UploadMark DEF Upload
<1>5. ASSUME NEW r \in Runners, Retain(r) PROVE UploadInv'
  BY <1>5, UploadRetain
<1>6. ASSUME NEW q \in Requests, Serve(q) PROVE UploadInv'
  BY <1>6, UploadServe
<1>7. CASE Failure
  BY <1>7, UploadRead, UploadMark, UploadRetain, UploadServe, UploadRestart DEF Failure
<1>8. CASE UNCHANGED vars
  BY <1>8 DEF vars, storage, configVars, history, counters, UploadInv, TypeOK, FieldsInv, RowOf,
     WorkerOf, RunnerOf, RequestOf, HoldInv, Held
<1> QED BY <1>1, <1>2, <1>3, <1>4, <1>5, <1>6, <1>7, <1>8 DEF Next

(* Type correctness.  It needs HoldInv: an attempt is only counted for a row *)
(* that is "uploading", whose attempts are not used up.                      *)
THEOREM TypeCorrect == Spec => []TypeOK
<1>1. UploadInv => TypeOK
  BY DEF UploadInv
<1> QED BY <1>1, InitUploadInv, UploadNext, PTL DEF Spec

LEMMA SingleHolder ==
  ASSUME UploadInv, NEW e \in Emails
  PROVE  Cardinality(Holders(e)) <= 1
<1>1. \A x, y \in Holders(e) : x = y
  <2>1. \A i \in claimed, w \in Workers : ~(i.email = e /\ worker[w].email = e)
    BY DEF UploadInv, HoldInv
  <2> QED BY <2>1, NoneApart DEF UploadInv, HoldInv, Holders
<1>2. CASE Holders(e) = {}
  BY <1>2, FS_EmptySet
<1>3. CASE Holders(e) # {}
  <2>1. PICK x \in Holders(e) : TRUE
    BY <1>3
  <2>2. Holders(e) = {x}
    BY <1>1, <2>1
  <2> QED BY <2>2, FS_Singleton
<1> QED BY <1>2, <1>3

(* ClaimBatch's promise, in every interleaving of the dispatcher, any number *)
(* of workers, deletions, failures and restarts: a queue row is in at most   *)
(* one pair of hands and is not claimable while it is.                       *)
THEOREM UploadsExclusive == Spec => []OneUploadAtATime
<1>1. UploadInv => OneUploadAtATime
  <2> SUFFICES ASSUME UploadInv, NEW e \in Emails
               PROVE  /\ Cardinality(Holders(e)) <= 1
                      /\ queue[e].status = "pending" => Holders(e) = {}
                      /\ queue[e].status = "uploading" =>
                             Holders(e) # {} \/ e \in unmarked \/ restarts > 0
    BY DEF OneUploadAtATime
  <2>1. Held(e) <=> Holders(e) # {}
    BY DEF Held, Holders
  <2> QED BY <2>1, SingleHolder DEF UploadInv, HoldInv
<1> QED BY <1>1, InitUploadInv, UploadNext, PTL DEF Spec
------------------------------------------------------------------------------
(* What the files, the bucket and the copies of rows hold, when messages    *)
(* have keys and names of their own.                                        *)
LEMMA PathsNamed ==
  ASSUME OwnContent, NEW e \in Emails, NEW f \in Emails, NEW p, p # None, Named(e, p), Named(f, p)
  PROVE  e = f
  BY DEF OwnContent, Named

LEMMA InitContentInv == Init => ContentInv /\ MoveInv
<1> SUFFICES ASSUME Init PROVE ContentInv /\ MoveInv
  OBVIOUS
<1>1. NamesInv /\ FilesInv
  BY DEF Init, NamesInv, FilesInv, Named, NoRow, NoEntry, Resting, NoRun, NoReq
<1>2. ObjectsInv /\ RemovalInv
  BY DEF Init, ObjectsInv, RemovalInv, Evicted, NoRow, Resting, NoRun, NoReq
<1>3. MoveInv
  BY DEF Init, MoveInv, Local, Renaming, InRequest, NoRow, NoReq
<1> QED BY <1>1, <1>2, <1>3 DEF ContentInv

(* The steps of a move that write the row, and that may rename the file back. *)
Reassigns(q) == AssignFolder(q) \/ AssignLate(q) \/ (AssignUnheard(q) /\ Reassigned(q))
MovesBack(q) == AssignFails(q) \/ MoveBack(q) \/ (AssignUnheard(q) /\ MovedBack(q))

(* Which actions touch what. *)
LEMMA RowChanges ==
  ASSUME [Next]_vars
  PROVE  \/ UNCHANGED row
         \/ \E e \in Emails : Archive(e)
         \/ \E w \in Workers : MarkDone(w)
         \/ \E r \in Runners : EvictRow(r) \/ DeleteRow(r) \/ PurgeRow(r)
         \/ \E q \in Requests : DeleteEmailRow(q) \/ Reassigns(q)
  BY DEF Reassigns, Next, Upload, Retain, Serve, Failure, Hand, Read, Put, PutFails, MarkDoneFails, MarkFailed,
     MarkFailedFails, ListForEviction, ListForDeletion, ListForPurge, RemoveFile, PurgeObject,
     EndRun, SkipEmail, StartDelete, DeleteObject, DeleteEmailFile, StartMove, RenameFile,
     RequestFails, AssignFails, AssignUnheard, MoveBack, ToggleS3, Claim, Restart, vars, storage,
     configVars, history, counters

LEMMA FilesChange ==
  ASSUME [Next]_vars
  PROVE  \/ UNCHANGED files
         \/ \E e \in Emails : Archive(e)
         \/ \E r \in Runners : RemoveFile(r)
         \/ \E q \in Requests : DeleteEmailFile(q) \/ RenameFile(q) \/ MovesBack(q)
  BY DEF MovesBack, Next, Upload, Retain, Serve, Failure, Hand, Read, Put, PutFails, MarkDone, MarkDoneFails,
     MarkFailed, MarkFailedFails, ListForEviction, ListForDeletion, ListForPurge, EvictRow,
     DeleteRow, PurgeObject, PurgeRow, EndRun, SkipEmail, StartDelete, DeleteObject, DeleteEmailRow,
     StartMove, AssignFolder, RequestFails, AssignUnheard, AssignLate, ToggleS3, Claim, Restart, vars,
     storage, configVars, history, counters, DropRow

LEMMA BucketChanges ==
  ASSUME [Next]_vars
  PROVE  \/ UNCHANGED bucket
         \/ \E w \in Workers : Put(w) \/ PutFails(w)
         \/ \E r \in Runners : PurgeObject(r)
         \/ \E q \in Requests : DeleteObject(q)
  BY DEF Next, Upload, Retain, Serve, Failure, Hand, Read, MarkDone, MarkDoneFails, MarkFailed,
     MarkFailedFails, ListForEviction, ListForDeletion, ListForPurge, EvictRow, DeleteRow,
     RemoveFile, PurgeRow, EndRun, SkipEmail, StartDelete, DeleteEmailRow, DeleteEmailFile,
     StartMove, RenameFile, AssignFolder, RequestFails, AssignFails, AssignUnheard, MoveBack, AssignLate, MovedBack, Reassigned, ToggleS3, Claim, Restart,
     Archive, vars, storage, configVars, history, counters, DropRow

LEMMA QueueChanges ==
  ASSUME [Next]_vars
  PROVE  \/ UNCHANGED queue
         \/ \E e \in Emails : Archive(e)
         \/ Claim
         \/ \E w \in Workers : MarkDone(w) \/ MarkFailed(w)
         \/ \E r \in Runners : DeleteRow(r) \/ PurgeRow(r)
         \/ \E q \in Requests : DeleteEmailRow(q)
  BY DEF Next, Upload, Retain, Serve, Failure, Hand, Read, Put, PutFails, MarkDoneFails,
     MarkFailedFails, ListForEviction, ListForDeletion, ListForPurge, EvictRow, RemoveFile,
     PurgeObject, EndRun, SkipEmail, StartDelete, DeleteObject, DeleteEmailFile, StartMove,
     RenameFile, AssignFolder, RequestFails, AssignFails, AssignUnheard, MoveBack, AssignLate, MovedBack, Reassigned, ToggleS3, Restart, vars, storage,
     configVars, history, counters

LEMMA WorkerChanges ==
  ASSUME [Next]_vars
  PROVE  \/ UNCHANGED <<worker, claimed>>
         \/ Claim
         \/ Restart
         \/ \E w \in Workers : Hand(w) \/ Read(w) \/ Put(w) \/ PutFails(w) \/ MarkDone(w) \/ MarkDoneFails(w) \/ MarkFailed(w) \/ MarkFailedFails(w)
  BY DEF Next, Upload, Retain, Serve, Failure, ListForEviction, ListForDeletion, ListForPurge,
     EvictRow, DeleteRow, RemoveFile, PurgeObject, PurgeRow, EndRun, SkipEmail, StartDelete,
     DeleteObject, DeleteEmailRow, DeleteEmailFile, StartMove, RenameFile, AssignFolder,
     RequestFails, AssignFails, AssignUnheard, MoveBack, AssignLate, MovedBack, Reassigned, ToggleS3, Archive, vars, storage, configVars, history, counters,
     DropRow

LEMMA RunnerChanges ==
  ASSUME [Next]_vars
  PROVE  \/ UNCHANGED runner
         \/ Restart
         \/ \E r \in Runners : ListForEviction(r) \/ ListForDeletion(r) \/ ListForPurge(r) \/ EvictRow(r) \/ DeleteRow(r) \/ RemoveFile(r) \/ PurgeObject(r) \/ PurgeRow(r) \/ EndRun(r) \/ SkipEmail(r)
  BY DEF Next, Upload, Retain, Serve, Failure, Hand, Read, Put, PutFails, MarkDone, MarkDoneFails,
     MarkFailed, MarkFailedFails, StartDelete, DeleteObject, DeleteEmailRow, DeleteEmailFile,
     StartMove, RenameFile, AssignFolder, RequestFails, AssignFails, AssignUnheard, MoveBack, AssignLate, MovedBack, Reassigned, ToggleS3, Claim, Archive, vars,
     storage, configVars, history, counters, DropRow

LEMMA RequestChanges ==
  ASSUME [Next]_vars
  PROVE  \/ UNCHANGED request
         \/ Restart
         \/ \E q \in Requests : StartDelete(q) \/ DeleteObject(q) \/ DeleteEmailRow(q) \/ DeleteEmailFile(q) \/ StartMove(q) \/ RenameFile(q) \/ AssignFolder(q) \/ RequestFails(q) \/ AssignFails(q) \/ AssignUnheard(q) \/ MoveBack(q) \/ AssignLate(q)
  BY DEF Next, Upload, Retain, Serve, Failure, Hand, Read, Put, PutFails, MarkDone, MarkDoneFails,
     MarkFailed, MarkFailedFails, ListForEviction, ListForDeletion, ListForPurge, EvictRow,
     DeleteRow, RemoveFile, PurgeObject, PurgeRow, EndRun, SkipEmail, ToggleS3, Claim, Archive,
     vars, storage, configVars, history, counters, DropRow

LEMMA DoomedChanges ==
  ASSUME [Next]_vars
  PROVE  \/ UNCHANGED doomed
         \/ \E r \in Runners : DeleteRow(r) \/ PurgeObject(r) \/ PurgeRow(r)
         \/ \E q \in Requests : DeleteObject(q) \/ DeleteEmailRow(q)
  BY DEF Next, Upload, Retain, Serve, Failure, Hand, Read, Put, PutFails, MarkDone, MarkDoneFails,
     MarkFailed, MarkFailedFails, ListForEviction, ListForDeletion, ListForPurge, EvictRow,
     RemoveFile, EndRun, SkipEmail, StartDelete, DeleteEmailFile, StartMove, RenameFile,
     AssignFolder, RequestFails, AssignFails, AssignUnheard, MoveBack, AssignLate, MovedBack, Reassigned, ToggleS3, Claim, Restart, Archive, vars, storage,
     configVars, history, counters

(* What a step may do to the row of an email. *)
LEMMA RowStep ==
  ASSUME UploadInv, [Next]_vars, NEW e \in Emails
  PROVE  \/ row'[e] = row[e]
         \/ Archive(e)
         \/ row'[e] = NoRow /\ e \in doomed'
         \/ /\ row[e].there /\ row'[e] = [row[e] EXCEPT !.etag = TRUE]
            /\ \E w \in Workers : worker[w].pc = "done" /\ worker[w].email = e
         \/ /\ row[e].there /\ row'[e] = [row[e] EXCEPT !.loc = "s3", !.path = None]
            /\ \E r \in Runners : runner[r].pc = "evict" /\ \E d \in runner[r].due : d.email = e
         \/ /\ row[e].there
            /\ \E q \in Requests : /\ Reassigns(q)
                                   /\ request[q].pc \in {"assign", "late"} /\ request[q].email = e
                                   /\ row'[e] = [row[e] EXCEPT !.path = request[q].dest]
<1>1. CASE UNCHANGED row
  BY <1>1
<1>2. ASSUME NEW f \in Emails, Archive(f) PROVE row'[e] = row[e] \/ Archive(e)
  BY <1>2 DEF UploadInv, TypeOK, Archive
<1>3. ASSUME NEW w \in Workers, MarkDone(w)
      PROVE  \/ row'[e] = row[e]
             \/ /\ row[e].there /\ row'[e] = [row[e] EXCEPT !.etag = TRUE]
                /\ worker[w].pc = "done" /\ worker[w].email = e
  <2>1. worker[w].pc = "done"
    BY <1>3 DEF MarkDone, At
  <2>2. row' = row \/ (row[worker[w].email].there /\ row' = [row EXCEPT ![worker[w].email].etag = TRUE])
    BY <1>3 DEF MarkDone
  <2>3. CASE worker[w].email = e
    BY <2>1, <2>2, <2>3 DEF UploadInv, TypeOK
  <2>4. CASE worker[w].email # e
    BY <2>2, <2>4 DEF UploadInv, TypeOK
  <2> QED BY <2>3, <2>4
<1>4. ASSUME NEW r \in Runners, EvictRow(r)
      PROVE  \/ row'[e] = row[e]
             \/ /\ row[e].there /\ row'[e] = [row[e] EXCEPT !.loc = "s3", !.path = None]
                /\ runner[r].pc = "evict" /\ \E d \in runner[r].due : d.email = e
  <2>1. PICK d \in runner[r].due :
          row' = IF row[d.email].there
                 THEN [row EXCEPT ![d.email].loc = "s3", ![d.email].path = None]
                 ELSE row
    BY <1>4 DEF EvictRow
  <2>2. runner[r].pc = "evict"
    BY <1>4 DEF EvictRow, InRun
  <2>3. CASE d.email = e
    BY <2>1, <2>2, <2>3 DEF UploadInv, TypeOK
  <2>4. CASE d.email # e
    BY <2>1, <2>4 DEF UploadInv, TypeOK
  <2> QED BY <2>3, <2>4
<1>5. ASSUME NEW r \in Runners, DeleteRow(r) \/ PurgeRow(r)
      PROVE  row'[e] = row[e] \/ (row'[e] = NoRow /\ e \in doomed')
  BY <1>5 DEF UploadInv, TypeOK, DeleteRow, PurgeRow, DropRow
<1>6. ASSUME NEW q \in Requests, DeleteEmailRow(q)
      PROVE  row'[e] = row[e] \/ (row'[e] = NoRow /\ e \in doomed')
  BY <1>6 DEF UploadInv, TypeOK, DeleteEmailRow, DropRow
<1>7. ASSUME NEW q \in Requests, Reassigns(q)
      PROVE  \/ row'[e] = row[e]
             \/ /\ row[e].there /\ request[q].pc \in {"assign", "late"} /\ request[q].email = e
                /\ row'[e] = [row[e] EXCEPT !.path = request[q].dest]
  BY <1>7 DEF UploadInv, TypeOK, Reassigns, AssignFolder, AssignLate, AssignUnheard, Reassigned, InRequest
<1> QED BY <1>1, <1>2, <1>3, <1>4, <1>5, <1>6, <1>7, RowChanges

LEMMA DoomedGrows == [Next]_vars => doomed \subseteq doomed'
  BY DoomedChanges DEF DeleteRow, PurgeObject, PurgeRow, DeleteObject, DeleteEmailRow, DropRow

LEMMA RowKeeps ==
  ASSUME UploadInv, [Next]_vars, NEW e \in Emails
  PROVE  \/ Archive(e)
         \/ row'[e] = NoRow /\ e \in doomed'
         \/ /\ row'[e].there = row[e].there
            /\ row[e].etag => row'[e].etag
            /\ row[e].loc = "s3" => row'[e].loc = "s3"
<1>1. row[e] \in RowRecords
  BY DEF UploadInv, TypeOK
<1> DEFINE Keeps == /\ row'[e].there = row[e].there
                    /\ row[e].etag => row'[e].etag
                    /\ row[e].loc = "s3" => row'[e].loc = "s3"
<1>2. CASE row'[e] = row[e]
  BY <1>2
<1>3. CASE row'[e] = [row[e] EXCEPT !.etag = TRUE]
  BY <1>1, <1>3 DEF RowRecords
<1>4. CASE row'[e] = [row[e] EXCEPT !.loc = "s3", !.path = None]
  BY <1>1, <1>4 DEF RowRecords
<1>5. ASSUME NEW q \in Requests, row'[e] = [row[e] EXCEPT !.path = request[q].dest]
      PROVE  Keeps
  BY <1>1, <1>5 DEF RowRecords
<1> HIDE DEF Keeps
<1>6. Archive(e) \/ (row'[e] = NoRow /\ e \in doomed') \/ Keeps
  BY <1>2, <1>3, <1>4, <1>5, RowStep DEF Keeps
<1> QED BY <1>6 DEF Keeps

(* Deletion is for good: a row that is gone is not archived again. *)
LEMMA PastStays ==
  ASSUME UploadInv, [Next]_vars, NEW e \in Emails, Past(e)
  PROVE  Past(e)'
<1>1. ~Archive(e)
  BY DEF Past, Evicted, Archive, NoRow
<1> QED BY <1>1, RowKeeps, DoomedGrows DEF Past, Evicted, NoRow

LEMMA KnownStays ==
  ASSUME UploadInv, [Next]_vars, NEW e \in Emails, row[e].there \/ e \in doomed
  PROVE  row'[e].there \/ e \in doomed'
<1>1. ~Archive(e)
  BY DEF Archive, NoRow
<1> QED BY <1>1, RowKeeps, DoomedGrows

LEMMA EtagStays ==
  ASSUME UploadInv, [Next]_vars, NEW e \in Emails, row[e].etag \/ e \in doomed
  PROVE  row'[e].etag \/ e \in doomed'
<1>1. ~Archive(e)
  BY DEF Archive, NoRow
<1> QED BY <1>1, RowKeeps, DoomedGrows
------------------------------------------------------------------------------
(* Names: every copy of a path keeps the base name the file was given. *)
LEMMA HomeNamed == ASSUME NEW e \in Emails PROVE Named(e, HomePath(e)) /\ Named(e, None)
  BY DEF Named, HomePath

LEMMA NamesOfRows ==
  ASSUME UploadInv, NamesInv, [Next]_vars, NEW e \in Emails
  PROVE  Named(e, row'[e].path)
<1>1. row[e] \in RowRecords /\ Named(e, row[e].path) /\ Named(e, None)
  BY HomeNamed DEF UploadInv, TypeOK, NamesInv
<1>2. CASE row'[e] = row[e]
  BY <1>1, <1>2
<1>3. CASE Archive(e)
  <2>1. row'[e].path = HomePath(e)
    BY <1>3 DEF UploadInv, TypeOK, Archive, NoRow
  <2> QED BY <2>1, HomeNamed
<1>4. CASE row'[e] = NoRow
  BY <1>1, <1>4 DEF NoRow
<1>5. CASE row'[e] = [row[e] EXCEPT !.etag = TRUE]
  BY <1>1, <1>5 DEF RowRecords
<1>6. CASE row'[e] = [row[e] EXCEPT !.loc = "s3", !.path = None]
  BY <1>1, <1>6 DEF RowRecords
<1>7. ASSUME NEW q \in Requests, request[q].pc \in {"assign", "late"}, request[q].email = e,
             row'[e] = [row[e] EXCEPT !.path = request[q].dest]
      PROVE  Named(e, row'[e].path)
  BY <1>1, <1>7 DEF RowRecords, NamesInv
<1> QED BY <1>2, <1>3, <1>4, <1>5, <1>6, <1>7, RowStep

LEMMA NamesOfQueue ==
  ASSUME UploadInv, NamesInv, [Next]_vars, NEW e \in Emails
  PROVE  Named(e, queue'[e].path)
<1>1. queue[e] \in EntryRecords /\ Named(e, queue[e].path) /\ Named(e, None) /\ Named(e, HomePath(e))
  BY HomeNamed DEF UploadInv, TypeOK, NamesInv
<1>2. queue'[e].path \in {queue[e].path, HomePath(e), None}
  <2>1. CASE UNCHANGED queue
    BY <2>1
  <2>2. ASSUME NEW f \in Emails, Archive(f) PROVE queue'[e].path \in {queue[e].path, HomePath(e)}
    BY <2>2 DEF UploadInv, TypeOK, Archive
  <2>3. CASE Claim
    BY <2>3, <1>1 DEF Claim, EntryRecords
  <2>4. ASSUME NEW w \in Workers, MarkDone(w) PROVE queue'[e].path \in {queue[e].path, None}
    <3>1. queue' = [queue EXCEPT ![worker[w].email] = NoEntry]
      BY <2>4 DEF MarkDone
    <3> QED BY <3>1 DEF UploadInv, TypeOK, NoEntry
  <2>5. ASSUME NEW w \in Workers, MarkFailed(w) PROVE queue'[e].path = queue[e].path
    <3>1. PICK tries, status :
            queue' = queue \/ queue' = [queue EXCEPT ![worker[w].email].tries = tries,
                                                     ![worker[w].email].status = status]
      BY <2>5 DEF MarkFailed
    <3>2. CASE worker[w].email = e
      BY <1>1, <3>1, <3>2 DEF UploadInv, TypeOK, EntryRecords
    <3>3. CASE worker[w].email # e
      BY <3>1, <3>3 DEF UploadInv, TypeOK
    <3> QED BY <3>2, <3>3
  <2>6. ASSUME NEW r \in Runners, DeleteRow(r) \/ PurgeRow(r)
        PROVE  queue'[e].path \in {queue[e].path, None}
    <3>1. PICK f : queue' = [queue EXCEPT ![f] = NoEntry]
      BY <2>6 DEF DeleteRow, PurgeRow, DropRow
    <3> QED BY <3>1 DEF UploadInv, TypeOK, NoEntry
  <2>7. ASSUME NEW q \in Requests, DeleteEmailRow(q) PROVE queue'[e].path \in {queue[e].path, None}
    BY <2>7 DEF UploadInv, TypeOK, DeleteEmailRow, DropRow, NoEntry
  <2> QED BY <2>1, <2>2, <2>3, <2>4, <2>5, <2>6, <2>7, QueueChanges
<1> QED BY <1>1, <1>2

(* What a step may do to a worker, apart from taking an item. *)
LEMMA WorkerStep ==
  ASSUME UploadInv, [Next]_vars, NEW w \in Workers
  PROVE  \/ worker'[w] = worker[w]
         \/ worker'[w] = Resting
         \/ Hand(w) \/ Read(w)
         \/ /\ \E pc \in {"done", "failed"} : worker'[w] = [worker[w] EXCEPT !.pc = pc]
            /\ Put(w) \/ PutFails(w) \/ MarkDoneFails(w)
<1>1. CASE UNCHANGED worker
  BY <1>1
<1>2. CASE Restart \/ Claim
  BY <1>2 DEF Restart, Claim
<1>3. ASSUME NEW v \in Workers, Hand(v) \/ Read(v)
      PROVE  worker'[w] = worker[w] \/ Hand(w) \/ Read(w)
  BY <1>3 DEF UploadInv, TypeOK, Hand, Read
<1>4. ASSUME NEW v \in Workers, Put(v) \/ PutFails(v) \/ MarkDoneFails(v)
      PROVE  \/ worker'[w] = worker[w]
             \/ /\ \E pc \in {"done", "failed"} : worker'[w] = [worker[w] EXCEPT !.pc = pc]
                /\ Put(w) \/ PutFails(w) \/ MarkDoneFails(w)
  <2>1. PICK pc \in {"done", "failed"} : worker' = [worker EXCEPT ![v].pc = pc]
    BY <1>4 DEF Put, PutFails, MarkDoneFails, Goto
  <2>2. CASE v = w
    BY <1>4, <2>1, <2>2 DEF UploadInv, TypeOK
  <2>3. CASE v # w
    BY <2>1, <2>3 DEF UploadInv, TypeOK
  <2> QED BY <2>2, <2>3
<1>5. ASSUME NEW v \in Workers, MarkDone(v) \/ MarkFailed(v) \/ MarkFailedFails(v)
      PROVE  worker'[w] \in {worker[w], Resting}
  BY <1>5 DEF UploadInv, TypeOK, MarkDone, MarkFailed, MarkFailedFails
<1> QED BY <1>1, <1>2, <1>3, <1>4, <1>5, WorkerChanges

LEMMA NamesOfWorkers ==
  ASSUME UploadInv, NamesInv, [Next]_vars
  PROVE  /\ \A i \in claimed' : Named(i.email, i.path)
         /\ \A w \in Workers : worker'[w].pc # "idle" => Named(worker'[w].email, worker'[w].path)
<1>1. ASSUME NEW i \in claimed' PROVE Named(i.email, i.path)
  <2>1. CASE Claim
    BY <2>1 DEF Claim, NamesInv
  <2>2. CASE claimed' \subseteq claimed
    BY <2>2 DEF NamesInv
  <2>3. Claim \/ claimed' \subseteq claimed
    BY WorkerChanges DEF Restart, Hand, Read, Put, PutFails, MarkDone, MarkDoneFails, MarkFailed,
       MarkFailedFails, storage
  <2> QED BY <2>1, <2>2, <2>3
<1>2. ASSUME NEW w \in Workers, worker'[w].pc # "idle"
      PROVE  Named(worker'[w].email, worker'[w].path)
  <2>1. CASE worker'[w] = worker[w]
    BY <1>2, <2>1 DEF NamesInv
  <2>2. CASE Hand(w)
    BY <2>2 DEF UploadInv, TypeOK, Hand, NamesInv
  <2>3. CASE Read(w)
    <3>1. worker'[w].email = worker[w].email /\ worker'[w].path = worker[w].path /\ worker[w].pc # "idle"
      BY <2>3 DEF UploadInv, TypeOK, WorkerRecords, Read, At
    <3> QED BY <3>1 DEF NamesInv
  <2>4. CASE Put(w) \/ PutFails(w) \/ MarkDoneFails(w)
    <3>1. worker'[w].email = worker[w].email /\ worker'[w].path = worker[w].path /\ worker[w].pc # "idle"
      BY <2>4 DEF UploadInv, TypeOK, WorkerRecords, Put, PutFails, MarkDoneFails, At, Goto
    <3> QED BY <3>1 DEF NamesInv
  <2>5. worker'[w] # Resting
    BY <1>2 DEF Resting
  <2> QED BY <2>1, <2>2, <2>3, <2>4, <2>5, WorkerStep
<1> QED BY <1>1, <1>2

(* What a step may do to a retention run: list emails, take one of them up, *)
(* or go on.                                                                *)
RunLists(r) ==
    \E due \in SUBSET Emails, pc \in {"evict", "direct", "purge"} :
        /\ runner'[r] = [runner[r] EXCEPT !.pc = pc, !.due = Snapshots(due)]
        /\ pc = "evict" => \A e \in due : row[e].etag

RunRemoves(r, d) ==
    /\ runner'[r].due \subseteq runner[r].due /\ runner'[r].path = d.path
    /\ \/ /\ runner[r].pc = "evict" /\ runner'[r].pc = "evictFile"
          /\ row'[d.email] = IF row[d.email].there
                             THEN [row[d.email] EXCEPT !.loc = "s3", !.path = None]
                             ELSE row[d.email]
       \/ /\ runner[r].pc = "direct" /\ runner'[r].pc = "directFile"
          /\ row'[d.email] = NoRow /\ d.email \in doomed'

RunGoesOn(r) ==
    /\ runner'[r].due \subseteq runner[r].due
    /\ \/ runner'[r].pc \in {"direct", "purge", "purgeRow"}
       \/ runner'[r].pc = "evict" /\ runner[r].pc \in {"evict", "evictFile"}

LEMMA RunnerStep ==
  ASSUME UploadInv, [Next]_vars, NEW r \in Runners
  PROVE  \/ runner'[r] \in {runner[r], NoRun}
         \/ RunLists(r)
         \/ \E d \in runner[r].due : RunRemoves(r, d)
         \/ RunGoesOn(r)
<1>0. runner[r] \in RunnerRecords
  BY DEF UploadInv, TypeOK
<1>1. CASE UNCHANGED runner
  BY <1>1
<1>2. CASE Restart
  BY <1>2 DEF Restart
<1>3. ASSUME NEW o \in Runners, o # r, Retain(o) \/ SkipEmail(o)
      PROVE  runner'[r] = runner[r]
  BY <1>3 DEF UploadInv, TypeOK, Retain, ListForEviction, ListForDeletion, ListForPurge, EvictRow,
     DeleteRow, RemoveFile, PurgeObject, PurgeRow, EndRun, SkipEmail
<1>4. CASE ListForEviction(r) \/ ListForDeletion(r) \/ ListForPurge(r)
  <2>1. PICK due \in SUBSET Emails, pc \in {"evict", "direct", "purge"} :
          /\ runner' = [runner EXCEPT ![r].pc = pc, ![r].due = Snapshots(due)]
          /\ pc = "evict" => \A e \in due : row[e].etag
    BY <1>4 DEF ListForEviction, ListForDeletion, ListForPurge
  <2>2. runner'[r] = [runner[r] EXCEPT !.pc = pc, !.due = Snapshots(due)]
    BY <2>1 DEF UploadInv, TypeOK
  <2> QED BY <2>1, <2>2 DEF RunLists
<1>5. CASE EvictRow(r)
  <2>1. PICK d \in runner[r].due :
          /\ row' = IF row[d.email].there
                    THEN [row EXCEPT ![d.email].loc = "s3", ![d.email].path = None] ELSE row
          /\ runner' = [runner EXCEPT ![r].due = @ \ {d}, ![r].pc = "evictFile", ![r].path = d.path]
    BY <1>5 DEF EvictRow
  <2>2. d.email \in Emails /\ runner[r].pc = "evict"
    BY <1>0, <1>5 DEF RunnerRecords, DueRecords, EvictRow, InRun
  <2>3. /\ runner'[r].due \subseteq runner[r].due /\ runner'[r].pc = "evictFile"
        /\ runner'[r].path = d.path
    BY <1>0, <2>1 DEF UploadInv, TypeOK, RunnerRecords
  <2>4. row'[d.email] = IF row[d.email].there THEN [row[d.email] EXCEPT !.loc = "s3", !.path = None]
                        ELSE row[d.email]
    BY <2>1, <2>2 DEF UploadInv, TypeOK
  <2>5. RunRemoves(r, d)
    BY <2>2, <2>3, <2>4 DEF RunRemoves
  <2> QED BY <2>5
<1>6. CASE DeleteRow(r)
  <2>1. PICK d \in runner[r].due :
          /\ DropRow(d.email)
          /\ runner' = [runner EXCEPT ![r].due = @ \ {d}, ![r].pc = "directFile", ![r].path = d.path]
    BY <1>6 DEF DeleteRow
  <2>2. d.email \in Emails /\ runner[r].pc = "direct"
    BY <1>0, <1>6 DEF RunnerRecords, DueRecords, DeleteRow, InRun
  <2>3. /\ runner'[r].due \subseteq runner[r].due /\ runner'[r].pc = "directFile"
        /\ runner'[r].path = d.path
    BY <1>0, <2>1 DEF UploadInv, TypeOK, RunnerRecords
  <2>4. row'[d.email] = NoRow /\ d.email \in doomed'
    BY <2>1, <2>2 DEF UploadInv, TypeOK, DropRow
  <2>5. RunRemoves(r, d)
    BY <2>2, <2>3, <2>4 DEF RunRemoves
  <2> QED BY <2>5
<1>7. CASE RemoveFile(r) \/ PurgeObject(r) \/ PurgeRow(r)
  <2>1. CASE RemoveFile(r)
    <3>1. \E pc \in {"evict", "direct"} : /\ runner' = [runner EXCEPT ![r].pc = pc, ![r].path = None]
                                          /\ pc = "evict" => runner[r].pc = "evictFile"
      BY <2>1 DEF UploadInv, TypeOK, RemoveFile
    <3> QED BY <1>0, <3>1 DEF UploadInv, TypeOK, RunnerRecords, RunGoesOn
  <2>2. CASE PurgeObject(r)
    <3>1. \E d \in runner[r].due :
             runner' = [runner EXCEPT ![r].due = @ \ {d}, ![r].pc = "purgeRow", ![r].email = d.email]
      BY <2>2 DEF PurgeObject
    <3> QED BY <1>0, <3>1 DEF UploadInv, TypeOK, RunnerRecords, RunGoesOn
  <2>3. CASE PurgeRow(r)
    <3>1. runner' = [runner EXCEPT ![r].pc = "purge", ![r].email = None]
      BY <2>3 DEF PurgeRow
    <3> QED BY <1>0, <3>1 DEF UploadInv, TypeOK, RunnerRecords, RunGoesOn
  <2> QED BY <1>7, <2>1, <2>2, <2>3
<1>8. CASE EndRun(r)
  BY <1>8 DEF UploadInv, TypeOK, EndRun
<1>9. CASE SkipEmail(r)
  <2>1. CASE runner[r].pc \in {"evict", "direct", "purge"}
    <3>1. PICK d \in runner[r].due : runner' = [runner EXCEPT ![r].due = @ \ {d}]
      BY <1>9, <2>1 DEF SkipEmail, InRun
    <3> QED BY <1>0, <2>1, <3>1 DEF UploadInv, TypeOK, RunnerRecords, RunGoesOn
  <2>2. CASE runner[r].pc = "purgeRow"
    <3>1. runner' = [runner EXCEPT ![r].pc = "purge", ![r].email = None]
      BY <1>9, <2>2 DEF SkipEmail
    <3> QED BY <1>0, <3>1 DEF UploadInv, TypeOK, RunnerRecords, RunGoesOn
  <2>3. CASE runner[r].pc \in {"evictFile", "directFile"}
    <3>1. \E pc \in {"evict", "direct"} : /\ runner' = [runner EXCEPT ![r].pc = pc, ![r].path = None]
                                          /\ pc = "evict" => runner[r].pc = "evictFile"
      BY <1>9, <2>3 DEF UploadInv, TypeOK, SkipEmail, InRun
    <3> QED BY <1>0, <3>1 DEF UploadInv, TypeOK, RunnerRecords, RunGoesOn
  <2> QED BY <1>9, <2>1, <2>2, <2>3 DEF SkipEmail, InRun
<1> QED BY <1>1, <1>2, <1>3, <1>4, <1>5, <1>6, <1>7, <1>8, <1>9, RunnerChanges DEF Retain

(* What a step may do to a request: start, go on or be answered. *)
Deletes(q) ==
    \E e \in Emails :
        /\ row[e].there
        /\ request'[q] = [pc |-> IF row[e].etag THEN "object" ELSE "row", email |-> e,
                          path |-> row[e].path, key |-> row[e].etag, dest |-> None]

Moves(q) ==
    \E e \in Emails, d \in Dirs :
        /\ row[e].there /\ (row[e].path # None => row[e].path[1] # d)
        /\ request'[q] = [pc |-> IF row[e].path = None THEN "assign" ELSE "rename", email |-> e,
                          path |-> row[e].path, key |-> FALSE,
                          dest |-> IF row[e].path = None THEN None ELSE <<d, row[e].path[2]>>]

GoesTo(q, pc) == request'[q] = [request[q] EXCEPT !.pc = pc]

LEMMA RequestStep ==
  ASSUME UploadInv, [Next]_vars, NEW q \in Requests
  PROVE  \/ request'[q] \in {request[q], NoReq}
         \/ Deletes(q) \/ Moves(q)
         \/ request[q].pc = "object" /\ GoesTo(q, "row")
         \/ /\ request[q].pc = "row" /\ GoesTo(q, "file")
            /\ row'[request[q].email] = NoRow /\ request[q].email \in doomed'
         \/ request[q].pc = "rename" /\ GoesTo(q, "assign") /\ RenameFile(q)
         \/ /\ request[q].pc = "assign" /\ AssignUnheard(q)
            /\ GoesTo(q, "back") \/ GoesTo(q, "late")
<1>0. request[q] \in RequestRecords /\ (request[q].pc # "idle" => request[q].email \in Emails)
  BY DEF UploadInv, TypeOK, FieldsInv, RequestOf
<1>1. CASE UNCHANGED request
  BY <1>1
<1>2. CASE Restart
  BY <1>2 DEF Restart
<1>3. ASSUME NEW o \in Requests, o # q, Serve(o) \/ RequestFails(o) \/ AssignFails(o) \/ AssignUnheard(o)
      PROVE  request'[q] = request[q]
  BY <1>3 DEF UploadInv, TypeOK, Serve, StartDelete, DeleteObject, DeleteEmailRow, DeleteEmailFile,
     StartMove, RenameFile, AssignFolder, RequestFails, AssignFails, AssignUnheard, MoveBack, AssignLate, MovedBack, Reassigned, Answer, Continue
<1>4. CASE Answer(q)
  BY <1>4, RequestEnds DEF UploadInv, TypeOK, Answer
<1>5. CASE StartDelete(q)
  BY <1>5 DEF UploadInv, TypeOK, StartDelete, Deletes
<1>6. CASE StartMove(q)
  BY <1>6 DEF UploadInv, TypeOK, StartMove, Moves
<1>7. CASE DeleteObject(q)
  BY <1>7, RequestContinues DEF UploadInv, DeleteObject, InRequest, GoesTo
<1>8. CASE DeleteEmailRow(q)
  <2>1. request[q].pc = "row" /\ GoesTo(q, "file")
    BY <1>8, RequestContinues DEF UploadInv, DeleteEmailRow, InRequest, GoesTo
  <2>2. row'[request[q].email] = NoRow /\ request[q].email \in doomed'
    BY <1>0, <1>8, <2>1 DEF UploadInv, TypeOK, DeleteEmailRow, DropRow
  <2> QED BY <2>1, <2>2
<1>9. CASE RenameFile(q) /\ Continue(q, "assign")
  BY <1>9, RequestContinues DEF UploadInv, RenameFile, InRequest, GoesTo
<1>10. CASE AssignUnheard(q)
  BY <1>10, RequestContinues DEF UploadInv, AssignUnheard, InRequest, GoesTo
<1> QED BY <1>1, <1>2, <1>3, <1>4, <1>5, <1>6, <1>7, <1>8, <1>9, <1>10, RequestChanges
        DEF Serve, RequestFails, AssignFails, MoveBack, AssignLate, RenameFile, DeleteEmailFile,
            AssignFolder

LEMMA NamesOfRunners ==
  ASSUME UploadInv, NamesInv, [Next]_vars, NEW r \in Runners, NEW d \in runner'[r].due
  PROVE  Named(d.email, d.path)
<1>1. runner[r] \in RunnerRecords
  BY DEF UploadInv, TypeOK
<1>2. CASE runner'[r] = NoRun
  BY <1>2 DEF NoRun
<1>3. CASE runner'[r].due \subseteq runner[r].due
  BY <1>3 DEF NamesInv
<1>4. CASE RunLists(r)
  <2>1. PICK due \in SUBSET Emails : runner'[r].due = Snapshots(due)
    BY <1>1, <1>4 DEF RunLists, RunnerRecords
  <2> QED BY <2>1 DEF Snapshots, NamesInv
<1> QED BY <1>2, <1>3, <1>4, RunnerStep DEF RunRemoves, RunGoesOn

LEMMA NamesOfRequests ==
  ASSUME UploadInv, NamesInv, [Next]_vars, NEW q \in Requests, request'[q].pc # "idle"
  PROVE  /\ Named(request'[q].email, request'[q].path)
         /\ Named(request'[q].email, request'[q].dest)
<1>1. request[q] \in RequestRecords
  BY DEF UploadInv, TypeOK
<1>2. CASE request'[q] = request[q]
  BY <1>2 DEF NamesInv
<1>3. CASE Deletes(q)
  BY <1>3, HomeNamed DEF Deletes, NamesInv
<1>4. CASE Moves(q)
  BY <1>4 DEF Moves, NamesInv, Named
<1>5. ASSUME NEW pc, request[q].pc # "idle", GoesTo(q, pc)
      PROVE  /\ Named(request'[q].email, request'[q].path)
             /\ Named(request'[q].email, request'[q].dest)
  BY <1>1, <1>5 DEF GoesTo, NamesInv, RequestRecords
<1>6. request'[q] # NoReq
  BY DEF NoReq
<1> QED BY <1>2, <1>3, <1>4, <1>5, <1>6, RequestStep

LEMMA NamesNext == UploadInv /\ NamesInv /\ [Next]_vars => NamesInv'
<1> SUFFICES ASSUME UploadInv, NamesInv, [Next]_vars PROVE NamesInv'
  OBVIOUS
<1>1. \A e, p : Named(e, p)' = Named(e, p)
  BY DEF Named
<1>2. \A e \in Emails : Named(e, row'[e].path) /\ Named(e, queue'[e].path)
  BY NamesOfRows, NamesOfQueue
<1>3. \A r \in Runners : \A d \in runner'[r].due : Named(d.email, d.path)
  BY NamesOfRunners
<1>4. \A q \in Requests : request'[q].pc # "idle" =>
           /\ Named(request'[q].email, request'[q].path)
           /\ Named(request'[q].email, request'[q].dest)
  BY NamesOfRequests
<1> QED BY <1>1, <1>2, <1>3, <1>4, NamesOfWorkers DEF NamesInv, Named
------------------------------------------------------------------------------
(* Contents: a file under an email's name, and an object under its key, is   *)
(* that email.                                                               *)
LEMMA MovedPaths ==
  ASSUME UploadInv, NamesInv, NEW q \in Requests,
         RenameFile(q) \/ (MovesBack(q) /\ request[q].dest # None)
  PROVE  /\ request[q].path \in Paths /\ request[q].dest \in Paths /\ request[q].email \in Emails
         /\ request[q].path[2] = Name[request[q].email]
         /\ request[q].dest[2] = Name[request[q].email]
         /\ request[q].path # request[q].dest
<1>1. request[q].pc \in {"rename", "assign", "back"} /\ RequestOf(q)
  BY DEF UploadInv, FieldsInv, RenameFile, MovesBack, AssignFails, AssignUnheard, MoveBack, InRequest
<1>2. request[q].dest # None
  BY <1>1, NoneApart DEF RequestOf, RenameFile, InRequest
<1>3. request[q].path \in Paths /\ request[q].dest \in Paths /\ request[q].email \in Emails
      /\ request[q].path # request[q].dest
  BY <1>1, <1>2 DEF RequestOf
<1> QED BY <1>1, <1>3, NoneApart DEF NamesInv, Named

(* What a step may do to a file: remove it, rename it, or write a new one. *)
LEMMA FileStep ==
  ASSUME UploadInv, NamesInv, [Next]_vars
  PROVE  \/ UNCHANGED files
         \/ \E e \in Emails : Archive(e)
         \/ \E r \in Runners : /\ runner[r].pc \in {"evictFile", "directFile"}
                               /\ runner[r].path # None
                               /\ files' = [files EXCEPT ![runner[r].path] = None]
         \/ \E q \in Requests : /\ request[q].pc = "file" /\ request[q].path # None
                                /\ files' = [files EXCEPT ![request[q].path] = None]
         \/ \E q \in Requests, from, to \in Paths :
               /\ from[2] = Name[request[q].email] /\ to[2] = Name[request[q].email]
               /\ request[q].pc \in {"rename", "assign", "back"} /\ request[q].email \in Emails
               /\ files[from] # None /\ from # to
               /\ RenameFile(q) \/ MovesBack(q)
               /\ files' = Renamed(from, to)
<1>1. ASSUME NEW r \in Runners, RemoveFile(r), files' # files
      PROVE  /\ runner[r].pc \in {"evictFile", "directFile"} /\ runner[r].path # None
             /\ files' = [files EXCEPT ![runner[r].path] = None]
  BY <1>1 DEF RemoveFile
<1>2. ASSUME NEW q \in Requests, DeleteEmailFile(q), files' # files
      PROVE  /\ request[q].pc = "file" /\ request[q].path # None
             /\ files' = [files EXCEPT ![request[q].path] = None]
  BY <1>2 DEF DeleteEmailFile, InRequest
<1>3. ASSUME NEW q \in Requests, RenameFile(q) \/ MovesBack(q), files' # files
      PROVE  \E from, to \in Paths :
               /\ from[2] = Name[request[q].email] /\ to[2] = Name[request[q].email]
               /\ request[q].pc \in {"rename", "assign", "back"} /\ request[q].email \in Emails
               /\ files[from] # None /\ from # to
               /\ files' = Renamed(from, to)
  <2>1. CASE RenameFile(q)
    BY <1>3, <2>1, MovedPaths DEF RenameFile, InRequest
  <2>2. CASE MovesBack(q)
    BY <1>3, <2>2, MovedPaths DEF MovesBack, AssignFails, AssignUnheard, MoveBack, MovedBack, InRequest
  <2> QED BY <1>3, <2>1, <2>2
<1> QED BY <1>1, <1>2, <1>3, FilesChange

LEMMA FilesNext == OwnContent /\ UploadInv /\ NamesInv /\ FilesInv /\ [Next]_vars => FilesInv'
<1> SUFFICES ASSUME OwnContent, UploadInv, NamesInv, FilesInv, [Next]_vars,
                    NEW e \in Emails, NEW p \in Paths, p[2] = Name[e]
             PROVE  files'[p] \in {None, Key[e]}
  BY DEF FilesInv
<1>1. files \in [Paths -> OrNone(Keys)] /\ files[p] \in {None, Key[e]}
  BY DEF UploadInv, TypeOK, FilesInv
<1>2. ASSUME NEW f \in Emails, Archive(f) PROVE files'[p] \in {None, Key[e]}
  <2>1. files' = [files EXCEPT ![HomePath(f)] = Key[f]]
    BY <1>2 DEF Archive
  <2>2. p = HomePath(f) => e = f
    BY DEF OwnContent, HomePath
  <2> QED BY <1>1, <2>1, <2>2
<1>3. ASSUME NEW o, files' = [files EXCEPT ![o] = None] PROVE files'[p] \in {None, Key[e]}
  BY <1>1, <1>3
<1>4. ASSUME NEW q \in Requests, NEW from \in Paths, NEW to \in Paths,
             from[2] = Name[request[q].email], to[2] = Name[request[q].email],
             request[q].email \in Emails, files' = Renamed(from, to)
      PROVE  files'[p] \in {None, Key[e]}
  <2>1. files'[p] = IF p = from THEN None ELSE IF p = to THEN files[from] ELSE files[p]
    BY <1>1, <1>4 DEF Renamed
  <2>2. p = to => from[2] = Name[e]
    BY <1>4
  <2>3. from[2] = Name[e] => files[from] \in {None, Key[e]}
    BY <1>4 DEF FilesInv
  <2> QED BY <1>1, <2>1, <2>2, <2>3
<1> QED BY <1>1, <1>2, <1>3, <1>4, FileStep

(* An object stays what it is until its email is doomed. *)
LEMMA ObjectStays ==
  ASSUME OwnContent, UploadInv, ObjectsInv, [Next]_vars, NEW e \in Emails, Stored(e)
  PROVE  Stored(e)'
<1>1. bucket \in [Keys -> OrNone(Keys)] /\ Key[e] \in Keys
  BY KeyIsKey DEF UploadInv, TypeOK
<1>2. CASE UNCHANGED bucket
  BY <1>2, DoomedGrows DEF Stored
<1>3. ASSUME NEW w \in Workers, Put(w) \/ PutFails(w) PROVE Stored(e)'
  <2>1. PICK f \in Emails : f = worker[w].email /\ worker[w].data = Key[f]
    BY <1>3 DEF UploadInv, TypeOK, WorkerRecords, OrNone, FieldsInv, WorkerOf, ObjectsInv, Put,
       PutFails, At
  <2>2. bucket' \in {bucket, [bucket EXCEPT ![Key[f]] = Key[f]]}
    BY <1>3, <2>1 DEF Put, PutFails
  <2> QED BY <1>1, <2>2, DoomedGrows DEF Stored
<1>4. ASSUME NEW f \in Emails, bucket' = [bucket EXCEPT ![Key[f]] = None], f \in doomed'
      PROVE  Stored(e)'
  BY <1>1, <1>4, DoomedGrows DEF Stored, OwnContent
<1>5. ASSUME NEW r \in Runners, PurgeObject(r)
      PROVE  \E f \in Emails : bucket' = [bucket EXCEPT ![Key[f]] = None] /\ f \in doomed'
  <2>1. PICK d \in runner[r].due :
          bucket' = [bucket EXCEPT ![Key[d.email]] = None] /\ doomed' = doomed \cup {d.email}
    BY <1>5 DEF PurgeObject
  <2>2. d.email \in Emails
    BY DEF UploadInv, TypeOK, RunnerRecords, DueRecords
  <2> QED BY <2>1, <2>2
<1>6. ASSUME NEW q \in Requests, DeleteObject(q)
      PROVE  \E f \in Emails : bucket' = [bucket EXCEPT ![Key[f]] = None] /\ f \in doomed'
  BY <1>6 DEF DeleteObject, InRequest, UploadInv, FieldsInv, RequestOf
<1> QED BY <1>2, <1>3, <1>4, <1>5, <1>6, BucketChanges

LEMMA ObjectsNext ==
  OwnContent /\ UploadInv /\ NamesInv /\ FilesInv /\ ObjectsInv /\ [Next]_vars => ObjectsInv'
<1> SUFFICES ASSUME OwnContent, UploadInv, NamesInv, FilesInv, ObjectsInv, [Next]_vars
             PROVE  ObjectsInv'
  OBVIOUS
<1>1. ASSUME NEW e \in Emails, row'[e].etag PROVE Stored(e)'
  <2>1. row[e] \in RowRecords
    BY DEF UploadInv, TypeOK
  <2>2. CASE row[e].etag
    BY <2>2, ObjectStays DEF ObjectsInv
  <2>3. CASE \E w \in Workers : worker[w].pc = "done" /\ worker[w].email = e
    BY <2>3, ObjectStays DEF ObjectsInv
  <2>4. CASE Archive(e)
    BY <1>1, <2>4 DEF UploadInv, TypeOK, Archive, NoRow
  <2>5. CASE row'[e] = NoRow
    BY <1>1, <2>5 DEF NoRow
  <2>6. CASE row'[e] = [row[e] EXCEPT !.loc = "s3", !.path = None]
    BY <1>1, <2>1, <2>2, <2>6 DEF RowRecords
  <2>7. ASSUME NEW p, row'[e] = [row[e] EXCEPT !.path = p] PROVE row[e].etag
    BY <1>1, <2>1, <2>7 DEF RowRecords
  <2>8. CASE row'[e] = row[e]
    BY <1>1, <2>2, <2>8
  <2> QED BY <2>2, <2>3, <2>4, <2>5, <2>6, <2>7, <2>8, RowStep
<1>2. ASSUME NEW e \in Emails, Evicted(e)' PROVE row'[e].etag \/ e \in doomed'
  <2>1. row[e] \in RowRecords
    BY DEF UploadInv, TypeOK
  <2>2. row'[e].there /\ row'[e].loc = "s3"
    BY <1>2 DEF Evicted
  <2>3. CASE Evicted(e)
    BY <2>3, EtagStays DEF ObjectsInv
  <2>4. CASE \E r \in Runners : runner[r].pc = "evict" /\ \E d \in runner[r].due : d.email = e
    BY <2>4, EtagStays DEF ObjectsInv
  <2>5. CASE Archive(e)
    BY <2>2, <2>5 DEF UploadInv, TypeOK, Archive, NoRow
  <2>6. CASE row'[e] = NoRow
    BY <2>2, <2>6 DEF NoRow
  <2>7. CASE row'[e] = [row[e] EXCEPT !.etag = TRUE]
    BY <2>1, <2>2, <2>3, <2>7 DEF RowRecords, Evicted
  <2>8. ASSUME NEW p, row'[e] = [row[e] EXCEPT !.path = p] PROVE Evicted(e)
    BY <2>1, <2>2, <2>8 DEF RowRecords, Evicted
  <2>9. CASE row'[e] = row[e]
    BY <2>2, <2>3, <2>9 DEF Evicted
  <2> QED BY <2>3, <2>4, <2>5, <2>6, <2>7, <2>8, <2>9, RowStep
<1>3. ASSUME NEW w \in Workers
      PROVE  /\ worker'[w].pc = "put" => worker'[w].data = Key[worker'[w].email]
             /\ worker'[w].pc = "done" => Stored(worker[w].email)' /\ worker'[w].email = worker[w].email
  <2>1. worker[w] \in WorkerRecords /\ (worker[w].pc # "idle" => worker[w].email \in Emails
                                                                 /\ worker[w].path \in Paths)
    BY DEF UploadInv, TypeOK, FieldsInv, WorkerOf, WorkerRecords, OrNone
  <2>2. CASE worker'[w] = worker[w]
    <3>1. worker'[w].pc = "done" => Stored(worker[w].email)'
      <4> SUFFICES ASSUME worker'[w].pc = "done" PROVE Stored(worker[w].email)'
        OBVIOUS
      <4>1. PICK e \in Emails : e = worker[w].email
        BY <2>1, <2>2
      <4>2. Stored(e)'
        BY <2>2, <4>1, ObjectStays DEF ObjectsInv
      <4> QED BY <2>2, <4>1, <4>2 DEF Stored
    <3> QED BY <2>2, <3>1 DEF ObjectsInv
  <2>3. CASE worker'[w] = Resting
    BY <2>3 DEF Resting
  <2>4. CASE Hand(w)
    BY <2>4 DEF UploadInv, TypeOK, Hand
  <2>5. CASE Read(w)
    <3>1. files[worker[w].path] \in {None, Key[worker[w].email]}
      BY <2>1, <2>5, NoneApart DEF Read, At, NamesInv, Named, FilesInv
    <3>2. /\ worker'[w].pc = IF files[worker[w].path] = None THEN "failed" ELSE "put"
          /\ worker'[w].data = files[worker[w].path] /\ worker'[w].email = worker[w].email
      BY <2>1, <2>5 DEF UploadInv, TypeOK, WorkerRecords, Read
    <3> QED BY <3>1, <3>2
  <2>6. CASE /\ \E pc \in {"done", "failed"} : worker'[w] = [worker[w] EXCEPT !.pc = pc]
             /\ PutFails(w) \/ MarkDoneFails(w)
    BY <2>1, <2>6 DEF UploadInv, TypeOK, WorkerRecords, PutFails, MarkDoneFails, Goto
  <2>7. CASE Put(w)
    <3>1. /\ worker'[w].pc = "done" /\ worker'[w].email = worker[w].email
          /\ worker[w].email \in Emails /\ worker[w].data = Key[worker[w].email]
      BY <2>1, <2>7 DEF UploadInv, TypeOK, WorkerRecords, Put, Goto, At, ObjectsInv
    <3>2. bucket'[Key[worker[w].email]] = Key[worker[w].email]
      BY <2>7, <3>1, KeyIsKey DEF UploadInv, TypeOK, Put
    <3> QED BY <3>1, <3>2 DEF Stored
  <2> QED BY <2>2, <2>3, <2>4, <2>5, <2>6, <2>7, WorkerStep
<1>4. ASSUME NEW r \in Runners, runner'[r].pc \in {"evict", "evictFile"}, NEW d \in runner'[r].due
      PROVE  row'[d.email].etag \/ d.email \in doomed'
  <2>1. runner[r] \in RunnerRecords
    BY DEF UploadInv, TypeOK
  <2>2. CASE d \in runner[r].due /\ runner[r].pc \in {"evict", "evictFile"}
    <3>1. d.email \in Emails
      BY <2>1, <2>2 DEF RunnerRecords, DueRecords
    <3> QED BY <2>2, <3>1, EtagStays DEF ObjectsInv
  <2>3. CASE RunLists(r)
    <3>1. PICK due \in SUBSET Emails, pc \in {"evict", "direct", "purge"} :
            /\ runner'[r].due = Snapshots(due) /\ runner'[r].pc = pc
            /\ pc = "evict" => \A e \in due : row[e].etag
      BY <2>1, <2>3 DEF RunLists, RunnerRecords
    <3>2. d.email \in Emails /\ row[d.email].etag
      BY <1>4, <3>1 DEF Snapshots
    <3> QED BY <3>2, EtagStays
  <2>4. CASE runner'[r] = NoRun
    BY <1>4, <2>4 DEF NoRun
  <2>5. CASE runner'[r] = runner[r]
    BY <1>4, <2>2, <2>5
  <2> QED BY <1>4, <2>2, <2>3, <2>4, <2>5, RunnerStep DEF RunRemoves, RunGoesOn
<1> QED BY <1>1, <1>2, <1>3, <1>4 DEF ObjectsInv, Stored

(* A file is only removed for an email that is past. *)
LEMMA RunsRemovePast ==
  ASSUME OwnContent, UploadInv, NamesInv, ObjectsInv, RemovalInv, [Next]_vars, NEW r \in Runners,
         runner'[r].pc \in {"evictFile", "directFile"}, runner'[r].path # None
  PROVE  \E e \in Emails : Past(e)' /\ Named(e, runner'[r].path)
<1>1. runner[r] \in RunnerRecords
  BY DEF UploadInv, TypeOK
<1>2. CASE runner'[r] = runner[r]
  BY <1>2, PastStays DEF RemovalInv
<1>3. ASSUME NEW d \in runner[r].due, RunRemoves(r, d)
      PROVE  \E e \in Emails : Past(e)' /\ Named(e, runner'[r].path)
  <2>1. PICK e \in Emails : e = d.email /\ Named(e, d.path)
    BY <1>1 DEF RunnerRecords, DueRecords, NamesInv
  <2>2. row[e] \in RowRecords /\ (~row[e].there => row[e] = NoRow)
    BY DEF UploadInv, TypeOK, FieldsInv, RowOf
  <2>3. CASE row'[e] = NoRow /\ e \in doomed'
    BY <1>3, <2>1, <2>3 DEF RunRemoves, Past, NoRow
  <2>4. CASE row[e].there /\ row'[e] = [row[e] EXCEPT !.loc = "s3", !.path = None]
    <3>1. row'[e].there /\ row'[e].loc = "s3"
      BY <2>2, <2>4 DEF RowRecords
    <3> QED BY <1>3, <2>1, <3>1 DEF RunRemoves, Past, Evicted
  <2>5. CASE runner[r].pc = "evict" /\ ~row[e].there
    <3>1. e \in doomed
      BY <2>1, <2>2, <2>5 DEF ObjectsInv, NoRow
    <3> QED BY <1>3, <2>1, <2>5, <3>1, PastStays DEF RunRemoves, Past
  <2> QED BY <1>3, <2>1, <2>3, <2>4, <2>5 DEF RunRemoves
<1>4. CASE RunLists(r)
  BY <1>1, <1>4 DEF RunLists, RunnerRecords
<1>5. CASE runner'[r] = NoRun
  BY <1>5 DEF NoRun
<1>6. ~RunGoesOn(r)
  BY DEF RunGoesOn
<1> QED BY <1>2, <1>3, <1>4, <1>5, <1>6, RunnerStep

LEMMA RequestsRemovePast ==
  ASSUME UploadInv, RemovalInv, [Next]_vars, NEW q \in Requests, request'[q].pc = "file"
  PROVE  Past(request[q].email)' /\ request'[q].email = request[q].email
<1>1. request[q] \in RequestRecords
  BY DEF UploadInv, TypeOK
<1>2. CASE request'[q] = request[q]
  <2>1. PICK e \in Emails : e = request[q].email
    BY <1>2 DEF UploadInv, FieldsInv, RequestOf
  <2> QED BY <1>2, <2>1, PastStays DEF RemovalInv, Past, Evicted
<1>3. CASE GoesTo(q, "file") /\ row'[request[q].email] = NoRow /\ request[q].email \in doomed'
  BY <1>1, <1>3 DEF GoesTo, RequestRecords, Past, NoRow
<1>4. CASE GoesTo(q, "row") \/ GoesTo(q, "assign") \/ GoesTo(q, "back") \/ GoesTo(q, "late")
  BY <1>1, <1>4 DEF GoesTo, RequestRecords
<1>5. ASSUME Deletes(q) PROVE FALSE
  <2>1. PICK e : request'[q] = [pc |-> IF row[e].etag THEN "object" ELSE "row", email |-> e,
                                path |-> row[e].path, key |-> row[e].etag, dest |-> None]
    BY <1>5 DEF Deletes
  <2>2. request'[q].pc = IF row[e].etag THEN "object" ELSE "row"
    BY <2>1
  <2> QED BY <2>2
<1>6. ASSUME Moves(q) PROVE FALSE
  <2>1. PICK e, d : request'[q] = [pc |-> IF row[e].path = None THEN "assign" ELSE "rename", email |-> e,
                          path |-> row[e].path, key |-> FALSE,
                          dest |-> IF row[e].path = None THEN None ELSE <<d, row[e].path[2]>>]
    BY <1>6 DEF Moves
  <2>2. request'[q].pc = IF row[e].path = None THEN "assign" ELSE "rename"
    BY <2>1
  <2> QED BY <2>2
<1>7. request'[q] # NoReq
  BY DEF NoReq
<1> QED BY <1>2, <1>3, <1>4, <1>5, <1>6, <1>7, RequestStep

LEMMA ContentStays ==
  ASSUME OwnContent, UploadInv, NamesInv, FilesInv, RemovalInv, [Next]_vars, NEW e \in Emails,
         ~Past(e), ~Past(e)', NEW p \in Paths, p[2] = Name[e], files[p] = Key[e]
  PROVE  \E o \in Paths : o[2] = Name[e] /\ files'[o] = Key[e]
<1>1. files \in [Paths -> OrNone(Keys)] /\ Key[e] # None
  BY KeyIsKey, NoneApart DEF UploadInv, TypeOK
<1>2. CASE UNCHANGED files
  BY <1>2
<1>3. ASSUME NEW f \in Emails, Archive(f) PROVE files'[p] = Key[e]
  BY <1>1, <1>3 DEF Archive
<1>4. ASSUME NEW o, NEW f \in Emails, o # None, Past(f), Named(f, o), files' = [files EXCEPT ![o] = None]
      PROVE  files'[p] = Key[e]
  <2>1. o # p
    BY <1>4 DEF OwnContent, Named
  <2> QED BY <1>1, <1>4, <2>1
<1>5. ASSUME NEW q \in Requests, NEW from \in Paths, NEW to \in Paths,
             from[2] = Name[request[q].email], to[2] = Name[request[q].email],
             request[q].email \in Emails, files[from] # None, from # to,
             files' = Renamed(from, to)
      PROVE  \E o \in Paths : o[2] = Name[e] /\ files'[o] = Key[e]
  <2>1. files' = [files EXCEPT ![to] = files[from], ![from] = None]
    BY <1>5 DEF Renamed
  <2>2. CASE p = from
    <3>1. files'[to] = Key[e]
      BY <1>1, <1>5, <2>1, <2>2
    <3>2. to[2] = Name[e]
      BY <1>5, <2>2
    <3> QED BY <3>1, <3>2
  <2>3. CASE p # from /\ p = to
    BY <1>1, <1>5, <2>1, <2>3 DEF FilesInv
  <2>4. CASE p # from /\ p # to
    BY <1>1, <2>1, <2>4
  <2> QED BY <2>2, <2>3, <2>4
<1>6. ASSUME NEW r \in Runners, runner[r].pc \in {"evictFile", "directFile"}, runner[r].path # None
      PROVE  \E f \in Emails : Past(f) /\ Named(f, runner[r].path)
  BY <1>6 DEF RemovalInv
<1>7. ASSUME NEW q \in Requests, request[q].pc = "file"
      PROVE  \E f \in Emails : Past(f) /\ Named(f, request[q].path)
  BY <1>7 DEF RemovalInv, NamesInv, UploadInv, FieldsInv, RequestOf
<1> QED BY <1>2, <1>3, <1>4, <1>5, <1>6, <1>7, FileStep

LEMMA RemovalNext ==
  OwnContent /\ UploadInv /\ ContentInv /\ [Next]_vars => RemovalInv'
<1> SUFFICES ASSUME OwnContent, UploadInv, NamesInv, FilesInv, ObjectsInv, RemovalInv, [Next]_vars
             PROVE  RemovalInv'
  BY DEF ContentInv
<1>1. ASSUME NEW e \in Emails, row'[e].there, ~Past(e)', e \notin doomed'
      PROVE  \E p \in Paths : p[2] = Name[e] /\ files'[p] = Key[e]
  <2>1. ~Past(e) /\ e \notin doomed
    BY <1>1, PastStays, DoomedGrows
  <2>2. CASE Archive(e)
    <3>1. files'[HomePath(e)] = Key[e] /\ HomePath(e) \in Paths
      BY <2>2, HomeIsPath DEF UploadInv, TypeOK, Archive
    <3> QED BY <3>1 DEF HomePath
  <2>3. CASE ~Archive(e)
    <3>1. row[e].there
      BY <1>1, <2>3, RowKeeps DEF NoRow
    <3> QED BY <1>1, <2>1, <3>1, ContentStays DEF RemovalInv
  <2> QED BY <2>2, <2>3
<1>2. \A q \in Requests : request'[q].pc = "file" => Past(request[q].email)'
  BY RequestsRemovePast DEF Past, Evicted
<1>3. \A r \in Runners : runner'[r].pc \in {"evictFile", "directFile"} /\ runner'[r].path # None =>
        \E e \in Emails : Past(e)' /\ Named(e, runner'[r].path)
  BY RunsRemovePast
<1> QED BY <1>1, <1>2, <1>3 DEF RemovalInv, Past, Evicted, Named

LEMMA ContentNext == OwnContent /\ UploadInv /\ ContentInv /\ [Next]_vars => ContentInv'
  BY NamesNext, FilesNext, ObjectsNext, RemovalNext DEF ContentInv

(* An email whose local copy retention has evicted can be loaded from the    *)
(* bucket, whatever uploads, retries, moves and deletes of it run at once.   *)
THEOREM EvictedIsRetrievable ==
  ASSUME OwnContent
  PROVE  Spec => []S3OnlyRetrievable
<1>1. Init => UploadInv /\ ContentInv
  BY InitUploadInv, InitContentInv
<1>2. UploadInv /\ ContentInv /\ [Next]_vars => UploadInv' /\ ContentInv'
  BY UploadNext, ContentNext
<1>3. ContentInv => S3OnlyRetrievable
  BY DEF ContentInv, ObjectsInv, S3OnlyRetrievable, Stored
<1> QED BY <1>1, <1>2, <1>3, PTL DEF Spec

(* Retention's rule "never evict the only copy", whatever the interleaving   *)
(* of runs, moves, uploads, deletes and restarts.                            *)
THEOREM ContentAlwaysSurvives ==
  ASSUME OwnContent
  PROVE  Spec => []ContentSurvives
<1>1. Init => UploadInv /\ ContentInv
  BY InitUploadInv, InitContentInv
<1>2. UploadInv /\ ContentInv /\ [Next]_vars => UploadInv' /\ ContentInv'
  BY UploadNext, ContentNext
<1>3. ContentInv => ContentSurvives
  BY DEF ContentInv, ObjectsInv, RemovalInv, ContentSurvives, Stored, Past
<1> QED BY <1>1, <1>2, <1>3, PTL DEF Spec
------------------------------------------------------------------------------
(* Moves: which steps begin and end the window between a rename and its row. *)
LEMMA RenamingStep ==
  ASSUME UploadInv, [Next]_vars, NEW q \in Requests
  PROVE  /\ q \in Renaming' =>
               \/ q \in Renaming /\ request'[q] = request[q]
               \/ RenameFile(q) /\ request[q].pc = "rename" /\ GoesTo(q, "assign")
         /\ q \in Renaming => \/ request'[q] = request[q]
                              \/ AssignFolder(q) \/ AssignFails(q) \/ AssignUnheard(q)
                              \/ Restart
<1>1. request[q] \in RequestRecords
  BY DEF UploadInv, TypeOK
<1>2. ASSUME q \in Renaming'
      PROVE  \/ q \in Renaming /\ request'[q] = request[q]
             \/ RenameFile(q) /\ request[q].pc = "rename" /\ GoesTo(q, "assign")
  <2>1. request'[q].pc = "assign" /\ request'[q].dest # None
    BY <1>2 DEF Renaming, InRequest
  <2>2. ASSUME Deletes(q) PROVE FALSE
    BY <2>1, <2>2 DEF Deletes
  <2>3. ASSUME Moves(q) PROVE FALSE
    BY <2>1, <2>3 DEF Moves
  <2>4. ASSUME GoesTo(q, "row") \/ GoesTo(q, "file") \/ GoesTo(q, "back") \/ GoesTo(q, "late")
        PROVE  FALSE
    BY <1>1, <2>1, <2>4 DEF GoesTo, RequestRecords
  <2>5. request'[q] # NoReq
    BY <2>1 DEF NoReq
  <2>6. request'[q] = request[q] => q \in Renaming
    BY <2>1 DEF Renaming, InRequest
  <2> QED BY <2>2, <2>3, <2>4, <2>5, <2>6, RequestStep
<1>3. ASSUME q \in Renaming, request'[q] # request[q], ~Restart
      PROVE  AssignFolder(q) \/ AssignFails(q) \/ AssignUnheard(q)
  <2>1. request[q].pc = "assign"
    BY <1>3 DEF Renaming, InRequest
  <2>2. ASSUME NEW o \in Requests, o # q, Serve(o) \/ RequestFails(o) \/ AssignFails(o) \/ AssignUnheard(o)
        PROVE  request'[q] = request[q]
    BY <2>2 DEF UploadInv, TypeOK, Serve, StartDelete, DeleteObject, DeleteEmailRow, DeleteEmailFile,
       StartMove, RenameFile, AssignFolder, RequestFails, AssignFails, AssignUnheard, MoveBack, AssignLate, MovedBack, Reassigned, Answer, Continue
  <2>3. ~(StartDelete(q) \/ DeleteObject(q) \/ DeleteEmailRow(q) \/ DeleteEmailFile(q) \/ StartMove(q)
          \/ RenameFile(q) \/ RequestFails(q) \/ MoveBack(q) \/ AssignLate(q))
    BY <2>1 DEF StartDelete, DeleteObject, DeleteEmailRow, DeleteEmailFile, StartMove, RenameFile,
       RequestFails, MoveBack, AssignLate, InRequest
  <2> QED BY <1>3, <2>2, <2>3, RequestChanges DEF Serve
<1> QED BY <1>2, <1>3

LEMMA TornGrows == [Next]_vars => torn \subseteq torn' /\ crossed \subseteq crossed'
<1> SUFFICES ASSUME [Next]_vars PROVE torn \subseteq torn' /\ crossed \subseteq crossed'
  OBVIOUS
<1>1. CASE Restart
  BY <1>1 DEF Restart
<1>2. ASSUME NEW q \in Requests, RenameFile(q) \/ AssignUnheard(q)
      PROVE  torn \subseteq torn' /\ crossed \subseteq crossed'
  BY <1>2 DEF RenameFile, AssignUnheard
<1>3. \/ UNCHANGED <<torn, crossed>> \/ Restart
      \/ \E q \in Requests : RenameFile(q) \/ AssignUnheard(q)
  BY DEF Next, Upload, Retain, Serve, Failure, Hand, Read, Put, PutFails, MarkDone, MarkDoneFails,
     MarkFailed, MarkFailedFails, ListForEviction, ListForDeletion, ListForPurge, EvictRow, DeleteRow,
     RemoveFile, PurgeObject, PurgeRow, EndRun, SkipEmail, StartDelete, DeleteObject, DeleteEmailRow,
     DeleteEmailFile, StartMove, AssignFolder, RequestFails, AssignFails, MoveBack, AssignLate,
     ToggleS3, Claim, Archive, DropRow, vars, history
<1> QED BY <1>1, <1>2, <1>3

LEMMA LocalPathNext ==
  ASSUME UploadInv, MoveInv, [Next]_vars, NEW e \in Emails, Local(e)'
  PROVE  /\ row'[e].path \in Paths
         /\ Local(e) \/ Archive(e)
<1>1. row[e] \in RowRecords /\ row'[e].there /\ row'[e].loc = "local"
  BY DEF UploadInv, TypeOK, Local
<1>2. Local(e) \/ Archive(e)
  BY <1>1, RowKeeps DEF Local, NoRow, RowRecords
<1>3. CASE row'[e] = row[e]
  BY <1>1, <1>3 DEF MoveInv, Local
<1>4. CASE Archive(e)
  BY <1>4, HomeIsPath DEF UploadInv, TypeOK, Archive, NoRow
<1>5. row'[e] # NoRow
  BY <1>1 DEF NoRow
<1>6. CASE row[e].there /\ row'[e] = [row[e] EXCEPT !.etag = TRUE]
  BY <1>1, <1>6 DEF MoveInv, Local, RowRecords
<1>7. ASSUME row'[e] = [row[e] EXCEPT !.loc = "s3", !.path = None] PROVE FALSE
  <2>1. row'[e].loc = "s3"
    BY <1>1, <1>7 DEF RowRecords
  <2> QED BY <1>1, <2>1
<1>8. ASSUME NEW q \in Requests, request[q].pc \in {"assign", "late"}, request[q].email = e, row[e].there,
             row'[e] = [row[e] EXCEPT !.path = request[q].dest]
      PROVE  row'[e].path \in Paths
  <2>1. row'[e].path = request[q].dest /\ row[e].loc = "local"
    BY <1>1, <1>8 DEF RowRecords
  <2>2. ~Past(e)
    BY <1>8, <2>1 DEF Past, Evicted
  <2>3. request[q].pc = "assign" => request[q].dest # None
    BY <1>8, <2>2 DEF MoveInv
  <2> QED BY <1>8, <2>1, <2>3 DEF UploadInv, FieldsInv, RequestOf
<1> QED BY <1>2, <1>3, <1>4, <1>5, <1>6, <1>7, <1>8, RowStep

(* Nothing is stored under the name of an email that is still to come. *)
LEMMA FreshNext ==
  ASSUME OwnContent, UploadInv, NamesInv, MoveInv, [Next]_vars, NEW e \in Emails,
         ~row'[e].there, e \notin doomed', NEW p \in Paths, p[2] = Name[e]
  PROVE  files'[p] = None
<1>1. ~row[e].there /\ e \notin doomed
  BY KnownStays
<1>2. files[p] = None /\ files \in [Paths -> OrNone(Keys)]
  BY <1>1 DEF MoveInv, UploadInv, TypeOK
<1>3. ASSUME NEW f \in Emails, Archive(f) PROVE files'[p] = None
  <2>1. f # e
    BY <1>3 DEF UploadInv, TypeOK, Archive, NoRow
  <2>2. HomePath(f) # p
    BY <2>1 DEF HomePath, OwnContent
  <2> QED BY <1>2, <1>3, <2>2 DEF Archive
<1>4. ASSUME NEW o, files' = [files EXCEPT ![o] = None] PROVE files'[p] = None
  BY <1>2, <1>4
<1>5. ASSUME NEW q \in Requests, NEW from \in Paths, NEW to \in Paths,
             to[2] = Name[request[q].email], request[q].pc \in {"rename", "assign", "back"},
             request[q].email \in Emails, files' = Renamed(from, to)
      PROVE  files'[p] = None
  <2>1. request[q].email # e
    BY <1>1, <1>5 DEF MoveInv
  <2>2. to # p
    BY <1>5, <2>1 DEF OwnContent
  <2> QED BY <1>2, <1>5, <2>2 DEF Renamed
<1> QED BY <1>2, <1>3, <1>4, <1>5, FileStep


(* A request is for an email the archive has or had, and a move without a    *)
(* file is for one that is past.                                             *)
LEMMA RequestsKnown ==
  ASSUME UploadInv, MoveInv, [Next]_vars, NEW q \in Requests, request'[q].pc # "idle"
  PROVE  \E e \in Emails :
            /\ request'[q].email = e
            /\ row'[e].there \/ e \in doomed'
            /\ request'[q].pc = "assign" /\ request'[q].dest = None => Past(e)'
<1> DEFINE Fits(e) == /\ request'[q].email = e
                      /\ row'[e].there \/ e \in doomed'
                      /\ request'[q].pc = "assign" /\ request'[q].dest = None => Past(e)'
<1> SUFFICES \E e \in Emails : Fits(e)
  OBVIOUS
<1>0. request[q] \in RequestRecords /\ RequestOf(q)
  BY DEF UploadInv, TypeOK, FieldsInv
<1>1. ASSUME NEW e \in Emails, request'[q].email = e, row[e].there \/ e \in doomed,
             request'[q].pc = "assign" /\ request'[q].dest = None => Past(e)
      PROVE  Fits(e)
  BY <1>1, KnownStays, PastStays DEF Past, Evicted
<1> HIDE DEF Fits
<1>2. CASE request'[q] = request[q]
  <2>1. PICK e \in Emails : request[q].email = e
    BY <1>0, <1>2 DEF RequestOf
  <2>2. row[e].there \/ e \in doomed
    BY <1>2, <2>1 DEF MoveInv
  <2>3. request'[q].pc = "assign" /\ request'[q].dest = None => Past(e)
    BY <1>2, <2>1 DEF MoveInv, Past, Evicted
  <2>4. Fits(e)
    BY <1>1, <1>2, <2>1, <2>2, <2>3
  <2> QED BY <2>4
<1>3. CASE Deletes(q)
  <2>1. PICK e \in Emails, pc \in {"object", "row"} :
          row[e].there /\ request'[q].pc = pc /\ request'[q].email = e
    <3>1. PICK e \in Emails :
            /\ row[e].there
            /\ request'[q] = [pc |-> IF row[e].etag THEN "object" ELSE "row", email |-> e,
                              path |-> row[e].path, key |-> row[e].etag, dest |-> None]
      BY <1>3 DEF Deletes
    <3> QED BY <3>1
  <2> QED BY <1>1, <2>1
<1>4. CASE Moves(q)
  <2>1. PICK e \in Emails, d \in Dirs :
          /\ row[e].there /\ request'[q].email = e
          /\ request'[q].pc = IF row[e].path = None THEN "assign" ELSE "rename"
    BY <1>4 DEF Moves
  <2>2. CASE row[e].path = None
    <3>1. ~Local(e)
      BY <2>2, NoneApart DEF MoveInv
    <3>2. Past(e)
      BY <2>1, <3>1 DEF UploadInv, TypeOK, RowRecords, Past, Evicted, Local
    <3> QED BY <1>1, <2>1, <3>2
  <2>3. CASE row[e].path # None
    BY <1>1, <2>1, <2>3
  <2> QED BY <2>2, <2>3
<1>5. ASSUME NEW pc \in {"row", "file", "assign", "back", "late"}, GoesTo(q, pc),
             request[q].pc \in {"object", "row", "rename", "assign"},
             pc = "assign" => request[q].pc = "rename"
      PROVE  \E e \in Emails : Fits(e)
  <2>1. PICK e \in Emails : request[q].email = e
    BY <1>0, <1>5 DEF RequestOf
  <2>2. request'[q].email = e /\ request'[q].pc = pc /\ request'[q].dest = request[q].dest
    BY <1>0, <1>5, <2>1 DEF GoesTo, RequestRecords
  <2>3. pc = "assign" => request[q].dest # None
    BY <1>0, <1>5, NoneApart DEF RequestOf
  <2>4. row[e].there \/ e \in doomed
    BY <1>5, <2>1 DEF MoveInv
  <2> QED BY <1>1, <2>1, <2>2, <2>3, <2>4
<1>6. request'[q] # NoReq
  BY DEF NoReq
<1> QED BY <1>2, <1>3, <1>4, <1>5, <1>6, RequestStep

(* A rename that finds the file. *)
LEMMA RenamesOne ==
  ASSUME UploadInv, NEW q \in Requests, RenameFile(q), GoesTo(q, "assign")
  PROVE  /\ files[request[q].path] # None
         /\ files' = Renamed(request[q].path, request[q].dest)
         /\ crossed' = crossed \cup ({request[q].email} \cap {request[o].email : o \in Renaming})
         /\ \A o \in Requests : o # q => request'[o] = request[o]
<1>1. request'[q].pc = "assign" /\ request'[q] # NoReq
  BY DEF UploadInv, TypeOK, RequestRecords, GoesTo, NoReq
<1>2. ~Answer(q)
  BY <1>1 DEF Answer, UploadInv, TypeOK
<1>3. files[request[q].path] # None
  BY <1>2 DEF RenameFile
<1> QED BY <1>3 DEF RenameFile, Continue, UploadInv, TypeOK

(* Two moves of one email are in that window only if it was crossed. *)
LEMMA CrossedNext ==
  ASSUME UploadInv, MoveInv, [Next]_vars, NEW o \in Renaming', NEW q \in Renaming',
         request'[o].email = request'[q].email
  PROVE  o = q \/ request'[q].email \in crossed'
<1> DEFINE Stays(x) == x \in Renaming /\ request'[x] = request[x]
           Renames(x) == RenameFile(x) /\ request[x].pc = "rename" /\ GoesTo(x, "assign")
<1>1. o \in Requests /\ q \in Requests
  BY DEF Renaming
<1>2. Stays(o) \/ Renames(o)
  BY <1>1, RenamingStep
<1>3. Stays(q) \/ Renames(q)
  BY <1>1, RenamingStep
<1>4. \A x \in Requests : Renames(x) => request'[x].email = request[x].email
  BY DEF GoesTo, UploadInv, TypeOK, RequestRecords
<1>5. CASE Stays(o) /\ Stays(q)
  BY <1>5, TornGrows DEF MoveInv
<1>6. CASE Renames(o) /\ Stays(q)
  BY <1>1, <1>4, <1>6, RenamesOne
<1>7. CASE Stays(o) /\ Renames(q)
  BY <1>1, <1>4, <1>7, RenamesOne
<1>8. CASE Renames(o) /\ Renames(q)
  <2>1. request'[o].pc = "assign"
    BY DEF Renaming, InRequest
  <2> QED BY <1>1, <1>8, <2>1, RenamesOne
<1> QED BY <1>2, <1>3, <1>5, <1>6, <1>7, <1>8

(* The one move of an email in that window, when nothing was crossed. *)
LEMMA OneMove ==
  ASSUME UploadInv, NamesInv, MoveInv, NEW e \in Emails \ (torn \cup crossed), Local(e),
         NEW q \in Requests, AssignFolder(q) \/ AssignFails(q), request[q].email = e
  PROVE  /\ q \in Renaming
         /\ request[q].dest \in Paths /\ request[q].path \in Paths
         /\ request[q].dest[2] = Name[e] /\ request[q].path[2] = Name[e]
         /\ row[e].path = request[q].path /\ FileOnlyAt(e, request[q].dest)
         /\ \A o \in Renaming : request[o].email = e => o = q
<1>1. request[q].pc = "assign"
  BY DEF AssignFolder, AssignFails, InRequest
<1>2. ~Past(e)
  BY DEF Past, Evicted, Local
<1>3. request[q].dest # None
  <2>1. request[q].dest = None => Past(request[q].email)
    BY <1>1 DEF MoveInv
  <2> QED BY <1>2, <2>1 DEF Past, Evicted
<1>4. q \in Renaming
  BY <1>1, <1>3 DEF Renaming, InRequest
<1>5. request[q].path \in Paths /\ request[q].dest \in Paths
  BY <1>1, <1>3 DEF UploadInv, FieldsInv, RequestOf
<1>6. request[q].dest[2] = Name[e] /\ request[q].path[2] = Name[e]
  BY <1>1, <1>5, NoneApart DEF NamesInv, Named
<1>7. FileOf(e)
  BY DEF MoveInv
<1>8. \A o \in Renaming : request[o].email = e => o = q
  BY <1>4 DEF MoveInv
<1> QED BY <1>4, <1>5, <1>6, <1>7, <1>8 DEF FileOf

LEMMA FileOfArchived ==
  ASSUME UploadInv, MoveInv, [Next]_vars, NEW e \in Emails, Archive(e)
  PROVE  FileOf(e)'
<1>1. ~row[e].there /\ e \notin doomed /\ request' = request
  BY DEF Archive, NoRow
<1>2. \A q \in Renaming' : request'[q].email # e
  BY <1>1 DEF MoveInv, Renaming, InRequest
<1>3. row'[e].path = HomePath(e) /\ files' = [files EXCEPT ![HomePath(e)] = Key[e]]
  BY DEF UploadInv, TypeOK, Archive, NoRow
<1>4. HomePath(e) \in Paths /\ Key[e] # None
  BY HomeIsPath, KeyIsKey, NoneApart
<1>5. \A p \in Paths : p[2] = Name[e] => files[p] = None
  BY <1>1 DEF MoveInv
<1>6. \A p \in Paths : p[2] = Name[e] => (files'[p] # None <=> p = row'[e].path)
  BY <1>3, <1>4, <1>5 DEF UploadInv, TypeOK
<1> QED BY <1>2, <1>6 DEF FileOf, FileOnlyAt

LEMMA FileOfRenamed ==
  ASSUME UploadInv, NamesInv, MoveInv, [Next]_vars, NEW q \in Requests, NEW e \in Emails \ (torn' \cup crossed'),
         Local(e), RenameFile(q), GoesTo(q, "assign"), request[q].email = e
  PROVE  FileOf(e)'
<1>1. /\ request[q].path \in Paths /\ request[q].dest \in Paths
      /\ request[q].path[2] = Name[e] /\ request[q].dest[2] = Name[e]
      /\ request[q].path # request[q].dest
  BY MovedPaths
<1>2. e \notin torn /\ e \notin crossed
  BY TornGrows
<1>3. \A o \in Renaming : request[o].email # e
  BY RenamesOne
<1>4. FileOnlyAt(e, row[e].path)
  BY <1>2, <1>3 DEF MoveInv, FileOf
<1>5. row[e].path = request[q].path
  BY <1>1, <1>4, RenamesOne DEF FileOnlyAt
<1>6. /\ row' = row
      /\ request'[q].email = e
      /\ request'[q].path = request[q].path /\ request'[q].dest = request[q].dest
  BY DEF RenameFile, GoesTo, UploadInv, TypeOK, RequestRecords
<1>7. \A o \in Renaming' : request'[o].email = e => o = q
  <2> SUFFICES ASSUME NEW o \in Renaming', request'[o].email = e, o # q PROVE FALSE
    OBVIOUS
  <2>1. o \in Requests /\ request'[o] = request[o]
    BY RenamesOne DEF Renaming
  <2>2. o \in Renaming
    BY <2>1 DEF Renaming, InRequest
  <2> QED BY <1>3, <2>1, <2>2
<1>8. \A p \in Paths : p[2] = Name[e] => (files'[p] # None <=> p = request[q].dest)
  BY <1>1, <1>4, <1>5, RenamesOne DEF UploadInv, TypeOK, Renamed, FileOnlyAt
<1>9. q \in Renaming'
  BY <1>1, <1>6, NoneApart DEF Renaming, InRequest, GoesTo, UploadInv, TypeOK, RequestRecords
<1> QED BY <1>5, <1>6, <1>7, <1>8, <1>9 DEF FileOf, FileOnlyAt

LEMMA FileOfAssigned ==
  ASSUME UploadInv, NamesInv, MoveInv, [Next]_vars, NEW q \in Requests, NEW e \in Emails \ (torn \cup crossed),
         Local(e), AssignFolder(q) \/ AssignFails(q), request[q].email = e
  PROVE  FileOf(e)'
<1>1. /\ request[q].dest \in Paths /\ request[q].path \in Paths
      /\ request[q].dest[2] = Name[e] /\ request[q].path[2] = Name[e]
      /\ row[e].path = request[q].path /\ FileOnlyAt(e, request[q].dest)
      /\ \A o \in Renaming : request[o].email = e => o = q
  BY OneMove
<1>2. \A o \in Renaming' : request'[o].email # e
  <2>1. request'[q] = NoReq
    BY DEF AssignFolder, AssignFails, Answer, UploadInv, TypeOK
  <2>2. \A o \in Requests : o # q => request'[o] = request[o]
    BY DEF AssignFolder, AssignFails, Answer, UploadInv, TypeOK
  <2>3. q \notin Renaming'
    BY <2>1 DEF NoReq, Renaming, InRequest
  <2>4. \A o \in Renaming' : o \in Requests /\ o # q /\ o \in Renaming /\ request'[o] = request[o]
    BY <2>2, <2>3 DEF Renaming, InRequest
  <2> QED BY <1>1, <2>4
<1>3. \A p \in Paths : p[2] = Name[e] => (files'[p] # None <=> p = row'[e].path)
  <2>1. CASE AssignFolder(q)
    <3>1. files' = files
      BY <2>1 DEF AssignFolder
    <3>2. row'[e].path = request[q].dest
      BY <2>1 DEF AssignFolder, Reassigned, UploadInv, TypeOK, RowRecords, Local
    <3> QED BY <1>1, <3>1, <3>2 DEF FileOnlyAt
  <2>2. CASE AssignFails(q)
    <3>1. files[request[q].dest] # None
      BY <1>1 DEF FileOnlyAt
    <3>2. files' = Renamed(request[q].dest, request[q].path) /\ row' = row
      BY <1>1, <2>2, <3>1, NoneApart DEF AssignFails, MovedBack
    <3>3. \A p \in Paths : p[2] = Name[e] => (files'[p] # None <=> p = request[q].path)
      BY <1>1, <3>1, <3>2 DEF UploadInv, TypeOK, Renamed, FileOnlyAt
    <3> QED BY <1>1, <3>2, <3>3 DEF FileOnlyAt
  <2> QED BY <2>1, <2>2
<1> QED BY <1>2, <1>3 DEF FileOf, FileOnlyAt

LEMMA FileOfKept ==
  ASSUME OwnContent, UploadInv, NamesInv, RemovalInv, MoveInv, [Next]_vars, ~Restart,
         NEW e \in Emails \ (torn \cup crossed), Local(e), Local(e)',
         \A q \in Requests : request[q].email = e =>
            ~(RenameFile(q) /\ GoesTo(q, "assign")) /\ ~Reassigns(q) /\ ~MovesBack(q)
  PROVE  FileOf(e)'
<1>0. row[e] \in RowRecords /\ row[e].there /\ row[e].loc = "local" /\ row'[e].there /\ row'[e].loc = "local"
  BY DEF UploadInv, TypeOK, Local
<1>1. row'[e].path = row[e].path
  <2>1. ~Archive(e) /\ row'[e] # NoRow
    BY <1>0 DEF Archive, NoRow
  <2>2. CASE row'[e] = [row[e] EXCEPT !.etag = TRUE]
    BY <1>0, <2>2 DEF RowRecords
  <2>3. ASSUME row'[e] = [row[e] EXCEPT !.loc = "s3", !.path = None] PROVE FALSE
    <3>1. row'[e].loc = "s3"
      BY <1>0, <2>3 DEF RowRecords
    <3> QED BY <1>0, <3>1
  <2> QED BY <2>1, <2>2, <2>3, RowStep
<1>2. ~Past(e)
  BY <1>0 DEF Past, Evicted
<1>3. ASSUME NEW p \in Paths, p[2] = Name[e] PROVE files'[p] = files[p]
  <2>0. files \in [Paths -> OrNone(Keys)]
    BY DEF UploadInv, TypeOK
  <2>1. ASSUME NEW f \in Emails, Archive(f) PROVE files'[p] = files[p]
    <3>1. f # e
      BY <1>0, <2>1 DEF Archive, NoRow
    <3>2. HomePath(f) # p
      BY <1>3, <3>1 DEF HomePath, OwnContent
    <3> QED BY <2>0, <2>1, <3>2 DEF Archive
  <2>2. ASSUME NEW o, NEW f \in Emails, o # None, Past(f), Named(f, o), files' = [files EXCEPT ![o] = None]
        PROVE  files'[p] = files[p]
    <3>1. f # e
      BY <1>2, <2>2
    <3>2. o # p
      BY <1>3, <2>2, <3>1 DEF OwnContent, Named
    <3> QED BY <2>0, <2>2, <3>2
  <2>3. ASSUME NEW q \in Requests, NEW from \in Paths, NEW to \in Paths,
               from[2] = Name[request[q].email], to[2] = Name[request[q].email],
               request[q].email \in Emails, files[from] # None, from # to,
               RenameFile(q) \/ MovesBack(q), files' = Renamed(from, to)
        PROVE  files'[p] = files[p]
    <3>1. CASE request[q].email # e
      <4>1. from # p /\ to # p
        BY <1>3, <2>3, <3>1 DEF OwnContent
      <4> QED BY <2>0, <2>3, <4>1 DEF Renamed
    <3>2. CASE request[q].email = e
      <4>1. RenameFile(q)
        BY <2>3, <3>2
      <4>2. files' # files
        BY <2>0, <2>3, NoneApart DEF Renamed
      <4>3. Continue(q, "assign")
        BY <4>1, <4>2 DEF RenameFile
      <4> QED BY <3>2, <4>1, <4>3, RequestContinues DEF UploadInv, GoesTo
    <3> QED BY <3>1, <3>2
  <2>4. ASSUME NEW r \in Runners, runner[r].pc \in {"evictFile", "directFile"}, runner[r].path # None
        PROVE  \E f \in Emails : Past(f) /\ Named(f, runner[r].path)
    BY <2>4 DEF RemovalInv
  <2>5. ASSUME NEW q \in Requests, request[q].pc = "file"
        PROVE  \E f \in Emails : Past(f) /\ Named(f, request[q].path)
    BY <2>5 DEF RemovalInv, NamesInv, UploadInv, FieldsInv, RequestOf
  <2> QED BY <2>1, <2>2, <2>3, <2>4, <2>5, FileStep
<1>4. ASSUME NEW q \in Requests
      PROVE  (q \in Renaming' /\ request'[q].email = e) <=> (q \in Renaming /\ request[q].email = e)
  <2>1. GoesTo(q, "assign") => request'[q].email = request[q].email
    BY DEF GoesTo, UploadInv, TypeOK, RequestRecords
  <2>2. request'[q] = request[q] => (q \in Renaming <=> q \in Renaming')
    BY DEF Renaming, InRequest
  <2> QED BY <2>1, <2>2, RenamingStep DEF Reassigns, MovesBack, AssignUnheard
<1>5. ASSUME NEW q \in Renaming, request[q].email = e PROVE request'[q] = request[q]
  BY <1>5, RenamingStep DEF Renaming, Reassigns, MovesBack, AssignUnheard
<1>6. FileOf(e)
  BY <1>0 DEF MoveInv, Local
<1>7. \A p : FileOnlyAt(e, p) <=> \A o \in Paths : o[2] = Name[e] => (files'[o] # None <=> o = p)
  BY <1>3 DEF FileOnlyAt
<1>8. ASSUME NEW q \in Renaming', request'[q].email = e
      PROVE  /\ row'[e].path = request'[q].path
             /\ \A o \in Paths : o[2] = Name[e] => (files'[o] # None <=> o = request'[q].dest)
  <2>1. q \in Renaming /\ request[q].email = e /\ request'[q] = request[q]
    BY <1>4, <1>5, <1>8 DEF Renaming
  <2> QED BY <1>1, <1>6, <1>7, <2>1 DEF FileOf
<1>9. ASSUME \A q \in Renaming' : request'[q].email # e
      PROVE  \A o \in Paths : o[2] = Name[e] => (files'[o] # None <=> o = row'[e].path)
  <2>1. \A q \in Renaming : request[q].email # e
    BY <1>4, <1>9 DEF Renaming
  <2> QED BY <1>1, <1>6, <1>7, <2>1 DEF FileOf
<1> QED BY <1>8, <1>9 DEF FileOf, FileOnlyAt

LEMMA MoveNext ==
  OwnContent /\ UploadInv /\ ContentInv /\ MoveInv /\ [Next]_vars => MoveInv'
<1> SUFFICES ASSUME OwnContent, UploadInv, NamesInv, RemovalInv, MoveInv, [Next]_vars PROVE MoveInv'
  BY DEF ContentInv
<1>1. \A e \in Emails : Local(e)' => row'[e].path \in Paths
  BY LocalPathNext
<1>2. \A e \in Emails : ~row'[e].there /\ e \notin doomed' =>
          \A p \in Paths : p[2] = Name[e] => files'[p] = None
  BY FreshNext
<1>3. \A q \in Requests : request'[q].pc # "idle" =>
          row'[request'[q].email].there \/ request'[q].email \in doomed'
  BY RequestsKnown
<1>4. \A q \in Requests : request'[q].pc = "assign" /\ request'[q].dest = None =>
          Past(request[q].email)'
  BY RequestsKnown DEF Past, Evicted
<1>5. \A o, q \in Renaming' : request'[o].email = request'[q].email =>
          o = q \/ request'[q].email \in crossed'
  BY CrossedNext
<1>6. ASSUME NEW e \in Emails, e \notin torn' \cup crossed', Local(e)' PROVE FileOf(e)'
  <2>1. e \in Emails \ (torn \cup crossed)
    BY <1>6, TornGrows
  <2>2. CASE Archive(e)
    BY <2>2, FileOfArchived
  <2>3. CASE Restart /\ Local(e)
    <3>1. \A q \in Renaming : request[q].email # e
      BY <1>6, <2>3 DEF Restart
    <3>2. FileOf(e)
      BY <2>1, <2>3 DEF MoveInv
    <3>3. row' = row /\ files' = files
      BY <2>3 DEF Restart, storage
    <3>4. Renaming' = {}
      BY <2>3 DEF Restart, Renaming, InRequest, NoReq
    <3> QED BY <3>1, <3>2, <3>3, <3>4 DEF FileOf, FileOnlyAt
  <2>4. ASSUME Local(e), NEW q \in Requests, request[q].email = e,
               RenameFile(q) /\ GoesTo(q, "assign")
        PROVE  FileOf(e)'
    BY <1>6, <2>4, FileOfRenamed
  <2>5. ASSUME Local(e), NEW q \in Requests, request[q].email = e, AssignFolder(q) \/ AssignFails(q)
        PROVE  FileOf(e)'
    BY <2>1, <2>5, FileOfAssigned
  <2>6. CASE /\ Local(e) /\ ~Restart
             /\ \A q \in Requests : request[q].email = e =>
                   ~(RenameFile(q) /\ GoesTo(q, "assign")) /\ ~Reassigns(q) /\ ~MovesBack(q)
    BY <1>6, <2>1, <2>6, FileOfKept
  <2>7. Local(e) \/ Archive(e)
    BY <1>6, LocalPathNext
  <2>8. \A q \in Requests : request[q].email = e =>
            (Reassigns(q) \/ MovesBack(q) => AssignFolder(q) \/ AssignFails(q))
    <3> SUFFICES ASSUME NEW q \in Requests, request[q].email = e,
                        AssignUnheard(q) \/ MoveBack(q) \/ AssignLate(q)
                 PROVE  FALSE
      BY DEF Reassigns, MovesBack
    <3>1. ~AssignUnheard(q)
      BY <1>6 DEF AssignUnheard
    <3>2. request[q].pc \in {"back", "late"}
      BY <3>1 DEF MoveBack, AssignLate, InRequest
    <3> QED BY <2>1, <3>2 DEF MoveInv
  <2> QED BY <2>2, <2>3, <2>4, <2>5, <2>6, <2>7, <2>8
<1>7. ASSUME NEW q \in Requests, request'[q].pc \in {"back", "late"} PROVE request'[q].email \in torn'
  <2>1. request[q] \in RequestRecords
    BY DEF UploadInv, TypeOK
  <2>2. CASE request'[q] = request[q]
    BY <1>7, <2>2, TornGrows DEF MoveInv
  <2>3. CASE AssignUnheard(q) /\ (GoesTo(q, "back") \/ GoesTo(q, "late"))
    BY <2>1, <2>3 DEF AssignUnheard, GoesTo, RequestRecords
  <2>4. ASSUME Deletes(q) PROVE FALSE
    <3>1. PICK e : request'[q] = [pc |-> IF row[e].etag THEN "object" ELSE "row", email |-> e,
                                  path |-> row[e].path, key |-> row[e].etag, dest |-> None]
      BY <2>4 DEF Deletes
    <3>2. request'[q].pc = IF row[e].etag THEN "object" ELSE "row"
      BY <3>1
    <3> QED BY <1>7, <3>2
  <2>7. ASSUME Moves(q) PROVE FALSE
    <3>1. PICK e, d : request'[q] = [pc |-> IF row[e].path = None THEN "assign" ELSE "rename", email |-> e,
                            path |-> row[e].path, key |-> FALSE,
                            dest |-> IF row[e].path = None THEN None ELSE <<d, row[e].path[2]>>]
      BY <2>7 DEF Moves
    <3>2. request'[q].pc = IF row[e].path = None THEN "assign" ELSE "rename"
      BY <3>1
    <3> QED BY <1>7, <3>2
  <2>5. ASSUME NEW pc \in {"row", "file", "assign"}, GoesTo(q, pc) PROVE FALSE
    BY <1>7, <2>1, <2>5 DEF GoesTo, RequestRecords
  <2>6. request'[q] # NoReq
    BY <1>7 DEF NoReq
  <2> QED BY <2>2, <2>3, <2>4, <2>5, <2>6, <2>7, RequestStep
<1> QED BY <1>1, <1>2, <1>3, <1>4, <1>5, <1>6, <1>7 DEF MoveInv, Local, Past, Evicted

LEMMA FoundOrMoving ==
  ASSUME UploadInv, NamesInv, FilesInv, MoveInv
  PROVE  LocalReadable
<1> SUFFICES ASSUME NEW e \in Emails \ (torn \cup crossed), Local(e)
             PROVE  files[row[e].path] = Key[e] \/ Moving(e)
  BY DEF LocalReadable
<1>1. FileOf(e) /\ row[e].path \in Paths
  BY DEF MoveInv
<1>2. ASSUME NEW p \in Paths, p[2] = Name[e], FileOnlyAt(e, p) PROVE files[p] = Key[e]
  BY <1>2 DEF FileOnlyAt, FilesInv
<1>3. CASE \A q \in Renaming : request[q].email # e
  BY <1>1, <1>2, <1>3, NoneApart DEF FileOf, NamesInv, Named
<1>4. ASSUME NEW q \in Renaming, request[q].email = e PROVE Moving(e)
  <2>1. q \in Requests /\ request[q].pc = "assign" /\ request[q].dest # None
    BY <1>4 DEF Renaming, InRequest
  <2>2. request[q].dest \in Paths /\ request[q].dest[2] = Name[e]
    BY <1>4, <2>1 DEF UploadInv, FieldsInv, RequestOf, NamesInv, Named
  <2>3. files[request[q].dest] = Key[e]
    BY <1>1, <1>2, <1>4, <2>2 DEF FileOf
  <2> QED BY <1>4, <2>1, <2>3 DEF Moving, InRequest
<1> QED BY <1>3, <1>4

(* The local_path of a local email leads to its file, or the one move that   *)
(* has renamed it and not yet written its row does, whatever else runs.      *)
THEOREM RowsLeadToFiles ==
  ASSUME OwnContent
  PROVE  Spec => []LocalReadable
<1>1. Init => UploadInv /\ ContentInv /\ MoveInv
  BY InitUploadInv, InitContentInv
<1>2. UploadInv /\ ContentInv /\ MoveInv /\ [Next]_vars => UploadInv' /\ ContentInv' /\ MoveInv'
  BY UploadNext, ContentNext, MoveNext
<1>3. UploadInv /\ ContentInv /\ MoveInv => LocalReadable
  BY FoundOrMoving DEF ContentInv
<1> QED BY <1>1, <1>2, <1>3, PTL DEF Spec
=============================================================================
