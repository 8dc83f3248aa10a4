--------------------------- MODULE AccountsProofs ---------------------------
(***************************************************************************)
(* Proofs about Accounts, for any requests, jobs, messages, tokens and     *)
(* faults, with a provider that revokes the refresh tokens it replaces and *)
(* with one that does not: type correctness, that the stored token stays   *)
(* usable, and that a deletion leaves nothing of its account behind.       *)
(***************************************************************************)
EXTENDS Accounts, FiniteSetTheorems, TLAPS

(* What each place of a job and of a request implies. *)
StageInv ==
    /\ \A j \in Jobs : job[j].pc \in {"folder", "layout", "stage", "insert", "index"} => job[j].kind = "sync"
    /\ \A r \in Requests : /\ request[r].pc \in {"docs", "tree"} => request[r].kind = "delete"
                           /\ request[r].kind = "delete" => request[r].pc \in {"docs", "tree"}

(* An id nobody was given yet has no account, no job and no token. *)
IdInv ==
    /\ \A i \in Ids : row[i].live => i < nextId
    /\ \A i \in Ids : row[i].oauth2 => row[i].live
    /\ \A j \in Jobs : job[j].pc # "idle" => job[j].id < nextId
    /\ \A i \in Ids, g \in Gens : life[i][g] # "unissued" => i < nextId

(* A token that has not run out is accepted: the provider revokes one only *)
(* when it replaces it, and only an expired one is replaced.  So a job     *)
(* that kept or refreshed its token is about to store an accepted one.     *)
TokenInv ==
    /\ TokenUsable
    /\ \A i \in Ids, g \in Gens : life[i][g] \in {"fresh", "soon"} => g \in accepted[i]
    /\ \A j \in Jobs : job[j].pc = "persist" =>
          /\ life[job[j].id][job[j].token] # "unissued"
          /\ job[j].token \in accepted[job[j].id] \/ job[j].id \in strained

(* A reindex holds emails only while it indexes, a deleted account has no  *)
(* emails.                                                                 *)
ReindexInv ==
    /\ reindex.pc # "build" => \A i \in Ids : reindex.todo[i] = {}
    /\ \A i \in Ids : ~row[i].live => emails[i] = {}

Clean(i) == i \notin overtaken \cup relisted \cup cut

(* A deletion no sync overlaps knows every search hit of the account and   *)
(* every email a reindex has still to index, and once the row is gone only *)
(* its tree can be left.                                                   *)
Unreached(i) ==
    /\ row[i].live => reindex.todo[i] \subseteq emails[i]
    /\ ~row[i].live => reindex.todo[i] = {}
    /\ \A r \in Requests : request[r].pc = "docs" /\ request[r].id = i => reindex.todo[i] \subseteq request[r].todo

LeftoverInv ==
    \A i \in Ids : Clean(i) =>
        /\ Unreached(i)
        /\ Deleting(i) \/ ~row[i].live => ~Syncing(i)
        /\ row[i].live => docs[i] \subseteq emails[i]
        /\ ~row[i].live =>
              /\ docs[i] = {}
              /\ \/ files[i] = {} /\ ~tree[i]
                 \/ \E r \in Requests : request[r].pc = "tree" /\ request[r].id = i
        /\ \A r \in Requests : request[r].pc = "docs" /\ request[r].id = i => docs[i] \subseteq request[r].todo
        /\ \A j \in Jobs : job[j].pc = "index" /\ job[j].id = i => job[j].msg \subseteq emails[i]

AccountsInv == TypeOK /\ StageInv /\ IdInv /\ TokenInv /\ ReindexInv /\ LeftoverInv
------------------------------------------------------------------------------
(* The records. *)
LEMMA Idles ==
  /\ IdleRequest \in RequestType /\ IdleRequest.pc = "idle" /\ IdleRequest.kind = "edit"
  /\ IdleJob \in JobType /\ IdleJob.pc = "idle"
  /\ NewRow \in RowType /\ NewRow.live /\ ~NewRow.oauth2 /\ NewRow.token = 0
  /\ NoRow \in RowType /\ ~NoRow.live /\ ~NoRow.oauth2
<1>1. 1 \in Ids /\ 0 \in Gens
  BY AccountsAssumption DEF Ids, Gens
<1>2. IdleRequest \in RequestType /\ IdleRequest.pc = "idle" /\ IdleRequest.kind = "edit"
  BY <1>1 DEF IdleRequest, RequestType, Kinds
<1>3. IdleJob \in JobType /\ IdleJob.pc = "idle"
  BY <1>1 DEF IdleJob, JobType
<1>4. NewRow \in RowType /\ NewRow.live /\ ~NewRow.oauth2 /\ NewRow.token = 0
  BY <1>1 DEF NewRow, RowType
<1>5. NoRow \in RowType /\ ~NoRow.live /\ ~NoRow.oauth2
  BY <1>4 DEF NoRow, NewRow, RowType
<1> QED BY <1>2, <1>3, <1>4, <1>5

(* The handler that moves is the only one to. *)
Asks(r) == request' \in [Requests -> RequestType] /\ \A q \in Requests : q # r => request'[q] = request[q]

(* It stays with its account. *)
Keeps(r) == Asks(r) /\ request'[r].id = request[r].id /\ request'[r].kind = request[r].kind

Drops(r) == \E m \in request[r].todo : /\ Keeps(r) /\ request'[r].pc = "docs" /\ request'[r].todo = request[r].todo \ {m}
                                       /\ docs' = docs \/ docs' = [docs EXCEPT ![request[r].id] = @ \ {m}]

LEMMA RequestSteps ==
  ASSUME TypeOK, NEW r \in Requests
  PROVE  /\ Answer(r) => Asks(r) /\ request'[r] = IdleRequest
         /\ \A i \in Ids : StartEdit(r, i) \/ StartToggle(r, i) =>
               Asks(r) /\ request'[r].pc \in {"read", "write"} /\ request'[r].kind # "delete"
         /\ \A i \in Ids : StartDelete(r, i) =>
               /\ Asks(r) /\ request'[r].pc = "docs" /\ request'[r].kind = "delete"
               /\ request'[r].id = i /\ request'[r].todo = emails[i]
         /\ ToggleReads(r) => Asks(r) /\ (request'[r] = IdleRequest \/ (Keeps(r) /\ request'[r].pc = "write"))
         /\ DeleteDoc(r) => Drops(r)
         /\ DeleteRow(r) => IF row[request[r].id].live THEN Keeps(r) /\ request'[r].pc = "tree"
                            ELSE Asks(r) /\ request'[r] = IdleRequest
         /\ DeleteFails(r) => IF request[r].pc = "docs" THEN Drops(r) ELSE Asks(r) /\ request'[r] = IdleRequest
<1>1. /\ request \in [Requests -> RequestType] /\ request[r] \in RequestType /\ request[r].todo \subseteq Messages
      /\ row \in [Ids -> RowType] /\ emails \in [Ids -> SUBSET Messages]
      /\ \A i \in Ids : row[i].active \in BOOLEAN /\ emails[i] \subseteq Messages
  BY DEF TypeOK, RequestType, RowType
<1>2. ASSUME NEW s \in RequestType, request' = [request EXCEPT ![r] = s]
      PROVE  Asks(r) /\ request'[r] = s
  BY <1>1, <1>2 DEF Asks
<1>3. Answer(r) => Asks(r) /\ request'[r] = IdleRequest
  BY <1>2, Idles DEF Answer
<1>4. ASSUME NEW i \in Ids, NEW pc \in {"read", "write"}, NEW b \in BOOLEAN,
             request' = [request EXCEPT ![r] = [IdleRequest EXCEPT !.pc = pc, !.id = i, !.active = b]]
      PROVE  Asks(r) /\ request'[r].pc \in {"read", "write"} /\ request'[r].kind # "delete"
  <2>1. PICK s : s = [IdleRequest EXCEPT !.pc = pc, !.id = i, !.active = b]
    OBVIOUS
  <2>2. s \in RequestType /\ s.pc = pc /\ s.kind = "edit"
    BY <2>1, AccountsAssumption DEF RequestType, IdleRequest, Kinds, Ids
  <2> QED BY <1>2, <1>4, <2>1, <2>2
<1>5. ASSUME NEW i \in Ids, StartEdit(r, i) \/ StartToggle(r, i)
      PROVE  \E pc \in {"read", "write"}, b \in BOOLEAN :
                request' = [request EXCEPT ![r] = [IdleRequest EXCEPT !.pc = pc, !.id = i, !.active = b]]
  BY <1>1, <1>5 DEF StartEdit, StartToggle
<1>6. ASSUME NEW i \in Ids, StartDelete(r, i)
      PROVE  /\ Asks(r) /\ request'[r].pc = "docs" /\ request'[r].kind = "delete"
             /\ request'[r].id = i /\ request'[r].todo = emails[i]
  <2>1. PICK s : s = [IdleRequest EXCEPT !.pc = "docs", !.kind = "delete", !.id = i, !.todo = emails[i]]
    OBVIOUS
  <2>2. s \in RequestType /\ s.pc = "docs" /\ s.kind = "delete" /\ s.id = i /\ s.todo = emails[i]
    BY <1>1, <2>1, AccountsAssumption DEF RequestType, IdleRequest, Kinds, Ids
  <2> QED BY <1>2, <1>6, <2>1, <2>2 DEF StartDelete
<1>7. ASSUME NEW pc \in {"write", "tree"}, request' = [request EXCEPT ![r].pc = pc]
      PROVE  Keeps(r) /\ request'[r].pc = pc
  <2>1. PICK s : s = [request[r] EXCEPT !.pc = pc]
    OBVIOUS
  <2>2. s \in RequestType /\ s.pc = pc /\ s.id = request[r].id /\ s.kind = request[r].kind
    BY <1>1, <2>1 DEF RequestType
  <2> QED BY <1>2, <1>7, <2>1, <2>2 DEF Keeps
<1>8. ASSUME NEW m \in request[r].todo, request' = [request EXCEPT ![r].todo = @ \ {m}], request[r].pc = "docs",
             docs' = docs \/ docs' = [docs EXCEPT ![request[r].id] = @ \ {m}]
      PROVE  Drops(r)
  <2>1. PICK s, S : S = request[r].todo \ {m} /\ s = [request[r] EXCEPT !.todo = S]
    OBVIOUS
  <2>2. s \in RequestType /\ s.pc = "docs" /\ s.id = request[r].id /\ s.kind = request[r].kind /\ s.todo = S
    BY <1>1, <1>8, <2>1 DEF RequestType
  <2>3. request' = [request EXCEPT ![r] = s]
    BY <1>8, <2>1
  <2> QED BY <1>2, <1>8, <2>1, <2>2, <2>3 DEF Keeps, Drops
<1>9. ToggleReads(r) => Asks(r) /\ (request'[r] = IdleRequest \/ (Keeps(r) /\ request'[r].pc = "write"))
  BY <1>3, <1>7 DEF ToggleReads, Keeps
<1>10. DeleteDoc(r) => Drops(r)
  BY <1>8 DEF DeleteDoc
<1>11. DeleteRow(r) => IF row[request[r].id].live THEN Keeps(r) /\ request'[r].pc = "tree"
                       ELSE Asks(r) /\ request'[r] = IdleRequest
  BY <1>3, <1>7 DEF DeleteRow
<1>12. DeleteFails(r) => IF request[r].pc = "docs" THEN Drops(r) ELSE Asks(r) /\ request'[r] = IdleRequest
  BY <1>3, <1>8 DEF DeleteFails, archiveVars
<1> QED BY <1>3, <1>4, <1>5, <1>6, <1>9, <1>10, <1>11, <1>12

(* The job that moves is the only one to. *)
Works(j) == job' \in [Jobs -> JobType] /\ \A k \in Jobs : k # j => job'[k] = job[k]

(* It stays with its account, at pc. *)
Moves(j, pc, token, msg) ==
    /\ Works(j) /\ job'[j].pc = pc /\ job'[j].token = token /\ job'[j].msg = msg
    /\ job'[j].id = job[j].id /\ job'[j].kind = job[j].kind

Ends(j) == Works(j) /\ job'[j] = IdleJob

LEMMA JobSteps ==
  ASSUME TypeOK, NEW j \in Jobs
  PROVE  /\ EndJob(j) => Ends(j)
         /\ \A pc \in {"persist", "folder", "layout", "stage", "index"} : Goto(j, pc) => Moves(j, pc, job[j].token, job[j].msg)
         /\ Resolved(j) => IF job[j].kind = "sync" THEN Moves(j, "folder", 0, job[j].msg) ELSE Ends(j)
         /\ \A i \in Ids, kind \in {"sync", "test"} : StartJob(j, i, kind) =>
               /\ Works(j) /\ job'[j].kind = kind /\ job'[j].id = i
               /\ job'[j].pc = "resolve" \/ (job'[j].pc = "folder" /\ kind = "sync")
         /\ \A g \in Gens : job' = [job EXCEPT ![j].pc = "persist", ![j].token = g] => Moves(j, "persist", g, job[j].msg)
         /\ \A pc \in {"stage", "insert"}, M \in SUBSET Messages :
               job' = [job EXCEPT ![j].pc = pc, ![j].msg = M] => Moves(j, pc, job[j].token, M)
<1>1. job \in [Jobs -> JobType] /\ job[j] \in JobType /\ row \in [Ids -> RowType] /\ \A i \in Ids : row[i].token \in Gens
  BY DEF TypeOK, RowType
<1>2. ASSUME NEW s \in JobType, job' = [job EXCEPT ![j] = s]
      PROVE  Works(j) /\ job'[j] = s
  BY <1>1, <1>2 DEF Works
<1>3. EndJob(j) => Ends(j)
  BY <1>2, Idles DEF EndJob, Ends
<1>4. ASSUME NEW pc \in {"persist", "folder", "layout", "stage", "index"}, Goto(j, pc)
      PROVE  Moves(j, pc, job[j].token, job[j].msg)
  <2>1. PICK s : s = [job[j] EXCEPT !.pc = pc]
    OBVIOUS
  <2>2. s \in JobType /\ s.pc = pc /\ s.id = job[j].id /\ s.kind = job[j].kind /\ s.token = job[j].token /\ s.msg = job[j].msg
    BY <1>1, <2>1 DEF JobType
  <2> QED BY <1>2, <1>4, <2>1, <2>2 DEF Goto, Moves
<1>5. ASSUME NEW i \in Ids, NEW kind \in {"sync", "test"}, StartJob(j, i, kind)
      PROVE  /\ Works(j) /\ job'[j].kind = kind /\ job'[j].id = i
             /\ job'[j].pc = "resolve" \/ (job'[j].pc = "folder" /\ kind = "sync")
  <2>1. PICK s : s = [IdleJob EXCEPT !.pc = IF row[i].oauth2 THEN "resolve" ELSE "folder",
                                     !.kind = kind, !.id = i, !.token = row[i].token]
    OBVIOUS
  <2>2. /\ s \in JobType /\ s.kind = kind /\ s.id = i
        /\ s.pc = IF row[i].oauth2 THEN "resolve" ELSE "folder"
    BY <1>1, <2>1, AccountsAssumption DEF JobType, IdleJob, Ids, Gens
  <2>3. job' = [job EXCEPT ![j] = s] /\ (kind = "test" => row[i].oauth2)
    BY <1>5, <2>1 DEF StartJob
  <2> QED BY <1>2, <2>2, <2>3
<1>6. ASSUME NEW g \in Gens, job' = [job EXCEPT ![j].pc = "persist", ![j].token = g]
      PROVE  Moves(j, "persist", g, job[j].msg)
  <2>1. PICK s : s = [job[j] EXCEPT !.pc = "persist", !.token = g]
    OBVIOUS
  <2>2. s \in JobType /\ s.pc = "persist" /\ s.id = job[j].id /\ s.kind = job[j].kind /\ s.token = g /\ s.msg = job[j].msg
    BY <1>1, <2>1 DEF JobType
  <2>3. job' = [job EXCEPT ![j] = s]
    BY <1>1, <1>6, <2>1
  <2> QED BY <1>2, <2>2, <2>3 DEF Moves
<1>7. ASSUME NEW pc \in {"stage", "insert"}, NEW M \in SUBSET Messages, job' = [job EXCEPT ![j].pc = pc, ![j].msg = M]
      PROVE  Moves(j, pc, job[j].token, M)
  <2>1. PICK s : s = [job[j] EXCEPT !.pc = pc, !.msg = M]
    OBVIOUS
  <2>2. s \in JobType /\ s.pc = pc /\ s.id = job[j].id /\ s.kind = job[j].kind /\ s.token = job[j].token /\ s.msg = M
    BY <1>1, <2>1 DEF JobType
  <2>3. job' = [job EXCEPT ![j] = s]
    BY <1>1, <1>7, <2>1
  <2> QED BY <1>2, <2>2, <2>3 DEF Moves
<1>8. ASSUME job' = [job EXCEPT ![j].pc = "folder", ![j].token = 0]
      PROVE  Moves(j, "folder", 0, job[j].msg)
  <2>1. PICK s : s = [job[j] EXCEPT !.pc = "folder", !.token = 0]
    OBVIOUS
  <2>2. s \in JobType /\ s.pc = "folder" /\ s.id = job[j].id /\ s.kind = job[j].kind /\ s.token = 0 /\ s.msg = job[j].msg
    <3>1. 0 \in Gens
      BY AccountsAssumption DEF Gens
    <3> QED BY <1>1, <2>1, <3>1 DEF JobType
  <2>3. job' = [job EXCEPT ![j] = s]
    BY <1>1, <1>8, <2>1
  <2> QED BY <1>2, <2>2, <2>3 DEF Moves
<1> QED BY <1>3, <1>4, <1>5, <1>6, <1>7, <1>8 DEF Resolved

(* The steps of a handler, with its place before and after. *)
RequestMoves(r) ==
    \/ Asks(r) /\ request'[r] = IdleRequest /\ request[r].pc # "tree"
    \/ Asks(r) /\ request'[r] = IdleRequest /\ request[r].pc = "tree" /\ (DeleteTree(r) \/ DeleteFails(r))
    \/ Asks(r) /\ request[r].pc \in {"idle", "read"} /\ request'[r].pc \in {"read", "write"} /\ request'[r].kind # "delete"
    \/ \E i \in Ids : /\ StartDelete(r, i) /\ Asks(r) /\ request[r].pc = "idle" /\ request'[r].pc = "docs"
                      /\ request'[r].kind = "delete" /\ request'[r].id = i /\ request'[r].todo = emails[i]
    \/ Drops(r) /\ request[r].pc = "docs" /\ (DeleteDoc(r) \/ DeleteFails(r))
    \/ /\ DeleteRow(r) /\ Keeps(r) /\ row[request[r].id].live
       /\ request[r].pc = "docs" /\ request[r].todo = {} /\ request'[r].pc = "tree"

LEMMA RequestCases ==
  ASSUME TypeOK, StageInv, [Next]_vars
  PROVE  request' = request \/ Crash \/ \E r \in Requests : RequestMoves(r)
<1>1. ASSUME NEW r \in Requests, Handle(r) PROVE RequestMoves(r)
  <2>1. CASE \E i \in Ids : StartEdit(r, i) \/ StartToggle(r, i)
    <3>1. request[r].pc = "idle"
      BY <2>1 DEF StartEdit, StartToggle
    <3> QED BY <2>1, <3>1, RequestSteps DEF RequestMoves
  <2>2. ASSUME NEW i \in Ids, StartDelete(r, i) PROVE RequestMoves(r)
    <3>1. request[r].pc = "idle"
      BY <2>2 DEF StartDelete
    <3> QED BY <2>2, <3>1, RequestSteps DEF RequestMoves
  <2>3. CASE ToggleReads(r)
    <3>1. request[r].pc = "read" /\ request[r].kind # "delete"
      BY <2>3 DEF ToggleReads, StageInv
    <3> QED BY <2>3, <3>1, RequestSteps DEF RequestMoves, Keeps
  <2>4. CASE WriteRow(r)
    BY <2>4, RequestSteps DEF WriteRow, RequestMoves
  <2>5. CASE DeleteDoc(r)
    <3>1. request[r].pc = "docs"
      BY <2>5 DEF DeleteDoc
    <3> QED BY <2>5, <3>1, RequestSteps DEF RequestMoves
  <2>6. CASE DeleteRow(r)
    <3>1. request[r].pc = "docs" /\ request[r].todo = {}
      BY <2>6 DEF DeleteRow
    <3> QED BY <2>6, <3>1, RequestSteps DEF RequestMoves
  <2>7. CASE DeleteTree(r)
    <3>1. request[r].pc = "tree" /\ Answer(r)
      BY <2>7 DEF DeleteTree
    <3> QED BY <2>7, <3>1, RequestSteps DEF RequestMoves
  <2>8. CASE DeleteFails(r)
    <3>1. request[r].pc \in {"docs", "tree"}
      BY <2>8 DEF DeleteFails
    <3> QED BY <2>8, <3>1, RequestSteps DEF RequestMoves
  <2> QED BY <1>1, <2>1, <2>2, <2>3, <2>4, <2>5, <2>6, <2>7, <2>8 DEF Handle
<1>2. (AddAccount \/ AddOAuth2Account \/ Reindex \/ (\E j \in Jobs : Resolve(j) \/ Archive(j)) \/ (\E i \in Ids, g \in Gens : Age(i, g)))
         => request' = request
  BY DEF AddAccount, AddOAuth2Account, Create, Resolve, Archive, StartJob, UseToken, KeepToken, Refresh, RefreshFails,
     StoreToken, StoreFails, UpsertFolder, NewLayout, WriteFile, InsertEmail, IndexEmail, FinishSync, Age, Reindex, StartReindex, ListAll, ListFails,
     IndexOne, FinishReindex, ReindexStep, JobStep, SyncStep
<1>3. UNCHANGED vars => request' = request
  BY DEF vars
<1> QED BY <1>1, <1>2, <1>3 DEF Next

(* The steps of a job, with its place before and after. *)
JobMoves(j) ==
    \/ Ends(j) /\ (job[j].pc = "persist" => StoreToken(j) \/ StoreFails(j))
    \/ \E i \in Ids, kind \in {"sync", "test"} :
          /\ StartJob(j, i, kind) /\ Works(j) /\ job[j].pc = "idle" /\ job'[j].kind = kind /\ job'[j].id = i
          /\ job'[j].pc = "resolve" \/ (job'[j].pc = "folder" /\ kind = "sync")
    \/ KeepToken(j) /\ job[j].pc = "resolve" /\ Moves(j, "persist", job[j].token, job[j].msg)
    \/ Refresh(j) /\ job[j].pc = "resolve" /\ \E g \in Gens : /\ g = Cardinality(Issued(job[j].id))
                                                              /\ Moves(j, "persist", g, job[j].msg)
    \/ /\ (UseToken(j) /\ job[j].pc = "resolve") \/ (StoreToken(j) /\ job[j].pc = "persist")
       /\ job[j].kind = "sync" /\ Moves(j, "folder", 0, job[j].msg)
    \/ \E from \in {"folder", "layout", "stage", "index"}, pc \in {"layout", "stage", "insert"}, M \in SUBSET Messages :
          job[j].pc = from /\ Moves(j, pc, job[j].token, M)
    \/ InsertEmail(j) /\ job[j].pc = "insert" /\ Moves(j, "index", job[j].token, job[j].msg)

LEMMA JobCases ==
  ASSUME TypeOK, [Next]_vars
  PROVE  job' = job \/ Crash \/ \E j \in Jobs : JobMoves(j)
<1>0. ASSUME NEW j \in Jobs PROVE job[j].msg \in SUBSET Messages /\ job[j].kind \in {"sync", "test"}
  BY DEF TypeOK, JobType
<1>1. ASSUME NEW j \in Jobs, Resolve(j) PROVE JobMoves(j)
  <2>1. ASSUME NEW i \in Ids, NEW kind \in {"sync", "test"}, StartJob(j, i, kind) PROVE JobMoves(j)
    <3>1. job[j].pc = "idle"
      BY <2>1 DEF StartJob
    <3>2. /\ Works(j) /\ job'[j].kind = kind /\ job'[j].id = i
          /\ job'[j].pc = "resolve" \/ (job'[j].pc = "folder" /\ kind = "sync")
      BY <2>1, JobSteps
    <3> QED BY <2>1, <3>1, <3>2 DEF JobMoves
  <2>2. CASE UseToken(j)
    <3>1. job[j].pc = "resolve" /\ Resolved(j)
      BY <2>2 DEF UseToken
    <3> QED BY <2>2, <3>1, JobSteps DEF JobMoves
  <2>3. CASE KeepToken(j)
    <3>1. job[j].pc = "resolve" /\ Goto(j, "persist")
      BY <2>3 DEF KeepToken
    <3> QED BY <2>3, <3>1, JobSteps DEF JobMoves
  <2>4. CASE Refresh(j)
    <3>1. PICK g : g = Cardinality(Issued(job[j].id))
      OBVIOUS
    <3>2. job[j].pc = "resolve" /\ g <= MaxGen /\ job' = [job EXCEPT ![j].pc = "persist", ![j].token = g]
      BY <2>4, <3>1 DEF Refresh
    <3>3. g \in Nat
      <4>1. IsFiniteSet(0 .. MaxGen) /\ Issued(job[j].id) \subseteq 0 .. MaxGen
        BY FS_Interval, AccountsAssumption DEF Issued, Gens
      <4>2. IsFiniteSet(Issued(job[j].id))
        BY <4>1, FS_Subset
      <4> QED BY <3>1, <4>2, FS_CardinalityType
    <3>4. g \in Gens
      BY <3>2, <3>3, AccountsAssumption DEF Gens
    <3> QED BY <2>4, <3>1, <3>2, <3>4, JobSteps DEF JobMoves
  <2>5. CASE RefreshFails(j)
    BY <2>5, JobSteps DEF RefreshFails, JobMoves
  <2>6. CASE StoreToken(j)
    <3>1. job[j].pc = "persist" /\ (Resolved(j) \/ EndJob(j))
      BY <2>6 DEF StoreToken
    <3> QED BY <2>6, <3>1, JobSteps DEF JobMoves
  <2>7. CASE StoreFails(j)
    <3>1. EndJob(j)
      BY <2>7 DEF StoreFails
    <3> QED BY <2>7, <3>1, JobSteps DEF JobMoves
  <2> QED BY <1>1, <2>1, <2>2, <2>3, <2>4, <2>5, <2>6, <2>7 DEF Resolve
<1>2. ASSUME NEW j \in Jobs, Archive(j) PROVE JobMoves(j)
  <2>1. CASE UpsertFolder(j) \/ NewLayout(j)
    <3>1. PICK from \in {"folder", "layout"}, pc \in {"layout", "stage"} :
             job[j].pc = from /\ (Goto(j, pc) \/ EndJob(j))
      BY <2>1 DEF UpsertFolder, NewLayout
    <3>2. Moves(j, pc, job[j].token, job[j].msg) \/ Ends(j)
      BY <3>1, JobSteps
    <3>3. job[j].msg \in SUBSET Messages /\ job[j].pc # "persist"
      BY <1>0, <3>1
    <3> QED BY <3>1, <3>2, <3>3 DEF JobMoves
  <2>2. ASSUME NEW m \in Messages, WriteFile(j, m) PROVE JobMoves(j)
    <3>1. PICK M \in SUBSET Messages : M = {m}
      OBVIOUS
    <3>2. job[j].pc = "stage" /\ (EndJob(j) \/ job' = [job EXCEPT ![j].pc = "insert", ![j].msg = M])
      BY <2>2, <3>1 DEF WriteFile
    <3> QED BY <3>2, JobSteps DEF JobMoves
  <2>3. CASE InsertEmail(j)
    <3>1. job[j].pc = "insert" /\ (Goto(j, "index") \/ EndJob(j))
      BY <2>3 DEF InsertEmail
    <3> QED BY <2>3, <3>1, JobSteps DEF JobMoves
  <2>4. CASE IndexEmail(j)
    <3>1. PICK M \in SUBSET Messages : M = {}
      OBVIOUS
    <3>2. job[j].pc = "index" /\ job' = [job EXCEPT ![j].pc = "stage", ![j].msg = M]
      BY <2>4, <3>1 DEF IndexEmail
    <3> QED BY <3>2, JobSteps DEF JobMoves
  <2>5. CASE FinishSync(j)
    BY <2>5, JobSteps DEF FinishSync, JobMoves
  <2> QED BY <1>2, <2>1, <2>2, <2>3, <2>4, <2>5 DEF Archive
<1>3. (AddAccount \/ AddOAuth2Account \/ Reindex \/ (\E r \in Requests : Handle(r)) \/ (\E i \in Ids, g \in Gens : Age(i, g)))
         => job' = job
  BY DEF AddAccount, AddOAuth2Account, Create, Handle, StartEdit, StartToggle, StartDelete, ToggleReads, WriteRow, DeleteDoc,
     DeleteRow, DeleteTree, DeleteFails, RequestStep, Age, Reindex, StartReindex, ListAll, ListFails,
     IndexOne, FinishReindex, ReindexStep
<1>4. UNCHANGED vars => job' = job
  BY DEF vars
<1> QED BY <1>1, <1>2, <1>3, <1>4 DEF Next

LEMMA StageNext ==
  ASSUME TypeOK, StageInv, [Next]_vars
  PROVE  StageInv'
<1>1. \A j \in Jobs : job'[j].pc \in {"folder", "layout", "stage", "insert", "index"} => job'[j].kind = "sync"
  <2>1. CASE job' = job
    BY <2>1 DEF StageInv
  <2>2. CASE Crash
    BY <2>2, Idles DEF Crash
  <2>3. ASSUME NEW j \in Jobs, JobMoves(j)
        PROVE  \A k \in Jobs : job'[k].pc \in {"folder", "layout", "stage", "insert", "index"} => job'[k].kind = "sync"
    BY <2>3, Idles DEF StageInv, JobMoves, Ends, Works, Moves
  <2> QED BY <2>1, <2>2, <2>3, JobCases
<1>2. \A r \in Requests : /\ request'[r].pc \in {"docs", "tree"} => request'[r].kind = "delete"
                          /\ request'[r].kind = "delete" => request'[r].pc \in {"docs", "tree"}
  <2>1. CASE request' = request
    BY <2>1 DEF StageInv
  <2>2. CASE Crash
    BY <2>2, Idles DEF Crash
  <2>3. ASSUME NEW r \in Requests, RequestMoves(r)
        PROVE  \A q \in Requests : /\ request'[q].pc \in {"docs", "tree"} => request'[q].kind = "delete"
                                   /\ request'[q].kind = "delete" => request'[q].pc \in {"docs", "tree"}
    BY <2>3, Idles DEF StageInv, RequestMoves, Asks, Keeps, Drops
  <2> QED BY <2>1, <2>2, <2>3, RequestCases
<1> QED BY <1>1, <1>2 DEF StageInv
------------------------------------------------------------------------------
(* What a step changes. *)
LEMMA HistoryGrows ==
  ASSUME [Next]_vars
  PROVE  /\ overtaken \subseteq overtaken' /\ relisted \subseteq relisted' /\ cut \subseteq cut' /\ strained \subseteq strained'
         /\ nextId' \in {nextId, nextId + 1}
<1>1. overtaken \subseteq overtaken'
  BY DEF Next, AddAccount, AddOAuth2Account, Create, Crash, Handle, StartEdit, StartToggle, StartDelete, ToggleReads, WriteRow,
     DeleteDoc, DeleteRow, DeleteTree, DeleteFails, Resolve, Archive, StartJob, UseToken, KeepToken, Refresh, RefreshFails,
     StoreToken, StoreFails, UpsertFolder, NewLayout, WriteFile, InsertEmail, IndexEmail, FinishSync, Age, Reindex, StartReindex, ListAll, ListFails,
     IndexOne, FinishReindex, ReindexStep, SyncStep, historyVars, vars
<1>2. cut \subseteq cut'
  BY DEF Next, AddAccount, AddOAuth2Account, Create, Crash, Handle, StartEdit, StartToggle, StartDelete, ToggleReads, WriteRow,
     DeleteDoc, DeleteRow, DeleteTree, DeleteFails, Resolve, Archive, StartJob, UseToken, KeepToken, Refresh, RefreshFails,
     StoreToken, StoreFails, UpsertFolder, NewLayout, WriteFile, InsertEmail, IndexEmail, FinishSync, Age, Reindex, StartReindex, ListAll, ListFails,
     IndexOne, FinishReindex, ReindexStep, SyncStep, historyVars, vars
<1>3. strained \subseteq strained'
  BY DEF Next, AddAccount, AddOAuth2Account, Create, Crash, Handle, StartEdit, StartToggle, StartDelete, ToggleReads, WriteRow,
     DeleteDoc, DeleteRow, DeleteTree, DeleteFails, Resolve, Archive, StartJob, UseToken, KeepToken, Refresh, RefreshFails,
     StoreToken, StoreFails, UpsertFolder, NewLayout, WriteFile, InsertEmail, IndexEmail, FinishSync, Age, Reindex, StartReindex, ListAll, ListFails,
     IndexOne, FinishReindex, ReindexStep, SyncStep, historyVars, vars
<1>4. nextId' \in {nextId, nextId + 1}
  BY DEF Next, AddAccount, AddOAuth2Account, Create, Crash, Handle, StartEdit, StartToggle, StartDelete, ToggleReads, WriteRow,
     DeleteDoc, DeleteRow, DeleteTree, DeleteFails, Resolve, Archive, StartJob, UseToken, KeepToken, Refresh, RefreshFails,
     StoreToken, StoreFails, UpsertFolder, NewLayout, WriteFile, InsertEmail, IndexEmail, FinishSync, Age, Reindex, StartReindex, ListAll, ListFails,
     IndexOne, FinishReindex, ReindexStep, JobStep, SyncStep,
     RequestStep, vars
<1>5. relisted \subseteq relisted'
  BY DEF Next, AddAccount, AddOAuth2Account, Create, Crash, Handle, StartEdit, StartToggle, StartDelete, ToggleReads, WriteRow,
     DeleteDoc, DeleteRow, DeleteTree, DeleteFails, Resolve, Archive, StartJob, UseToken, KeepToken, Refresh, RefreshFails,
     StoreToken, StoreFails, UpsertFolder, NewLayout, WriteFile, InsertEmail, IndexEmail, FinishSync, Age, Reindex, StartReindex, ListAll, ListFails,
     IndexOne, FinishReindex, ReindexStep, SyncStep, historyVars, vars
<1> QED BY <1>1, <1>2, <1>3, <1>4, <1>5

Same(i)    == row'[i].live = row[i].live /\ row'[i].oauth2 = row[i].oauth2 /\ row'[i].token = row[i].token
Creates(i) == /\ (AddAccount \/ AddOAuth2Account) /\ i = nextId /\ ~row[i].live /\ row'[i].live /\ row'[i].token = 0
              /\ row'[i].oauth2 => AddOAuth2Account
Deletes(i) == \E r \in Requests : DeleteRow(r) /\ request[r].id = i /\ row[i].live /\ row'[i] = NoRow
Stores(i)  == \E j \in Jobs : /\ StoreToken(j) /\ job[j].pc = "persist" /\ job[j].id = i /\ row[i].live
                              /\ row'[i].live = row[i].live /\ row'[i].oauth2 = row[i].oauth2 /\ row'[i].token = job[j].token

LEMMA RowChange ==
  ASSUME TypeOK, [Next]_vars
  PROVE  row' \in [Ids -> RowType] /\ \A i \in Ids : Same(i) \/ Creates(i) \/ Deletes(i) \/ Stores(i)
<1>0. /\ row \in [Ids -> RowType] /\ nextId \in 1 .. MaxId + 1
      /\ \A r \in Requests : request[r].id \in Ids /\ request[r].active \in BOOLEAN
      /\ \A j \in Jobs : job[j].id \in Ids /\ job[j].token \in Gens
  BY DEF TypeOK, RequestType, JobType
<1>1. CASE row' = row
  BY <1>0, <1>1 DEF Same
<1>2. ASSUME NEW k \in Ids, NEW s \in RowType, row' = [row EXCEPT ![k] = s]
      PROVE  /\ row' \in [Ids -> RowType] /\ row'[k] = s
             /\ \A i \in Ids : i # k => Same(i)
  BY <1>0, <1>2 DEF Same
<1>3. ASSUME AddAccount \/ AddOAuth2Account
      PROVE  row' \in [Ids -> RowType] /\ \A i \in Ids : Same(i) \/ Creates(i)
  <2>1. PICK s : s \in RowType /\ s.live /\ s.token = 0 /\ (s.oauth2 => AddOAuth2Account) /\ row' = [row EXCEPT ![nextId] = s]
    <3>1. [NewRow EXCEPT !.oauth2 = TRUE] \in RowType /\ [NewRow EXCEPT !.oauth2 = TRUE].live
          /\ [NewRow EXCEPT !.oauth2 = TRUE].token = 0
      BY Idles DEF RowType, NewRow
    <3>2. CASE AddAccount
      BY <3>2, Idles DEF AddAccount, Create
    <3>3. CASE AddOAuth2Account
      BY <3>1, <3>3 DEF AddOAuth2Account, Create
    <3> QED BY <1>3, <3>2, <3>3
  <2>2. nextId \in Ids /\ ~row[nextId].live
    BY <1>0, <1>3, AccountsAssumption DEF AddAccount, AddOAuth2Account, Create, Ids
  <2>3. Creates(nextId)
    BY <1>2, <1>3, <2>1, <2>2 DEF Creates
  <2> QED BY <1>2, <2>1, <2>2, <2>3
<1>4. ASSUME NEW r \in Requests, WriteRow(r)
      PROVE  row' \in [Ids -> RowType] /\ \A i \in Ids : Same(i)
  <2>1. PICK k, s : k \in Ids /\ k = request[r].id /\ s = [row[k] EXCEPT !.active = request[r].active]
    BY <1>0
  <2>2. s \in RowType /\ s.live = row[k].live /\ s.oauth2 = row[k].oauth2 /\ s.token = row[k].token
    BY <1>0, <2>1 DEF RowType
  <2>3. row' = row \/ row' = [row EXCEPT ![k] = s]
    BY <1>4, <2>1 DEF WriteRow
  <2> QED BY <1>1, <1>2, <2>2, <2>3, <1>0 DEF Same
<1>5. ASSUME NEW r \in Requests, DeleteRow(r)
      PROVE  row' \in [Ids -> RowType] /\ \A i \in Ids : Same(i) \/ Deletes(i)
  <2>1. CASE row' = row
    BY <1>0, <2>1 DEF Same
  <2>2. CASE row[request[r].id].live /\ row' = [row EXCEPT ![request[r].id] = NoRow]
    <3>1. PICK k \in Ids : k = request[r].id
      BY <1>0
    <3>2. Deletes(k)
      BY <1>2, <1>5, <2>2, <3>1, Idles DEF Deletes
    <3> QED BY <1>2, <2>2, <3>1, <3>2, Idles
  <2> QED BY <1>5, <2>1, <2>2 DEF DeleteRow
<1>6. ASSUME NEW j \in Jobs, StoreToken(j)
      PROVE  row' \in [Ids -> RowType] /\ \A i \in Ids : Same(i) \/ Stores(i)
  <2>1. CASE row' = row
    BY <1>0, <2>1 DEF Same
  <2>2. CASE row' # row
    <3>1. PICK k, s : k \in Ids /\ k = job[j].id /\ s = [row[k] EXCEPT !.token = job[j].token]
      BY <1>0
    <3>2. s \in RowType /\ s.live = row[k].live /\ s.oauth2 = row[k].oauth2 /\ s.token = job[j].token
      BY <1>0, <3>1 DEF RowType
    <3>3. row[k].live /\ row' = [row EXCEPT ![k] = s] /\ job[j].pc = "persist"
      BY <1>6, <2>2, <3>1 DEF StoreToken, Token
    <3>4. Stores(k)
      BY <1>2, <1>6, <3>1, <3>2, <3>3 DEF Stores
    <3> QED BY <1>2, <3>1, <3>2, <3>3, <3>4
  <2> QED BY <2>1, <2>2
<1>7. \/ row' = row \/ AddAccount \/ AddOAuth2Account
      \/ \E r \in Requests : WriteRow(r) \/ DeleteRow(r)
      \/ \E j \in Jobs : StoreToken(j)
  BY DEF Next, Crash, Handle, StartEdit, StartToggle, StartDelete, ToggleReads,
     DeleteDoc, DeleteTree, DeleteFails, Resolve, Archive, StartJob, UseToken, KeepToken, Refresh, RefreshFails,
     StoreFails, UpsertFolder, NewLayout, WriteFile, InsertEmail, IndexEmail, FinishSync, Age, Reindex, StartReindex, ListAll, ListFails,
     IndexOne, FinishReindex, ReindexStep, JobStep, SyncStep, vars
<1> QED BY <1>1, <1>3, <1>4, <1>5, <1>6, <1>7

Ages(i) == /\ accepted'[i] = accepted[i]
           /\ \A g \in Gens : \/ life'[i][g] = life[i][g]
                              \/ life[i][g] \in {"fresh", "soon"} /\ life'[i][g] \in {"soon", "expired"}
Issues(i) == /\ AddOAuth2Account /\ i = nextId /\ accepted'[i] = {0}
             /\ life'[i][0] = "fresh" /\ \A h \in Gens \ {0} : life'[i][h] = life[i][h]
Replaces(i) == \E j \in Jobs, g \in Gens :
    /\ Refresh(j) /\ job[j].pc = "resolve" /\ job[j].id = i /\ life[i][job[j].token] = "expired" /\ g = Cardinality(Issued(i))
    /\ life'[i][g] = "fresh" /\ \A h \in Gens \ {g} : life'[i][h] = life[i][h]
    /\ g \in accepted'[i] /\ accepted[i] \ {job[j].token} \subseteq accepted'[i]

LEMMA IssuedIsGen ==
  ASSUME NEW i \in Ids, Cardinality(Issued(i)) <= MaxGen
  PROVE  Cardinality(Issued(i)) \in Gens
<1>1. IsFiniteSet(0 .. MaxGen) /\ Issued(i) \subseteq 0 .. MaxGen
  BY FS_Interval, AccountsAssumption DEF Issued, Gens
<1>2. Cardinality(Issued(i)) \in Nat
  BY <1>1, FS_Subset, FS_CardinalityType
<1> QED BY <1>2, AccountsAssumption DEF Gens

LEMMA TokenChange ==
  ASSUME TypeOK, [Next]_vars
  PROVE  /\ life' \in [Ids -> [Gens -> Lives]] /\ accepted' \in [Ids -> SUBSET Gens]
         /\ \A i \in Ids : Ages(i) \/ Issues(i) \/ Replaces(i)
<1>0. /\ life \in [Ids -> [Gens -> Lives]] /\ accepted \in [Ids -> SUBSET Gens] /\ nextId \in 1 .. MaxId + 1
      /\ \A j \in Jobs : job[j].id \in Ids /\ job[j].token \in Gens
      /\ \A i \in Ids : life[i] \in [Gens -> Lives] /\ accepted[i] \subseteq Gens
  BY DEF TypeOK, JobType
<1>1. CASE life' = life /\ accepted' = accepted
  BY <1>0, <1>1 DEF Ages
<1>2. ASSUME NEW k \in Ids, NEW f \in [Gens -> Lives], NEW A \in SUBSET Gens,
             life' = [life EXCEPT ![k] = f], accepted' = [accepted EXCEPT ![k] = A]
      PROVE  /\ life' \in [Ids -> [Gens -> Lives]] /\ accepted' \in [Ids -> SUBSET Gens]
             /\ \A i \in Ids \ {k} : life'[i] = life[i] /\ accepted'[i] = accepted[i]
             /\ life'[k] = f /\ accepted'[k] = A
  BY <1>0, <1>2
<1>3. ASSUME AddOAuth2Account
      PROVE  /\ life' \in [Ids -> [Gens -> Lives]] /\ accepted' \in [Ids -> SUBSET Gens]
             /\ \A i \in Ids : Ages(i) \/ Issues(i)
  <2>1. nextId \in Ids /\ 0 \in Gens /\ "fresh" \in Lives
    BY <1>0, <1>3, AccountsAssumption DEF AddOAuth2Account, Create, Ids, Gens, Lives
  <2>2. PICK A, f : A = {0} /\ f = [life[nextId] EXCEPT ![0] = "fresh"]
    OBVIOUS
  <2>3. life' = [life EXCEPT ![nextId] = f] /\ accepted' = [accepted EXCEPT ![nextId] = A]
    BY <1>3, <2>2 DEF AddOAuth2Account
  <2>4. f \in [Gens -> Lives] /\ f[0] = "fresh" /\ (\A h \in Gens \ {0} : f[h] = life[nextId][h]) /\ A \in SUBSET Gens
    BY <1>0, <2>1, <2>2
  <2>5. /\ life' \in [Ids -> [Gens -> Lives]] /\ accepted' \in [Ids -> SUBSET Gens]
        /\ \A i \in Ids \ {nextId} : life'[i] = life[i] /\ accepted'[i] = accepted[i]
        /\ life'[nextId] = f /\ accepted'[nextId] = A
    BY <1>2, <2>1, <2>3, <2>4
  <2>6. Issues(nextId)
    BY <1>3, <2>2, <2>4, <2>5 DEF Issues
  <2>7. \A i \in Ids \ {nextId} : Ages(i)
    BY <2>5 DEF Ages
  <2> QED BY <2>5, <2>6, <2>7
<1>4. ASSUME NEW j \in Jobs, Refresh(j)
      PROVE  /\ life' \in [Ids -> [Gens -> Lives]] /\ accepted' \in [Ids -> SUBSET Gens]
             /\ \A i \in Ids : Ages(i) \/ Replaces(i)
  <2>1. PICK k, g, t : k = job[j].id /\ g = Cardinality(Issued(k)) /\ t = job[j].token
    OBVIOUS
  <2>2. k \in Ids /\ t \in Gens /\ g \in Gens /\ "fresh" \in Lives
    BY <1>0, <1>4, <2>1, IssuedIsGen DEF Refresh, Lives
  <2>3. PICK A, f : /\ A = IF Rotates THEN (accepted[k] \ {t}) \cup {g} ELSE accepted[k] \cup {g}
                    /\ f = [life[k] EXCEPT ![g] = "fresh"]
                    /\ life' = [life EXCEPT ![k] = f] /\ accepted' = [accepted EXCEPT ![k] = A]
    BY <1>4, <2>1 DEF Refresh, Token
  <2>4. /\ A \in SUBSET Gens /\ g \in A /\ accepted[k] \ {t} \subseteq A
        /\ f \in [Gens -> Lives] /\ f[g] = "fresh" /\ \A h \in Gens \ {g} : f[h] = life[k][h]
    BY <1>0, <2>2, <2>3
  <2>5. job[j].pc = "resolve" /\ life[k][t] = "expired"
    BY <1>4, <2>1 DEF Refresh, Token
  <2>6. /\ life' \in [Ids -> [Gens -> Lives]] /\ accepted' \in [Ids -> SUBSET Gens]
        /\ \A i \in Ids \ {k} : life'[i] = life[i] /\ accepted'[i] = accepted[i]
        /\ life'[k] = f /\ accepted'[k] = A
    BY <1>2, <2>2, <2>3, <2>4
  <2>7. Replaces(k)
    BY <1>4, <2>1, <2>2, <2>4, <2>5, <2>6 DEF Replaces
  <2>8. \A i \in Ids \ {k} : Ages(i)
    BY <2>6 DEF Ages
  <2> QED BY <2>6, <2>7, <2>8
<1>5. ASSUME NEW k \in Ids, NEW g \in Gens, Age(k, g)
      PROVE  /\ life' \in [Ids -> [Gens -> Lives]] /\ accepted' \in [Ids -> SUBSET Gens]
             /\ \A i \in Ids : Ages(i)
  <2>1. PICK l, f, A : /\ l = IF life[k][g] = "fresh" THEN "soon" ELSE "expired"
                       /\ f = [life[k] EXCEPT ![g] = l] /\ life' = [life EXCEPT ![k] = f]
                       /\ A = accepted[k] /\ accepted' = accepted /\ life[k][g] \in {"fresh", "soon"}
    BY <1>5 DEF Age
  <2>2. /\ f \in [Gens -> Lives] /\ f[g] \in {"soon", "expired"} /\ (\A h \in Gens \ {g} : f[h] = life[k][h])
        /\ A \in SUBSET Gens /\ accepted' = [accepted EXCEPT ![k] = A]
    BY <1>0, <2>1 DEF Lives
  <2>3. /\ life' \in [Ids -> [Gens -> Lives]] /\ accepted' \in [Ids -> SUBSET Gens]
        /\ \A i \in Ids \ {k} : life'[i] = life[i] /\ accepted'[i] = accepted[i]
        /\ life'[k] = f /\ accepted'[k] = A
    BY <1>2, <2>1, <2>2
  <2>4. Ages(k)
    BY <2>1, <2>2, <2>3 DEF Ages
  <2> QED BY <2>3, <2>4 DEF Ages
<1>6. \/ UNCHANGED tokenVars \/ AddOAuth2Account
      \/ \E j \in Jobs : Refresh(j)
      \/ \E i \in Ids, g \in Gens : Age(i, g)
  BY DEF Next, AddAccount, Crash, Handle, StartEdit, StartToggle, StartDelete, ToggleReads, WriteRow,
     DeleteDoc, DeleteRow, DeleteTree, DeleteFails, Resolve, Archive, StartJob, UseToken, KeepToken, RefreshFails,
     StoreToken, StoreFails, UpsertFolder, NewLayout, WriteFile, InsertEmail, IndexEmail, FinishSync, Reindex, StartReindex, ListAll, ListFails,
     IndexOne, FinishReindex, ReindexStep,
     RequestStep, SyncStep, tokenVars, vars
<1>7. UNCHANGED tokenVars => life' = life /\ accepted' = accepted
  BY DEF tokenVars
<1> QED BY <1>1, <1>3, <1>4, <1>5, <1>6, <1>7
------------------------------------------------------------------------------
(* Ids and tokens. *)
LEMMA IdNext ==
  ASSUME TypeOK, IdInv, [Next]_vars
  PROVE  IdInv'
<1>0. nextId \in Nat /\ nextId' \in {nextId, nextId + 1} /\ Ids \subseteq Nat
  BY HistoryGrows, AccountsAssumption DEF TypeOK, Ids
<1>1. AddAccount \/ AddOAuth2Account => nextId' = nextId + 1
  BY DEF AddAccount, AddOAuth2Account, Create
<1>2. \A i \in Ids : /\ row'[i].live => i < nextId'
                     /\ row'[i].oauth2 => row'[i].live
  <2> SUFFICES ASSUME NEW i \in Ids PROVE (row'[i].live => i < nextId') /\ (row'[i].oauth2 => row'[i].live)
    OBVIOUS
  <2> QED BY <1>0, <1>1, RowChange, Idles DEF IdInv, Same, Creates, Deletes, Stores
<1>3. \A j \in Jobs : job'[j].pc # "idle" => job'[j].id < nextId'
  <2>1. CASE job' = job
    <3>1. \A j \in Jobs : job[j].id \in Nat
      BY <1>0 DEF TypeOK, JobType
    <3> QED BY <1>0, <2>1, <3>1 DEF IdInv
  <2>2. CASE Crash
    BY <2>2, Idles DEF Crash
  <2>3. ASSUME NEW j \in Jobs, JobMoves(j) PROVE \A k \in Jobs : job'[k].pc # "idle" => job'[k].id < nextId'
    <3>1. ASSUME NEW i \in Ids, NEW kind \in {"sync", "test"}, StartJob(j, i, kind) PROVE i < nextId
      BY <3>1 DEF StartJob, IdInv
    <3>2. \A k \in Jobs \ {j} : job'[k] = job[k] /\ job[k].id \in Nat
      BY <1>0, <2>3 DEF JobMoves, Ends, Works, Moves, TypeOK, JobType
    <3>3. job'[j].pc # "idle" => job'[j].id < nextId /\ job'[j].id \in Nat
      BY <1>0, <2>3, <3>1, Idles DEF JobMoves, Ends, Works, Moves, TypeOK, JobType, IdInv
    <3> QED BY <1>0, <3>2, <3>3 DEF IdInv
  <2> QED BY <2>1, <2>2, <2>3, JobCases
<1>4. \A i \in Ids, g \in Gens : life'[i][g] # "unissued" => i < nextId'
  <2> SUFFICES ASSUME NEW i \in Ids, NEW g \in Gens, life'[i][g] # "unissued" PROVE i < nextId'
    OBVIOUS
  <2>1. CASE Ages(i)
    BY <1>0, <2>1 DEF Ages, IdInv
  <2>2. CASE Issues(i)
    BY <1>0, <1>1, <2>2 DEF Issues
  <2>3. CASE Replaces(i)
    BY <1>0, <2>3 DEF Replaces, IdInv
  <2> QED BY <2>1, <2>2, <2>3, TokenChange
<1> QED BY <1>2, <1>3, <1>4 DEF IdInv

LEMMA TokenNext ==
  ASSUME TypeOK, IdInv, TokenInv, [Next]_vars
  PROVE  TokenInv'
<1>0. /\ strained \subseteq strained' /\ \A j \in Jobs : job[j].id \in Ids /\ job[j].token \in Gens
      /\ 0 \in Gens /\ \A i \in Ids : i \in Nat /\ nextId \in Nat
  BY HistoryGrows, AccountsAssumption DEF TypeOK, JobType, Ids, Gens
<1>1. \A i \in Ids, g \in Gens : life'[i][g] \in {"fresh", "soon"} => g \in accepted'[i]
  <2> SUFFICES ASSUME NEW i \in Ids, NEW g \in Gens, life'[i][g] \in {"fresh", "soon"} PROVE g \in accepted'[i]
    OBVIOUS
  <2>1. CASE Ages(i)
    BY <2>1 DEF Ages, TokenInv
  <2>2. CASE Issues(i)
    BY <1>0, <2>2 DEF Issues, IdInv
  <2>3. CASE Replaces(i)
    BY <2>3 DEF Replaces, TokenInv
  <2> QED BY <2>1, <2>2, <2>3, TokenChange
<1>2. ASSUME NEW i \in Ids, NEW g \in Gens, life[i][g] # "unissued" PROVE life'[i][g] # "unissued"
  BY <1>2, TokenChange DEF Ages, Issues, Replaces
<1>3. ASSUME NEW k \in Jobs, job'[k].pc = "persist"
      PROVE  /\ life'[job'[k].id][job'[k].token] # "unissued"
             /\ job'[k].token \in accepted'[job'[k].id] \/ job'[k].id \in strained'
  <2>1. CASE job'[k] = job[k]
    <3>1. PICK i \in Ids, t \in Gens : i = job[k].id /\ t = job[k].token /\ life[i][t] # "unissued"
                                       /\ (t \in accepted[i] \/ i \in strained)
      BY <1>0, <1>3, <2>1 DEF TokenInv
    <3>2. CASE Ages(i)
      BY <1>0, <1>2, <2>1, <3>1, <3>2 DEF Ages
    <3>3. CASE Issues(i)
      BY <1>0, <1>3, <2>1, <3>1, <3>3 DEF Issues, IdInv
    <3>4. ASSUME NEW j \in Jobs, Refresh(j), job[j].id = i, job[j].pc = "resolve" PROVE i \in strained'
      <4>1. k # j /\ job[k].pc \in {"resolve", "persist"} /\ job[k].id = i
        BY <1>3, <2>1, <3>1, <3>4
      <4> QED BY <3>4, <4>1 DEF Refresh
    <3> QED BY <1>2, <2>1, <3>1, <3>2, <3>3, <3>4, TokenChange DEF Replaces
  <2>2. CASE KeepToken(k) /\ Moves(k, "persist", job[k].token, job[k].msg)
    <3>1. PICK i \in Ids, t \in Gens : i = job[k].id /\ t = job[k].token /\ life[i][t] = "soon" /\ UNCHANGED <<life, accepted>>
      BY <1>0, <2>2 DEF KeepToken, Token, tokenVars
    <3> QED BY <2>2, <3>1 DEF Moves, TokenInv
  <2>3. ASSUME Refresh(k), NEW g \in Gens, g = Cardinality(Issued(job[k].id)), Moves(k, "persist", g, job[k].msg)
        PROVE  /\ life'[job'[k].id][job'[k].token] # "unissued"
               /\ job'[k].token \in accepted'[job'[k].id] \/ job'[k].id \in strained'
    <3>1. PICK i, f : i \in Ids /\ i = job[k].id /\ f = [life[i] EXCEPT ![g] = "fresh"] /\ life' = [life EXCEPT ![i] = f]
      BY <1>0, <2>3 DEF Refresh
    <3>2. life'[i][g] = "fresh"
      BY <3>1 DEF TypeOK
    <3>3. g \in accepted'[i]
      BY <1>1, <3>1, <3>2
    <3> QED BY <2>3, <3>1, <3>2, <3>3 DEF Moves
  <2>4. ASSUME NEW j \in Jobs, JobMoves(j)
        PROVE  job'[k] = job[k] \/ (KeepToken(k) /\ Moves(k, "persist", job[k].token, job[k].msg))
               \/ (Refresh(k) /\ \E g \in Gens : g = Cardinality(Issued(job[k].id)) /\ Moves(k, "persist", g, job[k].msg))
    BY <1>3, <2>4, Idles DEF JobMoves, Ends, Works, Moves
  <2>5. CASE Crash
    BY <1>3, <2>5, Idles DEF Crash
  <2> QED BY <2>1, <2>2, <2>3, <2>4, <2>5, JobCases
<1>4. ASSUME NEW i \in Ids, row'[i].oauth2
      PROVE  \/ row'[i].token \in accepted'[i] \/ i \in strained'
             \/ \E j \in Jobs : job'[j].pc = "persist" /\ job'[j].id = i
  <2>1. CASE Stores(i)
    <3>1. PICK j \in Jobs : /\ StoreToken(j) /\ job[j].pc = "persist" /\ job[j].id = i /\ row'[i].token = job[j].token
      BY <2>1 DEF Stores
    <3>2. accepted' = accepted
      BY <3>1 DEF StoreToken, tokenVars
    <3> QED BY <1>0, <3>1, <3>2 DEF TokenInv
  <2>2. CASE Creates(i)
    <3>1. AddOAuth2Account /\ i = nextId
      BY <1>4, <2>2 DEF Creates
    <3>2. accepted' = [accepted EXCEPT ![i] = {0}] /\ row'[i].token = 0
      BY <2>2, <3>1 DEF AddOAuth2Account, Creates
    <3> QED BY <3>2 DEF TypeOK
  <2>3. CASE Same(i) /\ ~Stores(i)
    <3>1. row[i].oauth2 /\ row[i].live /\ row'[i].token = row[i].token /\ row[i].token \in Gens
      BY <1>4, <2>3 DEF Same, IdInv, TypeOK, RowType
    <3>2. CASE row[i].token \in accepted[i]
      <4>1. CASE Issues(i)
        BY <1>0, <3>1, <4>1 DEF Issues, IdInv
      <4>2. CASE Ages(i)
        BY <3>1, <3>2, <4>2 DEF Ages
      <4>3. ASSUME NEW j \in Jobs, Refresh(j), job[j].id = i PROVE job'[j].pc = "persist" /\ job'[j].id = i
        <5>1. PICK g : job' = [job EXCEPT ![j].pc = "persist", ![j].token = g]
          BY <4>3 DEF Refresh
        <5> QED BY <1>0, <4>3, <5>1 DEF TypeOK, JobType
      <4> QED BY <4>1, <4>2, <4>3, TokenChange DEF Replaces
    <3>3. CASE i \in strained
      BY <1>0, <3>3
    <3>4. ASSUME NEW j \in Jobs, job[j].pc = "persist", job[j].id = i
          PROVE  i \in strained' \/ (job'[j].pc = "persist" /\ job'[j].id = i)
      <4>1. CASE Crash
        BY <3>4, <4>1 DEF Crash
      <4>2. StoreFails(j) => i \in strained'
        BY <3>4 DEF StoreFails
      <4>3. ~StoreToken(j)
        <5> SUFFICES ASSUME StoreToken(j) PROVE FALSE
          OBVIOUS
        <5>1. row' = [row EXCEPT ![i].token = job[j].token]
          BY <3>1, <3>4 DEF StoreToken, Token
        <5>2. row'[i].token = job[j].token /\ row'[i].live = row[i].live /\ row'[i].oauth2 = row[i].oauth2
          BY <5>1 DEF TypeOK, RowType
        <5> QED BY <2>3, <3>1, <3>4, <5>2 DEF Stores
      <4>4. ASSUME NEW k \in Jobs, JobMoves(k) PROVE i \in strained' \/ job'[j] = job[j]
        BY <3>4, <4>2, <4>3, <4>4 DEF JobMoves, Ends, Works, Moves
      <4> QED BY <3>4, <4>1, <4>4, JobCases
    <3> QED BY <3>1, <3>2, <3>3, <3>4 DEF TokenInv, TokenUsable
  <2> QED BY <1>4, <2>1, <2>2, <2>3, RowChange, Idles DEF Deletes
<1>5. TokenUsable'
  BY <1>4 DEF TokenUsable
<1> QED BY <1>1, <1>3, <1>5 DEF TokenInv
------------------------------------------------------------------------------
(* What an account leaves behind. *)
LEMMA ArchiveChange ==
  ASSUME TypeOK, [Next]_vars
  PROVE  /\ docs' \in [Ids -> SUBSET Messages] /\ emails' \in [Ids -> SUBSET Messages]
         /\ files' \in [Ids -> SUBSET Messages] /\ tree' \in [Ids -> BOOLEAN]
         /\ \A i \in Ids :
              /\ \/ docs'[i] \subseteq docs[i]
                 \/ \E j \in Jobs : IndexEmail(j) /\ job[j].pc = "index" /\ job[j].id = i /\ docs'[i] = docs[i] \cup job[j].msg
                 \/ docs'[i] \subseteq docs[i] \cup reindex.todo[i]
              /\ \/ emails[i] \subseteq emails'[i]
                 \/ \E r \in Requests : DeleteRow(r) /\ request[r].id = i /\ request[r].pc = "docs" /\ ~row'[i].live
              /\ \/ files'[i] \subseteq files[i] /\ (tree'[i] => tree[i])
                 \/ \E j \in Jobs : job[j].pc \in {"layout", "stage"} /\ job[j].id = i
<1>0. /\ docs \in [Ids -> SUBSET Messages] /\ emails \in [Ids -> SUBSET Messages]
      /\ files \in [Ids -> SUBSET Messages] /\ tree \in [Ids -> BOOLEAN]
      /\ \A r \in Requests : request[r].id \in Ids
      /\ \A j \in Jobs : job[j].id \in Ids /\ job[j].msg \subseteq Messages
  BY DEF TypeOK, RequestType, JobType
<1>1. /\ docs' \in [Ids -> SUBSET Messages]
      /\ \A i \in Ids : \/ docs'[i] \subseteq docs[i]
                        \/ \E j \in Jobs : IndexEmail(j) /\ job[j].pc = "index" /\ job[j].id = i /\ docs'[i] = docs[i] \cup job[j].msg
                        \/ docs'[i] \subseteq docs[i] \cup reindex.todo[i]
  <2>1. \/ docs' = docs \/ (\E r \in Requests : DeleteDoc(r)) \/ (\E j \in Jobs : IndexEmail(j))
        \/ StartReindex \/ \E i \in Ids, m \in Messages : IndexOne(i, m)
    BY DEF Next, AddAccount, AddOAuth2Account, Create, Crash, Handle, StartEdit, StartToggle, StartDelete, ToggleReads, WriteRow,
       DeleteFails, Resolve, Archive, StartJob, UseToken, KeepToken, Refresh, RefreshFails, StoreToken, StoreFails,
       UpsertFolder, FinishSync, Age, Reindex, StartReindex, ListAll, ListFails,
       IndexOne, FinishReindex, ReindexStep, RequestStep, JobStep, SyncStep, archiveVars, reindexVars, vars, DeleteRow, DeleteTree, NewLayout, WriteFile, InsertEmail
  <2>2. CASE docs' = docs
    BY <1>0, <2>2
  <2>3. ASSUME NEW r \in Requests, DeleteDoc(r)
        PROVE  docs' \in [Ids -> SUBSET Messages] /\ \A i \in Ids : docs'[i] \subseteq docs[i]
    BY <1>0, <2>3 DEF DeleteDoc
  <2>4. ASSUME NEW j \in Jobs, IndexEmail(j)
        PROVE  /\ docs' \in [Ids -> SUBSET Messages]
               /\ \A i \in Ids : \/ docs'[i] \subseteq docs[i]
                                 \/ job[j].pc = "index" /\ job[j].id = i /\ docs'[i] = docs[i] \cup job[j].msg
    BY <1>0, <2>4 DEF IndexEmail
  <2>5. StartReindex => docs' \in [Ids -> SUBSET Messages] /\ \A i \in Ids : docs'[i] \subseteq docs[i]
    BY DEF StartReindex
  <2>6. ASSUME NEW k \in Ids, NEW m \in Messages, IndexOne(k, m)
        PROVE  /\ docs' \in [Ids -> SUBSET Messages]
               /\ \A i \in Ids : docs'[i] \subseteq docs[i] \cup reindex.todo[i]
    BY <1>0, <2>6 DEF IndexOne
  <2> QED BY <2>1, <2>2, <2>3, <2>4, <2>5, <2>6
<1>2. /\ emails' \in [Ids -> SUBSET Messages]
      /\ \A i \in Ids : \/ emails[i] \subseteq emails'[i]
                        \/ \E r \in Requests : DeleteRow(r) /\ request[r].id = i /\ request[r].pc = "docs" /\ ~row'[i].live
  <2>1. emails' = emails \/ (\E r \in Requests : DeleteRow(r)) \/ (\E j \in Jobs : InsertEmail(j))
    BY DEF Next, AddAccount, AddOAuth2Account, Create, Crash, Handle, StartEdit, StartToggle, StartDelete, ToggleReads, WriteRow,
       DeleteFails, Resolve, Archive, StartJob, UseToken, KeepToken, Refresh, RefreshFails, StoreToken, StoreFails,
       UpsertFolder, FinishSync, Age, Reindex, StartReindex, ListAll, ListFails,
       IndexOne, FinishReindex, ReindexStep, RequestStep, JobStep, SyncStep, archiveVars, reindexVars, vars, DeleteDoc, DeleteTree, NewLayout, WriteFile, IndexEmail
  <2>2. CASE emails' = emails
    BY <1>0, <2>2
  <2>3. ASSUME NEW r \in Requests, DeleteRow(r), emails' # emails
        PROVE  /\ emails' \in [Ids -> SUBSET Messages]
               /\ \A i \in Ids : emails[i] \subseteq emails'[i] \/ (request[r].id = i /\ request[r].pc = "docs" /\ ~row'[i].live)
    <3>1. PICK k \in Ids : k = request[r].id
      BY <1>0
    <3>2. /\ emails' = [emails EXCEPT ![k] = {}] /\ row' = [row EXCEPT ![k] = NoRow] /\ request[r].pc = "docs"
      BY <2>3, <3>1 DEF DeleteRow
    <3>3. ~row'[k].live
      BY <3>2, Idles DEF TypeOK
    <3> QED BY <1>0, <3>1, <3>2, <3>3
  <2>4. ASSUME NEW j \in Jobs, InsertEmail(j)
        PROVE  emails' \in [Ids -> SUBSET Messages] /\ \A i \in Ids : emails[i] \subseteq emails'[i]
    BY <1>0, <2>4 DEF InsertEmail
  <2> QED BY <2>1, <2>2, <2>3, <2>4
<1>3. /\ files' \in [Ids -> SUBSET Messages] /\ tree' \in [Ids -> BOOLEAN]
      /\ \A i \in Ids : \/ files'[i] \subseteq files[i] /\ (tree'[i] => tree[i])
                        \/ \E j \in Jobs : job[j].pc \in {"layout", "stage"} /\ job[j].id = i
  <2>1. \/ (files' = files /\ tree' = tree) \/ (\E r \in Requests : DeleteTree(r))
        \/ (\E j \in Jobs : NewLayout(j) \/ \E m \in Messages : WriteFile(j, m))
    BY DEF Next, AddAccount, AddOAuth2Account, Create, Crash, Handle, StartEdit, StartToggle, StartDelete, ToggleReads, WriteRow,
       DeleteFails, Resolve, Archive, StartJob, UseToken, KeepToken, Refresh, RefreshFails, StoreToken, StoreFails,
       UpsertFolder, FinishSync, Age, Reindex, StartReindex, ListAll, ListFails,
       IndexOne, FinishReindex, ReindexStep, RequestStep, JobStep, SyncStep, archiveVars, reindexVars, vars, DeleteDoc, DeleteRow, InsertEmail, IndexEmail
  <2>2. CASE files' = files /\ tree' = tree
    BY <1>0, <2>2
  <2>3. ASSUME NEW r \in Requests, DeleteTree(r)
        PROVE  /\ files' \in [Ids -> SUBSET Messages] /\ tree' \in [Ids -> BOOLEAN]
               /\ \A i \in Ids : files'[i] \subseteq files[i] /\ (tree'[i] => tree[i])
    BY <1>0, <2>3 DEF DeleteTree
  <2>4. ASSUME NEW j \in Jobs, NewLayout(j)
        PROVE  /\ files' \in [Ids -> SUBSET Messages] /\ tree' \in [Ids -> BOOLEAN]
               /\ \A i \in Ids : (files'[i] \subseteq files[i] /\ (tree'[i] => tree[i])) \/ (job[j].pc \in {"layout", "stage"} /\ job[j].id = i)
    BY <1>0, <2>4 DEF NewLayout
  <2>5. ASSUME NEW j \in Jobs, NEW m \in Messages, WriteFile(j, m)
        PROVE  /\ files' \in [Ids -> SUBSET Messages] /\ tree' \in [Ids -> BOOLEAN]
               /\ \A i \in Ids : (files'[i] \subseteq files[i] /\ (tree'[i] => tree[i])) \/ (job[j].pc \in {"layout", "stage"} /\ job[j].id = i)
    BY <1>0, <2>5 DEF WriteFile
  <2> QED BY <2>1, <2>2, <2>3, <2>4, <2>5
<1> QED BY <1>1, <1>2, <1>3

(* What a reindex has still to index: less, nothing, or all the emails.    *)
LEMMA ReindexChange ==
  ASSUME TypeOK, ReindexInv, [Next]_vars
  PROVE  /\ reindex' \in [pc : {"none", "list", "build"}, todo : [Ids -> SUBSET Messages]]
         /\ reindex'.pc # "build" => \A i \in Ids : reindex'.todo[i] = {}
         /\ \/ ListAll /\ reindex'.todo = emails
            \/ \A i \in Ids : reindex'.todo[i] \subseteq reindex.todo[i]
<1>0. /\ reindex \in [pc : {"none", "list", "build"}, todo : [Ids -> SUBSET Messages]]
      /\ emails \in [Ids -> SUBSET Messages]
  BY DEF TypeOK
<1>1. CASE reindex' = reindex
  BY <1>0, <1>1 DEF ReindexInv
<1>2. CASE \E pc \in {"none", "list"} : reindex' = [NoReindex EXCEPT !.pc = pc]
  <2>1. PICK pc \in {"none", "list"} : reindex' = [NoReindex EXCEPT !.pc = pc]
    BY <1>2
  <2>2. reindex' = [pc |-> pc, todo |-> [i \in Ids |-> {}]]
    BY <2>1 DEF NoReindex
  <2> QED BY <2>2
<1>3. CASE ListAll
  BY <1>0, <1>3 DEF ListAll
<1>4. ASSUME NEW k \in Ids, NEW m \in Messages, IndexOne(k, m)
      PROVE  /\ reindex' \in [pc : {"none", "list", "build"}, todo : [Ids -> SUBSET Messages]]
             /\ reindex'.pc = "build" /\ \A i \in Ids : reindex'.todo[i] \subseteq reindex.todo[i]
  <2>1. reindex.pc = "build" /\ reindex' = [reindex EXCEPT !.todo[k] = @ \ {m}]
    BY <1>4 DEF IndexOne
  <2>2. PICK f : f = [reindex.todo EXCEPT ![k] = @ \ {m}] /\ reindex' = [reindex EXCEPT !.todo = f]
    BY <2>1
  <2>3. f \in [Ids -> SUBSET Messages] /\ \A i \in Ids : f[i] \subseteq reindex.todo[i]
    BY <1>0, <2>2
  <2>4. reindex'.todo = f /\ reindex'.pc = "build"
    BY <1>0, <2>1, <2>2
  <2> QED BY <1>0, <2>2, <2>3, <2>4
<1>5. StartReindex \/ ListFails \/ FinishReindex \/ Crash => \E pc \in {"none", "list"} : reindex' = [NoReindex EXCEPT !.pc = pc]
  <2>1. NoReindex = [NoReindex EXCEPT !.pc = "none"]
    BY DEF NoReindex
  <2> QED BY <2>1 DEF StartReindex, ListFails, FinishReindex, Crash
<1>6. \/ reindex' = reindex \/ StartReindex \/ ListAll \/ ListFails \/ FinishReindex \/ Crash
      \/ \E i \in Ids, m \in Messages : IndexOne(i, m)
  BY DEF Next, AddAccount, AddOAuth2Account, Create, Handle, StartEdit, StartToggle, StartDelete, ToggleReads, WriteRow,
     DeleteDoc, DeleteRow, DeleteTree, DeleteFails, Resolve, Archive, StartJob, UseToken, KeepToken, Refresh, RefreshFails,
     StoreToken, StoreFails, UpsertFolder, NewLayout, WriteFile, InsertEmail, IndexEmail, FinishSync, Age, Reindex, RequestStep, JobStep,
     SyncStep, archiveVars, reindexVars, vars
<1> QED BY <1>1, <1>2, <1>3, <1>4, <1>5, <1>6

LEMMA ReindexNext ==
  ASSUME TypeOK, ReindexInv, [Next]_vars
  PROVE  ReindexInv'
<1>1. ASSUME NEW i \in Ids, ~row'[i].live PROVE emails'[i] = {}
  <2>1. emails' = emails \/ (\E r \in Requests : DeleteRow(r)) \/ (\E j \in Jobs : InsertEmail(j))
    BY DEF Next, AddAccount, AddOAuth2Account, Create, Crash, Handle, StartEdit, StartToggle, StartDelete, ToggleReads, WriteRow,
       DeleteFails, Resolve, Archive, StartJob, UseToken, KeepToken, Refresh, RefreshFails, StoreToken, StoreFails,
       UpsertFolder, FinishSync, Age, Reindex, StartReindex, ListAll, ListFails, IndexOne, FinishReindex, ReindexStep,
       RequestStep, JobStep, SyncStep, archiveVars, reindexVars, vars, DeleteDoc, DeleteTree, NewLayout, WriteFile, IndexEmail
  <2>2. emails \in [Ids -> SUBSET Messages] /\ \A j \in Jobs : job[j].id \in Ids
    BY DEF TypeOK, JobType
  <2>3. ASSUME NEW r \in Requests, DeleteRow(r) PROVE emails'[i] = {}
    <3>1. CASE row[request[r].id].live
      <4>1. emails' = [emails EXCEPT ![request[r].id] = {}] /\ row' = [row EXCEPT ![request[r].id] = NoRow]
        BY <2>3, <3>1 DEF DeleteRow
      <4>2. i # request[r].id => row'[i] = row[i] /\ emails'[i] = emails[i]
        BY <2>2, <4>1 DEF TypeOK
      <4> QED BY <1>1, <2>2, <4>1, <4>2 DEF ReindexInv
    <3>2. CASE ~row[request[r].id].live
      BY <1>1, <2>3, <3>2 DEF DeleteRow, ReindexInv
    <3> QED BY <3>1, <3>2
  <2>4. ASSUME NEW j \in Jobs, InsertEmail(j) PROVE emails'[i] = {}
    <3>1. row' = row /\ (row[job[j].id].live \/ emails' = emails)
      BY <2>4 DEF InsertEmail, SyncStep, JobStep
    <3>2. emails[i] = {} /\ ~row[i].live
      BY <1>1, <3>1 DEF ReindexInv
    <3> QED BY <2>2, <2>4, <3>1, <3>2 DEF InsertEmail
  <2>5. emails' = emails /\ row[i].live => \E r \in Requests : DeleteRow(r)
    BY <1>1, RowChange DEF Same, Creates, Deletes, Stores
  <2> QED BY <1>1, <2>1, <2>3, <2>4, <2>5 DEF ReindexInv
<1> QED BY <1>1, ReindexChange DEF ReindexInv

LEMMA SyncingGrows ==
  ASSUME TypeOK, StageInv, [Next]_vars, NEW i \in Ids
  PROVE  /\ Syncing(i)' => Syncing(i) \/ \E j \in Jobs : StartJob(j, i, "sync")
         /\ Deleting(i)' => Deleting(i) \/ \E r \in Requests : StartDelete(r, i)
<1>1. ASSUME Syncing(i)' PROVE Syncing(i) \/ \E j \in Jobs : StartJob(j, i, "sync")
  <2>1. PICK k \in Jobs : job'[k].pc # "idle" /\ job'[k].kind = "sync" /\ job'[k].id = i
    BY <1>1 DEF Syncing
  <2>2. CASE job'[k] = job[k]
    BY <2>1, <2>2 DEF Syncing
  <2>3. CASE Crash
    BY <2>1, <2>3, Idles DEF Crash
  <2>4. ASSUME NEW j \in Jobs, JobMoves(j)
        PROVE  job'[k] = job[k] \/ Syncing(i) \/ \E l \in Jobs : StartJob(l, i, "sync")
    BY <2>1, <2>4, Idles DEF JobMoves, Ends, Works, Moves, Syncing
  <2> QED BY <2>2, <2>3, <2>4, JobCases
<1>2. ASSUME Deleting(i)' PROVE Deleting(i) \/ \E r \in Requests : StartDelete(r, i)
  <2>1. PICK q \in Requests : request'[q].pc # "idle" /\ request'[q].kind = "delete" /\ request'[q].id = i
    BY <1>2 DEF Deleting
  <2>2. CASE request'[q] = request[q]
    BY <2>1, <2>2 DEF Deleting
  <2>3. CASE Crash
    BY <2>1, <2>3, Idles DEF Crash
  <2>4. ASSUME NEW r \in Requests, RequestMoves(r)
        PROVE  request'[q] = request[q] \/ Deleting(i) \/ \E l \in Requests : StartDelete(l, i)
    BY <2>1, <2>4, Idles DEF RequestMoves, Asks, Keeps, Drops, Deleting
  <2> QED BY <2>2, <2>3, <2>4, RequestCases
<1> QED BY <1>1, <1>2

LEMMA LeftoverNext ==
  ASSUME TypeOK, StageInv, ReindexInv, LeftoverInv, [Next]_vars
  PROVE  LeftoverInv'
<1> SUFFICES ASSUME NEW i \in Ids, Clean(i)'
             PROVE  /\ Unreached(i)'
                    /\ Deleting(i)' \/ ~row'[i].live => ~Syncing(i)'
                    /\ row'[i].live => docs'[i] \subseteq emails'[i]
                    /\ ~row'[i].live =>
                          /\ docs'[i] = {}
                          /\ \/ files'[i] = {} /\ ~tree'[i]
                             \/ \E r \in Requests : request'[r].pc = "tree" /\ request'[r].id = i
                    /\ \A r \in Requests : request'[r].pc = "docs" /\ request'[r].id = i => docs'[i] \subseteq request'[r].todo
                    /\ \A j \in Jobs : job'[j].pc = "index" /\ job'[j].id = i => job'[j].msg \subseteq emails'[i]
  BY DEF LeftoverInv
<1>0. /\ Clean(i) /\ i \notin overtaken' \cup relisted' \cup cut'
      /\ docs \in [Ids -> SUBSET Messages] /\ emails \in [Ids -> SUBSET Messages]
  BY HistoryGrows DEF Clean, TypeOK
<1>1. /\ Deleting(i) \/ ~row[i].live => ~Syncing(i)
      /\ row[i].live => docs[i] \subseteq emails[i]
      /\ ~row[i].live =>
            /\ docs[i] = {}
            /\ \/ files[i] = {} /\ ~tree[i]
               \/ \E r \in Requests : request[r].pc = "tree" /\ request[r].id = i
      /\ \A r \in Requests : request[r].pc = "docs" /\ request[r].id = i => docs[i] \subseteq request[r].todo
      /\ \A j \in Jobs : job[j].pc = "index" /\ job[j].id = i => job[j].msg \subseteq emails[i]
      /\ row[i].live => reindex.todo[i] \subseteq emails[i]
      /\ ~row[i].live => reindex.todo[i] = {}
      /\ \A r \in Requests : request[r].pc = "docs" /\ request[r].id = i => reindex.todo[i] \subseteq request[r].todo
  BY <1>0 DEF LeftoverInv, Unreached
<1>2. \A r \in Requests : request[r].pc \in {"docs", "tree"} /\ request[r].id = i => Deleting(i)
  BY DEF Deleting, StageInv
<1>3. \A j \in Jobs : job[j].pc \in {"folder", "layout", "stage", "insert", "index"} /\ job[j].id = i => Syncing(i)
  BY DEF Syncing, StageInv
<1>4. ASSUME row[i].live, ~row'[i].live
      PROVE  \E r \in Requests : DeleteRow(r) /\ request[r].id = i /\ request[r].pc = "docs" /\ request[r].todo = {}
  <2>1. Deletes(i)
    BY <1>4, RowChange DEF Same, Creates, Stores
  <2> QED BY <2>1 DEF Deletes, DeleteRow
<1>5. Deleting(i)' \/ ~row'[i].live => ~Syncing(i)'
  <2> SUFFICES ASSUME Syncing(i)', Deleting(i)' \/ ~row'[i].live PROVE FALSE
    OBVIOUS
  <2>1. ASSUME NEW j \in Jobs, StartJob(j, i, "sync") PROVE FALSE
    <3>1. row[i].live /\ row' = row /\ request' = request
      BY <2>1 DEF StartJob, JobStep
    <3>2. Deleting(i)
      BY <3>1 DEF Deleting
    <3> QED BY <1>0, <2>1, <3>2 DEF StartJob
  <2>2. CASE Syncing(i)
    <3>1. ~Deleting(i) /\ row[i].live
      BY <1>1, <2>2
    <3>2. ASSUME NEW r \in Requests, StartDelete(r, i) PROVE FALSE
      BY <1>0, <2>2, <3>2 DEF StartDelete
    <3>3. ~row'[i].live
      BY <3>1, <3>2, SyncingGrows
    <3> QED BY <1>2, <1>4, <3>1, <3>3
  <2> QED BY <2>1, <2>2, SyncingGrows
<1>6. ASSUME NEW j \in Jobs, job'[j].pc = "index", job'[j].id = i
      PROVE  job'[j].msg \subseteq emails'[i]
  <2>1. Syncing(i)'
    <3>1. job'[j].kind = "sync"
      BY <1>6, StageNext DEF StageInv
    <3> QED BY <1>6, <3>1 DEF Syncing
  <2>2. row'[i].live
    BY <1>5, <2>1
  <2>3. emails[i] \subseteq emails'[i]
    BY <2>2, ArchiveChange
  <2>4. CASE job'[j] = job[j]
    BY <1>1, <1>6, <2>3, <2>4
  <2>5. CASE InsertEmail(j) /\ Moves(j, "index", job[j].token, job[j].msg)
    <3>1. job[j].id = i /\ job'[j].msg = job[j].msg
      BY <1>6, <2>5 DEF Moves
    <3>2. CASE row[i].live
      BY <1>0, <2>5, <3>1, <3>2 DEF InsertEmail
    <3>3. CASE ~row[i].live
      BY <1>6, <2>5, <3>1, <3>3, JobSteps, Idles DEF InsertEmail, Ends
    <3> QED BY <3>2, <3>3
  <2>6. ASSUME NEW k \in Jobs, JobMoves(k)
        PROVE  job'[j] = job[j] \/ (InsertEmail(j) /\ Moves(j, "index", job[j].token, job[j].msg))
    BY <1>6, <2>6, Idles DEF JobMoves, Ends, Works, Moves
  <2>7. CASE Crash
    BY <1>6, <2>7, Idles DEF Crash
  <2> QED BY <2>4, <2>5, <2>6, <2>7, JobCases
<1>7. row'[i].live => docs'[i] \subseteq emails'[i]
  <2> SUFFICES ASSUME row'[i].live PROVE docs'[i] \subseteq emails'[i]
    OBVIOUS
  <2>1. emails[i] \subseteq emails'[i]
    BY ArchiveChange
  <2>2. docs[i] \subseteq emails[i]
    BY <1>1
  <2> QED BY <1>1, <2>1, <2>2, ArchiveChange
<1>8. Deleting(i) \/ ~row[i].live => docs'[i] \subseteq docs[i] \cup reindex.todo[i] /\ files'[i] \subseteq files[i] /\ (tree'[i] => tree[i])
  BY <1>1, <1>3, ArchiveChange
<1>9. ASSUME ~row'[i].live
      PROVE  /\ docs'[i] = {}
             /\ \/ files'[i] = {} /\ ~tree'[i]
                \/ \E r \in Requests : request'[r].pc = "tree" /\ request'[r].id = i
  <2>1. CASE row[i].live
    <3>1. PICK r \in Requests : DeleteRow(r) /\ request[r].id = i /\ request[r].pc = "docs" /\ request[r].todo = {}
      BY <1>4, <1>9, <2>1
    <3>2. docs'[i] = {}
      BY <1>1, <1>2, <1>8, <3>1
    <3>3. request'[r].pc = "tree" /\ request'[r].id = i
      BY <2>1, <3>1, RequestSteps DEF Keeps
    <3> QED BY <3>2, <3>3
  <2>2. CASE ~row[i].live /\ files[i] = {} /\ ~tree[i]
    BY <1>1, <1>8, <2>2
  <2>3. ASSUME ~row[i].live, NEW r \in Requests, request[r].pc = "tree", request[r].id = i
        PROVE  (files'[i] = {} /\ ~tree'[i]) \/ (request'[r].pc = "tree" /\ request'[r].id = i)
    <3>1. DeleteTree(r) => files'[i] = {} /\ ~tree'[i]
      BY <2>3 DEF DeleteTree, TypeOK
    <3>2. ~DeleteFails(r)
      BY <1>0, <2>3 DEF DeleteFails
    <3>3. ~Crash
      BY <1>0, <1>2, <2>3 DEF Crash
    <3>4. ASSUME NEW q \in Requests, RequestMoves(q) PROVE request'[r] = request[r] \/ DeleteTree(r)
      BY <2>3, <3>2, <3>4 DEF RequestMoves, Asks, Keeps, Drops
    <3> QED BY <2>3, <3>1, <3>3, <3>4, RequestCases
  <2> QED BY <1>1, <1>8, <2>1, <2>2, <2>3
<1>10. ASSUME NEW r \in Requests, request'[r].pc = "docs", request'[r].id = i
       PROVE  docs'[i] \subseteq request'[r].todo
  <2>1. CASE request'[r] = request[r]
    BY <1>1, <1>2, <1>8, <1>10, <2>1
  <2>2. ASSUME StartDelete(r, i), request'[r].todo = emails[i] PROVE docs'[i] \subseteq request'[r].todo
    BY <1>1, <2>2 DEF StartDelete, archiveVars
  <2>3. CASE Drops(r) /\ request[r].pc = "docs" /\ DeleteDoc(r)
    <3>1. request[r].id = i /\ docs[i] \subseteq request[r].todo
      BY <1>1, <1>10, <2>3 DEF Drops, Keeps
    <3>2. PICK m \in request[r].todo : /\ request' = [request EXCEPT ![r].todo = @ \ {m}]
                                       /\ docs' = [docs EXCEPT ![i] = @ \ {m}]
      BY <2>3, <3>1 DEF DeleteDoc
    <3>3. docs'[i] = docs[i] \ {m}
      BY <1>0, <3>2
    <3>4. request'[r].todo = request[r].todo \ {m}
      BY <3>2 DEF TypeOK, RequestType
    <3> QED BY <3>1, <3>3, <3>4
  <2>4. Drops(r) /\ request[r].pc = "docs" => ~DeleteFails(r)
    BY <1>0, <1>10 DEF DeleteFails, Drops, Keeps
  <2>5. ASSUME NEW q \in Requests, RequestMoves(q)
        PROVE  \/ request'[r] = request[r] \/ (StartDelete(r, i) /\ request'[r].todo = emails[i])
               \/ (Drops(r) /\ request[r].pc = "docs" /\ DeleteDoc(r))
    BY <1>10, <2>4, <2>5, Idles DEF RequestMoves, Asks, Keeps, Drops
  <2>6. CASE Crash
    BY <1>10, <2>6, Idles DEF Crash
  <2> QED BY <2>1, <2>2, <2>3, <2>5, <2>6, RequestCases
<1>11. Unreached(i)'
  <2>1. ASSUME row'[i].live PROVE reindex'.todo[i] \subseteq emails'[i]
    <3>1. emails[i] \subseteq emails'[i]
      BY <2>1, ArchiveChange
    <3>2. reindex.todo[i] \subseteq emails[i]
      BY <1>1
    <3> QED BY <3>1, <3>2, ReindexChange
  <2>2. ASSUME ~row'[i].live PROVE reindex'.todo[i] = {}
    <3>1. CASE row[i].live
      <4>1. PICK r \in Requests : DeleteRow(r) /\ request[r].id = i /\ request[r].pc = "docs" /\ request[r].todo = {}
        BY <1>4, <2>2, <3>1
      <4>2. reindex.todo[i] = {} /\ reindex' = reindex
        BY <1>1, <4>1 DEF DeleteRow, reindexVars
      <4> QED BY <4>2
    <3>2. CASE ~row[i].live
      BY <1>1, <3>2, ReindexChange DEF ReindexInv
    <3> QED BY <3>1, <3>2
  <2>3. ASSUME NEW r \in Requests, request'[r].pc = "docs", request'[r].id = i
        PROVE  reindex'.todo[i] \subseteq request'[r].todo
    <3>1. CASE ListAll
      <4>1. request' = request /\ reindex'.todo = emails
        BY <3>1 DEF ListAll, ReindexStep
      <4>2. emails[i] \subseteq request[r].todo
        BY <1>0, <2>3, <3>1, <4>1 DEF ListAll
      <4> QED BY <4>1, <4>2
    <3>2. CASE ~ListAll
      <4>0. reindex'.todo[i] \subseteq reindex.todo[i]
        BY <3>2, ReindexChange
      <4>1. CASE request'[r] = request[r]
        BY <1>1, <2>3, <4>0, <4>1
      <4>2. CASE StartDelete(r, i) /\ request'[r].todo = emails[i]
        BY <1>1, <4>0, <4>2 DEF StartDelete
      <4>3. CASE Drops(r) /\ request[r].pc = "docs" /\ DeleteDoc(r)
        BY <4>0, <4>3 DEF DeleteDoc, ReindexInv
      <4>4. Drops(r) /\ request[r].pc = "docs" => ~DeleteFails(r)
        BY <1>0, <2>3 DEF DeleteFails, Drops, Keeps
      <4>5. ASSUME NEW q \in Requests, RequestMoves(q)
            PROVE  \/ request'[r] = request[r] \/ (StartDelete(r, i) /\ request'[r].todo = emails[i])
                   \/ (Drops(r) /\ request[r].pc = "docs" /\ DeleteDoc(r))
        BY <2>3, <4>4, <4>5, Idles DEF RequestMoves, Asks, Keeps, Drops
      <4>6. ~Crash
        BY <2>3, Idles DEF Crash
      <4> QED BY <4>1, <4>2, <4>3, <4>5, <4>6, RequestCases
    <3> QED BY <3>1, <3>2
  <2> QED BY <2>1, <2>2, <2>3 DEF Unreached
<1> QED BY <1>5, <1>6, <1>7, <1>9, <1>10, <1>11
------------------------------------------------------------------------------
(* Types, and the invariant as a whole. *)
LEMMA TypeNext ==
  ASSUME TypeOK, StageInv, IdInv, TokenInv, ReindexInv, [Next]_vars
  PROVE  TypeOK'
<1>1. row' \in [Ids -> RowType]
  BY RowChange
<1>2. life' \in [Ids -> [Gens -> Lives]] /\ accepted' \in [Ids -> SUBSET Gens]
  BY TokenChange
<1>3. ASSUME NEW i \in Ids, row'[i].oauth2 PROVE life'[i][row'[i].token] # "unissued"
  <2>0. row[i].token \in Gens /\ 0 \in Gens /\ \A j \in Jobs : job[j].token \in Gens
    BY AccountsAssumption DEF TypeOK, RowType, JobType, Gens
  <2>1. \A g \in Gens : life[i][g] # "unissued" => life'[i][g] # "unissued"
    BY TokenChange DEF Ages, Issues, Replaces
  <2>2. CASE Same(i)
    BY <1>3, <2>0, <2>1, <2>2 DEF Same, TypeOK
  <2>3. CASE Creates(i)
    <3>1. AddOAuth2Account /\ i = nextId /\ row'[i].token = 0
      BY <1>3, <2>3 DEF Creates
    <3>2. PICK f : f = [life[i] EXCEPT ![0] = "fresh"] /\ life' = [life EXCEPT ![i] = f]
      BY <3>1 DEF AddOAuth2Account
    <3>3. life'[i][0] = "fresh"
      BY <2>0, <3>2 DEF TypeOK
    <3> QED BY <3>1, <3>3
  <2>4. CASE Stores(i)
    BY <2>0, <2>1, <2>4 DEF Stores, TokenInv
  <2>5. CASE Deletes(i)
    BY <1>3, <2>5, Idles DEF Deletes
  <2> QED BY <2>2, <2>3, <2>4, <2>5, RowChange
<1>4. request' \in [Requests -> RequestType]
  <2>1. Crash => request' \in [Requests -> RequestType]
    BY Idles DEF Crash
  <2> QED BY <2>1, RequestCases DEF RequestMoves, Asks, Keeps, Drops, TypeOK
<1>5. job' \in [Jobs -> JobType]
  <2>1. Crash => job' \in [Jobs -> JobType]
    BY Idles DEF Crash
  <2> QED BY <2>1, JobCases DEF JobMoves, Ends, Works, Moves, TypeOK
<1>6. nextId' \in 1 .. MaxId + 1
  <2>1. nextId' = nextId \/ (nextId' = nextId + 1 /\ nextId <= MaxId)
    BY DEF Next, AddAccount, AddOAuth2Account, Create, Crash, Handle, StartEdit, StartToggle, StartDelete, ToggleReads, WriteRow,
       DeleteDoc, DeleteRow, DeleteTree, DeleteFails, Resolve, Archive, StartJob, UseToken, KeepToken, Refresh, RefreshFails,
       StoreToken, StoreFails, UpsertFolder, NewLayout, WriteFile, InsertEmail, IndexEmail, FinishSync, Age, Reindex, StartReindex, ListAll, ListFails,
       IndexOne, FinishReindex, ReindexStep, RequestStep, JobStep, SyncStep, vars
  <2> QED BY <2>1, AccountsAssumption DEF TypeOK
<1>7. faults' \in 0 .. MaxFaults
  <2>1. faults' = faults \/ (faults' = faults + 1 /\ faults < MaxFaults)
    BY DEF Next, AddAccount, AddOAuth2Account, Create, Crash, Handle, StartEdit, StartToggle, StartDelete, ToggleReads, WriteRow,
       DeleteDoc, DeleteRow, DeleteTree, DeleteFails, Resolve, Archive, StartJob, UseToken, KeepToken, Refresh, RefreshFails,
       StoreToken, StoreFails, UpsertFolder, NewLayout, WriteFile, InsertEmail, IndexEmail, FinishSync, Age, Reindex, StartReindex, ListAll, ListFails,
       IndexOne, FinishReindex, ReindexStep, Fault, RequestStep, SyncStep, vars
  <2> QED BY <2>1, AccountsAssumption DEF TypeOK
<1>8. overtaken' \subseteq Ids
  <2>1. overtaken' = overtaken \/ \E i \in Ids : overtaken' = overtaken \cup {i}
    BY DEF Next, AddAccount, AddOAuth2Account, Create, Crash, Handle, StartEdit, StartToggle, StartDelete, ToggleReads, WriteRow,
       DeleteDoc, DeleteRow, DeleteTree, DeleteFails, Resolve, Archive, StartJob, UseToken, KeepToken, Refresh, RefreshFails,
       StoreToken, StoreFails, UpsertFolder, NewLayout, WriteFile, InsertEmail, IndexEmail, FinishSync, Age, Reindex, StartReindex, ListAll, ListFails,
       IndexOne, FinishReindex, ReindexStep, SyncStep, historyVars, vars
  <2> QED BY <2>1 DEF TypeOK
<1>9. cut' \subseteq Ids
  <2>0. \A r \in Requests : request[r].id \in Ids
    BY DEF TypeOK, RequestType
  <2>1. cut' = cut \/ (\E i \in Ids : cut' = cut \cup {i}) \/ cut' = cut \cup {i \in Ids : Deleting(i)}
    BY <2>0 DEF Next, AddAccount, AddOAuth2Account, Create, Crash, Handle, StartEdit, StartToggle, StartDelete, ToggleReads, WriteRow,
       DeleteDoc, DeleteRow, DeleteTree, DeleteFails, Resolve, Archive, StartJob, UseToken, KeepToken, Refresh, RefreshFails,
       StoreToken, StoreFails, UpsertFolder, NewLayout, WriteFile, InsertEmail, IndexEmail, FinishSync, Age, Reindex, StartReindex, ListAll, ListFails,
       IndexOne, FinishReindex, ReindexStep, SyncStep, historyVars, vars
  <2> QED BY <2>1 DEF TypeOK
<1>10. strained' \subseteq Ids
  <2>0. \A j \in Jobs : job[j].id \in Ids
    BY DEF TypeOK, JobType
  <2>1. \/ strained' = strained \/ (\E i \in Ids : strained' = strained \cup {i})
        \/ strained' = strained \cup {i \in Ids : \E j \in Jobs : job[j].pc = "persist" /\ job[j].id = i}
    BY <2>0 DEF Next, AddAccount, AddOAuth2Account, Create, Crash, Handle, StartEdit, StartToggle, StartDelete, ToggleReads, WriteRow,
       DeleteDoc, DeleteRow, DeleteTree, DeleteFails, Resolve, Archive, StartJob, UseToken, KeepToken, Refresh, RefreshFails,
       StoreToken, StoreFails, UpsertFolder, NewLayout, WriteFile, InsertEmail, IndexEmail, FinishSync, Age, Reindex, StartReindex, ListAll, ListFails,
       IndexOne, FinishReindex, ReindexStep, SyncStep, historyVars, vars
  <2> QED BY <2>1 DEF TypeOK
<1>11. relisted' \subseteq Ids
  <2>1. relisted' = relisted \/ ListAll
    BY DEF Next, AddAccount, AddOAuth2Account, Create, Crash, Handle, StartEdit, StartToggle, StartDelete, ToggleReads, WriteRow,
       DeleteDoc, DeleteRow, DeleteTree, DeleteFails, Resolve, Archive, StartJob, UseToken, KeepToken, Refresh, RefreshFails,
       StoreToken, StoreFails, UpsertFolder, NewLayout, WriteFile, InsertEmail, IndexEmail, FinishSync, Age, Reindex, StartReindex, ListFails,
       IndexOne, FinishReindex, SyncStep, historyVars, vars
  <2>2. \A r \in Requests : request[r].id \in Ids
    BY DEF TypeOK, RequestType
  <2> QED BY <2>1, <2>2 DEF TypeOK, ListAll
<1>12. stale' \subseteq Jobs
  <2>1. \/ stale' = stale \/ StartReindex \/ Crash
        \/ \E j \in Jobs : stale' = stale \ {j}
    BY DEF Next, AddAccount, AddOAuth2Account, Create, Handle, StartEdit, StartToggle, StartDelete, ToggleReads, WriteRow,
       DeleteDoc, DeleteRow, DeleteTree, DeleteFails, Resolve, Archive, StartJob, UseToken, KeepToken, Refresh, RefreshFails,
       StoreToken, StoreFails, UpsertFolder, NewLayout, WriteFile, InsertEmail, IndexEmail, FinishSync, Age, Reindex, ListAll, ListFails,
       IndexOne, FinishReindex, archiveVars, reindexVars, vars
  <2> QED BY <2>1 DEF TypeOK, StartReindex, Crash
<1> QED BY <1>1, <1>2, <1>3, <1>4, <1>5, <1>6, <1>7, <1>8, <1>9, <1>10, <1>11, <1>12, ArchiveChange, ReindexChange DEF TypeOK

LEMMA InitInv ==
  ASSUME Init
  PROVE  AccountsInv
<1>1. /\ \A i \in Ids : row[i] = NoRow /\ files[i] = {} /\ ~tree[i] /\ docs[i] = {} /\ \A g \in Gens : life[i][g] = "unissued"
      /\ \A j \in Jobs : job[j].pc = "idle"
      /\ \A r \in Requests : request[r].pc = "idle" /\ request[r].kind = "edit"
  BY Idles DEF Init
<1>2. TypeOK
  <2>1. row \in [Ids -> RowType] /\ request \in [Requests -> RequestType] /\ job \in [Jobs -> JobType]
    BY Idles DEF Init
  <2>2. life \in [Ids -> [Gens -> Lives]] /\ accepted \in [Ids -> SUBSET Gens]
    BY DEF Init, Lives
  <2>3. nextId \in 1 .. MaxId + 1 /\ faults \in 0 .. MaxFaults
    BY AccountsAssumption DEF Init
  <2>4. \A i \in Ids : ~row[i].oauth2
    BY <1>1, Idles
  <2>5. reindex \in [pc : {"none", "list", "build"}, todo : [Ids -> SUBSET Messages]]
    BY DEF Init, NoReindex
  <2> QED BY <2>1, <2>2, <2>3, <2>4, <2>5 DEF Init, TypeOK
<1>3. StageInv
  BY <1>1 DEF StageInv
<1>4. IdInv /\ TokenInv
  BY <1>1, Idles DEF IdInv, TokenInv, TokenUsable
<1>5. \A i \in Ids : reindex.todo[i] = {} /\ emails[i] = {}
  BY DEF Init, NoReindex
<1>6. ReindexInv /\ LeftoverInv
  BY <1>1, <1>5, Idles DEF ReindexInv, LeftoverInv, Unreached, Syncing
<1> QED BY <1>2, <1>3, <1>4, <1>6 DEF AccountsInv

(* The inductive invariant of the accounts: stages, ids, tokens, what a    *)
(* reindex has still to index and what a deletion has still to remove, in  *)
(* every reachable state.                                                  *)
THEOREM AccountsInvariant == Spec => []AccountsInv
<1>1. ASSUME AccountsInv, [Next]_vars PROVE AccountsInv'
  BY <1>1, TypeNext, StageNext, IdNext, TokenNext, ReindexNext, LeftoverNext DEF AccountsInv
<1> QED BY InitInv, <1>1, PTL DEF Spec

(* Every variable of the accounts keeps its type, and a stored token was   *)
(* issued by the provider.                                                 *)
THEOREM TypeCorrect == Spec => []TypeOK
<1>1. AccountsInv => TypeOK
  BY DEF AccountsInv
<1> QED BY <1>1, AccountsInvariant, PTL

(* The provider takes the refresh token a live account has stored, or a    *)
(* job is about to store one it takes; only two jobs refreshing at once    *)
(* and a result that was not stored cost it, whatever edits, toggles and   *)
(* deletions run beside them.                                              *)
THEOREM TokensStayUsable == Spec => []TokenUsable
<1>1. AccountsInv => TokenUsable
  BY DEF AccountsInv, TokenInv
<1> QED BY <1>1, AccountsInvariant, PTL

(* When no deletion of an account is under way any more and its row is     *)
(* gone, so are its files and its search hits, and no reindex under way    *)
(* brings one back, unless a sync of it was running, a reindex listed its  *)
(* emails in the middle of the deletion, or a step of the deletion failed. *)
THEOREM DeletionLeavesNothing == Spec => []NothingLeftBehind
<1>1. ASSUME AccountsInv PROVE NothingLeftBehind
  <2> SUFFICES ASSUME NEW i \in 1 .. nextId - 1, ~row[i].live, ~Deleting(i), i \notin overtaken \cup relisted \cup cut
               PROVE  files[i] = {} /\ ~tree[i] /\ docs[i] = {} /\ reindex.todo[i] = {}
    BY DEF NothingLeftBehind
  <2>1. i \in Ids /\ Clean(i)
    BY <1>1, AccountsAssumption DEF AccountsInv, TypeOK, Ids, Clean
  <2>2. \A r \in Requests : ~(request[r].pc = "tree" /\ request[r].id = i)
    BY <1>1 DEF AccountsInv, StageInv, Deleting
  <2> QED BY <1>1, <2>1, <2>2 DEF AccountsInv, LeftoverInv, Unreached
<1> QED BY <1>1, AccountsInvariant, PTL
=============================================================================
