------------------------- MODULE MailboxSyncProofs -------------------------
(***************************************************************************)
(* Proofs about MailboxSync, for any folders, messages, jobs and bounds:   *)
(* type correctness; when no two Writers name their files alike,           *)
(* RowsReadable, PurgedIsArchived and the refinement of ArchivePromise;    *)
(* when runs overlap or folders are renumbered, but not both,              *)
(* NothingBelowWatermarkLost; and when runs do not overlap,                *)
(* NoDuplicateRows.                                                        *)
(***************************************************************************)
EXTENDS MailboxSync, TLAPS

(* What a job knows about the message it is on: its UID is the lowest of    *)
(* the batch, and the Writer has named at most one file for each UID passed.*)
BatchOf(j) ==
    /\ job[j].pc \in FolderPcs => job[j].second \in Seconds /\ job[j].validity # 0
    /\ job[j].pc \in MessagePcs =>
          /\ job[j].uid \in Uids
          /\ job[j].batch[job[j].uid] # NoMsg
          /\ \A v \in Uids : v < job[j].uid => job[j].batch[v] = NoMsg
    /\ job[j].pc \in {"commit", "persist"} => job[j].counter \in Uids

CounterOf(j) ==
    /\ job[j].pc = "fetch" => \A u \in Uids : job[j].batch[u] # NoMsg => job[j].counter < u
    /\ job[j].pc \in {"skip", "dup", "stage"} => job[j].counter < job[j].uid
    /\ job[j].pc \in {"commit", "persist", "effect"} => job[j].counter <= job[j].uid

(* \Deleted is a flag of a message that is there. *)
FlaggedPresent == \A f \in Folders : \A u \in flagged[f] : server[f][u] # NoMsg

JobInv == \A j \in Jobs : BatchOf(j) /\ CounterOf(j)

(* Where the files of the jobs and of the rows are, when Writers have names *)
(* of their own.                                                            *)
SecondsApart ==
    \A j, k \in Jobs : job[j].pc \in FolderPcs /\ j # k => job[j].second # job[k].second

NamesUsed ==
    \A e \in emails, j \in Jobs :
        job[j].pc \in FolderPcs /\ e.path[2] = job[j].second =>
            /\ e.path[3] <= job[j].counter
            /\ job[j].pc \in {"commit", "persist"} => e.path[3] < job[j].counter

FilesOf(j) ==
    /\ job[j].pc = "commit" => tmp[PathOf(j)] \in {NoMsg, Held(j)}
    /\ job[j].pc = "persist" => new[PathOf(j)] = Held(j)

FileInv == SecondsApart /\ NamesUsed /\ RowsReadable /\ \A j \in Jobs : FilesOf(j)

(* What a session's batch says of the server, and what the archive holds    *)
(* when a rule's side effect runs.                                          *)
SessionOf(j) ==
    /\ job[j].pc \in FolderPcs /\ job[j].validity = validity[job[j].folder] =>
          \A u \in Uids : job[j].batch[u] # NoMsg =>
              /\ u < uidNext[job[j].folder]
              /\ server[job[j].folder][u] \in {NoMsg, job[j].batch[u]}
    /\ job[j].pc \in FolderPcs => job[j].validity <= validity[job[j].folder]
    /\ job[j].pc \in {"dup", "effect"} => Archived(Held(j))

ServerInv ==
    /\ \A f \in Folders, u \in Uids : u >= uidNext[f] => server[f][u] = NoMsg
    /\ \A j \in Jobs : SessionOf(j)
    /\ \A p \in purged : p.own => Archived(p.msg)
------------------------------------------------------------------------------
LEMMA FirstFolder == (CHOOSE f \in Folders : TRUE) \in Folders
  BY MessagesAssumption

LEMMA BetweenType ==
  ASSUME NEW pc \in {"idle", "list", "pick"}, NEW todo \in SUBSET Folders,
         NEW last \in [Folders -> 0 .. MaxUid]
  PROVE  /\ Between(pc, todo, last) \in JobRecords
         /\ Between(pc, todo, last).pc = pc
         /\ Between(pc, todo, last).pc \notin FolderPcs
  BY FirstFolder, BoundsAssumption
     DEF Between, JobRecords, NoBatch, Actions, FolderPcs, MessagePcs

LEMMA IdleType == Idle \in JobRecords /\ Idle.pc = "idle"
  BY BetweenType, BoundsAssumption DEF Idle

(* The initial state. *)
LEMMA InitInv == Init => TypeOK /\ JobInv /\ FlaggedPresent /\ FileInv /\ ServerInv
<1> SUFFICES ASSUME Init PROVE TypeOK /\ JobInv /\ FlaggedPresent /\ FileInv /\ ServerInv
  OBVIOUS
<1>6. FlaggedPresent
  BY DEF Init, FlaggedPresent
<1>1. \A j \in Jobs : job[j] \in JobRecords /\ job[j].pc = "idle"
  BY IdleType DEF Init
<1>2. TypeOK
  BY <1>1, IdleType, BoundsAssumption DEF Init, TypeOK, NoBatch, NoFiles
<1>3. JobInv
  BY <1>1 DEF JobInv, BatchOf, CounterOf, FolderPcs, MessagePcs
<1>4. FileInv
  BY <1>1 DEF Init, FileInv, SecondsApart, NamesUsed, RowsReadable, FilesOf, FolderPcs, MessagePcs
<1>5. ServerInv
  BY <1>1 DEF Init, ServerInv, SessionOf, NoBatch, FolderPcs, MessagePcs
<1> QED BY <1>2, <1>3, <1>4, <1>5, <1>6
------------------------------------------------------------------------------
(* Type correctness.  JobInv is needed for it: the counter of a Writer stays *)
(* below MaxUid only because it stays behind the UIDs of the batch.          *)
LEMMA TypeStart ==
  ASSUME TypeOK, JobInv, NEW j \in Jobs, StartSync(j) \/ EndSync(j) \/ FolderDone(j)
  PROVE  TypeOK' /\ JobInv'
<1>1. job[j] \in JobRecords /\ job[j].todo \in SUBSET Folders
      /\ job[j].last \in [Folders -> 0 .. MaxUid]
  BY DEF TypeOK, JobRecords
<1>2. \E r \in JobRecords : r.pc \notin FolderPcs /\ job' = [job EXCEPT ![j] = r]
  BY <1>1, BetweenType, IdleType DEF StartSync, EndSync, FolderDone, FolderPcs, MessagePcs
<1>3. TypeOK'
  BY <1>2 DEF TypeOK, StartSync, EndSync, FolderDone, serverVars
<1>4. JobInv'
  BY <1>2 DEF TypeOK, JobInv, BatchOf, CounterOf, FolderPcs, MessagePcs
<1> QED BY <1>3, <1>4

LEMMA TypeUpsert ==
  ASSUME TypeOK, JobInv, NEW j \in Jobs, NEW f \in Folders, Upsert(j, f)
  PROVE  TypeOK' /\ JobInv'
<1> DEFINE last == IF folders[f].uidvalidity = validity[f] THEN folders[f].lastUid ELSE 0
           rest == job[j].todo \ {f}
           pc == IF rest = {} THEN "pick" ELSE "list"
           todo == IF rest = {} THEN Folders ELSE rest
           copy == [job[j].last EXCEPT ![f] = last]
<1>1. last \in 0 .. MaxUid
  BY BoundsAssumption DEF TypeOK
<1>2. /\ job[j] \in JobRecords
      /\ todo \in SUBSET Folders /\ pc \in {"idle", "list", "pick"}
      /\ copy \in [Folders -> 0 .. MaxUid]
  BY <1>1 DEF TypeOK, JobRecords
<1>3. Between(pc, todo, copy) \in JobRecords /\ Between(pc, todo, copy).pc \notin FolderPcs
  BY <1>2, BetweenType
<1>4. /\ job' = [job EXCEPT ![j] = Between(pc, todo, copy)]
      /\ folders' = [folders EXCEPT ![f] = [uidvalidity |-> validity[f], lastUid |-> last,
                                          enabled |-> folders[f].enabled]]
      /\ UNCHANGED <<serverVars, emails, tmp, new, skipped, purged, faults>>
  BY DEF Upsert
<1> HIDE DEF last, rest, pc, todo, copy
<1>5. TypeOK'
  BY <1>1, <1>3, <1>4 DEF TypeOK, serverVars
<1>6. JobInv'
  BY <1>3, <1>4 DEF TypeOK, JobInv, BatchOf, CounterOf, FolderPcs, MessagePcs
<1> QED BY <1>5, <1>6

LEMMA FetchedType ==
  ASSUME TypeOK, NEW f \in Folders, NEW start
  PROVE  Fetched(f, start) \in [Uids -> Messages \cup {NoMsg}]
  BY DEF TypeOK, Fetched

LEMMA WriterSecondsType == WriterSeconds \subseteq Seconds
  BY DEF WriterSeconds

LEMMA TypePick ==
  ASSUME TypeOK, JobInv, NEW j \in Jobs, NEW f \in Folders, NothingNew(j, f) \/ Select(j, f)
  PROVE  TypeOK' /\ JobInv'
<1>1. CASE NothingNew(j, f)
  <2>1. job' = [job EXCEPT ![j] = [job[j] EXCEPT !.todo = job[j].todo \ {f}]] /\ job[j] \in JobRecords /\ job[j].pc = "pick"
    BY <1>1 DEF NothingNew, TypeOK
  <2>2. job' \in [Jobs -> JobRecords]
    BY <2>1 DEF TypeOK, JobRecords
  <2>3. TypeOK'
    BY <1>1, <2>2 DEF TypeOK, NothingNew, serverVars
  <2>4. JobInv'
    BY <2>1, <2>2 DEF TypeOK, JobInv, BatchOf, CounterOf, FolderPcs, MessagePcs, JobRecords
  <2> QED BY <2>3, <2>4
<1>2. CASE Select(j, f)
  <2>1. PICK s \in WriterSeconds : job' = [job EXCEPT ![j] = InFolder(j, f, s)]
    BY <1>2 DEF Select
  <2>2. job[j] \in JobRecords /\ s \in Seconds /\ validity[f] \in 1 .. MaxValidity
    BY <2>1, WriterSecondsType DEF TypeOK
  <2>3. InFolder(j, f, s) \in JobRecords
    BY <2>2, FetchedType, BoundsAssumption
       DEF InFolder, JobRecords, FolderPcs, Actions
  <2>4. TypeOK'
    BY <1>2, <2>1, <2>3 DEF TypeOK, Select, serverVars
  <2>5. /\ InFolder(j, f, s).pc = "fetch" /\ InFolder(j, f, s).second \in Seconds
        /\ InFolder(j, f, s).validity # 0 /\ InFolder(j, f, s).counter = 0
    BY <2>2 DEF InFolder
  <2>6. JobInv'
    BY <2>1, <2>5 DEF TypeOK, JobInv, BatchOf, CounterOf, FolderPcs, MessagePcs, Uids
  <2> QED BY <2>4, <2>6
<1> QED BY <1>1, <1>2
(* A job that goes to Idle, whatever it was doing. *)
LEMMA TypeToIdle ==
  ASSUME job \in [Jobs -> JobRecords], JobInv, NEW j \in Jobs, job' = [job EXCEPT ![j] = Idle]
  PROVE  job' \in [Jobs -> JobRecords] /\ JobInv'
  BY IdleType DEF JobInv, BatchOf, CounterOf, FolderPcs, MessagePcs

(* A job that has dealt with its message. *)
LEMMA TypeNextMessage ==
  ASSUME job \in [Jobs -> JobRecords], JobInv, NEW j \in Jobs,
         job[j].pc \in MessagePcs, NextMessage(j)
  PROVE  job' \in [Jobs -> JobRecords] /\ JobInv'
<1>1. job[j] \in JobRecords /\ BatchOf(j) /\ CounterOf(j)
  BY DEF JobInv
<1>2. /\ job[j].uid \in Uids /\ job[j].uid \in 0 .. MaxUid
      /\ \A v \in Uids : v < job[j].uid => job[j].batch[v] = NoMsg
      /\ job[j].counter \in Nat /\ job[j].counter <= job[j].uid
  BY <1>1, BoundsAssumption DEF BatchOf, CounterOf, MessagePcs, JobRecords, Uids
<1>3. /\ Passed(j) \in JobRecords
      /\ Passed(j).pc = "fetch" /\ Passed(j).counter = job[j].counter
      /\ Passed(j).batch = [job[j].batch EXCEPT ![job[j].uid] = NoMsg]
      /\ Passed(j).validity = job[j].validity /\ Passed(j).second = job[j].second
  <2> DEFINE last == [job[j].last EXCEPT ![job[j].folder] = job[j].uid]
             batch == [job[j].batch EXCEPT ![job[j].uid] = NoMsg]
  <2>1. last \in [Folders -> 0 .. MaxUid]
    BY <1>1, <1>2 DEF JobRecords
  <2>2. batch \in [Uids -> Messages \cup {NoMsg}]
    BY <1>1 DEF JobRecords
  <2>3. 0 \in 0 .. MaxUid /\ "archive" \in Actions /\ "fetch" \in FolderPcs
    BY BoundsAssumption DEF Actions, FolderPcs
  <2>4. Passed(j) = [job[j] EXCEPT !.pc = "fetch", !.uid = 0, !.rule = "archive",
                                   !.last = last, !.batch = batch]
    BY DEF Passed
  <2> HIDE DEF last, batch
  <2>5. /\ Passed(j) \in JobRecords /\ Passed(j).batch = batch
        /\ Passed(j).pc = "fetch" /\ Passed(j).counter = job[j].counter
        /\ Passed(j).validity = job[j].validity /\ Passed(j).second = job[j].second
    BY <1>1, <2>1, <2>2, <2>3, <2>4 DEF JobRecords
  <2> QED BY <2>5 DEF batch
<1>4. job'[j] = Passed(j) /\ \A k \in Jobs \ {j} : job'[k] = job[k]
  BY DEF NextMessage
<1>5. job' \in [Jobs -> JobRecords]
  BY <1>3 DEF NextMessage
<1>6. BatchOf(j)' /\ CounterOf(j)'
  <2>1. \A u \in Uids : Passed(j).batch[u] # NoMsg => job[j].counter < u
    <3> TAKE u \in Uids
    <3>1. HAVE Passed(j).batch[u] # NoMsg
    <3>2. u # job[j].uid /\ job[j].batch[u] # NoMsg
      BY <1>1, <1>2, <1>3, <3>1 DEF JobRecords
    <3>3. ~(u < job[j].uid)
      BY <1>2, <3>2
    <3> QED BY <1>2, <3>2, <3>3, BoundsAssumption DEF Uids
  <2> QED BY <2>1, <1>1, <1>3, <1>4 DEF BatchOf, CounterOf, FolderPcs, MessagePcs
<1>7. \A k \in Jobs \ {j} : BatchOf(k)' /\ CounterOf(k)'
  BY <1>4 DEF JobInv, BatchOf, CounterOf
<1> QED BY <1>5, <1>6, <1>7 DEF JobInv

LEMMA TypeExamine ==
  ASSUME TypeOK, JobInv, NEW j \in Jobs, Examine(j)
  PROVE  TypeOK' /\ JobInv'
<1>1. PICK u \in Uids, rule \in Actions :
        /\ job[j].batch[u] # NoMsg
        /\ \A v \in Uids : v < u => job[j].batch[v] = NoMsg
        /\ job' = [job EXCEPT ![j] = [job[j] EXCEPT !.uid = u, !.rule = rule,
                    !.pc = IF rule = "skip" THEN "skip"
                           ELSE IF IsDuplicate(job[j].batch[u]) THEN "dup" ELSE "stage"]]
  BY DEF Examine
<1>2. job[j] \in JobRecords /\ job[j].pc = "fetch" /\ BatchOf(j) /\ CounterOf(j)
      /\ u \in 0 .. MaxUid
  BY BoundsAssumption DEF TypeOK, JobInv, Examine, Uids
<1>3. \A k \in Jobs \ {j} : job'[k] = job[k]
  BY <1>1
<1>4. /\ job'[j].pc \in {"skip", "dup", "stage"} /\ job'[j].uid = u
      /\ job'[j].batch = job[j].batch /\ job'[j].counter = job[j].counter
      /\ job'[j].second = job[j].second /\ job'[j].validity = job[j].validity
  BY <1>1, <1>2 DEF TypeOK, JobRecords
<1>5. job' \in [Jobs -> JobRecords]
  BY <1>1, <1>2 DEF TypeOK, JobRecords, FolderPcs, MessagePcs
<1>6. BatchOf(j)' /\ CounterOf(j)'
  BY <1>1, <1>2, <1>4 DEF BatchOf, CounterOf, FolderPcs, MessagePcs
<1>7. \A k \in Jobs \ {j} : BatchOf(k)' /\ CounterOf(k)'
  BY <1>3 DEF JobInv, BatchOf, CounterOf
<1>8. TypeOK'
  BY <1>5 DEF TypeOK, Examine, serverVars
<1> QED BY <1>6, <1>7, <1>8 DEF JobInv

(* A job that moves on with its message. *)
LEMMA TypeMoved ==
  ASSUME job \in [Jobs -> JobRecords], JobInv, NEW j \in Jobs, NEW r \in JobRecords,
         job[j].pc \in MessagePcs, r.pc \in {"commit", "persist", "effect"},
         r.uid = job[j].uid, r.batch = job[j].batch, r.second = job[j].second,
         r.validity = job[j].validity, r.counter <= job[j].uid,
         r.pc \in {"commit", "persist"} => r.counter \in Uids,
         job' = [job EXCEPT ![j] = r]
  PROVE  job' \in [Jobs -> JobRecords] /\ JobInv'
<1>1. BatchOf(j) /\ job'[j] = r /\ \A k \in Jobs \ {j} : job'[k] = job[k]
  BY DEF JobInv
<1>2. BatchOf(j)' /\ CounterOf(j)'
  BY <1>1 DEF BatchOf, CounterOf, FolderPcs, MessagePcs
<1>3. \A k \in Jobs \ {j} : BatchOf(k)' /\ CounterOf(k)'
  BY <1>1 DEF JobInv, BatchOf, CounterOf
<1> QED BY <1>2, <1>3 DEF JobInv

(* Step alone: the counter stays behind the UID. *)
LEMMA TypeStep ==
  ASSUME job \in [Jobs -> JobRecords], JobInv, NEW j \in Jobs, NEW pc,
         \/ job[j].pc = "commit" /\ pc = "persist"
         \/ job[j].pc \in {"dup", "persist"} /\ pc = "effect",
         Step(j, pc)
  PROVE  job' \in [Jobs -> JobRecords] /\ JobInv'
<1> DEFINE r == [job[j] EXCEPT !.pc = pc]
<1>1. job[j] \in JobRecords /\ BatchOf(j) /\ CounterOf(j)
  BY DEF JobInv
<1>2. job[j].counter <= job[j].uid
  BY <1>1, BoundsAssumption DEF CounterOf, BatchOf, JobRecords, MessagePcs, Uids
<1>3. /\ r \in JobRecords /\ r.pc = pc
      /\ r.uid = job[j].uid /\ r.batch = job[j].batch /\ r.second = job[j].second
      /\ r.validity = job[j].validity /\ r.counter = job[j].counter
  BY <1>1 DEF JobRecords, FolderPcs, MessagePcs
<1>4. pc \in {"persist"} => r.counter \in Uids
  BY <1>1, <1>3 DEF BatchOf
<1>5. job' = [job EXCEPT ![j] = r]
  BY DEF Step
<1> HIDE DEF r
<1> QED BY <1>2, <1>3, <1>4, <1>5, TypeMoved DEF MessagePcs

LEMMA AdvanceType ==
  ASSUME TypeOK, NEW f \in Folders, NEW u \in Uids, Advance(f, u)
  PROVE  folders' \in [Folders -> [uidvalidity : 0 .. MaxValidity, lastUid : 0 .. MaxUid,
                                   enabled : BOOLEAN]]
<1>1. folders[f] \in [uidvalidity : 0 .. MaxValidity, lastUid : 0 .. MaxUid, enabled : BOOLEAN]
  BY DEF TypeOK
<1>2. [folders[f] EXCEPT !.lastUid = u] \in
        [uidvalidity : 0 .. MaxValidity, lastUid : 0 .. MaxUid, enabled : BOOLEAN]
  BY <1>1, BoundsAssumption DEF Uids
<1> QED BY <1>2 DEF TypeOK, Advance

LEMMA OnMessage ==
  ASSUME TypeOK, JobInv, NEW j \in Jobs, job[j].pc \in MessagePcs
  PROVE  /\ job[j] \in JobRecords /\ job[j].folder \in Folders
         /\ job[j].uid \in Uids /\ Held(j) \in Messages
         /\ job[j].validity \in 1 .. MaxValidity /\ job[j].second \in Seconds
         /\ job[j].counter \in 0 .. MaxUid
  BY BoundsAssumption
     DEF TypeOK, JobInv, BatchOf, JobRecords, FolderPcs, Held

LEMMA TypeSkip ==
  ASSUME TypeOK, JobInv, NEW j \in Jobs, SkipByRule(j) \/ SkipDuplicate(j)
  PROVE  TypeOK' /\ JobInv'
<1>1. job[j].pc \in MessagePcs
  BY DEF SkipByRule, SkipDuplicate, MessagePcs
<1>2. job' \in [Jobs -> JobRecords] /\ JobInv'
  BY <1>1, TypeNextMessage, TypeStep DEF TypeOK, SkipByRule, SkipDuplicate
<1>3. folders' \in [Folders -> [uidvalidity : 0 .. MaxValidity, lastUid : 0 .. MaxUid,
                                enabled : BOOLEAN]]
  BY <1>1, OnMessage, AdvanceType DEF SkipByRule, SkipDuplicate
<1>4. skipped' \subseteq [folder : Folders, validity : 1 .. MaxValidity, uid : Uids]
  BY <1>1, OnMessage DEF TypeOK, SkipByRule, SkipDuplicate
<1> QED BY <1>2, <1>3, <1>4 DEF TypeOK, SkipByRule, SkipDuplicate, serverVars

LEMMA TypeStage ==
  ASSUME TypeOK, JobInv, NEW j \in Jobs, Stage(j)
  PROVE  TypeOK' /\ JobInv'
<1> DEFINE p == <<Directory[job[j].folder], job[j].second, job[j].counter + 1>>
           r == [job[j] EXCEPT !.pc = "commit", !.counter = job[j].counter + 1]
<1>1. job[j].pc = "stage" /\ job[j].pc \in MessagePcs
  BY DEF Stage, MessagePcs
<1>2. CounterOf(j) /\ BatchOf(j)
  BY DEF JobInv
<1>3. job[j].counter + 1 \in Uids /\ job[j].counter + 1 <= job[j].uid
  BY <1>1, <1>2, OnMessage, BoundsAssumption DEF CounterOf, Uids
<1>4. /\ r \in JobRecords /\ r.pc = "commit" /\ r.counter = job[j].counter + 1
      /\ r.uid = job[j].uid /\ r.batch = job[j].batch /\ r.second = job[j].second
      /\ r.validity = job[j].validity
  <2>1. job[j].counter + 1 \in 0 .. MaxUid /\ "commit" \in FolderPcs
    BY <1>3, BoundsAssumption DEF FolderPcs, MessagePcs, Uids
  <2>2. job[j] \in JobRecords
    BY <1>1, OnMessage
  <2> QED BY <2>1, <2>2 DEF JobRecords
<1>5. CASE tmp[p] = NoMsg
  <2>1. job' = [job EXCEPT ![j] = r] /\ tmp' = [tmp EXCEPT ![p] = Held(j)]
    BY <1>5 DEF Stage
  <2>2. job' \in [Jobs -> JobRecords] /\ JobInv'
    <3> HIDE DEF r
    <3> QED BY <2>1, <1>1, <1>3, <1>4, TypeMoved DEF TypeOK
  <2>3. tmp' \in [Paths -> Messages \cup {NoMsg}]
    BY <2>1, <1>1, OnMessage DEF TypeOK
  <2> QED BY <2>2, <2>3 DEF TypeOK, Stage, serverVars
<1>6. CASE tmp[p] # NoMsg
  <2>1. job' = [job EXCEPT ![j] = Idle] /\ tmp' = tmp
    BY <1>6 DEF Stage
  <2> QED BY <2>1, TypeToIdle DEF TypeOK, Stage, serverVars
<1> QED BY <1>5, <1>6

LEMMA PathType ==
  ASSUME TypeOK, JobInv, NEW j \in Jobs, job[j].pc \in {"commit", "persist"}
  PROVE  PathOf(j) \in Paths
<1>1. job[j].pc \in MessagePcs /\ job[j].counter \in Uids
  BY DEF JobInv, BatchOf, MessagePcs
<1> QED BY <1>1, OnMessage DEF PathOf, Paths

LEMMA TypeCommit ==
  ASSUME TypeOK, JobInv, NEW j \in Jobs, Commit(j)
  PROVE  TypeOK' /\ JobInv'
<1>1. job[j].pc = "commit" /\ PathOf(j) \in Paths
  BY PathType DEF Commit
<1>2. CASE tmp[PathOf(j)] # NoMsg
  <2>1. job' \in [Jobs -> JobRecords] /\ JobInv'
    BY <1>1, <1>2, TypeStep DEF TypeOK, Commit
  <2>2. /\ tmp' \in [Paths -> Messages \cup {NoMsg}]
        /\ new' \in [Paths -> Messages \cup {NoMsg}]
    BY <1>1, <1>2 DEF TypeOK, Commit
  <2> QED BY <2>1, <2>2 DEF TypeOK, Commit, serverVars
<1>3. CASE tmp[PathOf(j)] = NoMsg
  BY <1>3, TypeToIdle DEF TypeOK, Commit, serverVars
<1> QED BY <1>2, <1>3

LEMMA TypePersist ==
  ASSUME TypeOK, JobInv, NEW j \in Jobs,
         Persist(j) \/ PersistConflict(j) \/ PersistUnreported(j)
  PROVE  TypeOK' /\ JobInv'
<1>1. job[j].pc = "persist" /\ job[j].pc \in MessagePcs /\ PathOf(j) \in Paths
  BY PathType DEF Persist, PersistConflict, PersistUnreported, MessagePcs
<1>2. CASE PersistConflict(j)
  BY <1>2, TypeToIdle DEF TypeOK, PersistConflict, serverVars
<1>3. CASE Persist(j) \/ PersistUnreported(j)
  <2>1. InsertRow(j)
    BY <1>3 DEF Persist, PersistUnreported
  <2>2. emails' \subseteq [folder : Folders, uid : Uids, msg : Messages, path : Paths]
    BY <1>1, <2>1, OnMessage DEF TypeOK, InsertRow
  <2>3. folders' \in [Folders -> [uidvalidity : 0 .. MaxValidity, lastUid : 0 .. MaxUid,
                                  enabled : BOOLEAN]]
    BY <1>1, <2>1, OnMessage, AdvanceType DEF InsertRow
  <2>4. job' \in [Jobs -> JobRecords] /\ JobInv'
    BY <1>1, <1>3, TypeStep, TypeToIdle DEF TypeOK, Persist, PersistUnreported
  <2>5. faults' \in 0 .. MaxFaults
    BY <1>3, BoundsAssumption DEF TypeOK, Persist, PersistUnreported, Fault
  <2> QED BY <1>3, <2>2, <2>3, <2>4, <2>5 DEF TypeOK, Persist, PersistUnreported, serverVars
<1> QED BY <1>2, <1>3
LEMMA RemoveType ==
  ASSUME TypeOK, NEW f \in Folders, NEW gone, Remove(f, gone)
  PROVE  /\ server' \in [Folders -> [Uids -> Messages \cup {NoMsg}]]
         /\ flagged' \in [Folders -> SUBSET Uids]
         /\ UNCHANGED <<uidNext, validity>>
  BY DEF TypeOK, Remove

LEMMA TypeRuleEffect ==
  ASSUME TypeOK, JobInv, FlaggedPresent, NEW j \in Jobs, RuleEffect(j)
  PROVE  TypeOK' /\ JobInv'
<1> DEFINE f == job[j].folder
           u == job[j].uid
           live == /\ job[j].rule = "archive_and_delete" /\ job[j].validity = validity[f]
                   /\ server[f][u] # NoMsg
           gone == IF UidPlus THEN {u} ELSE flagged[f] \cup {u}
<1>1. job[j].pc \in MessagePcs /\ f \in Folders /\ u \in Uids
  BY OnMessage DEF RuleEffect, MessagePcs
<1>2. job' \in [Jobs -> JobRecords] /\ JobInv'
  BY <1>1, TypeNextMessage DEF TypeOK, RuleEffect
<1>3. CASE live
  <2>1. /\ Remove(f, gone)
        /\ purged' = purged \cup {[msg |-> server[f][v], own |-> v = u] : v \in gone}
    BY <1>3 DEF RuleEffect
  <2>2. \A v \in gone : v \in Uids /\ server[f][v] \in Messages
    BY <1>1, <1>3 DEF TypeOK, FlaggedPresent
  <2>3. purged' \subseteq [msg : Messages, own : BOOLEAN]
    <3>1. \A v \in gone : [msg |-> server[f][v], own |-> v = u] \in [msg : Messages, own : BOOLEAN]
      BY <2>2
    <3>2. purged \subseteq [msg : Messages, own : BOOLEAN]
      BY DEF TypeOK
    <3> HIDE DEF f, u, gone
    <3> QED BY <2>1, <3>1, <3>2
  <2>4. UNCHANGED <<folders, emails, tmp, new, skipped, faults>>
    BY DEF RuleEffect
  <2> HIDE DEF f, u, gone
  <2>5. /\ server' \in [Folders -> [Uids -> Messages \cup {NoMsg}]]
        /\ flagged' \in [Folders -> SUBSET Uids]
        /\ UNCHANGED <<uidNext, validity>>
    BY <1>1, <2>1, RemoveType
  <2> QED BY <1>2, <2>3, <2>4, <2>5 DEF TypeOK
<1>4. CASE ~live
  BY <1>2, <1>4 DEF TypeOK, RuleEffect, serverVars
<1> QED BY <1>3, <1>4

LEMMA TypeFailure ==
  ASSUME TypeOK, JobInv, NEW j \in Jobs, RuleEffectFails(j) \/ FailSync(j)
  PROVE  TypeOK' /\ JobInv'
<1>1. faults' \in 0 .. MaxFaults
  BY BoundsAssumption DEF TypeOK, RuleEffectFails, FailSync, Fault
<1>2. CASE RuleEffectFails(j)
  <2>1. job[j].pc \in MessagePcs
    BY <1>2 DEF RuleEffectFails, MessagePcs
  <2>2. job' \in [Jobs -> JobRecords] /\ JobInv'
    BY <1>2, <2>1, TypeNextMessage DEF TypeOK, RuleEffectFails
  <2>3. flagged' \in [Folders -> SUBSET Uids]
    <3>1. job[j].folder \in Folders /\ job[j].uid \in Uids
      BY <2>1, OnMessage
    <3>2. \/ UNCHANGED flagged
          \/ flagged' = [flagged EXCEPT ![job[j].folder] =
                           flagged[job[j].folder] \cup {job[j].uid}]
      BY <1>2 DEF RuleEffectFails
    <3>3. flagged \in [Folders -> SUBSET Uids]
      BY DEF TypeOK
    <3> QED BY <3>1, <3>2, <3>3
  <2> QED BY <1>1, <1>2, <2>2, <2>3 DEF TypeOK, RuleEffectFails
<1>3. CASE FailSync(j)
  <2>1. tmp' \in [Paths -> Messages \cup {NoMsg}]
    BY <1>3, PathType DEF TypeOK, FailSync
  <2>2. job' \in [Jobs -> JobRecords] /\ JobInv'
    BY <1>3, TypeToIdle DEF TypeOK, FailSync
  <2> QED BY <1>1, <1>3, <2>1, <2>2 DEF TypeOK, FailSync, serverVars
<1> QED BY <1>2, <1>3

LEMMA TypeEnvironment ==
  ASSUME TypeOK, JobInv, Environment
  PROVE  TypeOK' /\ JobInv'
<1>1. CASE CrashAndRestart
  <2>1. job' \in [Jobs -> JobRecords] /\ JobInv'
    BY <1>1, IdleType
       DEF CrashAndRestart, JobInv, BatchOf, CounterOf, FolderPcs, MessagePcs
  <2>2. faults' \in 0 .. MaxFaults
    BY <1>1, BoundsAssumption DEF TypeOK, CrashAndRestart, Fault
  <2> QED BY <1>1, <2>1, <2>2 DEF TypeOK, CrashAndRestart, NoFiles, serverVars
<1>2. CASE SweepByCommand
  <2>1. faults' \in 0 .. MaxFaults
    BY <1>2, BoundsAssumption DEF TypeOK, SweepByCommand, Fault
  <2> QED BY <1>2, <2>1
          DEF TypeOK, JobInv, BatchOf, CounterOf, SweepByCommand, NoFiles, serverVars
<1>3. ASSUME NEW f \in Folders, CreateManualFolder(f) PROVE TypeOK' /\ JobInv'
  <2>1. [folders[f] EXCEPT !.enabled = FALSE] \in
          [uidvalidity : 0 .. MaxValidity, lastUid : 0 .. MaxUid, enabled : BOOLEAN]
    BY DEF TypeOK
  <2>2. TypeOK'
    BY <1>3, <2>1 DEF TypeOK, CreateManualFolder, serverVars
  <2>3. JobInv'
    BY <1>3 DEF JobInv, BatchOf, CounterOf, CreateManualFolder
  <2> QED BY <2>2, <2>3
<1>4. ASSUME NEW f \in Folders, Recreate(f) PROVE TypeOK' /\ JobInv'
  <2>1. faults' \in 0 .. MaxFaults
    BY <1>4, BoundsAssumption DEF TypeOK, Recreate, Fault
  <2> QED BY <1>4, <2>1, BoundsAssumption
          DEF TypeOK, JobInv, BatchOf, CounterOf, Recreate, NoBatch
<1>5. ASSUME NEW f \in Folders, ExpungeByOther(f) PROVE TypeOK' /\ JobInv'
  BY <1>5, RemoveType DEF TypeOK, JobInv, BatchOf, CounterOf, ExpungeByOther
<1>6. ASSUME NEW f \in Folders, NEW m \in Messages, Deliver(f, m) PROVE TypeOK' /\ JobInv'
  BY <1>6, BoundsAssumption DEF TypeOK, JobInv, BatchOf, CounterOf, Deliver, Uids
<1>7. ASSUME NEW f \in Folders, NEW u \in Uids, FlagByOther(f, u) PROVE TypeOK' /\ JobInv'
  <2>1. faults' \in 0 .. MaxFaults
    BY <1>7, BoundsAssumption DEF TypeOK, FlagByOther, Fault
  <2> QED BY <1>7, <2>1 DEF TypeOK, JobInv, BatchOf, CounterOf, FlagByOther
<1> QED BY <1>1, <1>2, <1>3, <1>4, <1>5, <1>6, <1>7 DEF Environment

LEMMA FlaggedNext ==
  ASSUME TypeOK, JobInv, FlaggedPresent, [Next]_vars
  PROVE  FlaggedPresent'
<1>1. ASSUME UNCHANGED <<server, flagged>> PROVE FlaggedPresent'
  BY <1>1 DEF FlaggedPresent
<1>2. CASE Environment
  <2>1. CASE CrashAndRestart \/ SweepByCommand
    BY <2>1, <1>1 DEF CrashAndRestart, SweepByCommand, serverVars
  <2>2. ASSUME NEW f \in Folders, CreateManualFolder(f) PROVE FlaggedPresent'
    BY <2>2, <1>1 DEF CreateManualFolder, serverVars
  <2>3. ASSUME NEW f \in Folders, Recreate(f) PROVE FlaggedPresent'
    BY <2>3 DEF TypeOK, FlaggedPresent, Recreate
  <2>4. ASSUME NEW f \in Folders, ExpungeByOther(f) PROVE FlaggedPresent'
    BY <2>4 DEF TypeOK, FlaggedPresent, ExpungeByOther, Remove
  <2>5. ASSUME NEW f \in Folders, NEW m \in Messages, Deliver(f, m) PROVE FlaggedPresent'
    BY <2>5, MessagesAssumption DEF TypeOK, FlaggedPresent, Deliver
  <2>6. ASSUME NEW f \in Folders, NEW u \in Uids, FlagByOther(f, u) PROVE FlaggedPresent'
    BY <2>6 DEF TypeOK, FlaggedPresent, FlagByOther
  <2> QED BY <1>2, <2>1, <2>2, <2>3, <2>4, <2>5, <2>6 DEF Environment
<1>3. ASSUME NEW j \in Jobs, RuleEffect(j) PROVE FlaggedPresent'
  <2>1. job[j].folder \in Folders /\ job[j].uid \in Uids
    BY <1>3, OnMessage DEF RuleEffect, MessagePcs
  <2>2. ASSUME NEW gone, Remove(job[j].folder, gone) PROVE FlaggedPresent'
    BY <2>1, <2>2 DEF TypeOK, FlaggedPresent, Remove
  <2> QED BY <1>3, <1>1, <2>2 DEF RuleEffect, serverVars
<1>4. ASSUME NEW j \in Jobs, RuleEffectFails(j) PROVE FlaggedPresent'
  <2>1. job[j].folder \in Folders /\ job[j].uid \in Uids
    BY <1>4, OnMessage DEF RuleEffectFails, MessagePcs
  <2>2. CASE UNCHANGED flagged
    BY <1>4, <1>1, <2>2 DEF RuleEffectFails
  <2>3. CASE /\ server[job[j].folder][job[j].uid] # NoMsg
             /\ flagged' = [flagged EXCEPT ![job[j].folder] =
                              flagged[job[j].folder] \cup {job[j].uid}]
    BY <1>4, <2>1, <2>3 DEF TypeOK, FlaggedPresent, RuleEffectFails
  <2> QED BY <1>4, <2>2, <2>3 DEF RuleEffectFails
<1>5. ASSUME NEW j \in Jobs, Work(j), ~RuleEffect(j) PROVE UNCHANGED <<server, flagged>>
  BY <1>5 DEF Work, StartSync, EndSync, FolderDone, Examine, Upsert, NothingNew, Select,
              SkipByRule, SkipDuplicate, Stage, Commit, Persist, PersistConflict, serverVars
<1>6. ASSUME NEW j \in Jobs, Failure(j), ~RuleEffectFails(j)
      PROVE  UNCHANGED <<server, flagged>>
  BY <1>6 DEF Failure, PersistUnreported, FailSync, serverVars
<1>7. CASE UNCHANGED vars
  BY <1>7, <1>1 DEF vars, serverVars
<1> QED BY <1>1, <1>2, <1>3, <1>4, <1>5, <1>6, <1>7 DEF Next

LEMMA TypeNext ==
  ASSUME TypeOK, JobInv, FlaggedPresent, [Next]_vars
  PROVE  TypeOK' /\ JobInv' /\ FlaggedPresent'
<1>1. ASSUME Environment PROVE TypeOK' /\ JobInv'
  BY <1>1, TypeEnvironment
<1>2. ASSUME NEW j \in Jobs, Work(j) PROVE TypeOK' /\ JobInv'
  <2>1. ASSUME NEW f \in Folders, Upsert(j, f) \/ NothingNew(j, f) \/ Select(j, f)
        PROVE  TypeOK' /\ JobInv'
    BY <2>1, TypeUpsert, TypePick
  <2>2. ASSUME StartSync(j) \/ EndSync(j) \/ FolderDone(j) PROVE TypeOK' /\ JobInv'
    BY <2>2, TypeStart
  <2>3. ASSUME Examine(j) PROVE TypeOK' /\ JobInv'
    BY <2>3, TypeExamine
  <2>4. ASSUME SkipByRule(j) \/ SkipDuplicate(j) PROVE TypeOK' /\ JobInv'
    BY <2>4, TypeSkip
  <2>5. ASSUME Stage(j) PROVE TypeOK' /\ JobInv'
    BY <2>5, TypeStage
  <2>6. ASSUME Commit(j) PROVE TypeOK' /\ JobInv'
    BY <2>6, TypeCommit
  <2>7. ASSUME Persist(j) \/ PersistConflict(j) PROVE TypeOK' /\ JobInv'
    BY <2>7, TypePersist
  <2>8. ASSUME RuleEffect(j) PROVE TypeOK' /\ JobInv'
    BY <2>8, TypeRuleEffect
  <2> QED BY <1>2, <2>1, <2>2, <2>3, <2>4, <2>5, <2>6, <2>7, <2>8 DEF Work
<1>3. ASSUME NEW j \in Jobs, Failure(j) PROVE TypeOK' /\ JobInv'
  <2>1. ASSUME PersistUnreported(j) PROVE TypeOK' /\ JobInv'
    BY <2>1, TypePersist
  <2>2. ASSUME RuleEffectFails(j) \/ FailSync(j) PROVE TypeOK' /\ JobInv'
    BY <2>2, TypeFailure
  <2> QED BY <1>3, <2>1, <2>2 DEF Failure
<1>4. ASSUME UNCHANGED vars PROVE TypeOK' /\ JobInv'
  BY <1>4 DEF vars, serverVars, TypeOK, JobInv, BatchOf, CounterOf
<1>5. TypeOK' /\ JobInv'
  BY <1>1, <1>2, <1>3, <1>4 DEF Next
<1> QED BY <1>5, FlaggedNext

(* Every state of the synchronisation is well typed: in particular last_uid *)
(* never passes what the server can have assigned, and no Writer names more *)
(* files than its batch has messages.                                       *)
THEOREM TypeCorrect == Spec => []TypeOK
<1>1. Init => TypeOK /\ JobInv /\ FlaggedPresent
  BY InitInv
<1>2. TypeOK /\ JobInv /\ FlaggedPresent /\ [Next]_vars
        => TypeOK' /\ JobInv' /\ FlaggedPresent'
  BY TypeNext
<1> QED BY <1>1, <1>2, PTL DEF Spec
------------------------------------------------------------------------------
(* What the files of the archive are.  Kept(k) is what nearly every step does *)
(* to a job as far as names go: it keeps its Writer, or has none any more.    *)
Kept(k) ==
    \/ job'[k] = job[k]
    \/ job'[k].pc \notin FolderPcs /\ job'[k].second \in {0, job[k].second}
    \/ /\ job[k].pc \in FolderPcs /\ job'[k].pc \in FolderPcs \ {"commit", "persist"}
       /\ job'[k].second = job[k].second /\ job'[k].counter = job[k].counter

LEMMA SecondsPositive ==
  ASSUME TypeOK, JobInv, NEW j \in Jobs, job[j].pc \in FolderPcs
  PROVE  job[j].second # 0
  BY BoundsAssumption DEF JobInv, BatchOf

LEMMA FilesKept ==
  ASSUME TypeOK, JobInv, FileInv, \A k \in Jobs : Kept(k), UNCHANGED <<emails, new>>,
         \A p \in Paths : tmp'[p] \in {NoMsg, tmp[p]}
  PROVE  FileInv'
<1>1. SecondsApart'
  BY SecondsPositive DEF FileInv, SecondsApart, Kept
<1>2. NamesUsed'
  BY DEF FileInv, NamesUsed, Kept
<1>3. RowsReadable'
  BY DEF FileInv, RowsReadable
<1>4. ASSUME NEW j \in Jobs PROVE FilesOf(j)'
  <2>1. CASE job'[j] = job[j]
    <3>1. PathOf(j)' = PathOf(j) /\ Held(j)' = Held(j)
      BY <2>1 DEF PathOf, Held
    <3>2. job[j].pc = "commit" => PathOf(j) \in Paths
      BY PathType
    <3> QED BY <2>1, <3>1, <3>2 DEF FileInv, FilesOf
  <2>2. CASE job'[j].pc \notin {"commit", "persist"}
    BY <2>2 DEF FilesOf
  <2> QED BY <2>1, <2>2 DEF Kept, FolderPcs, MessagePcs
<1> QED BY <1>1, <1>2, <1>3, <1>4 DEF FileInv

LEMMA KeptToIdle ==
  ASSUME NEW j \in Jobs, job \in [Jobs -> JobRecords], job' = [job EXCEPT ![j] = Idle]
  PROVE  \A k \in Jobs : Kept(k)
  BY IdleType DEF Kept, Idle, Between, FolderPcs, MessagePcs

LEMMA KeptNextMessage ==
  ASSUME NEW j \in Jobs, job \in [Jobs -> JobRecords], job[j].pc \in MessagePcs, NextMessage(j)
  PROVE  \A k \in Jobs : Kept(k)
<1>1. /\ Passed(j).pc = "fetch" /\ Passed(j).second = job[j].second
      /\ Passed(j).counter = job[j].counter
  BY DEF Passed, JobRecords
<1> QED BY <1>1 DEF Kept, NextMessage, FolderPcs

LEMMA FileListing ==
  ASSUME TypeOK, JobInv, FileInv, NEW j \in Jobs, NEW f \in Folders,
         StartSync(j) \/ EndSync(j) \/ FolderDone(j) \/ Upsert(j, f) \/ NothingNew(j, f)
  PROVE  FileInv'
<1>1. CASE NothingNew(j, f)
  <2>1. job[j] \in JobRecords
    BY DEF TypeOK
  <2>2. \A k \in Jobs : Kept(k)
    BY <1>1, <2>1 DEF TypeOK, NothingNew, Kept, JobRecords, FolderPcs, MessagePcs
  <2> QED BY <1>1, <2>2, FilesKept DEF NothingNew
<1>2. CASE StartSync(j) \/ EndSync(j) \/ FolderDone(j) \/ Upsert(j, f)
  <2>1. \E r : /\ r.pc \in {"idle", "list", "pick"} /\ r.second = 0
               /\ job' = [job EXCEPT ![j] = r]
    BY <1>2 DEF StartSync, EndSync, FolderDone, Upsert, Idle, Between
  <2>2. \A k \in Jobs : Kept(k)
    BY <2>1 DEF TypeOK, Kept, FolderPcs, MessagePcs
  <2>3. UNCHANGED <<emails, new, tmp>>
    BY <1>2 DEF StartSync, EndSync, FolderDone, Upsert
  <2> QED BY <2>2, <2>3, FilesKept
<1> QED BY <1>1, <1>2

LEMMA FileExamine ==
  ASSUME TypeOK, JobInv, FileInv, NEW j \in Jobs,
         Examine(j) \/ SkipByRule(j) \/ SkipDuplicate(j) \/ RuleEffect(j) \/ RuleEffectFails(j)
  PROVE  FileInv'
<1>1. job[j] \in JobRecords /\ job \in [Jobs -> JobRecords]
  BY DEF TypeOK
<1>2. CASE Examine(j) \/ SkipDuplicate(j)
  <2>1. PICK r : /\ r.pc \in {"skip", "dup", "stage", "effect"} /\ r.second = job[j].second
                 /\ r.counter = job[j].counter /\ job' = [job EXCEPT ![j] = r]
    <3>1. CASE Examine(j)
      BY <1>1, <3>1 DEF Examine, JobRecords
    <3>2. CASE SkipDuplicate(j)
      BY <1>1, <3>2 DEF SkipDuplicate, Step, JobRecords
    <3> QED BY <1>2, <3>1, <3>2
  <2>2. job[j].pc \in FolderPcs
    BY <1>2 DEF Examine, SkipDuplicate, FolderPcs, MessagePcs
  <2>3. \A k \in Jobs : Kept(k)
    BY <1>1, <2>1, <2>2 DEF Kept, FolderPcs, MessagePcs
  <2> QED BY <1>2, <2>3, FilesKept DEF Examine, SkipDuplicate
<1>3. CASE SkipByRule(j) \/ RuleEffect(j) \/ RuleEffectFails(j)
  <2>1. job[j].pc \in MessagePcs /\ NextMessage(j) /\ UNCHANGED <<emails, new, tmp>>
    BY <1>3 DEF SkipByRule, RuleEffect, RuleEffectFails, MessagePcs
  <2> QED BY <1>1, <2>1, KeptNextMessage, FilesKept
<1> QED BY <1>2, <1>3

LEMMA FileSelect ==
  ASSUME DistinctSeconds, TypeOK, JobInv, FileInv, NEW j \in Jobs, NEW f \in Folders,
         Select(j, f)
  PROVE  FileInv'
<1>1. PICK s \in WriterSeconds : job' = [job EXCEPT ![j] = InFolder(j, f, s)]
  BY DEF Select
<1>2. /\ \A e \in emails : e.path[2] # s
      /\ \A k \in Jobs : job[k].second # s
  BY <1>1 DEF WriterSeconds
<1>3. /\ job'[j].pc = "fetch" /\ job'[j].second = s
      /\ \A k \in Jobs \ {j} : job'[k] = job[k]
  BY <1>1 DEF TypeOK, InFolder
<1>4. UNCHANGED <<emails, new, tmp>>
  BY DEF Select
<1>5. SecondsApart'
  BY <1>2, <1>3 DEF FileInv, SecondsApart
<1>6. NamesUsed'
  BY <1>2, <1>3, <1>4 DEF FileInv, NamesUsed
<1>7. RowsReadable'
  BY <1>4 DEF FileInv, RowsReadable
<1>8. \A k \in Jobs : FilesOf(k)'
  BY <1>3, <1>4 DEF FileInv, FilesOf, PathOf, Held
<1> QED BY <1>5, <1>6, <1>7, <1>8 DEF FileInv

LEMMA FileStage ==
  ASSUME TypeOK, JobInv, FileInv, NEW j \in Jobs, Stage(j)
  PROVE  FileInv'
<1> DEFINE p == <<Directory[job[j].folder], job[j].second, job[j].counter + 1>>
           r == [job[j] EXCEPT !.pc = "commit", !.counter = job[j].counter + 1]
<1>1. /\ job[j].pc = "stage" /\ job[j].pc \in MessagePcs /\ job[j].pc \in FolderPcs
      /\ job[j] \in JobRecords /\ job \in [Jobs -> JobRecords] /\ UNCHANGED <<emails, new>>
  BY DEF Stage, TypeOK, MessagePcs, FolderPcs
<1>2. CASE tmp[p] # NoMsg
  <2>1. job' = [job EXCEPT ![j] = Idle] /\ UNCHANGED tmp
    BY <1>2 DEF Stage
  <2> QED BY <1>1, <2>1, KeptToIdle, FilesKept
<1>3. CASE tmp[p] = NoMsg
  <2>1. job' = [job EXCEPT ![j] = r] /\ tmp' = [tmp EXCEPT ![p] = Held(j)]
    BY <1>3 DEF Stage
  <2>2. /\ r.pc = "commit" /\ r.second = job[j].second /\ r.counter = job[j].counter + 1
        /\ r.folder = job[j].folder /\ r.uid = job[j].uid /\ r.batch = job[j].batch
        /\ job[j].counter \in Nat
    BY <1>1, BoundsAssumption DEF JobRecords
  <2> HIDE DEF r
  <2>3. job'[j] = r /\ \A k \in Jobs \ {j} : job'[k] = job[k]
    BY <1>1, <2>1
  <2>4. SecondsApart'
    BY <1>1, <2>2, <2>3 DEF FileInv, SecondsApart
  <2>5. NamesUsed'
    <3>1. \A e \in emails : e.path[3] \in Nat
      BY DEF TypeOK, Paths, Uids
    <3> QED BY <1>1, <2>2, <2>3, <3>1 DEF FileInv, NamesUsed
  <2>6. RowsReadable'
    BY <1>1 DEF FileInv, RowsReadable
  <2>7. FilesOf(j)'
    <3>1. PathOf(j)' = p /\ Held(j)' = Held(j)
      BY <2>2, <2>3 DEF PathOf, Held
    <3>2. tmp'[p] = Held(j) \/ tmp'[p] = tmp[p]
      BY <2>1 DEF TypeOK
    <3> QED BY <1>3, <2>2, <2>3, <3>1, <3>2 DEF FilesOf
  <2>8. ASSUME NEW k \in Jobs \ {j} PROVE FilesOf(k)'
    <3>1. PathOf(k)' = PathOf(k) /\ Held(k)' = Held(k)
      BY <2>3 DEF PathOf, Held
    <3>2. PathOf(k) # p
      BY <1>1 DEF FileInv, SecondsApart, PathOf
    <3>3. job[k].pc = "commit" => PathOf(k) \in Paths
      BY PathType
    <3>4. job[k].pc = "commit" => tmp'[PathOf(k)] = tmp[PathOf(k)]
      BY <2>1, <3>2, <3>3 DEF TypeOK
    <3> QED BY <1>1, <2>3, <3>1, <3>4 DEF FileInv, FilesOf
  <2> QED BY <2>4, <2>5, <2>6, <2>7, <2>8 DEF FileInv
<1> QED BY <1>2, <1>3

LEMMA FileCommit ==
  ASSUME TypeOK, JobInv, FileInv, NEW j \in Jobs, Commit(j)
  PROVE  FileInv'
<1>1. /\ job[j].pc = "commit" /\ job[j].pc \in MessagePcs /\ job[j].pc \in FolderPcs
      /\ job[j] \in JobRecords /\ job \in [Jobs -> JobRecords] /\ UNCHANGED emails
      /\ PathOf(j) \in Paths
  BY PathType DEF Commit, TypeOK, MessagePcs, FolderPcs
<1>2. CASE tmp[PathOf(j)] = NoMsg
  <2>1. job' = [job EXCEPT ![j] = Idle] /\ UNCHANGED <<tmp, new>>
    BY <1>2 DEF Commit
  <2> QED BY <1>1, <2>1, KeptToIdle, FilesKept
<1>3. CASE tmp[PathOf(j)] # NoMsg
  <2>1. /\ Step(j, "persist")
        /\ new' = [new EXCEPT ![PathOf(j)] = tmp[PathOf(j)]]
        /\ tmp' = [tmp EXCEPT ![PathOf(j)] = NoMsg]
    BY <1>3 DEF Commit
  <2>2. /\ job'[j].pc = "persist" /\ job'[j].second = job[j].second
        /\ job'[j].counter = job[j].counter /\ job'[j].folder = job[j].folder
        /\ job'[j].uid = job[j].uid /\ job'[j].batch = job[j].batch
        /\ \A k \in Jobs \ {j} : job'[k] = job[k]
    BY <1>1, <2>1 DEF Step, JobRecords
  <2>3. SecondsApart'
    BY <1>1, <2>2 DEF FileInv, SecondsApart
  <2>4. NamesUsed'
    BY <1>1, <2>2 DEF FileInv, NamesUsed
  <2>5. \A e \in emails : e.path # PathOf(j)
    <3> SUFFICES ASSUME NEW e \in emails, e.path = PathOf(j) PROVE FALSE
      OBVIOUS
    <3>1. e.path[2] = job[j].second /\ e.path[3] = job[j].counter
      BY DEF PathOf
    <3>2. job[j].counter \in Nat /\ e.path[3] < job[j].counter
      BY <1>1, <3>1, BoundsAssumption DEF FileInv, NamesUsed, JobRecords
    <3> QED BY <3>1, <3>2
  <2>6. RowsReadable'
    BY <1>1, <2>1, <2>5 DEF TypeOK, FileInv, RowsReadable
  <2>7. FilesOf(j)'
    <3>1. PathOf(j)' = PathOf(j) /\ Held(j)' = Held(j)
      BY <2>2 DEF PathOf, Held
    <3>2. tmp[PathOf(j)] = Held(j)
      BY <1>1, <1>3 DEF FileInv, FilesOf
    <3> QED BY <1>1, <2>1, <2>2, <3>1, <3>2 DEF TypeOK, FilesOf
  <2>8. ASSUME NEW k \in Jobs \ {j} PROVE FilesOf(k)'
    <3>1. PathOf(k)' = PathOf(k) /\ Held(k)' = Held(k)
      BY <2>2 DEF PathOf, Held
    <3>2. PathOf(k) # PathOf(j)
      BY <1>1 DEF FileInv, SecondsApart, PathOf
    <3>3. job[k].pc \in {"commit", "persist"} => PathOf(k) \in Paths
      BY PathType
    <3>4. job[k].pc \in {"commit", "persist"} =>
            tmp'[PathOf(k)] = tmp[PathOf(k)] /\ new'[PathOf(k)] = new[PathOf(k)]
      BY <2>1, <3>2, <3>3 DEF TypeOK
    <3> QED BY <2>2, <3>1, <3>4 DEF FileInv, FilesOf
  <2> QED BY <2>3, <2>4, <2>6, <2>7, <2>8 DEF FileInv
<1> QED BY <1>2, <1>3

LEMMA FilePersist ==
  ASSUME TypeOK, JobInv, FileInv, NEW j \in Jobs, Persist(j) \/ PersistUnreported(j)
  PROVE  FileInv'
<1> DEFINE row == [folder |-> job[j].folder, uid |-> job[j].uid, msg |-> Held(j),
                   path |-> PathOf(j)]
<1>1. /\ job[j].pc = "persist" /\ job[j].pc \in FolderPcs /\ job[j] \in JobRecords
      /\ emails' = emails \cup {row} /\ UNCHANGED <<tmp, new>>
      /\ job[j].counter \in Nat /\ job[j].second # 0
  BY SecondsPositive, BoundsAssumption
     DEF Persist, PersistUnreported, InsertRow, TypeOK, MessagePcs, FolderPcs, JobRecords
<1>2. /\ \A k \in Jobs \ {j} : job'[k] = job[k]
      /\ \/ job'[j].pc = "idle" /\ job'[j].second = 0
         \/ /\ job'[j].pc = "effect" /\ job'[j].second = job[j].second
            /\ job'[j].counter = job[j].counter
  BY <1>1 DEF Persist, PersistUnreported, Step, TypeOK, JobRecords, Idle, Between
<1>3. row.path = PathOf(j) /\ row.msg = Held(j)
      /\ PathOf(j)[2] = job[j].second /\ PathOf(j)[3] = job[j].counter
  BY DEF PathOf
<1> HIDE DEF row
<1>4. SecondsApart'
  BY <1>1, <1>2, SecondsPositive DEF FileInv, SecondsApart, FolderPcs, MessagePcs
<1>5. NamesUsed'
  <2> SUFFICES ASSUME NEW e \in emails', NEW k \in Jobs,
                      job'[k].pc \in FolderPcs, e.path[2] = job'[k].second
               PROVE  /\ e.path[3] <= job'[k].counter
                      /\ job'[k].pc \in {"commit", "persist"} => e.path[3] < job'[k].counter
    BY DEF NamesUsed
  <2>1. CASE e \in emails
    BY <1>1, <1>2, <2>1 DEF FileInv, NamesUsed, FolderPcs, MessagePcs
  <2>2. CASE e = row
    <3>1. k = j
      BY <1>1, <1>2, <1>3, <2>2 DEF FileInv, SecondsApart
    <3> QED BY <1>1, <1>2, <1>3, <2>2, <3>1 DEF FolderPcs, MessagePcs
  <2> QED BY <1>1, <2>1, <2>2
<1>6. RowsReadable'
  BY <1>1, <1>3 DEF FileInv, RowsReadable, FilesOf
<1>7. \A k \in Jobs : FilesOf(k)'
  BY <1>1, <1>2 DEF FileInv, FilesOf, PathOf, Held
<1> QED BY <1>4, <1>5, <1>6, <1>7 DEF FileInv

LEMMA FileEnvironment ==
  ASSUME TypeOK, JobInv, FileInv, Environment
  PROVE  FileInv'
<1>1. UNCHANGED <<emails, new>> /\ (UNCHANGED job \/ job' = [j \in Jobs |-> Idle])
  BY DEF Environment, CrashAndRestart, SweepByCommand, CreateManualFolder, Recreate,
         ExpungeByOther, Deliver, FlagByOther
<1>2. tmp' = tmp \/ tmp' = NoFiles
  BY DEF Environment, CrashAndRestart, SweepByCommand, CreateManualFolder, Recreate,
         ExpungeByOther, Deliver, FlagByOther
<1>3. \A k \in Jobs : Kept(k)
  BY <1>1, IdleType DEF Kept, Idle, Between, FolderPcs, MessagePcs
<1> QED BY <1>1, <1>2, <1>3, FilesKept DEF NoFiles

LEMMA FileFailure ==
  ASSUME TypeOK, JobInv, FileInv, NEW j \in Jobs, PersistConflict(j) \/ FailSync(j)
  PROVE  FileInv'
<1>1. /\ job' = [job EXCEPT ![j] = Idle] /\ UNCHANGED <<emails, new>>
      /\ \A p \in Paths : tmp'[p] \in {NoMsg, tmp[p]}
  BY DEF PersistConflict, FailSync, TypeOK
<1> QED BY <1>1, KeptToIdle, FilesKept DEF TypeOK

LEMMA FileNext ==
  ASSUME DistinctSeconds, TypeOK, JobInv, FileInv, [Next]_vars
  PROVE  FileInv'
<1>1. ASSUME NEW j \in Jobs, Work(j) PROVE FileInv'
  <2>1. ASSUME NEW f \in Folders, Upsert(j, f) \/ NothingNew(j, f) \/ Select(j, f)
        PROVE  FileInv'
    BY <2>1, FileListing, FileSelect
  <2>2. CASE StartSync(j) \/ EndSync(j) \/ FolderDone(j)
    BY <2>2, FileListing, FirstFolder
  <2>3. CASE Examine(j) \/ SkipByRule(j) \/ SkipDuplicate(j) \/ RuleEffect(j)
    BY <2>3, FileExamine
  <2>4. CASE Stage(j)
    BY <2>4, FileStage
  <2>5. CASE Commit(j)
    BY <2>5, FileCommit
  <2>6. CASE Persist(j)
    BY <2>6, FilePersist
  <2>7. CASE PersistConflict(j)
    BY <2>7, FileFailure
  <2> QED BY <1>1, <2>1, <2>2, <2>3, <2>4, <2>5, <2>6, <2>7 DEF Work
<1>2. ASSUME NEW j \in Jobs, Failure(j) PROVE FileInv'
  <2>1. CASE PersistUnreported(j)
    BY <2>1, FilePersist
  <2>2. CASE RuleEffectFails(j)
    BY <2>2, FileExamine
  <2>3. CASE FailSync(j)
    BY <2>3, FileFailure
  <2> QED BY <1>2, <2>1, <2>2, <2>3 DEF Failure
<1>3. CASE Environment
  BY <1>3, FileEnvironment
<1>4. CASE UNCHANGED vars
  <2>1. UNCHANGED <<emails, new, tmp, job>>
    BY <1>4 DEF vars
  <2> QED BY <2>1, FilesKept DEF Kept
<1> QED BY <1>1, <1>2, <1>3, <1>4 DEF Next

(* Every row of the archive leads to a file that is there and holds that    *)
(* email, whatever jobs overlap, fail, crash or lose staged files to a      *)
(* sweep, provided no two Writers name their files alike.                   *)
THEOREM RowsAlwaysReadable ==
  ASSUME DistinctSeconds
  PROVE  Spec => []RowsReadable
<1>1. Init => TypeOK /\ JobInv /\ FlaggedPresent /\ FileInv
  BY InitInv
<1>2. TypeOK /\ JobInv /\ FlaggedPresent /\ FileInv /\ [Next]_vars
        => TypeOK' /\ JobInv' /\ FlaggedPresent' /\ FileInv'
  BY TypeNext, FileNext
<1>3. FileInv => RowsReadable
  BY DEF FileInv
<1> QED BY <1>1, <1>2, <1>3, PTL DEF Spec
------------------------------------------------------------------------------
(* What the archive holds of the messages of the server. *)
LEMMA ArchivedGrows ==
  ASSUME emails \subseteq emails', NEW m, Archived(m)
  PROVE  Archived(m)'
  BY DEF Archived, Covers

LEMMA SameSession ==
  ASSUME NEW k \in Jobs, SessionOf(k), job'[k] = job[k], emails \subseteq emails',
         UNCHANGED <<server, uidNext, validity>>
  PROVE  SessionOf(k)'
<1>1. Held(k)' = Held(k)
  BY DEF Held
<1> QED BY <1>1, ArchivedGrows DEF SessionOf

(* A job that stays on the batch it has, or on what is left of it. *)
LEMMA SessionMoved ==
  ASSUME NEW k \in Jobs, SessionOf(k), emails \subseteq emails',
         UNCHANGED <<server, uidNext, validity>>,
         job[k].pc \in FolderPcs,
         job'[k].folder = job[k].folder, job'[k].validity = job[k].validity,
         \A u \in Uids : job'[k].batch[u] \in {NoMsg, job[k].batch[u]},
         job'[k].pc \in {"dup", "effect"} => Archived(Held(k))'
  PROVE  SessionOf(k)'
  BY DEF SessionOf

LEMMA SessionNone ==
  ASSUME NEW k \in Jobs, job'[k].pc \notin FolderPcs
  PROVE  SessionOf(k)'
  BY DEF SessionOf, FolderPcs, MessagePcs

(* The server side of a step in which the server does not change. *)
LEMMA ServerKept ==
  ASSUME ServerInv, UNCHANGED <<server, uidNext, purged>>, emails \subseteq emails',
         \A k \in Jobs : SessionOf(k)'
  PROVE  ServerInv'
  BY ArchivedGrows DEF ServerInv

LEMMA ServerListing ==
  ASSUME TypeOK, JobInv, ServerInv, NEW j \in Jobs, NEW f \in Folders,
         \/ StartSync(j) \/ EndSync(j) \/ FolderDone(j) \/ Upsert(j, f) \/ NothingNew(j, f)
         \/ PersistConflict(j) \/ FailSync(j)
  PROVE  ServerInv'
<1>1. UNCHANGED <<server, uidNext, validity, purged, emails>>
  BY DEF StartSync, EndSync, FolderDone, Upsert, NothingNew, PersistConflict, FailSync,
         serverVars
<1>2. job'[j].pc \notin FolderPcs /\ \A k \in Jobs \ {j} : job'[k] = job[k]
  <2>1. CASE NothingNew(j, f)
    BY <2>1 DEF TypeOK, NothingNew, JobRecords, FolderPcs, MessagePcs
  <2>2. CASE ~NothingNew(j, f)
    <3>1. CASE StartSync(j)
      BY <3>1 DEF TypeOK, StartSync, Between, FolderPcs, MessagePcs
    <3>2. CASE FolderDone(j)
      BY <3>2 DEF TypeOK, FolderDone, Between, FolderPcs, MessagePcs
    <3>3. CASE EndSync(j) \/ PersistConflict(j) \/ FailSync(j)
      BY <3>3, IdleType DEF TypeOK, EndSync, PersistConflict, FailSync, FolderPcs, MessagePcs
    <3>4. CASE Upsert(j, f)
      BY <3>4 DEF TypeOK, Upsert, Between, FolderPcs, MessagePcs
    <3> QED BY <2>2, <3>1, <3>2, <3>3, <3>4
  <2> QED BY <2>1, <2>2
<1>3. \A k \in Jobs : SessionOf(k)'
  BY <1>1, <1>2, SessionNone, SameSession DEF ServerInv
<1> QED BY <1>1, <1>3, ServerKept

LEMMA ServerSelect ==
  ASSUME TypeOK, JobInv, ServerInv, NEW j \in Jobs, NEW f \in Folders, Select(j, f)
  PROVE  ServerInv'
<1>1. PICK s \in WriterSeconds : job' = [job EXCEPT ![j] = InFolder(j, f, s)]
  BY DEF Select
<1>2. UNCHANGED <<server, uidNext, validity, purged, emails>>
  BY DEF Select, serverVars
<1>3. /\ job'[j] = InFolder(j, f, s) /\ \A k \in Jobs \ {j} : job'[k] = job[k]
  BY <1>1 DEF TypeOK
<1>4. /\ job'[j].pc = "fetch" /\ job'[j].folder = f /\ job'[j].validity = validity[f]
      /\ job'[j].batch = Fetched(f, job[j].last[f] + 1)
  BY <1>3 DEF InFolder
<1>5. \A u \in Uids : job'[j].batch[u] # NoMsg =>
          u < uidNext[f] /\ job'[j].batch[u] = server[f][u]
  <2> SUFFICES ASSUME NEW u \in Uids, job'[j].batch[u] # NoMsg
               PROVE  u < uidNext[f] /\ job'[j].batch[u] = server[f][u]
    OBVIOUS
  <2>1. job'[j].batch[u] = server[f][u]
    BY <1>4 DEF Fetched
  <2>2. ~(u >= uidNext[f])
    BY <2>1 DEF ServerInv
  <2>3. u \in Nat /\ uidNext[f] \in Nat
    BY BoundsAssumption DEF TypeOK, Uids
  <2> QED BY <2>1, <2>2, <2>3
<1>6. validity[f] \in Nat
  BY BoundsAssumption DEF TypeOK
<1>7. SessionOf(j)'
  BY <1>2, <1>4, <1>5, <1>6 DEF SessionOf
<1>8. \A k \in Jobs \ {j} : SessionOf(k)'
  BY <1>2, <1>3, SameSession DEF ServerInv
<1> QED BY <1>2, <1>7, <1>8, ServerKept

LEMMA ServerExamine ==
  ASSUME TypeOK, JobInv, ServerInv, NEW j \in Jobs, Examine(j)
  PROVE  ServerInv'
<1>1. PICK u \in Uids, rule \in Actions :
        /\ job[j].batch[u] # NoMsg
        /\ job' = [job EXCEPT ![j] = [job[j] EXCEPT !.uid = u, !.rule = rule,
                    !.pc = IF rule = "skip" THEN "skip"
                           ELSE IF IsDuplicate(job[j].batch[u]) THEN "dup" ELSE "stage"]]
  BY DEF Examine
<1>2. UNCHANGED <<server, uidNext, validity, purged, emails>> /\ job[j].pc \in FolderPcs
  BY DEF Examine, serverVars, FolderPcs
<1>3. /\ job'[j].folder = job[j].folder /\ job'[j].validity = job[j].validity
      /\ job'[j].batch = job[j].batch /\ job'[j].uid = u
      /\ job'[j].pc \in {"skip", "dup", "stage"}
      /\ job'[j].pc = "dup" => IsDuplicate(job[j].batch[u])
      /\ \A k \in Jobs \ {j} : job'[k] = job[k]
  BY <1>1 DEF TypeOK, JobRecords
<1>4. job'[j].pc = "dup" => Archived(Held(j))'
  BY <1>2, <1>3 DEF IsDuplicate, Archived, Covers, Held
<1>5. SessionOf(j)'
  BY <1>2, <1>3, <1>4, SessionMoved DEF ServerInv
<1>6. \A k \in Jobs \ {j} : SessionOf(k)'
  BY <1>2, <1>3, SameSession DEF ServerInv
<1> QED BY <1>2, <1>5, <1>6, ServerKept

LEMMA NextMessageBatch ==
  ASSUME TypeOK, NEW j \in Jobs, NextMessage(j)
  PROVE  /\ job'[j].pc = "fetch"
         /\ job'[j].folder = job[j].folder /\ job'[j].validity = job[j].validity
         /\ \A u \in Uids : job'[j].batch[u] \in {NoMsg, job[j].batch[u]}
         /\ \A k \in Jobs \ {j} : job'[k] = job[k]
<1>1. /\ Passed(j).pc = "fetch" /\ Passed(j).folder = job[j].folder
      /\ Passed(j).validity = job[j].validity
      /\ Passed(j).batch = [job[j].batch EXCEPT ![job[j].uid] = NoMsg]
      /\ job[j].batch \in [Uids -> Messages \cup {NoMsg}]
  BY DEF TypeOK, Passed, JobRecords
<1>2. job'[j] = Passed(j) /\ \A k \in Jobs \ {j} : job'[k] = job[k]
  BY DEF TypeOK, NextMessage
<1> QED BY <1>1, <1>2

LEMMA ServerSkip ==
  ASSUME TypeOK, JobInv, ServerInv, NEW j \in Jobs,
         SkipByRule(j) \/ RuleEffectFails(j)
  PROVE  ServerInv'
<1>1. /\ NextMessage(j) /\ job[j].pc \in FolderPcs
      /\ UNCHANGED <<server, uidNext, validity, purged, emails>>
  BY DEF SkipByRule, RuleEffectFails, serverVars, FolderPcs, MessagePcs
<1>2. SessionOf(j)'
  BY <1>1, NextMessageBatch, SessionMoved DEF ServerInv
<1>3. \A k \in Jobs \ {j} : SessionOf(k)'
  BY <1>1, NextMessageBatch, SameSession DEF ServerInv
<1> QED BY <1>1, <1>2, <1>3, ServerKept

(* The steps that stay on a message: a row, once inserted, is of it. *)
LEMMA ServerOnMessage ==
  ASSUME TypeOK, JobInv, ServerInv, NEW j \in Jobs,
         \/ SkipDuplicate(j) \/ Stage(j) \/ Commit(j)
         \/ Persist(j) \/ PersistUnreported(j)
  PROVE  ServerInv'
<1>1. /\ UNCHANGED <<server, uidNext, validity, purged>> /\ job[j].pc \in FolderPcs
      /\ emails \subseteq emails'
  BY DEF SkipDuplicate, Stage, Commit, Persist, PersistUnreported, InsertRow, serverVars,
         FolderPcs, MessagePcs
<1>2. \/ job' = [job EXCEPT ![j] = Idle]
      \/ \E r : /\ job' = [job EXCEPT ![j] = r]
                /\ r.folder = job[j].folder /\ r.validity = job[j].validity
                /\ r.batch = job[j].batch /\ r.uid = job[j].uid
                /\ r.pc \in {"commit", "persist", "effect"}
                /\ r.pc = "effect" => SkipDuplicate(j) \/ Persist(j)
  <2>1. job[j] \in JobRecords
    BY DEF TypeOK
  <2>2. CASE SkipDuplicate(j) \/ Persist(j)
    <3> DEFINE r == [job[j] EXCEPT !.pc = "effect"]
    <3>1. job' = [job EXCEPT ![j] = r]
      BY <2>2 DEF SkipDuplicate, Persist, Step
    <3>2. /\ r.folder = job[j].folder /\ r.validity = job[j].validity
          /\ r.batch = job[j].batch /\ r.uid = job[j].uid /\ r.pc = "effect"
      BY <2>1 DEF JobRecords
    <3> HIDE DEF r
    <3> QED BY <2>2, <3>1, <3>2
  <2>3. CASE Stage(j)
    <3> DEFINE r == [job[j] EXCEPT !.pc = "commit", !.counter = job[j].counter + 1]
    <3>1. job' = [job EXCEPT ![j] = r] \/ job' = [job EXCEPT ![j] = Idle]
      BY <2>3 DEF Stage
    <3>2. /\ r.folder = job[j].folder /\ r.validity = job[j].validity
          /\ r.batch = job[j].batch /\ r.uid = job[j].uid /\ r.pc = "commit"
      BY <2>1 DEF JobRecords
    <3> HIDE DEF r
    <3> QED BY <3>1, <3>2
  <2>4. CASE Commit(j)
    BY <2>1, <2>4 DEF Commit, Step, JobRecords
  <2>5. CASE PersistUnreported(j)
    BY <2>5 DEF PersistUnreported
  <2> QED BY <2>2, <2>3, <2>4, <2>5
<1>3. \A k \in Jobs \ {j} : job'[k] = job[k]
  BY <1>2 DEF TypeOK
<1>4. CASE job' = [job EXCEPT ![j] = Idle]
  <2>1. job'[j].pc \notin FolderPcs
    BY <1>4, IdleType DEF TypeOK, FolderPcs, MessagePcs
  <2>2. \A k \in Jobs : SessionOf(k)'
    BY <1>1, <1>3, <2>1, SessionNone, SameSession DEF ServerInv
  <2> QED BY <1>1, <2>2, ServerKept
<1>5. CASE job' # [job EXCEPT ![j] = Idle]
  <2>1. /\ job'[j].folder = job[j].folder /\ job'[j].validity = job[j].validity
        /\ job'[j].batch = job[j].batch /\ job'[j].uid = job[j].uid
        /\ job'[j].pc \in {"commit", "persist", "effect"}
        /\ job'[j].pc = "effect" => SkipDuplicate(j) \/ Persist(j)
    BY <1>2, <1>5 DEF TypeOK
  <2>2. Held(j)' = Held(j)
    BY <2>1 DEF Held
  <2>3. SkipDuplicate(j) => Archived(Held(j))
    BY DEF ServerInv, SessionOf, SkipDuplicate
  <2>4. Persist(j) => Archived(Held(j))'
    <3> SUFFICES ASSUME Persist(j) PROVE \E e \in emails' : e.msg = Held(j)
      BY <2>2 DEF Archived, Covers
    <3> DEFINE row == [folder |-> job[j].folder, uid |-> job[j].uid, msg |-> Held(j),
                       path |-> PathOf(j)]
    <3>1. row \in emails' /\ row.msg = Held(j)
      BY DEF Persist, InsertRow
    <3> QED BY <3>1
  <2>5. job'[j].pc \in {"dup", "effect"} => Archived(Held(j))'
    BY <1>1, <2>1, <2>2, <2>3, <2>4, ArchivedGrows
  <2>6. SessionOf(j)'
    BY <1>1, <2>1, <2>5, SessionMoved DEF ServerInv
  <2>7. \A k \in Jobs \ {j} : SessionOf(k)'
    BY <1>1, <1>3, SameSession DEF ServerInv
  <2> QED BY <1>1, <2>6, <2>7, ServerKept
<1> QED BY <1>4, <1>5

(* A step in which the server only loses messages. *)
LEMMA ServerLoses ==
  ASSUME TypeOK, ServerInv, NEW f \in Folders, NEW gone, Remove(f, gone),
         emails \subseteq emails'
  PROVE  /\ \A g \in Folders, u \in Uids : u >= uidNext'[g] => server'[g][u] = NoMsg
         /\ \A k \in Jobs : job'[k] = job[k] => SessionOf(k)'
<1>1. /\ UNCHANGED <<uidNext, validity>>
      /\ \A g \in Folders, u \in Uids : server'[g][u] \in {NoMsg, server[g][u]}
  BY DEF TypeOK, Remove
<1>2. ASSUME NEW k \in Jobs, job'[k] = job[k] PROVE SessionOf(k)'
  <2>1. Held(k)' = Held(k) /\ SessionOf(k)
    BY <1>2 DEF Held, ServerInv
  <2>2. job[k].folder \in Folders
    BY DEF TypeOK, JobRecords
  <2> QED BY <1>1, <1>2, <2>1, <2>2, ArchivedGrows DEF SessionOf
<1> QED BY <1>1, <1>2 DEF ServerInv

(* What an EXPUNGE aimed at is the message the job holds, and archived. *)
LEMMA EffectArchived ==
  ASSUME TypeOK, JobInv, ServerInv, NEW j \in Jobs, job[j].pc = "effect",
         job[j].validity = validity[job[j].folder],
         server[job[j].folder][job[j].uid] # NoMsg
  PROVE  Archived(server[job[j].folder][job[j].uid])
<1>1. /\ job[j].pc \in FolderPcs /\ job[j].uid \in Uids
      /\ job[j].batch[job[j].uid] # NoMsg
  BY DEF JobInv, BatchOf, FolderPcs, MessagePcs
<1>2. server[job[j].folder][job[j].uid] = Held(j)
  BY <1>1 DEF ServerInv, SessionOf, Held
<1> QED BY <1>2 DEF ServerInv, SessionOf

LEMMA ServerRuleEffect ==
  ASSUME TypeOK, JobInv, ServerInv, NEW j \in Jobs, RuleEffect(j)
  PROVE  ServerInv'
<1> DEFINE f == job[j].folder
           u == job[j].uid
           live == /\ job[j].rule = "archive_and_delete" /\ job[j].validity = validity[f]
                   /\ server[f][u] # NoMsg
           gone == IF UidPlus THEN {u} ELSE flagged[f] \cup {u}
<1>1. /\ job[j].pc = "effect" /\ job[j].pc \in FolderPcs /\ NextMessage(j)
      /\ UNCHANGED emails /\ f \in Folders /\ u \in Uids
  BY OnMessage DEF RuleEffect, FolderPcs, MessagePcs
<1>2. CASE ~live
  <2>1. UNCHANGED <<server, uidNext, validity, purged>>
    BY <1>2 DEF RuleEffect, serverVars
  <2>2. SessionOf(j)'
    BY <1>1, <2>1, NextMessageBatch, SessionMoved DEF ServerInv
  <2>3. \A k \in Jobs \ {j} : SessionOf(k)'
    BY <1>1, <2>1, NextMessageBatch, SameSession DEF ServerInv
  <2> QED BY <1>1, <2>1, <2>2, <2>3, ServerKept
<1>3. CASE live
  <2>1. /\ Remove(f, gone)
        /\ purged' = purged \cup {[msg |-> server[f][v], own |-> v = u] : v \in gone}
    BY <1>3 DEF RuleEffect
  <2>2. Archived(server[f][u])
    BY <1>1, <1>3, EffectArchived
  <2>3. \A p \in purged' : p.own => Archived(p.msg)'
    <3> SUFFICES ASSUME NEW p \in purged', p.own PROVE Archived(p.msg)
      BY <1>1, ArchivedGrows
    <3>1. CASE p \in purged
      BY <3>1 DEF ServerInv
    <3>2. CASE p \notin purged
      <4> HIDE DEF f, u, gone
      <4>1. PICK v \in gone : p = [msg |-> server[f][v], own |-> v = u]
        BY <2>1, <3>2
      <4> QED BY <2>2, <4>1
    <3> QED BY <3>1, <3>2
  <2>4. /\ \A g \in Folders, v \in Uids : v >= uidNext'[g] => server'[g][v] = NoMsg
        /\ \A k \in Jobs \ {j} : SessionOf(k)'
    <3> HIDE DEF f, gone
    <3> QED BY <1>1, <2>1, NextMessageBatch, ServerLoses
  <2>5. SessionOf(j)'
    <3>1. /\ UNCHANGED <<uidNext, validity>>
          /\ \A v \in Uids : server'[f][v] \in {NoMsg, server[f][v]}
      BY <1>1, <2>1 DEF TypeOK, Remove
    <3>2. /\ job'[j].pc = "fetch" /\ job'[j].folder = f /\ job'[j].validity = job[j].validity
          /\ \A v \in Uids : job'[j].batch[v] \in {NoMsg, job[j].batch[v]}
      BY <1>1, NextMessageBatch
    <3>3. SessionOf(j)
      BY DEF ServerInv
    <3> HIDE DEF live, gone, u
    <3> QED BY <1>1, <3>1, <3>2, <3>3 DEF SessionOf
  <2> QED BY <2>3, <2>4, <2>5 DEF ServerInv
<1> QED BY <1>2, <1>3

LEMMA ServerEnvironment ==
  ASSUME TypeOK, JobInv, ServerInv, Environment
  PROVE  ServerInv'
<1>1. UNCHANGED <<emails, purged>>
  BY DEF Environment, CrashAndRestart, SweepByCommand, CreateManualFolder, Recreate,
         ExpungeByOther, Deliver, FlagByOther
<1>2. \A p \in purged' : p.own => Archived(p.msg)'
  BY <1>1, ArchivedGrows DEF ServerInv
<1>3. CASE CrashAndRestart
  <2>1. \A k \in Jobs : job'[k].pc \notin FolderPcs
    BY <1>3, IdleType DEF CrashAndRestart, FolderPcs, MessagePcs
  <2> QED BY <1>1, <1>3, <2>1, SessionNone, ServerKept DEF CrashAndRestart, serverVars
<1>4. ASSUME UNCHANGED <<server, uidNext, validity, job>> PROVE ServerInv'
  BY <1>1, <1>4, SameSession, ServerKept DEF ServerInv
<1>5. ASSUME NEW f \in Folders, ExpungeByOther(f) PROVE ServerInv'
  BY <1>1, <1>2, <1>5, ServerLoses DEF ServerInv, ExpungeByOther
<1>6. ASSUME NEW f \in Folders, NEW m \in Messages, Deliver(f, m) PROVE ServerInv'
  <2>1. /\ uidNext[f] \in Nat /\ uidNext'[f] = uidNext[f] + 1 /\ UNCHANGED <<validity, job>>
        /\ \A g \in Folders \ {f} : uidNext'[g] = uidNext[g] /\ server'[g] = server[g]
        /\ \A u \in Uids : u # uidNext[f] => server'[f][u] = server[f][u]
    BY <1>6, BoundsAssumption DEF TypeOK, Deliver
  <2>2. \A g \in Folders, u \in Uids : u >= uidNext'[g] => server'[g][u] = NoMsg
    BY <2>1, BoundsAssumption DEF ServerInv, Uids
  <2>3. ASSUME NEW k \in Jobs PROVE SessionOf(k)'
    <3>1. SessionOf(k) /\ Held(k)' = Held(k)
      BY <2>1 DEF ServerInv, Held
    <3>2. job[k].folder \in Folders
      BY DEF TypeOK, JobRecords
    <3>3. \A u \in Uids : u < uidNext[job[k].folder] =>
            /\ u < uidNext'[job[k].folder]
            /\ server'[job[k].folder][u] = server[job[k].folder][u]
      BY <2>1, <3>2, BoundsAssumption DEF Uids
    <3> QED BY <1>1, <2>1, <3>1, <3>3, ArchivedGrows DEF SessionOf
  <2> QED BY <1>2, <2>2, <2>3 DEF ServerInv
<1>7. ASSUME NEW f \in Folders, Recreate(f) PROVE ServerInv'
  <2>1. /\ validity[f] \in Nat /\ validity'[f] = validity[f] + 1 /\ UNCHANGED job
        /\ \A u \in Uids : server'[f][u] = NoMsg
        /\ \A g \in Folders \ {f} : /\ uidNext'[g] = uidNext[g] /\ server'[g] = server[g]
                                    /\ validity'[g] = validity[g]
    BY <1>7, BoundsAssumption DEF TypeOK, Recreate, NoBatch
  <2>2. \A g \in Folders, u \in Uids : u >= uidNext'[g] => server'[g][u] = NoMsg
    BY <2>1 DEF ServerInv
  <2>3. ASSUME NEW k \in Jobs PROVE SessionOf(k)'
    <3>1. SessionOf(k) /\ Held(k)' = Held(k) /\ job[k].folder \in Folders
          /\ job[k].validity \in Nat
      BY <2>1, BoundsAssumption DEF ServerInv, Held, TypeOK, JobRecords
    <3>2. CASE job[k].folder = f
      BY <1>1, <2>1, <3>1, <3>2, ArchivedGrows DEF SessionOf
    <3>3. CASE job[k].folder # f
      BY <1>1, <2>1, <3>1, <3>3, ArchivedGrows DEF SessionOf
    <3> QED BY <3>2, <3>3
  <2> QED BY <1>2, <2>2, <2>3 DEF ServerInv
<1>8. CASE SweepByCommand \/ \E f \in Folders : \/ CreateManualFolder(f)
                                                \/ \E u \in Uids : FlagByOther(f, u)
  BY <1>8, <1>4 DEF SweepByCommand, CreateManualFolder, FlagByOther, serverVars
<1> QED BY <1>3, <1>5, <1>6, <1>7, <1>8 DEF Environment

LEMMA ServerNext ==
  ASSUME TypeOK, JobInv, ServerInv, [Next]_vars
  PROVE  ServerInv'
<1>1. ASSUME NEW j \in Jobs, Work(j) PROVE ServerInv'
  <2>1. ASSUME NEW f \in Folders, Upsert(j, f) \/ NothingNew(j, f) \/ Select(j, f)
        PROVE  ServerInv'
    BY <2>1, ServerListing, ServerSelect
  <2>2. CASE StartSync(j) \/ EndSync(j) \/ FolderDone(j) \/ PersistConflict(j)
    BY <2>2, ServerListing, FirstFolder
  <2>3. CASE Examine(j)
    BY <2>3, ServerExamine
  <2>4. CASE SkipByRule(j)
    BY <2>4, ServerSkip
  <2>5. CASE SkipDuplicate(j) \/ Stage(j) \/ Commit(j) \/ Persist(j)
    BY <2>5, ServerOnMessage
  <2>6. CASE RuleEffect(j)
    BY <2>6, ServerRuleEffect
  <2> QED BY <1>1, <2>1, <2>2, <2>3, <2>4, <2>5, <2>6 DEF Work
<1>2. ASSUME NEW j \in Jobs, Failure(j) PROVE ServerInv'
  <2>1. CASE PersistUnreported(j)
    BY <2>1, ServerOnMessage
  <2>2. CASE RuleEffectFails(j)
    BY <2>2, ServerSkip
  <2>3. CASE FailSync(j)
    BY <2>3, ServerListing, FirstFolder
  <2> QED BY <1>2, <2>1, <2>2, <2>3 DEF Failure
<1>3. CASE Environment
  BY <1>3, ServerEnvironment
<1>4. CASE UNCHANGED vars
  <2>1. UNCHANGED <<server, uidNext, validity, purged, emails, job>>
    BY <1>4 DEF vars, serverVars
  <2> QED BY <2>1, SameSession, ServerKept DEF ServerInv
<1> QED BY <1>1, <1>2, <1>3, <1>4 DEF Next

LEMMA PurgedFromInv ==
  ASSUME FileInv, ServerInv
  PROVE  PurgedIsArchived
  BY DEF FileInv, RowsReadable, ServerInv, Archived, PurgedIsArchived

(* archive_and_delete never costs a message: what a job's own EXPUNGE aimed *)
(* at is readable in the archive, however old the session's view of the     *)
(* server is, provided no two Writers name their files alike.               *)
THEOREM PurgedAlwaysArchived ==
  ASSUME DistinctSeconds
  PROVE  Spec => []PurgedIsArchived
<1>1. Init => TypeOK /\ JobInv /\ FlaggedPresent /\ FileInv /\ ServerInv
  BY InitInv
<1>2. TypeOK /\ JobInv /\ FlaggedPresent /\ FileInv /\ ServerInv /\ [Next]_vars
        => TypeOK' /\ JobInv' /\ FlaggedPresent' /\ FileInv' /\ ServerInv'
  BY TypeNext, FileNext, ServerNext
<1>3. FileInv /\ ServerInv => PurgedIsArchived
  BY PurgedFromInv
<1> QED BY <1>1, <1>2, <1>3, PTL DEF Spec
------------------------------------------------------------------------------
(* The refinement.  While rows are readable, the stored messages are those  *)
(* of the rows.                                                             *)
StoredMsgs == {e.msg : e \in {d \in emails : new[d.path] = d.msg}}
PurgedMsgs == {p.msg : p \in {q \in purged : q.own}}

LEMMA StoredOfRows ==
  ASSUME RowsReadable
  PROVE  StoredMsgs = {e.msg : e \in emails}
  BY DEF RowsReadable, StoredMsgs

LEMMA PromiseStutter ==
  ASSUME RowsReadable, RowsReadable', UNCHANGED <<emails, purged>>
  PROVE  UNCHANGED <<StoredMsgs, PurgedMsgs>>
<1>1. StoredMsgs' = {e.msg : e \in emails'}
  BY DEF RowsReadable, StoredMsgs
<1> QED BY <1>1, StoredOfRows DEF PurgedMsgs

(* A row that is committed is a message the archive keeps. *)
LEMMA PromiseKeep ==
  ASSUME TypeOK, JobInv, RowsReadable, RowsReadable', NEW j \in Jobs,
         Persist(j) \/ PersistUnreported(j)
  PROVE  /\ Held(j) \in Messages
         /\ StoredMsgs' = StoredMsgs \cup {Held(j)} /\ UNCHANGED PurgedMsgs
<1> DEFINE row == [folder |-> job[j].folder, uid |-> job[j].uid, msg |-> Held(j),
                   path |-> PathOf(j)]
<1>1. emails' = emails \cup {row} /\ row.msg = Held(j) /\ UNCHANGED purged
  BY DEF Persist, PersistUnreported, InsertRow
<1>2. Held(j) \in Messages
  BY OnMessage DEF Persist, PersistUnreported, MessagePcs
<1>3. StoredMsgs' = {e.msg : e \in emails'}
  BY DEF RowsReadable, StoredMsgs
<1> HIDE DEF row
<1> QED BY <1>1, <1>2, <1>3, StoredOfRows DEF PurgedMsgs

(* A side effect purges at most the message it aimed at, a stored one. *)
LEMMA PromisePurge ==
  ASSUME TypeOK, JobInv, FlaggedPresent, ServerInv, RowsReadable, RowsReadable',
         NEW j \in Jobs, RuleEffect(j)
  PROVE  \/ UNCHANGED <<StoredMsgs, PurgedMsgs>>
         \/ \E m \in Messages : /\ \E n \in StoredMsgs : Covers(n, m)
                                /\ PurgedMsgs' = PurgedMsgs \cup {m}
                                /\ UNCHANGED StoredMsgs
<1> DEFINE f == job[j].folder
           u == job[j].uid
           live == /\ job[j].rule = "archive_and_delete" /\ job[j].validity = validity[f]
                   /\ server[f][u] # NoMsg
           gone == IF UidPlus THEN {u} ELSE flagged[f] \cup {u}
<1>1. UNCHANGED emails /\ job[j].pc = "effect"
  BY DEF RuleEffect
<1>2. UNCHANGED StoredMsgs
  <2>1. StoredMsgs' = {e.msg : e \in emails'}
    BY DEF RowsReadable, StoredMsgs
  <2> QED BY <1>1, <2>1, StoredOfRows
<1>3. CASE ~live
  BY <1>2, <1>3 DEF RuleEffect, PurgedMsgs
<1>4. CASE live
  <2>1. purged' = purged \cup {[msg |-> server[f][v], own |-> v = u] : v \in gone}
    BY <1>4 DEF RuleEffect
  <2>2. u \in gone /\ server[f][u] \in Messages
    BY <1>1, <1>4, OnMessage DEF TypeOK, MessagePcs
  <2>3. Archived(server[f][u])
    BY <1>1, <1>4, EffectArchived
  <2>4. \E n \in StoredMsgs : Covers(n, server[f][u])
    BY <2>3, StoredOfRows DEF Archived
  <2> HIDE DEF f, u, gone
  <2>5. PurgedMsgs' = PurgedMsgs \cup {server[f][u]}
    <3>1. ASSUME NEW m \in PurgedMsgs' PROVE m \in PurgedMsgs \cup {server[f][u]}
      <4>1. PICK p \in purged' : p.own /\ m = p.msg
        BY DEF PurgedMsgs
      <4>2. CASE p \in purged
        BY <4>1, <4>2 DEF PurgedMsgs
      <4>3. CASE p \notin purged
        <5>1. PICK v \in gone : p = [msg |-> server[f][v], own |-> v = u]
          BY <2>1, <4>3
        <5>2. p.own = (v = u) /\ p.msg = server[f][v]
          BY <5>1
        <5> QED BY <4>1, <5>2
      <4> QED BY <4>2, <4>3
    <3>2. ASSUME NEW m \in PurgedMsgs PROVE m \in PurgedMsgs'
      BY <2>1 DEF PurgedMsgs
    <3>3. server[f][u] \in PurgedMsgs'
      <4> DEFINE p == [msg |-> server[f][u], own |-> TRUE]
      <4>1. p \in purged' /\ p.own /\ p.msg = server[f][u]
        BY <2>1, <2>2
      <4> HIDE DEF p
      <4> QED BY <4>1 DEF PurgedMsgs
    <3> QED BY <3>1, <3>2, <3>3
  <2> QED BY <1>2, <2>2, <2>4, <2>5
<1> QED BY <1>3, <1>4

LEMMA PromiseInit == Init => Promise!Init
  BY DEF Init, Promise!Init

LEMMA PromiseNext ==
  ASSUME TypeOK, JobInv, FlaggedPresent, ServerInv, RowsReadable, RowsReadable',
         [Next]_vars
  PROVE  [Promise!Next]_<<StoredMsgs, PurgedMsgs>>
<1>1. ASSUME NEW m \in Messages, StoredMsgs' = StoredMsgs \cup {m}, UNCHANGED PurgedMsgs
      PROVE  Promise!Next
  BY <1>1 DEF Promise!Next, Promise!Keep, StoredMsgs, PurgedMsgs
<1>2. ASSUME NEW m \in Messages, \E n \in StoredMsgs : Covers(n, m), UNCHANGED StoredMsgs,
             PurgedMsgs' = PurgedMsgs \cup {m}
      PROVE  Promise!Next
  BY <1>2 DEF Promise!Next, Promise!Purge, Promise!Covers, Covers, StoredMsgs, PurgedMsgs
<1>3. ASSUME NEW j \in Jobs, Persist(j) \/ PersistUnreported(j) PROVE Promise!Next
  BY <1>1, <1>3, PromiseKeep
<1>4. ASSUME NEW j \in Jobs, RuleEffect(j)
      PROVE  Promise!Next \/ UNCHANGED <<StoredMsgs, PurgedMsgs>>
  BY <1>2, <1>4, PromisePurge
<1>5. ASSUME NEW j \in Jobs, Work(j), ~Persist(j), ~RuleEffect(j)
      PROVE  UNCHANGED <<emails, purged>>
  BY <1>5 DEF Work, StartSync, EndSync, FolderDone, Examine, Upsert, NothingNew, Select,
              SkipByRule, SkipDuplicate, Stage, Commit, PersistConflict
<1>6. ASSUME NEW j \in Jobs, Failure(j), ~PersistUnreported(j)
      PROVE  UNCHANGED <<emails, purged>>
  BY <1>6 DEF Failure, RuleEffectFails, FailSync
<1>7. CASE Environment
  <2>1. UNCHANGED <<emails, purged>>
    BY <1>7 DEF Environment, CrashAndRestart, SweepByCommand, CreateManualFolder, Recreate,
                ExpungeByOther, Deliver, FlagByOther
  <2> QED BY <2>1, PromiseStutter
<1>8. CASE UNCHANGED vars
  BY <1>8, PromiseStutter DEF vars
<1> QED BY <1>3, <1>4, <1>5, <1>6, <1>7, <1>8, PromiseStutter DEF Next

(* The synchronisation implements ArchivePromise: the readable archive only *)
(* grows, and a message is deleted at the source only after a readable copy *)
(* of it is in the archive, provided no two Writers name their files alike. *)
THEOREM ImplementsPromise ==
  ASSUME DistinctSeconds
  PROVE  Spec => AppendOnlyArchive
<1> DEFINE Inv == TypeOK /\ JobInv /\ FlaggedPresent /\ FileInv /\ ServerInv
<1>1. Init => Inv
  BY InitInv
<1>2. Inv /\ [Next]_vars => Inv'
  BY TypeNext, FileNext, ServerNext
<1>3. Inv /\ Inv' /\ [Next]_vars => [Promise!Next]_<<StoredMsgs, PurgedMsgs>>
  <2>1. FileInv => RowsReadable
    BY DEF FileInv
  <2>2. FileInv' => RowsReadable'
    BY DEF FileInv
  <2> QED BY <2>1, <2>2, PromiseNext
<1>4. [Promise!Next]_<<StoredMsgs, PurgedMsgs>> =>
        [Promise!Next]_<<{e.msg : e \in {d \in emails : new[d.path] = d.msg}},
                         {p.msg : p \in {q \in purged : q.own}}>>
  BY DEF StoredMsgs, PurgedMsgs
<1>5. Init => Promise!Init
  BY PromiseInit
<1> HIDE DEF Inv
<1> QED BY <1>1, <1>2, <1>3, <1>4, <1>5, PTL DEF Spec, AppendOnlyArchive, Promise!Spec
------------------------------------------------------------------------------
(* What a watermark stands for.  A folder row, and a job's copy of it, is   *)
(* about the messages the server has as long as its UIDVALIDITY is the      *)
(* server's.  Two jobs can fall out of step over a renumbered folder, so    *)
(* this is about jobs that overlap or folders that are renumbered, not both.*)
OneJobOrEpoch == MaxValidity = 1 \/ \A j, k \in Jobs : j = k

Current(f) == MaxValidity = 1 \/ folders[f].uidvalidity = validity[f]

(* Gone from the server, in the archive, or skipped by a rule; and not a    *)
(* UID the server has still to assign.                                      *)
Safe(f, u) ==
    /\ u < uidNext[f]
    /\ \/ server[f][u] = NoMsg
       \/ Archived(server[f][u])
       \/ [folder |-> f, validity |-> validity[f], uid |-> u] \in skipped

(* Everything up to the watermark of a row, and of a job, is safe.          *)
RowMark(f) == Current(f) => \A u \in Uids : u <= folders[f].lastUid => Safe(f, u)
JobMark(j) == \A f \in Folders : Current(f) => \A u \in Uids : u <= job[j].last[f] => Safe(f, u)

(* In a folder, what lies below a message still to come is safe or to come. *)
BatchMark(j) ==
    job[j].pc \in FolderPcs /\ Current(job[j].folder) =>
        /\ job[j].validity = validity[job[j].folder]
        /\ \A u, v \in Uids : job[j].batch[u] # NoMsg /\ v < u =>
              job[j].batch[v] # NoMsg \/ Safe(job[j].folder, v)

MarkInv ==
    /\ \A f \in Folders : RowMark(f) /\ folders[f].uidvalidity <= validity[f]
    /\ \A j \in Jobs : JobMark(j) /\ BatchMark(j)

(* A message that is being stored has no row yet. *)
StorePcs == {"stage", "commit", "persist"}
NewOnly  == \A j \in Jobs : job[j].pc \in StorePcs => ~IsDuplicate(Held(j))
DuplicateInv == NoDuplicateRows /\ NewOnly

LEMMA Bounds ==
  ASSUME TypeOK
  PROVE  /\ Uids \subseteq Nat /\ 0 \notin Uids /\ MaxUid \in Nat
         /\ \A f \in Folders : /\ uidNext[f] \in Nat /\ validity[f] \in Nat /\ validity[f] # 0
                               /\ folders[f].uidvalidity \in Nat /\ folders[f].lastUid \in Nat
                               /\ MaxValidity = 1 => validity[f] = 1
         /\ \A j \in Jobs : /\ job[j] \in JobRecords /\ job[j].folder \in Folders
                            /\ \A f \in Folders : job[j].last[f] \in Nat
<1>1. Uids \subseteq Nat /\ 0 \notin Uids /\ MaxUid \in Nat
  BY BoundsAssumption DEF Uids
<1>2. \A f \in Folders : /\ uidNext[f] \in Nat /\ validity[f] \in Nat /\ validity[f] # 0
                         /\ MaxValidity = 1 => validity[f] = 1
  BY BoundsAssumption DEF TypeOK
<1>3. \A f \in Folders : folders[f].uidvalidity \in Nat /\ folders[f].lastUid \in Nat
  BY BoundsAssumption DEF TypeOK
<1>4. \A j \in Jobs : /\ job[j] \in JobRecords /\ job[j].folder \in Folders
                      /\ \A f \in Folders : job[j].last[f] \in Nat
  BY BoundsAssumption DEF TypeOK, JobRecords
<1> QED BY <1>1, <1>2, <1>3, <1>4

LEMMA SafeKept ==
  ASSUME NEW f, NEW u, Safe(f, u), emails \subseteq emails', skipped \subseteq skipped',
         validity'[f] = validity[f], server'[f][u] \in {NoMsg, server[f][u]}, u < uidNext'[f]
  PROVE  Safe(f, u)'
<1>1. PICK m : m = server[f][u]
  OBVIOUS
<1>2. Archived(m) => Archived(m)'
  BY ArchivedGrows
<1>3. CASE server'[f][u] = NoMsg
  BY <1>3 DEF Safe
<1>4. CASE server'[f][u] = m
  <2>1. server[f][u] = NoMsg => server'[f][u] = NoMsg
    BY <1>1, <1>4
  <2>2. Archived(server[f][u]) => Archived(server[f][u])'
    BY <1>1, <1>2, <1>4
  <2>3. [folder |-> f, validity |-> validity[f], uid |-> u] \in skipped
          => [folder |-> f, validity |-> validity'[f], uid |-> u] \in skipped'
    OBVIOUS
  <2> QED BY <2>1, <2>2, <2>3 DEF Safe
<1> QED BY <1>1, <1>3, <1>4

(* A step in which nothing that is safe is so no longer. *)
Calm == validity' = validity /\ \A f \in Folders, u \in Uids : Safe(f, u) => Safe(f, u)'

LEMMA CalmWhile ==
  ASSUME TypeOK, emails \subseteq emails', skipped \subseteq skipped', UNCHANGED <<validity, uidNext>>,
         \A f \in Folders, u \in Uids : server'[f][u] \in {NoMsg, server[f][u]}
  PROVE  Calm
<1>1. ASSUME NEW f \in Folders, NEW u \in Uids, Safe(f, u) PROVE Safe(f, u)'
  <2>1. u < uidNext'[f]
    BY <1>1 DEF Safe
  <2> QED BY <1>1, <2>1, SafeKept
<1> QED BY <1>1 DEF Calm

(* The marks move only over what is safe. *)
LEMMA MarkFrom ==
  ASSUME TypeOK, MarkInv, Calm,
         \A f \in Folders : folders'[f].uidvalidity = folders[f].uidvalidity,
         \A f \in Folders :
            \/ folders'[f].lastUid = folders[f].lastUid
            \/ Current(f) => \A u \in Uids : u <= folders'[f].lastUid => Safe(f, u)',
         \A k \in Jobs, f \in Folders :
            \/ job'[k].last[f] \in {0, job[k].last[f]}
            \/ Current(f) => \A u \in Uids : u <= job'[k].last[f] => Safe(f, u)',
         \A k \in Jobs :
            \/ job'[k].pc \notin FolderPcs
            \/ /\ job[k].pc \in FolderPcs
               /\ job'[k].folder = job[k].folder /\ job'[k].validity = job[k].validity
               /\ \A u \in Uids :
                     \/ job'[k].batch[u] = job[k].batch[u]
                     \/ /\ job'[k].batch[u] = NoMsg
                        /\ \A f \in Folders : f = job[k].folder /\ Current(f) => Safe(f, u)'
  PROVE  MarkInv'
<1>1. validity' = validity /\ \A f \in Folders, u \in Uids : Safe(f, u) => Safe(f, u)'
  BY DEF Calm
<1>2. \A f \in Folders : Current(f)' <=> Current(f)
  BY <1>1 DEF Current
<1>3. \A f \in Folders : RowMark(f)' /\ folders'[f].uidvalidity <= validity'[f]
  BY <1>1, <1>2 DEF MarkInv, RowMark
<1>4. ASSUME NEW k \in Jobs, NEW f \in Folders, Current(f), NEW u \in Uids, u <= job'[k].last[f]
      PROVE  Safe(f, u)'
  <2>1. job'[k].last[f] # 0
    BY <1>4, Bounds
  <2>2. u <= job[k].last[f] => Safe(f, u)
    BY <1>4 DEF MarkInv, JobMark
  <2> QED BY <1>1, <1>4, <2>1, <2>2
<1>5. \A k \in Jobs : JobMark(k)'
  BY <1>2, <1>4 DEF JobMark
<1>6. ASSUME NEW k \in Jobs PROVE BatchMark(k)'
  <2>1. CASE job'[k].pc \notin FolderPcs
    BY <2>1 DEF BatchMark
  <2>2. PICK f \in Folders : f = job[k].folder
    BY Bounds
  <2>3. CASE /\ job[k].pc \in FolderPcs
             /\ job'[k].folder = job[k].folder /\ job'[k].validity = job[k].validity
             /\ \A u \in Uids :
                     \/ job'[k].batch[u] = job[k].batch[u]
                     \/ /\ job'[k].batch[u] = NoMsg
                        /\ \A g \in Folders : g = job[k].folder /\ Current(g) => Safe(g, u)'
    <3>1. SUFFICES ASSUME Current(f)
                   PROVE  /\ job'[k].validity = validity'[f]
                          /\ \A u, v \in Uids : job'[k].batch[u] # NoMsg /\ v < u =>
                                job'[k].batch[v] # NoMsg \/ Safe(f, v)'
      <4>1. job'[k].folder = f
        BY <2>2, <2>3
      <4> QED BY <1>2, <4>1 DEF BatchMark, Safe
    <3>2. /\ job[k].validity = validity[f]
          /\ \A u, v \in Uids : job[k].batch[u] # NoMsg /\ v < u => job[k].batch[v] # NoMsg \/ Safe(f, v)
      BY <2>2, <2>3, <3>1 DEF MarkInv, BatchMark
    <3> QED BY <1>1, <2>2, <2>3, <3>1, <3>2
  <2> QED BY <2>1, <2>3
<1> QED BY <1>3, <1>5, <1>6 DEF MarkInv

(* What is known of the message a job is on. *)
LEMMA OnMark ==
  ASSUME TypeOK, JobInv, ServerInv, MarkInv, NEW j \in Jobs, job[j].pc \in MessagePcs,
         NEW f \in Folders, f = job[j].folder, Current(f)
  PROVE  /\ job[j].uid \in Uids /\ job[j].validity = validity[f] /\ job[j].uid < uidNext[f]
         /\ server[f][job[j].uid] \in {NoMsg, Held(j)}
         /\ \A v \in Uids : v < job[j].uid => Safe(f, v)
<1>1. job[j].pc \in FolderPcs /\ BatchOf(j) /\ SessionOf(j) /\ BatchMark(j)
  BY DEF JobInv, ServerInv, MarkInv, FolderPcs
<1>2. job[j].uid \in Uids /\ job[j].batch[job[j].uid] # NoMsg /\ job[j].validity = validity[f]
  BY <1>1 DEF BatchOf, BatchMark
<1>3. job[j].uid < uidNext[f] /\ server[f][job[j].uid] \in {NoMsg, Held(j)}
  BY <1>1, <1>2 DEF SessionOf, Held
<1>4. \A v \in Uids : v < job[j].uid => Safe(f, v)
  BY <1>1, <1>2 DEF BatchOf, BatchMark
<1> QED BY <1>2, <1>3, <1>4

LEMMA AdvanceMoves ==
  ASSUME TypeOK, NEW f \in Folders, NEW u \in Uids, Advance(f, u)
  PROVE  /\ \A g \in Folders : folders'[g].uidvalidity = folders[g].uidvalidity
         /\ \A g \in Folders : folders'[g].lastUid = folders[g].lastUid \/ (g = f /\ folders'[g].lastUid = u)
<1>1. folders[f] \in [uidvalidity : 0 .. MaxValidity, lastUid : 0 .. MaxUid, enabled : BOOLEAN]
  BY DEF TypeOK
<1>2. PICK x : x = [folders[f] EXCEPT !.lastUid = u]
  OBVIOUS
<1>3. x.uidvalidity = folders[f].uidvalidity /\ x.lastUid = u
  BY <1>1, <1>2
<1>4. folders' = folders \/ folders' = [folders EXCEPT ![f] = x]
  BY <1>2 DEF Advance
<1> QED BY <1>3, <1>4 DEF TypeOK

LEMMA NextMessageMoves ==
  ASSUME TypeOK, JobInv, NEW j \in Jobs, job[j].pc \in MessagePcs, NextMessage(j)
  PROVE  /\ job[j].uid \in Uids
         /\ \A f \in Folders : job'[j].last[f] = IF f = job[j].folder THEN job[j].uid ELSE job[j].last[f]
         /\ \A u \in Uids : job'[j].batch[u] = IF u = job[j].uid THEN NoMsg ELSE job[j].batch[u]
<1>1. job[j] \in JobRecords /\ job[j].uid \in Uids
  BY Bounds DEF JobInv, BatchOf
<1>2. PICK l, b : /\ l = [job[j].last EXCEPT ![job[j].folder] = job[j].uid]
                  /\ b = [job[j].batch EXCEPT ![job[j].uid] = NoMsg]
  OBVIOUS
<1>3. PICK x : x = [job[j] EXCEPT !.pc = "fetch", !.uid = 0, !.rule = "archive", !.last = l, !.batch = b]
  OBVIOUS
<1>4. x.last = l /\ x.batch = b
  BY <1>1, <1>3 DEF JobRecords
<1>5. job' = [job EXCEPT ![j] = x]
  BY <1>2, <1>3 DEF NextMessage, Passed
<1>6. job'[j] = x
  BY <1>5 DEF TypeOK
<1>7. job[j].last \in [Folders -> 0 .. MaxUid] /\ job[j].batch \in [Uids -> Messages \cup {NoMsg}]
  BY <1>1 DEF JobRecords
<1> QED BY <1>1, <1>2, <1>4, <1>6, <1>7

(* A job that stops, goes on to another folder, or stays on its batch. *)
Remains(k) ==
    /\ \A f \in Folders : job'[k].last[f] \in {0, job[k].last[f]}
    /\ \/ job'[k].pc \notin FolderPcs
       \/ /\ job[k].pc \in FolderPcs /\ job'[k].folder = job[k].folder
          /\ job'[k].validity = job[k].validity /\ job'[k].batch = job[k].batch

LEMMA RemainsIf ==
  ASSUME TypeOK, NEW j \in Jobs, NEW x,
         /\ job' = [job EXCEPT ![j] = x]
         /\ \/ x.last = job[j].last \/ \A f \in Folders : x.last[f] = 0
         /\ \/ x.pc \notin FolderPcs
            \/ /\ job[j].pc \in FolderPcs /\ x.folder = job[j].folder
               /\ x.validity = job[j].validity /\ x.batch = job[j].batch
  PROVE  \A k \in Jobs : Remains(k)
<1>1. job'[j] = x /\ \A k \in Jobs \ {j} : job'[k] = job[k]
  BY DEF TypeOK
<1> QED BY <1>1 DEF Remains

LEMMA IdleLast == Idle.pc \notin FolderPcs /\ \A f \in Folders : Idle.last[f] = 0
BY DEF Idle, Between, FolderPcs, MessagePcs

LEMMA JobRemains ==
  ASSUME TypeOK, NEW j \in Jobs, NEW f \in Folders,
         \/ StartSync(j) \/ EndSync(j) \/ FolderDone(j) \/ NothingNew(j, f) \/ PersistConflict(j)
         \/ FailSync(j) \/ Stage(j) \/ Commit(j) \/ Examine(j) \/ SkipDuplicate(j)
         \/ Persist(j) \/ PersistUnreported(j)
  PROVE  \A k \in Jobs : Remains(k)
<1>1. job[j] \in JobRecords
  BY DEF TypeOK
<1>2. CASE job' = [job EXCEPT ![j] = Idle]
  BY <1>2, IdleLast, RemainsIf
<1>3. CASE StartSync(j) \/ FolderDone(j)
  <2>1. PICK x : /\ job' = [job EXCEPT ![j] = x] /\ x.pc \in {"list", "pick"} /\ x.last = job[j].last
    BY <1>3 DEF StartSync, FolderDone, Between
  <2>2. x.pc \notin FolderPcs
    BY <2>1 DEF FolderPcs, MessagePcs
  <2> QED BY <2>1, <2>2, RemainsIf
<1>4. CASE NothingNew(j, f)
  <2>1. PICK t : t = job[j].todo \ {f}
    OBVIOUS
  <2>2. PICK x : x = [job[j] EXCEPT !.todo = t]
    OBVIOUS
  <2>3. x.pc = job[j].pc /\ x.last = job[j].last /\ x.pc = "pick"
    BY <1>1, <1>4, <2>2 DEF NothingNew, JobRecords
  <2>4. job' = [job EXCEPT ![j] = x] /\ x.pc \notin FolderPcs
    BY <1>4, <2>1, <2>2, <2>3 DEF NothingNew, FolderPcs, MessagePcs
  <2> QED BY <2>3, <2>4, RemainsIf
<1>5. ASSUME NEW p, job[j].pc \in FolderPcs, Step(j, p) PROVE \A k \in Jobs : Remains(k)
  <2>1. PICK x : x = [job[j] EXCEPT !.pc = p]
    OBVIOUS
  <2>2. x.last = job[j].last /\ x.folder = job[j].folder /\ x.validity = job[j].validity /\ x.batch = job[j].batch
    BY <1>1, <2>1 DEF JobRecords
  <2>3. job' = [job EXCEPT ![j] = x]
    BY <1>5, <2>1 DEF Step
  <2> QED BY <1>5, <2>2, <2>3, RemainsIf
<1>6. CASE Stage(j)
  <2>1. PICK c : c = job[j].counter + 1
    OBVIOUS
  <2>2. PICK x : x = [job[j] EXCEPT !.pc = "commit", !.counter = c]
    OBVIOUS
  <2>3. x.last = job[j].last /\ x.folder = job[j].folder /\ x.validity = job[j].validity /\ x.batch = job[j].batch
    BY <1>1, <2>2 DEF JobRecords
  <2>4. job' = [job EXCEPT ![j] = x] \/ job' = [job EXCEPT ![j] = Idle]
    BY <1>6, <2>1, <2>2 DEF Stage
  <2>5. job[j].pc \in FolderPcs
    BY <1>6 DEF Stage, FolderPcs, MessagePcs
  <2> QED BY <1>2, <2>3, <2>4, <2>5, RemainsIf
<1>7. CASE Examine(j)
  <2>1. PICK u \in Uids, rule \in Actions :
        job' = [job EXCEPT ![j] = [job[j] EXCEPT !.uid = u, !.rule = rule,
                    !.pc = IF rule = "skip" THEN "skip"
                           ELSE IF IsDuplicate(job[j].batch[u]) THEN "dup" ELSE "stage"]]
    BY <1>7 DEF Examine
  <2>2. PICK p, x : /\ p = IF rule = "skip" THEN "skip" ELSE IF IsDuplicate(job[j].batch[u]) THEN "dup" ELSE "stage"
                    /\ x = [job[j] EXCEPT !.uid = u, !.rule = rule, !.pc = p]
    OBVIOUS
  <2>3. x.last = job[j].last /\ x.folder = job[j].folder /\ x.validity = job[j].validity /\ x.batch = job[j].batch
    BY <1>1, <2>2 DEF JobRecords
  <2>4. job' = [job EXCEPT ![j] = x]
    BY <2>1, <2>2
  <2>5. job[j].pc \in FolderPcs
    BY <1>7 DEF Examine, FolderPcs
  <2> QED BY <2>3, <2>4, <2>5, RemainsIf
<1>8. job[j].pc \in {"commit", "dup", "persist"} => job[j].pc \in FolderPcs
  BY DEF FolderPcs, MessagePcs
<1>9. EndSync(j) \/ PersistConflict(j) \/ FailSync(j) \/ PersistUnreported(j) => job' = [job EXCEPT ![j] = Idle]
  BY DEF EndSync, PersistConflict, FailSync, PersistUnreported
<1>10. Commit(j) => job' = [job EXCEPT ![j] = Idle] \/ (job[j].pc = "commit" /\ Step(j, "persist"))
  BY DEF Commit
<1>11. SkipDuplicate(j) \/ Persist(j) => job[j].pc \in {"dup", "persist"} /\ Step(j, "effect")
  BY DEF SkipDuplicate, Persist
<1> QED BY <1>2, <1>3, <1>4, <1>5, <1>6, <1>7, <1>8, <1>9, <1>10, <1>11

(* The steps that leave the watermarks alone. *)
LEMMA MarkStays ==
  ASSUME TypeOK, MarkInv, NEW j \in Jobs, NEW f \in Folders,
         \/ StartSync(j) \/ EndSync(j) \/ FolderDone(j) \/ NothingNew(j, f) \/ PersistConflict(j)
         \/ FailSync(j) \/ Stage(j) \/ Commit(j) \/ Examine(j)
  PROVE  MarkInv'
<1>1. \A k \in Jobs : Remains(k)
  BY JobRemains
<1>2. UNCHANGED <<server, uidNext, validity, folders, emails, skipped>>
  BY DEF StartSync, EndSync, FolderDone, NothingNew, PersistConflict, FailSync, Stage, Commit, Examine, serverVars
<1>3. Calm
  BY <1>2, CalmWhile
<1> QED BY <1>1, <1>2, <1>3, MarkFrom DEF Remains

(* The steps that move a row's watermark over the message in hand: it is in *)
(* the archive by then, or was skipped.                                     *)
LEMMA MarkAdvance ==
  ASSUME TypeOK, JobInv, ServerInv, MarkInv, NEW j \in Jobs,
         SkipDuplicate(j) \/ Persist(j) \/ PersistUnreported(j)
  PROVE  MarkInv'
<1>1. \A k \in Jobs : Remains(k)
  BY JobRemains, FirstFolder
<1>2. UNCHANGED <<server, uidNext, validity, skipped>> /\ emails \subseteq emails'
  BY DEF SkipDuplicate, Persist, PersistUnreported, InsertRow, serverVars
<1>3. Calm
  BY <1>2, CalmWhile
<1>4. PICK f, u, m : f = job[j].folder /\ u = job[j].uid /\ m = Held(j)
  OBVIOUS
<1>5. job[j].pc \in MessagePcs /\ Advance(f, u)
  BY <1>4 DEF SkipDuplicate, Persist, PersistUnreported, InsertRow, MessagePcs
<1>6. f \in Folders /\ u \in Uids
  BY <1>4, <1>5, OnMessage
<1>7. Archived(m)'
  <2>1. CASE SkipDuplicate(j)
    <3>1. Archived(m)
      BY <1>4, <2>1 DEF ServerInv, SessionOf, SkipDuplicate
    <3> QED BY <1>2, <3>1, ArchivedGrows
  <2>2. CASE Persist(j) \/ PersistUnreported(j)
    <3>1. PICK e : e = [folder |-> job[j].folder, uid |-> job[j].uid, msg |-> m, path |-> PathOf(j)]
      OBVIOUS
    <3>2. e \in emails' /\ e.msg = m
      BY <1>4, <2>2, <3>1 DEF Persist, PersistUnreported, InsertRow
    <3> QED BY <3>2 DEF Archived, Covers
  <2> QED BY <2>1, <2>2
<1>8. Current(f) => \A v \in Uids : v <= u => Safe(f, v)'
  <2>1. SUFFICES ASSUME Current(f), NEW v \in Uids, v <= u PROVE Safe(f, v)'
    OBVIOUS
  <2>2. /\ u < uidNext[f] /\ server[f][u] \in {NoMsg, m} /\ \A w \in Uids : w < u => Safe(f, w)
    BY <1>4, <1>5, <1>6, <2>1, OnMark
  <2>3. CASE v = u
    <3>1. u < uidNext'[f] /\ server'[f][u] \in {NoMsg, m}
      BY <1>2, <2>2
    <3> QED BY <1>7, <2>3, <3>1 DEF Safe
  <2>4. CASE v # u
    <3>1. v < u
      BY <1>6, <2>1, <2>4, Bounds
    <3> QED BY <1>3, <1>6, <2>2, <3>1 DEF Calm
  <2> QED BY <2>3, <2>4
<1>9. /\ \A g \in Folders : folders'[g].uidvalidity = folders[g].uidvalidity
      /\ \A g \in Folders : folders'[g].lastUid = folders[g].lastUid \/ (g = f /\ folders'[g].lastUid = u)
  BY <1>5, <1>6, AdvanceMoves
<1>10. \A g \in Folders :
            \/ folders'[g].lastUid = folders[g].lastUid
            \/ Current(g) => \A v \in Uids : v <= folders'[g].lastUid => Safe(g, v)'
  BY <1>8, <1>9
<1> QED BY <1>1, <1>3, <1>9, <1>10, MarkFrom DEF Remains

(* The job's own watermark moves over the message in hand. *)
LEMMA MarkPassed ==
  ASSUME TypeOK, JobInv, ServerInv, MarkInv, NEW j \in Jobs,
         SkipByRule(j) \/ RuleEffect(j) \/ RuleEffectFails(j)
  PROVE  MarkInv'
<1>1. PICK f, u, m : f = job[j].folder /\ u = job[j].uid /\ m = Held(j)
  OBVIOUS
<1>2. job[j].pc \in MessagePcs /\ NextMessage(j)
  BY DEF SkipByRule, RuleEffect, RuleEffectFails, MessagePcs
<1>3. f \in Folders /\ u \in Uids
  BY <1>1, <1>2, OnMessage
<1>4. UNCHANGED <<uidNext, validity, emails>> /\ skipped \subseteq skipped'
      /\ \A g \in Folders, v \in Uids : server'[g][v] \in {NoMsg, server[g][v]}
  <2>1. UNCHANGED <<uidNext, validity, emails>> /\ skipped \subseteq skipped'
    BY DEF SkipByRule, RuleEffect, RuleEffectFails, Remove, serverVars
  <2>2. CASE SkipByRule(j) \/ RuleEffectFails(j)
    BY <2>1, <2>2 DEF SkipByRule, RuleEffectFails, serverVars
  <2>3. CASE RuleEffect(j)
    <3>1. PICK gone : gone = IF UidPlus THEN {u} ELSE flagged[f] \cup {u}
      OBVIOUS
    <3>2. Remove(f, gone) \/ server' = server
      BY <1>1, <2>3, <3>1 DEF RuleEffect, serverVars
    <3> QED BY <1>3, <2>1, <3>2 DEF Remove, TypeOK
  <2> QED BY <2>1, <2>2, <2>3
<1>5. Calm
  BY <1>4, CalmWhile
<1>6. Current(f) => \A v \in Uids : v <= u => Safe(f, v)'
  <2>1. SUFFICES ASSUME Current(f), NEW v \in Uids, v <= u PROVE Safe(f, v)'
    OBVIOUS
  <2>2. /\ u < uidNext[f] /\ server[f][u] \in {NoMsg, m} /\ job[j].validity = validity[f]
        /\ \A w \in Uids : w < u => Safe(f, w)
    BY <1>1, <1>2, <1>3, <2>1, OnMark
  <2>3. CASE v = u
    <3>1. u < uidNext'[f]
      BY <1>4, <2>2
    <3>2. CASE SkipByRule(j)
      <4>1. [folder |-> f, validity |-> validity'[f], uid |-> u] \in skipped'
        BY <1>1, <1>4, <2>2, <3>2 DEF SkipByRule
      <4> QED BY <2>3, <3>1, <4>1 DEF Safe
    <3>3. CASE RuleEffect(j) \/ RuleEffectFails(j)
      <4>1. Archived(m)
        BY <1>1, <3>3 DEF ServerInv, SessionOf, RuleEffect, RuleEffectFails
      <4>2. Archived(m)' /\ server'[f][u] \in {NoMsg, m}
        BY <1>3, <1>4, <2>2, <4>1, ArchivedGrows
      <4> QED BY <2>3, <3>1, <4>2 DEF Safe
    <3> QED BY <3>2, <3>3
  <2>4. CASE v # u
    <3>1. v < u
      BY <1>3, <2>1, <2>4, Bounds
    <3> QED BY <1>3, <1>5, <2>2, <3>1 DEF Calm
  <2> QED BY <2>3, <2>4
<1>7. /\ \A g \in Folders : folders'[g].uidvalidity = folders[g].uidvalidity
      /\ \A g \in Folders : folders'[g].lastUid = folders[g].lastUid \/ (g = f /\ folders'[g].lastUid = u)
  <2>1. CASE SkipByRule(j)
    BY <1>1, <1>3, <2>1, AdvanceMoves DEF SkipByRule
  <2>2. CASE RuleEffect(j) \/ RuleEffectFails(j)
    BY <2>2 DEF RuleEffect, RuleEffectFails
  <2> QED BY <2>1, <2>2
<1>8. \A g \in Folders :
            \/ folders'[g].lastUid = folders[g].lastUid
            \/ Current(g) => \A v \in Uids : v <= folders'[g].lastUid => Safe(g, v)'
  BY <1>6, <1>7
<1>9. /\ \A g \in Folders : job'[j].last[g] = IF g = f THEN u ELSE job[j].last[g]
      /\ \A v \in Uids : job'[j].batch[v] = IF v = u THEN NoMsg ELSE job[j].batch[v]
      /\ job'[j].folder = f /\ job'[j].validity = job[j].validity
      /\ \A k \in Jobs \ {j} : job'[k] = job[k]
  BY <1>1, <1>2, NextMessageMoves, NextMessageBatch
<1>10. \A k \in Jobs, g \in Folders :
            \/ job'[k].last[g] \in {0, job[k].last[g]}
            \/ Current(g) => \A v \in Uids : v <= job'[k].last[g] => Safe(g, v)'
  BY <1>6, <1>9
<1>11. Current(f) => Safe(f, u)'
  <2>1. u <= u
    BY <1>3, Bounds
  <2> QED BY <1>3, <1>6, <2>1
<1>12. \A k \in Jobs :
            \/ job'[k].pc \notin FolderPcs
            \/ /\ job[k].pc \in FolderPcs
               /\ job'[k].folder = job[k].folder /\ job'[k].validity = job[k].validity
               /\ \A v \in Uids :
                     \/ job'[k].batch[v] = job[k].batch[v]
                     \/ /\ job'[k].batch[v] = NoMsg
                        /\ \A g \in Folders : g = job[k].folder /\ Current(g) => Safe(g, v)'
  BY <1>1, <1>2, <1>9, <1>11 DEF FolderPcs
<1> QED BY <1>5, <1>7, <1>8, <1>10, <1>12, MarkFrom

(* A folder is listed.  The row's watermark counts again for the server's   *)
(* UIDs, and the job takes it over; another job may hold one from before,   *)
(* which is why only one of the two hazards is allowed.                     *)
LEMMA UpsertMoves ==
  ASSUME TypeOK, NEW j \in Jobs, NEW f \in Folders, Upsert(j, f)
  PROVE  /\ UNCHANGED <<server, uidNext, validity, emails, skipped>>
         /\ folders'[f].uidvalidity = validity[f]
         /\ folders'[f].lastUid \in {0, folders[f].lastUid}
         /\ folders'[f].lastUid # 0 => folders[f].uidvalidity = validity[f]
         /\ \A g \in Folders \ {f} : folders'[g] = folders[g]
         /\ job'[j].pc \notin FolderPcs
         /\ \A g \in Folders : job'[j].last[g] = IF g = f THEN folders'[f].lastUid ELSE job[j].last[g]
         /\ \A k \in Jobs \ {j} : job'[k] = job[k]
<1>1. PICK last : last = IF folders[f].uidvalidity = validity[f] THEN folders[f].lastUid ELSE 0
  OBVIOUS
<1>2. PICK rest : rest = job[j].todo \ {f}
  OBVIOUS
<1>3. PICK row : row = [uidvalidity |-> validity[f], lastUid |-> last, enabled |-> folders[f].enabled]
  OBVIOUS
<1>4. PICK copy : copy = [job[j].last EXCEPT ![f] = last]
  OBVIOUS
<1>5. PICK pc, todo : /\ pc = IF rest = {} THEN "pick" ELSE "list"
                      /\ todo = IF rest = {} THEN Folders ELSE rest
  OBVIOUS
<1>6. PICK x : x = Between(pc, todo, copy)
  OBVIOUS
<1>7. x.pc = pc /\ x.last = copy
  BY <1>6 DEF Between
<1>8. folders' = [folders EXCEPT ![f] = row] /\ job' = [job EXCEPT ![j] = x]
  BY <1>1, <1>2, <1>3, <1>4, <1>5, <1>6 DEF Upsert
<1>9. /\ folders'[f] = row /\ \A g \in Folders \ {f} : folders'[g] = folders[g]
      /\ job'[j] = x /\ \A k \in Jobs \ {j} : job'[k] = job[k]
  BY <1>8 DEF TypeOK
<1>10. job[j].last \in [Folders -> 0 .. MaxUid]
  BY DEF TypeOK, JobRecords
<1>11. \A g \in Folders : x.last[g] = IF g = f THEN last ELSE job[j].last[g]
  BY <1>4, <1>7, <1>10
<1>12. row.uidvalidity = validity[f] /\ row.lastUid = last
  BY <1>3
<1>13. x.pc \notin FolderPcs
  BY <1>5, <1>7 DEF FolderPcs, MessagePcs
<1>14. UNCHANGED <<server, uidNext, validity, emails, skipped>>
  BY DEF Upsert, serverVars
<1> QED BY <1>1, <1>9, <1>11, <1>12, <1>13, <1>14

LEMMA MarkUpsert ==
  ASSUME TypeOK, MarkInv, OneJobOrEpoch, NEW j \in Jobs, NEW f \in Folders, Upsert(j, f)
  PROVE  MarkInv'
<1>1. /\ UNCHANGED <<server, uidNext, validity, emails, skipped>>
      /\ folders'[f].uidvalidity = validity[f]
      /\ folders'[f].lastUid \in {0, folders[f].lastUid}
      /\ folders'[f].lastUid # 0 => folders[f].uidvalidity = validity[f]
      /\ \A g \in Folders \ {f} : folders'[g] = folders[g]
      /\ job'[j].pc \notin FolderPcs
      /\ \A g \in Folders : job'[j].last[g] = IF g = f THEN folders'[f].lastUid ELSE job[j].last[g]
      /\ \A k \in Jobs \ {j} : job'[k] = job[k]
  BY UpsertMoves
<1>2. \A g \in Folders, u \in Uids : Safe(g, u)' <=> Safe(g, u)
  BY <1>1 DEF Safe, Archived
<1>3. \A g \in Folders \ {f} : Current(g)' <=> Current(g)
  BY <1>1 DEF Current
<1>4. \A u \in Uids : u <= folders'[f].lastUid => Safe(f, u)
  <2>1. SUFFICES ASSUME NEW u \in Uids, u <= folders'[f].lastUid PROVE Safe(f, u)
    OBVIOUS
  <2>2. folders'[f].lastUid # 0
    BY <2>1, Bounds
  <2>3. Current(f) /\ u <= folders[f].lastUid
    BY <1>1, <2>1, <2>2 DEF Current
  <2> QED BY <2>3 DEF MarkInv, RowMark
<1>5. ASSUME NEW g \in Folders PROVE RowMark(g)' /\ folders'[g].uidvalidity <= validity'[g]
  <2>1. CASE g = f
    <3>1. validity[f] <= validity[f]
      BY Bounds
    <3> QED BY <1>1, <1>2, <1>4, <2>1, <3>1 DEF RowMark
  <2>2. CASE g # f
    BY <1>1, <1>2, <1>3, <2>2 DEF MarkInv, RowMark
  <2> QED BY <2>1, <2>2
<1>6. JobMark(j)'
  <2>1. SUFFICES ASSUME NEW g \in Folders, Current(g)', NEW u \in Uids, u <= job'[j].last[g]
                 PROVE  Safe(g, u)'
    BY DEF JobMark
  <2>2. CASE g = f
    BY <1>1, <1>2, <1>4, <2>1, <2>2
  <2>3. CASE g # f
    BY <1>1, <1>2, <1>3, <2>1, <2>3 DEF MarkInv, JobMark
  <2> QED BY <2>2, <2>3
<1>7. BatchMark(j)'
  BY <1>1 DEF BatchMark
<1>8. ASSUME NEW k \in Jobs, k # j PROVE JobMark(k)' /\ BatchMark(k)'
  <2>1. \A g \in Folders : Current(g)
    BY <1>8 DEF OneJobOrEpoch, Current
  <2>2. job'[k] = job[k] /\ validity' = validity /\ JobMark(k) /\ BatchMark(k)
    BY <1>1, <1>8 DEF MarkInv
  <2>3. JobMark(k)'
    BY <1>2, <2>1, <2>2 DEF JobMark
  <2>4. PICK g \in Folders : g = job[k].folder
    BY Bounds
  <2>5. BatchMark(k)'
    BY <1>2, <2>1, <2>2, <2>4 DEF BatchMark
  <2> QED BY <2>3, <2>5
<1> QED BY <1>5, <1>6, <1>7, <1>8 DEF MarkInv

(* A folder is entered: what the batch leaves out is not on the server, or  *)
(* below the job's own watermark.                                           *)
LEMMA MarkSelect ==
  ASSUME TypeOK, ServerInv, MarkInv, NEW j \in Jobs, NEW f \in Folders, Select(j, f)
  PROVE  MarkInv'
<1>1. PICK s : job' = [job EXCEPT ![j] = InFolder(j, f, s)]
  BY DEF Select
<1>2. PICK b : b = Fetched(f, job[j].last[f] + 1)
  OBVIOUS
<1>3. PICK x : x = InFolder(j, f, s)
  OBVIOUS
<1>4. x.last = job[j].last /\ x.folder = f /\ x.validity = validity[f] /\ x.batch = b
  BY <1>2, <1>3 DEF InFolder
<1>5. job'[j] = x /\ \A k \in Jobs \ {j} : job'[k] = job[k]
  BY <1>1, <1>3 DEF TypeOK
<1>6. UNCHANGED <<server, uidNext, validity, folders, emails, skipped>>
  BY DEF Select, serverVars
<1>7. \A g \in Folders, u \in Uids : Safe(g, u)' <=> Safe(g, u)
  BY <1>6 DEF Safe, Archived
<1>8. \A g \in Folders : Current(g)' <=> Current(g)
  BY <1>6 DEF Current
<1>9. \A g \in Folders : RowMark(g)' /\ folders'[g].uidvalidity <= validity'[g]
  BY <1>6, <1>7, <1>8 DEF MarkInv, RowMark
<1>10. \A k \in Jobs : JobMark(k)'
  <2>1. \A k \in Jobs : job'[k].last = job[k].last
    BY <1>4, <1>5
  <2> QED BY <1>7, <1>8, <2>1 DEF MarkInv, JobMark
<1>11. BatchMark(j)'
  <2>1. SUFFICES ASSUME Current(f), NEW u \in Uids, NEW v \in Uids, b[u] # NoMsg, v < u
                 PROVE  b[v] # NoMsg \/ Safe(f, v)
    BY <1>4, <1>5, <1>6, <1>7, <1>8 DEF BatchMark
  <2>2. /\ b[u] \in {server[f][u], NoMsg}
        /\ v >= job[j].last[f] + 1 => b[v] = server[f][v]
    BY <1>2 DEF Fetched
  <2>3. server[f][u] # NoMsg
    BY <2>1, <2>2
  <2>4. v < uidNext[f]
    <3>1. ~(u >= uidNext[f])
      BY <2>3 DEF ServerInv
    <3> QED BY <2>1, <3>1, Bounds
  <2>5. CASE v <= job[j].last[f]
    BY <2>1, <2>5 DEF MarkInv, JobMark
  <2>6. CASE ~(v <= job[j].last[f])
    <3>1. v >= job[j].last[f] + 1
      BY <2>6, Bounds
    <3>2. b[v] = server[f][v]
      BY <2>2, <3>1
    <3> QED BY <2>4, <3>2 DEF Safe
  <2> QED BY <2>5, <2>6
<1>12. ASSUME NEW k \in Jobs, k # j PROVE BatchMark(k)'
  <2>1. PICK g \in Folders : g = job[k].folder
    BY Bounds
  <2>2. BatchMark(k) /\ job'[k] = job[k] /\ validity' = validity
    BY <1>5, <1>6, <1>12 DEF MarkInv
  <2> QED BY <1>7, <1>8, <2>1, <2>2 DEF BatchMark
<1> QED BY <1>9, <1>10, <1>11, <1>12 DEF MarkInv

(* Steps that touch neither a watermark nor a job. *)
LEMMA MarkCalm ==
  ASSUME TypeOK, MarkInv, Calm, job' = job,
         \A f \in Folders : /\ folders'[f].uidvalidity = folders[f].uidvalidity
                            /\ folders'[f].lastUid = folders[f].lastUid
  PROVE  MarkInv'
<1>1. \A k \in Jobs : \/ job'[k].pc \notin FolderPcs
                      \/ job[k].pc \in FolderPcs /\ job'[k] = job[k]
  OBVIOUS
<1> QED BY <1>1, MarkFrom

LEMMA MarkDeliver ==
  ASSUME TypeOK, MarkInv, NEW f \in Folders, NEW m \in Messages, Deliver(f, m)
  PROVE  MarkInv'
<1>1. UNCHANGED <<validity, folders, emails, job, skipped>>
  BY DEF Deliver
<1>2. PICK n : n = uidNext[f]
  OBVIOUS
<1>3. PICK col : col = [server[f] EXCEPT ![n] = m]
  OBVIOUS
<1>4. uidNext' = [uidNext EXCEPT ![f] = n + 1] /\ server' = [server EXCEPT ![f] = col]
  BY <1>2, <1>3 DEF Deliver
<1>5. n \in Nat /\ server[f] \in [Uids -> Messages \cup {NoMsg}]
  BY <1>2, Bounds DEF TypeOK
<1>6. /\ \A g \in Folders \ {f} : server'[g] = server[g] /\ uidNext'[g] = uidNext[g]
      /\ server'[f] = col /\ uidNext'[f] = n + 1
  BY <1>4 DEF TypeOK
<1>7. ASSUME NEW g \in Folders, NEW u \in Uids, Safe(g, u) PROVE Safe(g, u)'
  <2>1. u < uidNext[g] /\ u \in Nat
    BY <1>7, Bounds DEF Safe
  <2>2. u < uidNext'[g] /\ server'[g][u] = server[g][u]
    <3>1. CASE g = f
      BY <1>2, <1>3, <1>5, <1>6, <1>7, <2>1, <3>1
    <3>2. CASE g # f
      BY <1>6, <2>1, <3>2
    <3> QED BY <3>1, <3>2
  <2> QED BY <1>1, <1>7, <2>2, SafeKept
<1>8. Calm
  BY <1>1, <1>7 DEF Calm
<1> QED BY <1>1, <1>8, MarkCalm

(* Renumbering takes a folder out of what its row and the jobs speak of. *)
LEMMA MarkRecreate ==
  ASSUME TypeOK, MarkInv, NEW f \in Folders, Recreate(f)
  PROVE  MarkInv'
<1>1. UNCHANGED <<folders, emails, job, skipped>>
  BY DEF Recreate
<1>2. /\ \A g \in Folders \ {f} : /\ server'[g] = server[g] /\ uidNext'[g] = uidNext[g]
                                  /\ validity'[g] = validity[g]
      /\ validity'[f] = validity[f] + 1
  BY DEF Recreate, TypeOK
<1>3. MaxValidity # 1
  BY BoundsAssumption DEF Recreate, TypeOK
<1>4. ~Current(f)' /\ folders'[f].uidvalidity <= validity'[f]
  <2>1. folders[f].uidvalidity <= validity[f]
    BY DEF MarkInv
  <2> QED BY <1>1, <1>2, <1>3, <2>1, Bounds DEF Current
<1>5. \A g \in Folders \ {f} : Current(g)' <=> Current(g)
  BY <1>1, <1>2 DEF Current
<1>6. \A g \in Folders \ {f}, u \in Uids : Safe(g, u)' <=> Safe(g, u)
  BY <1>1, <1>2 DEF Safe, Archived
<1>7. ASSUME NEW g \in Folders PROVE RowMark(g)' /\ folders'[g].uidvalidity <= validity'[g]
  <2>1. CASE g = f
    BY <1>4, <2>1 DEF RowMark
  <2>2. CASE g # f
    BY <1>1, <1>2, <1>5, <1>6, <2>2 DEF MarkInv, RowMark
  <2> QED BY <2>1, <2>2
<1>8. ASSUME NEW k \in Jobs PROVE JobMark(k)'
  <2>1. SUFFICES ASSUME NEW g \in Folders, Current(g)', NEW u \in Uids, u <= job'[k].last[g]
                 PROVE  Safe(g, u)'
    BY DEF JobMark
  <2>2. g # f
    BY <1>4, <2>1
  <2> QED BY <1>1, <1>5, <1>6, <2>1, <2>2 DEF MarkInv, JobMark
<1>9. ASSUME NEW k \in Jobs PROVE BatchMark(k)'
  <2>1. PICK g \in Folders : g = job[k].folder
    BY Bounds
  <2>2. CASE g = f
    BY <1>1, <1>4, <2>1, <2>2 DEF BatchMark
  <2>3. CASE g # f
    <3>1. BatchMark(k) /\ job' = job /\ validity'[g] = validity[g]
      BY <1>1, <1>2, <2>3 DEF MarkInv
    <3> QED BY <1>5, <1>6, <2>1, <2>3, <3>1 DEF BatchMark
  <2> QED BY <2>2, <2>3
<1> QED BY <1>7, <1>8, <1>9 DEF MarkInv

LEMMA MarkEnvironment ==
  ASSUME TypeOK, MarkInv, Environment
  PROVE  MarkInv'
<1>1. CASE CrashAndRestart
  <2>1. UNCHANGED <<server, uidNext, validity, folders, emails, skipped>>
    BY <1>1 DEF CrashAndRestart, serverVars
  <2>2. Calm
    BY <2>1, CalmWhile
  <2>3. \A k \in Jobs : job'[k] = Idle
    BY <1>1 DEF CrashAndRestart
  <2>4. \A k \in Jobs : job'[k].pc \notin FolderPcs /\ \A f \in Folders : job'[k].last[f] = 0
    BY <2>3, IdleLast
  <2> QED BY <2>1, <2>2, <2>4, MarkFrom
<1>2. CASE SweepByCommand
  <2>1. UNCHANGED <<server, uidNext, validity, folders, emails, job, skipped>>
    BY <1>2 DEF SweepByCommand, serverVars
  <2> QED BY <2>1, CalmWhile, MarkCalm
<1>3. ASSUME NEW f \in Folders, CreateManualFolder(f) PROVE MarkInv'
  <2>1. UNCHANGED <<server, uidNext, validity, emails, job, skipped>>
    BY <1>3 DEF CreateManualFolder, serverVars
  <2>2. PICK x : x = [folders[f] EXCEPT !.enabled = FALSE]
    OBVIOUS
  <2>3. folders[f] \in [uidvalidity : 0 .. MaxValidity, lastUid : 0 .. MaxUid, enabled : BOOLEAN]
    BY DEF TypeOK
  <2>4. x.uidvalidity = folders[f].uidvalidity /\ x.lastUid = folders[f].lastUid
    BY <2>2, <2>3
  <2>5. folders' = [folders EXCEPT ![f] = x]
    BY <1>3, <2>2 DEF CreateManualFolder
  <2>6. \A g \in Folders : folders'[g] = IF g = f THEN x ELSE folders[g]
    BY <2>5 DEF TypeOK
  <2>7. \A g \in Folders : /\ folders'[g].uidvalidity = folders[g].uidvalidity
                           /\ folders'[g].lastUid = folders[g].lastUid
    BY <2>4, <2>6
  <2> QED BY <2>1, <2>7, CalmWhile, MarkCalm
<1>4. ASSUME NEW f \in Folders, ExpungeByOther(f) PROVE MarkInv'
  <2>1. UNCHANGED <<uidNext, validity, folders, emails, job, skipped>>
    BY <1>4 DEF ExpungeByOther, Remove
  <2>2. Remove(f, flagged[f])
    BY <1>4 DEF ExpungeByOther
  <2>3. \A g \in Folders, v \in Uids : server'[g][v] \in {NoMsg, server[g][v]}
    BY <2>2 DEF Remove, TypeOK
  <2> QED BY <2>1, <2>3, CalmWhile, MarkCalm
<1>5. ASSUME NEW f \in Folders, NEW u \in Uids, FlagByOther(f, u) PROVE MarkInv'
  <2>1. UNCHANGED <<server, uidNext, validity, folders, emails, job, skipped>>
    BY <1>5 DEF FlagByOther
  <2> QED BY <2>1, CalmWhile, MarkCalm
<1> QED BY <1>1, <1>2, <1>3, <1>4, <1>5, MarkDeliver, MarkRecreate DEF Environment

LEMMA MarkNext ==
  ASSUME TypeOK, JobInv, ServerInv, MarkInv, OneJobOrEpoch, [Next]_vars
  PROVE  MarkInv'
<1>1. ASSUME NEW j \in Jobs, Work(j) \/ Failure(j) PROVE MarkInv'
  <2>1. ASSUME NEW f \in Folders, Upsert(j, f) \/ NothingNew(j, f) \/ Select(j, f) PROVE MarkInv'
    BY <2>1, MarkUpsert, MarkStays, MarkSelect
  <2>2. CASE \/ StartSync(j) \/ EndSync(j) \/ FolderDone(j) \/ PersistConflict(j)
             \/ FailSync(j) \/ Stage(j) \/ Commit(j) \/ Examine(j)
    BY <2>2, FirstFolder, MarkStays
  <2>3. CASE SkipDuplicate(j) \/ Persist(j) \/ PersistUnreported(j)
    BY <2>3, MarkAdvance
  <2>4. CASE SkipByRule(j) \/ RuleEffect(j) \/ RuleEffectFails(j)
    BY <2>4, MarkPassed
  <2> QED BY <1>1, <2>1, <2>2, <2>3, <2>4 DEF Work, Failure
<1>2. CASE UNCHANGED vars
  <2>1. UNCHANGED <<server, uidNext, validity, folders, emails, job, skipped>>
    BY <1>2 DEF vars, serverVars
  <2> QED BY <2>1, CalmWhile, MarkCalm
<1> QED BY <1>1, <1>2, MarkEnvironment DEF Next

LEMMA MarkInit == Init => MarkInv
<1> SUFFICES ASSUME Init PROVE MarkInv
  OBVIOUS
<1>1. \A j \in Jobs : job[j] = Idle
  BY DEF Init
<1>2. \A j \in Jobs : job[j].pc \notin FolderPcs /\ \A f \in Folders : job[j].last[f] = 0
  BY <1>1, IdleLast
<1>3. \A f \in Folders : folders[f].lastUid = 0 /\ folders[f].uidvalidity <= validity[f]
  BY DEF Init
<1>4. \A u \in Uids : ~(u <= 0)
  BY BoundsAssumption DEF Uids
<1> QED BY <1>2, <1>3, <1>4 DEF MarkInv, RowMark, JobMark, BatchMark

(* No message that is on the server at or below the watermark of its folder *)
(* is missing from the archive unless a rule skipped it, whatever fails and *)
(* wherever a run is cut off: for runs that overlap, or folders that are    *)
(* renumbered.                                                              *)
THEOREM NothingPassedOver ==
  ASSUME OneJobOrEpoch
  PROVE  Spec => []NothingBelowWatermarkLost
<1>1. Init => TypeOK /\ JobInv /\ FlaggedPresent /\ ServerInv /\ MarkInv
  BY InitInv, MarkInit
<1>2. TypeOK /\ JobInv /\ FlaggedPresent /\ ServerInv /\ MarkInv /\ [Next]_vars
        => TypeOK' /\ JobInv' /\ FlaggedPresent' /\ ServerInv' /\ MarkInv'
  BY TypeNext, ServerNext, MarkNext
<1>3. MarkInv => NothingBelowWatermarkLost
  BY DEF MarkInv, RowMark, Current, Safe, NothingBelowWatermarkLost
<1> QED BY <1>1, <1>2, <1>3, PTL DEF Spec
------------------------------------------------------------------------------
(* One row per Message-ID.  The duplicate check and the insert are two steps *)
(* and no constraint of the database backs them, so this is about runs that *)
(* do not overlap: then the answer of the check still holds at the insert.  *)
LEMMA NewKept ==
  ASSUME DuplicateInv, emails' = emails,
         \A k \in Jobs : \/ job'[k].pc \notin StorePcs
                         \/ job[k].pc \in StorePcs /\ Held(k)' = Held(k)
  PROVE  DuplicateInv'
<1>1. NoDuplicateRows'
  BY DEF DuplicateInv, NoDuplicateRows
<1>2. ASSUME NEW k \in Jobs, job'[k].pc \in StorePcs PROVE ~IsDuplicate(Held(k))'
  <2>1. PICK m : m = Held(k)
    OBVIOUS
  <2>2. ~IsDuplicate(m) /\ Held(k)' = m
    BY <1>2, <2>1 DEF DuplicateInv, NewOnly
  <2> QED BY <2>2 DEF IsDuplicate
<1> QED BY <1>1, <1>2 DEF DuplicateInv, NewOnly

LEMMA NewKeptOne ==
  ASSUME TypeOK, DuplicateInv, emails' = emails, NEW j \in Jobs, NEW x,
         job' = [job EXCEPT ![j] = x],
         \/ x.pc \notin StorePcs
         \/ job[j].pc \in StorePcs /\ x.batch = job[j].batch /\ x.uid = job[j].uid
  PROVE  DuplicateInv'
<1>1. job'[j] = x /\ \A k \in Jobs \ {j} : job'[k] = job[k]
  BY DEF TypeOK
<1> QED BY <1>1, NewKept DEF Held

LEMMA DuplicateListing ==
  ASSUME TypeOK, DuplicateInv, NEW j \in Jobs, NEW f \in Folders,
         \/ StartSync(j) \/ EndSync(j) \/ FolderDone(j) \/ Upsert(j, f) \/ NothingNew(j, f)
         \/ Select(j, f) \/ PersistConflict(j) \/ FailSync(j)
  PROVE  DuplicateInv'
<1>1. emails' = emails
  BY DEF StartSync, EndSync, FolderDone, Upsert, NothingNew, Select, PersistConflict, FailSync
<1>2. job[j] \in JobRecords
  BY DEF TypeOK
<1>3. CASE EndSync(j) \/ PersistConflict(j) \/ FailSync(j)
  <2>1. job' = [job EXCEPT ![j] = Idle]
    BY <1>3 DEF EndSync, PersistConflict, FailSync
  <2>2. Idle.pc \notin StorePcs
    BY IdleType DEF StorePcs
  <2> QED BY <1>1, <2>1, <2>2, NewKeptOne
<1>4. CASE StartSync(j) \/ FolderDone(j)
  <2>1. PICK p, t : p \in {"list", "pick"} /\ job' = [job EXCEPT ![j] = Between(p, t, job[j].last)]
    BY <1>4 DEF StartSync, FolderDone
  <2>2. PICK x : x = Between(p, t, job[j].last)
    OBVIOUS
  <2>3. x.pc = p
    BY <2>2 DEF Between
  <2> QED BY <1>1, <2>1, <2>2, <2>3, NewKeptOne DEF StorePcs
<1>5. CASE Upsert(j, f)
  <2>1. job'[j].pc \notin StorePcs /\ \A k \in Jobs \ {j} : job'[k] = job[k]
    BY <1>5, UpsertMoves DEF StorePcs, FolderPcs, MessagePcs
  <2> QED BY <1>1, <2>1, NewKept DEF Held
<1>6. CASE NothingNew(j, f)
  <2>1. PICK t : t = job[j].todo \ {f}
    OBVIOUS
  <2>2. PICK x : x = [job[j] EXCEPT !.todo = t]
    OBVIOUS
  <2>3. x.pc = "pick"
    BY <1>2, <1>6, <2>2 DEF NothingNew, JobRecords
  <2>4. job' = [job EXCEPT ![j] = x]
    BY <1>6, <2>1, <2>2 DEF NothingNew
  <2> QED BY <1>1, <2>3, <2>4, NewKeptOne DEF StorePcs
<1>7. CASE Select(j, f)
  <2>1. PICK s : job' = [job EXCEPT ![j] = InFolder(j, f, s)]
    BY <1>7 DEF Select
  <2>2. PICK x : x = InFolder(j, f, s)
    OBVIOUS
  <2>3. x.pc = "fetch"
    BY <2>2 DEF InFolder
  <2> QED BY <1>1, <2>1, <2>2, <2>3, NewKeptOne DEF StorePcs
<1> QED BY <1>3, <1>4, <1>5, <1>6, <1>7

(* The message is looked up, and only then stored. *)
LEMMA DuplicateExamine ==
  ASSUME TypeOK, DuplicateInv, NEW j \in Jobs, Examine(j)
  PROVE  DuplicateInv'
<1>1. emails' = emails /\ job[j] \in JobRecords
  BY DEF Examine, TypeOK
<1>2. PICK u \in Uids, rule \in Actions :
        job' = [job EXCEPT ![j] = [job[j] EXCEPT !.uid = u, !.rule = rule,
                    !.pc = IF rule = "skip" THEN "skip"
                           ELSE IF IsDuplicate(job[j].batch[u]) THEN "dup" ELSE "stage"]]
  BY DEF Examine
<1>3. PICK p, x : /\ p = IF rule = "skip" THEN "skip" ELSE IF IsDuplicate(job[j].batch[u]) THEN "dup" ELSE "stage"
                  /\ x = [job[j] EXCEPT !.uid = u, !.rule = rule, !.pc = p]
  OBVIOUS
<1>4. x.pc = p /\ x.batch = job[j].batch /\ x.uid = u
  BY <1>1, <1>3 DEF JobRecords
<1>5. job' = [job EXCEPT ![j] = x]
  BY <1>2, <1>3
<1>6. CASE p \notin StorePcs
  BY <1>1, <1>4, <1>5, <1>6, NewKeptOne
<1>7. CASE p \in StorePcs
  <2>1. PICK m : m = job[j].batch[u]
    OBVIOUS
  <2>2. ~IsDuplicate(m)
    BY <1>3, <1>7, <2>1 DEF StorePcs
  <2>3. job'[j] = x /\ \A k \in Jobs \ {j} : job'[k] = job[k]
    BY <1>5 DEF TypeOK
  <2>4. Held(j)' = m
    BY <1>4, <2>1, <2>3 DEF Held
  <2>5. ~IsDuplicate(Held(j))'
    BY <1>1, <2>2, <2>4 DEF IsDuplicate
  <2>6. ASSUME NEW k \in Jobs, k # j, job'[k].pc \in StorePcs PROVE ~IsDuplicate(Held(k))'
    <3>1. ~IsDuplicate(Held(k)) /\ Held(k)' = Held(k)
      BY <2>3, <2>6 DEF DuplicateInv, NewOnly, Held
    <3>2. PICK h : h = Held(k)
      OBVIOUS
    <3>3. ~IsDuplicate(h) /\ Held(k)' = h
      BY <3>1, <3>2
    <3> QED BY <1>1, <3>3 DEF IsDuplicate
  <2>7. NoDuplicateRows'
    BY <1>1 DEF DuplicateInv, NoDuplicateRows
  <2> QED BY <2>5, <2>6, <2>7 DEF DuplicateInv, NewOnly
<1> QED BY <1>6, <1>7

(* The row that is inserted is the first with its Message-ID. *)
LEMMA DuplicateInsert ==
  ASSUME TypeOK, DuplicateInv, \A i, k \in Jobs : i = k, NEW j \in Jobs,
         Persist(j) \/ PersistUnreported(j)
  PROVE  DuplicateInv'
<1>1. PICK m : m = Held(j)
  OBVIOUS
<1>2. PICK row : row = [folder |-> job[j].folder, uid |-> job[j].uid, msg |-> m, path |-> PathOf(j)]
  OBVIOUS
<1>3. emails' = emails \cup {row} /\ row.msg = m
  BY <1>1, <1>2 DEF Persist, PersistUnreported, InsertRow
<1>4. job[j].pc = "persist" /\ ~IsDuplicate(m)
  BY <1>1 DEF Persist, PersistUnreported, DuplicateInv, NewOnly, StorePcs
<1>5. NoDuplicateRows'
  <2>1. MessageId[m] # "" => \A e \in emails : MessageId[e.msg] # MessageId[m]
    BY <1>4 DEF IsDuplicate
  <2>2. NoDuplicateRows
    BY DEF DuplicateInv
  <2> QED BY <1>3, <2>1, <2>2 DEF NoDuplicateRows
<1>6. \A k \in Jobs : job'[k].pc \notin StorePcs
  <2>1. job[j] \in JobRecords
    BY DEF TypeOK
  <2>2. PICK x : x = [job[j] EXCEPT !.pc = "effect"]
    OBVIOUS
  <2>3. x.pc = "effect" /\ Idle.pc = "idle"
    BY <2>1, <2>2, IdleType DEF JobRecords
  <2>4. job' = [job EXCEPT ![j] = x] \/ job' = [job EXCEPT ![j] = Idle]
    BY <2>2 DEF Persist, PersistUnreported, Step
  <2>5. job'[j] = x \/ job'[j] = Idle
    BY <2>4 DEF TypeOK
  <2> QED BY <2>3, <2>5 DEF StorePcs
<1> QED BY <1>5, <1>6 DEF DuplicateInv, NewOnly

(* The other steps on a message. *)
LEMMA DuplicateOnMessage ==
  ASSUME TypeOK, DuplicateInv, NEW j \in Jobs,
         \/ SkipByRule(j) \/ SkipDuplicate(j) \/ Stage(j) \/ Commit(j)
         \/ RuleEffect(j) \/ RuleEffectFails(j)
  PROVE  DuplicateInv'
<1>1. emails' = emails /\ job[j] \in JobRecords
  BY DEF SkipByRule, SkipDuplicate, Stage, Commit, RuleEffect, RuleEffectFails, TypeOK
<1>2. CASE job' = [job EXCEPT ![j] = Idle]
  BY <1>1, <1>2, IdleType, NewKeptOne DEF StorePcs
<1>3. CASE NextMessage(j)
  <2>1. PICK x : x = Passed(j)
    OBVIOUS
  <2>2. x.pc = "fetch"
    BY <1>1, <2>1 DEF Passed, JobRecords
  <2> QED BY <1>1, <1>3, <2>1, <2>2, NewKeptOne DEF NextMessage, StorePcs
<1>4. ASSUME NEW p, Step(j, p), p \in StorePcs => job[j].pc \in StorePcs PROVE DuplicateInv'
  <2>1. PICK x : x = [job[j] EXCEPT !.pc = p]
    OBVIOUS
  <2>2. x.pc = p /\ x.batch = job[j].batch /\ x.uid = job[j].uid
    BY <1>1, <2>1 DEF JobRecords
  <2> QED BY <1>1, <1>4, <2>1, <2>2, NewKeptOne DEF Step
<1>5. CASE Stage(j) /\ job' # [job EXCEPT ![j] = Idle]
  <2>1. PICK c : c = job[j].counter + 1
    OBVIOUS
  <2>2. PICK x : x = [job[j] EXCEPT !.pc = "commit", !.counter = c]
    OBVIOUS
  <2>3. x.batch = job[j].batch /\ x.uid = job[j].uid
    BY <1>1, <2>2 DEF JobRecords
  <2>4. job' = [job EXCEPT ![j] = x] /\ job[j].pc = "stage"
    BY <1>5, <2>1, <2>2 DEF Stage
  <2> QED BY <1>1, <2>3, <2>4, NewKeptOne DEF StorePcs
<1>6. "effect" \notin StorePcs
  BY DEF StorePcs
<1>7. SkipDuplicate(j) => Step(j, "effect")
  BY DEF SkipDuplicate
<1>8. Commit(j) => job' = [job EXCEPT ![j] = Idle] \/ (Step(j, "persist") /\ job[j].pc \in StorePcs)
  BY DEF Commit, StorePcs
<1>9. SkipByRule(j) \/ RuleEffect(j) \/ RuleEffectFails(j) => NextMessage(j)
  BY DEF SkipByRule, RuleEffect, RuleEffectFails
<1> QED BY <1>2, <1>3, <1>4, <1>5, <1>6, <1>7, <1>8, <1>9

LEMMA DuplicateNext ==
  ASSUME TypeOK, DuplicateInv, \A i, k \in Jobs : i = k, [Next]_vars
  PROVE  DuplicateInv'
<1>1. ASSUME NEW j \in Jobs, Work(j) \/ Failure(j) PROVE DuplicateInv'
  <2>1. ASSUME NEW f \in Folders, Upsert(j, f) \/ NothingNew(j, f) \/ Select(j, f)
        PROVE  DuplicateInv'
    BY <2>1, DuplicateListing
  <2>2. CASE StartSync(j) \/ EndSync(j) \/ FolderDone(j) \/ PersistConflict(j) \/ FailSync(j)
    BY <2>2, FirstFolder, DuplicateListing
  <2>3. CASE Examine(j)
    BY <2>3, DuplicateExamine
  <2>4. CASE Persist(j) \/ PersistUnreported(j)
    BY <2>4, DuplicateInsert
  <2>5. CASE \/ SkipByRule(j) \/ SkipDuplicate(j) \/ Stage(j) \/ Commit(j)
             \/ RuleEffect(j) \/ RuleEffectFails(j)
    BY <2>5, DuplicateOnMessage
  <2> QED BY <1>1, <2>1, <2>2, <2>3, <2>4, <2>5 DEF Work, Failure
<1>2. CASE Environment
  <2>1. emails' = emails
    BY <1>2 DEF Environment, CrashAndRestart, SweepByCommand, CreateManualFolder, Recreate,
                ExpungeByOther, Deliver, FlagByOther
  <2>2. job' = job \/ \A k \in Jobs : job'[k] = Idle
    BY <1>2 DEF Environment, CrashAndRestart, SweepByCommand, CreateManualFolder, Recreate,
                ExpungeByOther, Deliver, FlagByOther
  <2>3. \A k \in Jobs : \/ job'[k].pc \notin StorePcs
                        \/ job[k].pc \in StorePcs /\ Held(k)' = Held(k)
    BY <2>2, IdleType DEF StorePcs, Held
  <2> QED BY <2>1, <2>3, NewKept
<1>3. CASE UNCHANGED vars
  <2>1. emails' = emails /\ job' = job
    BY <1>3 DEF vars
  <2> QED BY <2>1, NewKept DEF Held
<1> QED BY <1>1, <1>2, <1>3 DEF Next

(* However often a message comes back under a new UID, in another folder or *)
(* after a renumbering, and wherever runs are cut off, its Message-ID has   *)
(* one row: when the runs of the account do not overlap.                    *)
THEOREM MessageIdsStayUnique ==
  ASSUME \A i, k \in Jobs : i = k
  PROVE  Spec => []NoDuplicateRows
<1>1. Init => TypeOK /\ JobInv /\ FlaggedPresent /\ DuplicateInv
  <2>1. Init => DuplicateInv
    BY IdleType DEF Init, DuplicateInv, NoDuplicateRows, NewOnly, StorePcs
  <2> QED BY <2>1, InitInv
<1>2. TypeOK /\ JobInv /\ FlaggedPresent /\ DuplicateInv /\ [Next]_vars
        => TypeOK' /\ JobInv' /\ FlaggedPresent' /\ DuplicateInv'
  BY TypeNext, DuplicateNext
<1>3. DuplicateInv => NoDuplicateRows
  BY DEF DuplicateInv
<1> QED BY <1>1, <1>2, <1>3, PTL DEF Spec
=============================================================================
