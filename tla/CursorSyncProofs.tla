-------------------------- MODULE CursorSyncProofs --------------------------
(***************************************************************************)
(* Proofs about CursorSync, for both connectors and any messages, folders, *)
(* jobs, rules and faults: type correctness, NothingBelowCursorLost,       *)
(* NoDuplicateRows, and that it implements ArchivePromise.                 *)
(***************************************************************************)
EXTENDS CursorSync, TLAPS

InFolder  == {"list", "listall", "fetch", "check", "archive", "effect"}
InBatch   == {"fetch", "check", "archive", "effect"}
OnMessage == {"check", "archive", "effect"}

(* A message some folder holds is in that folder's change log. *)
ServerInv ==
    /\ \A m \in Messages : where[m] \in Folders \cup {"none", "hidden", "gone"}
    /\ \A m \in Messages : where[m] \in AllFolders => \E p \in DOMAIN log[where[m]] : log[where[m]][p] = m

(* What a job holds: positions of the log, a message of its batch. *)
JobOf(j) ==
    /\ job[j].pc # "idle" => job[j].todo \subseteq Folders
    /\ job[j].pc = "open" => job[j].next = 0 /\ (connector = "gmail" => job[j].link <= Now(AllMail))
    /\ job[j].pc \in InFolder =>
          /\ job[j].folder \in Folders
          /\ job[j].uid \in 1 .. lastUid[job[j].folder] + 1
          /\ job[j].link <= Now(job[j].folder) /\ job[j].next <= Now(job[j].folder)
    /\ job[j].pc \in OnMessage => job[j].msg \in Messages
    /\ connector = "gmail" => ~job[j].more

JobInv == \A j \in Jobs : JobOf(j)

(* Every message still in f that no cursor from c on will return again is   *)
(* archived, skipped or one of S.                                           *)
Passed(f, c, S) ==
    \A m \in Listed(f) : (\A p \in DOMAIN log[f] : log[f][p] = m => p < c) => Reached(m) \/ m \in S

(* How far the job has come in the log, and what it still has in hand. *)
ReachOf(j) ==
    /\ connector = "gmail" /\ job[j].pc = "open" => Passed(AllMail, job[j].link, {})
    /\ job[j].pc = "list" => Passed(job[j].folder, job[j].link, {})
    /\ job[j].pc \in InBatch =>
          Passed(job[j].folder, IF job[j].more THEN job[j].link ELSE job[j].next, job[j].ids)
    /\ job[j].pc \in InBatch /\ connector = "graph" /\ ~job[j].more => job[j].link = job[j].next
    /\ job[j].pc = "listall" => connector = "gmail"
    /\ job[j].pc = "effect" => \E n \in Archived : Covers(n, job[j].msg)

ReachInv == (\A f \in AllFolders : Passed(f, cursor[f], {})) /\ \A j \in Jobs : ReachOf(j)

Twins(m, n) == MessageId[m] # "" /\ MessageId[m] = MessageId[n]

(* A Message-ID has one row in a folder. *)
RowsUnique == \A d, e \in emails : d.folder = e.folder /\ Twins(d.msg, e.msg) => d = e

(* The rows of a folder take its UIDs without gaps, so a job's next UID is   *)
(* free only if nobody archived there since the job looked.                  *)
RowsInv ==
    /\ \A e \in emails : e.uid \in 1 .. lastUid[e.folder]
    /\ \A f \in AllFolders : \A u \in 1 .. lastUid[f] : \E e \in emails : e.folder = f /\ e.uid = u
    /\ \A j \in Jobs, e \in emails :
          job[j].pc = "archive" /\ job[j].uid > lastUid[job[j].folder] /\ e.folder = job[j].folder =>
             ~Twins(job[j].msg, e.msg)

CursorInv == TypeOK /\ ServerInv /\ JobInv /\ ReachInv
------------------------------------------------------------------------------
(* The records and the log. *)
LEMMA IdleIsJob == Idle \in JobType
  BY DEF Idle, JobType, AllFolders, Actions

LEMMA FoldersKnown ==
  /\ Folders \subseteq AllFolders /\ AllMail \in AllFolders /\ Trash \in AllFolders
  /\ connector = "gmail" => Folders = {AllMail}
  /\ connector = "graph" => Trash \in Folders
  /\ AllFolders \subseteq Places
  /\ {"none", "hidden", "gone"} \cap AllFolders = {} /\ {"none", "hidden", "gone"} \subseteq Places
  BY CursorAssumption DEF Folders, AllFolders, Places, AllMail

LEMMA InitInv == Init => CursorInv /\ RowsInv
<1> SUFFICES ASSUME Init PROVE CursorInv /\ RowsInv
  OBVIOUS
<1>1. TypeOK
  BY IdleIsJob, FoldersKnown, CursorAssumption DEF Init, TypeOK, Now
<1>2. ServerInv
  BY FoldersKnown DEF Init, ServerInv
<1>3. JobInv
  BY DEF Init, JobInv, JobOf, Idle, InFolder, OnMessage
<1>4. ReachInv
  BY FoldersKnown DEF Init, ReachInv, ReachOf, Idle, InBatch, Passed, Listed
<1>5. RowsInv
  BY DEF Init, RowsInv, Idle
<1> QED BY <1>1, <1>2, <1>3, <1>4, <1>5 DEF CursorInv

(* A message is put at the end of a folder's log. *)
LEMMA LogGrows ==
  ASSUME TypeOK, NEW f \in AllFolders, NEW m \in Messages,
         log' = [log EXCEPT ![f] = Append(@, m)]
  PROVE  /\ log' \in [AllFolders -> Seq(Messages)]
         /\ \A g \in AllFolders : Now(g)' = IF g = f THEN Now(g) + 1 ELSE Now(g)
         /\ \A g \in AllFolders : \A p \in DOMAIN log[g] :
                p \in DOMAIN log'[g] /\ log'[g][p] = log[g][p]
         /\ Now(f) \in DOMAIN log'[f] /\ log'[f][Now(f)] = m
<1>1. log \in [AllFolders -> Seq(Messages)]
  BY DEF TypeOK
<1>2. log'[f] = Append(log[f], m) /\ \A g \in AllFolders : g # f => log'[g] = log[g]
  BY <1>1
<1>3. log[f] \in Seq(Messages)
  BY <1>1
<1>4. /\ Append(log[f], m) \in Seq(Messages)
      /\ Len(Append(log[f], m)) = Len(log[f]) + 1
      /\ Append(log[f], m)[Len(log[f]) + 1] = m
      /\ \A p \in 1 .. Len(log[f]) : Append(log[f], m)[p] = log[f][p]
  BY <1>3
<1>5. DOMAIN log[f] = 1 .. Len(log[f]) /\ DOMAIN log'[f] = 1 .. Len(log[f]) + 1
  BY <1>2, <1>3, <1>4
<1>6. Len(log[f]) \in Nat
  BY <1>3
<1>7. log' \in [AllFolders -> Seq(Messages)]
  BY <1>1, <1>4
<1>8. \A g \in AllFolders : Now(g)' = IF g = f THEN Now(g) + 1 ELSE Now(g)
  BY <1>2, <1>4 DEF Now
<1>9. Now(f) \in DOMAIN log'[f] /\ log'[f][Now(f)] = m
  BY <1>2, <1>4, <1>5, <1>6 DEF Now
<1>10. \A g \in AllFolders : \A p \in DOMAIN log[g] :
           p \in DOMAIN log'[g] /\ log'[g][p] = log[g][p]
  BY <1>2, <1>4, <1>5, <1>6
<1> QED BY <1>7, <1>8, <1>9, <1>10

(* What a step may do to the mailbox: a message arrives in a folder, or it  *)
(* leaves the folders.                                                      *)
Arrives(m, f) == where' = [where EXCEPT ![m] = f] /\ log' = [log EXCEPT ![f] = Append(@, m)]
Leaves(m) == \E p \in {"hidden", "gone"} : where' = [where EXCEPT ![m] = p] /\ log' = log

LEMMA ServerChanges ==
  ASSUME [Next]_vars
  PROVE  \/ UNCHANGED <<where, log>>
         \/ \E j \in Jobs : RuleEffect(j)
         \/ \E m \in Messages, f \in AllFolders : Deliver(m, f) \/ MoveByOther(m, f)
         \/ \E m \in Messages : EraseByOther(m)
<1>1. ASSUME NEW j \in Jobs, StartSync(j) \/ List(j) PROVE UNCHANGED <<where, log>>
  BY <1>1 DEF List, StartSync, OpenFolder, ListHistory, GetProfile, ListAll, DeltaPage, DeltaExpired, NextPage,
     Listing, serverVars
<1>2. ASSUME NEW j \in Jobs, Process(j), ~RuleEffect(j) PROVE UNCHANGED <<where, log>>
  BY <1>2 DEF Process, FetchFails, Evaluate, CheckDuplicate, Archive, ArchiveConflict, PersistCursor,
     Listing, serverVars
<1>3. ASSUME Failure PROVE UNCHANGED <<where, log>>
  BY <1>3 DEF Failure, ArchiveUnreported, RuleEffectFails, FailSync, CrashAndRestart, serverVars
<1>4. ASSUME NEW f \in AllFolders, Expire(f) PROVE UNCHANGED <<where, log>>
  BY <1>4 DEF Expire
<1>5. CASE UNCHANGED vars
  BY <1>5 DEF vars, serverVars
<1> QED BY <1>1, <1>2, <1>3, <1>4, <1>5 DEF Next, Work, Environment

LEMMA ServerStep ==
  ASSUME TypeOK, JobInv, [Next]_vars
  PROVE  \/ UNCHANGED <<where, log>>
         \/ \E m \in Messages, f \in Folders : Arrives(m, f)
         \/ \E m \in Messages : Leaves(m)
<1>1. ASSUME NEW j \in Jobs, RuleEffect(j)
      PROVE  \/ UNCHANGED <<where, log>>
             \/ \E m \in Messages, f \in Folders : Arrives(m, f)
             \/ \E m \in Messages : Leaves(m)
  <2>1. job[j].pc = "effect" /\ job[j].msg \in Messages
    BY <1>1 DEF RuleEffect, JobInv, JobOf, OnMessage
  <2>2. PICK m \in Messages : m = job[j].msg
    BY <2>1
  <2>3. CASE Discard(m, job[j].folder)
    <3>1. CASE connector = "gmail"
      <4>1. log' = log /\ where' = [where EXCEPT ![m] = IF @ = job[j].folder THEN "hidden" ELSE @]
        BY <2>3, <3>1 DEF Discard
      <4>2. CASE where[m] = job[j].folder
        BY <4>1, <4>2 DEF Leaves
      <4>3. CASE where[m] # job[j].folder
        BY <4>1, <4>3 DEF TypeOK
      <4> QED BY <4>2, <4>3
    <3>2. CASE connector = "graph" /\ where[m] = job[j].folder /\ job[j].folder # Trash
      BY <2>3, <3>2, FoldersKnown DEF Discard, Arrives
    <3>3. CASE connector = "graph" /\ where[m] = job[j].folder /\ job[j].folder = Trash
      BY <2>3, <3>3 DEF Discard, Leaves
    <3>4. CASE connector # "gmail" /\ ~(connector = "graph" /\ where[m] = job[j].folder)
      BY <2>3, <3>4 DEF Discard
    <3> QED BY <3>1, <3>2, <3>3, <3>4
  <2> QED BY <1>1, <2>2, <2>3 DEF RuleEffect
<1>2. ASSUME NEW m \in Messages, NEW f \in AllFolders, Deliver(m, f) \/ MoveByOther(m, f)
      PROVE  f \in Folders /\ Arrives(m, f)
  BY <1>2 DEF Deliver, MoveByOther, Arrive, Arrives
<1>3. ASSUME NEW m \in Messages, EraseByOther(m) PROVE Leaves(m)
  BY <1>3 DEF EraseByOther, Leaves
<1> QED BY <1>1, <1>2, <1>3, ServerChanges

(* So the logs only grow, and a message is listed anew only further on. *)
LEMMA LogStep ==
  ASSUME TypeOK, JobInv, [Next]_vars, NEW f \in AllFolders
  PROVE  /\ Now(f) \in Nat /\ Now(f)' \in Nat /\ Now(f) <= Now(f)'
         /\ \A p \in DOMAIN log[f] : p \in DOMAIN log'[f] /\ log'[f][p] = log[f][p]
         /\ \A m \in Listed(f)' : \/ m \in Listed(f)
                                  \/ Now(f) \in DOMAIN log'[f] /\ log'[f][Now(f)] = m
<1>0. log[f] \in Seq(Messages) /\ Now(f) \in Nat
  BY DEF TypeOK, Now
<1>1. CASE UNCHANGED <<where, log>>
  BY <1>0, <1>1 DEF Now, Listed
<1>2. ASSUME NEW m \in Messages, NEW g \in Folders, Arrives(m, g)
      PROVE  /\ Now(f)' \in Nat /\ Now(f) <= Now(f)'
             /\ \A p \in DOMAIN log[f] : p \in DOMAIN log'[f] /\ log'[f][p] = log[f][p]
             /\ \A n \in Listed(f)' : \/ n \in Listed(f)
                                      \/ Now(f) \in DOMAIN log'[f] /\ log'[f][Now(f)] = n
  <2>1. g \in AllFolders
    BY FoldersKnown
  <2>2. /\ Now(f)' = IF f = g THEN Now(f) + 1 ELSE Now(f)
        /\ \A p \in DOMAIN log[f] : p \in DOMAIN log'[f] /\ log'[f][p] = log[f][p]
        /\ Now(g) \in DOMAIN log'[g] /\ log'[g][Now(g)] = m
    BY <1>2, <2>1, LogGrows DEF Arrives
  <2>3. \A n \in Listed(f)' : n \in Listed(f) \/ (n = m /\ f = g)
    BY <1>2 DEF Listed, Arrives, TypeOK
  <2> QED BY <1>0, <2>2, <2>3
<1>3. ASSUME NEW m \in Messages, Leaves(m) PROVE log' = log /\ Listed(f)' \subseteq Listed(f)
  BY <1>3, FoldersKnown DEF Leaves, Listed, TypeOK
<1> QED BY <1>0, <1>1, <1>2, <1>3, ServerStep DEF Now

LEMMA ServerNext ==
  ASSUME TypeOK, JobInv, ServerInv, [Next]_vars
  PROVE  /\ ServerInv'
         /\ where' \in [Messages -> Places] /\ log' \in [AllFolders -> Seq(Messages)]
<1>0. connector' = connector
  BY DEF Next, Work, List, Process, Failure, Environment, StartSync, OpenFolder, ListHistory, GetProfile,
     ListAll, DeltaPage, DeltaExpired, NextPage, FetchFails, Evaluate, CheckDuplicate, Archive,
     ArchiveConflict, RuleEffect, PersistCursor, ArchiveUnreported, RuleEffectFails, FailSync,
     CrashAndRestart, Deliver, MoveByOther, EraseByOther, Expire, Arrive, Mailbox, Listing, vars, serverVars
<1>1. Folders' = Folders
  BY <1>0 DEF Folders
<1>2. where \in [Messages -> Places] /\ log \in [AllFolders -> Seq(Messages)]
  BY DEF TypeOK
<1>3. CASE UNCHANGED <<where, log>>
  BY <1>1, <1>2, <1>3 DEF ServerInv
<1>4. ASSUME NEW m \in Messages, NEW f \in Folders, Arrives(m, f)
      PROVE  /\ ServerInv'
             /\ where' \in [Messages -> Places] /\ log' \in [AllFolders -> Seq(Messages)]
  <2>1. f \in AllFolders /\ f \in Places
    BY FoldersKnown
  <2>2. log' \in [AllFolders -> Seq(Messages)]
    BY <1>4, <2>1, LogGrows DEF Arrives
  <2>3. where' = [where EXCEPT ![m] = f]
    BY <1>4 DEF Arrives
  <2>4. ASSUME NEW n \in Messages, where'[n] \in AllFolders
        PROVE  \E p \in DOMAIN log'[where'[n]] : log'[where'[n]][p] = n
    <3>1. CASE n = m
      BY <1>2, <1>4, <2>1, <2>3, <3>1, LogGrows DEF Arrives
    <3>2. CASE n # m
      <4>1. where'[n] = where[n]
        BY <1>2, <2>3, <3>2
      <4>2. PICK p \in DOMAIN log[where[n]] : log[where[n]][p] = n
        BY <2>4, <4>1 DEF ServerInv
      <4> QED BY <2>4, <4>1, <4>2, LogStep
    <3> QED BY <3>1, <3>2
  <2> QED BY <1>1, <1>2, <2>1, <2>2, <2>3, <2>4 DEF ServerInv
<1>5. ASSUME NEW m \in Messages, Leaves(m)
      PROVE  /\ ServerInv'
             /\ where' \in [Messages -> Places] /\ log' \in [AllFolders -> Seq(Messages)]
  <2>1. PICK g \in {"hidden", "gone"} : where' = [where EXCEPT ![m] = g] /\ log' = log
    BY <1>5 DEF Leaves
  <2>2. g \in Places /\ g \notin AllFolders
    BY FoldersKnown
  <2> QED BY <1>1, <1>2, <2>1, <2>2 DEF ServerInv
<1> QED BY <1>3, <1>4, <1>5, ServerStep
------------------------------------------------------------------------------
(* What a step may do to a job, and to everything else. *)
Lists(j) == ListHistory(j) \/ GetProfile(j) \/ ListAll(j) \/ DeltaPage(j) \/ NextPage(j)

Handles(j) == \/ \E m \in Messages, a \in RuleActions : Evaluate(j, m, a)
              \/ CheckDuplicate(j) \/ Archive(j) \/ RuleEffect(j) \/ RuleEffectFails(j)

LEMMA JobStep ==
  ASSUME TypeOK, [Next]_vars, NEW j \in Jobs
  PROVE  \/ job'[j] = job[j]
         \/ job'[j] = Idle
         \/ StartSync(j) \/ (\E f \in AllFolders : OpenFolder(j, f))
         \/ Lists(j) \/ Handles(j) \/ PersistCursor(j)
<1>1. job \in [Jobs -> JobType]
  BY DEF TypeOK
<1>2. ASSUME NEW k \in Jobs, k # j, Work(k) \/ ArchiveUnreported(k) \/ RuleEffectFails(k) \/ FailSync(k)
      PROVE  job'[j] = job[j]
  <2>1. PICK r : job' = [job EXCEPT ![k] = r]
    BY <1>2 DEF Work, List, Process, StartSync, OpenFolder, ListHistory, GetProfile, ListAll, DeltaPage,
       DeltaExpired, NextPage, FetchFails, Evaluate, CheckDuplicate, Archive, ArchiveConflict, RuleEffect,
       PersistCursor, ArchiveUnreported, RuleEffectFails, FailSync, Listing, Set, Stop
  <2> QED BY <1>1, <1>2, <2>1
<1>3. CASE Stop(j)
  BY <1>1, <1>3 DEF Stop, Set
<1>4. CASE CrashAndRestart
  BY <1>4 DEF CrashAndRestart
<1>5. CASE UNCHANGED job
  BY <1>5
<1>6. CASE Work(j)
  <2>1. (\E m \in Messages : FetchFails(j, m)) \/ DeltaExpired(j) \/ ArchiveConflict(j) => Stop(j)
    BY DEF FetchFails, DeltaExpired, ArchiveConflict
  <2> QED BY <1>3, <1>6, <2>1 DEF Work, List, Process, Lists, Handles
<1>7. ArchiveUnreported(j) \/ FailSync(j) => Stop(j)
  BY DEF ArchiveUnreported, FailSync
<1>8. Environment => UNCHANGED job
  BY DEF Environment, Deliver, MoveByOther, EraseByOther, Expire, Arrive, Mailbox
<1> QED BY <1>2, <1>3, <1>4, <1>5, <1>6, <1>7, <1>8 DEF Next, Failure, Handles, vars

LEMMA Constants ==
  ASSUME [Next]_vars
  PROVE  connector' = connector /\ Folders' = Folders /\ skipped \subseteq skipped'
<1>1. connector' = connector /\ skipped \subseteq skipped'
  BY DEF Next, Work, List, Process, Failure, Environment, StartSync, OpenFolder, ListHistory, GetProfile,
     ListAll, DeltaPage, DeltaExpired, NextPage, FetchFails, Evaluate, CheckDuplicate, Archive,
     ArchiveConflict, RuleEffect, PersistCursor, ArchiveUnreported, RuleEffectFails, FailSync,
     CrashAndRestart, Deliver, MoveByOther, EraseByOther, Expire, Arrive, Mailbox, Listing, vars, serverVars
<1> QED BY <1>1 DEF Folders

(* Rows are only added, one at a time, under a UID that was free. *)
LEMMA RowsStep ==
  ASSUME [Next]_vars
  PROVE  \/ UNCHANGED <<emails, lastUid>>
         \/ \E j \in Jobs : /\ job[j].pc = "archive" /\ ~UidTaken(j)
                            /\ Insert(j)
                            /\ purged' = purged
                            /\ Archive(j) \/ Stop(j)
<1>1. \/ UNCHANGED <<emails, lastUid>>
      \/ \E j \in Jobs : Archive(j) \/ ArchiveUnreported(j)
  <2>1. ASSUME NEW j \in Jobs, StartSync(j) \/ List(j) PROVE UNCHANGED <<emails, lastUid>>
    BY <2>1 DEF List, StartSync, OpenFolder, ListHistory, GetProfile, ListAll, DeltaPage, DeltaExpired, NextPage,
       Listing
  <2>2. ASSUME NEW j \in Jobs, Process(j), ~Archive(j) PROVE UNCHANGED <<emails, lastUid>>
    BY <2>2 DEF Process, FetchFails, Evaluate, CheckDuplicate, ArchiveConflict, RuleEffect, PersistCursor, Listing
  <2>3. ASSUME NEW j \in Jobs, RuleEffectFails(j) \/ FailSync(j) PROVE UNCHANGED <<emails, lastUid>>
    BY <2>3 DEF RuleEffectFails, FailSync
  <2>4. CASE CrashAndRestart \/ Environment
    BY <2>4 DEF CrashAndRestart, Environment, Deliver, MoveByOther, EraseByOther, Expire, Arrive, Mailbox
  <2>5. CASE UNCHANGED vars
    BY <2>5 DEF vars
  <2> QED BY <2>1, <2>2, <2>3, <2>4, <2>5 DEF Next, Work, Failure
<1>2. ASSUME NEW j \in Jobs, Archive(j) \/ ArchiveUnreported(j)
      PROVE  /\ job[j].pc = "archive" /\ ~UidTaken(j) /\ Insert(j) /\ purged' = purged
             /\ Archive(j) \/ Stop(j)
  BY <1>2 DEF Archive, ArchiveUnreported
<1> QED BY <1>1, <1>2

LEMMA RowsGrow ==
  ASSUME TypeOK, JobInv, [Next]_vars
  PROVE  /\ emails \subseteq emails'
         /\ \A f \in AllFolders : lastUid[f] <= lastUid'[f]
         /\ emails' \subseteq [folder : AllFolders, uid : Nat, msg : Messages]
         /\ lastUid' \in [AllFolders -> Nat]
<1>1. CASE UNCHANGED <<emails, lastUid>>
  BY <1>1 DEF TypeOK
<1>2. ASSUME NEW j \in Jobs, job[j].pc = "archive", Insert(j)
      PROVE  /\ emails \subseteq emails'
             /\ \A f \in AllFolders : lastUid[f] <= lastUid'[f]
             /\ emails' \subseteq [folder : AllFolders, uid : Nat, msg : Messages]
             /\ lastUid' \in [AllFolders -> Nat]
  <2>1. job[j].folder \in AllFolders /\ job[j].uid \in Nat /\ job[j].msg \in Messages
    BY <1>2 DEF TypeOK, JobType, JobInv, JobOf, OnMessage
  <2>2. Row(j) \in [folder : AllFolders, uid : Nat, msg : Messages]
    BY <2>1 DEF Row
  <2>3. emails' = emails \cup {Row(j)}
    BY <1>2 DEF Insert
  <2>4. lastUid' = [lastUid EXCEPT ![job[j].folder] = IF @ < job[j].uid THEN job[j].uid ELSE @]
    BY <1>2 DEF Insert
  <2>5. lastUid \in [AllFolders -> Nat] /\ emails \subseteq [folder : AllFolders, uid : Nat, msg : Messages]
    BY DEF TypeOK
  <2>6. \A f \in AllFolders : lastUid'[f] \in Nat /\ lastUid[f] <= lastUid'[f]
    BY <2>1, <2>4, <2>5
  <2> QED BY <2>2, <2>3, <2>4, <2>5, <2>6
<1> QED BY <1>1, <1>2, RowsStep

LEMMA ReachedGrows ==
  ASSUME TypeOK, JobInv, [Next]_vars, NEW m
  PROVE  /\ Archived \subseteq Archived'
         /\ Reached(m) => Reached(m)'
<1>1. Archived \subseteq Archived'
  BY RowsGrow DEF Archived
<1> QED BY <1>1, Constants DEF Reached, Covers

(* What a listing hands to the run: a position, and messages. *)
ListsTo(j, pc, link, next, more, ids) ==
    /\ job'[j] = [job[j] EXCEPT !.pc = pc, !.link = link, !.next = next, !.more = more, !.ids = ids]
    /\ link <= Now(job[j].folder) /\ next <= Now(job[j].folder)
    /\ connector = "gmail" => ~more
    /\ job[j].pc \in {"list", "listall", "fetch"}
    /\ UNCHANGED <<serverVars, cursor, lastUid, emails, skipped, purged, faults>>

LEMMA ListsStep ==
  ASSUME TypeOK, JobInv, NEW j \in Jobs, Lists(j)
  PROVE  \E pc \in {"list", "listall", "fetch"}, link \in Nat, next \in Nat, more \in BOOLEAN, ids \in SUBSET Messages :
            ListsTo(j, pc, link, next, more, ids)
<1>1. job \in [Jobs -> JobType] /\ job[j] \in JobType
  BY DEF TypeOK
<1>2. /\ UNCHANGED <<serverVars, cursor, lastUid, emails, skipped, purged, faults>>
      /\ job[j].pc \in {"list", "listall", "fetch"}
  BY DEF Lists, ListHistory, GetProfile, ListAll, DeltaPage, NextPage, Listing
<1>3. PICK f \in AllFolders : f = job[j].folder /\ job[j].link <= Now(f) /\ job[j].next <= Now(f)
  BY <1>2, FoldersKnown DEF JobInv, JobOf, InFolder
<1>4. job[j].link \in Nat /\ job[j].next \in Nat /\ job[j].ids \subseteq Messages /\ job[j].more \in BOOLEAN
  BY <1>1 DEF JobType
<1>5. Now(f) \in Nat /\ DOMAIN log[f] = 1 .. Now(f) - 1 /\ \A p \in DOMAIN log[f] : log[f][p] \in Messages
  BY DEF TypeOK, Now
<1>6. Listed(f) \subseteq Messages
  BY DEF Listed
<1>7. connector = "gmail" => ~job[j].more
  BY DEF JobInv, JobOf
<1>8. CASE ListHistory(j)
  <2>1. Between(f, job[j].link, Now(f)) \subseteq Messages
    BY <1>3, <1>4, <1>5, <1>8 DEF Between, ListHistory
  <2>2. job'[j] = [job[j] EXCEPT !.pc = "fetch", !.next = Now(f), !.ids = Between(f, job[j].link, Now(f))]
    BY <1>1, <1>3, <1>8 DEF ListHistory, Set
  <2>3. job'[j] = [job[j] EXCEPT !.pc = "fetch", !.link = job[j].link, !.next = Now(f), !.more = job[j].more,
                                 !.ids = Between(f, job[j].link, Now(f))]
    BY <1>1, <2>2 DEF JobType
  <2>8. ListsTo(j, "fetch", job[j].link, Now(f), job[j].more, Between(f, job[j].link, Now(f)))
    BY <1>2, <1>3, <1>4, <1>5, <1>7, <2>3 DEF ListsTo
  <2> QED BY <2>8, <1>4, <1>5, <2>1
<1>9. CASE GetProfile(j)
  <2>1. job'[j] = [job[j] EXCEPT !.pc = "listall", !.next = Now(f)]
    BY <1>1, <1>3, <1>9 DEF GetProfile, Set
  <2>2. job'[j] = [job[j] EXCEPT !.pc = "listall", !.link = job[j].link, !.next = Now(f), !.more = job[j].more,
                                 !.ids = job[j].ids]
    BY <1>1, <2>1 DEF JobType
  <2>8. ListsTo(j, "listall", job[j].link, Now(f), job[j].more, job[j].ids)
    BY <1>2, <1>3, <1>4, <1>5, <1>7, <2>2 DEF ListsTo
  <2> QED BY <2>8, <1>4, <1>5
<1>10. CASE ListAll(j)
  <2>1. job'[j] = [job[j] EXCEPT !.pc = "fetch", !.ids = Listed(f)]
    BY <1>1, <1>3, <1>10 DEF ListAll, Set
  <2>2. job'[j] = [job[j] EXCEPT !.pc = "fetch", !.link = job[j].link, !.next = job[j].next, !.more = job[j].more,
                                 !.ids = Listed(f)]
    BY <1>1, <2>1 DEF JobType
  <2>8. ListsTo(j, "fetch", job[j].link, job[j].next, job[j].more, Listed(f))
    BY <1>2, <1>3, <1>4, <1>7, <2>2 DEF ListsTo
  <2> QED BY <2>8, <1>4, <1>6
<1>11. CASE DeltaPage(j)
  <2>0. PICK c \in Nat : c = IF job[j].link = 0 THEN 1 ELSE job[j].link
    BY <1>4
  <2>1. PICK d \in c .. Now(f) :
          job' = [job EXCEPT ![j] = [job[j] EXCEPT !.pc = "fetch", !.link = d, !.more = d < Now(f),
                                      !.next = IF d < Now(f) THEN @ ELSE d,
                                      !.ids = Between(f, c, d) \cap Listed(f)]]
    BY <1>3, <2>0, <1>11 DEF DeltaPage, Set
  <2>2. PICK more \in BOOLEAN, next \in {job[j].next, d}, ids \in SUBSET Messages :
          job' = [job EXCEPT ![j] = [job[j] EXCEPT !.pc = "fetch", !.link = d, !.more = more,
                                      !.next = next, !.ids = ids]]
    <3>1. (d < Now(f)) \in BOOLEAN /\ (IF d < Now(f) THEN job[j].next ELSE d) \in {job[j].next, d}
      OBVIOUS
    <3>2. Between(f, c, d) \cap Listed(f) \subseteq Messages
      BY <1>6
    <3> QED BY <2>1, <3>1, <3>2
  <2>3. job'[j] = [job[j] EXCEPT !.pc = "fetch", !.link = d, !.more = more, !.next = next, !.ids = ids]
    BY <1>1, <2>2
  <2>4. job'[j] = [job[j] EXCEPT !.pc = "fetch", !.link = d, !.next = next, !.more = more, !.ids = ids]
    BY <1>1, <2>3 DEF JobType
  <2>5. d \in Nat /\ d <= Now(f) /\ next \in Nat /\ next <= Now(f)
    BY <1>3, <1>4, <1>5
  <2>6. connector # "gmail"
    BY <1>11 DEF DeltaPage
  <2>8. ListsTo(j, "fetch", d, next, more, ids)
    BY <1>2, <1>3, <2>4, <2>5, <2>6 DEF ListsTo
  <2> QED BY <2>8, <2>5
<1>12. CASE NextPage(j)
  <2>1. job'[j] = [job[j] EXCEPT !.pc = "list"]
    BY <1>1, <1>12 DEF NextPage, Set
  <2>2. job'[j] = [job[j] EXCEPT !.pc = "list", !.link = job[j].link, !.next = job[j].next, !.more = job[j].more,
                                 !.ids = job[j].ids]
    BY <1>1, <2>1 DEF JobType
  <2>8. ListsTo(j, "list", job[j].link, job[j].next, job[j].more, job[j].ids)
    BY <1>2, <1>3, <1>4, <1>7, <2>2 DEF ListsTo
  <2> QED BY <2>8, <1>4
<1> QED BY <1>8, <1>9, <1>10, <1>11, <1>12 DEF Lists

(* A message of the batch is looked at, archived or passed over. *)
HandlesTo(j, pc, ids, msg, rule, uid) ==
    /\ job'[j] = [job[j] EXCEPT !.pc = pc, !.ids = ids, !.msg = msg, !.rule = rule, !.uid = uid]
    /\ pc \in OnMessage => msg \in Messages
    /\ uid = job[j].uid \/ (uid = job[j].uid + 1 /\ Archive(j))
    /\ job[j].pc \in InBatch

LEMMA HandlesStep ==
  ASSUME TypeOK, JobInv, NEW j \in Jobs, Handles(j)
  PROVE  \E pc \in InBatch, ids \in SUBSET job[j].ids, msg \in Messages \cup {NoMsg}, rule \in Actions, uid \in Nat :
            HandlesTo(j, pc, ids, msg, rule, uid)
<1>1. job \in [Jobs -> JobType] /\ job[j] \in JobType
  BY DEF TypeOK
<1>2. job[j].uid \in Nat /\ job[j].rule \in Actions /\ job[j].msg \in Messages \cup {NoMsg}
  BY <1>1 DEF JobType
<1>3. job[j].pc \in OnMessage => job[j].msg \in Messages
  BY DEF JobInv, JobOf
<1>4. job[j].pc \in InBatch
  BY DEF Handles, Evaluate, CheckDuplicate, Archive, RuleEffect, RuleEffectFails, InBatch
<1>5. ASSUME NEW m, job'[j] = Drop(j, m)
      PROVE  job'[j] = [job[j] EXCEPT !.pc = "fetch", !.ids = @ \ {m}, !.msg = NoMsg, !.rule = "archive",
                                      !.uid = job[j].uid]
  BY <1>1, <1>5 DEF Drop, JobType
<1>6. ASSUME NEW m, job'[j] = Drop(j, m)
      PROVE  \E ids \in SUBSET job[j].ids :
                job'[j] = [job[j] EXCEPT !.pc = "fetch", !.ids = ids, !.msg = NoMsg, !.rule = "archive",
                                         !.uid = job[j].uid]
  BY <1>5, <1>6
<1>7. "archive" \in Actions /\ "fetch" \in InBatch /\ "fetch" \notin OnMessage
  BY DEF Actions, InBatch, OnMessage
<1>8. ASSUME NEW m \in Messages, NEW a \in RuleActions, Evaluate(j, m, a), a # "skip"
      PROVE  job'[j] = [job[j] EXCEPT !.pc = "check", !.ids = job[j].ids, !.msg = m, !.rule = a,
                                      !.uid = job[j].uid]
  <2>1. job'[j] = [job[j] EXCEPT !.pc = "check", !.msg = m, !.rule = a]
    BY <1>1, <1>8 DEF Evaluate, Set
  <2> QED BY <1>1, <2>1 DEF JobType
<1>9. ASSUME NEW m \in Messages, NEW a \in RuleActions, Evaluate(j, m, a), a = "skip"
      PROVE  job'[j] = Drop(j, m)
  BY <1>1, <1>9 DEF Evaluate, Set
<1>10. ASSUME CheckDuplicate(j)
       PROVE  \E pc \in {"effect", "archive"} :
                 job'[j] = [job[j] EXCEPT !.pc = pc, !.ids = job[j].ids, !.msg = job[j].msg,
                                          !.rule = job[j].rule, !.uid = job[j].uid]
  <2>1. PICK pc \in {"effect", "archive"} : job'[j] = [job[j] EXCEPT !.pc = pc]
    BY <1>1, <1>10 DEF CheckDuplicate, Set
  <2> QED BY <1>1, <2>1 DEF JobType
<1>11. ASSUME Archive(j)
       PROVE  job'[j] = [job[j] EXCEPT !.pc = "effect", !.ids = job[j].ids, !.msg = job[j].msg,
                                       !.rule = job[j].rule, !.uid = job[j].uid + 1]
  <2>1. job'[j] = [job[j] EXCEPT !.pc = "effect", !.uid = job[j].uid + 1]
    BY <1>1, <1>11 DEF Archive, Set
  <2> QED BY <1>1, <2>1 DEF JobType
<1>12. ASSUME RuleEffect(j) \/ RuleEffectFails(j) PROVE job'[j] = Drop(j, job[j].msg)
  BY <1>1, <1>12 DEF RuleEffect, RuleEffectFails, Set
<1>13. job[j].ids \in SUBSET job[j].ids /\ {"check", "archive", "effect"} \subseteq InBatch \cap OnMessage
  BY DEF InBatch, OnMessage
<1>14. ASSUME NEW m, job'[j] = Drop(j, m)
       PROVE  \E pc \in InBatch, ids \in SUBSET job[j].ids, msg \in Messages \cup {NoMsg}, rule \in Actions, uid \in Nat :
            HandlesTo(j, pc, ids, msg, rule, uid)
  <2>1. PICK ids \in SUBSET job[j].ids :
          job'[j] = [job[j] EXCEPT !.pc = "fetch", !.ids = ids, !.msg = NoMsg, !.rule = "archive",
                                   !.uid = job[j].uid]
    BY <1>6, <1>14
  <2>2. HandlesTo(j, "fetch", ids, NoMsg, "archive", job[j].uid)
    BY <1>4, <1>7, <2>1 DEF HandlesTo
  <2> QED BY <1>2, <1>7, <2>2
<1>15. ASSUME NEW m \in Messages, NEW a \in RuleActions, Evaluate(j, m, a), a # "skip"
       PROVE  \E pc \in InBatch, ids \in SUBSET job[j].ids, msg \in Messages \cup {NoMsg}, rule \in Actions, uid \in Nat :
            HandlesTo(j, pc, ids, msg, rule, uid)
  <2>1. HandlesTo(j, "check", job[j].ids, m, a, job[j].uid)
    BY <1>4, <1>8, <1>15 DEF HandlesTo
  <2>2. a \in Actions
    BY CursorAssumption
  <2> QED BY <1>2, <1>13, <2>1, <2>2
<1>16. ASSUME CheckDuplicate(j) \/ Archive(j)
       PROVE  \E pc \in InBatch, ids \in SUBSET job[j].ids, msg \in Messages \cup {NoMsg}, rule \in Actions, uid \in Nat :
            HandlesTo(j, pc, ids, msg, rule, uid)
  <2>1. job[j].msg \in Messages /\ job[j].uid + 1 \in Nat
    BY <1>2, <1>3, <1>16 DEF CheckDuplicate, Archive, OnMessage
  <2>2. CASE CheckDuplicate(j)
    <3>1. PICK pc \in {"effect", "archive"} :
            job'[j] = [job[j] EXCEPT !.pc = pc, !.ids = job[j].ids, !.msg = job[j].msg,
                                     !.rule = job[j].rule, !.uid = job[j].uid]
      BY <1>10, <2>2
    <3>2. HandlesTo(j, pc, job[j].ids, job[j].msg, job[j].rule, job[j].uid)
      BY <1>4, <2>1, <3>1 DEF HandlesTo
    <3> QED BY <1>2, <1>13, <3>2
  <2>3. CASE Archive(j)
    <3>1. HandlesTo(j, "effect", job[j].ids, job[j].msg, job[j].rule, job[j].uid + 1)
      BY <1>4, <1>11, <2>1, <2>3 DEF HandlesTo
    <3> QED BY <1>2, <1>13, <2>1, <3>1
  <2> QED BY <1>16, <2>2, <2>3
<1> QED BY <1>9, <1>12, <1>14, <1>15, <1>16 DEF Handles
------------------------------------------------------------------------------
(* Types, and what the jobs hold. *)
LEMMA JobNext ==
  ASSUME TypeOK, JobInv, [Next]_vars, NEW j \in Jobs
  PROVE  job'[j] \in JobType /\ JobOf(j)'
<1>1. job \in [Jobs -> JobType] /\ job[j] \in JobType /\ JobOf(j)
  BY DEF TypeOK, JobInv
<1>2. \A f \in AllFolders : /\ Now(f) \in Nat /\ Now(f)' \in Nat /\ Now(f) <= Now(f)'
                            /\ lastUid[f] \in Nat /\ lastUid'[f] \in Nat /\ lastUid[f] <= lastUid'[f]
  BY LogStep, RowsGrow DEF TypeOK
<1>3. connector' = connector /\ Folders' = Folders /\ Folders \subseteq AllFolders
  BY Constants, FoldersKnown
<1>4. CASE job'[j] = job[j]
  <2>1. job[j].pc \in InFolder => job[j].folder \in Folders /\ job[j].folder \in AllFolders
    BY <1>1, <1>3 DEF JobOf
  <2>2. job[j].uid \in Nat /\ job[j].link \in Nat /\ job[j].next \in Nat
    BY <1>1 DEF JobType
  <2>3. job[j].pc \in InFolder =>
           /\ job[j].uid \in 1 .. lastUid'[job[j].folder] + 1
           /\ job[j].link <= Now(job[j].folder)' /\ job[j].next <= Now(job[j].folder)'
    <3> SUFFICES ASSUME NEW f \in AllFolders, f = job[j].folder, job[j].pc \in InFolder
                 PROVE  /\ job[j].uid \in 1 .. lastUid'[f] + 1
                        /\ job[j].link <= Now(f)' /\ job[j].next <= Now(f)'
      BY <2>1, <1>4 DEF Now
    <3> QED BY <1>1, <1>2, <2>2 DEF JobOf
  <2>4. job[j].pc = "open" /\ connector = "gmail" => job[j].link <= Now(AllMail)'
    BY <1>1, <1>2, <2>2, FoldersKnown DEF JobOf
  <2> QED BY <1>1, <1>3, <1>4, <2>1, <2>3, <2>4 DEF JobOf, Now
<1>5. CASE job'[j] = Idle
  BY <1>3, <1>5, IdleIsJob DEF JobOf, Idle, InFolder, OnMessage
<1>6. CASE StartSync(j)
  <2>1. job'[j] = [Idle EXCEPT !.pc = "open", !.todo = Folders, !.link = cursor[AllMail]]
    BY <1>1, <1>6 DEF StartSync, Set
  <2>2. cursor[AllMail] \in Nat
    BY FoldersKnown DEF TypeOK
  <2>3. job'[j] \in JobType
    BY <1>3, <2>1, <2>2, IdleIsJob DEF JobType, Idle
  <2>4. cursor[AllMail] <= Now(AllMail)'
    BY <1>2, <2>2, FoldersKnown DEF TypeOK
  <2> QED BY <1>3, <2>1, <2>3, <2>4 DEF JobOf, Idle, InFolder, OnMessage
<1>7. ASSUME NEW f \in AllFolders, OpenFolder(j, f) PROVE job'[j] \in JobType /\ JobOf(j)'
  <2>1. PICK link \in {job[j].link, cursor[f]} :
          /\ job'[j] = [job[j] EXCEPT !.pc = "list", !.todo = @ \ {f}, !.folder = f, !.uid = lastUid[f] + 1,
                                      !.link = link]
          /\ connector = "graph" => link = cursor[f]
          /\ connector = "gmail" => link = job[j].link
    <3>1. job'[j] = [job[j] EXCEPT !.pc = "list", !.todo = @ \ {f}, !.folder = f, !.uid = lastUid[f] + 1,
                                   !.link = IF connector = "gmail" THEN @ ELSE cursor[f]]
      BY <1>1, <1>7 DEF OpenFolder, Set
    <3> QED BY <3>1
  <2>2. job[j].pc = "open" /\ f \in job[j].todo /\ lastUid' = lastUid
    BY <1>7 DEF OpenFolder
  <2>3. link \in Nat /\ lastUid[f] + 1 \in Nat
    <3>1. job[j].link \in Nat
      BY <1>1 DEF JobType
    <3>2. cursor[f] \in Nat
      BY DEF TypeOK
    <3> QED BY <1>2, <3>1, <3>2
  <2>4. job'[j] \in JobType
    BY <1>1, <2>1, <2>3 DEF JobType
  <2>5. /\ job'[j].pc = "list" /\ job'[j].todo \subseteq Folders /\ job'[j].folder = f /\ job'[j].link = link
        /\ job'[j].uid = lastUid[f] + 1 /\ job'[j].next = job[j].next /\ job'[j].more = job[j].more
    BY <1>1, <2>1, <2>2 DEF JobType, JobOf
  <2>6. f \in Folders
    BY <1>1, <2>2 DEF JobOf
  <2>7. link <= Now(f) /\ job[j].next <= Now(f)
    <3>1. job[j].next = 0 /\ Now(f) \in Nat
      BY <1>1, <1>2, <2>2 DEF JobOf
    <3>2. CASE connector = "gmail"
      <4>1. f = AllMail
        BY <2>6, <3>2, FoldersKnown
      <4> QED BY <1>1, <2>1, <2>2, <3>1, <3>2, <4>1 DEF JobOf
    <3>3. CASE connector = "graph"
      <4>1. cursor[f] <= Now(f)
        BY DEF TypeOK
      <4> QED BY <2>1, <3>1, <3>3, <4>1
    <3> QED BY <3>2, <3>3, CursorAssumption DEF TypeOK
  <2>8. /\ link <= Now(f)' /\ job[j].next <= Now(f)' /\ job[j].next \in Nat
        /\ lastUid[f] + 1 \in 1 .. lastUid'[f] + 1
    BY <1>1, <1>2, <2>2, <2>3, <2>7 DEF JobType
  <2>9. connector = "gmail" => ~job[j].more
    BY <1>1 DEF JobOf
  <2> QED BY <1>3, <2>4, <2>5, <2>6, <2>8, <2>9 DEF JobOf, InFolder, OnMessage
<1>8. CASE Lists(j)
  <2>1. PICK pc \in {"list", "listall", "fetch"}, link \in Nat, next \in Nat, more \in BOOLEAN, ids \in SUBSET Messages :
          ListsTo(j, pc, link, next, more, ids)
    BY <1>8, ListsStep
  <2>2. job'[j] = [job[j] EXCEPT !.pc = pc, !.link = link, !.next = next, !.more = more, !.ids = ids]
    BY <2>1 DEF ListsTo
  <2>3. job'[j] \in JobType
    BY <1>1, <2>2 DEF JobType
  <2>4. /\ job'[j].pc = pc /\ job'[j].link = link /\ job'[j].next = next /\ job'[j].more = more
        /\ job'[j].folder = job[j].folder /\ job'[j].todo = job[j].todo /\ job'[j].uid = job[j].uid
    BY <1>1, <2>2 DEF JobType
  <2>5. PICK f \in Folders : f = job[j].folder
    BY <1>1, <2>1 DEF ListsTo, JobOf, InFolder
  <2>6. Now(f)' = Now(f) /\ lastUid' = lastUid
    BY <2>1 DEF ListsTo, serverVars, Now
  <2> QED BY <1>1, <1>3, <2>1, <2>3, <2>4, <2>5, <2>6 DEF ListsTo, JobOf, InFolder, OnMessage
<1>9. CASE Handles(j)
  <2>1. PICK pc \in InBatch, ids \in SUBSET job[j].ids, msg \in Messages \cup {NoMsg}, rule \in Actions, uid \in Nat :
          HandlesTo(j, pc, ids, msg, rule, uid)
    BY <1>9, HandlesStep
  <2>2. job'[j] = [job[j] EXCEPT !.pc = pc, !.ids = ids, !.msg = msg, !.rule = rule, !.uid = uid]
    BY <2>1 DEF HandlesTo
  <2>3. job'[j] \in JobType
    <3>1. ids \subseteq Messages /\ pc \in {"idle", "open", "list", "listall", "fetch", "check", "archive", "effect"}
      BY <1>1 DEF JobType, InBatch
    <3> QED BY <1>1, <2>2, <3>1 DEF JobType
  <2>4. /\ job'[j].pc = pc /\ job'[j].msg = msg /\ job'[j].uid = uid /\ job'[j].link = job[j].link
        /\ job'[j].next = job[j].next /\ job'[j].more = job[j].more
        /\ job'[j].folder = job[j].folder /\ job'[j].todo = job[j].todo
    BY <1>1, <2>2 DEF JobType
  <2>5. PICK f \in AllFolders : f = job[j].folder /\ f \in Folders
    BY <1>1, <1>3, <2>1 DEF HandlesTo, JobOf, InFolder, InBatch
  <2>6. job[j].uid \in 1 .. lastUid[f] + 1 /\ job[j].link <= Now(f) /\ job[j].next <= Now(f)
    BY <1>1, <2>1, <2>5 DEF HandlesTo, JobOf, InFolder, InBatch
  <2>7. uid \in 1 .. lastUid'[f] + 1
    <3>1. CASE uid = job[j].uid
      BY <1>2, <2>6, <3>1
    <3>2. CASE uid = job[j].uid + 1 /\ Archive(j)
      <4>1. job[j].uid <= lastUid'[f]
        <5>1. lastUid' = [lastUid EXCEPT ![f] = IF @ < job[j].uid THEN job[j].uid ELSE @]
          BY <2>5, <3>2 DEF Archive, Insert
        <5> QED BY <1>2, <2>6, <5>1 DEF TypeOK
      <4> QED BY <1>2, <2>6, <3>2, <4>1
    <3> QED BY <2>1, <3>1, <3>2 DEF HandlesTo
  <2>8. job[j].link <= Now(f)' /\ job[j].next <= Now(f)'
    BY <1>1, <1>2, <2>6 DEF JobType
  <2>9. job[j].pc \in InBatch /\ job[j].pc # "idle" /\ (pc \in OnMessage => msg \in Messages)
    BY <2>1 DEF HandlesTo, InBatch
  <2> QED BY <1>1, <1>3, <2>3, <2>4, <2>5, <2>7, <2>8, <2>9 DEF JobOf, InBatch, Now
<1>10. CASE PersistCursor(j) /\ job'[j] # Idle
  <2>1. job'[j] = [Idle EXCEPT !.pc = "open", !.todo = job[j].todo] /\ job[j].pc = "fetch"
    BY <1>1, <1>10 DEF PersistCursor, Set, Stop
  <2>2. job'[j] \in JobType
    BY <1>1, <2>1, IdleIsJob DEF JobType, Idle
  <2>3. 0 <= Now(AllMail)'
    BY <1>2, FoldersKnown
  <2> QED BY <1>1, <1>3, <2>1, <2>2, <2>3 DEF JobOf, Idle, InFolder, OnMessage
<1> QED BY <1>4, <1>5, <1>6, <1>7, <1>8, <1>9, <1>10, JobStep

LEMMA TypeNext ==
  ASSUME TypeOK, ServerInv, JobInv, [Next]_vars
  PROVE  TypeOK' /\ JobInv'
<1>1. job' \in [Jobs -> JobType]
  <2>1. job' = [j \in Jobs |-> job'[j]]
    <3>1. ASSUME NEW k \in Jobs, Work(k) \/ ArchiveUnreported(k) \/ RuleEffectFails(k) \/ FailSync(k)
          PROVE  \E s : job' = [job EXCEPT ![k] = s]
      BY <3>1 DEF Work, List, Process, StartSync, OpenFolder, ListHistory, GetProfile, ListAll, DeltaPage,
         DeltaExpired, NextPage, FetchFails, Evaluate, CheckDuplicate, Archive, ArchiveConflict, RuleEffect,
         PersistCursor, ArchiveUnreported, RuleEffectFails, FailSync, Listing, Set, Stop
    <3>2. CASE CrashAndRestart
      BY <3>2 DEF CrashAndRestart
    <3>3. CASE UNCHANGED job
      BY <3>3 DEF TypeOK
    <3>4. Environment => UNCHANGED job
      BY DEF Environment, Deliver, MoveByOther, EraseByOther, Expire, Arrive, Mailbox
    <3>5. ASSUME NEW k, NEW s, job' = [job EXCEPT ![k] = s] PROVE job' = [j \in Jobs |-> job'[j]]
      BY <3>5 DEF TypeOK
    <3> QED BY <3>1, <3>2, <3>3, <3>4, <3>5 DEF Next, Failure, vars
  <2> QED BY <2>1, JobNext
<1>2. where' \in [Messages -> Places] /\ log' \in [AllFolders -> Seq(Messages)]
  BY ServerNext
<1>3. \A f \in AllFolders : Now(f) \in Nat /\ Now(f)' \in Nat /\ Now(f) <= Now(f)'
  BY LogStep
<1>4. cursor' \in [AllFolders -> Nat] /\ \A f \in AllFolders : cursor'[f] <= Now(f)'
  <2>1. CASE cursor' = cursor
    BY <1>3, <2>1 DEF TypeOK, Now
  <2>2. ASSUME NEW j \in Jobs, PersistCursor(j)
        PROVE  cursor' \in [AllFolders -> Nat] /\ \A f \in AllFolders : cursor'[f] <= Now(f)'
    <3>1. PICK g \in AllFolders : g = job[j].folder /\ job[j].next <= Now(g)
      BY <2>2, FoldersKnown DEF PersistCursor, JobInv, JobOf, InFolder
    <3>2. cursor' = [cursor EXCEPT ![g] = job[j].next] /\ job[j].next \in Nat
      BY <2>2, <3>1 DEF PersistCursor, TypeOK, JobType
    <3>3. \A f \in AllFolders : cursor[f] <= Now(f) /\ cursor[f] \in Nat
      BY DEF TypeOK
    <3>4. \A f \in AllFolders : cursor'[f] \in Nat /\ cursor'[f] <= Now(f)
      BY <3>1, <3>2, <3>3 DEF TypeOK
    <3> QED BY <1>3, <3>2, <3>4 DEF TypeOK, Now
  <2>3. cursor' = cursor \/ \E j \in Jobs : PersistCursor(j)
    BY DEF Next, Work, List, Process, Failure, Environment, StartSync, OpenFolder, ListHistory, GetProfile,
     ListAll, DeltaPage, DeltaExpired, NextPage, FetchFails, Evaluate, CheckDuplicate, Archive,
     ArchiveConflict, RuleEffect, ArchiveUnreported, RuleEffectFails, FailSync,
     CrashAndRestart, Deliver, MoveByOther, EraseByOther, Expire, Arrive, Mailbox, Listing, vars, serverVars
  <2> QED BY <2>1, <2>2, <2>3
<1>5. horizon' \in [AllFolders -> Nat] /\ \A f \in AllFolders : horizon'[f] <= Now(f)'
  <2>1. horizon' = horizon \/ \E f \in AllFolders : horizon' = [horizon EXCEPT ![f] = Now(f)]
    BY DEF Next, Work, List, Process, Failure, Environment, StartSync, OpenFolder, ListHistory, GetProfile,
     ListAll, DeltaPage, DeltaExpired, NextPage, FetchFails, Evaluate, CheckDuplicate, Archive,
     ArchiveConflict, RuleEffect, PersistCursor, ArchiveUnreported, RuleEffectFails, FailSync,
     CrashAndRestart, Deliver, MoveByOther, EraseByOther, Expire, Arrive, Mailbox, Listing, vars, serverVars
  <2>2. \A f \in AllFolders : horizon[f] <= Now(f) /\ horizon[f] \in Nat
    BY DEF TypeOK
  <2>3. horizon \in [AllFolders -> Nat]
    BY DEF TypeOK
  <2>4. horizon' \in [AllFolders -> Nat] /\ \A f \in AllFolders : horizon'[f] <= Now(f)
    BY <1>3, <2>1, <2>2, <2>3
  <2> QED BY <1>3, <2>4 DEF Now
<1>6. skipped' \subseteq Messages /\ purged' \subseteq Messages
  <2>1. \A j \in Jobs : RuleEffect(j) => job[j].msg \in Messages
    BY DEF RuleEffect, JobInv, JobOf, OnMessage
  <2>2. skipped' = skipped \/ \E m \in Messages : skipped' = skipped \cup {m}
    BY DEF Next, Work, List, Process, Failure, Environment, StartSync, OpenFolder, ListHistory, GetProfile,
     ListAll, DeltaPage, DeltaExpired, NextPage, FetchFails, Evaluate, CheckDuplicate, Archive,
     ArchiveConflict, RuleEffect, PersistCursor, ArchiveUnreported, RuleEffectFails, FailSync,
     CrashAndRestart, Deliver, MoveByOther, EraseByOther, Expire, Arrive, Mailbox, Listing, vars, serverVars
  <2>3. purged' = purged \/ \E j \in Jobs : RuleEffect(j) /\ purged' = purged \cup {job[j].msg}
    BY DEF Next, Work, List, Process, Failure, Environment, StartSync, OpenFolder, ListHistory, GetProfile,
     ListAll, DeltaPage, DeltaExpired, NextPage, FetchFails, Evaluate, CheckDuplicate, Archive,
     ArchiveConflict, RuleEffect, PersistCursor, ArchiveUnreported, RuleEffectFails, FailSync,
     CrashAndRestart, Deliver, MoveByOther, EraseByOther, Expire, Arrive, Mailbox, Listing, vars, serverVars
  <2> QED BY <2>1, <2>2, <2>3 DEF TypeOK
<1>7. faults' \in 0 .. MaxFaults
  <2>1. faults' = faults \/ Fault
    BY DEF Next, Work, List, Process, Failure, Environment, StartSync, OpenFolder, ListHistory, GetProfile,
     ListAll, DeltaPage, DeltaExpired, NextPage, FetchFails, Evaluate, CheckDuplicate, Archive,
     ArchiveConflict, RuleEffect, PersistCursor, ArchiveUnreported, RuleEffectFails, FailSync,
     CrashAndRestart, Deliver, MoveByOther, EraseByOther, Expire, Arrive, Mailbox, Listing, vars, serverVars
  <2> QED BY <2>1, CursorAssumption DEF TypeOK, Fault
<1>8. JobInv'
  BY JobNext DEF JobInv
<1>9. /\ connector' \in Connectors
      /\ emails' \subseteq [folder : AllFolders, uid : Nat, msg : Messages]
      /\ lastUid' \in [AllFolders -> Nat]
  BY RowsGrow, Constants DEF TypeOK
<1> QED BY <1>1, <1>2, <1>4, <1>5, <1>6, <1>7, <1>8, <1>9 DEF TypeOK

(* The cursor a row or a run keeps is never ahead of the server's log. *)
THEOREM TypeCorrect == Spec => []TypeOK
<1>1. Init => TypeOK /\ ServerInv /\ JobInv
  BY InitInv DEF CursorInv
<1>2. TypeOK /\ ServerInv /\ JobInv /\ [Next]_vars => TypeOK' /\ ServerInv' /\ JobInv'
  BY TypeNext, ServerNext
<1> QED BY <1>1, <1>2, PTL DEF Spec
------------------------------------------------------------------------------
(* Cursors: what no later listing returns has been dealt with. *)
PassedNext(f, c, S) ==
    \A m \in {n \in Messages : where'[n] = f} :
        (\A p \in DOMAIN log'[f] : log'[f][p] = m => p < c) => Reached(m)' \/ m \in S

LEMMA PassedStays ==
  ASSUME TypeOK, JobInv, [Next]_vars, NEW f \in AllFolders, NEW c \in Nat, c <= Now(f), NEW S, NEW T,
         Passed(f, c, S), \A m \in S : m \in T \/ Reached(m)'
  PROVE  PassedNext(f, c, T)
<1> SUFFICES ASSUME NEW m \in Listed(f)', \A p \in DOMAIN log'[f] : log'[f][p] = m => p < c
             PROVE  Reached(m)' \/ m \in T
  BY DEF PassedNext, Listed
<1>1. Now(f) \in Nat /\ ~(Now(f) < c)
  BY LogStep
<1>2. m \in Listed(f)
  BY <1>1, LogStep
<1>3. \A p \in DOMAIN log[f] : log[f][p] = m => p < c
  BY LogStep
<1>4. Reached(m) \/ m \in S
  BY <1>2, <1>3 DEF Passed
<1> QED BY <1>4, ReachedGrows

LEMMA PassedNone ==
  ASSUME TypeOK, ServerInv, NEW f \in AllFolders, NEW c \in {0, 1}, NEW S
  PROVE  Passed(f, c, S)
<1> SUFFICES ASSUME NEW m \in Listed(f) PROVE \E p \in DOMAIN log[f] : log[f][p] = m /\ ~(p < c)
  BY DEF Passed
<1>1. PICK p \in DOMAIN log[f] : log[f][p] = m
  BY DEF Listed, ServerInv
<1>2. log[f] \in Seq(Messages)
  BY DEF TypeOK
<1>3. p \in Nat /\ p >= 1
  BY <1>2
<1> QED BY <1>1, <1>3

LEMMA PassedBetween ==
  ASSUME TypeOK, NEW f \in AllFolders, NEW c \in Nat, NEW d \in Nat, Passed(f, c, {})
  PROVE  Passed(f, d, Between(f, c, d) \cap Listed(f))
<1> SUFFICES ASSUME NEW m \in Listed(f), \A p \in DOMAIN log[f] : log[f][p] = m => p < d
             PROVE  Reached(m) \/ m \in Between(f, c, d)
  BY DEF Passed
<1>1. CASE \A p \in DOMAIN log[f] : log[f][p] = m => p < c
  BY <1>1 DEF Passed
<1>2. ASSUME NEW p \in DOMAIN log[f], log[f][p] = m, ~(p < c) PROVE m \in Between(f, c, d)
  <2>1. p \in Nat /\ p < d
    BY <1>2 DEF TypeOK
  <2>2. p \in c .. d - 1
    BY <1>2, <2>1
  <2> QED BY <1>2, <2>2 DEF Between
<1> QED BY <1>1, <1>2

LEMMA PassedMore ==
  ASSUME NEW f, NEW c, NEW S, NEW T, Passed(f, c, S), S \subseteq T
  PROVE  Passed(f, c, T)
  BY DEF Passed

(* A message leaves the batch only archived, skipped, or as a duplicate. *)
LEMMA HandlesReach ==
  ASSUME TypeOK, JobInv, ReachInv, [Next]_vars, NEW j \in Jobs, Handles(j)
  PROVE  /\ \A m \in job[j].ids : m \in job'[j].ids \/ Reached(m)'
         /\ job'[j].pc = "effect" => \E n \in Archived' : Covers(n, job'[j].msg)
<1>1. job \in [Jobs -> JobType] /\ job[j] \in JobType
  BY DEF TypeOK
<1>2. ASSUME NEW x, job'[j] = Drop(j, x)
      PROVE  job'[j].pc = "fetch" /\ job'[j].ids = job[j].ids \ {x}
  BY <1>1, <1>2 DEF Drop, JobType
<1>3. ASSUME NEW m \in Messages, NEW a \in RuleActions, Evaluate(j, m, a), a = "skip"
      PROVE  job'[j] = Drop(j, m) /\ Reached(m)'
  BY <1>1, <1>3 DEF Evaluate, Set, Reached
<1>4. ASSUME NEW m \in Messages, NEW a \in RuleActions, Evaluate(j, m, a), a # "skip"
      PROVE  job'[j].pc = "check" /\ job'[j].ids = job[j].ids
  <2>1. job'[j] = [job[j] EXCEPT !.pc = "check", !.msg = m, !.rule = a]
    BY <1>1, <1>4 DEF Evaluate, Set
  <2> QED BY <1>1, <2>1 DEF JobType
<1>5. ASSUME CheckDuplicate(j)
      PROVE  /\ job'[j].ids = job[j].ids
             /\ job'[j].pc = "effect" => \E n \in Archived' : Covers(n, job'[j].msg)
  <2>1. PICK pc : /\ pc = "effect" => IsDuplicate(job[j].msg)
                  /\ job' = [job EXCEPT ![j] = [job[j] EXCEPT !.pc = pc]]
    <3>1. job' = [job EXCEPT ![j] = [job[j] EXCEPT !.pc = IF IsDuplicate(job[j].msg) THEN "effect" ELSE "archive"]]
      BY <1>5 DEF CheckDuplicate, Set
    <3> QED BY <3>1
  <2>2. job'[j] = [job[j] EXCEPT !.pc = pc]
    BY <1>1, <2>1
  <2>3. Archived' = Archived
    BY <1>5 DEF CheckDuplicate, Archived
  <2>4. IsDuplicate(job[j].msg) => \E n \in Archived : Covers(n, job[j].msg)
    BY DEF IsDuplicate
  <2> QED BY <1>1, <2>1, <2>2, <2>3, <2>4 DEF JobType
<1>6. ASSUME Archive(j)
      PROVE  job'[j].ids = job[j].ids /\ job'[j].msg = job[j].msg /\ job[j].msg \in Archived'
  <2>1. job'[j] = [job[j] EXCEPT !.pc = "effect", !.uid = job[j].uid + 1]
    BY <1>1, <1>6 DEF Archive, Set
  <2>2. emails' = emails \cup {Row(j)}
    BY <1>6 DEF Archive, Insert
  <2>3. Row(j).msg = job[j].msg
    BY DEF Row
  <2>4. job[j].msg \in Archived'
    BY <2>2, <2>3 DEF Archived
  <2> QED BY <1>1, <2>1, <2>4 DEF JobType
<1>7. ASSUME RuleEffect(j) \/ RuleEffectFails(j)
      PROVE  \E m : job'[j] = Drop(j, m) /\ Reached(m)'
  <2>1. job'[j] = Drop(j, job[j].msg) /\ job[j].pc = "effect"
    BY <1>1, <1>7 DEF RuleEffect, RuleEffectFails, Set
  <2>2. PICK m : m = job[j].msg
    OBVIOUS
  <2>3. Reached(m)
    BY <2>1, <2>2 DEF ReachInv, ReachOf, Reached
  <2>4. Reached(m)'
    BY <2>3, ReachedGrows
  <2>5. job'[j] = Drop(j, m)
    BY <2>1, <2>2
  <2> QED BY <2>4, <2>5
<1>8. \A n : Covers(n, n)
  BY DEF Covers
<1>9. CASE \E m \in Messages, a \in RuleActions : Evaluate(j, m, a)
  BY <1>2, <1>3, <1>4, <1>9
<1>10. CASE CheckDuplicate(j)
  BY <1>5, <1>10, Zenon
<1>11. CASE Archive(j)
  BY <1>6, <1>8, <1>11
<1>12. CASE RuleEffect(j) \/ RuleEffectFails(j)
  BY <1>2, <1>7, <1>12
<1> QED BY <1>9, <1>10, <1>11, <1>12 DEF Handles

(* PersistCursor stores a position whose batch is through. *)
LEMMA CursorStep ==
  ASSUME TypeOK, JobInv, [Next]_vars
  PROVE  \/ cursor' = cursor
         \/ \E j \in Jobs : /\ PersistCursor(j)
                            /\ cursor' = [cursor EXCEPT ![job[j].folder] = job[j].next]
  BY DEF Next, Work, List, Process, Failure, Environment, StartSync, OpenFolder, ListHistory, GetProfile,
     ListAll, DeltaPage, DeltaExpired, NextPage, FetchFails, Evaluate, CheckDuplicate, Archive,
     ArchiveConflict, RuleEffect, PersistCursor, ArchiveUnreported, RuleEffectFails, FailSync,
     CrashAndRestart, Deliver, MoveByOther, EraseByOther, Expire, Arrive, Mailbox, Listing, vars, serverVars

LEMMA CursorReach ==
  ASSUME TypeOK, JobInv, ReachInv, [Next]_vars, NEW f \in AllFolders
  PROVE  PassedNext(f, cursor'[f], {})
<1>0. cursor \in [AllFolders -> Nat] /\ job \in [Jobs -> JobType]
  BY DEF TypeOK
<1>1. CASE cursor'[f] = cursor[f]
  <2>1. PICK c \in Nat : c = cursor[f] /\ c <= Now(f) /\ Passed(f, c, {})
    BY <1>0 DEF TypeOK, ReachInv
  <2>2. PassedNext(f, c, {})
    BY <2>1, PassedStays
  <2> QED BY <1>1, <2>1, <2>2
<1>2. ASSUME NEW j \in Jobs, PersistCursor(j), cursor' = [cursor EXCEPT ![job[j].folder] = job[j].next],
             job[j].folder = f
      PROVE  PassedNext(f, cursor'[f], {})
  <2>1. job[j].pc = "fetch" /\ job[j].ids = {} /\ ~job[j].more
    BY <1>2 DEF PersistCursor
  <2>2. PICK c \in Nat : c = job[j].next
    BY <1>0 DEF JobType
  <2>3. c <= Now(f) /\ Passed(f, c, {})
    BY <1>2, <2>1, <2>2 DEF JobInv, JobOf, InFolder, ReachInv, ReachOf, InBatch
  <2>4. PassedNext(f, c, {})
    BY <2>3, PassedStays
  <2>5. cursor'[f] = c
    BY <1>0, <1>2, <2>2
  <2> QED BY <2>4, <2>5
<1>3. ASSUME NEW j \in Jobs, PersistCursor(j), cursor' = [cursor EXCEPT ![job[j].folder] = job[j].next],
             job[j].folder # f
      PROVE  cursor'[f] = cursor[f]
  BY <1>0, <1>3
<1> QED BY <1>1, <1>2, <1>3, CursorStep

(* The clauses of ReachOf after a step, at rigid positions. *)
ReachNextOf(j) ==
    /\ connector = "gmail" /\ job'[j].pc = "open" => PassedNext(AllMail, job'[j].link, {})
    /\ job'[j].pc = "list" => PassedNext(job'[j].folder, job'[j].link, {})
    /\ job'[j].pc \in InBatch =>
          PassedNext(job'[j].folder, IF job'[j].more THEN job'[j].link ELSE job'[j].next, job'[j].ids)
    /\ job'[j].pc \in InBatch /\ connector = "graph" /\ ~job'[j].more => job'[j].link = job'[j].next
    /\ job'[j].pc = "listall" => connector = "gmail"
    /\ job'[j].pc = "effect" => \E n \in Archived' : Covers(n, job'[j].msg)

LEMMA ReachNextMeans ==
  ASSUME [Next]_vars, NEW j \in Jobs, ReachNextOf(j)
  PROVE  ReachOf(j)'
<1>1. connector' = connector
  BY Constants
<1> QED BY <1>1, Zenon DEF ReachNextOf, ReachOf, PassedNext, Passed, Listed

LEMMA UnmovedReach ==
  ASSUME TypeOK, JobInv, ReachInv, [Next]_vars, NEW j \in Jobs, job'[j] = job[j]
  PROVE  ReachNextOf(j)
<1>1. job[j] \in JobType /\ JobOf(j) /\ ReachOf(j)
  BY DEF TypeOK, JobInv, ReachInv
<1>2. PICK k \in Nat, n \in Nat, S \in SUBSET Messages : k = job[j].link /\ n = job[j].next /\ S = job[j].ids
  BY <1>1 DEF JobType
<1>3. connector = "gmail" /\ job[j].pc = "open" => PassedNext(AllMail, k, {})
  BY <1>1, <1>2, PassedStays, FoldersKnown DEF JobOf, ReachOf
<1>4. ASSUME job[j].pc \in InFolder PROVE job[j].folder \in AllFolders /\ k <= Now(job[j].folder) /\ n <= Now(job[j].folder)
  BY <1>1, <1>2, <1>4, FoldersKnown DEF JobOf
<1>5. job[j].pc = "list" => PassedNext(job[j].folder, k, {})
  <2> SUFFICES ASSUME job[j].pc = "list" PROVE PassedNext(job[j].folder, k, {})
    OBVIOUS
  <2>1. PICK f \in AllFolders : f = job[j].folder /\ k <= Now(f)
    BY <1>4 DEF InFolder
  <2>2. Passed(f, k, {})
    BY <1>1, <1>2, <2>1 DEF ReachOf
  <2>3. PassedNext(f, k, {})
    BY <2>1, <2>2, PassedStays
  <2> QED BY <2>1, <2>3
<1>6. job[j].pc \in InBatch => PassedNext(job[j].folder, IF job[j].more THEN k ELSE n, S)
  <2> SUFFICES ASSUME job[j].pc \in InBatch
               PROVE  PassedNext(job[j].folder, IF job[j].more THEN k ELSE n, S)
    OBVIOUS
  <2>1. PICK f \in AllFolders : f = job[j].folder /\ k <= Now(f) /\ n <= Now(f)
    BY <1>4 DEF InFolder, InBatch
  <2>2. PICK c \in {k, n} : c = IF job[j].more THEN k ELSE n
    OBVIOUS
  <2>3. Passed(f, c, S)
    BY <1>1, <1>2, <2>1, <2>2 DEF ReachOf
  <2>4. PassedNext(f, c, S)
    BY <2>1, <2>2, <2>3, PassedStays
  <2> QED BY <2>1, <2>2, <2>4
<1>7. job[j].pc = "effect" => \E n1 \in Archived' : Covers(n1, job[j].msg)
  <2>1. PICK m : m = job[j].msg
    OBVIOUS
  <2>2. Archived \subseteq Archived'
    BY ReachedGrows
  <2> QED BY <1>1, <2>2 DEF ReachOf
<1> QED BY <1>1, <1>2, <1>3, <1>5, <1>6, <1>7 DEF ReachNextOf, ReachOf

(* A job that just began knows the cursor row, one that opens a folder too. *)
LEMMA OpeningReach ==
  ASSUME TypeOK, JobInv, ReachInv, ServerInv, [Next]_vars, NEW j \in Jobs,
         \/ job'[j] = Idle \/ StartSync(j) \/ (\E f \in AllFolders : OpenFolder(j, f)) \/ PersistCursor(j)
  PROVE  ReachNextOf(j)
<1>1. job[j] \in JobType /\ JobOf(j) /\ ReachOf(j) /\ job \in [Jobs -> JobType]
  BY DEF TypeOK, JobInv, ReachInv
<1>2. cursor \in [AllFolders -> Nat] /\ \A f \in AllFolders : cursor[f] <= Now(f) /\ Passed(f, cursor[f], {})
  BY DEF TypeOK, ReachInv
<1>3. CASE job'[j] = Idle
  BY <1>3 DEF Idle, ReachNextOf, InBatch
<1>4. CASE StartSync(j)
  <2>1. job'[j] = [Idle EXCEPT !.pc = "open", !.todo = Folders, !.link = cursor[AllMail]]
    BY <1>1, <1>4 DEF StartSync, Set
  <2>2. PICK c \in Nat : c = cursor[AllMail] /\ c <= Now(AllMail) /\ Passed(AllMail, c, {})
    BY <1>2, FoldersKnown
  <2>3. PassedNext(AllMail, c, {})
    BY <2>2, PassedStays, FoldersKnown
  <2> QED BY <2>1, <2>2, <2>3 DEF Idle, ReachNextOf, InBatch
<1>5. ASSUME NEW f \in AllFolders, OpenFolder(j, f) PROVE ReachNextOf(j)
  <2>1. PICK c \in {job[j].link, cursor[f]} :
          /\ c = IF connector = "gmail" THEN job[j].link ELSE cursor[f]
          /\ job'[j] = [job[j] EXCEPT !.pc = "list", !.todo = @ \ {f}, !.folder = f, !.uid = lastUid[f] + 1,
                                      !.link = c]
    BY <1>1, <1>5 DEF OpenFolder, Set
  <2>2. job[j].pc = "open" /\ f \in Folders
    BY <1>1, <1>5 DEF OpenFolder, JobOf
  <2>3. c \in Nat /\ c <= Now(f) /\ Passed(f, c, {})
    <3>1. CASE connector = "gmail"
      BY <1>1, <2>1, <2>2, <3>1, FoldersKnown DEF JobType, JobOf, ReachOf
    <3>2. CASE connector # "gmail"
      BY <1>2, <2>1, <3>2
    <3> QED BY <3>1, <3>2
  <2>4. PassedNext(f, c, {})
    BY <2>3, PassedStays
  <2>5. job'[j].pc = "list" /\ job'[j].folder = f /\ job'[j].link = c
    BY <1>1, <2>1 DEF JobType
  <2> QED BY <2>4, <2>5 DEF ReachNextOf, InBatch
<1>6. CASE PersistCursor(j) /\ job'[j] # Idle
  <2>1. job'[j] = [Idle EXCEPT !.pc = "open", !.todo = job[j].todo]
    BY <1>1, <1>6 DEF PersistCursor, Set, Stop
  <2>2. Passed(AllMail, 0, {}) /\ 0 <= Now(AllMail)
    <3>1. AllMail \in AllFolders
      BY FoldersKnown
    <3>2. Now(AllMail) \in Nat
      BY <3>1, LogStep
    <3>3. Passed(AllMail, 0, {})
      BY <3>1, PassedNone
    <3> QED BY <3>2, <3>3
  <2>3. PassedNext(AllMail, 0, {})
    BY <2>2, PassedStays, FoldersKnown
  <2> QED BY <2>1, <2>3 DEF Idle, ReachNextOf, InBatch
<1> QED BY <1>3, <1>4, <1>5, <1>6

(* A batch that is being worked through loses nothing. *)
LEMMA BatchReach ==
  ASSUME TypeOK, JobInv, ReachInv, [Next]_vars, NEW j \in Jobs, Handles(j)
  PROVE  ReachNextOf(j)
<1>1. job[j] \in JobType /\ JobOf(j) /\ ReachOf(j)
  BY DEF TypeOK, JobInv, ReachInv
<1>2. PICK pc \in InBatch, ids \in SUBSET job[j].ids, msg \in Messages \cup {NoMsg}, rule \in Actions, uid \in Nat :
        HandlesTo(j, pc, ids, msg, rule, uid)
  BY HandlesStep
<1>3. /\ job'[j].pc = pc /\ job'[j].ids = ids /\ job'[j].link = job[j].link
      /\ job'[j].next = job[j].next /\ job'[j].more = job[j].more /\ job'[j].folder = job[j].folder
  BY <1>1, <1>2 DEF HandlesTo, JobType
<1>4. job[j].pc \in InBatch
  BY <1>2 DEF HandlesTo
<1>5. PICK f \in AllFolders : f = job[j].folder /\ job[j].link <= Now(f) /\ job[j].next <= Now(f)
  BY <1>1, <1>4, FoldersKnown DEF JobOf, InBatch, InFolder
<1>6. PICK c \in Nat : c = (IF job[j].more THEN job[j].link ELSE job[j].next) /\ c <= Now(f)
  BY <1>1, <1>5 DEF JobType
<1>7. Passed(f, c, job[j].ids)
  BY <1>1, <1>4, <1>5, <1>6 DEF ReachOf
<1>8. \A m \in job[j].ids : m \in ids \/ Reached(m)'
  BY <1>3, HandlesReach
<1>9. PassedNext(f, c, ids)
  BY <1>6, <1>7, <1>8, PassedStays
<1>10. job'[j].pc = "effect" => \E n \in Archived' : Covers(n, job'[j].msg)
  BY HandlesReach
<1>11. PassedNext(job'[j].folder, IF job'[j].more THEN job'[j].link ELSE job'[j].next, job'[j].ids)
  BY <1>3, <1>5, <1>6, <1>9
<1> QED BY <1>1, <1>3, <1>4, <1>10, <1>11 DEF ReachNextOf, ReachOf, InBatch

(* A listing returns everything between the position it read and the one it *)
(* will store.                                                              *)
LEMMA ListingReach ==
  ASSUME TypeOK, ServerInv, JobInv, ReachInv, [Next]_vars, NEW j \in Jobs, Lists(j)
  PROVE  ReachNextOf(j)
<1>1. job[j] \in JobType /\ JobOf(j) /\ ReachOf(j) /\ job \in [Jobs -> JobType]
  BY DEF TypeOK, JobInv, ReachInv
<1>2. job[j].pc \in {"list", "listall", "fetch"}
  BY DEF Lists, ListHistory, GetProfile, ListAll, DeltaPage, NextPage, Listing
<1>3. PICK f \in AllFolders : f = job[j].folder /\ job[j].link <= Now(f) /\ job[j].next <= Now(f)
  BY <1>1, <1>2, FoldersKnown DEF JobOf, InFolder
<1>4. PICK k \in Nat, n \in Nat : k = job[j].link /\ n = job[j].next
  BY <1>1 DEF JobType
<1>5. Now(f) \in Nat /\ ~(Now(f) > Now(f))
  BY LogStep
<1>6. job[j].pc = "list" => Passed(f, k, {})
  BY <1>1, <1>3, <1>4 DEF ReachOf
<1>7. connector = "gmail" => ~job[j].more
  BY <1>1 DEF JobOf
<1>8. CASE ListHistory(j)
  <2>1. job'[j] = [job[j] EXCEPT !.pc = "fetch", !.next = Now(f), !.ids = Between(f, k, Now(f))]
    BY <1>1, <1>3, <1>4, <1>8 DEF ListHistory, Set
  <2>2. Passed(f, Now(f), Between(f, k, Now(f)) \cap Listed(f))
    BY <1>5, <1>6, <1>8, PassedBetween DEF ListHistory, Listing
  <2>3. PICK d, S : d \in Nat /\ d = Now(f) /\ S = Between(f, k, Now(f)) /\ Passed(f, d, S)
    BY <1>5, <2>2, PassedMore
  <2>4. PassedNext(f, d, S)
    BY <2>3, <1>5, PassedStays
  <2>5. connector = "gmail" /\ ~job[j].more
    BY <1>7, <1>8 DEF ListHistory
  <2>6. /\ job'[j].pc = "fetch" /\ job'[j].next = d /\ job'[j].ids = S
        /\ job'[j].folder = f /\ ~job'[j].more
    BY <1>1, <1>3, <2>1, <2>3, <2>5 DEF JobType
  <2> QED BY <2>4, <2>5, <2>6 DEF ReachNextOf
<1>9. CASE GetProfile(j)
  <2>1. job'[j] = [job[j] EXCEPT !.pc = "listall", !.next = Now(f)]
    BY <1>1, <1>3, <1>9 DEF GetProfile, Set
  <2>2. connector = "gmail"
    BY <1>9 DEF GetProfile
  <2>3. job'[j].pc = "listall"
    BY <1>1, <2>1 DEF JobType
  <2> QED BY <2>2, <2>3 DEF ReachNextOf, InBatch
<1>10. CASE ListAll(j)
  <2>1. job'[j] = [job[j] EXCEPT !.pc = "fetch", !.ids = Listed(f)]
    BY <1>1, <1>3, <1>10 DEF ListAll, Set
  <2>2. connector = "gmail" /\ ~job[j].more
    BY <1>1, <1>7, <1>10 DEF ListAll, Listing, ReachOf
  <2>3. PICK S : S = Listed(f) /\ Passed(f, n, S)
    BY DEF Passed
  <2>4. PassedNext(f, n, S)
    BY <1>3, <1>4, <2>3, PassedStays
  <2>5. /\ job'[j].pc = "fetch" /\ job'[j].next = n /\ job'[j].ids = S
        /\ job'[j].folder = f /\ ~job'[j].more
    BY <1>1, <1>3, <1>4, <2>1, <2>2, <2>3 DEF JobType
  <2> QED BY <2>2, <2>4, <2>5 DEF ReachNextOf
<1>11. CASE DeltaPage(j)
  <2>1. PICK c \in Nat : c = IF k = 0 THEN 1 ELSE k
    OBVIOUS
  <2>2. PICK d \in c .. Now(f) :
          job' = [job EXCEPT ![j] = [job[j] EXCEPT !.pc = "fetch", !.link = d, !.more = d < Now(f),
                                      !.next = IF d < Now(f) THEN @ ELSE d,
                                      !.ids = Between(f, c, d) \cap Listed(f)]]
    BY <1>3, <1>4, <2>1, <1>11 DEF DeltaPage, Set
  <2>3. Passed(f, c, {})
    <3>1. CASE k = 0
      BY <2>1, <3>1, PassedNone
    <3>2. CASE k # 0
      BY <1>6, <1>11, <2>1, <3>2 DEF DeltaPage, Listing
    <3> QED BY <3>1, <3>2
  <2>4. d \in Nat /\ d <= Now(f)
    BY <1>5, <2>1, <2>2
  <2>5. PICK S : S = Between(f, c, d) \cap Listed(f)
    OBVIOUS
  <2>6. Passed(f, d, S)
    BY <2>3, <2>4, <2>5, PassedBetween
  <2>7. PassedNext(f, d, S)
    BY <2>4, <2>6, PassedStays
  <2>8. PICK more \in BOOLEAN, next \in Nat :
          /\ more = (d < Now(f)) /\ next = IF d < Now(f) THEN n ELSE d
          /\ job' = [job EXCEPT ![j] = [job[j] EXCEPT !.pc = "fetch", !.link = d, !.more = more,
                                                       !.next = next, !.ids = S]]
    <3>1. (IF d < Now(f) THEN n ELSE d) \in Nat /\ (d < Now(f)) \in BOOLEAN
      BY <2>4
    <3> QED BY <1>4, <2>2, <2>5, <3>1
  <2>9. job'[j] = [job[j] EXCEPT !.pc = "fetch", !.link = d, !.more = more, !.next = next, !.ids = S]
    BY <1>1, <2>8
  <2>10. /\ job'[j].pc = "fetch" /\ job'[j].link = d /\ job'[j].more = more /\ job'[j].next = next
         /\ job'[j].ids = S /\ job'[j].folder = f
    BY <1>1, <1>3, <2>9 DEF JobType
  <2>11. ~more => next = d
    BY <2>8
  <2>12. (IF more THEN d ELSE next) = d
    BY <2>11
  <2> QED BY <2>7, <2>10, <2>11, <2>12 DEF ReachNextOf
<1>12. CASE NextPage(j)
  <2>1. job'[j] = [job[j] EXCEPT !.pc = "list"]
    BY <1>1, <1>12 DEF NextPage, Set
  <2>2. job[j].pc = "fetch" /\ job[j].ids = {} /\ job[j].more
    BY <1>12 DEF NextPage, Listing
  <2>3. Passed(f, k, {})
    BY <1>1, <1>3, <1>4, <2>2 DEF ReachOf, InBatch
  <2>4. PassedNext(f, k, {})
    BY <1>3, <1>4, <2>3, PassedStays
  <2>5. job'[j].pc = "list" /\ job'[j].link = k /\ job'[j].folder = f
    BY <1>1, <1>3, <1>4, <2>1 DEF JobType
  <2> QED BY <2>4, <2>5 DEF ReachNextOf, InBatch
<1> QED BY <1>8, <1>9, <1>10, <1>11, <1>12 DEF Lists

LEMMA ReachNext ==
  ASSUME TypeOK, ServerInv, JobInv, ReachInv, [Next]_vars
  PROVE  ReachInv'
<1>1. ASSUME NEW j \in Jobs PROVE ReachOf(j)'
  <2>1. ReachNextOf(j)
    BY JobStep, UnmovedReach, OpeningReach, BatchReach, ListingReach
  <2> QED BY <2>1, ReachNextMeans
<1>2. ASSUME NEW f \in AllFolders PROVE Passed(f, cursor[f], {})'
  BY CursorReach, Zenon DEF PassedNext, Passed, Listed
<1> QED BY <1>1, <1>2 DEF ReachInv

(* What no later listing returns was archived or skipped by some run, for   *)
(* both connectors: a cursor is stored only behind a batch that is through, *)
(* and it was taken before the batch was listed (resolveMessageIDs,         *)
(* syncOneMSGraphFolder).                                                   *)
THEOREM CursorsPassNothing == Spec => []NothingBelowCursorLost
<1>1. Init => CursorInv
  BY InitInv
<1>2. CursorInv /\ [Next]_vars => CursorInv'
  BY TypeNext, ServerNext, ReachNext DEF CursorInv
<1>3. CursorInv => NothingBelowCursorLost
  <2> SUFFICES ASSUME CursorInv, NEW f \in Folders, NEW m \in Listed(f),
                      \A p \in DOMAIN log[f] : log[f][p] = m => p < cursor[f]
               PROVE  Reached(m)
    BY DEF NothingBelowCursorLost
  <2>1. f \in AllFolders
    BY FoldersKnown
  <2>2. Passed(f, cursor[f], {})
    BY <2>1 DEF CursorInv, ReachInv
  <2> QED BY <2>2 DEF Passed
<1> QED BY <1>1, <1>2, <1>3, PTL DEF Spec
------------------------------------------------------------------------------
(* Rows: one per Message-ID and folder. *)

(* A run that will archive a message saw that no row has its Message-ID. *)
LEMMA ArchiveChecked ==
  ASSUME TypeOK, JobInv, [Next]_vars, NEW j \in Jobs, job'[j].pc = "archive"
  PROVE  \/ job'[j] = job[j]
         \/ /\ job'[j].folder = job[j].folder /\ job'[j].msg = job[j].msg /\ ~IsDuplicate(job[j].msg)
            /\ emails' = emails
<1>1. job \in [Jobs -> JobType] /\ job[j] \in JobType
  BY DEF TypeOK
<1>2. CASE job'[j] = Idle
  BY <1>2 DEF Idle
<1>3. CASE StartSync(j)
  BY <1>1, <1>3 DEF StartSync, Set, Idle
<1>4. ASSUME NEW f \in AllFolders, OpenFolder(j, f) PROVE FALSE
  <2>1. job'[j] = [job[j] EXCEPT !.pc = "list", !.todo = @ \ {f}, !.folder = f, !.uid = lastUid[f] + 1,
                                 !.link = IF connector = "gmail" THEN @ ELSE cursor[f]]
    BY <1>1, <1>4 DEF OpenFolder, Set
  <2> QED BY <1>1, <2>1 DEF JobType
<1>5. CASE Lists(j)
  <2>1. PICK pc \in {"list", "listall", "fetch"}, link \in Nat, next \in Nat, more \in BOOLEAN, ids \in SUBSET Messages :
            ListsTo(j, pc, link, next, more, ids)
    BY <1>5, ListsStep
  <2>2. job'[j].pc = pc
    BY <1>1, <2>1 DEF ListsTo, JobType
  <2> QED BY <2>2
<1>6. CASE PersistCursor(j)
  <2>1. PICK r \in {Idle, [Idle EXCEPT !.pc = "open", !.todo = job[j].todo]} : job' = [job EXCEPT ![j] = r]
    BY <1>6 DEF PersistCursor, Set, Stop
  <2>2. job'[j] = r
    BY <1>1, <2>1
  <2>3. Idle.pc = "idle" /\ [Idle EXCEPT !.pc = "open", !.todo = job[j].todo].pc = "open"
    BY DEF Idle
  <2> QED BY <2>1, <2>2, <2>3
<1>7. ASSUME NEW m, job'[j] = Drop(j, m) PROVE FALSE
  BY <1>1, <1>7 DEF Drop, JobType
<1>8. ASSUME NEW m \in Messages, NEW a \in RuleActions, Evaluate(j, m, a) PROVE FALSE
  <2>1. CASE a = "skip"
    BY <1>1, <1>7, <1>8, <2>1 DEF Evaluate, Set
  <2>2. CASE a # "skip"
    <3>1. job'[j] = [job[j] EXCEPT !.pc = "check", !.msg = m, !.rule = a]
      BY <1>1, <1>8, <2>2 DEF Evaluate, Set
    <3> QED BY <1>1, <3>1 DEF JobType
  <2> QED BY <2>1, <2>2
<1>9. CASE Archive(j)
  <2>1. job'[j] = [job[j] EXCEPT !.pc = "effect", !.uid = job[j].uid + 1]
    BY <1>1, <1>9 DEF Archive, Set
  <2> QED BY <1>1, <2>1 DEF JobType
<1>10. CASE RuleEffect(j) \/ RuleEffectFails(j)
  BY <1>1, <1>7, <1>10 DEF RuleEffect, RuleEffectFails, Set
<1>11. CASE CheckDuplicate(j)
  <2>1. PICK pc : /\ pc = "effect" \/ (pc = "archive" /\ ~IsDuplicate(job[j].msg))
                  /\ job' = [job EXCEPT ![j] = [job[j] EXCEPT !.pc = pc]]
    <3>1. job' = [job EXCEPT ![j] = [job[j] EXCEPT !.pc = IF IsDuplicate(job[j].msg) THEN "effect" ELSE "archive"]]
      BY <1>11 DEF CheckDuplicate, Set
    <3> QED BY <3>1
  <2>2. job'[j] = [job[j] EXCEPT !.pc = pc]
    BY <1>1, <2>1
  <2>3. job'[j].pc = pc /\ job'[j].folder = job[j].folder /\ job'[j].msg = job[j].msg
    BY <1>1, <2>2 DEF JobType
  <2>4. emails' = emails
    BY <1>11 DEF CheckDuplicate
  <2> QED BY <2>1, <2>3, <2>4
<1> QED BY <1>2, <1>3, <1>4, <1>5, <1>6, <1>8, <1>9, <1>10, <1>11, JobStep DEF Handles

LEMMA NotDuplicate ==
  ASSUME NEW m, ~IsDuplicate(m), NEW n \in Archived
  PROVE  ~Twins(m, n)
  BY Zenon DEF IsDuplicate, Covers, Twins

LEMMA TwinsMutual ==
  ASSUME NEW m, NEW n, Twins(m, n)
  PROVE  Twins(n, m)
  BY Zenon DEF Twins

LEMMA RowsKept ==
  ASSUME TypeOK, JobInv, RowsInv, RowsUnique, [Next]_vars, UNCHANGED <<emails, lastUid>>
  PROVE  RowsInv' /\ RowsUnique'
<1>1. ASSUME NEW j \in Jobs, NEW e \in emails, job'[j].pc = "archive", job'[j].uid > lastUid[job'[j].folder],
             e.folder = job'[j].folder
      PROVE  ~Twins(job'[j].msg, e.msg)
  <2>1. CASE job'[j] = job[j]
    BY <1>1, <2>1 DEF RowsInv
  <2>2. CASE job'[j].msg = job[j].msg /\ ~IsDuplicate(job[j].msg)
    <3>1. PICK m, n : m = job[j].msg /\ n = e.msg
      OBVIOUS
    <3>2. n \in Archived
      BY <3>1 DEF Archived
    <3>3. ~Twins(m, n)
      BY <2>2, <3>1, <3>2, NotDuplicate
    <3> QED BY <2>2, <3>1, <3>3
  <2> QED BY <1>1, <2>1, <2>2, ArchiveChecked
<1>2. RowsInv'
  BY <1>1 DEF RowsInv
<1> QED BY <1>2 DEF RowsUnique

LEMMA RowsAdded ==
  ASSUME TypeOK, JobInv, RowsInv, RowsUnique, NEW j \in Jobs, job[j].pc = "archive", ~UidTaken(j),
         Insert(j), Archive(j) \/ Stop(j)
  PROVE  RowsInv' /\ RowsUnique'
<1>1. job \in [Jobs -> JobType] /\ job[j] \in JobType /\ JobOf(j) /\ lastUid \in [AllFolders -> Nat]
  BY DEF TypeOK, JobInv
<1>2. PICK f \in AllFolders, u \in Nat, m \in Messages :
         f = job[j].folder /\ u = job[j].uid /\ m = job[j].msg /\ u \in 1 .. lastUid[f] + 1
  BY <1>1, FoldersKnown DEF JobOf, JobType, InFolder, OnMessage
<1>3. u = lastUid[f] + 1
  <2>1. ~(\E e \in emails : e.folder = f /\ e.uid = u)
    BY <1>2 DEF UidTaken
  <2>2. u \notin 1 .. lastUid[f]
    BY <2>1 DEF RowsInv
  <2> QED BY <1>1, <1>2, <2>2
<1>4. PICK r : r.folder = f /\ r.uid = u /\ r.msg = m /\ emails' = emails \cup {r}
  BY <1>2 DEF Insert, Row
<1>5. lastUid' = [lastUid EXCEPT ![f] = u]
  <2>1. lastUid' = [lastUid EXCEPT ![f] = IF @ < u THEN u ELSE @]
    BY <1>2 DEF Insert
  <2>2. lastUid[f] \in Nat /\ lastUid[f] < u
    BY <1>1, <1>3
  <2> QED BY <2>1, <2>2
<1>6. /\ lastUid'[f] = lastUid[f] + 1 /\ lastUid[f] \in Nat
      /\ \A g \in AllFolders : g # f => lastUid'[g] = lastUid[g]
  BY <1>1, <1>3, <1>5
<1>7. \A e \in emails : e.folder \in AllFolders /\ e.uid \in 1 .. lastUid[e.folder]
  BY DEF TypeOK, RowsInv
<1>8. \A e \in emails' : e.uid \in 1 .. lastUid'[e.folder]
  BY <1>2, <1>3, <1>4, <1>6, <1>7
<1>9. ASSUME NEW g \in AllFolders, NEW v \in 1 .. lastUid'[g] PROVE \E e \in emails' : e.folder = g /\ e.uid = v
  <2>1. CASE v \in 1 .. lastUid[g]
    BY <1>4, <2>1 DEF RowsInv
  <2>2. CASE v \notin 1 .. lastUid[g]
    <3>1. g = f
      BY <1>6, <1>9, <2>2
    <3>2. v = u
      BY <1>3, <1>6, <1>9, <2>2, <3>1
    <3> QED BY <1>4, <3>1, <3>2
  <2> QED BY <2>1, <2>2
<1>10. \A e \in emails : e.folder = f => ~Twins(m, e.msg)
  <2>1. job[j].uid > lastUid[job[j].folder]
    BY <1>1, <1>2, <1>3
  <2> QED BY <1>2, <2>1 DEF RowsInv
<1>11. RowsUnique'
  <2>1. ASSUME NEW d \in emails', NEW e \in emails', d.folder = e.folder, Twins(d.msg, e.msg) PROVE d = e
    <3>1. CASE d \in emails /\ e \in emails
      BY <2>1, <3>1 DEF RowsUnique
    <3>2. CASE d = r /\ e \in emails
      BY <1>4, <1>10, <2>1, <3>2
    <3>3. CASE e = r /\ d \in emails
      BY <1>4, <1>10, <2>1, <3>3, TwinsMutual
    <3> QED BY <1>4, <3>1, <3>2, <3>3
  <2> QED BY <2>1 DEF RowsUnique
<1>12. job'[j].pc # "archive" /\ \A k \in Jobs : k # j => job'[k] = job[k]
  <2>1. PICK s \in {Idle, [job[j] EXCEPT !.pc = "effect", !.uid = job[j].uid + 1]} : job' = [job EXCEPT ![j] = s]
    BY DEF Stop, Set, Archive
  <2>2. [job[j] EXCEPT !.pc = "effect", !.uid = job[j].uid + 1].pc = "effect"
    BY <1>1 DEF JobType
  <2>3. Idle.pc = "idle"
    BY DEF Idle
  <2>4. s.pc # "archive"
    BY <2>2, <2>3
  <2> QED BY <1>1, <2>1, <2>4
<1>13. ASSUME NEW k \in Jobs, NEW e \in emails', job'[k].pc = "archive", job'[k].uid > lastUid'[job'[k].folder],
              e.folder = job'[k].folder
       PROVE  ~Twins(job'[k].msg, e.msg)
  <2>1. job'[k] = job[k]
    BY <1>12, <1>13
  <2>2. PICK g \in AllFolders, v \in Nat : g = job[k].folder /\ v = job[k].uid /\ v \in 1 .. lastUid[g] + 1
    BY <1>13, <2>1, FoldersKnown DEF TypeOK, JobInv, JobOf, InFolder, JobType
  <2>3. g # f
    BY <1>6, <1>13, <2>1, <2>2
  <2>4. e \in emails /\ v > lastUid[g]
    BY <1>4, <1>6, <1>13, <2>1, <2>2, <2>3
  <2> QED BY <1>13, <2>1, <2>2, <2>4 DEF RowsInv
<1> QED BY <1>8, <1>9, <1>11, <1>13 DEF RowsInv

(* Whatever runs overlap, fail or read a message again, a folder has one    *)
(* row of a Message-ID: the UID a run would use is free only while no other *)
(* run archived there since it looked (ArchiveOne, emails.UNIQUE).          *)
THEOREM OneRowPerMessage == Spec => []NoDuplicateRows
<1>1. Init => CursorInv /\ RowsInv /\ RowsUnique
  <2>1. Init => RowsUnique
    BY DEF Init, RowsUnique
  <2> QED BY <2>1, InitInv
<1>2. CursorInv /\ RowsInv /\ RowsUnique /\ [Next]_vars => CursorInv' /\ RowsInv' /\ RowsUnique'
  <2> SUFFICES ASSUME CursorInv, RowsInv, RowsUnique, [Next]_vars
               PROVE  CursorInv' /\ RowsInv' /\ RowsUnique'
    OBVIOUS
  <2>1. CursorInv'
    BY TypeNext, ServerNext, ReachNext DEF CursorInv
  <2>2. RowsInv' /\ RowsUnique'
    BY RowsStep, RowsKept, RowsAdded DEF CursorInv
  <2> QED BY <2>1, <2>2
<1>3. RowsUnique => NoDuplicateRows
  BY Zenon DEF RowsUnique, NoDuplicateRows, Twins
<1> QED BY <1>1, <1>2, <1>3, PTL DEF Spec
------------------------------------------------------------------------------
(* CursorSync implements ArchivePromise. *)
LEMMA PurgedOnce ==
  ASSUME [Next]_vars
  PROVE  \/ purged' = purged
         \/ \E j \in Jobs : RuleEffect(j)
  BY DEF Next, Work, List, Process, Failure, Environment, StartSync, OpenFolder, ListHistory, GetProfile,
     ListAll, DeltaPage, DeltaExpired, NextPage, FetchFails, Evaluate, CheckDuplicate, Archive,
     ArchiveConflict, PersistCursor, ArchiveUnreported, RuleEffectFails, FailSync,
     CrashAndRestart, Deliver, MoveByOther, EraseByOther, Expire, Arrive, Mailbox, Listing, vars, serverVars

LEMMA PromiseNext ==
  ASSUME TypeOK, JobInv, ReachInv, [Next]_vars
  PROVE  [Promise!Next]_<<Archived, purged>>
<1>1. ASSUME NEW m \in Messages, Archived' = Archived \cup {m}, purged' = purged PROVE Promise!Next
  BY <1>1 DEF Promise!Next, Promise!Keep
<1>2. ASSUME NEW m \in Messages, \E n \in Archived : Covers(n, m), Archived' = Archived,
             purged' = purged \cup {m}
      PROVE  Promise!Next
  BY <1>2, Zenon DEF Promise!Next, Promise!Purge, Promise!Covers, Covers
<1>3. emails' = emails => Archived' = Archived
  BY DEF Archived
<1>4. ASSUME NEW j \in Jobs, job[j].pc = "archive", Insert(j), purged' = purged PROVE Promise!Next
  <2>1. PICK m \in Messages : m = job[j].msg
    BY <1>4 DEF JobInv, JobOf, OnMessage
  <2>2. emails' = emails \cup {Row(j)} /\ Row(j).msg = m
    BY <1>4, <2>1 DEF Insert, Row
  <2>3. Archived' = Archived \cup {m}
    BY <2>2 DEF Archived
  <2> QED BY <1>1, <1>4, <2>3
<1>5. ASSUME NEW j \in Jobs, RuleEffect(j) PROVE Promise!Next \/ UNCHANGED <<Archived, purged>>
  <2>1. job[j].pc = "effect" /\ emails' = emails
    BY <1>5 DEF RuleEffect
  <2>2. PICK m \in Messages : m = job[j].msg
    BY <2>1 DEF JobInv, JobOf, OnMessage
  <2>3. \E n \in Archived : Covers(n, m)
    BY <2>1, <2>2 DEF ReachInv, ReachOf
  <2>4. purged' = purged \/ purged' = purged \cup {m}
    BY <1>5, <2>2 DEF RuleEffect
  <2>5. CASE purged' = purged
    BY <1>3, <2>1, <2>5
  <2>6. CASE purged' = purged \cup {m}
    BY <1>2, <1>3, <2>1, <2>3, <2>6
  <2> QED BY <2>4, <2>5, <2>6
<1> QED BY <1>3, <1>4, <1>5, RowsStep, PurgedOnce

(* The synchronisation over a cursor implements ArchivePromise: the archive *)
(* only grows, and a run discards only messages whose copy is in it.        *)
THEOREM ImplementsPromise == Spec => AppendOnlyArchive
<1>1. Init => CursorInv
  BY InitInv
<1>2. CursorInv /\ [Next]_vars => CursorInv'
  BY TypeNext, ServerNext, ReachNext DEF CursorInv
<1>3. CursorInv /\ [Next]_vars => [Promise!Next]_<<Archived, purged>>
  BY PromiseNext DEF CursorInv
<1>4. Init => Promise!Init
  BY DEF Init, Promise!Init, Archived
<1>5. [Promise!Next]_<<Archived, purged>> => [Promise!Next]_<<{e.msg : e \in emails}, purged>>
  BY DEF Archived
<1> QED BY <1>1, <1>2, <1>3, <1>4, <1>5, PTL DEF Spec, AppendOnlyArchive, Promise!Spec
=============================================================================
