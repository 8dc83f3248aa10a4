---------------------------- MODULE ServerProofs ----------------------------
(***************************************************************************)
(* Proofs about Server, for any accounts, runs, emails, pool size and      *)
(* faults: type correctness, that no transaction is cut off by a close,    *)
(* and that search neither misses a local email silently nor goes on       *)
(* finding a deleted one.                                                  *)
(***************************************************************************)
EXTENDS Server, TLAPS

Serving == {"serving", "http", "cron", "pool", "jobs"}
Down    == {"locked", "exited"}

(* The phases of the process: the writer and the database are up through   *)
(* the shutdown until the writer has ended, nothing is left when it exits. *)
ProcessInv ==
    /\ phase \in Serving => db /\ writer = "open"
    /\ phase = "writer" => db
    /\ phase \in {"locked", "exited", "closed"} => writer = "stopped"
    /\ writer = "stopped" => executing = NoRun
    /\ index.open => reindex.pc = "none"
    /\ reindex.pc # "none" => index.docs = {}
    /\ reindex.pc # "building" => reindex.built = {}
    /\ reindex.pc = "closed" => late = {}
    /\ late \subseteq missed
    /\ phase \in Down => /\ ~index.open /\ reindex.pc = "none"
                         /\ \A r \in Runs : run[r].pc = "idle"
                         /\ \A e \in Emails : deletion[e] = "none"

(* A run that inserts an email is the only one to, and the one whose        *)
(* transaction is executed waits for it.                                    *)
RunInv ==
    /\ \A r \in Runs : run[r].pc = "waiting" <=> executing = r
    /\ \A r \in Runs : run[r].pc \in {"insert", "waiting"} =>
          /\ rows[run[r].email] = "none"
          /\ \A s \in Runs : s # r /\ run[s].pc \in {"insert", "waiting"} => run[s].email # run[r].email
    /\ \A r \in Runs : run[r].pc = "index" =>
          /\ rows[run[r].email] # "none"
          /\ rows[run[r].email] = "deleted" => run[r].email \in raced

BeingIndexed(e) == \E r \in Runs : run[r].pc = "index" /\ run[r].email = e

Gone    == missed \cup cut \cup unlisted
Excused == raced \cup unremoved \cup missed \cup cut

(* What an index under construction will lack, and what a process that is  *)
(* down lacked when it ended.                                              *)
GapInv ==
    /\ NoSilentGap
    /\ reindex.pc = "building" => \A e \in Emails :
          rows[e] = "local" => e \in reindex.todo \cup reindex.built \cup Gone \/ BeingIndexed(e)
    /\ phase \in Down => \A e \in Emails : rows[e] = "local" => e \in index.docs \cup cut

(* A deletion that lost its index holds one that never had the email. *)
GhostInv ==
    /\ NoGhost
    /\ \A e \in Emails : deletion[e] # "none" => rows[e] = "deleted"
    /\ \A e \in Emails : deletion[e] = "index" /\ e \notin holders =>
          e \notin index.docs \cup reindex.built \/ e \in Excused
    /\ reindex.pc = "building" => \A e \in reindex.built :
          rows[e] = "deleted" => deletion[e] = "row" \/ e \in Excused
    /\ phase \in Down => \A e \in index.docs : rows[e] = "deleted" => e \in cut

ServerInv == TypeOK /\ ProcessInv /\ RunInv /\ GapInv /\ GhostInv
------------------------------------------------------------------------------
(* The records. *)
LEMMA IdleIsRun == IdleRun \in RunType /\ IdleRun.pc = "idle"
<1>1. (CHOOSE a \in Accounts : TRUE) \in Accounts /\ (CHOOSE e \in Emails : TRUE) \in Emails
  BY ServerAssumption
<1> QED BY <1>1 DEF IdleRun, RunType

LEMMA QueuedIsRun ==
  ASSUME NEW a \in Accounts, NEW by \in {"cron", "http"}, NEW s,
         s = [IdleRun EXCEPT !.pc = "queued", !.account = a, !.by = by]
  PROVE  s \in RunType /\ s.pc = "queued"
<1>1. (CHOOSE e \in Emails : TRUE) \in Emails
  BY ServerAssumption
<1> QED BY <1>1 DEF IdleRun, RunType

LEMMA IndexRecords ==
  /\ NoReindex \in ReindexType /\ NoReindex.pc = "none" /\ NoReindex.built = {}
  /\ \A x \in IndexType :
        /\ x.docs \subseteq Emails /\ x.open \in BOOLEAN
        /\ \A b \in BOOLEAN : [x EXCEPT !.open = b] \in IndexType /\ [x EXCEPT !.open = b].open = b
                              /\ [x EXCEPT !.open = b].docs = x.docs
        /\ \A S \in SUBSET Emails : [x EXCEPT !.docs = S] \in IndexType /\ [x EXCEPT !.docs = S].docs = S
                                    /\ [x EXCEPT !.docs = S].open = x.open
  /\ \A b \in BOOLEAN, S \in SUBSET Emails : [open |-> b, docs |-> S] \in IndexType
  BY DEF NoReindex, ReindexType, IndexType

(* What a step may do to a run. *)
Turns(r, pc, e) ==
    /\ run' \in [Runs -> RunType] /\ run'[r].pc = pc /\ run'[r].email = e
    /\ \A s \in Runs : s # r => run'[s] = run[s]

LEMMA RunTurns ==
  ASSUME TypeOK, NEW r \in Runs
  PROVE  /\ \A pc \in {"idle", "queued", "started", "fetching", "insert", "waiting", "index"} :
               Goto(r, pc) => Turns(r, pc, run[r].email)
         /\ EndRun(r) => \E e \in Emails : Turns(r, "idle", e)
         /\ \A a \in Accounts, by \in {"cron", "http"} : Submit(r, a, by) => \E e \in Emails : Turns(r, "queued", e)
         /\ \A e \in Emails : run' = [run EXCEPT ![r].pc = "insert", ![r].email = e] => Turns(r, "insert", e)
<1>1. run \in [Runs -> RunType] /\ run[r] \in RunType
  BY DEF TypeOK
<1>2. ASSUME NEW s \in RunType, run' = [run EXCEPT ![r] = s] PROVE Turns(r, s.pc, s.email)
  BY <1>1, <1>2 DEF Turns
<1>3. ASSUME NEW pc \in {"idle", "queued", "started", "fetching", "insert", "waiting", "index"}, Goto(r, pc)
      PROVE  Turns(r, pc, run[r].email)
  <2>1. PICK s : s = [run[r] EXCEPT !.pc = pc]
    OBVIOUS
  <2>2. s \in RunType /\ s.pc = pc /\ s.email = run[r].email
    BY <1>1, <2>1 DEF RunType
  <2>3. run' = [run EXCEPT ![r] = s]
    BY <1>3, <2>1 DEF Goto
  <2> QED BY <1>2, <2>2, <2>3
<1>4. ASSUME EndRun(r) PROVE \E e \in Emails : Turns(r, "idle", e)
  <2>1. IdleRun.email \in Emails
    BY IdleIsRun DEF RunType
  <2>2. Turns(r, IdleRun.pc, IdleRun.email)
    BY <1>2, <1>4, IdleIsRun DEF EndRun
  <2> QED BY <2>1, <2>2, IdleIsRun
<1>5. ASSUME NEW a \in Accounts, NEW by \in {"cron", "http"}, Submit(r, a, by)
      PROVE  \E e \in Emails : Turns(r, "queued", e)
  <2>1. PICK s : s = [IdleRun EXCEPT !.pc = "queued", !.account = a, !.by = by]
    OBVIOUS
  <2>2. s \in RunType /\ s.pc = "queued"
    BY <2>1, QueuedIsRun
  <2>3. run' = [run EXCEPT ![r] = s]
    BY <1>5, <2>1 DEF Submit
  <2>4. s.email \in Emails
    BY <2>2 DEF RunType
  <2> QED BY <1>2, <2>2, <2>3, <2>4
<1>6. ASSUME NEW e \in Emails, run' = [run EXCEPT ![r].pc = "insert", ![r].email = e]
      PROVE  Turns(r, "insert", e)
  <2>1. PICK s : s = [run[r] EXCEPT !.pc = "insert", !.email = e]
    OBVIOUS
  <2>2. s \in RunType /\ s.pc = "insert" /\ s.email = e
    BY <1>1, <2>1 DEF RunType
  <2>3. run' = [run EXCEPT ![r] = s]
    BY <1>1, <1>6, <2>1
  <2> QED BY <1>2, <2>2, <2>3
<1> QED BY <1>3, <1>4, <1>5, <1>6

(* The steps of a run, each with its place before and after. *)
Advances(r, from, pc) == run[r].pc = from /\ Turns(r, pc, run[r].email)

Early(r) == \E from \in {"idle", "queued", "started", "fetching", "insert"}, pc \in {"idle", "queued", "started", "fetching"} :
               \E e \in Emails : run[r].pc = from /\ Turns(r, pc, e) /\ UNCHANGED <<executing, rows, raced>>

Picks(r) == \E e \in Emails :
               /\ run[r].pc = "fetching" /\ Turns(r, "insert", e) /\ UNCHANGED <<executing, rows, raced>>
               /\ rows[e] = "none" /\ \A s \in Runs : run[s].pc \in {"insert", "waiting"} => run[s].email # e

IndexEnds(r) == IndexWrite(r) \/ IndexWriteFails(r)

RunMoves(r) ==
    \/ Early(r) \/ Picks(r)
    \/ Accept(r) /\ Advances(r, "insert", "waiting")
    \/ Commit(r) /\ Advances(r, "waiting", "index")
    \/ Rollback(r) /\ \E e \in Emails : Turns(r, "idle", e)
    \/ IndexEnds(r) /\ Advances(r, "index", "fetching")

LEMMA RunCases ==
  ASSUME TypeOK, ProcessInv, RunInv, [Next]_vars
  PROVE  \/ UNCHANGED <<run, executing, rows, raced>>
         \/ \E r \in Runs : RunMoves(r)
         \/ \E e \in Emails : (Evict(e) \/ DeleteRow(e)) /\ UNCHANGED run
         \/ Vanish
<1>0. \A r \in Runs : run[r].email \in Emails
  BY DEF TypeOK, RunType
<1>1. ASSUME NEW r \in Runs, NEW a \in Accounts, CronTick(r, a) \/ TriggerSync(r, a) PROVE Early(r)
  <2>1. PICK by \in {"cron", "http"} : Submit(r, a, by)
    BY <1>1 DEF CronTick, TriggerSync
  <2>2. run[r].pc = "idle" /\ UNCHANGED <<executing, rows, raced>>
    BY <2>1 DEF Submit, dbVars, historyVars, failedVars
  <2> QED BY <2>1, <2>2, RunTurns DEF Early
<1>2. ASSUME NEW r \in Runs, Admit(r) \/ Begin(r) \/ Refused(r) PROVE Early(r)
  <2>1. PICK from \in {"queued", "started", "insert"} : run[r].pc = from
    BY <1>2 DEF Admit, Begin, Refused
  <2>2. EndRun(r) \/ \E pc \in {"started", "fetching"} : Goto(r, pc)
    BY <1>2 DEF Admit, Begin, Refused
  <2>3. UNCHANGED <<executing, rows, raced>>
    BY <1>2 DEF Admit, Begin, Refused, dbVars, historyVars, failedVars
  <2>4. PICK pc \in {"idle", "started", "fetching"}, e \in Emails : Turns(r, pc, e)
    BY <1>0, <2>2, RunTurns
  <2> QED BY <2>1, <2>3, <2>4 DEF Early
<1>3. ASSUME NEW r \in Runs, Fetch(r) PROVE Early(r) \/ Picks(r)
  <2>1. run[r].pc = "fetching" /\ UNCHANGED <<executing, rows, raced>>
    BY <1>3 DEF Fetch, dbVars, historyVars, failedVars
  <2>2. CASE EndRun(r)
    BY <2>1, <2>2, RunTurns DEF Early
  <2>3. ASSUME NEW e \in Emails, rows[e] = "none", run' = [run EXCEPT ![r].pc = "insert", ![r].email = e],
               \A s \in Runs : run[s].pc \in {"insert", "waiting"} => run[s].email # e
        PROVE  Picks(r)
    BY <2>1, <2>3, RunTurns DEF Picks
  <2> QED BY <1>3, <2>2, <2>3 DEF Fetch
<1>4. ASSUME NEW r \in Runs, Accept(r) PROVE Advances(r, "insert", "waiting")
  BY <1>4, RunTurns DEF Accept, Advances
<1>5. ASSUME NEW r \in Runs, Commit(r) PROVE Advances(r, "waiting", "index")
  BY <1>5, RunTurns DEF Commit, Advances, RunInv
<1>6. ASSUME NEW r \in Runs, Rollback(r) PROVE \E e \in Emails : Turns(r, "idle", e)
  BY <1>6, RunTurns DEF Rollback
<1>7. ASSUME NEW r \in Runs, IndexEnds(r) PROVE Advances(r, "index", "fetching")
  BY <1>7, RunTurns DEF IndexEnds, IndexWrite, IndexWriteFails, Advances
<1>8. ASSUME NEW r \in Runs, Sync(r) \/ Fetch(r) \/ Rollback(r) \/ IndexWriteFails(r) \/ (\E a \in Accounts : CronTick(r, a) \/ TriggerSync(r, a))
      PROVE  RunMoves(r)
  BY <1>8, <1>1, <1>2, <1>3, <1>4, <1>5, <1>6, <1>7 DEF Sync, RunMoves, IndexEnds
<1>9. ASSUME NEW e \in Emails, Evict(e) \/ DeleteRow(e) PROVE UNCHANGED run
  BY <1>9 DEF Evict, DeleteRow
<1>10. CASE Exit \/ ForceExit
  BY <1>10 DEF Exit, ForceExit
<1>11. (\E a \in Accounts : EditAccount(a)) \/ StartReindex \/ Unlock \/ Signal \/ Background =>
         UNCHANGED <<run, executing, rows, raced>>
  BY DEF EditAccount, StartReindex, Unlock, Signal, Background, Refresh, ListAll, Swap, IndexOne,
     TakeIndex, DeleteDoc, ReindexStep, Closing, dbVars, historyVars, failedVars, vars
<1>12. HandlersDone \/ CronDone \/ PoolDone \/ PoolTimeout \/ JobsDone =>
         UNCHANGED <<run, executing, rows, raced>>
  BY DEF HandlersDone, CronDone, PoolDone, PoolTimeout, JobsDone, Closing, dbVars, historyVars, failedVars
<1>13. /\ WriterLoopEnds \/ CloseIndexAndDb \/ OpenFails \/ ListFails \/ Restart => UNCHANGED <<run, executing, rows, raced>>
       /\ \A e \in Emails : LateWrite(e) \/ DeleteDocFails(e) \/ IndexOneFails(e) => UNCHANGED <<run, executing, rows, raced>>
  BY DEF WriterLoopEnds, CloseIndexAndDb, OpenFails, ListFails, Restart, LateWrite, DeleteDocFails, IndexOneFails,
     ReindexStep, Closing, dbVars, historyVars, failedVars
<1>14. CASE UNCHANGED vars
  BY <1>14 DEF vars, dbVars, historyVars, failedVars
<1> QED BY <1>8, <1>9, <1>10, <1>11, <1>12, <1>13, <1>14 DEF Next, Request, Shutdown, Failure

LEMMA RunNext ==
  ASSUME TypeOK, ProcessInv, RunInv, [Next]_vars
  PROVE  RunInv'
<1>0. /\ \A r \in Runs : run[r].email \in Emails /\ r # NoRun
      /\ rows \in [Emails -> {"none", "local", "s3_only", "deleted"}]
  BY ServerAssumption DEF TypeOK, RunType
<1>1. CASE UNCHANGED <<run, executing, rows, raced>>
  BY <1>1 DEF RunInv
<1>2. ASSUME NEW r \in Runs, Early(r) PROVE RunInv'
  <2>1. PICK pc \in {"idle", "queued", "started", "fetching"}, e \in Emails :
           run[r].pc # "waiting" /\ Turns(r, pc, e) /\ UNCHANGED <<executing, rows, raced>>
    BY <1>2 DEF Early
  <2> QED BY <2>1 DEF RunInv, Turns
<1>3. ASSUME NEW r \in Runs, Picks(r) PROVE RunInv'
  <2>1. PICK e \in Emails :
          /\ run[r].pc = "fetching" /\ Turns(r, "insert", e) /\ UNCHANGED <<executing, rows, raced>>
          /\ rows[e] = "none" /\ \A s \in Runs : run[s].pc \in {"insert", "waiting"} => run[s].email # e
    BY <1>3 DEF Picks
  <2> QED BY <2>1 DEF RunInv, Turns
<1>4. ASSUME NEW r \in Runs, Accept(r), Advances(r, "insert", "waiting") PROVE RunInv'
  <2>1. executing' = r /\ executing = NoRun /\ UNCHANGED <<rows, raced>>
    BY <1>4 DEF Accept, historyVars, failedVars
  <2> QED BY <1>0, <1>4, <2>1 DEF RunInv, Turns, Advances
<1>5. ASSUME NEW r \in Runs, Commit(r), Advances(r, "waiting", "index") PROVE RunInv'
  <2>1. PICK e \in Emails : e = run[r].email
    BY <1>0
  <2>2. executing' = NoRun /\ executing = r /\ rows' = [rows EXCEPT ![e] = "local"] /\ raced' = raced
    BY <1>5, <2>1 DEF Commit, historyVars, failedVars
  <2>3. rows'[e] = "local" /\ \A d \in Emails : d # e => rows'[d] = rows[d]
    BY <1>0, <2>2
  <2>4. run[r].pc = "waiting" /\ run'[r].pc = "index" /\ run'[r].email = e
        /\ \A s \in Runs : s # r => run'[s] = run[s]
    BY <1>5, <2>1 DEF Advances, Turns
  <2>5. \A s \in Runs : run'[s].pc = "waiting" <=> executing' = s
    BY <1>0, <2>2, <2>4 DEF RunInv
  <2>6. \A s \in Runs : run[s].pc \in {"insert", "waiting"} /\ s # r => run[s].email # e
    BY <2>1, <2>4 DEF RunInv
  <2>7. \A s \in Runs : run'[s].pc \in {"insert", "waiting"} =>
           /\ rows'[run'[s].email] = "none"
           /\ \A t \in Runs : t # s /\ run'[t].pc \in {"insert", "waiting"} => run'[t].email # run'[s].email
    BY <1>0, <2>3, <2>4, <2>6 DEF RunInv
  <2>8. \A s \in Runs : run'[s].pc = "index" =>
           /\ rows'[run'[s].email] # "none"
           /\ rows'[run'[s].email] = "deleted" => run'[s].email \in raced'
    BY <1>0, <2>2, <2>3, <2>4 DEF RunInv
  <2> QED BY <2>5, <2>7, <2>8 DEF RunInv
<1>6. ASSUME NEW r \in Runs, Rollback(r), NEW e \in Emails, Turns(r, "idle", e) PROVE RunInv'
  <2>1. executing = r /\ executing' = NoRun /\ UNCHANGED <<rows, raced>>
    BY <1>6 DEF Rollback, historyVars, failedVars
  <2> QED BY <1>0, <1>6, <2>1 DEF RunInv, Turns
<1>7. ASSUME NEW r \in Runs, IndexEnds(r), Advances(r, "index", "fetching") PROVE RunInv'
  <2>1. UNCHANGED <<executing, rows, raced>>
    BY <1>7 DEF IndexEnds, IndexWrite, IndexWriteFails, dbVars
  <2> QED BY <1>7, <2>1 DEF RunInv, Turns, Advances
<1>8. ASSUME NEW e \in Emails, Evict(e) \/ DeleteRow(e) PROVE RunInv'
  <2>1. /\ UNCHANGED <<run, executing>> /\ rows[e] \in {"local", "s3_only"} /\ raced \subseteq raced'
        /\ \E x \in {"s3_only", "deleted"} : /\ rows' = [rows EXCEPT ![e] = x]
                                             /\ x = "deleted" => DeleteRow(e)
    BY <1>8 DEF Evict, DeleteRow, historyVars, failedVars
  <2>2. DeleteRow(e) => \A r \in Runs : run[r].pc = "index" /\ run[r].email = e => e \in raced'
    BY DEF DeleteRow
  <2>3. PICK x \in {"s3_only", "deleted"} : rows' = [rows EXCEPT ![e] = x] /\ (x = "deleted" => DeleteRow(e))
    BY <2>1
  <2>4. rows'[e] = x /\ \A d \in Emails : d # e => rows'[d] = rows[d]
    BY <1>0, <2>3
  <2>5. \A s \in Runs : run[s].pc \in {"insert", "waiting"} => run[s].email # e
    BY <2>1 DEF RunInv
  <2>6. \A s \in Runs : run[s].pc = "index" =>
           /\ rows'[run[s].email] # "none"
           /\ rows'[run[s].email] = "deleted" => run[s].email \in raced'
    BY <1>0, <2>1, <2>2, <2>3, <2>4 DEF RunInv
  <2>7. \A s \in Runs : run[s].pc \in {"insert", "waiting"} => rows'[run[s].email] = "none"
    BY <1>0, <2>4, <2>5 DEF RunInv
  <2> QED BY <2>1, <2>6, <2>7 DEF RunInv
<1>9. CASE Vanish
  <2>1. executing' = NoRun /\ \A r \in Runs : run'[r] = IdleRun
    BY <1>9 DEF Vanish
  <2> QED BY <1>0, <2>1, IdleIsRun DEF RunInv
<1> QED BY <1>1, <1>2, <1>3, <1>4, <1>5, <1>6, <1>7, <1>8, <1>9, RunCases DEF RunMoves
------------------------------------------------------------------------------
(* The phases. *)
LEMMA DocsWritten ==
  ASSUME TypeOK
  PROVE  /\ \A r \in Runs : IndexWrite(r) =>
              /\ index' \in IndexType /\ index'.open = index.open
              /\ IF index.open /\ r \in holders THEN index'.docs = index.docs \cup {run[r].email} ELSE index' = index
         /\ \A e \in Emails : DeleteDoc(e) =>
              /\ index' \in IndexType /\ index'.open = index.open
              /\ IF index.open /\ e \in holders THEN index'.docs = index.docs \ {e} ELSE index' = index
<1>1. index \in IndexType /\ \A r \in Runs : run[r].email \in Emails
  BY DEF TypeOK, RunType
<1>2. ASSUME NEW S \in SUBSET Emails, index' = [index EXCEPT !.docs = S]
      PROVE  index' \in IndexType /\ index'.open = index.open /\ index'.docs = S
  BY <1>1, <1>2 DEF IndexType
<1>3. index.docs \in SUBSET Emails
  BY <1>1 DEF IndexType
<1>4. ASSUME NEW r \in Runs, IndexWrite(r)
      PROVE  /\ index' \in IndexType /\ index'.open = index.open
             /\ IF index.open /\ r \in holders THEN index'.docs = index.docs \cup {run[r].email} ELSE index' = index
  <2>1. PICK S \in SUBSET Emails : S = index.docs \cup {run[r].email}
    BY <1>1, <1>3
  <2>2. CASE index.open /\ r \in holders
    BY <1>2, <1>4, <2>1, <2>2 DEF IndexWrite
  <2>3. CASE ~(index.open /\ r \in holders)
    BY <1>1, <1>4, <2>3 DEF IndexWrite
  <2> QED BY <2>2, <2>3
<1>5. ASSUME NEW e \in Emails, DeleteDoc(e)
      PROVE  /\ index' \in IndexType /\ index'.open = index.open
             /\ IF index.open /\ e \in holders THEN index'.docs = index.docs \ {e} ELSE index' = index
  <2>1. PICK S \in SUBSET Emails : S = index.docs \ {e}
    BY <1>3
  <2>2. CASE index.open /\ e \in holders
    BY <1>2, <1>5, <2>1, <2>2 DEF DeleteDoc
  <2>3. CASE ~(index.open /\ e \in holders)
    BY <1>1, <1>5, <2>3 DEF DeleteDoc
  <2> QED BY <2>2, <2>3
<1> QED BY <1>4, <1>5

LEMMA LateWritten ==
  ASSUME TypeOK, NEW e \in Emails, LateWrite(e)
  PROVE  /\ index' \in IndexType /\ index'.open = index.open
         /\ reindex' \in ReindexType /\ reindex'.pc = reindex.pc /\ reindex'.todo = reindex.todo
         /\ \/ index.open /\ index'.docs = index.docs \cup {e} /\ reindex' = reindex
            \/ reindex.pc = "building" /\ reindex'.built = reindex.built \cup {e} /\ index' = index
<1>1. index \in IndexType /\ reindex \in ReindexType
  BY DEF TypeOK
<1>2. ASSUME index.open, index' = [index EXCEPT !.docs = @ \cup {e}], UNCHANGED reindex
      PROVE  index' \in IndexType /\ index'.open = index.open /\ index'.docs = index.docs \cup {e}
  <2>1. PICK S \in SUBSET Emails : S = index.docs \cup {e}
    BY <1>1 DEF IndexType
  <2>2. index' = [index EXCEPT !.docs = S]
    BY <1>2, <2>1
  <2> QED BY <1>1, <2>1, <2>2 DEF IndexType
<1>3. ASSUME reindex.pc = "building", reindex' = [reindex EXCEPT !.built = @ \cup {e}], UNCHANGED index
      PROVE  /\ reindex' \in ReindexType /\ reindex'.pc = reindex.pc /\ reindex'.todo = reindex.todo
             /\ reindex'.built = reindex.built \cup {e}
  <2>1. PICK S \in SUBSET Emails : S = reindex.built \cup {e}
    BY <1>1 DEF ReindexType
  <2>2. reindex' = [reindex EXCEPT !.built = S]
    BY <1>3, <2>1
  <2> QED BY <1>1, <2>1, <2>2 DEF ReindexType
<1> QED BY <1>1, <1>2, <1>3 DEF LateWrite

LEMMA ProcessNext ==
  ASSUME TypeOK, ProcessInv, RunInv, [Next]_vars
  PROVE  ProcessInv'
<1>0. IdleRun.pc = "idle" /\ NoReindex.pc = "none" /\ NoReindex.built = {}
  BY IdleIsRun, IndexRecords
<1>1. CASE Unlock
  BY <1>1, IndexRecords DEF Unlock, ProcessInv, Serving, Down, TypeOK, historyVars
<1>2. CASE Signal
  BY <1>2 DEF Signal, Closing, ProcessInv, Serving, Down, dbVars, historyVars
<1>3. CASE HandlersDone \/ CronDone \/ PoolDone \/ PoolTimeout
  BY <1>3 DEF HandlersDone, CronDone, PoolDone, PoolTimeout, To, Closing, ProcessInv, Serving, Down, dbVars, historyVars
<1>4. CASE JobsDone
  BY <1>4 DEF JobsDone, To, Closing, ProcessInv, Serving, Down, historyVars
<1>5. CASE WriterLoopEnds
  BY <1>5 DEF WriterLoopEnds, processVars, searchVars, historyVars, ProcessInv, Serving, Down
<1>6. CASE CloseIndexAndDb
  <2>1. ~index'.open /\ index'.docs = index.docs
    BY <1>6, IndexRecords DEF CloseIndexAndDb, TypeOK
  <2> QED BY <1>6, <2>1 DEF CloseIndexAndDb, To, Closing, historyVars, ProcessInv, Serving, Down
<1>7. CASE Vanish
  BY <1>0, <1>7 DEF Vanish, ProcessInv, Serving, Down
<1>8. CASE Restart
  BY <1>8 DEF Restart, dbVars, searchVars, historyVars, ProcessInv, Serving, Down
<1>9. CASE StartReindex
  BY <1>9 DEF StartReindex, ReindexStep, processVars, dbVars, ProcessInv, Serving, Down, NoReindex
<1>10. CASE ListAll \/ ListFails \/ OpenFails \/ (\E e \in Emails : IndexOne(e) \/ IndexOneFails(e)) \/ Swap
  <2>1. reindex.pc # "none" /\ UNCHANGED <<phase, writer, db, executing, run, deletion>>
    BY <1>10 DEF ListAll, ListFails, OpenFails, IndexOne, IndexOneFails, Swap, ReindexStep, processVars, dbVars
  <2>2. reindex'.pc = "none" \/ index' = index
    BY <1>0, <1>10 DEF ListAll, ListFails, OpenFails, IndexOne, IndexOneFails, Swap
  <2>3. /\ reindex'.pc # "building" => reindex'.built = {}
        /\ reindex'.pc # "closed"
    BY <1>0, <1>10 DEF ListAll, ListFails, OpenFails, IndexOne, IndexOneFails, Swap, TypeOK, ReindexType
  <2>4. late' \subseteq missed'
    <3>1. CASE ListAll
      BY <3>1 DEF ListAll, ProcessInv
    <3>2. CASE ListFails \/ OpenFails \/ (\E e \in Emails : IndexOne(e) \/ IndexOneFails(e)) \/ Swap
      BY <3>2 DEF ListFails, OpenFails, IndexOne, IndexOneFails, Swap, ProcessInv
    <3> QED BY <1>10, <3>1, <3>2
  <2> QED BY <2>1, <2>2, <2>3, <2>4 DEF ProcessInv, Serving, Down
<1>11. CASE \E e \in Emails : Evict(e) \/ DeleteRow(e) \/ TakeIndex(e) \/ DeleteDoc(e) \/ DeleteDocFails(e)
  <2>1. PICK e \in Emails : Evict(e) \/ DeleteRow(e) \/ TakeIndex(e) \/ DeleteDoc(e) \/ DeleteDocFails(e)
    BY <1>11
  <2>2. /\ UNCHANGED <<phase, writer, db, executing, run, reindex, late, missed>>
        /\ index'.open = index.open /\ index'.docs \subseteq index.docs
        /\ phase = "serving" \/ deletion[e] # "none"
        /\ phase = "serving" \/ \E x : deletion' = [deletion EXCEPT ![e] = x]
    <3>1. CASE Evict(e) \/ DeleteRow(e) \/ TakeIndex(e) \/ DeleteDocFails(e)
      BY <3>1 DEF Evict, DeleteRow, TakeIndex, DeleteDocFails, processVars, dbVars, searchVars, historyVars
    <3>2. CASE DeleteDoc(e)
      <4>1. index'.open = index.open /\ index'.docs \subseteq index.docs
        BY <3>2, DocsWritten
      <4> QED BY <3>2, <4>1 DEF DeleteDoc, processVars, dbVars, historyVars
    <3> QED BY <2>1, <3>1, <3>2
  <2> QED BY <2>2 DEF ProcessInv, Serving, Down
<1>12. CASE (\E a \in Accounts : EditAccount(a)) \/ Refresh \/ UNCHANGED vars
  BY <1>12 DEF EditAccount, Refresh, vars, processVars, dbVars, searchVars, historyVars, ProcessInv, Serving, Down
<1>13. ASSUME NEW r \in Runs, \/ Sync(r) \/ Fetch(r) \/ Rollback(r) \/ IndexWriteFails(r)
                             \/ \E a \in Accounts : CronTick(r, a) \/ TriggerSync(r, a)
       PROVE  ProcessInv'
  <2>1. /\ UNCHANGED <<phase, writer, db, reindex, deletion>> /\ index'.open = index.open
        /\ index.open \/ (index' = index /\ late' = late)
        /\ late' \subseteq missed'
    <3>1. CASE IndexWrite(r)
      <4>1. index'.open = index.open /\ (index.open \/ index' = index)
        BY <3>1, DocsWritten
      <4>2. late' = late /\ missed \subseteq missed' /\ UNCHANGED <<phase, writer, db, reindex, deletion>>
        BY <3>1 DEF IndexWrite, RunStep, processVars, dbVars
      <4> QED BY <4>1, <4>2 DEF ProcessInv
    <3>2. CASE IndexWriteFails(r)
      BY <3>2 DEF IndexWriteFails, processVars, dbVars, ProcessInv
    <3>3. CASE ~IndexWrite(r) /\ ~IndexWriteFails(r)
      <4>1. UNCHANGED <<phase, writer, db, index, reindex, deletion, late, missed>>
        BY <1>13, <3>3 DEF Sync, Fetch, Rollback, CronTick, TriggerSync, Submit, Admit, Begin, Accept, Refused,
           Commit, RunStep, processVars, dbVars, searchVars, historyVars
      <4> QED BY <4>1 DEF ProcessInv
    <3> QED BY <3>1, <3>2, <3>3
  <2>2. executing' # NoRun => writer # "stopped"
    BY <1>13 DEF Sync, Fetch, Rollback, CronTick, TriggerSync, Submit, Admit, Begin, Accept, Refused,
       Commit, IndexWrite, IndexWriteFails, RunStep, dbVars, ProcessInv
  <2>3. phase \in Down => \A s \in Runs : run'[s].pc = "idle"
    BY <1>13 DEF Sync, Fetch, Rollback, CronTick, TriggerSync, Admit, Begin, Accept, Refused,
       Commit, IndexWrite, IndexWriteFails, ProcessInv, RunInv, Down
  <2> QED BY <2>1, <2>2, <2>3 DEF ProcessInv, Serving, Down
<1>14. ASSUME NEW e \in Emails, LateWrite(e) PROVE ProcessInv'
  <2>1. UNCHANGED <<phase, writer, db, executing, run, deletion, missed>> /\ late' \subseteq late
    BY <1>14 DEF LateWrite, processVars, dbVars, historyVars
  <2>2. /\ index'.open = index.open /\ reindex'.pc = reindex.pc
        /\ index.open \/ index' = index
        /\ reindex.pc = "building" \/ reindex' = reindex
    BY <1>14, LateWritten
  <2> QED BY <2>1, <2>2 DEF ProcessInv, Serving, Down
<1> QED BY <1>1, <1>2, <1>3, <1>4, <1>5, <1>6, <1>7, <1>8, <1>9, <1>10, <1>11, <1>12, <1>13, <1>14
        DEF Next, Request, Background, Shutdown, Failure, Exit, ForceExit
------------------------------------------------------------------------------
(* Search. *)
LEMMA IndexedStays ==
  ASSUME TypeOK, ProcessInv, RunInv, [Next]_vars, NEW e \in Emails, BeingIndexed(e)
  PROVE  BeingIndexed(e)' \/ Vanish \/ \E r \in Runs : IndexEnds(r) /\ run[r].email = e
<1>1. PICK s \in Runs : run[s].pc = "index" /\ run[s].email = e
  BY DEF BeingIndexed
<1>2. CASE run'[s] = run[s]
  BY <1>1, <1>2 DEF BeingIndexed
<1>3. ASSUME NEW r \in Runs, RunMoves(r) PROVE run'[s] = run[s] \/ (IndexEnds(r) /\ s = r)
  <2>1. Early(r) \/ Picks(r) => run[r].pc # "index" /\ \A t \in Runs : t # r => run'[t] = run[t]
    BY DEF Early, Picks, Turns
  <2>2. Rollback(r) => run[r].pc = "waiting"
    BY DEF Rollback, RunInv
  <2> QED BY <1>1, <1>3, <2>1, <2>2 DEF RunMoves, Advances, Turns
<1> QED BY <1>1, <1>2, <1>3, RunCases

LEMMA RowsChange ==
  ASSUME TypeOK, ProcessInv, RunInv, [Next]_vars, NEW e \in Emails
  PROVE  /\ rows'[e] \in {"none", "local", "s3_only", "deleted"}
         /\ rows'[e] = "local" => rows[e] = "local" \/ BeingIndexed(e)'
         /\ rows'[e] = "deleted" => rows[e] = "deleted" \/ DeleteRow(e)
         /\ rows[e] = "deleted" => rows'[e] = "deleted"
<1>0. rows \in [Emails -> {"none", "local", "s3_only", "deleted"}] /\ \A r \in Runs : run[r].email \in Emails
  BY DEF TypeOK, RunType
<1>1. CASE rows' = rows
  BY <1>0, <1>1
<1>2. ASSUME NEW r \in Runs, Commit(r), Advances(r, "waiting", "index")
      PROVE  /\ rows'[e] \in {"none", "local", "s3_only", "deleted"}
             /\ rows'[e] = "local" => rows[e] = "local" \/ BeingIndexed(e)'
             /\ rows'[e] = "deleted" => rows[e] = "deleted" \/ DeleteRow(e)
             /\ rows[e] = "deleted" => rows'[e] = "deleted"
  <2>1. PICK d \in Emails : d = run[r].email /\ rows[d] = "none"
    BY <1>0, <1>2 DEF RunInv, Advances
  <2>2. rows' = [rows EXCEPT ![d] = "local"]
    BY <1>2, <2>1 DEF Commit
  <2>3. BeingIndexed(d)'
    BY <1>2, <2>1 DEF BeingIndexed, Advances, Turns
  <2>4. CASE e = d
    BY <1>0, <2>1, <2>2, <2>3, <2>4 DEF BeingIndexed
  <2>5. CASE e # d
    BY <1>0, <2>2, <2>5
  <2> QED BY <2>4, <2>5
<1>3. ASSUME NEW d \in Emails, Evict(d) \/ DeleteRow(d)
      PROVE  /\ rows'[e] \in {"none", "local", "s3_only", "deleted"}
             /\ rows'[e] = "local" => rows[e] = "local" \/ BeingIndexed(e)'
             /\ rows'[e] = "deleted" => rows[e] = "deleted" \/ DeleteRow(e)
             /\ rows[e] = "deleted" => rows'[e] = "deleted"
  <2>1. CASE Evict(d)
    BY <1>0, <2>1 DEF Evict
  <2>2. CASE DeleteRow(d)
    <3>1. rows' = [rows EXCEPT ![d] = "deleted"]
      BY <2>2 DEF DeleteRow
    <3>2. CASE e = d
      BY <1>0, <2>2, <3>1, <3>2
    <3>3. CASE e # d
      BY <1>0, <3>1, <3>3
    <3> QED BY <3>2, <3>3
  <2> QED BY <1>3, <2>1, <2>2
<1>4. Vanish => rows' = rows
  BY DEF Vanish
<1>5. \A r \in Runs : RunMoves(r) => rows' = rows \/ (Commit(r) /\ Advances(r, "waiting", "index"))
  BY DEF RunMoves, Early, Picks, Accept, Rollback, IndexEnds, IndexWrite, IndexWriteFails, dbVars
<1> QED BY <1>1, <1>2, <1>3, <1>4, <1>5, RunCases

LEMMA HistoryGrows ==
  ASSUME TypeOK, [Next]_vars
  PROVE  /\ late' \subseteq Emails /\ missed' \subseteq Emails /\ unlisted' \subseteq Emails
         /\ unremoved' \subseteq Emails /\ cut' \subseteq Emails /\ raced' \subseteq Emails
         /\ raced \subseteq raced'
         /\ ListAll \/ (missed \subseteq missed' /\ Gone \subseteq Gone' /\ Excused \subseteq Excused')
<1>1. /\ late \subseteq Emails /\ missed \subseteq Emails /\ unlisted \subseteq Emails
      /\ unremoved \subseteq Emails /\ cut \subseteq Emails /\ raced \subseteq Emails
      /\ \A r \in Runs : run[r].email \in Emails
      /\ Written \subseteq Emails
  BY DEF TypeOK, RunType, Written, IndexType, ReindexType
<1>2. missed' = missed \/ (\E e \in Emails : missed' = missed \cup {e}) \/ (ListAll /\ missed' = {})
  BY <1>1 DEF Next, Sync, Fetch, Request, Background, Shutdown, Failure, EditAccount, CronTick, TriggerSync, Submit,
     Admit, Begin, Accept, Refused, Commit, IndexWrite, IndexWriteFails, Rollback, Evict, DeleteRow, TakeIndex, DeleteDoc,
     DeleteDocFails, LateWrite, StartReindex, ListAll, ListFails, OpenFails, IndexOne, IndexOneFails, Swap, Unlock, Refresh,
     Signal, HandlersDone, CronDone, PoolDone, PoolTimeout, JobsDone, WriterLoopEnds, CloseIndexAndDb, Exit, ForceExit,
     Vanish, Restart, Closing, ReindexStep, historyVars, failedVars, vars
<1>3. cut' = cut \/ (\E S \in SUBSET Emails : cut' = cut \cup S) \/ (ListAll /\ cut' = {})
  <2>1. ASSUME Vanish PROVE \E S \in SUBSET Emails : cut' = cut \cup S
    <3>1. PICK S \in SUBSET Emails :
             S = {e \in Emails : rows[e] = "local" /\ e \notin Written} \cup {e \in Written : rows[e] = "deleted"}
      BY <1>1
    <3> QED BY <2>1, <3>1 DEF Vanish
  <2>2. Vanish \/ cut' = cut \/ (ListAll /\ cut' = {})
    BY DEF Next, Sync, Fetch, Request, Background, Shutdown, Failure, EditAccount, CronTick, TriggerSync, Submit,
     Admit, Begin, Accept, Refused, Commit, IndexWrite, IndexWriteFails, Rollback, Evict, DeleteRow, TakeIndex, DeleteDoc,
     DeleteDocFails, LateWrite, StartReindex, ListAll, ListFails, OpenFails, IndexOne, IndexOneFails, Swap, Unlock, Refresh,
     Signal, HandlersDone, CronDone, PoolDone, PoolTimeout, JobsDone, WriterLoopEnds, CloseIndexAndDb, Exit, ForceExit,
     Restart, Closing, ReindexStep, historyVars, failedVars, vars
  <2> QED BY <2>1, <2>2
<1>4. raced' = raced \/ \E e \in Emails : raced' = raced \cup {e}
  BY DEF Next, Sync, Fetch, Request, Background, Shutdown, Failure, EditAccount, CronTick, TriggerSync, Submit,
     Admit, Begin, Accept, Refused, Commit, IndexWrite, IndexWriteFails, Rollback, Evict, DeleteRow, TakeIndex, DeleteDoc,
     DeleteDocFails, LateWrite, StartReindex, ListAll, ListFails, OpenFails, IndexOne, IndexOneFails, Swap, Unlock, Refresh,
     Signal, HandlersDone, CronDone, PoolDone, PoolTimeout, JobsDone, WriterLoopEnds, CloseIndexAndDb, Exit, ForceExit,
     Vanish, Restart, Closing, ReindexStep, historyVars, failedVars, vars
<1>5. unremoved' = unremoved \/ (\E e \in Emails : unremoved' = unremoved \cup {e}) \/ (ListAll /\ unremoved' = {})
  BY DEF Next, Sync, Fetch, Request, Background, Shutdown, Failure, EditAccount, CronTick, TriggerSync, Submit,
     Admit, Begin, Accept, Refused, Commit, IndexWrite, IndexWriteFails, Rollback, Evict, DeleteRow, TakeIndex, DeleteDoc,
     DeleteDocFails, LateWrite, StartReindex, ListAll, ListFails, OpenFails, IndexOne, IndexOneFails, Swap, Unlock, Refresh,
     Signal, HandlersDone, CronDone, PoolDone, PoolTimeout, JobsDone, WriterLoopEnds, CloseIndexAndDb, Exit, ForceExit,
     Vanish, Restart, Closing, ReindexStep, historyVars, failedVars, vars
<1>6. unlisted' = unlisted \/ (\E S \in SUBSET Emails : unlisted' = unlisted \cup S) \/ (ListAll /\ unlisted' = {})
  <2>1. ASSUME ListFails PROVE \E S \in SUBSET Emails : unlisted' = unlisted \cup S
    <3>1. PICK S \in SUBSET Emails : S = {e \in Emails : rows[e] = "local"}
      OBVIOUS
    <3> QED BY <2>1, <3>1 DEF ListFails
  <2>2. ListFails \/ unlisted' = unlisted \/ (ListAll /\ unlisted' = {})
    BY DEF Next, Sync, Fetch, Request, Background, Shutdown, Failure, EditAccount, CronTick, TriggerSync, Submit,
     Admit, Begin, Accept, Refused, Commit, IndexWrite, IndexWriteFails, Rollback, Evict, DeleteRow, TakeIndex, DeleteDoc,
     DeleteDocFails, LateWrite, StartReindex, ListAll, OpenFails, IndexOne, IndexOneFails, Swap, Unlock, Refresh,
     Signal, HandlersDone, CronDone, PoolDone, PoolTimeout, JobsDone, WriterLoopEnds, CloseIndexAndDb, Exit, ForceExit,
     Vanish, Restart, Closing, ReindexStep, historyVars, failedVars, vars
  <2> QED BY <2>1, <2>2
<1>7. late' \subseteq late \/ \E e \in Emails : late' = late \cup {e}
  BY <1>1 DEF Next, Sync, Fetch, Request, Background, Shutdown, Failure, EditAccount, CronTick, TriggerSync, Submit,
     Admit, Begin, Accept, Refused, Commit, IndexWrite, IndexWriteFails, Rollback, Evict, DeleteRow, TakeIndex, DeleteDoc,
     DeleteDocFails, LateWrite, StartReindex, ListAll, ListFails, OpenFails, IndexOne, IndexOneFails, Swap, Unlock, Refresh,
     Signal, HandlersDone, CronDone, PoolDone, PoolTimeout, JobsDone, WriterLoopEnds, CloseIndexAndDb, Exit, ForceExit,
     Vanish, Restart, Closing, ReindexStep, searchVars, vars
<1>8. /\ late' \subseteq Emails /\ missed' \subseteq Emails /\ unlisted' \subseteq Emails
      /\ unremoved' \subseteq Emails /\ cut' \subseteq Emails /\ raced' \subseteq Emails
  <2>1. late' \subseteq Emails
    BY <1>1, <1>7
  <2>2. missed' \subseteq Emails /\ raced' \subseteq Emails /\ unremoved' \subseteq Emails
    BY <1>1, <1>2, <1>4, <1>5
  <2>3. cut' \subseteq Emails /\ unlisted' \subseteq Emails
    BY <1>1, <1>3, <1>6
  <2> QED BY <2>1, <2>2, <2>3
<1>9. raced \subseteq raced'
  BY <1>4
<1>10. ListAll \/ (missed \subseteq missed' /\ Gone \subseteq Gone' /\ Excused \subseteq Excused')
  <2>1. ListAll \/ (missed \subseteq missed' /\ cut \subseteq cut' /\ unremoved \subseteq unremoved' /\ unlisted \subseteq unlisted')
    BY <1>2, <1>3, <1>5, <1>6
  <2> QED BY <1>9, <2>1 DEF Gone, Excused
<1> QED BY <1>8, <1>9, <1>10

(* Every other step leaves the index and what is missing from it alone. *)
Elsewhere ==
    /\ UNCHANGED <<index, reindex, deletion, missed, failedVars>>
    /\ phase' \in Down => phase \in Down
    /\ holders' \cap Emails = holders \cap Emails

LEMMA SearchCases ==
  ASSUME TypeOK, ProcessInv, RunInv, [Next]_vars
  PROVE  \/ Vanish \/ Elsewhere
         \/ \E r \in Runs : IndexEnds(r)
         \/ \E e \in Emails : \/ DeleteRow(e) \/ TakeIndex(e) \/ DeleteDoc(e) \/ DeleteDocFails(e)
                              \/ IndexOne(e) \/ IndexOneFails(e) \/ LateWrite(e)
         \/ StartReindex \/ ListAll \/ ListFails \/ OpenFails \/ Swap \/ Unlock \/ CloseIndexAndDb
<1>1. ASSUME NEW r \in Runs, UNCHANGED <<index, reindex, deletion, missed, failedVars, phase>>,
             holders' \in {holders, holders \ {r}, holders \cup {r}}
      PROVE  Elsewhere
  BY <1>1, ServerAssumption DEF Elsewhere
<1>2. ASSUME NEW r \in Runs, \/ Sync(r) \/ Fetch(r) \/ Rollback(r) \/ IndexWriteFails(r)
                             \/ \E a \in Accounts : CronTick(r, a) \/ TriggerSync(r, a)
      PROVE  Elsewhere \/ IndexEnds(r)
  <2>1. CASE Admit(r) \/ Begin(r) \/ Fetch(r) \/ Refused(r) \/ Rollback(r)
    <3>1. UNCHANGED <<index, reindex, deletion, missed, failedVars, phase>>
      BY <2>1 DEF Admit, Begin, Fetch, Refused, Rollback, RunStep, processVars, historyVars
    <3>2. holders' \in {holders, holders \ {r}, holders \cup {r}}
      BY <2>1 DEF Admit, Begin, Fetch, Refused, Rollback, EndRun
    <3> QED BY <1>1, <3>1, <3>2
  <2>2. CASE Accept(r) \/ Commit(r) \/ \E a \in Accounts : CronTick(r, a) \/ TriggerSync(r, a)
    BY <1>1, <2>2 DEF Accept, Commit, CronTick, TriggerSync, Submit, RunStep, processVars, searchVars, historyVars
  <2> QED BY <1>2, <2>1, <2>2 DEF Sync, IndexEnds
<1>3. CASE (\E a \in Accounts : EditAccount(a)) \/ (\E e \in Emails : Evict(e)) \/ Refresh \/ UNCHANGED vars
  BY <1>3 DEF EditAccount, Evict, Refresh, vars, processVars, searchVars, historyVars, Elsewhere
<1>4. CASE Signal
  BY <1>4 DEF Signal, Closing, historyVars, Elsewhere, Down
<1>5. CASE HandlersDone \/ CronDone \/ PoolDone \/ PoolTimeout \/ JobsDone
  BY <1>5 DEF HandlersDone, CronDone, PoolDone, PoolTimeout, JobsDone, To, Closing, historyVars, Elsewhere, Down
<1>6. CASE WriterLoopEnds \/ Restart
  BY <1>6 DEF WriterLoopEnds, Restart, processVars, searchVars, historyVars, Elsewhere, Down
<1> QED BY <1>2, <1>3, <1>4, <1>5, <1>6 DEF Next, Request, Background, Shutdown, Failure, Exit, ForceExit

Short(e, S) == e \in S \cup Gone \/ BeingIndexed(e)

LEMMA GapNext ==
  ASSUME TypeOK, ProcessInv, RunInv, GapInv, GhostInv, [Next]_vars
  PROVE  GapInv'
<1>1. CASE Vanish
  <2>1. ~index'.open /\ reindex'.pc = "none" /\ rows' = rows
        /\ \A e \in Emails : rows[e] = "local" => e \in index'.docs \cup cut'
    BY <1>1, IndexRecords DEF Vanish
  <2> QED BY <2>1 DEF GapInv, NoSilentGap
<1>2. ListAll \/ (missed \subseteq missed' /\ Gone \subseteq Gone')
  BY HistoryGrows
<1>3. ASSUME NEW S, NEW T, ~Vanish, ~ListAll, S \subseteq T,
             \A r \in Runs : IndexEnds(r) => run[r].email \in T \cup missed',
             \A e \in Emails : rows[e] = "local" => Short(e, S)
      PROVE  \A e \in Emails : rows'[e] = "local" => e \in T \cup Gone' \/ BeingIndexed(e)'
  <2> SUFFICES ASSUME NEW e \in Emails, rows'[e] = "local"
               PROVE  e \in T \cup Gone' \/ BeingIndexed(e)'
    OBVIOUS
  <2>1. rows[e] = "local" \/ BeingIndexed(e)'
    BY RowsChange
  <2>2. CASE rows[e] = "local"
    <3>1. e \in S \cup Gone \/ BeingIndexed(e)
      BY <1>3, <2>2 DEF Short
    <3>2. BeingIndexed(e) => BeingIndexed(e)' \/ e \in T \cup missed'
      BY <1>3, IndexedStays
    <3>3. missed' \subseteq Gone'
      BY DEF Gone
    <3> QED BY <1>2, <1>3, <3>1, <3>2, <3>3
  <2> QED BY <2>1, <2>2
<1>4. index.open => \A e \in Emails : rows[e] = "local" => Short(e, index.docs)
  BY DEF GapInv, NoSilentGap, Short, BeingIndexed, Gone
<1>5. reindex.pc = "building" => \A e \in Emails : rows[e] = "local" => Short(e, reindex.todo \cup reindex.built)
  BY DEF GapInv, Short
<1>6. phase \in Down => \A e \in Emails : rows[e] = "local" => Short(e, index.docs)
  BY DEF GapInv, Short, Gone
<1>7. ASSUME ~Vanish, phase' \in Down => phase \in Down /\ index.docs \subseteq index'.docs /\ cut \subseteq cut'
      PROVE  phase' \in Down => \A e \in Emails : rows'[e] = "local" => e \in index'.docs \cup cut'
  <2> SUFFICES ASSUME phase' \in Down, NEW e \in Emails, rows'[e] = "local" PROVE e \in index'.docs \cup cut'
    OBVIOUS
  <2>1. ~BeingIndexed(e)'
    BY ProcessNext DEF ProcessInv, BeingIndexed
  <2>2. rows[e] = "local"
    BY <2>1, RowsChange
  <2> QED BY <1>7, <2>2 DEF GapInv
<1>8. ASSUME ~Vanish, ~ListAll, NEW S, NEW T, NEW U, NEW V, S \subseteq T, U \subseteq V,
             index'.open => index'.docs = T /\ \A e \in Emails : rows[e] = "local" => Short(e, S),
             reindex'.pc = "building" => reindex'.todo \cup reindex'.built \cup missed' = V \cup missed'
                                         /\ \A e \in Emails : rows[e] = "local" => Short(e, U),
             \A r \in Runs : IndexEnds(r) => run[r].email \in (T \cup missed') \cap (V \cup missed'),
             phase' \in Down => phase \in Down /\ index.docs \subseteq index'.docs /\ cut \subseteq cut'
      PROVE  GapInv'
  <2>1. index'.open => \A e \in Emails : rows'[e] = "local" => e \in index'.docs \cup Gone' \/ BeingIndexed(e)'
    BY <1>3, <1>8
  <2>2. reindex'.pc = "building" => \A e \in Emails :
                rows'[e] = "local" => e \in V \cup Gone' \/ BeingIndexed(e)'
    BY <1>3, <1>8
  <2>3. reindex'.pc = "building" => \A e \in Emails :
                rows'[e] = "local" => e \in reindex'.todo \cup reindex'.built \cup Gone' \/ BeingIndexed(e)'
    BY <1>8, <2>2 DEF Gone
  <2>4. NoSilentGap'
    BY <2>1 DEF NoSilentGap, BeingIndexed, Gone
  <2>5. phase' \in Down => \A e \in Emails : rows'[e] = "local" => e \in index'.docs \cup cut'
    BY <1>7, <1>8
  <2> QED BY <2>3, <2>4, <2>5 DEF GapInv
<1>9. CASE (\E r \in Runs : IndexEnds(r)) /\ ~Vanish /\ ~ListAll
  <2>1. /\ index'.open = index.open /\ index.docs \subseteq index'.docs /\ reindex' = reindex /\ phase' = phase /\ cut' = cut
        /\ \A r \in Runs : IndexEnds(r) =>
              /\ run[r].email \in index'.docs \cup missed'
              /\ ~index.open => run[r].email \in missed'
    <3>1. PICK s \in Runs : IndexEnds(s)
      BY <1>9
    <3>2. index'.open = index.open /\ index.docs \subseteq index'.docs
      BY <3>1, DocsWritten DEF IndexEnds, IndexWriteFails
    <3>3. reindex' = reindex /\ phase' = phase /\ cut' = cut
      BY <3>1 DEF IndexEnds, IndexWrite, IndexWriteFails, RunStep, processVars, failedVars
    <3>4. ASSUME NEW r \in Runs, IndexWrite(r)
          PROVE  run[r].email \in index'.docs \cup missed' /\ (~index.open => run[r].email \in missed')
      BY <3>4, DocsWritten DEF IndexWrite
    <3>5. ASSUME NEW r \in Runs, IndexWriteFails(r) PROVE run[r].email \in missed'
      BY <3>5 DEF IndexWriteFails
    <3> QED BY <3>2, <3>3, <3>4, <3>5 DEF IndexEnds
  <2>2. index.open => reindex.pc # "building"
    BY DEF ProcessInv
  <2>3. CASE index.open
    BY <1>4, <1>8, <1>9, <2>1, <2>2, <2>3
  <2>4. CASE ~index.open
    <3>1. PICK U : U = reindex.todo \cup reindex.built
      OBVIOUS
    <3>2. \A r \in Runs : IndexEnds(r) => run[r].email \in U \cup missed'
      BY <2>1, <2>4
    <3>3. reindex.pc = "building" => \A e \in Emails : rows'[e] = "local" => e \in U \cup Gone' \/ BeingIndexed(e)'
      BY <1>3, <1>5, <1>9, <3>1, <3>2
    <3>4. NoSilentGap'
      BY <2>1, <2>4 DEF NoSilentGap
    <3> QED BY <1>7, <1>9, <2>1, <3>1, <3>3, <3>4 DEF GapInv
  <2> QED BY <2>3, <2>4
<1> DEFINE Quiet == ~Vanish /\ ~ListAll /\ \A r \in Runs : ~IndexEnds(r)
<1>10. CASE Quiet /\ Elsewhere
  BY <1>4, <1>5, <1>8, <1>10 DEF Elsewhere, failedVars
<1>11. CASE Quiet /\ \E e \in Emails : DeleteRow(e) \/ TakeIndex(e) \/ DeleteDocFails(e)
  <2>1. UNCHANGED <<index, reindex, phase, cut>>
    BY <1>11 DEF DeleteRow, TakeIndex, DeleteDocFails, processVars, historyVars, failedVars
  <2> QED BY <1>4, <1>5, <1>8, <1>11, <2>1
<1>12. ASSUME Quiet, NEW d \in Emails, DeleteDoc(d) PROVE GapInv'
  <2>1. UNCHANGED <<reindex, phase>> /\ index'.open = index.open /\ index.docs \ {d} \subseteq index'.docs
    BY <1>12, DocsWritten DEF DeleteDoc, processVars
  <2>2. rows[d] = "deleted" /\ phase \notin Down
    BY <1>12 DEF DeleteDoc, GhostInv, ProcessInv
  <2>3. index.open => \A e \in Emails : rows[e] = "local" => Short(e, index.docs \ {d})
    BY <1>4, <2>2 DEF Short
  <2>4. PICK S, T, U : S = index.docs \ {d} /\ T = index'.docs /\ U = reindex.todo \cup reindex.built
    OBVIOUS
  <2>5. index.open => \A e \in Emails : rows'[e] = "local" => e \in T \cup Gone' \/ BeingIndexed(e)'
    BY <1>3, <1>12, <2>1, <2>3, <2>4
  <2>6. reindex.pc = "building" => \A e \in Emails : rows'[e] = "local" => e \in U \cup Gone' \/ BeingIndexed(e)'
    BY <1>3, <1>5, <1>12, <2>4
  <2>7. NoSilentGap'
    BY <2>1, <2>4, <2>5 DEF NoSilentGap, BeingIndexed, Gone
  <2> QED BY <2>1, <2>2, <2>4, <2>6, <2>7 DEF GapInv
<1>13. CASE Quiet /\ (StartReindex \/ OpenFails)
  <2>1. phase' \notin Down /\ reindex'.pc # "building" /\ ~index'.open
    BY <1>13, IndexRecords DEF StartReindex, OpenFails, ReindexStep, processVars, NoReindex, ProcessInv, Down
  <2> QED BY <1>8, <1>13, <2>1
<1>14. ASSUME ListAll, ~Vanish PROVE GapInv'
  <2>1. phase' = phase /\ rows' = rows /\ ~index'.open /\ reindex.pc # "none"
    BY <1>14 DEF ListAll, ReindexStep, processVars, dbVars, ProcessInv
  <2>2. PICK S \in SUBSET Emails : S = {e \in Emails : rows[e] = "local"}
    OBVIOUS
  <2>3. reindex'.todo = S
    BY <1>14, <2>2 DEF ListAll, TypeOK, ReindexType
  <2>4. NoSilentGap' /\ phase' \notin Down
    BY <2>1 DEF NoSilentGap, ProcessInv
  <2>5. \A e \in Emails : rows'[e] = "local" => e \in reindex'.todo
    BY <2>1, <2>2, <2>3
  <2> QED BY <2>4, <2>5 DEF GapInv
<1>15. ASSUME Quiet, NEW d \in Emails, IndexOne(d) \/ IndexOneFails(d) PROVE GapInv'
  <2>1. phase' \notin Down /\ ~index'.open /\ reindex.pc = "building"
    BY <1>15 DEF IndexOne, IndexOneFails, ReindexStep, processVars, ProcessInv
  <2>2. \/ reindex'.todo = reindex.todo \ {d} /\ reindex'.built = reindex.built \cup {d}
        \/ reindex'.todo = reindex.todo \ {d} /\ reindex'.built = reindex.built /\ d \in missed'
    BY <1>15 DEF IndexOne, IndexOneFails, TypeOK, ReindexType
  <2>3. reindex.todo \cup reindex.built \subseteq reindex'.todo \cup reindex'.built \cup missed'
    BY <2>2
  <2>4. PICK U, V : U = reindex.todo \cup reindex.built /\ V = reindex'.todo \cup reindex'.built \cup missed'
    OBVIOUS
  <2>5. /\ U \subseteq V /\ \A e \in Emails : rows[e] = "local" => Short(e, U)
        /\ reindex'.todo \cup reindex'.built \cup missed' = V \cup missed'
    BY <1>5, <2>1, <2>3, <2>4
  <2>6. \A e \in Emails : rows'[e] = "local" => e \in V \cup Gone' \/ BeingIndexed(e)'
    BY <1>3, <1>15, <2>5
  <2>7. \A e \in Emails :
           rows'[e] = "local" => e \in reindex'.todo \cup reindex'.built \cup Gone' \/ BeingIndexed(e)'
    BY <2>5, <2>6 DEF Gone
  <2>8. NoSilentGap'
    BY <2>1 DEF NoSilentGap
  <2> QED BY <2>1, <2>7, <2>8 DEF GapInv
<1>16. CASE Quiet /\ Swap
  <2>1. phase' \notin Down /\ reindex'.pc = "none" /\ index'.docs = reindex.built /\ reindex.todo = {} /\ reindex.pc = "building"
    BY <1>16, IndexRecords DEF Swap, ReindexStep, processVars, ProcessInv
  <2> QED BY <1>5, <1>8, <1>16, <2>1
<1>17. CASE Quiet /\ Unlock
  <2>1. phase \in Down /\ phase' \notin Down /\ reindex' = reindex /\ reindex.pc = "none" /\ index'.docs = index.docs
    BY <1>17, IndexRecords DEF Unlock, Down, ProcessInv, TypeOK
  <2> QED BY <1>6, <1>8, <1>17, <2>1
<1>18. CASE Quiet /\ CloseIndexAndDb
  <2>1. phase' \notin Down /\ reindex' = reindex /\ ~index'.open
    BY <1>18, IndexRecords DEF CloseIndexAndDb, To, Down, Closing, TypeOK
  <2> QED BY <1>5, <1>8, <1>18, <2>1
<1>19. CASE Quiet /\ ListFails
  <2>1. phase' \notin Down /\ reindex'.pc = "none"
    BY <1>19, IndexRecords DEF ListFails, ReindexStep, processVars, ProcessInv
  <2>2. PICK S \in SUBSET Emails : S = {e \in Emails : rows[e] = "local"}
    OBVIOUS
  <2>3. S \subseteq Gone' /\ rows' = rows
    BY <1>19, <2>2 DEF ListFails, Gone, ReindexStep, dbVars
  <2>4. \A e \in Emails : rows'[e] = "local" => e \in Gone'
    BY <2>2, <2>3
  <2> QED BY <2>1, <2>4 DEF GapInv, NoSilentGap, Gone
<1>20. ASSUME Quiet, NEW d \in Emails, LateWrite(d) PROVE GapInv'
  <2>1. phase' = phase /\ cut' = cut
    BY <1>20 DEF LateWrite, processVars, historyVars, failedVars
  <2>2. /\ index'.open = index.open /\ reindex'.pc = reindex.pc /\ reindex'.todo = reindex.todo
        /\ index.docs \subseteq index'.docs /\ reindex.built \subseteq reindex'.built
    BY <1>20, LateWritten
  <2>3. PICK T, U, V : T = index'.docs /\ U = reindex.todo \cup reindex.built /\ V = reindex'.todo \cup reindex'.built
    OBVIOUS
  <2>4. U \subseteq V /\ index.docs \subseteq T
    BY <2>2, <2>3
  <2> QED BY <1>4, <1>5, <1>8, <1>20, <2>1, <2>2, <2>3, <2>4
<1> QED BY <1>1, <1>9, <1>10, <1>11, <1>12, <1>13, <1>14, <1>15, <1>16, <1>17, <1>18, <1>19, <1>20, SearchCases

LEMMA GhostNext ==
  ASSUME TypeOK, ProcessInv, RunInv, GhostInv, [Next]_vars
  PROVE  GhostInv'
<1>0. /\ deletion \in [Emails -> {"none", "row", "index"}] /\ index.docs \subseteq Emails /\ reindex.built \subseteq Emails
      /\ \A r \in Runs : run[r].email \in Emails
  BY DEF TypeOK, IndexType, ReindexType, RunType
<1>1. /\ ListAll \/ Excused \subseteq Excused'
      /\ \A e \in Emails : /\ rows'[e] = "deleted" => rows[e] = "deleted" \/ DeleteRow(e)
                           /\ rows[e] = "deleted" => rows'[e] = "deleted"
  BY HistoryGrows, RowsChange
<1>2. \A e \in Emails : e \in index.docs /\ index.open /\ rows[e] = "deleted" => deletion[e] # "none" \/ e \in Excused
  BY DEF GhostInv, NoGhost, Excused
<1>3. ASSUME \A e \in Emails : e \in index'.docs /\ index'.open /\ rows'[e] = "deleted" => deletion'[e] # "none" \/ e \in Excused',
             index'.docs \subseteq Emails
      PROVE  NoGhost'
  BY <1>3 DEF NoGhost, Excused
<1>4. CASE Vanish
  <2>1. ~index'.open /\ reindex' = NoReindex /\ rows' = rows /\ \A e \in Emails : deletion'[e] = "none"
    BY <1>4, IndexRecords DEF Vanish
  <2>2. \A e \in index'.docs : rows[e] = "deleted" => e \in cut'
    BY <1>4, IndexRecords DEF Vanish
  <2> QED BY <2>1, <2>2, IndexRecords DEF GhostInv, NoGhost
<1>5. CASE ListAll /\ ~Vanish
  <2>1. /\ UNCHANGED <<phase, deletion, index, holders, rows>> /\ reindex'.built = reindex.built
        /\ reindex.pc = "closed"
    BY <1>5 DEF ListAll, ReindexStep, processVars, dbVars, TypeOK, ReindexType
  <2>2. reindex.built = {} /\ index.docs = {} /\ ~index.open
    BY <2>1 DEF ProcessInv
  <2> QED BY <2>1, <2>2 DEF GhostInv, NoGhost
<1> DEFINE Quiet == ~Vanish /\ ~ListAll /\ \A e \in Emails : ~DeleteRow(e)
<1>6. CASE Quiet /\ Elsewhere
  <2>1. \A e \in Emails : e \in holders' <=> e \in holders
    BY <1>6 DEF Elsewhere
  <2>2. UNCHANGED <<index, reindex, deletion, cut>> /\ (phase' \in Down => phase \in Down)
    BY <1>6 DEF Elsewhere, failedVars
  <2>3. NoGhost'
    BY <1>0, <1>1, <1>2, <1>3, <1>6, <2>2
  <2> QED BY <1>0, <1>1, <1>6, <2>1, <2>2, <2>3 DEF GhostInv
<1>7. ASSUME NEW d \in Emails, DeleteRow(d), ~Vanish, ~ListAll PROVE GhostInv'
  <2>1. /\ UNCHANGED <<index, reindex, holders, phase>> /\ deletion' = [deletion EXCEPT ![d] = "row"]
        /\ rows' = [rows EXCEPT ![d] = "deleted"] /\ phase = "serving"
    BY <1>7 DEF DeleteRow, processVars
  <2>2. deletion'[d] = "row" /\ \A e \in Emails : e # d => deletion'[e] = deletion[e] /\ rows'[e] = rows[e]
    BY <1>0, <2>1 DEF TypeOK
  <2>3. rows'[d] = "deleted" /\ phase' \notin Down
    BY <2>1 DEF TypeOK, Down
  <2>4. NoGhost'
    BY <1>0, <1>1, <1>2, <1>3, <1>7, <2>1, <2>2
  <2> QED BY <1>0, <1>1, <1>7, <2>1, <2>2, <2>3, <2>4 DEF GhostInv
<1>8. ASSUME NEW d \in Emails, TakeIndex(d), Quiet PROVE GhostInv'
  <2>1. /\ UNCHANGED <<index, reindex, phase, cut>> /\ deletion' = [deletion EXCEPT ![d] = "index"]
        /\ reindex.pc = "none" /\ holders' = holders \cup {d} /\ deletion[d] = "row"
    BY <1>8 DEF TakeIndex, processVars, historyVars, failedVars
  <2>2. deletion'[d] = "index" /\ \A e \in Emails : e # d => deletion'[e] = deletion[e]
    BY <1>0, <2>1
  <2>3. NoGhost'
    BY <1>0, <1>1, <1>2, <1>3, <1>8, <2>1, <2>2
  <2> QED BY <1>0, <1>1, <1>8, <2>1, <2>2, <2>3 DEF GhostInv
<1>9. ASSUME NEW d \in Emails, DeleteDoc(d) \/ DeleteDocFails(d), Quiet PROVE GhostInv'
  <2>1. /\ UNCHANGED <<reindex, phase>> /\ deletion' = [deletion EXCEPT ![d] = "none"]
        /\ holders' = holders \ {d} /\ deletion[d] = "index"
    BY <1>9 DEF DeleteDoc, DeleteDocFails, processVars
  <2>2. deletion'[d] = "none" /\ \A e \in Emails : e # d => deletion'[e] = deletion[e]
    BY <1>0, <2>1
  <2>3. index'.open = index.open /\ index'.docs \subseteq index.docs /\ phase \notin Down
    BY <1>9, <2>1, DocsWritten DEF DeleteDocFails, ProcessInv
  <2>4. index.open => d \notin index'.docs \/ d \in Excused'
    <3>1. CASE DeleteDoc(d)
      BY <1>1, <1>9, <2>1, <3>1, DocsWritten DEF GhostInv
    <3>2. CASE DeleteDocFails(d)
      BY <3>2 DEF DeleteDocFails, Excused
    <3> QED BY <1>9, <3>1, <3>2
  <2>5. reindex.pc = "building" => d \notin reindex.built \/ d \in Excused \/ rows[d] # "deleted"
    BY <2>1 DEF GhostInv
  <2>6. NoGhost'
    BY <1>0, <1>1, <1>2, <1>3, <1>9, <2>2, <2>3, <2>4
  <2> QED BY <1>0, <1>1, <1>9, <2>1, <2>2, <2>3, <2>5, <2>6 DEF GhostInv
<1>10. ASSUME NEW r \in Runs, IndexEnds(r), Quiet PROVE GhostInv'
  <2>1. UNCHANGED <<reindex, phase, deletion>> /\ holders' = holders
    BY <1>10 DEF IndexEnds, IndexWrite, IndexWriteFails, RunStep, processVars
  <2>2. PICK d \in Emails : d = run[r].email /\ (rows[d] = "deleted" => d \in Excused)
    BY <1>0, <1>10 DEF IndexEnds, IndexWrite, IndexWriteFails, RunInv, Excused
  <2>3. index'.open = index.open /\ index'.docs \subseteq index.docs \cup {d} /\ (~index.open => index' = index)
    BY <1>10, <2>2, DocsWritten DEF IndexEnds, IndexWriteFails
  <2>4. phase \in Down => ~index.open
    BY DEF ProcessInv
  <2>5. NoGhost'
    BY <1>0, <1>1, <1>2, <1>3, <1>10, <2>1, <2>2, <2>3
  <2>6. phase \in Down => cut' = cut
    BY <1>10 DEF IndexEnds, IndexWrite, IndexWriteFails, failedVars
  <2> QED BY <1>0, <1>1, <1>10, <2>1, <2>2, <2>3, <2>4, <2>5, <2>6 DEF GhostInv
<1>11. CASE Quiet /\ StartReindex
  <2>1. /\ deletion' = deletion /\ phase' \notin Down /\ reindex'.pc = "closed" /\ reindex'.built = {}
        /\ ~index'.open /\ index'.docs = {}
    BY <1>11, IndexRecords DEF StartReindex, ReindexStep, processVars, NoReindex, Down
  <2> QED BY <1>1, <1>11, <2>1 DEF GhostInv, NoGhost
<1>12. CASE Quiet /\ ListFails
  <2>1. /\ deletion' = deletion /\ reindex'.pc = "none" /\ reindex'.built = {} /\ phase' \notin Down /\ index'.docs = {}
    BY <1>12, IndexRecords DEF ListFails, ReindexStep, processVars, ProcessInv
  <2> QED BY <1>1, <1>12, <2>1 DEF GhostInv, NoGhost
<1>13. CASE Quiet /\ OpenFails
  <2>1. /\ UNCHANGED <<deletion, index, holders>> /\ reindex'.built = {} /\ reindex'.pc = "none"
        /\ index.docs = {} /\ phase' \notin Down
    BY <1>13, IndexRecords DEF OpenFails, ReindexStep, processVars, ProcessInv
  <2> QED BY <1>1, <1>13, <2>1 DEF GhostInv, NoGhost
<1>14. ASSUME NEW d \in Emails, IndexOne(d) \/ IndexOneFails(d), Quiet PROVE GhostInv'
  <2>1. UNCHANGED <<phase, deletion, index, holders>> /\ reindex.pc = "building" /\ reindex'.pc = reindex.pc
    BY <1>14 DEF IndexOne, IndexOneFails, ReindexStep, processVars, TypeOK, ReindexType
  <2>2. reindex'.built = reindex.built \/ (reindex'.built = reindex.built \cup {d} /\ rows[d] = "local")
    BY <1>14 DEF IndexOne, IndexOneFails, TypeOK, ReindexType
  <2>3. ~index.open /\ phase \notin Down /\ index.docs = {}
    BY <2>1 DEF ProcessInv
  <2> QED BY <1>0, <1>1, <1>14, <2>1, <2>2, <2>3 DEF GhostInv, NoGhost
<1>15. CASE Quiet /\ Swap
  <2>1. /\ UNCHANGED <<phase, deletion, holders>> /\ reindex.pc = "building" /\ reindex'.pc = "none"
        /\ reindex'.built = {} /\ index'.open /\ index'.docs = reindex.built
    BY <1>15, IndexRecords DEF Swap, ReindexStep, processVars
  <2>2. phase \notin Down
    BY <2>1 DEF ProcessInv
  <2>3. \A e \in Emails : e \in reindex.built /\ rows[e] = "deleted" => deletion[e] # "none" \/ e \in Excused
    BY <2>1 DEF GhostInv
  <2>4. NoGhost'
    BY <1>0, <1>1, <1>3, <1>15, <2>1, <2>3
  <2> QED BY <1>0, <1>1, <1>15, <2>1, <2>2, <2>4 DEF GhostInv
<1>16. CASE Quiet /\ Unlock
  <2>1. /\ UNCHANGED <<deletion, holders, reindex>> /\ phase = "locked" /\ phase' = "serving"
        /\ index'.open /\ index'.docs = index.docs
    BY <1>16, IndexRecords DEF Unlock, TypeOK
  <2>2. \A e \in Emails : e \in index.docs /\ rows[e] = "deleted" => e \in Excused
    BY <2>1 DEF GhostInv, Down, Excused
  <2>3. NoGhost'
    BY <1>0, <1>1, <1>3, <1>16, <2>1, <2>2
  <2> QED BY <1>0, <1>1, <1>16, <2>1, <2>3 DEF GhostInv, Down
<1>17. CASE Quiet /\ CloseIndexAndDb
  <2>1. /\ UNCHANGED <<deletion, holders, reindex>> /\ phase' = "closed"
        /\ ~index'.open /\ index'.docs = index.docs
    BY <1>17, IndexRecords DEF CloseIndexAndDb, To, Closing, TypeOK
  <2> QED BY <1>0, <1>1, <1>17, <2>1 DEF GhostInv, NoGhost, Down
<1>18. ASSUME NEW d \in Emails, LateWrite(d), Quiet PROVE GhostInv'
  <2>1. UNCHANGED <<phase, deletion, holders, cut>> /\ d \in Excused
    BY <1>18 DEF LateWrite, processVars, historyVars, failedVars, ProcessInv, Excused
  <2>2. /\ index'.open = index.open /\ reindex'.pc = reindex.pc
        /\ index'.docs \subseteq index.docs \cup {d} /\ reindex'.built \subseteq reindex.built \cup {d}
        /\ index.open \/ index' = index
    BY <1>18, LateWritten
  <2>3. phase \in Down => ~index.open
    BY DEF ProcessInv
  <2>4. NoGhost'
    BY <1>0, <1>1, <1>2, <1>3, <1>18, <2>1, <2>2
  <2> QED BY <1>0, <1>1, <1>18, <2>1, <2>2, <2>3, <2>4 DEF GhostInv
<1> QED BY <1>4, <1>5, <1>6, <1>7, <1>8, <1>9, <1>10, <1>11, <1>12, <1>13, <1>14, <1>15, <1>16, <1>17, <1>18, SearchCases
------------------------------------------------------------------------------
(* Types, and the invariant as a whole. *)
LEMMA TypeNext ==
  ASSUME TypeOK, ProcessInv, RunInv, [Next]_vars
  PROVE  TypeOK'
<1>0. \A r \in Runs : run[r].email \in Emails
  BY DEF TypeOK, RunType
<1>1. run' \in [Runs -> RunType]
  <2>1. Vanish => run' \in [Runs -> RunType]
    BY IdleIsRun DEF Vanish
  <2>2. \A r \in Runs : RunMoves(r) => run' \in [Runs -> RunType]
    BY DEF RunMoves, Early, Picks, Advances, Turns
  <2> QED BY <2>1, <2>2, RunCases DEF TypeOK
<1>2. rows' \in [Emails -> {"none", "local", "s3_only", "deleted"}]
  <2>1. rows' = rows \/ \E e \in Emails, x \in {"none", "local", "s3_only", "deleted"} : rows' = [rows EXCEPT ![e] = x]
    <3>1. Vanish => rows' = rows
      BY DEF Vanish
    <3>2. \A r \in Runs : RunMoves(r) => rows' = rows \/ \E e \in Emails : rows' = [rows EXCEPT ![e] = "local"]
      BY <1>0 DEF RunMoves, Early, Picks, Accept, Commit, Rollback, IndexEnds, IndexWrite, IndexWriteFails, dbVars
    <3>3. \A e \in Emails : Evict(e) \/ DeleteRow(e) => rows' = [rows EXCEPT ![e] = "s3_only"] \/ rows' = [rows EXCEPT ![e] = "deleted"]
      BY DEF Evict, DeleteRow
    <3> QED BY <3>1, <3>2, <3>3, RunCases
  <2> QED BY <2>1 DEF TypeOK
<1>3. executing' \in Runs \cup {NoRun}
  <2>1. Vanish => executing' = NoRun
    BY DEF Vanish
  <2>2. \A r \in Runs : RunMoves(r) => executing' \in {executing, r, NoRun}
    BY DEF RunMoves, Early, Picks, Accept, Commit, Rollback, IndexEnds, IndexWrite, IndexWriteFails, dbVars
  <2>3. \A e \in Emails : Evict(e) \/ DeleteRow(e) => executing' = executing
    BY DEF Evict, DeleteRow
  <2> QED BY <2>1, <2>2, <2>3, RunCases DEF TypeOK
<1>4. index' \in IndexType
  <2>1. index \in IndexType /\ index.docs \subseteq Emails /\ reindex.built \subseteq Emails
    BY DEF TypeOK, IndexType, ReindexType
  <2>2. ASSUME NEW b \in BOOLEAN, NEW S \in SUBSET Emails, index' = [open |-> b, docs |-> S]
        PROVE  index' \in IndexType
    BY <2>2 DEF IndexType
  <2>3. Vanish \/ StartReindex \/ ListFails \/ Swap =>
           \E b \in BOOLEAN, S \in SUBSET Emails : index' = [open |-> b, docs |-> S]
    BY <2>1 DEF Vanish, Written, StartReindex, ListFails, Swap
  <2>4. Unlock \/ CloseIndexAndDb => index' \in IndexType
    BY <2>1 DEF Unlock, CloseIndexAndDb, IndexType
  <2>5. /\ ListAll \/ OpenFails \/ Elsewhere => index' = index
        /\ \A e \in Emails : DeleteRow(e) \/ TakeIndex(e) \/ DeleteDocFails(e) \/ IndexOne(e) \/ IndexOneFails(e) => index' = index
        /\ \A r \in Runs : IndexWriteFails(r) => index' = index
    BY DEF ListAll, OpenFails, Elsewhere, DeleteRow, TakeIndex, DeleteDocFails, IndexOne, IndexOneFails, IndexWriteFails
  <2>6. \A e \in Emails : LateWrite(e) => index' \in IndexType
    BY LateWritten
  <2> QED BY <2>1, <2>2, <2>3, <2>4, <2>5, <2>6, SearchCases, DocsWritten DEF IndexEnds
<1>5. reindex' \in ReindexType
  <2>1. reindex \in ReindexType
    BY DEF TypeOK
  <2>2. Vanish \/ OpenFails \/ ListFails \/ Swap => reindex' \in ReindexType
    BY IndexRecords DEF Vanish, OpenFails, ListFails, Swap
  <2>3. StartReindex => reindex' \in ReindexType
    BY DEF StartReindex, NoReindex, ReindexType
  <2>4. ASSUME ListAll PROVE reindex' \in ReindexType
    <3>1. PICK S \in SUBSET Emails : S = {e \in Emails : rows[e] = "local"}
      OBVIOUS
    <3>2. reindex' = [reindex EXCEPT !.pc = "building", !.todo = S]
      BY <2>4, <3>1 DEF ListAll
    <3> QED BY <2>1, <3>2 DEF ReindexType
  <2>5. ASSUME NEW e \in Emails, IndexOne(e) PROVE reindex' \in ReindexType
    <3>1. PICK S, T : S = reindex.todo \ {e} /\ T \in {reindex.built, reindex.built \cup {e}}
                      /\ reindex' \in {[reindex EXCEPT !.todo = S], [reindex EXCEPT !.todo = S, !.built = T]}
      <4>1. reindex' \in {[reindex EXCEPT !.todo = reindex.todo \ {e}],
                          [reindex EXCEPT !.todo = reindex.todo \ {e}, !.built = reindex.built \cup {e}]}
        BY <2>1, <2>5 DEF IndexOne, ReindexType
      <4> QED BY <4>1
    <3>2. S \subseteq Emails /\ T \subseteq Emails
      BY <2>1, <3>1 DEF ReindexType
    <3> QED BY <2>1, <3>1, <3>2 DEF ReindexType
  <2>6. /\ (\E r \in Runs : IndexEnds(r)) \/ Elsewhere \/ Unlock \/ CloseIndexAndDb => reindex' = reindex
        /\ \A e \in Emails : DeleteRow(e) \/ TakeIndex(e) \/ DeleteDoc(e) \/ DeleteDocFails(e) => reindex' = reindex
    BY DEF IndexEnds, IndexWrite, IndexWriteFails, Elsewhere, DeleteRow, TakeIndex, DeleteDoc, DeleteDocFails, Unlock,
       CloseIndexAndDb, Closing
  <2>7. ASSUME NEW e \in Emails, IndexOneFails(e) PROVE reindex' \in ReindexType
    <3>1. PICK S \in SUBSET Emails : S = reindex.todo \ {e}
      BY <2>1 DEF ReindexType
    <3>2. reindex' = [reindex EXCEPT !.todo = S]
      BY <2>7, <3>1 DEF IndexOneFails
    <3> QED BY <2>1, <3>2 DEF ReindexType
  <2>8. \A e \in Emails : LateWrite(e) => reindex' \in ReindexType
    BY LateWritten
  <2> QED BY <2>1, <2>2, <2>3, <2>4, <2>5, <2>6, <2>7, <2>8, SearchCases
<1>6. deletion' \in [Emails -> {"none", "row", "index"}]
  <2>1. \/ deletion' = deletion \/ deletion' = [e \in Emails |-> "none"]
        \/ \E e \in Emails, x \in {"none", "row", "index"} : deletion' = [deletion EXCEPT ![e] = x]
    <3>1. Vanish => deletion' = [e \in Emails |-> "none"]
      BY DEF Vanish
    <3>2. \A e \in Emails : DeleteRow(e) \/ TakeIndex(e) \/ DeleteDoc(e) \/ DeleteDocFails(e) =>
             \E x \in {"none", "row", "index"} : deletion' = [deletion EXCEPT ![e] = x]
      BY DEF DeleteRow, TakeIndex, DeleteDoc, DeleteDocFails
    <3>3. /\ (\E r \in Runs : IndexEnds(r)) \/ Elsewhere \/ StartReindex \/ ListAll \/ ListFails \/ OpenFails \/ Swap
                \/ Unlock \/ CloseIndexAndDb => deletion' = deletion
          /\ \A e \in Emails : IndexOne(e) \/ IndexOneFails(e) \/ LateWrite(e) => deletion' = deletion
      BY DEF IndexEnds, IndexWrite, IndexWriteFails, Elsewhere, IndexOne, IndexOneFails, LateWrite, StartReindex, ListAll,
         ListFails, OpenFails, Swap, ReindexStep, Unlock, CloseIndexAndDb, Closing
    <3> QED BY <3>1, <3>2, <3>3, SearchCases
  <2> QED BY <2>1 DEF TypeOK
<1>7. holders' \subseteq Runs \cup Emails
  <2>1. holders' \subseteq holders \/ \E x \in Runs \cup Emails : holders' = holders \cup {x}
    BY DEF Next, Sync, Fetch, Request, Background, Shutdown, Failure, EditAccount, CronTick, TriggerSync, Submit,
       Admit, Begin, Accept, Refused, Commit, IndexWrite, IndexWriteFails, Rollback, Evict, DeleteRow, TakeIndex, DeleteDoc, DeleteDocFails, LateWrite,
       StartReindex, ListAll, ListFails, OpenFails, IndexOne, IndexOneFails, Swap, Unlock, Refresh, Signal, HandlersDone, CronDone, PoolDone,
       PoolTimeout, JobsDone, WriterLoopEnds, CloseIndexAndDb, Exit, ForceExit, Vanish, Restart, EndRun, searchVars, vars
  <2>2. holders \subseteq Runs \cup Emails
    BY DEF TypeOK
  <2>3. CASE holders' \subseteq holders
    BY <2>2, <2>3
  <2>4. ASSUME NEW x \in Runs \cup Emails, holders' = holders \cup {x} PROVE holders' \subseteq Runs \cup Emails
    BY <2>2, <2>4
  <2> QED BY <2>1, <2>3, <2>4
<1>8. phase' \in {"locked", "serving", "http", "cron", "pool", "jobs", "writer", "closed", "exited"}
      /\ writer' \in {"open", "closing", "stopped"} /\ db' \in BOOLEAN /\ releasing' \in BOOLEAN
  <2>1. phase' = phase \/ phase' \in {"locked", "serving", "http", "cron", "pool", "jobs", "writer", "closed", "exited"}
    BY DEF Next, Sync, Fetch, Request, Background, Shutdown, Failure, EditAccount, CronTick, TriggerSync, Submit,
       Admit, Begin, Accept, Refused, Commit, IndexWrite, IndexWriteFails, Rollback, Evict, DeleteRow, TakeIndex, DeleteDoc, DeleteDocFails, LateWrite,
       StartReindex, ListAll, ListFails, OpenFails, IndexOne, IndexOneFails, Swap, Unlock, Refresh, Signal, HandlersDone, CronDone, PoolDone,
       PoolTimeout, JobsDone, WriterLoopEnds, CloseIndexAndDb, Exit, ForceExit, Vanish, Restart, Closing, To,
       RunStep, ReindexStep, processVars, vars
  <2>2. writer' = writer \/ writer' \in {"open", "closing", "stopped"}
    BY DEF Next, Sync, Fetch, Request, Background, Shutdown, Failure, EditAccount, CronTick, TriggerSync, Submit,
       Admit, Begin, Accept, Refused, Commit, IndexWrite, IndexWriteFails, Rollback, Evict, DeleteRow, TakeIndex, DeleteDoc, DeleteDocFails, LateWrite,
       StartReindex, ListAll, ListFails, OpenFails, IndexOne, IndexOneFails, Swap, Unlock, Refresh, Signal, HandlersDone, CronDone, PoolDone,
       PoolTimeout, JobsDone, WriterLoopEnds, CloseIndexAndDb, Exit, ForceExit, Vanish, Restart, Closing, To,
       RunStep, ReindexStep, dbVars, vars
  <2>3. db' = db \/ db' \in BOOLEAN
    BY DEF Next, Sync, Fetch, Request, Background, Shutdown, Failure, EditAccount, CronTick, TriggerSync, Submit,
       Admit, Begin, Accept, Refused, Commit, IndexWrite, IndexWriteFails, Rollback, Evict, DeleteRow, TakeIndex, DeleteDoc, DeleteDocFails, LateWrite,
       StartReindex, ListAll, ListFails, OpenFails, IndexOne, IndexOneFails, Swap, Unlock, Refresh, Signal, HandlersDone, CronDone, PoolDone,
       PoolTimeout, JobsDone, WriterLoopEnds, CloseIndexAndDb, Exit, ForceExit, Vanish, Restart, Closing, To,
       RunStep, ReindexStep, dbVars, vars
  <2>4. releasing' = releasing \/ releasing' \in BOOLEAN
    BY DEF Next, Sync, Fetch, Request, Background, Shutdown, Failure, EditAccount, CronTick, TriggerSync, Submit,
       Admit, Begin, Accept, Refused, Commit, IndexWrite, IndexWriteFails, Rollback, Evict, DeleteRow, TakeIndex, DeleteDoc, DeleteDocFails, LateWrite,
       StartReindex, ListAll, ListFails, OpenFails, IndexOne, IndexOneFails, Swap, Unlock, Refresh, Signal, HandlersDone, CronDone, PoolDone,
       PoolTimeout, JobsDone, WriterLoopEnds, CloseIndexAndDb, Exit, ForceExit, Vanish, Restart, Closing, To,
       RunStep, ReindexStep, vars
  <2> QED BY <2>1, <2>2, <2>3, <2>4 DEF TypeOK
<1>9. account' \in [Accounts -> AccountType]
  <2>1. account' = account \/ \E a \in Accounts, active \in BOOLEAN, spec \in Specs :
                                 account' = [account EXCEPT ![a] = [active |-> active, spec |-> spec]]
    BY DEF Next, Sync, Fetch, Request, Background, Shutdown, Failure, EditAccount, CronTick, TriggerSync, Submit,
       Admit, Begin, Accept, Refused, Commit, IndexWrite, IndexWriteFails, Rollback, Evict, DeleteRow, TakeIndex, DeleteDoc, DeleteDocFails, LateWrite,
       StartReindex, ListAll, ListFails, OpenFails, IndexOne, IndexOneFails, Swap, Unlock, Refresh, Signal, HandlersDone, CronDone, PoolDone,
       PoolTimeout, JobsDone, WriterLoopEnds, CloseIndexAndDb, Exit, ForceExit, Vanish, Restart, Closing,
       RunStep, ReindexStep, processVars, vars
  <2>2. ASSUME NEW a \in Accounts, NEW active \in BOOLEAN, NEW spec \in Specs,
               account' = [account EXCEPT ![a] = [active |-> active, spec |-> spec]]
        PROVE  account' \in [Accounts -> AccountType]
    <3>1. PICK s : s = [active |-> active, spec |-> spec]
      OBVIOUS
    <3>2. s \in AccountType
      BY <3>1 DEF AccountType
    <3> QED BY <2>2, <3>1, <3>2 DEF TypeOK
  <2> QED BY <2>1, <2>2 DEF TypeOK
<1>10. entry' \in [Accounts -> (Specs \ {"invalid"}) \cup {"none"}]
  <2>1. entry' = entry \/ entry' = [a \in Accounts |-> Wanted(a)] \/ entry' = [a \in Accounts |-> "none"]
    BY DEF Next, Sync, Fetch, Request, Background, Shutdown, Failure, EditAccount, CronTick, TriggerSync, Submit,
       Admit, Begin, Accept, Refused, Commit, IndexWrite, IndexWriteFails, Rollback, Evict, DeleteRow, TakeIndex, DeleteDoc, DeleteDocFails, LateWrite,
       StartReindex, ListAll, ListFails, OpenFails, IndexOne, IndexOneFails, Swap, Unlock, Refresh, Signal, HandlersDone, CronDone, PoolDone,
       PoolTimeout, JobsDone, WriterLoopEnds, CloseIndexAndDb, Exit, ForceExit, Vanish, Restart, Closing,
       RunStep, ReindexStep, processVars, vars
  <2>2. \A a \in Accounts : Wanted(a) \in (Specs \ {"invalid"}) \cup {"none"}
    BY DEF TypeOK, AccountType, Wanted
  <2> QED BY <2>1, <2>2 DEF TypeOK
<1> QED BY <1>1, <1>2, <1>3, <1>4, <1>5, <1>6, <1>7, <1>8, <1>9, <1>10, HistoryGrows DEF TypeOK

LEMMA InitInv ==
  ASSUME Init
  PROVE  ServerInv
<1>1. TypeOK
  <2>1. [active |-> TRUE, spec |-> "hourly"] \in AccountType
    BY DEF AccountType, Specs
  <2>2. account \in [Accounts -> AccountType] /\ entry \in [Accounts -> (Specs \ {"invalid"}) \cup {"none"}]
    BY <2>1 DEF Init
  <2>3. run \in [Runs -> RunType]
    BY IdleIsRun DEF Init
  <2>4. index \in IndexType /\ reindex \in ReindexType
    BY IndexRecords DEF Init
  <2>5. rows \in [Emails -> {"none", "local", "s3_only", "deleted"}] /\ deletion \in [Emails -> {"none", "row", "index"}]
    BY DEF Init
  <2> QED BY <2>2, <2>3, <2>4, <2>5 DEF Init, TypeOK
<1>2. /\ \A r \in Runs : run[r].pc = "idle" /\ r # NoRun
      /\ ~index.open /\ index.docs = {} /\ reindex.pc = "none" /\ reindex.built = {}
      /\ \A e \in Emails : rows[e] = "none" /\ deletion[e] = "none"
  BY IdleIsRun, IndexRecords, ServerAssumption DEF Init
<1>3. ProcessInv
  BY <1>2 DEF Init, ProcessInv, Serving
<1>4. RunInv
  BY <1>2 DEF Init, RunInv
<1>5. GapInv /\ GhostInv
  BY <1>2 DEF GapInv, NoSilentGap, GhostInv, NoGhost
<1> QED BY <1>1, <1>3, <1>4, <1>5 DEF ServerInv

(* The inductive invariant of the process: its phases, its runs, and what   *)
(* its index lacks and holds, in every reachable state.                    *)
THEOREM ServerInvariant == Spec => []ServerInv
<1>1. ASSUME ServerInv, [Next]_vars PROVE ServerInv'
  BY <1>1, TypeNext, ProcessNext, RunNext, GapNext, GhostNext DEF ServerInv
<1> QED BY InitInv, <1>1, PTL DEF Spec

(* Every variable of the server keeps its type, whatever is requested,     *)
(* fails or restarts.                                                      *)
THEOREM TypeCorrect == Spec => []TypeOK
<1>1. ServerInv => TypeOK
  BY DEF ServerInv
<1> QED BY <1>1, ServerInvariant, PTL

(* No transaction is cut off: while one is executed the database is open,  *)
(* the writer goroutine runs and the sync that asked for it waits, however *)
(* the shutdown overlaps syncs that outlast the pool's timeout.            *)
THEOREM NoTransactionCut == Spec => []NoTxAfterClose
<1>1. ASSUME ServerInv PROVE NoTxAfterClose
  <2> SUFFICES ASSUME executing # NoRun PROVE db /\ writer # "stopped" /\ run[executing].pc = "waiting"
    BY DEF NoTxAfterClose
  <2>1. executing \in Runs /\ run[executing].pc = "waiting"
    BY <1>1 DEF ServerInv, TypeOK, RunInv
  <2>2. writer # "stopped"
    BY <1>1 DEF ServerInv, ProcessInv
  <2>3. phase \in Serving \cup {"writer"}
    BY <1>1, <2>2 DEF ServerInv, TypeOK, ProcessInv, Serving
  <2> QED BY <1>1, <2>1, <2>2, <2>3 DEF ServerInv, ProcessInv
<1> QED BY <1>1, ServerInvariant, PTL

(* Through syncs, deletions, reindexes, failures, forced exits and          *)
(* restarts, a local email that an open index lacks is about to be indexed  *)
(* or, since the last reindex that listed the rows, was counted as an       *)
(* error, lost with a process, or left out by a reindex that could not list.*)
THEOREM SearchMissesNothing == Spec => []NoSilentGap
<1>1. ServerInv => NoSilentGap
  BY DEF ServerInv, GapInv
<1> QED BY <1>1, ServerInvariant, PTL

(* Search finds no email whose deletion is through, unless the deletion    *)
(* overtook the sync that was indexing it or, since the last reindex, the   *)
(* removal of its document failed, a timed out write may have landed after  *)
(* it, or the process ended in between.                                    *)
THEOREM SearchForgetsDeleted == Spec => []NoGhost
<1>1. ServerInv => NoGhost
  BY DEF ServerInv, GhostInv
<1> QED BY <1>1, ServerInvariant, PTL
=============================================================================
