----------------------------- MODULE RulesProofs -----------------------------
(***************************************************************************)
(* Proofs about the rules table and the watcher of rules.yaml of Rules,    *)
(* for any requests, sync runs, messages, rules and saved versions of the  *)
(* file: type correctness, exact match counts, one row per name of the     *)
(* file, that a reload leaves the table as the file has it, and that no    *)
(* save is missed.                                                         *)
(***************************************************************************)
EXTENDS Rules, FiniteSetTheorems, WellFoundedInduction, TLAPS

(* An id no row has got yet has no matches, not even in a run that still   *)
(* counts; and a row about to be inserted starts from none.                *)
CountInv ==
    /\ CountsExact
    /\ \A i \in Ids : i >= nextId =>
          recorded[i] = 0 /\ \A r \in Runs : run[r].counts[i] = 0 /\ ~run[r].table[i].live
    /\ \A w \in Writers : handler[w].pc = "insert" => handler[w].rule.count = 0

(* The reload is on a version of the file that is valid, no older than the *)
(* last one applied and no newer than the file.                            *)
VersionInv ==
    /\ loaded <= file
    /\ watcher.pc \in {"list", "apply"} =>
          watcher.version # 0 /\ Parsed(watcher.version) /\ loaded <= watcher.version /\ watcher.version <= file

(* The rules still to apply are the last ones of the file. *)
TodoInv ==
    watcher.pc = "apply" =>
        LET F == FileRules[watcher.version] IN
        /\ Len(watcher.todo) <= Len(F)
        /\ \A j \in 1 .. Len(watcher.todo) : watcher.todo[j] = F[j + Len(F) - Len(watcher.todo)]

(* Where the current version of the file is: seen, or on its way. *)
Settled(v) == v = 0 \/ ~Parsed(v) \/ loaded = v \/ v \in excused
PendingInv ==
    \/ Settled(file) \/ event \/ timer \/ signal \/ watcher.pc = "read"
    \/ watcher.pc \in {"list", "apply"} /\ watcher.version = file

(* What the reload looked up still holds: for names only the file gives,   *)
(* and no version of it twice, the row it listed is the only one; and a    *)
(* row no request has written since belongs to its own name only.          *)
ListedInv ==
    watcher.pc = "apply" =>
        /\ \A n \in Names : watcher.byName[n] < nextId
        /\ \A n, k \in Names : watcher.byName[n] = watcher.byName[k] => n = k \/ watcher.byName[n] = 0
        /\ \A i \in Live : \A n \in Names :
              rules[i].name \notin touched /\ watcher.byName[n] = i => n = rules[i].name
        /\ \A j \in 1 .. Len(watcher.todo) : \A i \in Live :
              rules[i].name = watcher.todo[j].name /\ rules[i].name \notin named \cup Repeated =>
                 watcher.byName[rules[i].name] = i

(* The rules of the file applied so far, and after a complete reload all   *)
(* of them, are in the table unless a request wrote to that name since, or *)
(* a later rule of the same name has been applied.                         *)
LastSoFar(F, j, k) == \A i \in 1 .. k : i > j => F[i].name # F[j].name
Present(r) == r.name \in touched \/ \E i \in Live : [rules[i] EXCEPT !.count = 0] = r
PresentInv ==
    /\ watcher.pc = "apply" =>
          \A j \in 1 .. Len(FileRules[watcher.version]) - Len(watcher.todo) :
             LastSoFar(FileRules[watcher.version], j, Len(FileRules[watcher.version]) - Len(watcher.todo)) =>
                Present(FileRules[watcher.version][j])
    /\ watcher.pc \in {"read", "open", "wait"} /\ watcher.version = loaded /\ loaded \notin excused \cup {0} =>
          \A j \in DOMAIN FileRules[loaded] : LastOfItsName(loaded, j) => Present(FileRules[loaded][j])

RulesInv == /\ TypeOK /\ CountInv /\ VersionInv /\ TodoInv /\ PendingInv
            /\ OneRowPerFileName /\ ListedInv /\ PresentInv
------------------------------------------------------------------------------
(* Rows and tables. *)
Rows == [Ids -> RuleType \cup {NoRule}]

LEMMA Constants ==
  /\ MaxId \in Nat /\ MaxId # 0 /\ MaxRequests \in Nat /\ MaxCount \in Nat /\ MaxFaults \in Nat
  /\ FileRules \in Seq(Seq(FileRule)) /\ Len(FileRules) \in Nat /\ Priorities \subseteq Nat
  /\ GivenNames \subseteq Names
  /\ Ids = 1 .. MaxId /\ Versions = 0 .. Len(FileRules)
  /\ \A v \in 1 .. Len(FileRules) : FileRules[v] \in Seq(FileRule)
<1>1. FileRules \in Seq(Seq(FileRule))
  BY RulesAssumption
<1>2. Len(FileRules) \in Nat /\ \A v \in 1 .. Len(FileRules) : FileRules[v] \in Seq(FileRule)
  BY <1>1
<1> QED BY <1>1, <1>2, RulesAssumption DEF Ids, Versions

LEMMA RowFields ==
  /\ \A x \in RuleType : /\ x.live = TRUE /\ x.name \in Names /\ x.count \in 0 .. MaxCount
                         /\ x.priority \in Nat /\ x.active \in BOOLEAN
  /\ NoRule.live = FALSE /\ NoRule.count = 0
<1>1. \A x \in RuleType : /\ x.live = TRUE /\ x.name \in Names /\ x.count \in 0 .. MaxCount
                          /\ x.priority \in Nat /\ x.active \in BOOLEAN
  BY DEF RuleType
<1>2. NoRule.live = FALSE /\ NoRule.count = 0
  BY DEF NoRule
<1> QED BY <1>1, <1>2

(* Two rows that differ at most in their count. *)
Same(x, y) == x.name = y.name /\ [x EXCEPT !.count = 0] = [y EXCEPT !.count = 0]

LEMMA Counted ==
  ASSUME NEW x \in RuleType, NEW n \in 0 .. MaxCount, NEW y, y = [x EXCEPT !.count = n]
  PROVE  y \in RuleType /\ y.count = n /\ Same(y, x)
<1>1. y \in RuleType /\ y.count = n /\ y.name = x.name
  BY DEF RuleType
<1>2. [y EXCEPT !.count = 0] = [x EXCEPT !.count = 0]
  BY DEF RuleType
<1> QED BY <1>1, <1>2 DEF Same

LEMMA FileRows ==
  ASSUME NEW x \in FileRule
  PROVE  /\ x.name \in Names /\ x.count = 0 /\ [x EXCEPT !.count = 0] = x
         /\ Validate(x.cond) => x \in RuleType
<1>1. x.name \in Names /\ x.count = 0
  BY DEF FileRule
<1>2. [x EXCEPT !.count = 0] = x
  BY DEF FileRule
<1>3. 0 \in 0 .. MaxCount
  BY Constants
<1>4. Validate(x.cond) => x \in RuleType
  BY <1>3 DEF FileRule, RuleType, Validate
<1> QED BY <1>1, <1>2, <1>4

LEMMA NewRule ==
  ASSUME NEW n \in Names, NEW p \in Nat, NEW c, Validate(c), NEW a \in BOOLEAN, NEW x, x = Rule(n, p, c, a)
  PROVE  x \in RuleType /\ x.name = n /\ x.count = 0
<1>1. 0 \in 0 .. MaxCount
  BY Constants
<1> QED BY <1>1 DEF Rule, RuleType, Validate

LEMMA LiveRows ==
  ASSUME TypeOK
  PROVE  /\ \A i \in Ids : rules[i] \in RuleType \cup {NoRule} /\ (i \in Live <=> rules[i].live)
         /\ \A i \in Ids : i \in Live <=> rules[i] \in RuleType
         /\ Live \subseteq Ids /\ \A i \in Live : i < nextId /\ rules[i].name \in Names
<1>1. rules \in [Ids -> RuleType \cup {NoRule}] /\ Live \subseteq Ids /\ \A i \in Live : i < nextId
  BY DEF TypeOK, Live
<1>2. \A i \in Ids : rules[i] \in RuleType \cup {NoRule} /\ (i \in Live <=> rules[i].live)
  BY <1>1 DEF Live
<1>3. \A i \in Ids : i \in Live <=> rules[i] \in RuleType
  BY <1>2, RowFields
<1> QED BY <1>1, <1>2, <1>3, RowFields

(* What may become of the table in one step. *)
Stays == rules' = rules /\ nextId' = nextId
Creates(x) == /\ nextId \in Ids /\ nextId' = nextId + 1 /\ rules' \in Rows /\ x \in RuleType
              /\ rules'[nextId] = x /\ \A k \in Ids : k # nextId => rules'[k] = rules[k]
Writes(i, x) == /\ i \in Live /\ nextId' = nextId /\ rules' \in Rows
                /\ rules'[i] \in RuleType /\ rules'[i].count = rules[i].count /\ Same(rules'[i], x)
                /\ \A k \in Ids : k # i => rules'[k] = rules[k]
Deletes(i) == /\ i \in Live /\ nextId' = nextId /\ rules' \in Rows
              /\ rules'[i] = NoRule /\ \A k \in Ids : k # i => rules'[k] = rules[k]

LEMMA Creating ==
  ASSUME TypeOK, NEW x \in RuleType, CreateRow(x)
  PROVE  Creates(x)
<1>1. nextId \in Ids
  BY Constants DEF TypeOK, CreateRow
<1>2. rules \in Rows
  BY DEF TypeOK, Rows
<1> QED BY <1>1, <1>2 DEF Creates, CreateRow, Rows

LEMMA Updating ==
  ASSUME TypeOK, NEW i \in Ids, rules[i].live, NEW x \in RuleType, UpdateRow(i, x)
  PROVE  Writes(i, x)
<1>1. rules \in Rows /\ i \in Live /\ rules[i] \in RuleType
  BY LiveRows DEF TypeOK, Rows
<1>2. PICK n, y : n = rules[i].count /\ y = [x EXCEPT !.count = n]
  OBVIOUS
<1>3. n \in 0 .. MaxCount
  BY <1>1, <1>2, RowFields
<1>4. y \in RuleType /\ y.count = n /\ Same(y, x)
  BY <1>2, <1>3, Counted
<1>5. rules' = [rules EXCEPT ![i] = y] /\ nextId' = nextId
  BY <1>2 DEF UpdateRow, Stored
<1>6. rules' \in Rows /\ rules'[i] = y /\ \A k \in Ids : k # i => rules'[k] = rules[k]
  BY <1>1, <1>4, <1>5 DEF Rows
<1> QED BY <1>1, <1>2, <1>4, <1>5, <1>6 DEF Writes

LEMMA Deleting ==
  ASSUME TypeOK, NEW i \in Ids, rules[i].live, rules' = [rules EXCEPT ![i] = NoRule], nextId' = nextId
  PROVE  Deletes(i)
<1>1. rules \in Rows /\ i \in Live
  BY LiveRows DEF TypeOK, Rows
<1> QED BY <1>1 DEF Deletes, Rows

------------------------------------------------------------------------------
(* What a request does to the table, and to the names it writes. *)
Looks      == Stays /\ touched' = touched /\ named' = named
Adds(x)    == Creates(x) /\ x.count = 0 /\ touched' = touched \cup {x.name} /\ named' = named \cup {x.name}
Edits(i, x) == /\ Writes(i, x) /\ touched' = touched \cup {x.name, rules[i].name}
               /\ x.name \in Names /\ named' \in {named, named \cup {x.name}}
               /\ x.name = rules[i].name \/ x.name \in named'
Drops(i)   == Deletes(i) /\ touched' = touched \cup {rules[i].name} /\ named' = named

(* A handler's record is well formed, and one about to insert starts from  *)
(* no matches.                                                             *)
Ready(h) == /\ h \in HandlerType /\ (h.pc \in {"insert", "write"} => h.rule \in RuleType)
            /\ (h.pc = "insert" => h.rule.count = 0)

LEMMA IdleReady == Ready(IdleHandler)
<1>1. 1 \in Ids /\ 0 \in Nat /\ <<>> \in Seq(Ids)
  BY Constants
<1>2. IdleHandler \in HandlerType /\ IdleHandler.pc = "idle"
  BY <1>1 DEF IdleHandler, HandlerType
<1> QED BY <1>2 DEF Ready

LEMMA HandlerSets ==
  ASSUME TypeOK, CountInv, NEW w \in Writers, NEW h, Ready(h), handler' = [handler EXCEPT ![w] = h]
  PROVE  \A v \in Writers : Ready(handler'[v])
<1>1. handler \in [Writers -> HandlerType] /\ \A v \in Writers : Ready(handler[v])
  BY DEF TypeOK, CountInv, Ready
<1> QED BY <1>1

LEMMA HandlerRecords ==
  ASSUME NEW h \in HandlerType
  PROVE  /\ h.pc \in {"idle", "insert", "write", "next"} /\ h.id \in Ids /\ h.order \in Seq(Ids) /\ h.pos \in Nat
         /\ h.rule \in RuleType \cup {NoRule}
BY DEF HandlerType

LEMMA Counting ==
  ASSUME NEW x \in RuleType, NEW h, x.count = 0, h = [IdleHandler EXCEPT !.pc = "insert", !.rule = x]
  PROVE  Ready(h)
<1>1. IdleHandler \in HandlerType
  BY IdleReady DEF Ready
<1>2. h \in HandlerType /\ h.rule = x
  BY <1>1 DEF HandlerType
<1> QED BY <1>2 DEF Ready

LEMMA Reading ==
  ASSUME NEW x \in RuleType, NEW i \in Ids, NEW h, h = [IdleHandler EXCEPT !.pc = "write", !.id = i, !.rule = x]
  PROVE  Ready(h)
<1>1. IdleHandler \in HandlerType
  BY IdleReady DEF Ready
<1>2. h \in HandlerType /\ h.rule = x /\ h.pc = "write"
  BY <1>1 DEF HandlerType
<1> QED BY <1>2 DEF Ready

LEMMA Ordering ==
  ASSUME NEW o \in Seq(Ids), NEW h, h = [IdleHandler EXCEPT !.pc = "next", !.order = o]
  PROVE  Ready(h)
<1>1. IdleHandler \in HandlerType
  BY IdleReady DEF Ready
<1>2. h \in HandlerType /\ h.pc = "next"
  BY <1>1 DEF HandlerType
<1> QED BY <1>2 DEF Ready

LEMMA Reordering ==
  ASSUME NEW g \in HandlerType, g.pc = "next", g.order # <<>>, NEW x \in RuleType, NEW i \in Ids, NEW h,
         \/ h = [g EXCEPT !.pc = "write", !.id = i, !.rule = x, !.order = Tail(@), !.pos = @ + 1]
         \/ h = [g EXCEPT !.order = Tail(@), !.pos = @ + 1]
  PROVE  Ready(h)
<1>1. PICK o, p : o = Tail(g.order) /\ p = g.pos + 1
  OBVIOUS
<1>2. o \in Seq(Ids) /\ p \in Nat
  BY <1>1, HandlerRecords
<1>3. CASE h = [g EXCEPT !.pc = "write", !.id = i, !.rule = x, !.order = Tail(@), !.pos = @ + 1]
  <2>1. h = [g EXCEPT !.pc = "write", !.id = i, !.rule = x, !.order = o, !.pos = p]
    BY <1>1, <1>3
  <2>2. h \in HandlerType /\ h.rule = x /\ h.pc = "write"
    BY <1>2, <2>1 DEF HandlerType
  <2> QED BY <2>2 DEF Ready
<1>4. CASE h = [g EXCEPT !.order = Tail(@), !.pos = @ + 1]
  <2>1. h = [g EXCEPT !.order = o, !.pos = p]
    BY <1>1, <1>4
  <2>2. h \in HandlerType /\ h.pc = "next"
    BY <1>2, <2>1 DEF HandlerType
  <2> QED BY <2>2 DEF Ready
<1> QED BY <1>3, <1>4

LEMMA RowEdits ==
  ASSUME NEW x \in RuleType, NEW y
  PROVE  /\ \A n \in Names, a \in BOOLEAN : \A c :
               Validate(c) /\ y = [x EXCEPT !.name = n, !.cond = c, !.active = a] => y \in RuleType
         /\ y = [x EXCEPT !.active = ~@] => y \in RuleType
         /\ \A p \in Nat : y = [x EXCEPT !.priority = p] => y \in RuleType
<1>1. \A n \in Names, a \in BOOLEAN : \A c :
               Validate(c) /\ y = [x EXCEPT !.name = n, !.cond = c, !.active = a] => y \in RuleType
  BY DEF RuleType, Validate
<1>2. ASSUME y = [x EXCEPT !.active = ~@]
      PROVE  y \in RuleType
  <2>1. PICK a \in BOOLEAN : a = ~x.active
    OBVIOUS
  <2>2. y = [x EXCEPT !.active = a]
    BY <1>2, <2>1
  <2> QED BY <2>2 DEF RuleType
<1>3. \A p \in Nat : y = [x EXCEPT !.priority = p] => y \in RuleType
  BY DEF RuleType
<1> QED BY <1>1, <1>2, <1>3

LEMMA LiveCounted == ASSUME TypeOK PROVE Cardinality(Live) \in Nat
<1>1. IsFiniteSet(1 .. MaxId)
  BY Constants, FS_Interval
<1>2. Live \subseteq 1 .. MaxId
  BY Constants, LiveRows
<1> QED BY <1>1, <1>2, FS_Subset, FS_CardinalityType

(* Each request, one of these four. *)
Effect == \/ Looks
          \/ \E x \in RuleType : Adds(x)
          \/ \E i \in Ids, x \in RuleType : Edits(i, x)
          \/ \E i \in Ids : Drops(i)

HandlersReady == \A v \in Writers : Ready(handler'[v])

Elsewhere == UNCHANGED <<fileVars, watcher, run, loaded, recorded, excused, faults>>

LEMMA NamesTouched ==
  ASSUME TypeOK, NEW i \in Ids, rules[i].live
  PROVE  rules[i] \in RuleType /\ rules[i].name \in Names /\ i \in Live
BY LiveRows

LEMMA CreateSteps ==
  ASSUME TypeOK, CountInv, NEW w \in Writers, CreateRule(w) \/ InsertCounted(w)
  PROVE  Effect /\ HandlersReady /\ handler' \in [Writers -> HandlerType]
<1>1. handler \in [Writers -> HandlerType] /\ \A v \in Writers : Ready(handler[v])
  BY DEF TypeOK, CountInv, Ready
<1>2. CASE CreateRule(w)
  <2>1. PICK n \in GivenNames, p \in Priorities, c \in {c \in Inputs : Validate(c)}, a \in BOOLEAN :
           CreateRow(Rule(n, p, c, a)) /\ Touch({n}) /\ Name(n)
    BY <1>2 DEF CreateRule
  <2>2. PICK x : x = Rule(n, p, c, a)
    OBVIOUS
  <2>3. x \in RuleType /\ x.name = n /\ x.count = 0
    <3>1. n \in Names /\ p \in Nat
      BY Constants
    <3> QED BY <2>2, <3>1, NewRule
  <2>4. Creates(x)
    BY <2>1, <2>2, <2>3, Creating
  <2>5. Adds(x)
    BY <2>1, <2>3, <2>4 DEF Adds, Touch, Name
  <2>6. handler' = handler
    BY <1>2 DEF CreateRule
  <2> QED BY <1>1, <2>3, <2>5, <2>6 DEF Effect, HandlersReady
<1>3. CASE InsertCounted(w)
  <2>1. PICK x : x = handler[w].rule
    OBVIOUS
  <2>2. x \in RuleType /\ x.count = 0
    BY <1>1, <1>3, <2>1 DEF InsertCounted, Ready
  <2>3. CreateRow(x) /\ Touch({x.name}) /\ Name(x.name) /\ handler' = [handler EXCEPT ![w] = IdleHandler]
    BY <1>3, <2>1 DEF InsertCounted, Answer
  <2>4. Adds(x)
    BY <2>2, <2>3, Creating DEF Adds, Touch, Name
  <2>5. HandlersReady
    BY <2>3, IdleReady, HandlerSets DEF HandlersReady
  <2>6. handler' \in [Writers -> HandlerType]
    BY <1>1, <2>3, IdleReady DEF Ready
  <2> QED BY <2>2, <2>4, <2>5, <2>6 DEF Effect
<1> QED BY <1>2, <1>3

LEMMA RowSteps ==
  ASSUME TypeOK, CountInv, NEW w \in Writers, NEW i \in Ids,
         UpdateRule(w, i) \/ DeleteRule(w, i) \/ ReadForEdit(w, i) \/ ReadForToggle(w, i)
  PROVE  Effect /\ HandlersReady /\ handler' \in [Writers -> HandlerType]
<1>1. handler \in [Writers -> HandlerType] /\ \A v \in Writers : Ready(handler[v])
  BY DEF TypeOK, CountInv, Ready
<1>2. rules[i].live /\ rules[i] \in RuleType /\ rules[i].name \in Names
  BY NamesTouched DEF UpdateRule, DeleteRule, ReadForEdit, ReadForToggle
<1>3. CASE UpdateRule(w, i)
  <2>1. PICK n \in GivenNames, p \in Priorities, c \in {c \in Inputs : Validate(c)}, a \in BOOLEAN :
           UpdateRow(i, Rule(n, p, c, a)) /\ Touch({n, rules[i].name}) /\ Name(n)
    BY <1>3 DEF UpdateRule
  <2>2. PICK x : x = Rule(n, p, c, a)
    OBVIOUS
  <2>3. x \in RuleType /\ x.name = n /\ n \in Names
    <3>1. n \in Names /\ p \in Nat
      BY Constants
    <3> QED BY <2>2, <3>1, NewRule
  <2>4. Writes(i, x)
    BY <1>2, <2>1, <2>2, <2>3, Updating
  <2>5. Edits(i, x)
    BY <2>1, <2>3, <2>4 DEF Edits, Touch, Name
  <2>6. handler' = handler
    BY <1>3 DEF UpdateRule
  <2> QED BY <1>1, <2>3, <2>5, <2>6 DEF Effect, HandlersReady
<1>4. CASE DeleteRule(w, i)
  <2>1. Drops(i) /\ handler' = handler
    BY <1>2, <1>4, Deleting DEF DeleteRule, Drops, Touch
  <2> QED BY <1>1, <2>1 DEF Effect, HandlersReady
<1>5. ASSUME NEW x \in RuleType, Silent,
             handler' = [handler EXCEPT ![w] = [IdleHandler EXCEPT !.pc = "write", !.id = i, !.rule = x]]
      PROVE  Effect /\ HandlersReady /\ handler' \in [Writers -> HandlerType]
  <2>1. PICK h : h = [IdleHandler EXCEPT !.pc = "write", !.id = i, !.rule = x]
    OBVIOUS
  <2>2. Ready(h)
    BY <2>1, Reading
  <2>3. handler' = [handler EXCEPT ![w] = h]
    BY <1>5, <2>1
  <2>4. HandlersReady
    BY <2>2, <2>3, HandlerSets DEF HandlersReady
  <2>5. handler' \in [Writers -> HandlerType]
    BY <1>1, <2>2, <2>3 DEF Ready
  <2>6. Looks
    BY <1>5 DEF Silent, Looks, Stays
  <2> QED BY <2>4, <2>5, <2>6 DEF Effect
<1>6. CASE ReadForEdit(w, i)
  <2>1. PICK n \in GivenNames, c \in {c \in Inputs : Validate(c)}, a \in BOOLEAN :
         handler' = [handler EXCEPT ![w] = [IdleHandler EXCEPT
             !.pc = "write", !.id = i, !.rule = [rules[i] EXCEPT !.name = n, !.cond = c, !.active = a]]]
    BY <1>6 DEF ReadForEdit
  <2>2. PICK y, x : y = rules[i] /\ x = [y EXCEPT !.name = n, !.cond = c, !.active = a]
    OBVIOUS
  <2>3. x \in RuleType
    BY <1>2, <2>2, Constants, RowEdits
  <2> QED BY <1>5, <1>6, <2>1, <2>2, <2>3 DEF ReadForEdit
<1>7. CASE ReadForToggle(w, i)
  <2>1. PICK y, x : y = rules[i] /\ x = [y EXCEPT !.active = ~@]
    OBVIOUS
  <2>2. x \in RuleType
    BY <1>2, <2>1, RowEdits
  <2> QED BY <1>5, <1>7, <2>1, <2>2 DEF ReadForToggle
<1> QED BY <1>3, <1>4, <1>6, <1>7

LEMMA OtherSteps ==
  ASSUME TypeOK, CountInv, NEW w \in Writers,
         CountRules(w) \/ StartReorder(w) \/ ReadForReorder(w) \/ FinishReorder(w) \/ WriteBack(w)
  PROVE  Effect /\ HandlersReady /\ handler' \in [Writers -> HandlerType]
<1>1. handler \in [Writers -> HandlerType] /\ \A v \in Writers : Ready(handler[v])
  BY DEF TypeOK, CountInv, Ready
<1>2. ASSUME NEW h, Ready(h), handler' = [handler EXCEPT ![w] = h]
      PROVE  HandlersReady /\ handler' \in [Writers -> HandlerType]
  <2>1. HandlersReady
    BY <1>2, HandlerSets DEF HandlersReady
  <2> QED BY <1>1, <1>2, <2>1 DEF Ready
<1>3. Silent => Looks
  BY DEF Silent, Looks, Stays
<1>4. CASE CountRules(w)
  <2>1. PICK n \in GivenNames, c \in {c \in Inputs : Validate(c)}, a \in BOOLEAN :
         handler' = [handler EXCEPT ![w] = [IdleHandler EXCEPT
             !.pc = "insert", !.rule = Rule(n, Cardinality(Live), c, a)]]
    BY <1>4 DEF CountRules
  <2>2. PICK k, x, h : /\ k = Cardinality(Live) /\ x = Rule(n, k, c, a)
                       /\ h = [IdleHandler EXCEPT !.pc = "insert", !.rule = x]
    OBVIOUS
  <2>3. x \in RuleType /\ x.count = 0
    <3>1. n \in Names /\ k \in Nat
      BY <2>2, Constants, LiveCounted
    <3> QED BY <2>2, <3>1, NewRule
  <2>4. Ready(h) /\ handler' = [handler EXCEPT ![w] = h]
    BY <2>1, <2>2, <2>3, Counting
  <2> QED BY <1>2, <1>3, <1>4, <2>4 DEF CountRules, Effect
<1>5. CASE StartReorder(w)
  <2>1. PICK order \in [1 .. Cardinality(Live) -> Live] :
         handler' = [handler EXCEPT ![w] = [IdleHandler EXCEPT !.pc = "next", !.order = order]]
    BY <1>5 DEF StartReorder
  <2>2. order \in Seq(Ids)
    <3>1. PICK k \in Nat : k = Cardinality(Live)
      BY LiveCounted
    <3>2. order \in [1 .. k -> Ids]
      BY <3>1, LiveRows
    <3> QED BY <3>2
  <2>3. PICK h : h = [IdleHandler EXCEPT !.pc = "next", !.order = order]
    OBVIOUS
  <2>4. Ready(h) /\ handler' = [handler EXCEPT ![w] = h]
    BY <2>1, <2>2, <2>3, Ordering
  <2> QED BY <1>2, <1>3, <1>5, <2>4 DEF StartReorder, Effect
<1>6. CASE ReadForReorder(w)
  <2>1. PICK g, i : g = handler[w] /\ i = Head(g.order)
    OBVIOUS
  <2>2. g \in HandlerType /\ g.pc = "next" /\ g.order # <<>>
    BY <1>1, <1>6, <2>1 DEF ReadForReorder
  <2>3. i \in Ids
    BY <2>1, <2>2, HandlerRecords
  <2>4. handler' = [handler EXCEPT ![w] =
           IF rules[i].live
           THEN [g EXCEPT !.pc = "write", !.id = i, !.rule = [rules[i] EXCEPT !.priority = g.pos],
                          !.order = Tail(@), !.pos = @ + 1]
           ELSE [g EXCEPT !.order = Tail(@), !.pos = @ + 1]]
    BY <1>6, <2>1 DEF ReadForReorder
  <2>5. CASE rules[i].live
    <3>1. PICK y, p, x, h : /\ y = rules[i] /\ p = g.pos /\ x = [y EXCEPT !.priority = p]
                            /\ h = [g EXCEPT !.pc = "write", !.id = i, !.rule = x, !.order = Tail(@), !.pos = @ + 1]
      OBVIOUS
    <3>2. x \in RuleType
      BY <2>2, <2>3, <2>5, <3>1, NamesTouched, HandlerRecords, RowEdits
    <3>3. Ready(h)
      BY <2>2, <2>3, <3>1, <3>2, Reordering
    <3>4. handler' = [handler EXCEPT ![w] = h]
      BY <2>4, <2>5, <3>1
    <3> QED BY <1>2, <1>3, <1>6, <3>3, <3>4 DEF ReadForReorder, Effect
  <2>6. CASE ~rules[i].live
    <3>1. PICK h : h = [g EXCEPT !.order = Tail(@), !.pos = @ + 1]
      OBVIOUS
    <3>2. Ready(h)
      <4>1. PICK o, p : o = Tail(g.order) /\ p = g.pos + 1
        OBVIOUS
      <4>2. o \in Seq(Ids) /\ p \in Nat
        BY <2>2, <4>1, HandlerRecords
      <4>3. h = [g EXCEPT !.order = o, !.pos = p]
        BY <3>1, <4>1
      <4>4. h \in HandlerType /\ h.pc = "next"
        BY <2>2, <4>2, <4>3 DEF HandlerType
      <4> QED BY <4>4 DEF Ready
    <3>3. handler' = [handler EXCEPT ![w] = h]
      BY <2>4, <2>6, <3>1
    <3> QED BY <1>2, <1>3, <1>6, <3>2, <3>3 DEF ReadForReorder, Effect
  <2> QED BY <2>5, <2>6
<1>7. CASE FinishReorder(w)
  BY <1>2, <1>3, <1>7, IdleReady DEF FinishReorder, Answer, Effect
<1>8. CASE WriteBack(w)
  <2>1. PICK g, i, x : g = handler[w] /\ i = g.id /\ x = g.rule
    OBVIOUS
  <2>2. g \in HandlerType /\ g.pc = "write" /\ i \in Ids /\ x \in RuleType /\ x.name \in Names
    BY <1>1, <1>8, <2>1, HandlerRecords, RowFields DEF WriteBack, Ready
  <2>3. CASE rules[i].live
    <3>1. /\ UpdateRow(i, x) /\ Touch({x.name, rules[i].name})
          /\ IF x.name = rules[i].name THEN UNCHANGED named ELSE Name(x.name)
          /\ handler' = [handler EXCEPT ![w] = IF g.pos = 0 THEN IdleHandler ELSE [g EXCEPT !.pc = "next"]]
      BY <1>8, <2>1, <2>3 DEF WriteBack
    <3>2. Edits(i, x)
      BY <2>2, <2>3, <3>1, Updating DEF Edits, Touch, Name
    <3>3. PICK h : h = IF g.pos = 0 THEN IdleHandler ELSE [g EXCEPT !.pc = "next"]
      OBVIOUS
    <3>4. Ready(h)
      <4>1. CASE g.pos = 0
        BY <3>3, <4>1, IdleReady
      <4>2. CASE g.pos # 0
        <5>1. h = [g EXCEPT !.pc = "next"]
          BY <3>3, <4>2
        <5>2. h \in HandlerType /\ h.pc = "next"
          BY <2>2, <5>1 DEF HandlerType
        <5> QED BY <5>2 DEF Ready
      <4> QED BY <4>1, <4>2
    <3> QED BY <1>2, <2>2, <3>1, <3>2, <3>3, <3>4 DEF Effect
  <2>4. CASE ~rules[i].live
    BY <1>2, <1>3, <1>8, <2>1, <2>4, IdleReady DEF WriteBack, Answer, Effect
  <2> QED BY <2>3, <2>4
<1> QED BY <1>4, <1>5, <1>6, <1>7, <1>8

LEMMA RequestStep ==
  ASSUME TypeOK, CountInv, NEW w \in Writers, Handle(w)
  PROVE  /\ Effect /\ HandlersReady /\ handler' \in [Writers -> HandlerType] /\ Elsewhere
         /\ requests' \in 0 .. MaxRequests
<1>1. Effect /\ HandlersReady /\ handler' \in [Writers -> HandlerType]
  BY CreateSteps, RowSteps, OtherSteps DEF Handle
<1>2. Elsewhere /\ (requests' = requests \/ Request)
  BY DEF Handle, CreateRule, UpdateRule, DeleteRule, CountRules, InsertCounted, ReadForEdit, ReadForToggle,
     StartReorder, ReadForReorder, FinishReorder, WriteBack, HandlerStep, Elsewhere
<1>3. requests' \in 0 .. MaxRequests
  BY <1>2, Constants DEF TypeOK, Request
<1> QED BY <1>1, <1>2, <1>3

------------------------------------------------------------------------------
(* Of the rows with one name, SyncYAML keeps the last one in listing order. *)
LEMMA LeastBound == ASSUME NEW T, T \subseteq Nat, T # {} PROVE \E m \in T : \A k \in T : m <= k
<1>1. IsWellFoundedOn(OpToRel(<, Nat), Nat)
  BY NatLessThanWellFounded
<1>2. PICK m \in T : \A k \in T : <<k, m>> \notin OpToRel(<, Nat)
  BY <1>1, WFMin
<1>3. ASSUME NEW k \in T PROVE m <= k
  <2>1. k \in Nat /\ m \in Nat
    OBVIOUS
  <2>2. ~(k < m)
    BY <1>2, <2>1 DEF OpToRel
  <2> QED BY <2>1, <2>2
<1> QED BY <1>3

LEMMA Listing ==
  ASSUME TypeOK, NEW a \in Live, NEW b \in Live
  PROVE  /\ Before(rules, a, b) \/ Before(rules, b, a)
         /\ Before(rules, a, a)
         /\ \A c \in Live : Before(rules, a, b) /\ Before(rules, b, c) => Before(rules, a, c)
<1>1. \A i \in Live : i \in Nat /\ rules[i].priority \in Nat
  BY LiveRows, RowFields, Constants
<1> QED BY <1>1 DEF Before

LEMMA Latest ==
  ASSUME TypeOK, NEW n \in Names, NEW j \in Live, rules[j].name = n
  PROVE  \E i \in Live : rules[i].name = n /\ \A k \in Live : rules[k].name = n => Before(rules, k, i)
<1> DEFINE L == {i \in Live : rules[i].name = n}
           Last(i, m) == i \in L /\ i <= m /\ \A k \in L : k <= m => Before(rules, k, i)
           Bad == {m \in Nat : (\E i \in L : i <= m) /\ ~\E i \in L : Last(i, m)}
<1>1. L \subseteq Live /\ j \in L /\ \A i \in L : i \in Nat /\ i >= 1 /\ i <= MaxId
  BY LiveRows, Constants
<1>2. Bad = {}
  <2>1. SUFFICES ASSUME Bad # {} PROVE FALSE
    OBVIOUS
  <2>2. PICK m \in Bad : \A k \in Bad : m <= k
    <3>1. Bad \subseteq Nat
      OBVIOUS
    <3> HIDE DEF Bad
    <3> QED BY <2>1, <3>1, LeastBound
  <2>3. m \in Nat /\ (\E i \in L : i <= m) /\ ~\E i \in L : Last(i, m)
    OBVIOUS
  <2>4. PICK p \in Nat : m = p + 1
    <3>1. m # 0
      BY <1>1, <2>3
    <3>2. m - 1 \in Nat /\ m = (m - 1) + 1
      BY <2>3, <3>1
    <3> QED BY <3>2
  <2>5. p \notin Bad
    BY <2>2, <2>4
  <2>6. CASE \E i \in L : i <= p
    <3>1. PICK i \in L : Last(i, p)
      BY <2>4, <2>5, <2>6
    <3>2. i <= p /\ \A k \in L : k <= p => Before(rules, k, i)
      BY <3>1
    <3>3. \A k \in L : k <= m => k <= p \/ k = m
      BY <1>1, <2>3, <2>4
    <3>4. i <= m
      BY <1>1, <2>4, <3>2
    <3>5. CASE m \in L /\ ~Before(rules, m, i)
      <4>1. Before(rules, i, m) /\ Before(rules, m, m)
        BY <1>1, <3>5, Listing
      <4>2. \A k \in L : k <= m => Before(rules, k, m)
        BY <1>1, <3>2, <3>3, <3>5, <4>1, Listing
      <4> QED BY <2>3, <2>4, <3>5, <4>2
    <3>6. CASE m \in L => Before(rules, m, i)
      <4>1. \A k \in L : k <= m => Before(rules, k, i)
        BY <3>2, <3>3, <3>6
      <4> QED BY <2>3, <3>4, <4>1
    <3> QED BY <3>5, <3>6
  <2>7. CASE ~\E i \in L : i <= p
    <3>1. m \in L /\ \A k \in L : k <= m => k = m
      BY <1>1, <2>3, <2>4, <2>7
    <3>2. Before(rules, m, m)
      BY <1>1, <3>1, Listing
    <3> QED BY <2>3, <2>4, <3>1, <3>2
  <2> QED BY <2>6, <2>7
<1>3. PICK i \in L : Last(i, MaxId)
  BY <1>1, <1>2, Constants
<1> QED BY <1>1, <1>3

LEMMA LookedUp ==
  ASSUME TypeOK
  PROVE  /\ ByName \in [Names -> Ids \cup {0}]
         /\ \A n \in Names : ByName[n] # 0 => ByName[n] \in Live /\ rules[ByName[n]].name = n
         /\ \A i \in Live : ByName[rules[i].name] # 0
<1>1. Live \subseteq Ids /\ 0 \notin Ids /\ \A i \in Live : rules[i].name \in Names
  BY LiveRows, Constants
<1>2. ASSUME NEW n \in Names, NEW i \in Live, rules[i].name = n
      PROVE  ByName[n] \in Live /\ rules[ByName[n]].name = n
  <2>1. \E k \in Live : rules[k].name = n /\ \A l \in Live : rules[l].name = n => Before(rules, l, k)
    BY <1>2, Latest
  <2>2. ByName[n] = CHOOSE k \in Live : rules[k].name = n /\ \A l \in Live : rules[l].name = n => Before(rules, l, k)
    BY <1>2 DEF ByName
  <2> QED BY <2>1, <2>2
<1>3. \A n \in Names : (~\E i \in Live : rules[i].name = n) => ByName[n] = 0
  BY DEF ByName
<1>4. \A n \in Names : ByName[n] \in Ids \cup {0}
  BY <1>1, <1>2, <1>3
<1>5. ByName \in [Names -> Ids \cup {0}]
  <2>1. \E g : ByName = [n \in Names |-> g[n]]
    <3>1. ByName = [n \in Names |-> ByName[n]]
      BY DEF ByName
    <3> QED BY <3>1
  <2> QED BY <1>4, <2>1
<1> QED BY <1>1, <1>2, <1>3, <1>5

------------------------------------------------------------------------------
(* The watcher goes on to p and takes everything along. *)
Keeps(p) == /\ watcher' \in WatcherType /\ watcher'.pc = p /\ watcher'.version = watcher.version
            /\ watcher'.byName = watcher.byName /\ watcher'.todo = watcher.todo

WatcherPlaces == {"read", "list", "apply", "open", "wait", "dead"}

LEMMA WatcherFields ==
  ASSUME TypeOK
  PROVE  /\ watcher \in WatcherType /\ watcher.pc \in WatcherPlaces /\ watcher.first \in BOOLEAN
         /\ watcher.version \in Versions /\ watcher.byName \in [Names -> Ids \cup {0}]
         /\ watcher.todo \in Seq(FileRule)
<1>1. watcher \in WatcherType
  BY DEF TypeOK
<1> QED BY <1>1 DEF WatcherType, WatcherPlaces

LEMMA Going == ASSUME TypeOK, NEW p \in WatcherPlaces, Go(p) PROVE Keeps(p)
<1>1. watcher \in WatcherType
  BY DEF TypeOK
<1>2. watcher' \in WatcherType
  BY <1>1 DEF Go, WatcherType, WatcherPlaces
<1>3. /\ watcher'.pc = p /\ watcher'.version = watcher.version
      /\ watcher'.byName = watcher.byName /\ watcher'.todo = watcher.todo
  BY <1>1 DEF Go, WatcherType, WatcherPlaces
<1> QED BY <1>2, <1>3 DEF Keeps

LEMMA LoadEnds == ASSUME TypeOK, LoadDone PROVE Keeps("open") \/ Keeps("wait")
<1>1. CASE watcher.first
  BY <1>1, Going DEF LoadDone, WatcherPlaces
<1>2. CASE ~watcher.first
  BY <1>2, Going DEF LoadDone, WatcherPlaces
<1> QED BY <1>1, <1>2

LEMMA BootingType == Booting \in WatcherType /\ Booting.pc = "read" /\ Booting.version = 0 /\ Booting.todo = <<>>
<1>1. 0 \in Versions
  BY Constants
<1>2. PICK b, e : b = [n \in Names |-> 0] /\ e = <<>>
  OBVIOUS
<1>3. b \in [Names -> Ids \cup {0}] /\ e \in Seq(FileRule)
  BY <1>2
<1>4. Booting = [pc |-> "read", first |-> TRUE, version |-> 0, byName |-> b, todo |-> e]
  BY <1>2 DEF Booting
<1>5. Booting \in WatcherType
  BY <1>1, <1>3, <1>4 DEF WatcherType
<1>6. Booting.pc = "read" /\ Booting.version = 0 /\ Booting.todo = <<>>
  BY DEF Booting
<1> QED BY <1>5, <1>6

(* What the watcher does with a version of the file. *)
Reads == /\ watcher.pc = "read" /\ Stays /\ file \in Versions
         /\ \/ (file = 0 \/ ~Parsed(file)) /\ (Keeps("open") \/ Keeps("wait"))
            \/ /\ file # 0 /\ Parsed(file)
               /\ watcher' \in WatcherType /\ watcher'.pc = "list" /\ watcher'.version = file
Lists == /\ watcher.pc = "list" /\ Stays /\ touched' = {}
         /\ watcher' \in WatcherType /\ watcher'.pc = "apply" /\ watcher'.version = watcher.version
         /\ watcher'.todo = FileRules[watcher.version] /\ watcher'.byName = ByName
Applies(x) == /\ watcher.pc = "apply" /\ touched' = touched
              /\ watcher.todo # <<>> /\ x = Head(watcher.todo) /\ x \in RuleType /\ x \in FileRule
              /\ \/ watcher.byName[x.name] # 0 /\ Writes(watcher.byName[x.name], x)
                 \/ watcher.byName[x.name] = 0 /\ Creates(x)
              /\ watcher' \in WatcherType /\ watcher'.pc = "apply" /\ watcher'.version = watcher.version
              /\ watcher'.todo = Tail(watcher.todo) /\ watcher'.byName = watcher.byName

LEMMA ReadStep == ASSUME TypeOK, ReadFile PROVE Reads
<1>1. file \in Versions /\ watcher \in WatcherType /\ watcher.pc = "read" /\ Stays
  BY DEF TypeOK, ReadFile, Stays
<1>2. CASE file > 0 /\ Parsed(file)
  <2>1. watcher' = [watcher EXCEPT !.pc = "list", !.version = file]
    BY <1>2 DEF ReadFile
  <2>2. watcher' \in WatcherType /\ watcher'.pc = "list" /\ watcher'.version = file
    BY <1>1, <2>1 DEF WatcherType
  <2>3. file # 0
    BY <1>2
  <2> QED BY <1>1, <1>2, <2>2, <2>3 DEF Reads
<1>3. CASE ~(file > 0 /\ Parsed(file))
  <2>1. Keeps("open") \/ Keeps("wait")
    BY <1>3, LoadEnds DEF ReadFile
  <2>2. file = 0 \/ ~Parsed(file)
    BY <1>1, <1>3, Constants
  <2> QED BY <1>1, <2>1, <2>2 DEF Reads
<1> QED BY <1>2, <1>3

LEMMA ListStep == ASSUME TypeOK, VersionInv, ListRules PROVE Lists
<1>1. watcher \in WatcherType /\ watcher.pc = "list" /\ Stays /\ touched' = {}
  BY DEF TypeOK, ListRules, Stays
<1>2. PICK s, b : s = FileRules[watcher.version] /\ b = ByName
  OBVIOUS
<1>3. watcher.version \in 1 .. Len(FileRules)
  BY <1>1, WatcherFields, Constants DEF VersionInv
<1>4. s \in Seq(FileRule) /\ b \in [Names -> Ids \cup {0}]
  BY <1>2, <1>3, Constants, LookedUp
<1>5. watcher' = [watcher EXCEPT !.pc = "apply", !.todo = s, !.byName = b]
  BY <1>2 DEF ListRules
<1>6. watcher' \in WatcherType
  BY <1>1, <1>4, <1>5 DEF WatcherType
<1>7. watcher'.pc = "apply" /\ watcher'.version = watcher.version /\ watcher'.todo = s /\ watcher'.byName = b
  BY <1>1, <1>5 DEF WatcherType
<1> QED BY <1>1, <1>2, <1>6, <1>7 DEF Lists

LEMMA Todo ==
  ASSUME TypeOK, VersionInv, TodoInv, watcher.pc = "apply", watcher.todo # <<>>
  PROVE  /\ Head(watcher.todo) \in RuleType /\ Head(watcher.todo) \in FileRule
         /\ Head(watcher.todo) = FileRules[watcher.version][Len(FileRules[watcher.version]) - Len(watcher.todo) + 1]
         /\ Len(FileRules[watcher.version]) - Len(watcher.todo) + 1 \in DOMAIN FileRules[watcher.version]
         /\ watcher.version \in 1 .. Len(FileRules)
<1>1. watcher.version \in 1 .. Len(FileRules) /\ Parsed(watcher.version)
  BY WatcherFields, Constants DEF VersionInv
<1>2. PICK F, s, l, n : F = FileRules[watcher.version] /\ s = watcher.todo /\ l = Len(s) /\ n = Len(F)
  OBVIOUS
<1>3. F \in Seq(FileRule) /\ s \in Seq(FileRule) /\ s # <<>>
  BY <1>1, <1>2, Constants, WatcherFields
<1>4. l \in Nat /\ n \in Nat /\ l # 0 /\ DOMAIN F = 1 .. n /\ Head(s) = s[1] /\ Head(s) \in FileRule
  BY <1>2, <1>3
<1>5. l <= n /\ \A j \in 1 .. l : s[j] = F[j + n - l]
  BY <1>2 DEF TodoInv
<1>6. s[1] = F[1 + n - l]
  BY <1>4, <1>5
<1>7. 1 + n - l = n - l + 1 /\ n - l + 1 \in 1 .. n
  BY <1>4, <1>5
<1>8. Head(s) = F[n - l + 1]
  BY <1>4, <1>6, <1>7
<1>9. \A j \in 1 .. n : Validate(F[j].cond)
  BY <1>1, <1>2 DEF Parsed
<1>10. Head(s) \in RuleType
  BY <1>4, <1>7, <1>8, <1>9, FileRows
<1> QED BY <1>1, <1>2, <1>4, <1>7, <1>8, <1>10

LEMMA ApplyStep == ASSUME TypeOK, VersionInv, TodoInv, ApplyRule PROVE \E x : Applies(x)
<1>1. watcher \in WatcherType /\ watcher.pc = "apply" /\ watcher.todo # <<>> /\ touched' = touched
  BY DEF TypeOK, ApplyRule
<1>2. PICK x, i, s : x = Head(watcher.todo) /\ i = watcher.byName[x.name] /\ s = Tail(watcher.todo)
  OBVIOUS
<1>3. x \in RuleType /\ x \in FileRule /\ x.name \in Names
  BY <1>1, <1>2, Todo, RowFields
<1>4. i \in Ids \cup {0} /\ s \in Seq(FileRule)
  BY <1>1, <1>2, <1>3, WatcherFields
<1>5. IF i # 0 THEN rules[i].live /\ UpdateRow(i, x) ELSE CreateRow(x)
  BY <1>2 DEF ApplyRule
<1>6. (i # 0 /\ Writes(i, x)) \/ (i = 0 /\ Creates(x))
  BY <1>3, <1>4, <1>5, Updating, Creating
<1>7. watcher' = [watcher EXCEPT !.todo = s]
  BY <1>2 DEF ApplyRule
<1>8. watcher' \in WatcherType
  BY <1>1, <1>4, <1>7 DEF WatcherType
<1>9. watcher'.pc = "apply" /\ watcher'.version = watcher.version /\ watcher'.todo = s
      /\ watcher'.byName = watcher.byName
  BY <1>1, <1>7 DEF WatcherType
<1> QED BY <1>1, <1>2, <1>3, <1>6, <1>8, <1>9 DEF Applies

------------------------------------------------------------------------------
(* A sync run knows nothing of ids no row has got yet. *)
Fresh(s) == \A i \in Ids : i >= nextId => s.counts[i] = 0 /\ ~s.table[i].live

LEMMA RunFields ==
  ASSUME NEW s \in RunType
  PROVE  /\ s.table \in [Ids -> RuleType \cup {NoRule}] /\ s.counts \in [Ids -> Nat]
         /\ s.todo \in SUBSET Messages /\ s.pc \in {"idle", "match"}
BY DEF RunType

LEMMA IdleRunType == IdleRun \in RunType /\ Fresh(IdleRun)
<1>1. PICK t, e, c : t = [i \in Ids |-> NoRule] /\ e = {} /\ c = [i \in Ids |-> 0]
  OBVIOUS
<1>2. t \in [Ids -> RuleType \cup {NoRule}] /\ e \in SUBSET Messages /\ c \in [Ids -> Nat]
  BY <1>1
<1>3. IdleRun = [pc |-> "idle", table |-> t, todo |-> e, counts |-> c]
  BY <1>1 DEF IdleRun
<1>4. IdleRun \in RunType
  BY <1>2, <1>3 DEF RunType
<1>5. \A i \in Ids : IdleRun.counts[i] = 0 /\ IdleRun.table[i] = NoRule
  BY <1>1, <1>3
<1> QED BY <1>4, <1>5, RowFields DEF Fresh

(* What becomes of the runs, and of the numbers of matches. *)
RunsReady == run' \in [Runs -> RunType] /\ \A r \in Runs : Fresh(run'[r])
Counts == /\ nextId' = nextId /\ rules' \in Rows
          /\ \A i \in Ids : rules'[i] \in RuleType <=> i \in Live
          /\ \A i \in Live : rules'[i] \in RuleType /\ Same(rules'[i], rules[i])
          /\ \A i \in Ids \ Live : rules'[i] = rules[i]
          /\ recorded' \in [Ids -> Nat]
          /\ \A i \in Live : rules'[i].count = recorded'[i]
          /\ \A i \in Ids : i >= nextId => recorded'[i] = 0

LEMMA RunSets ==
  ASSUME TypeOK, CountInv, NEW r \in Runs, NEW s \in RunType, Fresh(s), run' = [run EXCEPT ![r] = s]
  PROVE  RunsReady
<1>1. run \in [Runs -> RunType] /\ \A q \in Runs : Fresh(run[q])
  BY DEF TypeOK, CountInv, Fresh
<1> QED BY <1>1 DEF RunsReady

LEMMA StartStep == ASSUME TypeOK, CountInv, NEW r \in Runs, StartRun(r) PROVE RunsReady
<1>1. PICK t, e : t = [i \in Ids |-> IF i \in Active THEN rules[i] ELSE NoRule] /\ e = Messages
  OBVIOUS
<1>2. t \in [Ids -> RuleType \cup {NoRule}] /\ e \in SUBSET Messages
  BY <1>1, LiveRows
<1>3. PICK s : s = [IdleRun EXCEPT !.pc = "match", !.table = t, !.todo = e]
  OBVIOUS
<1>4. s \in RunType /\ s.table = t /\ s.counts = IdleRun.counts
  BY <1>2, <1>3, IdleRunType DEF RunType
<1>5. \A i \in Ids : i >= nextId => i \notin Live
  BY LiveRows, Constants DEF TypeOK
<1>6. \A i \in Ids : i >= nextId => t[i] = NoRule
  BY <1>1, <1>5 DEF Active
<1>7. Fresh(s)
  BY <1>4, <1>6, IdleRunType, RowFields DEF Fresh
<1>8. run' = [run EXCEPT ![r] = s]
  BY <1>1, <1>3 DEF StartRun
<1> QED BY <1>4, <1>7, <1>8, RunSets

LEMMA MatchStep == ASSUME TypeOK, CountInv, NEW r \in Runs, NEW m \in Messages, MatchOne(r, m) PROVE RunsReady
<1>1. PICK g, F : g = run[r] /\ F = FirstMatch(g.table, m)
  OBVIOUS
<1>2. g \in RunType /\ Fresh(g)
  BY <1>1 DEF TypeOK, CountInv, Fresh
<1>3. PICK e, c : e = g.todo \ {m} /\ c = [k \in Ids |-> IF k \in F THEN g.counts[k] + 1 ELSE g.counts[k]]
  OBVIOUS
<1>4. e \in SUBSET Messages /\ c \in [Ids -> Nat]
  BY <1>2, <1>3, RunFields
<1>5. PICK s : s = [g EXCEPT !.todo = e, !.counts = c]
  OBVIOUS
<1>6. s \in RunType /\ s.table = g.table /\ s.counts = c
  BY <1>2, <1>4, <1>5 DEF RunType
<1>7. \A i \in F : g.table[i].live
  BY <1>1 DEF FirstMatch
<1>8. Fresh(s)
  BY <1>2, <1>3, <1>6, <1>7 DEF Fresh
<1>9. run' = [run EXCEPT ![r] = s]
  <2>1. run \in [Runs -> RunType]
    BY DEF TypeOK
  <2>2. run' = [run EXCEPT ![r].todo = @ \ {m},
                          ![r].counts = [k \in Ids |-> IF k \in F THEN @[k] + 1 ELSE @[k]]]
    BY <1>1 DEF MatchOne
  <2>3. run' = [run EXCEPT ![r] = [g EXCEPT !.todo = g.todo \ {m},
                  !.counts = [k \in Ids |-> IF k \in F THEN g.counts[k] + 1 ELSE g.counts[k]]]]
    BY <1>1, <1>2, <2>1, <2>2 DEF RunType
  <2> QED BY <1>3, <1>5, <2>3
<1> QED BY <1>6, <1>8, <1>9, RunSets

LEMMA RecordStep == ASSUME TypeOK, CountInv, NEW r \in Runs, RecordMatches(r) PROVE RunsReady /\ Counts
<1>1. PICK n : n = run[r].counts
  OBVIOUS
<1>2. n \in [Ids -> Nat] /\ \A i \in Ids : i >= nextId => n[i] = 0
  BY <1>1, RunFields DEF TypeOK, CountInv
<1>3. recorded \in [Ids -> Nat] /\ \A i \in Ids : i >= nextId => recorded[i] = 0
  BY DEF TypeOK, CountInv
<1>4. recorded' = [i \in Ids |-> recorded[i] + n[i]]
  BY <1>1 DEF RecordMatches
<1>5. recorded' \in [Ids -> Nat] /\ \A i \in Ids : i >= nextId => recorded'[i] = 0
  BY <1>2, <1>3, <1>4
<1>6. rules' = [i \in Ids |-> IF rules[i].live THEN [rules[i] EXCEPT !.count = @ + n[i]] ELSE rules[i]]
  BY <1>1 DEF RecordMatches
<1>7. ASSUME NEW i \in Live
      PROVE  rules'[i] \in RuleType /\ Same(rules'[i], rules[i]) /\ rules'[i].count = recorded'[i]
  <2>1. PICK x, k : x = rules[i] /\ k = x.count + n[i]
    OBVIOUS
  <2>2. i \in Ids /\ rules[i].live /\ x \in RuleType
    BY <2>1, LiveRows
  <2>3. k \in 0 .. MaxCount
    <3>1. k <= MaxCount
      BY <1>1, <2>1 DEF RecordMatches
    <3> QED BY <1>2, <2>1, <2>2, <3>1, RowFields, Constants
  <2>4. PICK y : y = [x EXCEPT !.count = k]
    OBVIOUS
  <2>5. y \in RuleType /\ y.count = k /\ Same(y, x)
    BY <2>2, <2>3, <2>4, Counted
  <2>6. rules'[i] = y
    BY <1>6, <2>1, <2>2, <2>4
  <2>7. x.count = recorded[i]
    BY <2>1 DEF CountInv, CountsExact
  <2>8. recorded'[i] = recorded[i] + n[i]
    BY <1>4, <2>2
  <2> QED BY <2>1, <2>5, <2>6, <2>7, <2>8
<1>8. \A i \in Ids \ Live : rules'[i] = rules[i] /\ rules'[i] = NoRule
  BY <1>6, LiveRows
<1>9. rules' \in Rows
  <2>1. \A i \in Ids : rules'[i] \in RuleType \cup {NoRule}
    BY <1>7, <1>8
  <2>2. \E f : rules' = [i \in Ids |-> f[i]]
    <3>1. rules' = [i \in Ids |-> rules'[i]]
      BY <1>6
    <3> QED BY <3>1
  <2> QED BY <2>1, <2>2 DEF Rows
<1>10. NoRule \notin RuleType
  BY RowFields
<1>11. Counts
  BY <1>5, <1>7, <1>8, <1>9, <1>10, LiveRows DEF Counts, RecordMatches, RunStep
<1>12. RunsReady
  BY IdleRunType, RunSets DEF RecordMatches
<1> QED BY <1>11, <1>12

LEMMA SyncStep ==
  ASSUME TypeOK, CountInv, NEW r \in Runs, Sync(r)
  PROVE  /\ RunsReady /\ faults' \in 0 .. MaxFaults /\ RunStep
         /\ Counts \/ (rules' = rules /\ recorded' = recorded)
<1>1. RunsReady /\ (Counts \/ (rules' = rules /\ recorded' = recorded))
  <2>1. CASE StartRun(r)
    BY <2>1, StartStep DEF StartRun
  <2>2. CASE RecordMatches(r)
    BY <2>2, RecordStep
  <2>3. CASE RecordFails(r)
    BY <2>3, IdleRunType, RunSets DEF RecordFails
  <2>4. CASE \E m \in Messages : MatchOne(r, m)
    BY <2>4, MatchStep DEF MatchOne
  <2> QED BY <2>1, <2>2, <2>3, <2>4 DEF Sync
<1>2. RunStep /\ (faults' = faults \/ Fault)
  BY DEF Sync, StartRun, RecordMatches, RecordFails, MatchOne
<1>3. faults' \in 0 .. MaxFaults
  BY <1>2, Constants DEF TypeOK, Fault
<1> QED BY <1>1, <1>2, <1>3

------------------------------------------------------------------------------
(* The table after any step. *)
Sound == rules' \in Rows /\ nextId' \in 1 .. MaxId + 1 /\ \A i \in Ids : rules'[i].live => i < nextId'

Turns == \/ Stays \/ Counts
         \/ \E x \in RuleType : Creates(x)
         \/ \E i \in Ids, x \in RuleType : Writes(i, x)
         \/ \E i \in Ids : Deletes(i)

LEMMA Tables == ASSUME TypeOK, Turns PROVE Sound
<1>1. /\ rules \in Rows /\ nextId \in 1 .. MaxId + 1 /\ MaxId \in Nat /\ Ids = 1 .. MaxId
      /\ \A i \in Ids : rules[i].live => i < nextId
  BY Constants, LiveRows DEF TypeOK, Rows
<1>2. CASE Stays
  BY <1>1, <1>2 DEF Stays, Sound
<1>3. CASE Counts
  BY <1>1, <1>3, LiveRows DEF Counts, Sound
<1>4. ASSUME NEW x \in RuleType, Creates(x) PROVE Sound
  BY <1>1, <1>4 DEF Creates, Sound
<1>5. ASSUME NEW i \in Ids, NEW x \in RuleType, Writes(i, x) PROVE Sound
  BY <1>1, <1>5, LiveRows DEF Writes, Sound
<1>6. ASSUME NEW i \in Ids, Deletes(i) PROVE Sound
  BY <1>1, <1>6, RowFields DEF Deletes, Sound
<1> QED BY <1>2, <1>3, <1>4, <1>5, <1>6 DEF Turns

LEMMA TypeFrom ==
  ASSUME Sound, file' \in Versions, loaded' \in Versions, watcher' \in WatcherType,
         event' \in BOOLEAN, timer' \in BOOLEAN, signal' \in BOOLEAN,
         handler' \in [Writers -> HandlerType], HandlersReady, run' \in [Runs -> RunType],
         touched' \subseteq Names, named' \subseteq Names, excused' \subseteq Versions,
         recorded' \in [Ids -> Nat], requests' \in 0 .. MaxRequests, faults' \in 0 .. MaxFaults
  PROVE  TypeOK'
<1>1. \A w \in Writers : handler'[w].pc \in {"insert", "write"} => handler'[w].rule \in RuleType
  BY DEF HandlersReady, Ready
<1>2. rules' \in [Ids -> RuleType \cup {NoRule}] /\ nextId' \in 1 .. MaxId + 1
      /\ \A i \in Ids : rules'[i].live => i < nextId'
  BY DEF Sound, Rows
<1> QED BY <1>1, <1>2 DEF TypeOK, Live

LEMMA Effects ==
  ASSUME TypeOK, Effect
  PROVE  Turns /\ touched' \subseteq Names /\ named' \subseteq Names
<1>1. touched \subseteq Names /\ named \subseteq Names
  BY DEF TypeOK
<1>2. CASE Looks
  BY <1>1, <1>2 DEF Looks, Turns
<1>3. ASSUME NEW x \in RuleType, Adds(x)
      PROVE  Turns /\ touched' \subseteq Names /\ named' \subseteq Names
  BY <1>1, <1>3, RowFields DEF Adds, Turns
<1>4. ASSUME NEW i \in Ids, NEW x \in RuleType, Edits(i, x)
      PROVE  Turns /\ touched' \subseteq Names /\ named' \subseteq Names
  <2>1. rules[i].name \in Names
    BY <1>4, LiveRows DEF Edits, Writes
  <2>2. Turns
    BY <1>4 DEF Edits, Turns
  <2> QED BY <1>1, <1>4, <2>1, <2>2 DEF Edits
<1>5. ASSUME NEW i \in Ids, Drops(i)
      PROVE  Turns /\ touched' \subseteq Names /\ named' \subseteq Names
  <2>1. rules[i].name \in Names
    BY <1>5, LiveRows DEF Drops, Deletes
  <2>2. Turns
    BY <1>5 DEF Drops, Turns
  <2> QED BY <1>1, <1>5, <2>1, <2>2 DEF Drops
<1> QED BY <1>2, <1>3, <1>4, <1>5 DEF Effect

LEMMA ReadyNow == ASSUME TypeOK, CountInv PROVE \A w \in Writers : Ready(handler[w])
BY DEF TypeOK, CountInv, Ready

(* What becomes of everything else when the watcher, a crash or the user   *)
(* takes a step.                                                           *)
Aside == handler' = handler /\ requests' = requests /\ run' = run /\ named' = named /\ recorded' = recorded

LEMMA WatchAside ==
  ASSUME TypeOK, Watch \/ ApplyFails \/ WatchFails \/ Save
  PROVE  Aside /\ (ListRules \/ touched' = touched) /\ (ApplyRule \/ Stays) /\ faults' \in 0 .. MaxFaults
<1>1. Aside
  BY DEF Watch, ReadFile, ListRules, ApplyRule, ApplyToDeleted, FinishLoad, AddWatch, TakeEvent, TimerFires,
         Reload, ApplyFails, AbortLoad, WatchFails, Save, WatcherStep, Aside, historyVars
<1>2. (ListRules \/ touched' = touched) /\ (ApplyRule \/ Stays)
  BY DEF Watch, ReadFile, ListRules, ApplyRule, ApplyToDeleted, FinishLoad, AddWatch, TakeEvent, TimerFires,
         Reload, ApplyFails, AbortLoad, WatchFails, Save, WatcherStep, Stays, historyVars
<1>3. faults' = faults \/ Fault
  BY DEF Watch, ReadFile, ListRules, ApplyRule, ApplyToDeleted, FinishLoad, AddWatch, TakeEvent, TimerFires,
         Reload, ApplyFails, AbortLoad, WatchFails, Save
<1>4. faults' \in 0 .. MaxFaults
  BY <1>3, Constants DEF TypeOK, Fault
<1> QED BY <1>1, <1>2, <1>4

(* The watcher's steps one by one. *)
WatcherMoves ==
  \/ Reads /\ UNCHANGED <<fileVars, loaded, excused>>
  \/ Lists /\ UNCHANGED <<fileVars, loaded, excused>>
  \/ (\E x : Applies(x)) /\ UNCHANGED <<fileVars, loaded, excused>>
  \/ /\ watcher.pc = "apply" /\ (Keeps("open") \/ Keeps("wait"))
     /\ excused' = excused \cup {watcher.version} /\ UNCHANGED <<fileVars, loaded>>
  \/ /\ watcher.pc = "apply" /\ watcher.todo = <<>> /\ (Keeps("open") \/ Keeps("wait"))
     /\ loaded' = watcher.version /\ UNCHANGED <<fileVars, excused>>
  \/ watcher.pc = "open" /\ Keeps("wait") /\ UNCHANGED <<fileVars, loaded, excused>>
  \/ watcher.pc = "open" /\ Keeps("dead") /\ excused' = Versions /\ UNCHANGED <<fileVars, loaded>>
  \/ /\ watcher.pc = "wait" /\ watcher' = watcher /\ event' = FALSE /\ timer' = TRUE
     /\ UNCHANGED <<file, signal, loaded, excused>>
  \/ watcher' = watcher /\ timer' = FALSE /\ signal' = TRUE /\ UNCHANGED <<file, event, loaded, excused>>
  \/ /\ watcher.pc = "wait" /\ Keeps("read") /\ signal' = FALSE
     /\ UNCHANGED <<file, event, timer, loaded, excused>>

LEMMA WatchStep ==
  ASSUME TypeOK, VersionInv, TodoInv, Watch \/ ApplyFails \/ WatchFails
  PROVE  WatcherMoves
<1>1. CASE ReadFile
  BY <1>1, ReadStep DEF ReadFile, WatcherMoves
<1>2. CASE ListRules
  BY <1>2, ListStep DEF ListRules, WatcherMoves
<1>3. CASE ApplyRule
  BY <1>3, ApplyStep DEF ApplyRule, WatcherMoves
<1>4. CASE ApplyToDeleted \/ ApplyFails
  BY <1>4, LoadEnds DEF ApplyToDeleted, ApplyFails, AbortLoad, WatcherMoves
<1>5. CASE FinishLoad
  BY <1>5, LoadEnds DEF FinishLoad, WatcherMoves
<1>6. CASE AddWatch
  <2>1. watcher \in WatcherType
    BY DEF TypeOK
  <2>2. watcher' = [watcher EXCEPT !.pc = "wait", !.first = FALSE]
    BY <1>6 DEF AddWatch
  <2>3. watcher' \in WatcherType
    BY <2>1, <2>2 DEF WatcherType
  <2>4. Keeps("wait")
    BY <2>1, <2>2, <2>3 DEF Keeps, WatcherType
  <2> QED BY <1>6, <2>4 DEF AddWatch, WatcherMoves
<1>7. CASE WatchFails
  BY <1>7, Going DEF WatchFails, WatcherMoves, WatcherPlaces
<1>8. CASE TakeEvent
  BY <1>8 DEF TakeEvent, WatcherMoves
<1>9. CASE TimerFires
  BY <1>9 DEF TimerFires, WatcherMoves
<1>10. CASE Reload
  BY <1>10, Going DEF Reload, WatcherMoves, WatcherPlaces
<1> QED BY <1>1, <1>2, <1>3, <1>4, <1>5, <1>6, <1>7, <1>8, <1>9, <1>10 DEF Watch

Watching == Watch \/ ApplyFails \/ WatchFails

LEMMA NextCases ==
  ASSUME [Next]_vars
  PROVE  \/ Watching \/ Save \/ Restart
         \/ \E w \in Writers : Handle(w)
         \/ \E r \in Runs : Sync(r)
         \/ UNCHANGED vars
BY DEF Next, Failure, Watching

LEMMA WatcherTyped ==
  ASSUME TypeOK, WatcherMoves
  PROVE  /\ watcher' \in WatcherType /\ event' \in BOOLEAN /\ timer' \in BOOLEAN /\ signal' \in BOOLEAN
         /\ file' = file /\ loaded' \in Versions /\ excused' \subseteq Versions
<1>1. /\ watcher \in WatcherType /\ watcher.version \in Versions /\ event \in BOOLEAN /\ timer \in BOOLEAN
      /\ signal \in BOOLEAN /\ loaded \in Versions /\ excused \subseteq Versions
  BY WatcherFields DEF TypeOK
<1>2. watcher' \in WatcherType
  BY <1>1 DEF WatcherMoves, Reads, Lists, Applies, Keeps
<1>3. event' \in BOOLEAN /\ timer' \in BOOLEAN /\ signal' \in BOOLEAN /\ file' = file
  BY <1>1 DEF WatcherMoves, fileVars
<1>4. loaded' \in Versions /\ excused' \subseteq Versions
  BY <1>1 DEF WatcherMoves
<1> QED BY <1>2, <1>3, <1>4

LEMMA TypeStep ==
  ASSUME TypeOK, CountInv, VersionInv, TodoInv, [Next]_vars
  PROVE  TypeOK'
<1>1. /\ file \in Versions /\ loaded \in Versions /\ watcher \in WatcherType /\ event \in BOOLEAN /\ timer \in BOOLEAN
      /\ signal \in BOOLEAN /\ handler \in [Writers -> HandlerType] /\ run \in [Runs -> RunType]
      /\ touched \subseteq Names /\ named \subseteq Names /\ excused \subseteq Versions /\ recorded \in [Ids -> Nat]
      /\ requests \in 0 .. MaxRequests /\ faults \in 0 .. MaxFaults
  BY DEF TypeOK
<1>2. handler' = handler => HandlersReady
  BY ReadyNow DEF HandlersReady
<1>3. CASE Watching
  <2>1. WatcherMoves
    BY <1>3, WatchStep DEF Watching
  <2>2. Aside /\ (ListRules \/ touched' = touched) /\ (ApplyRule \/ Stays) /\ faults' \in 0 .. MaxFaults
    BY <1>3, WatchAside DEF Watching
  <2>3. touched' \subseteq Names
    BY <1>1, <2>2 DEF ListRules
  <2>4. Turns
    <3>1. CASE ApplyRule
      <4>1. PICK x : Applies(x)
        BY <3>1, ApplyStep
      <4>2. watcher.byName[x.name] \in Ids \cup {0}
        BY <4>1, WatcherFields, RowFields DEF Applies
      <4> QED BY <4>1, <4>2 DEF Applies, Turns
    <3> QED BY <2>2, <3>1 DEF Turns
  <2>5. Sound
    BY <2>4, Tables
  <2>6. /\ watcher' \in WatcherType /\ event' \in BOOLEAN /\ timer' \in BOOLEAN /\ signal' \in BOOLEAN
        /\ file' = file /\ loaded' \in Versions /\ excused' \subseteq Versions
    BY <2>1, WatcherTyped
  <2> QED BY <1>1, <1>2, <2>2, <2>3, <2>5, <2>6, TypeFrom DEF Aside
<1>4. CASE Save
  <2>1. Aside /\ touched' = touched /\ Stays /\ faults' \in 0 .. MaxFaults
    BY <1>4, WatchAside DEF Save, Stays, historyVars
  <2>2. Sound
    BY <2>1, Tables DEF Turns
  <2>3. file' \in Versions /\ file + 1 \in Versions
    BY <1>1, <1>4, Constants DEF Save
  <2>4. /\ event' \in BOOLEAN /\ excused' \subseteq Versions /\ loaded' = loaded /\ watcher' = watcher
        /\ timer' = timer /\ signal' = signal
    BY <1>1, <1>4, <2>3 DEF Save
  <2> QED BY <1>1, <1>2, <2>1, <2>2, <2>3, <2>4, TypeFrom DEF Aside
<1>5. CASE Restart
  <2>1. Sound
    BY <1>5, Tables DEF Restart, Turns, Stays
  <2>2. handler' \in [Writers -> HandlerType] /\ HandlersReady
    BY <1>5, IdleReady DEF Restart, HandlersReady, Ready
  <2>3. run' \in [Runs -> RunType]
    BY <1>5, IdleRunType DEF Restart
  <2>4. faults' \in 0 .. MaxFaults
    BY <1>1, <1>5, Constants DEF Restart, Fault
  <2>5. /\ watcher' \in WatcherType /\ event' \in BOOLEAN /\ timer' \in BOOLEAN /\ signal' \in BOOLEAN
        /\ file' = file /\ loaded' = loaded /\ excused' \subseteq Versions
    BY <1>5, BootingType DEF Restart
  <2>6. touched' = touched /\ named' = named /\ recorded' = recorded /\ requests' = requests
    BY <1>5 DEF Restart, historyVars
  <2> QED BY <1>1, <2>1, <2>2, <2>3, <2>4, <2>5, <2>6, TypeFrom
<1>6. ASSUME NEW w \in Writers, Handle(w) PROVE TypeOK'
  <2>1. /\ Effect /\ HandlersReady /\ handler' \in [Writers -> HandlerType] /\ Elsewhere
        /\ requests' \in 0 .. MaxRequests
    BY <1>6, RequestStep
  <2>2. Sound /\ touched' \subseteq Names /\ named' \subseteq Names
    BY <2>1, Effects, Tables
  <2> QED BY <1>1, <2>1, <2>2, TypeFrom DEF Elsewhere, fileVars
<1>7. ASSUME NEW r \in Runs, Sync(r) PROVE TypeOK'
  <2>1. /\ RunsReady /\ faults' \in 0 .. MaxFaults /\ RunStep
        /\ Counts \/ (rules' = rules /\ recorded' = recorded)
    BY <1>7, SyncStep
  <2>2. Turns /\ recorded' \in [Ids -> Nat]
    BY <1>1, <2>1 DEF Turns, Counts, Stays, RunStep
  <2>3. Sound
    BY <2>2, Tables
  <2>4. /\ file' = file /\ loaded' = loaded /\ watcher' = watcher /\ event' = event /\ timer' = timer
        /\ signal' = signal /\ handler' = handler /\ touched' = touched /\ named' = named /\ excused' = excused
        /\ requests' = requests
    BY <2>1 DEF RunStep, fileVars
  <2> QED BY <1>1, <1>2, <2>1, <2>2, <2>3, <2>4, TypeFrom DEF RunsReady
<1>8. CASE UNCHANGED vars
  <2>1. Sound
    BY <1>8, Tables DEF Turns, Stays, vars
  <2>2. /\ file' = file /\ loaded' = loaded /\ watcher' = watcher /\ event' = event /\ timer' = timer
        /\ signal' = signal /\ handler' = handler /\ touched' = touched /\ named' = named /\ excused' = excused
        /\ requests' = requests /\ run' = run /\ recorded' = recorded /\ faults' = faults
    BY <1>8 DEF vars, fileVars, historyVars
  <2> QED BY <1>1, <1>2, <2>1, <2>2, TypeFrom
<1> QED BY <1>3, <1>4, <1>5, <1>6, <1>7, <1>8, NextCases

------------------------------------------------------------------------------
(* Match counts. *)
Quiet == recorded' = recorded /\ \/ Stays
                                 \/ \E x \in RuleType : x.count = 0 /\ Creates(x)
                                 \/ \E i \in Ids, x \in RuleType : Writes(i, x)
                                 \/ \E i \in Ids : Deletes(i)

LEMMA CountFrom ==
  ASSUME TypeOK, CountInv, Quiet \/ Counts, HandlersReady, \A r \in Runs : Fresh(run'[r])
  PROVE  CountInv'
<1>1. /\ Ids = 1 .. MaxId /\ MaxId \in Nat /\ nextId \in 1 .. MaxId + 1
      /\ \A i \in Live : i \in Ids /\ i < nextId /\ rules[i].count = recorded[i]
      /\ \A i \in Ids : i >= nextId => recorded[i] = 0
  BY LiveRows, Constants DEF TypeOK, CountInv, CountsExact
<1>2. /\ nextId' \in {nextId, nextId + 1}
      /\ \A i \in Ids : i >= nextId' => recorded'[i] = 0
      /\ \A i \in Ids : rules'[i].live => rules'[i].count = recorded'[i]
  <2>1. CASE Counts
    BY <1>1, <2>1, LiveRows DEF Counts
  <2>2. CASE recorded' = recorded /\ Stays
    BY <1>1, <2>2, LiveRows DEF Stays
  <2>3. ASSUME recorded' = recorded, NEW x \in RuleType, x.count = 0, Creates(x)
        PROVE  /\ nextId' \in {nextId, nextId + 1}
               /\ \A i \in Ids : i >= nextId' => recorded'[i] = 0
               /\ \A i \in Ids : rules'[i].live => rules'[i].count = recorded'[i]
    <3>1. recorded[nextId] = 0
      BY <1>1, <2>3 DEF Creates
    <3> QED BY <1>1, <2>3, <3>1, LiveRows DEF Creates
  <2>4. ASSUME recorded' = recorded, NEW i \in Ids, NEW x \in RuleType, Writes(i, x)
        PROVE  /\ nextId' \in {nextId, nextId + 1}
               /\ \A k \in Ids : k >= nextId' => recorded'[k] = 0
               /\ \A k \in Ids : rules'[k].live => rules'[k].count = recorded'[k]
    BY <1>1, <2>4, LiveRows DEF Writes
  <2>5. ASSUME recorded' = recorded, NEW i \in Ids, Deletes(i)
        PROVE  /\ nextId' \in {nextId, nextId + 1}
               /\ \A k \in Ids : k >= nextId' => recorded'[k] = 0
               /\ \A k \in Ids : rules'[k].live => rules'[k].count = recorded'[k]
    BY <1>1, <2>5, LiveRows, RowFields DEF Deletes
  <2> QED BY <2>1, <2>2, <2>3, <2>4, <2>5 DEF Quiet
<1>3. CountsExact'
  BY <1>2 DEF CountsExact, Live
<1>4. \A i \in Ids : i >= nextId' => i >= nextId
  BY <1>1, <1>2
<1>5. \A i \in Ids : i >= nextId' => \A r \in Runs : run'[r].counts[i] = 0 /\ ~run'[r].table[i].live
  BY <1>4 DEF Fresh
<1>6. \A w \in Writers : handler'[w].pc = "insert" => handler'[w].rule.count = 0
  BY DEF HandlersReady, Ready
<1> QED BY <1>2, <1>3, <1>5, <1>6 DEF CountInv

LEMMA CountStep ==
  ASSUME TypeOK, CountInv, VersionInv, TodoInv, [Next]_vars
  PROVE  CountInv'
<1>1. (handler' = handler => HandlersReady) /\ (run' = run => \A r \in Runs : Fresh(run'[r]))
  BY ReadyNow DEF HandlersReady, CountInv, Fresh
<1>2. CASE Watching
  <2>1. Aside /\ (ApplyRule \/ Stays)
    BY <1>2, WatchAside DEF Watching
  <2>2. Quiet
    <3>1. CASE ApplyRule
      <4>1. PICK x : Applies(x)
        BY <3>1, ApplyStep
      <4>2. watcher.byName[x.name] \in Ids \cup {0} /\ x.count = 0 /\ x \in RuleType
        BY <4>1, WatcherFields, FileRows DEF Applies
      <4> QED BY <2>1, <4>1, <4>2 DEF Applies, Quiet, Aside
    <3> QED BY <2>1, <3>1 DEF Quiet, Aside
  <2> QED BY <1>1, <2>1, <2>2, CountFrom DEF Aside
<1>3. CASE Save
  <2>1. Aside /\ Stays
    BY <1>3, WatchAside DEF Save, Stays
  <2> QED BY <1>1, <2>1, CountFrom DEF Aside, Quiet
<1>4. CASE Restart
  <2>1. HandlersReady /\ \A r \in Runs : Fresh(run'[r])
    BY <1>4, IdleReady, IdleRunType DEF Restart, HandlersReady
  <2>2. Quiet
    BY <1>4 DEF Restart, historyVars, Quiet, Stays
  <2> QED BY <2>1, <2>2, CountFrom
<1>5. ASSUME NEW w \in Writers, Handle(w) PROVE CountInv'
  <2>1. Effect /\ HandlersReady /\ Elsewhere
    BY <1>5, RequestStep
  <2>2. Quiet
    BY <2>1 DEF Effect, Elsewhere, Looks, Adds, Edits, Drops, Quiet
  <2> QED BY <1>1, <2>1, <2>2, CountFrom DEF Elsewhere
<1>6. ASSUME NEW r \in Runs, Sync(r) PROVE CountInv'
  <2>1. RunsReady /\ RunStep /\ (Counts \/ (rules' = rules /\ recorded' = recorded))
    BY <1>6, SyncStep
  <2>2. Quiet \/ Counts
    BY <2>1 DEF RunStep, Quiet, Stays
  <2> QED BY <1>1, <2>1, <2>2, CountFrom DEF RunStep, RunsReady
<1>7. CASE UNCHANGED vars
  BY <1>1, <1>7, CountFrom DEF vars, historyVars, Quiet, Stays
<1> QED BY <1>2, <1>3, <1>4, <1>5, <1>6, <1>7, NextCases

------------------------------------------------------------------------------
(* The watcher, the file and its versions. *)
Unwatched == UNCHANGED <<file, watcher, event, timer, signal, loaded, excused>>

LEMMA OthersUnwatched ==
  ASSUME TypeOK, CountInv, [Next]_vars
  PROVE  Watching \/ Save \/ Restart \/ Unwatched
<1>1. ASSUME NEW w \in Writers, Handle(w) PROVE Unwatched
  BY <1>1, RequestStep DEF Elsewhere, fileVars, Unwatched
<1>2. ASSUME NEW r \in Runs, Sync(r) PROVE Unwatched
  BY <1>2, SyncStep DEF RunStep, fileVars, Unwatched
<1>3. UNCHANGED vars => Unwatched
  BY DEF vars, fileVars, Unwatched
<1> QED BY <1>1, <1>2, <1>3, NextCases

LEMMA VersionStep ==
  ASSUME TypeOK, CountInv, VersionInv, TodoInv, [Next]_vars
  PROVE  VersionInv'
<1>1. /\ file \in Nat /\ loaded \in Nat /\ watcher.version \in Nat /\ loaded <= file
      /\ watcher.pc \in {"list", "apply"} =>
          watcher.version # 0 /\ Parsed(watcher.version) /\ loaded <= watcher.version /\ watcher.version <= file
  BY WatcherFields, Constants DEF TypeOK, VersionInv
<1>2. CASE Watching
  <2>1. WatcherMoves
    BY <1>2, WatchStep DEF Watching
  <2>2. file' = file
    BY <2>1, WatcherTyped
  <2>3. CASE Reads /\ UNCHANGED <<fileVars, loaded, excused>>
    BY <1>1, <2>2, <2>3 DEF Reads, Keeps, VersionInv, Parsed
  <2>4. CASE Lists /\ UNCHANGED <<fileVars, loaded, excused>>
    BY <1>1, <2>2, <2>4 DEF Lists, VersionInv, Parsed
  <2>5. CASE (\E x : Applies(x)) /\ UNCHANGED <<fileVars, loaded, excused>>
    BY <1>1, <2>2, <2>5 DEF Applies, VersionInv, Parsed
  <2>6. CASE loaded' = loaded /\ (Keeps("open") \/ Keeps("wait") \/ Keeps("dead") \/ Keeps("read"))
    BY <1>1, <2>2, <2>6 DEF Keeps, VersionInv
  <2>7. CASE watcher.pc = "apply" /\ loaded' = watcher.version /\ (Keeps("open") \/ Keeps("wait"))
    BY <1>1, <2>2, <2>7 DEF Keeps, VersionInv
  <2>8. CASE watcher' = watcher /\ loaded' = loaded
    BY <1>1, <2>2, <2>8 DEF VersionInv, Parsed
  <2> QED BY <2>1, <2>3, <2>4, <2>5, <2>6, <2>7, <2>8 DEF WatcherMoves
<1>3. CASE Save
  <2>1. file' = file + 1 /\ watcher' = watcher /\ loaded' = loaded
    BY <1>3 DEF Save
  <2> QED BY <1>1, <2>1 DEF VersionInv, Parsed
<1>4. CASE Restart
  <2>1. file' = file /\ watcher'.pc = "read" /\ loaded' = loaded
    BY <1>4, BootingType DEF Restart
  <2> QED BY <1>1, <2>1 DEF VersionInv
<1>5. CASE Unwatched
  BY <1>1, <1>5 DEF VersionInv, Parsed, Unwatched
<1> QED BY <1>2, <1>3, <1>4, <1>5, OthersUnwatched

LEMMA TodoStep ==
  ASSUME TypeOK, CountInv, VersionInv, TodoInv, [Next]_vars
  PROVE  TodoInv'
<1>1. CASE Watching
  <2>1. WatcherMoves
    BY <1>1, WatchStep DEF Watching
  <2>2. CASE Lists
    <3>1. watcher.version \in 1 .. Len(FileRules)
      BY <2>2, WatcherFields, Constants DEF Lists, VersionInv
    <3>2. PICK F : F = FileRules[watcher.version]
      OBVIOUS
    <3>3. F \in Seq(FileRule)
      BY <3>1, <3>2, Constants
    <3>4. Len(F) \in Nat /\ \A j \in 1 .. Len(F) : F[j] = F[j + Len(F) - Len(F)]
      BY <3>3
    <3>5. watcher'.todo = F /\ FileRules[watcher'.version] = F
      BY <2>2, <3>2 DEF Lists
    <3> QED BY <3>4, <3>5 DEF TodoInv
  <2>3. ASSUME NEW x, Applies(x) PROVE TodoInv'
    <3>1. PICK F, s, t : F = FileRules[watcher.version] /\ s = watcher.todo /\ t = Tail(s)
      OBVIOUS
    <3>2. watcher.pc = "apply" /\ s # <<>> /\ s \in Seq(FileRule)
      BY <2>3, <3>1, WatcherFields DEF Applies
    <3>3. F \in Seq(FileRule)
      BY <2>3, <3>1, Todo, Constants DEF Applies
    <3>4. Len(s) <= Len(F) /\ \A j \in 1 .. Len(s) : s[j] = F[j + Len(F) - Len(s)]
      BY <3>1, <3>2 DEF TodoInv
    <3>5. PICK l, n : l = Len(t) /\ n = Len(F)
      OBVIOUS
    <3>6. l \in Nat /\ n \in Nat /\ Len(s) = l + 1 /\ \A j \in 1 .. l : t[j] = s[j + 1]
      BY <3>1, <3>2, <3>3, <3>5
    <3>7. l <= n /\ \A j \in 1 .. l : t[j] = F[j + n - l]
      <4>1. l <= n
        BY <3>4, <3>5, <3>6
      <4>2. ASSUME NEW j \in 1 .. l PROVE t[j] = F[j + n - l]
        <5>1. j + 1 \in 1 .. l + 1 /\ (j + 1) + n - (l + 1) = j + n - l
          BY <3>6
        <5>2. s[j + 1] = F[(j + 1) + n - (l + 1)]
          BY <3>4, <3>5, <3>6, <5>1
        <5> QED BY <3>6, <5>1, <5>2
      <4> QED BY <4>1, <4>2
    <3>8. watcher'.todo = t /\ FileRules[watcher'.version] = F
      BY <2>3, <3>1 DEF Applies
    <3> QED BY <3>5, <3>7, <3>8 DEF TodoInv
  <2>4. CASE \/ Reads
             \/ Keeps("open") \/ Keeps("wait") \/ Keeps("dead") \/ Keeps("read")
    BY <2>4 DEF Reads, Keeps, TodoInv
  <2>5. CASE watcher' = watcher
    BY <2>5 DEF TodoInv
  <2> QED BY <2>1, <2>2, <2>3, <2>4, <2>5 DEF WatcherMoves
<1>2. CASE Save \/ Unwatched
  <2>1. watcher' = watcher
    BY <1>2 DEF Save, Unwatched
  <2> QED BY <2>1 DEF TodoInv
<1>3. CASE Restart
  BY <1>3, BootingType DEF Restart, TodoInv
<1> QED BY <1>1, <1>2, <1>3, OthersUnwatched

LEMMA PendingStep ==
  ASSUME TypeOK, CountInv, VersionInv, TodoInv, PendingInv, [Next]_vars
  PROVE  PendingInv'
<1>1. /\ file \in Versions /\ loaded \in Versions /\ loaded <= file /\ file \in Nat /\ loaded \in Nat
      /\ watcher.version \in Nat
      /\ watcher.pc = "apply" => loaded <= watcher.version /\ watcher.version <= file
  BY WatcherFields, Constants DEF TypeOK, VersionInv
<1>2. CASE Watching
  <2>1. WatcherMoves
    BY <1>2, WatchStep DEF Watching
  <2>2. file' = file
    BY <2>1, WatcherTyped
  <2>3. CASE Reads /\ UNCHANGED <<fileVars, loaded, excused>>
    BY <2>2, <2>3 DEF Reads, Keeps, PendingInv, Settled, Parsed
  <2>4. CASE Lists /\ UNCHANGED <<fileVars, loaded, excused>>
    BY <2>2, <2>4 DEF Lists, PendingInv, Settled, Parsed, fileVars
  <2>5. CASE (\E x : Applies(x)) /\ UNCHANGED <<fileVars, loaded, excused>>
    BY <2>2, <2>5 DEF Applies, PendingInv, Settled, Parsed, fileVars
  <2>6. CASE /\ watcher.pc = "apply" /\ (Keeps("open") \/ Keeps("wait"))
             /\ excused' = excused \cup {watcher.version} /\ UNCHANGED <<fileVars, loaded>>
    BY <2>2, <2>6 DEF Keeps, PendingInv, Settled, Parsed, fileVars
  <2>7. CASE /\ watcher.pc = "apply" /\ watcher.todo = <<>> /\ (Keeps("open") \/ Keeps("wait"))
             /\ loaded' = watcher.version /\ UNCHANGED <<fileVars, excused>>
    <3>1. loaded = file => watcher.version = file
      BY <1>1, <2>7
    <3> QED BY <2>2, <2>7, <3>1 DEF Keeps, PendingInv, Settled, Parsed, fileVars
  <2>8. CASE watcher.pc = "open" /\ Keeps("wait") /\ UNCHANGED <<fileVars, loaded, excused>>
    BY <2>2, <2>8 DEF Keeps, PendingInv, Settled, Parsed, fileVars
  <2>9. CASE watcher.pc = "open" /\ Keeps("dead") /\ excused' = Versions /\ UNCHANGED <<fileVars, loaded>>
    BY <1>1, <2>2, <2>9 DEF PendingInv, Settled
  <2>10. CASE /\ watcher.pc = "wait" /\ watcher' = watcher /\ event' = FALSE /\ timer' = TRUE
              /\ UNCHANGED <<file, signal, loaded, excused>>
    BY <2>10 DEF PendingInv
  <2>11. CASE watcher' = watcher /\ timer' = FALSE /\ signal' = TRUE /\ UNCHANGED <<file, event, loaded, excused>>
    BY <2>11 DEF PendingInv
  <2>12. CASE /\ watcher.pc = "wait" /\ Keeps("read") /\ signal' = FALSE
              /\ UNCHANGED <<file, event, timer, loaded, excused>>
    BY <2>12 DEF PendingInv, Keeps
  <2> QED BY <2>1, <2>3, <2>4, <2>5, <2>6, <2>7, <2>8, <2>9, <2>10, <2>11, <2>12 DEF WatcherMoves
<1>3. CASE Save
  <2>1. /\ file' = file + 1 /\ watcher' = watcher /\ event' = (event \/ ~watcher.first)
        /\ excused' = IF watcher.first /\ watcher.pc # "read" THEN excused \cup {file + 1} ELSE excused
    BY <1>3 DEF Save
  <2> QED BY <2>1 DEF PendingInv, Settled
<1>4. CASE Restart
  BY <1>4, BootingType DEF Restart, PendingInv
<1>5. CASE Unwatched
  BY <1>5 DEF Unwatched, PendingInv, Settled, Parsed
<1> QED BY <1>2, <1>3, <1>4, <1>5, OthersUnwatched

------------------------------------------------------------------------------
(* Names.  A step of a request or a run leaves a row its name, or gives it *)
(* one the request writes.                                                 *)
Renames == /\ \A i \in Ids : rules'[i].live =>
                 \/ i \in Live /\ rules'[i].name = rules[i].name
                 \/ rules'[i].name \in touched' /\ rules'[i].name \in named'
           /\ touched \subseteq touched' /\ named \subseteq named'
           /\ nextId' \in {nextId, nextId + 1}

LEMMA RenamesBy ==
  ASSUME TypeOK, Effect \/ ((Counts \/ Stays) /\ touched' = touched /\ named' = named)
  PROVE  Renames
<1>1. CASE (Counts \/ Stays) /\ touched' = touched /\ named' = named
  BY <1>1, LiveRows DEF Counts, Stays, Same, Renames
<1>2. CASE Looks
  BY <1>2, LiveRows DEF Looks, Stays, Renames
<1>3. ASSUME NEW x \in RuleType, Adds(x) PROVE Renames
  BY <1>3, LiveRows DEF Adds, Creates, Renames
<1>4. ASSUME NEW i \in Ids, NEW x \in RuleType, Edits(i, x) PROVE Renames
  BY <1>4, LiveRows DEF Edits, Writes, Same, Renames
<1>5. ASSUME NEW i \in Ids, Drops(i) PROVE Renames
  BY <1>5, LiveRows, RowFields DEF Drops, Deletes, Renames
<1> QED BY <1>1, <1>2, <1>3, <1>4, <1>5 DEF Effect

(* The file goes from version to version, so a name repeated once stays so. *)
LEMMA RepeatedStays ==
  ASSUME TypeOK, file' \in {file, file + 1}
  PROVE  Repeated \subseteq Repeated'
<1>1. file \in Nat
  BY Constants DEF TypeOK
<1>2. \A v \in 1 .. file : v \in 1 .. file'
  BY <1>1
<1> QED BY <1>2 DEF Repeated

LEMMA RenamesKeep ==
  ASSUME TypeOK, OneRowPerFileName, ListedInv, Renames, watcher' = watcher \/ watcher'.pc # "apply",
         file' \in {file, file + 1}
  PROVE  OneRowPerFileName' /\ ListedInv'
<1>0. Repeated \subseteq Repeated'
  BY RepeatedStays
<1>1. OneRowPerFileName'
  BY <1>0 DEF Renames, OneRowPerFileName, Live
<1>2. CASE watcher'.pc # "apply"
  BY <1>1, <1>2 DEF ListedInv
<1>3. CASE watcher' = watcher /\ watcher.pc = "apply"
  <2>1. watcher.byName \in [Names -> Ids \cup {0}] /\ \A n \in Names : watcher.byName[n] < nextId
    BY <1>3, WatcherFields DEF ListedInv
  <2>2. \A n \in Names : watcher'.byName[n] < nextId'
    <3>1. nextId \in Nat /\ nextId' \in {nextId, nextId + 1}
      BY Constants DEF TypeOK, Renames
    <3>2. \A n \in Names : watcher.byName[n] \in Nat
      BY <2>1, Constants
    <3> QED BY <1>3, <2>1, <3>1, <3>2
  <2>3. \A n, k \in Names : watcher'.byName[n] = watcher'.byName[k] => n = k \/ watcher'.byName[n] = 0
    BY <1>3 DEF ListedInv
  <2>4. \A i \in Live' : \A n \in Names :
              rules'[i].name \notin touched' /\ watcher'.byName[n] = i => n = rules'[i].name
    BY <1>3 DEF ListedInv, Renames, Live
  <2>5. \A j \in 1 .. Len(watcher'.todo) : \A i \in Live' :
              rules'[i].name = watcher'.todo[j].name /\ rules'[i].name \notin named' \cup Repeated' =>
                 watcher'.byName[rules'[i].name] = i
    BY <1>0, <1>3 DEF ListedInv, Renames, Live
  <2> QED BY <1>1, <2>2, <2>3, <2>4, <2>5 DEF ListedInv
<1>4. watcher.pc = "apply" \/ watcher.pc # "apply"
  OBVIOUS
<1> QED BY <1>1, <1>2, <1>3, <1>4

(* Two positions of a saved version of the file have different names, or   *)
(* a repeated one.                                                         *)
LEMMA Distinct ==
  ASSUME TypeOK, NEW v \in 1 .. Len(FileRules), v <= file,
         NEW a \in DOMAIN FileRules[v], NEW b \in DOMAIN FileRules[v], a # b,
         FileRules[v][a].name = FileRules[v][b].name
  PROVE  FileRules[v][a].name \in Repeated
<1>1. v \in 1 .. file
  BY Constants DEF TypeOK
<1>2. FileRules[v][a] \in FileRule
  BY Constants
<1>3. FileRules[v][a].name \in Names
  BY <1>2, FileRows
<1>4. FileRules[v][a].name \in RepeatedIn(v)
  BY <1>3 DEF RepeatedIn
<1> QED BY <1>1, <1>4 DEF Repeated

LEMMA ListKeeps ==
  ASSUME TypeOK, OneRowPerFileName, Lists, named' = named, file' = file
  PROVE  OneRowPerFileName' /\ ListedInv'
<1>1. rules' = rules /\ nextId' = nextId /\ touched' = {} /\ watcher'.byName = ByName
  BY DEF Lists, Stays
<1>0. Repeated' = Repeated
  BY DEF Repeated
<1>2. OneRowPerFileName'
  BY <1>0, <1>1 DEF OneRowPerFileName, Live
<1>3. PICK b : b = ByName
  OBVIOUS
<1>4. /\ \A n \in Names : b[n] \in Ids \cup {0}
      /\ \A n \in Names : b[n] # 0 => b[n] \in Live /\ rules[b[n]].name = n
      /\ \A i \in Live : b[rules[i].name] # 0
  BY <1>3, LookedUp
<1>5. \A n \in Names : b[n] < nextId
  BY <1>4, LiveRows, Constants DEF TypeOK
<1>6. \A n, k \in Names : b[n] = b[k] => n = k \/ b[n] = 0
  BY <1>4
<1>7. \A i \in Live : i # 0 /\ rules[i].name \in Names
  BY LiveRows, Constants
<1>8. \A i \in Live : \A n \in Names : b[n] = i => n = rules[i].name
  BY <1>4, <1>7
<1>9. \A i \in Live : rules[i].name \notin named \cup Repeated => b[rules[i].name] = i
  BY <1>4, <1>7 DEF OneRowPerFileName
<1>10. Live' = Live /\ watcher'.byName = b
  BY <1>1, <1>3 DEF Live
<1>11. ListedInv'
  <2>1. \A n \in Names : watcher'.byName[n] < nextId'
    BY <1>1, <1>5, <1>10
  <2>2. \A n, k \in Names : watcher'.byName[n] = watcher'.byName[k] => n = k \/ watcher'.byName[n] = 0
    BY <1>6, <1>10
  <2>3. \A i \in Live' : \A n \in Names :
              rules'[i].name \notin touched' /\ watcher'.byName[n] = i => n = rules'[i].name
    BY <1>1, <1>8, <1>10
  <2>4. \A j \in 1 .. Len(watcher'.todo) : \A i \in Live' :
              rules'[i].name = watcher'.todo[j].name /\ rules'[i].name \notin named' \cup Repeated' =>
                 watcher'.byName[rules'[i].name] = i
    BY <1>0, <1>1, <1>9, <1>10
  <2> QED BY <2>1, <2>2, <2>3, <2>4 DEF ListedInv
<1> QED BY <1>2, <1>11

(* What is left of the file after the rule that is applied. *)
LEMMA Rest ==
  ASSUME TypeOK, VersionInv, TodoInv, NEW x, Applies(x)
  PROVE  /\ \A j \in 1 .. Len(watcher'.todo) :
               /\ j + 1 \in 1 .. Len(watcher.todo) /\ watcher'.todo[j] = watcher.todo[j + 1]
               /\ watcher'.todo[j].name = x.name => x.name \in Repeated
         /\ 1 \in 1 .. Len(watcher.todo) /\ watcher.todo[1] = x
<1>1. PICK F, s, t, v : F = FileRules[v] /\ s = watcher.todo /\ t = Tail(s) /\ v = watcher.version
  OBVIOUS
<1>2. s # <<>> /\ s \in Seq(FileRule) /\ x = Head(s) /\ watcher'.todo = t /\ watcher.pc = "apply"
  BY <1>1, WatcherFields DEF Applies
<1>3. v \in 1 .. Len(FileRules) /\ F \in Seq(FileRule) /\ v <= file
  BY <1>1, <1>2, Todo, Constants DEF VersionInv
<1>4. PICK l, n : l = Len(t) /\ n = Len(F)
  OBVIOUS
<1>5. l \in Nat /\ n \in Nat /\ Len(s) = l + 1 /\ x = s[1] /\ \A j \in 1 .. l : t[j] = s[j + 1]
  BY <1>1, <1>2, <1>3, <1>4
<1>6. l + 1 <= n /\ \A j \in 1 .. l + 1 : s[j] = F[j + n - (l + 1)]
  BY <1>1, <1>2, <1>4, <1>5 DEF TodoInv
<1>7. x = F[1 + n - (l + 1)] /\ 1 + n - (l + 1) \in DOMAIN F
  <2>1. 1 \in 1 .. l + 1 /\ 1 + n - (l + 1) \in 1 .. n
    BY <1>5, <1>6
  <2>2. x = F[1 + n - (l + 1)]
    BY <1>5, <1>6, <2>1
  <2> QED BY <1>3, <1>4, <2>1, <2>2
<1>8. ASSUME NEW j \in 1 .. l
      PROVE  j + 1 \in 1 .. l + 1 /\ t[j] = s[j + 1] /\ (t[j].name = x.name => x.name \in Repeated)
  <2>1. j + 1 \in 1 .. l + 1 /\ (j + 1) + n - (l + 1) \in 1 .. n
        /\ (j + 1) + n - (l + 1) # 1 + n - (l + 1)
    BY <1>5, <1>6
  <2>2. t[j] = F[(j + 1) + n - (l + 1)]
    BY <1>5, <1>6, <2>1
  <2>3. PICK a, b : a = 1 + n - (l + 1) /\ b = (j + 1) + n - (l + 1)
    OBVIOUS
  <2>4. a \in DOMAIN F /\ b \in DOMAIN F /\ a # b /\ t[j] = F[b] /\ x = F[a]
    BY <1>3, <1>4, <1>7, <2>1, <2>2, <2>3
  <2>5. F[a].name = F[b].name => F[a].name \in Repeated
    BY <1>1, <1>3, <2>4, Distinct
  <2> QED BY <1>5, <2>1, <2>4, <2>5
<1> QED BY <1>1, <1>2, <1>4, <1>5, <1>8

LEMMA ApplyKeeps ==
  ASSUME TypeOK, VersionInv, TodoInv, OneRowPerFileName, ListedInv, NEW x, Applies(x), named' = named,
         file' = file
  PROVE  OneRowPerFileName' /\ ListedInv'
<1>1. /\ watcher.pc = "apply" /\ watcher'.byName = watcher.byName /\ touched' = touched
      /\ x \in RuleType /\ x.name \in Names
  BY RowFields DEF Applies
<1>2. PICK b, i : b = watcher.byName /\ i = IF b[x.name] # 0 THEN b[x.name] ELSE nextId
  OBVIOUS
<1>3. /\ b \in [Names -> Ids \cup {0}] /\ 0 \notin Ids /\ Ids = 1 .. MaxId /\ MaxId \in Nat
      /\ nextId \in Nat
  <2>1. nextId \in Nat
    BY Constants DEF TypeOK
  <2> QED BY <1>2, <2>1, WatcherFields, Constants
<1>4. /\ \A n \in Names : b[n] < nextId
      /\ \A n, k \in Names : b[n] = b[k] => n = k \/ b[n] = 0
      /\ \A k \in Live : \A n \in Names : rules[k].name \notin touched /\ b[n] = k => n = rules[k].name
      /\ \A j \in 1 .. Len(watcher.todo) : \A k \in Live :
            rules[k].name = watcher.todo[j].name /\ rules[k].name \notin named \cup Repeated => b[rules[k].name] = k
  BY <1>1, <1>2 DEF ListedInv
(* The row the rule goes to, a listed one or a new one. *)
<1>5. /\ i \in Ids /\ rules'[i].name = x.name /\ rules'[i].live
      /\ nextId' \in {nextId, nextId + 1}
      /\ \A k \in Ids : k # i => rules'[k] = rules[k]
      /\ \A n \in Names : b[n] = i => n = x.name
  <2>1. CASE b[x.name] # 0
    <3>1. i = b[x.name] /\ Writes(i, x)
      BY <1>2, <2>1 DEF Applies
    <3>2. rules'[i] \in RuleType /\ rules'[i].name = x.name /\ i \in Ids
      BY <3>1, LiveRows DEF Writes, Same
    <3>3. \A n \in Names : b[n] = i => n = x.name
      BY <1>1, <1>4, <2>1, <3>1
    <3> QED BY <3>1, <3>2, <3>3, RowFields DEF Writes
  <2>2. CASE b[x.name] = 0
    <3>1. i = nextId /\ Creates(x)
      BY <1>2, <2>2 DEF Applies
    <3>2. \A n \in Names : b[n] # i
      BY <1>3, <1>4, <3>1
    <3> QED BY <1>1, <3>1, <3>2, RowFields DEF Creates
  <2> QED BY <2>1, <2>2
<1>6. 1 \in 1 .. Len(watcher.todo) /\ watcher.todo[1] = x
  BY Rest
<1>0. Repeated' = Repeated
  BY DEF Repeated
<1>7. \A k \in Live : rules[k].name = x.name /\ x.name \notin named \cup Repeated => k = i
  <2>1. SUFFICES ASSUME NEW k \in Live, rules[k].name = x.name, x.name \notin named \cup Repeated PROVE k = i
    OBVIOUS
  <2>2. b[x.name] = k
    BY <1>4, <1>6, <2>1
  <2> QED BY <1>2, <1>3, <2>2, LiveRows
<1>8. OneRowPerFileName'
  BY <1>0, <1>5, <1>7 DEF OneRowPerFileName, Live
<1>9. \A j \in 1 .. Len(watcher'.todo) :
         /\ j + 1 \in 1 .. Len(watcher.todo) /\ watcher'.todo[j] = watcher.todo[j + 1]
         /\ watcher'.todo[j].name = x.name => x.name \in Repeated
  BY Rest
<1>10. ListedInv'
  <2>1. \A n \in Names : b[n] < nextId'
    BY <1>3, <1>4, <1>5
  <2>2. \A k \in Live' : \A n \in Names : rules'[k].name \notin touched' /\ b[n] = k => n = rules'[k].name
    BY <1>1, <1>4, <1>5 DEF Live
  <2>3. \A j \in 1 .. Len(watcher'.todo) : \A k \in Live' :
              rules'[k].name = watcher'.todo[j].name /\ rules'[k].name \notin named' \cup Repeated' => b[rules'[k].name] = k
    <3>1. SUFFICES ASSUME NEW j \in 1 .. Len(watcher'.todo), NEW k \in Ids, rules'[k].live,
                          rules'[k].name = watcher'.todo[j].name, rules'[k].name \notin named' \cup Repeated'
                   PROVE  b[rules'[k].name] = k
      BY DEF Live
    <3>2. k # i
      BY <1>0, <1>5, <1>9, <3>1
    <3>3. k \in Live /\ rules'[k] = rules[k]
      BY <1>5, <3>1, <3>2 DEF Live
    <3>4. j + 1 \in 1 .. Len(watcher.todo) /\ rules[k].name = watcher.todo[j + 1].name
          /\ rules[k].name \notin named \cup Repeated
      BY <1>0, <1>9, <3>1, <3>3
    <3> QED BY <1>4, <3>3, <3>4
  <2> QED BY <1>1, <1>2, <1>4, <2>1, <2>2, <2>3 DEF ListedInv
<1> QED BY <1>8, <1>10

LEMMA NamesStep ==
  ASSUME TypeOK, CountInv, VersionInv, TodoInv, OneRowPerFileName, ListedInv, [Next]_vars
  PROVE  OneRowPerFileName' /\ ListedInv'
<1>1. CASE Watching
  <2>1. WatcherMoves
    BY <1>1, WatchStep DEF Watching
  <2>2. named' = named /\ (ListRules \/ touched' = touched) /\ (ApplyRule \/ Stays) /\ file' = file
    BY <1>1, <2>1, WatchAside, WatcherTyped DEF Watching, Aside
  <2>3. CASE ListRules
    BY <2>2, <2>3, ListStep, ListKeeps
  <2>4. CASE ApplyRule
    BY <2>2, <2>4, ApplyStep, ApplyKeeps
  <2>5. CASE touched' = touched /\ Stays
    <3>1. Renames
      BY <2>2, <2>5, RenamesBy
    <3>2. CASE Lists
      BY <2>2, <3>2, ListKeeps
    <3>3. ASSUME NEW x, Applies(x) PROVE OneRowPerFileName' /\ ListedInv'
      BY <2>2, <3>3, ApplyKeeps
    <3>4. watcher' = watcher \/ watcher'.pc # "apply" \/ Lists \/ \E x : Applies(x)
      BY <2>1 DEF WatcherMoves, Reads, Keeps
    <3> QED BY <2>2, <3>1, <3>2, <3>3, <3>4, RenamesKeep
  <2> QED BY <2>2, <2>3, <2>4, <2>5
<1>2. CASE Save
  <2>1. watcher' = watcher /\ Stays /\ touched' = touched /\ named' = named /\ file' = file + 1
    BY <1>2 DEF Save, Stays, historyVars
  <2> QED BY <2>1, RenamesBy, RenamesKeep
<1>3. CASE Restart
  <2>1. watcher'.pc # "apply" /\ Stays /\ touched' = touched /\ named' = named /\ file' = file
    BY <1>3, BootingType DEF Restart, Stays, historyVars
  <2> QED BY <2>1, RenamesBy, RenamesKeep
<1>4. ASSUME NEW w \in Writers, Handle(w) PROVE OneRowPerFileName' /\ ListedInv'
  <2>1. Effect /\ watcher' = watcher /\ file' = file
    BY <1>4, RequestStep DEF Elsewhere, fileVars
  <2> QED BY <2>1, RenamesBy, RenamesKeep
<1>5. ASSUME NEW r \in Runs, Sync(r) PROVE OneRowPerFileName' /\ ListedInv'
  <2>1. /\ Counts \/ Stays
        /\ watcher' = watcher /\ touched' = touched /\ named' = named /\ file' = file
    BY <1>5, SyncStep DEF RunStep, Stays, fileVars
  <2> QED BY <2>1, RenamesBy, RenamesKeep
<1>6. CASE UNCHANGED vars
  <2>1. watcher' = watcher /\ Stays /\ touched' = touched /\ named' = named /\ file' = file
    BY <1>6 DEF vars, fileVars, Stays, historyVars
  <2> QED BY <2>1, RenamesBy, RenamesKeep
<1> QED BY <1>1, <1>2, <1>3, <1>4, <1>5, <1>6, NextCases

------------------------------------------------------------------------------
(* What the table has of the file. *)
PresentNow(x) == x.name \in touched' \/ \E i \in Ids : rules'[i].live /\ [rules'[i] EXCEPT !.count = 0] = x

LEMMA Cleared == ASSUME NEW x \in RuleType, NEW y, [x EXCEPT !.count = 0] = y PROVE x.name = y.name
BY DEF RuleType

LEMMA SameRow ==
  ASSUME NEW x \in RuleType, NEW y, Same(y, x), NEW z, [x EXCEPT !.count = 0] = z
  PROVE  [y EXCEPT !.count = 0] = z
BY DEF Same

(* A request or a run leaves what is there, or notes the name. *)
LEMMA PresentBy ==
  ASSUME TypeOK, Effect \/ ((Counts \/ Stays) /\ touched' = touched), NEW x, Present(x)
  PROVE  PresentNow(x)
<1>1. CASE touched' = touched /\ Stays
  BY <1>1 DEF Stays, Present, PresentNow, Live
<1>2. CASE touched' = touched /\ Counts
  <2>1. CASE x.name \in touched
    BY <1>2, <2>1 DEF PresentNow
  <2>2. ASSUME NEW i \in Live, [rules[i] EXCEPT !.count = 0] = x PROVE PresentNow(x)
    <3>1. rules[i] \in RuleType /\ rules'[i] \in RuleType /\ Same(rules'[i], rules[i]) /\ i \in Ids
      BY <1>2, LiveRows DEF Counts
    <3>2. [rules'[i] EXCEPT !.count = 0] = x
      BY <2>2, <3>1, SameRow
    <3> QED BY <3>1, <3>2, RowFields DEF PresentNow
  <2> QED BY <2>1, <2>2 DEF Present
<1>3. CASE x.name \in touched /\ Effect
  <2>1. touched \subseteq touched'
    BY <1>3 DEF Effect, Looks, Adds, Edits, Drops
  <2> QED BY <1>3, <2>1 DEF PresentNow
<1>4. ASSUME Effect, NEW i \in Live, [rules[i] EXCEPT !.count = 0] = x PROVE PresentNow(x)
  <2>1. rules[i] \in RuleType /\ i \in Ids /\ i < nextId /\ rules[i].live /\ rules[i].name = x.name /\ i \in Nat
    <3>1. rules[i] \in RuleType /\ i \in Ids /\ i < nextId /\ rules[i].live /\ i \in Nat
      BY LiveRows, Constants
    <3>2. rules[i].name = x.name
      BY <1>4, <3>1, Cleared
    <3> QED BY <3>1, <3>2
  <2>2. rules'[i] = rules[i] \/ x.name \in touched'
    <3>1. CASE Looks
      BY <3>1 DEF Looks, Stays
    <3>2. ASSUME NEW y \in RuleType, Adds(y) PROVE rules'[i] = rules[i]
      <4>1. i # nextId
        BY <2>1, Constants DEF TypeOK
      <4> QED BY <2>1, <3>2, <4>1 DEF Adds, Creates
    <3>3. ASSUME NEW k \in Ids, NEW y \in RuleType, Edits(k, y) PROVE rules'[i] = rules[i] \/ x.name \in touched'
      BY <2>1, <3>3 DEF Edits, Writes
    <3>4. ASSUME NEW k \in Ids, Drops(k) PROVE rules'[i] = rules[i] \/ x.name \in touched'
      BY <2>1, <3>4 DEF Drops, Deletes
    <3> QED BY <1>4, <3>1, <3>2, <3>3, <3>4 DEF Effect
  <2> QED BY <1>4, <2>1, <2>2 DEF PresentNow
<1> QED BY <1>1, <1>2, <1>3, <1>4 DEF Present

LEMMA PresentFrom ==
  ASSUME PresentInv, watcher' = watcher, loaded' = loaded, excused \subseteq excused',
         \A x : Present(x) => PresentNow(x)
  PROVE  PresentInv'
<1>1. \A x : PresentNow(x) => Present(x)'
  BY DEF PresentNow, Present, Live
<1>2. \A x : Present(x) => Present(x)'
  BY <1>1
<1> HIDE DEF Present
<1> QED BY <1>2 DEF PresentInv

(* The rule that is applied is in the table then, and so is every earlier  *)
(* one of another name: the row it wrote belonged to its own name.         *)
LEMMA ApplyPresent ==
  ASSUME TypeOK, VersionInv, TodoInv, ListedInv, PresentInv, NEW x, Applies(x)
  PROVE  PresentInv'
<1>1. PICK v, F, s, t : v = watcher.version /\ F = FileRules[v] /\ s = watcher.todo /\ t = Tail(s)
  OBVIOUS
<1>2. /\ watcher.pc = "apply" /\ watcher'.pc = "apply" /\ watcher'.version = v /\ watcher'.todo = t
      /\ touched' = touched /\ x = Head(s) /\ s # <<>> /\ s \in Seq(FileRule) /\ x \in RuleType /\ x \in FileRule
  BY <1>1, WatcherFields DEF Applies
<1>3. v \in 1 .. Len(FileRules) /\ F \in Seq(FileRule) /\ Len(F) - Len(s) + 1 \in DOMAIN F
      /\ x = F[Len(F) - Len(s) + 1]
  BY <1>1, <1>2, Todo, Constants
<1>4. PICK n, l : n = Len(F) /\ l = Len(t)
  OBVIOUS
<1>5. n \in Nat /\ l \in Nat /\ Len(s) = l + 1 /\ DOMAIN F = 1 .. n
  BY <1>1, <1>2, <1>3, <1>4
<1>6. n - l \in DOMAIN F /\ x = F[n - l] /\ n - (l + 1) = n - l - 1
  BY <1>3, <1>4, <1>5
<1>7. \A j \in 1 .. n - (l + 1) : LastSoFar(F, j, n - (l + 1)) => Present(F[j])
  BY <1>1, <1>2, <1>4, <1>5 DEF PresentInv
<1>8. PresentNow(x)
  <2>1. [x EXCEPT !.count = 0] = x /\ x.live
    BY <1>2, FileRows, RowFields
  <2>2. CASE Creates(x)
    BY <2>1, <2>2 DEF Creates, PresentNow
  <2>3. CASE Writes(watcher.byName[x.name], x)
    <3>1. PICK i : i = watcher.byName[x.name]
      OBVIOUS
    <3>2. i \in Ids /\ rules'[i] \in RuleType /\ Same(rules'[i], x)
      BY <2>3, <3>1, LiveRows DEF Writes
    <3>3. [rules'[i] EXCEPT !.count = 0] = x
      BY <1>2, <2>1, <3>2, SameRow
    <3> QED BY <3>2, <3>3, RowFields DEF PresentNow
  <2> QED BY <2>2, <2>3 DEF Applies
<1>9. ASSUME NEW j \in 1 .. n - (l + 1), LastSoFar(F, j, n - l) PROVE PresentNow(F[j])
  <2>1. PICK r : r = F[j]
    OBVIOUS
  <2>2. r.name # x.name
    <3>1. n - l \in 1 .. n - l /\ n - l > j
      BY <1>5, <1>6
    <3> QED BY <1>6, <1>9, <2>1, <3>1 DEF LastSoFar
  <2>3. CASE r.name \in touched
    BY <1>2, <2>1, <2>3 DEF PresentNow
  <2>4. ASSUME NEW i \in Live, [rules[i] EXCEPT !.count = 0] = r, r.name \notin touched
        PROVE  PresentNow(r)
    <3>1. /\ rules[i] \in RuleType /\ i \in Ids /\ i < nextId /\ rules[i].live /\ rules[i].name = r.name
          /\ i \in Nat /\ nextId \in Nat
      <4>1. nextId \in Nat
        BY Constants DEF TypeOK
      <4>2. rules[i] \in RuleType /\ i \in Ids /\ i < nextId /\ rules[i].live /\ i \in Nat
        BY LiveRows, RowFields, Constants
      <4>3. rules[i].name = r.name
        BY <2>4, <4>2, Cleared
      <4> QED BY <4>1, <4>2, <4>3
    <3>2. x.name \in Names
      BY <1>2, RowFields
    <3>3. watcher.byName[x.name] # i
      BY <1>2, <2>2, <2>4, <3>1, <3>2 DEF ListedInv
    <3>4. rules'[i] = rules[i]
      BY <3>1, <3>3 DEF Applies, Writes, Creates
    <3> QED BY <2>4, <3>1, <3>4 DEF PresentNow
  <2>5. Present(r)
    <3>1. \A i \in 1 .. n - (l + 1) : i \in 1 .. n - l
      BY <1>5
    <3>2. LastSoFar(F, j, n - (l + 1))
      BY <1>9, <3>1 DEF LastSoFar
    <3> QED BY <1>7, <2>1, <3>2
  <2> QED BY <2>1, <2>3, <2>4, <2>5 DEF Present
<1>10. \A j \in 1 .. n - l : LastSoFar(F, j, n - l) => PresentNow(F[j])
  <2>1. \A j \in 1 .. n - l : j \in 1 .. n - (l + 1) \/ j = n - l
    BY <1>5
  <2> QED BY <1>6, <1>8, <1>9, <2>1
<1>11. \A j \in 1 .. n - l : LastSoFar(F, j, n - l) => Present(F[j])'
  <2>1. \A y : PresentNow(y) => Present(y)'
    BY DEF PresentNow, Present, Live
  <2> HIDE DEF Present
  <2> QED BY <1>10, <2>1
<1>12. \A j \in 1 .. Len(FileRules[watcher'.version]) - Len(watcher'.todo) :
          LastSoFar(FileRules[v], j, Len(FileRules[watcher'.version]) - Len(watcher'.todo)) => Present(FileRules[v][j])'
  BY <1>1, <1>2, <1>4, <1>11
<1> QED BY <1>2, <1>12 DEF PresentInv

LEMMA PresentStep ==
  ASSUME TypeOK, CountInv, VersionInv, TodoInv, ListedInv, PresentInv, [Next]_vars
  PROVE  PresentInv'
<1>1. CASE Watching
  <2>1. WatcherMoves
    BY <1>1, WatchStep DEF Watching
  <2>2. (ListRules \/ touched' = touched) /\ (ApplyRule \/ Stays)
    BY <1>1, WatchAside DEF Watching
  <2>3. CASE ListRules
    <3>1. Lists
      BY <2>3, ListStep
    <3>2. watcher.version \in 1 .. Len(FileRules)
      BY <3>1, WatcherFields, Constants DEF Lists, VersionInv
    <3>3. FileRules[watcher.version] \in Seq(FileRule)
      BY <3>2, Constants
    <3>4. 1 .. Len(FileRules[watcher.version]) - Len(FileRules[watcher.version]) = {}
      BY <3>3
    <3> QED BY <3>1, <3>4 DEF Lists, PresentInv
  <2>4. CASE ApplyRule
    BY <2>4, ApplyStep, ApplyPresent
  <2>5. CASE touched' = touched /\ Stays
    <3>1. \A x : Present(x)' <=> Present(x)
      BY <2>5 DEF Stays, Present, Live
    <3>2. \A x : Present(x) => PresentNow(x)
      BY <2>5 DEF Stays, Present, PresentNow, Live
    <3>3. CASE Lists
      <4>1. watcher.version \in 1 .. Len(FileRules)
        BY <3>3, WatcherFields, Constants DEF Lists, VersionInv
      <4>2. FileRules[watcher.version] \in Seq(FileRule)
        BY <4>1, Constants
      <4>3. 1 .. Len(FileRules[watcher.version]) - Len(FileRules[watcher.version]) = {}
        BY <4>2
      <4> QED BY <3>3, <4>3 DEF Lists, PresentInv
    <3>4. ASSUME NEW x, Applies(x) PROVE PresentInv'
      BY <3>4, ApplyPresent
    <3>5. CASE Reads /\ UNCHANGED <<fileVars, loaded, excused>>
      <4> HIDE DEF Present
      <4> QED BY <3>1, <3>5 DEF Reads, Keeps, PresentInv
    <3>6. CASE /\ watcher.pc = "apply" /\ (Keeps("open") \/ Keeps("wait"))
               /\ excused' = excused \cup {watcher.version} /\ UNCHANGED <<fileVars, loaded>>
      BY <3>6 DEF Keeps, PresentInv
    <3>7. CASE /\ watcher.pc = "apply" /\ watcher.todo = <<>> /\ (Keeps("open") \/ Keeps("wait"))
               /\ loaded' = watcher.version /\ UNCHANGED <<fileVars, excused>>
      <4>1. watcher.version \in 1 .. Len(FileRules)
        BY <3>7, WatcherFields, Constants DEF VersionInv
      <4>2. FileRules[watcher.version] \in Seq(FileRule)
        BY <4>1, Constants
      <4>3. /\ DOMAIN FileRules[watcher.version] = 1 .. Len(FileRules[watcher.version]) - Len(watcher.todo)
            /\ DOMAIN FileRules[watcher.version] = 1 .. Len(FileRules[watcher.version])
        BY <3>7, <4>2
      <4>4. \A j \in DOMAIN FileRules[watcher.version] :
               LastOfItsName(watcher.version, j) => Present(FileRules[watcher.version][j])
        BY <3>7, <4>3 DEF PresentInv, LastSoFar, LastOfItsName
      <4>5. watcher'.pc # "apply" /\ loaded' = watcher.version
        BY <3>7 DEF Keeps
      <4> HIDE DEF Present
      <4> QED BY <3>1, <4>4, <4>5 DEF PresentInv
    <3>8. CASE (watcher.pc = "open" \/ watcher.pc = "wait") /\ (Keeps("wait") \/ Keeps("read")) /\ UNCHANGED <<loaded, excused>>
      <4> HIDE DEF Present
      <4> QED BY <3>1, <3>8 DEF Keeps, PresentInv
    <3>9. CASE Keeps("dead")
      BY <3>9 DEF Keeps, PresentInv
    <3>10. CASE watcher' = watcher /\ UNCHANGED <<loaded, excused>>
      BY <3>2, <3>10, PresentFrom
    <3> QED BY <2>1, <3>3, <3>4, <3>5, <3>6, <3>7, <3>8, <3>9, <3>10 DEF WatcherMoves
  <2> QED BY <2>2, <2>3, <2>4, <2>5
<1>2. CASE Save
  <2>1. /\ watcher' = watcher /\ loaded' = loaded /\ excused \subseteq excused' /\ Stays
        /\ touched' = touched
    BY <1>2 DEF Save, Stays, historyVars
  <2> QED BY <2>1, PresentBy, PresentFrom
<1>3. CASE Restart
  <2>1. watcher'.pc = "read" /\ watcher'.version = 0
    BY <1>3, BootingType DEF Restart
  <2> QED BY <2>1 DEF PresentInv
<1>4. ASSUME NEW w \in Writers, Handle(w) PROVE PresentInv'
  <2>1. Effect /\ watcher' = watcher /\ loaded' = loaded /\ excused' = excused
    BY <1>4, RequestStep DEF Elsewhere
  <2> QED BY <2>1, PresentBy, PresentFrom
<1>5. ASSUME NEW r \in Runs, Sync(r) PROVE PresentInv'
  <2>1. /\ Counts \/ Stays
        /\ watcher' = watcher /\ loaded' = loaded /\ excused' = excused /\ touched' = touched
    BY <1>5, SyncStep DEF RunStep, Stays
  <2> QED BY <2>1, PresentBy, PresentFrom
<1>6. CASE UNCHANGED vars
  <2>1. watcher' = watcher /\ loaded' = loaded /\ excused' = excused /\ Stays /\ touched' = touched
    BY <1>6 DEF vars, Stays, historyVars
  <2> QED BY <2>1, PresentBy, PresentFrom
<1> QED BY <1>1, <1>2, <1>3, <1>4, <1>5, <1>6, NextCases

------------------------------------------------------------------------------
LEMMA InvInit == Init => RulesInv
<1>1. SUFFICES ASSUME Init PROVE RulesInv
  OBVIOUS
<1>2. Live = {} /\ watcher.pc = "read" /\ watcher.version = 0 /\ loaded = 0 /\ file = 0 /\ watcher \in WatcherType
  BY <1>1, BootingType, RowFields DEF Init, Live
<1>3. /\ 0 \in Versions /\ 1 \in 1 .. MaxId + 1 /\ 0 \in 0 .. MaxRequests /\ 0 \in 0 .. MaxFaults
      /\ \A i \in Ids : i >= 1
  BY Constants
<1>4. handler \in [Writers -> HandlerType] /\ \A w \in Writers : handler[w] = IdleHandler /\ Ready(handler[w])
  BY <1>1, IdleReady DEF Init, Ready
<1>5. IdleHandler.pc = "idle"
  BY DEF IdleHandler
<1>6. run \in [Runs -> RunType] /\ \A r \in Runs : run[r] = IdleRun /\ Fresh(run[r])
  BY <1>1, IdleRunType DEF Init
<1>7. rules \in [Ids -> RuleType \cup {NoRule}] /\ recorded \in [Ids -> Nat] /\ \A i \in Ids : recorded[i] = 0
  BY <1>1 DEF Init
<1>8. TypeOK
  BY <1>1, <1>2, <1>3, <1>4, <1>5, <1>6, <1>7 DEF Init, TypeOK
<1>9. CountInv
  BY <1>2, <1>4, <1>5, <1>6, <1>7 DEF CountInv, CountsExact, Fresh
<1>10. VersionInv /\ TodoInv /\ PendingInv /\ ListedInv /\ PresentInv
  BY <1>2, <1>3 DEF VersionInv, TodoInv, PendingInv, Settled, ListedInv, PresentInv
<1>11. OneRowPerFileName
  BY <1>2 DEF OneRowPerFileName
<1> QED BY <1>8, <1>9, <1>10, <1>11 DEF RulesInv

LEMMA InvStep == RulesInv /\ [Next]_vars => RulesInv'
BY TypeStep, CountStep, VersionStep, TodoStep, PendingStep, NamesStep, PresentStep DEF RulesInv

(* The inductive invariant: the counts, the versions, what a reload has    *)
(* looked up and what it has applied, in every reachable state.            *)
THEOREM RulesInvariant == Spec => []RulesInv
BY InvInit, InvStep, PTL DEF Spec

(* Type correctness of the rules table, its writers and the runs.  Part of *)
(* it is that no rule is stored whose condition fails Validate: the        *)
(* requests check theirs, LoadYAMLFile checks the whole file before the    *)
(* first rule of it is written.                                            *)
THEOREM TypeCorrect == Spec => []TypeOK
<1>1. RulesInv => TypeOK
  BY DEF RulesInv
<1> QED BY <1>1, RulesInvariant, PTL

(* match_count is exactly what the runs recorded: no edit, toggle, reorder *)
(* or reload that read the row before a run ended writes an old count      *)
(* back, and an insert starts from none.                                   *)
THEOREM CountsStayExact == Spec => []CountsExact
<1>1. RulesInv => CountsExact
  BY DEF RulesInv, CountInv
<1> QED BY <1>1, RulesInvariant, PTL

(* A name of rules.yaml has one row, over any number of reloads, aborted   *)
(* ones and restarts, unless a request gave that name to a rule or a       *)
(* version of the file had it twice.                                       *)
THEOREM FileNamesStayUnique == Spec => []OneRowPerFileName
<1>1. RulesInv => OneRowPerFileName
  BY DEF RulesInv
<1> QED BY <1>1, RulesInvariant, PTL

(* After a complete reload the table has every rule of the file as it is   *)
(* in the file, except those a request wrote to since the rules were       *)
(* listed, whatever the requests and runs did meanwhile; of several rules  *)
(* with one name, the last.                                                *)
THEOREM ReloadsAreComplete == Spec => []ReloadMatchesFile
<1>1. RulesInv => ReloadMatchesFile
  BY DEF RulesInv, PresentInv, Present, LastOfItsName, ReloadMatchesFile
<1> QED BY <1>1, RulesInvariant, PTL

(* When nothing is pending the current version of the file is the one that *)
(* was applied, unless it is not valid or its reload was cut short or      *)
(* could not see it: no order of saves, debouncing and reloads loses one.  *)
THEOREM SavesAreNotMissed == Spec => []NoSaveMissed
<1>1. RulesInv => NoSaveMissed
  BY DEF RulesInv, PendingInv, Settled, NoSaveMissed
<1> QED BY <1>1, RulesInvariant, PTL
=============================================================================
