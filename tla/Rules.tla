-------------------------------- MODULE Rules --------------------------------
(***************************************************************************)
(* The archive rules: the rules table, its three kinds of writers and the  *)
(* sync runs that apply it.                                                *)
(*                                                                         *)
(*   - the handlers of internal/httpapi/rules_api.go and rules_ui.go;      *)
(*   - the watcher of rules.yaml (internal/rules/watcher.go, yaml.go);     *)
(*   - sync runs, which list the active rules when they begin, pick the    *)
(*     first match of every message and add up the matches at the end.     *)
(*                                                                         *)
(* A condition tree is a node [op, children, leaf]; which messages a leaf  *)
(* holds for is a constant.  A rule's action and its condition are always  *)
(* written together, so "cond" stands for both.                            *)
(***************************************************************************)
EXTENDS Naturals, Sequences, FiniteSets

CONSTANTS
    Writers,            \* requests handled at the same time
    Runs,               \* sync runs that may overlap
    Messages,
    Names,              \* rule names
    GivenNames,         \* those that requests give to a rule
    Nodes,              \* condition trees and all their subtrees
    LeafHolds,          \* leaf value -> messages it holds for; no other value parses
    Inputs,             \* the trees requests submit
    Priorities,         \* the priorities an API client sends
    FileRules,          \* version of rules.yaml -> its rules, in the file's order
    MaxId,              \* bound: rules ever created
    MaxRequests,        \* bound: requests
    MaxCount,           \* bound: matches recorded for a rule
    MaxFaults           \* bound: failures and crashes

MaxDepth == 3
Ids      == 1 .. MaxId
Versions == 0 .. Len(FileRules)         \* 0: there is no rules.yaml

\* What the parser of rules.yaml makes of an entry; its condition may not be valid.
FileRule == [live : {TRUE}, name : Names, priority : Nat, cond : Nodes, active : BOOLEAN, count : {0}]

ASSUME RulesAssumption ==
    /\ MaxId \in Nat \ {0} /\ MaxRequests \in Nat /\ MaxCount \in Nat /\ MaxFaults \in Nat
    /\ FileRules \in Seq(Seq(FileRule))
    /\ Inputs \subseteq Nodes /\ Priorities \subseteq Nat /\ GivenNames \subseteq Names
    /\ \A n \in Nodes : n.children \subseteq Nodes

VARIABLES
    rules,      \* the rules table
    nextId,     \* AUTOINCREMENT
    file,       \* the version of rules.yaml
    watcher,    \* the goroutine of WatchYAML
    event,      \* fsnotify has an event for it
    timer,      \* the debounce timer runs
    signal,     \* the debounced channel holds a value
    handler,    \* the requests' progress
    requests,   \* requests so far
    run,        \* the sync runs' progress
    loaded,     \* history: the version the last complete reload applied
    touched,    \* history: names requests wrote since the watcher listed the rules
    named,      \* history: names requests gave to a rule
    recorded,   \* history: matches the runs recorded
    excused,    \* history: versions no reload is going to apply
    faults

fileVars    == <<file, event, timer, signal>>
historyVars == <<touched, named, recorded>>
vars == <<rules, nextId, fileVars, watcher, handler, requests, run, loaded, historyVars, excused, faults>>

------------------------------------------------------------------------------
IsGroup(n) == n.op # "none"

(* validateDepth: the nodes with at most k levels of groups, every group   *)
(* with a known operator and a child, every leaf with a value that parses. *)
ValidWithin[k \in 0 .. MaxDepth] ==
    {n \in Nodes :
        IF IsGroup(n)
        THEN /\ k > 0 /\ n.op \in {"and", "or"} /\ n.leaf = "none"
             /\ n.children # {} /\ n.children \subseteq ValidWithin[k - 1]
        ELSE n.leaf \in DOMAIN LeafHolds}

Valid       == ValidWithin[MaxDepth]
Validate(n) == n \in Valid

(* Evaluate: the nodes that hold for m. *)
HoldsWithin[k \in 0 .. MaxDepth, m \in Messages] ==
    {n \in Nodes :
        CASE n.op = "and" -> k > 0 /\ n.children \subseteq HoldsWithin[k - 1, m]
          [] n.op = "or"  -> k > 0 /\ n.children \cap HoldsWithin[k - 1, m] # {}
          [] OTHER        -> n.leaf \in DOMAIN LeafHolds /\ m \in LeafHolds[n.leaf]}

Holding        == [m \in Messages |-> HoldsWithin[MaxDepth, m]]
Evaluate(n, m) == n \in Holding[m]

(* ORDER BY priority, id. *)
Before(t, i, k) == \/ t[i].priority < t[k].priority
                   \/ t[i].priority = t[k].priority /\ i <= k

Live   == {i \in Ids : rules[i].live}
Active == {i \in Live : rules[i].active}

(* FirstMatch over the rules a run has listed; the default is to archive. *)
FirstMatch(table, m) ==
    LET matching == {i \in Ids : table[i].live /\ Evaluate(table[i].cond, m)}
    IN  {i \in matching : \A k \in matching : Before(table, i, k)}

------------------------------------------------------------------------------
AnyNode == CHOOSE n \in Nodes : TRUE
AnyName == CHOOSE n \in Names : TRUE
NoRule  == [live |-> FALSE, name |-> AnyName, priority |-> 0, cond |-> AnyNode, active |-> FALSE, count |-> 0]

Rule(name, priority, cond, active) ==
    [live |-> TRUE, name |-> name, priority |-> priority, cond |-> cond, active |-> active, count |-> 0]

IdleHandler == [pc |-> "idle", id |-> 1, rule |-> NoRule, order |-> <<>>, pos |-> 0]
IdleRun     == [pc |-> "idle", table |-> [i \in Ids |-> NoRule], todo |-> {}, counts |-> [i \in Ids |-> 0]]
Booting     == [pc |-> "read", first |-> TRUE, version |-> 0, byName |-> [n \in Names |-> 0], todo |-> <<>>]

Init ==
    /\ rules = [i \in Ids |-> NoRule] /\ nextId = 1
    /\ file = 0
    /\ watcher = Booting /\ event = FALSE /\ timer = FALSE /\ signal = FALSE
    /\ handler = [w \in Writers |-> IdleHandler] /\ requests = 0 /\ run = [r \in Runs |-> IdleRun]
    /\ loaded = 0 /\ touched = {} /\ named = {} /\ recorded = [i \in Ids |-> 0]
    /\ excused = {} /\ faults = 0

Fault == faults < MaxFaults /\ faults' = faults + 1

(* RulesRepo.Create. *)
CreateRow(rule) ==
    /\ nextId <= MaxId
    /\ rules' = [rules EXCEPT ![nextId] = rule] /\ nextId' = nextId + 1

(* Mutant of Stored: the statistics of the row that was read go along. *)
StoredWithStats(i, rule) == rule

(* RulesRepo.Update writes every column but the statistics. *)
Stored(i, rule) == [rule EXCEPT !.count = rules[i].count]

UpdateRow(i, rule) == rules' = [rules EXCEPT ![i] = Stored(i, rule)] /\ UNCHANGED nextId

------------------------------------------------------------------------------
Request     == requests < MaxRequests /\ requests' = requests + 1
HandlerStep == UNCHANGED <<fileVars, watcher, run, loaded, recorded, excused, faults>>
Silent      == UNCHANGED <<rules, nextId, touched, named>>
Answer(w)   == handler' = [handler EXCEPT ![w] = IdleHandler]
Touch(ns)   == touched' = touched \cup ns
Name(n)     == named' = named \cup {n}

(* handleCreateRule: the client sends the priority. *)
CreateRule(w) ==
    /\ handler[w].pc = "idle" /\ Request
    /\ \E n \in GivenNames, p \in Priorities, c \in {c \in Inputs : Validate(c)}, a \in BOOLEAN :
         CreateRow(Rule(n, p, c, a)) /\ Touch({n}) /\ Name(n)
    /\ UNCHANGED handler /\ HandlerStep

(* handleUpdateRule: 404 unless the row is there. *)
UpdateRule(w, i) ==
    /\ handler[w].pc = "idle" /\ Request /\ rules[i].live
    /\ \E n \in GivenNames, p \in Priorities, c \in {c \in Inputs : Validate(c)}, a \in BOOLEAN :
         UpdateRow(i, Rule(n, p, c, a)) /\ Touch({n, rules[i].name}) /\ Name(n)
    /\ UNCHANGED handler /\ HandlerStep

(* handleDeleteRule, handleRulesDelete. *)
DeleteRule(w, i) ==
    /\ handler[w].pc = "idle" /\ Request /\ rules[i].live
    /\ rules' = [rules EXCEPT ![i] = NoRule] /\ Touch({rules[i].name})
    /\ UNCHANGED <<nextId, named, handler>> /\ HandlerStep

(* handleRulesCreate counts the rules, then inserts with that priority. *)
CountRules(w) ==
    /\ handler[w].pc = "idle" /\ Request
    /\ \E n \in GivenNames, c \in {c \in Inputs : Validate(c)}, a \in BOOLEAN :
         handler' = [handler EXCEPT ![w] = [IdleHandler EXCEPT
             !.pc = "insert", !.rule = Rule(n, Cardinality(Live), c, a)]]
    /\ Silent /\ HandlerStep

InsertCounted(w) ==
    LET rule == handler[w].rule IN
    /\ handler[w].pc = "insert"
    /\ CreateRow(rule) /\ Touch({rule.name}) /\ Name(rule.name)
    /\ Answer(w) /\ HandlerStep /\ UNCHANGED requests

(* handleRulesUpdate keeps the priority of the row it read. *)
ReadForEdit(w, i) ==
    /\ handler[w].pc = "idle" /\ Request /\ rules[i].live
    /\ \E n \in GivenNames, c \in {c \in Inputs : Validate(c)}, a \in BOOLEAN :
         handler' = [handler EXCEPT ![w] = [IdleHandler EXCEPT
             !.pc = "write", !.id = i, !.rule = [rules[i] EXCEPT !.name = n, !.cond = c, !.active = a]]]
    /\ Silent /\ HandlerStep

(* handleRulesToggle writes the row it read back with is_active flipped. *)
ReadForToggle(w, i) ==
    /\ handler[w].pc = "idle" /\ Request /\ rules[i].live
    /\ handler' = [handler EXCEPT ![w] = [IdleHandler EXCEPT
             !.pc = "write", !.id = i, !.rule = [rules[i] EXCEPT !.active = ~@]]]
    /\ Silent /\ HandlerStep

(* handleRulesReorder reads and renumbers one rule after the other, in the *)
(* order the page shows after the drag.                                    *)
StartReorder(w) ==
    /\ handler[w].pc = "idle" /\ Request /\ Cardinality(Live) > 1
    /\ \E order \in [1 .. Cardinality(Live) -> Live] :
         /\ \A a, b \in DOMAIN order : a # b => order[a] # order[b]
         /\ handler' = [handler EXCEPT ![w] = [IdleHandler EXCEPT !.pc = "next", !.order = order]]
    /\ Silent /\ HandlerStep

ReadForReorder(w) ==
    LET h == handler[w] IN
    /\ h.pc = "next" /\ h.order # <<>>
    /\ LET i == Head(h.order) IN
       handler' = [handler EXCEPT ![w] =
           IF rules[i].live
           THEN [h EXCEPT !.pc = "write", !.id = i, !.rule = [rules[i] EXCEPT !.priority = h.pos],
                          !.order = Tail(@), !.pos = @ + 1]
           ELSE [h EXCEPT !.order = Tail(@), !.pos = @ + 1]]
    /\ Silent /\ HandlerStep /\ UNCHANGED requests

FinishReorder(w) ==
    handler[w].pc = "next" /\ handler[w].order = <<>> /\ Answer(w) /\ Silent /\ HandlerStep /\ UNCHANGED requests

(* The second half of an edit, a toggle or one step of a reorder; a row    *)
(* deleted in between is an error, which ends a reorder half way.          *)
WriteBack(w) ==
    LET h == handler[w] IN
    /\ h.pc = "write"
    /\ IF rules[h.id].live
       THEN /\ UpdateRow(h.id, h.rule) /\ Touch({h.rule.name, rules[h.id].name})
            /\ IF h.rule.name = rules[h.id].name THEN UNCHANGED named ELSE Name(h.rule.name)
            /\ handler' = [handler EXCEPT ![w] = IF h.pos = 0 THEN IdleHandler ELSE [h EXCEPT !.pc = "next"]]
       ELSE Silent /\ Answer(w)
    /\ HandlerStep /\ UNCHANGED requests

------------------------------------------------------------------------------
WatcherStep == UNCHANGED <<handler, requests, run, named, recorded>>
Go(pc)      == watcher' = [watcher EXCEPT !.pc = pc]

(* The goroutine is done with a load: the first one comes before the watch. *)
LoadDone == Go(IF watcher.first THEN "open" ELSE "wait")

Parsed(v) == \A r \in 1 .. Len(FileRules[v]) : Validate(FileRules[v][r].cond)

(* Mutant of ReadFile: the rules are not validated. *)
ReadFileUnchecked ==
    /\ watcher.pc = "read"
    /\ IF file > 0
       THEN watcher' = [watcher EXCEPT !.pc = "list", !.version = file]
       ELSE LoadDone
    /\ WatcherStep /\ UNCHANGED <<rules, nextId, fileVars, loaded, touched, excused, faults>>

(* LoadYAMLFile: a missing file and one with a rule that fails Validate    *)
(* change nothing.                                                         *)
ReadFile ==
    /\ watcher.pc = "read"
    /\ IF file > 0 /\ Parsed(file)
       THEN watcher' = [watcher EXCEPT !.pc = "list", !.version = file]
       ELSE LoadDone
    /\ WatcherStep /\ UNCHANGED <<rules, nextId, fileVars, loaded, touched, excused, faults>>

(* SyncYAML lists the rules; of two with one name the later one is kept,   *)
(* and 0 stands for none.                                                  *)
ByName ==
    [n \in Names |->
        IF \E i \in Live : rules[i].name = n
        THEN CHOOSE i \in Live : rules[i].name = n
                /\ \A k \in Live : rules[k].name = n => Before(rules, k, i)
        ELSE 0]

(* Mutant of ListRules: names are looked up in the first listing. *)
ListRulesOnce ==
    /\ watcher.pc = "list" /\ touched' = {}
    /\ watcher' = [watcher EXCEPT !.pc = "apply", !.todo = FileRules[watcher.version],
                                  !.byName = IF watcher.first THEN ByName ELSE @]
    /\ WatcherStep /\ UNCHANGED <<rules, nextId, fileVars, loaded, excused, faults>>

ListRules ==
    /\ watcher.pc = "list" /\ touched' = {}
    /\ watcher' = [watcher EXCEPT !.pc = "apply", !.todo = FileRules[watcher.version], !.byName = ByName]
    /\ WatcherStep /\ UNCHANGED <<rules, nextId, fileVars, loaded, excused, faults>>

(* Mutant of ApplyRule: a rule that is there already is left alone. *)
ApplyNewRule ==
    LET r == Head(watcher.todo) IN
    /\ watcher.pc = "apply" /\ watcher.todo # <<>>
    /\ watcher' = [watcher EXCEPT !.todo = Tail(@)]
    /\ IF watcher.byName[r.name] # 0 THEN UNCHANGED <<rules, nextId>> ELSE CreateRow(r)
    /\ WatcherStep /\ UNCHANGED <<fileVars, loaded, touched, excused, faults>>

(* One rule of the file: an update by id or an insert.  ParseYAML accepts  *)
(* two rules of one name, and what was listed decides for both: the second *)
(* gets a row of its own, or is written over the first.                    *)
ApplyRule ==
    LET r == Head(watcher.todo) IN
    /\ watcher.pc = "apply" /\ watcher.todo # <<>>
    /\ IF watcher.byName[r.name] # 0
       THEN rules[watcher.byName[r.name]].live /\ UpdateRow(watcher.byName[r.name], r)
       ELSE CreateRow(r)
    /\ watcher' = [watcher EXCEPT !.todo = Tail(@)]
    /\ WatcherStep /\ UNCHANGED <<fileVars, loaded, touched, excused, faults>>

AbortLoad == /\ watcher.pc = "apply" /\ watcher.todo # <<>>
             /\ LoadDone /\ excused' = excused \cup {watcher.version}
             /\ WatcherStep /\ UNCHANGED <<rules, nextId, fileVars, loaded, touched>>

(* The row to update was deleted meanwhile (or the model is out of ids):   *)
(* the rest of the file is not applied.                                    *)
ApplyToDeleted ==
    /\ AbortLoad /\ UNCHANGED faults
    /\ LET n == Head(watcher.todo).name IN
       IF watcher.byName[n] # 0 THEN ~rules[watcher.byName[n]].live ELSE nextId > MaxId

ApplyFails == AbortLoad /\ Fault

FinishLoad ==
    /\ watcher.pc = "apply" /\ watcher.todo = <<>>
    /\ LoadDone /\ loaded' = watcher.version
    /\ WatcherStep /\ UNCHANGED <<rules, nextId, fileVars, touched, excused, faults>>

(* The directory is watched from here on, or not at all. *)
AddWatch ==
    /\ watcher.pc = "open" /\ watcher' = [watcher EXCEPT !.pc = "wait", !.first = FALSE]
    /\ WatcherStep /\ UNCHANGED <<rules, nextId, fileVars, loaded, touched, excused, faults>>

WatchFails ==
    /\ watcher.pc = "open" /\ Fault /\ Go("dead") /\ excused' = Versions
    /\ WatcherStep /\ UNCHANGED <<rules, nextId, fileVars, loaded, touched>>

(* Mutant of TakeEvent: an event while the timer runs is dropped after it *)
(* has stopped the timer.                                                  *)
TakeEventStopping ==
    /\ watcher.pc = "wait" /\ event /\ event' = FALSE /\ timer' = ~timer
    /\ WatcherStep /\ UNCHANGED <<rules, nextId, file, watcher, signal, loaded, touched, excused, faults>>

(* Every write or create event starts the debounce timer afresh. *)
TakeEvent ==
    /\ watcher.pc = "wait" /\ event /\ event' = FALSE /\ timer' = TRUE
    /\ WatcherStep /\ UNCHANGED <<rules, nextId, file, watcher, signal, loaded, touched, excused, faults>>

TimerFires ==
    /\ timer /\ timer' = FALSE /\ signal' = TRUE
    /\ WatcherStep /\ UNCHANGED <<rules, nextId, file, event, watcher, loaded, touched, excused, faults>>

Reload ==
    /\ watcher.pc = "wait" /\ signal /\ signal' = FALSE /\ Go("read")
    /\ WatcherStep /\ UNCHANGED <<rules, nextId, file, event, timer, loaded, touched, excused, faults>>

(* The user saves a new version.  Once the directory is watched that makes *)
(* an event; between the first load and the watch it is not seen.          *)
Save ==
    /\ file < Len(FileRules) /\ file' = file + 1 /\ event' = (event \/ ~watcher.first)
    /\ excused' = IF watcher.first /\ watcher.pc # "read" THEN excused \cup {file + 1} ELSE excused
    /\ UNCHANGED <<rules, nextId, watcher, timer, signal, handler, requests, run, loaded, historyVars, faults>>

------------------------------------------------------------------------------
RunStep == UNCHANGED <<nextId, fileVars, watcher, handler, requests, loaded, touched, named, excused>>

(* ListActive when the run begins. *)
StartRun(r) ==
    /\ run[r].pc = "idle"
    /\ run' = [run EXCEPT ![r] = [IdleRun EXCEPT
             !.pc = "match", !.table = [i \in Ids |-> IF i \in Active THEN rules[i] ELSE NoRule],
             !.todo = Messages]]
    /\ RunStep /\ UNCHANGED <<rules, recorded, faults>>

MatchOne(r, m) ==
    LET i == FirstMatch(run[r].table, m) IN
    /\ run[r].pc = "match" /\ m \in run[r].todo
    /\ run' = [run EXCEPT ![r].todo = @ \ {m},
                          ![r].counts = [k \in Ids |-> IF k \in i THEN @[k] + 1 ELSE @[k]]]
    /\ RunStep /\ UNCHANGED <<rules, recorded, faults>>

(* RecordMatches: one transaction; a deleted rule's matches go nowhere. *)
RecordMatches(r) ==
    LET n == run[r].counts IN
    /\ run[r].pc = "match" /\ run[r].todo = {}
    /\ \A i \in Live : rules[i].count + n[i] <= MaxCount
    /\ rules' = [i \in Ids |-> IF rules[i].live THEN [rules[i] EXCEPT !.count = @ + n[i]] ELSE rules[i]]
    /\ recorded' = [i \in Ids |-> recorded[i] + n[i]]
    /\ run' = [run EXCEPT ![r] = IdleRun]
    /\ RunStep /\ UNCHANGED faults

(* The statistics could not be written: logged, the run succeeds. *)
RecordFails(r) ==
    /\ run[r].pc = "match" /\ run[r].todo = {} /\ Fault
    /\ run' = [run EXCEPT ![r] = IdleRun]
    /\ RunStep /\ UNCHANGED <<rules, recorded>>

(* A restart loads the file before it watches it. *)
Restart ==
    /\ Fault /\ watcher.pc # "read"
    /\ watcher' = Booting /\ event' = FALSE /\ timer' = FALSE /\ signal' = FALSE
    /\ handler' = [w \in Writers |-> IdleHandler] /\ run' = [r \in Runs |-> IdleRun]
    /\ excused' = {}
    /\ UNCHANGED <<rules, nextId, file, requests, loaded, historyVars>>

------------------------------------------------------------------------------
Handle(w) == \/ CreateRule(w) \/ CountRules(w) \/ InsertCounted(w)
             \/ \E i \in Ids : UpdateRule(w, i) \/ DeleteRule(w, i) \/ ReadForEdit(w, i) \/ ReadForToggle(w, i)
             \/ StartReorder(w) \/ ReadForReorder(w) \/ FinishReorder(w) \/ WriteBack(w)

Watch == \/ ReadFile \/ ListRules \/ ApplyRule \/ ApplyToDeleted \/ FinishLoad \/ AddWatch
         \/ TakeEvent \/ TimerFires \/ Reload

Failure == ApplyFails \/ WatchFails \/ Restart

Sync(r) == \/ StartRun(r) \/ RecordMatches(r) \/ RecordFails(r)
           \/ \E m \in Messages : MatchOne(r, m)

Next == \/ Watch \/ Failure \/ Save
        \/ \E w \in Writers : Handle(w)
        \/ \E r \in Runs : Sync(r)

Spec == Init /\ [][Next]_vars

------------------------------------------------------------------------------
(* Every variable has its type, and no rule whose condition fails Validate *)
(* is ever stored, whoever writes it.                                      *)
RuleType == [live : {TRUE}, name : Names, priority : Nat, cond : Valid,
             active : BOOLEAN, count : 0 .. MaxCount]

HandlerType == [pc : {"idle", "insert", "write", "next"}, id : Ids, rule : RuleType \cup {NoRule},
                order : Seq(Ids), pos : Nat]

RunType == [pc : {"idle", "match"}, table : [Ids -> RuleType \cup {NoRule}],
            todo : SUBSET Messages, counts : [Ids -> Nat]]

WatcherType == [pc : {"read", "list", "apply", "open", "wait", "dead"}, first : BOOLEAN, version : Versions,
                byName : [Names -> Ids \cup {0}], todo : Seq(FileRule)]

TypeOK ==
    /\ rules \in [Ids -> RuleType \cup {NoRule}]
    /\ nextId \in 1 .. MaxId + 1 /\ \A i \in Live : i < nextId
    /\ file \in Versions /\ loaded \in Versions
    /\ watcher \in WatcherType
    /\ event \in BOOLEAN /\ timer \in BOOLEAN /\ signal \in BOOLEAN
    /\ handler \in [Writers -> HandlerType]
    /\ \A w \in Writers : handler[w].pc \in {"insert", "write"} => handler[w].rule \in RuleType
    /\ run \in [Runs -> RunType]
    /\ touched \subseteq Names /\ named \subseteq Names /\ excused \subseteq Versions
    /\ recorded \in [Ids -> Nat]
    /\ requests \in 0 .. MaxRequests /\ faults \in 0 .. MaxFaults

(* match_count of a rule is what the runs recorded for it: an edit, a      *)
(* toggle, a reorder or a reload that read the row before a run ended does *)
(* not write an old count back.                                            *)
CountsExact == \A i \in Live : rules[i].count = recorded[i]

(* The names a version of the file saved so far has twice. *)
RepeatedIn(v) == {n \in Names : \E i, k \in DOMAIN FileRules[v] :
                                   i # k /\ FileRules[v][i].name = n /\ FileRules[v][k].name = n}
Repeated == UNION {RepeatedIn(v) : v \in 1 .. file}

(* rules.yaml is matched by name: over any number of reloads, aborted ones *)
(* and restarts included, a name of the file has one row, unless a request *)
(* gave that name to a rule or a version of the file had the name twice.   *)
OneRowPerFileName ==
    \A n \in Names \ (named \cup Repeated) : \A i, k \in Live : rules[i].name = n /\ rules[k].name = n => i = k

(* After a complete reload the table holds every rule of the file as the   *)
(* file has it, except those a request has written since it listed them:   *)
(* of several rules with one name the last, which may have replaced the    *)
(* others.                                                                 *)
LastOfItsName(v, a) == \A b \in DOMAIN FileRules[v] : b > a => FileRules[v][b].name # FileRules[v][a].name

ReloadMatchesFile ==
    watcher.pc = "wait" /\ watcher.version = loaded /\ loaded \notin excused \cup {0} =>
        \A a \in {b \in DOMAIN FileRules[loaded] : LastOfItsName(loaded, b)} :
            LET r == FileRules[loaded][a] IN
            r.name \in touched \/ \E i \in Live : [rules[i] EXCEPT !.count = 0] = r

(* WatchYAML: "watches it for changes and reloads ... on every one".  When *)
(* nothing is pending the version of the file is the one that was applied, *)
(* unless it is not valid, was saved between the first load and the watch  *)
(* or had its reload cut short: no order of saves, debouncing and reloads  *)
(* loses a save.                                                           *)
NoSaveMissed ==
    watcher.pc = "wait" /\ ~event /\ ~timer /\ ~signal =>
        file = 0 \/ ~Parsed(file) \/ loaded = file \/ file \in excused
=============================================================================
