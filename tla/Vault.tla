-------------------------------- MODULE Vault --------------------------------
(***************************************************************************)
(* The key store (internal/security/masterkey): three files .salt,         *)
(* .mk-verify and .dek in the data directory, bootstrapped by the first    *)
(* unlock, read by every later one and replaced one by one by              *)
(* ChangePassword; the vault that runs on the DEK it yields                *)
(* (httpapi/state.go); and the lockout of POST /unlock                     *)
(* (httpapi/unlock_lockout.go) for the one address requests come from.     *)
(* Commands open the same store from processes of their own.               *)
(*                                                                         *)
(* A key is the pair of a salt and a password.  The verifier is the key it *)
(* was made with; .dek is a DEK wrapped under a key.  Opening a file and   *)
(* writing its few bytes is one step.                                      *)
(***************************************************************************)
EXTENDS Naturals, Sequences, FiniteSets

CONSTANTS
    Callers,            \* requests that may be handled at the same time
    Passwords,          \* those of 12 characters or more
    None,
    Threshold,          \* unlockLockoutThreshold
    MaxSalts,           \* bound: salts generated
    MaxDeks,            \* bound: DEKs generated
    MaxEvents           \* bound: commands, failed writes and crashes

Keys    == (1 .. MaxSalts) \X Passwords
Wrapped == [key : Keys, id : 1 .. MaxDeks]

ASSUME VaultAssumption ==
    /\ {MaxSalts, MaxDeks, MaxEvents} \subseteq Nat /\ Threshold \in Nat \ {0}
    /\ IsFiniteSet(Callers)
    /\ None \notin Nat \cup Keys \cup Wrapped       \* a file is missing or has content

VARIABLES
    store,      \* .salt, .mk-verify, .dek
    tmp,        \* their .tmp siblings
    caller,
    running,    \* the DEK of the unlocked vault
    password,   \* history: the last password set
    used,       \* history: DEKs a vault has run on
    disturbed,  \* history: two writers overlapped or one was cut short
    failures, locked,   \* the address's lockoutEntry
    guesses,    \* history: wrong passwords tried since the last lockout or success
    salts, deks, events

storeVars == <<store, tmp>>
lockout   == <<failures, locked, guesses>>
history   == <<password, used, disturbed>>
vars == <<storeVars, caller, running, history, lockout, salts, deks, events>>

Files == <<"dek", "verify", "salt">>        \* the order ChangePassword renames in
Empty == [salt |-> None, verify |-> None, dek |-> None]
Idle  == [pc |-> "idle", kind |-> "unlock", pw |-> None, new |-> None, key |-> None,
          dek |-> None, next |-> 1]

Init ==
    /\ store = Empty /\ tmp = Empty
    /\ caller = [c \in Callers |-> Idle] /\ running = None
    /\ password = None /\ used = {} /\ disturbed = FALSE
    /\ failures = 0 /\ locked = FALSE /\ guesses = 0
    /\ salts = 0 /\ deks = 0 /\ events = 0

Event      == events < MaxEvents /\ events' = events + 1
FreshSalt  == salts < MaxSalts /\ salts' = salts + 1
FreshDek   == deks < MaxDeks /\ deks' = deks + 1
Sits(c, pc) == caller[c].pc = pc
Becomes(c, r) == caller' = [caller EXCEPT ![c] = r]
Goes(c, pc)   == caller' = [caller EXCEPT ![c].pc = pc]

\* A caller that is replacing files of the store, or is about to.
Writing(c) == caller[c].pc \in {"salt_file", "verify_file", "dek_file", "tmp", "rename"}
Enters(c)  == disturbed' = (disturbed \/ \E d \in Callers \ {c} : Writing(d))
\* Ended now, it would leave files that do not belong together.
HalfDone(c) == Sits(c, "verify_file") \/ (Writing(c) /\ caller[c].next > 1)

Quiet == \A c \in Callers : ~Writing(c) /\ ~Sits(c, "read_dek")

Puts(f, v) == store' = [store EXCEPT ![f] = v]

\* Mutants of RecordFailure: the counter climbs on; one failure too many.
RecordFailureClimbing ==
    /\ guesses' = guesses + 1 /\ failures' = failures + 1
    /\ locked' = (locked \/ failures + 1 >= Threshold)
RecordFailureLate ==
    /\ guesses' = guesses + 1
    /\ IF failures + 1 > Threshold THEN failures' = 0 /\ locked' = TRUE
       ELSE failures' = failures + 1 /\ locked' = locked

(* recordFailure: after Threshold of them the address is locked out and    *)
(* counted anew; recordSuccess forgets the entry.                          *)
RecordFailure ==
    /\ guesses' = guesses + 1
    /\ IF failures + 1 >= Threshold THEN failures' = 0 /\ locked' = TRUE
       ELSE failures' = failures + 1 /\ locked' = locked
RecordSuccess == failures' = 0 /\ locked' = FALSE /\ guesses' = 0

\* Any error of UnlockDEK counts as a failed attempt, but not for a password
\* change or a command.
Refuses(c) ==
    /\ Becomes(c, Idle)
    /\ IF caller[c].kind = "unlock" THEN RecordFailure ELSE UNCHANGED lockout

------------------------------------------------------------------------------
(* POST /unlock: the lockout is checked, then UnlockDEK; ChangePassword    *)
(* begins with the same steps, behind the session gate.                    *)
Rest == UNCHANGED <<lockout, events>>

StartUnlock(c, pw) ==
    /\ Sits(c, "idle") /\ ~locked
    /\ Becomes(c, [Idle EXCEPT !.pc = "read_salt", !.pw = pw])
    /\ Rest /\ UNCHANGED <<storeVars, running, history, salts, deks>>

StartChange(c, pw, new) ==
    /\ Sits(c, "idle") /\ running # None
    /\ Becomes(c, [Idle EXCEPT !.pc = "read_salt", !.kind = "change", !.pw = pw, !.new = new])
    /\ Rest /\ UNCHANGED <<storeVars, running, history, salts, deks>>

\* unlockMasterKey of a command; no lockout there.
StartCommand(c, pw) ==
    /\ Sits(c, "idle") /\ Event
    /\ Becomes(c, [Idle EXCEPT !.pc = "read_salt", !.kind = "command", !.pw = pw])
    /\ UNCHANGED <<storeVars, running, history, lockout, salts, deks>>

ReadSalt(c) ==
    /\ Sits(c, "read_salt") /\ store.salt # None
    /\ Becomes(c, [caller[c] EXCEPT !.pc = "read_verify", !.key = <<store.salt, caller[c].pw>>])
    /\ Rest /\ UNCHANGED <<storeVars, running, history, salts, deks>>

\* No salt file: a first run.
Bootstrap(c) ==
    /\ Sits(c, "read_salt") /\ store.salt = None /\ FreshSalt /\ Enters(c)
    /\ Becomes(c, [caller[c] EXCEPT !.pc = "salt_file", !.key = <<salts', caller[c].pw>>])
    /\ Rest /\ UNCHANGED <<storeVars, running, password, used, deks>>

WriteSalt(c) ==
    /\ Sits(c, "salt_file") /\ Puts("salt", caller[c].key[1]) /\ Goes(c, "verify_file")
    /\ Rest /\ UNCHANGED <<tmp, running, history, salts, deks>>

WriteVerify(c) ==
    /\ Sits(c, "verify_file") /\ Puts("verify", caller[c].key) /\ Goes(c, "read_dek")
    /\ password' = caller[c].pw
    /\ Rest /\ UNCHANGED <<tmp, running, used, disturbed, salts, deks>>

\* A missing verifier is a corrupted store, another key a wrong password.
ReadVerify(c) ==
    /\ Sits(c, "read_verify")
    /\ IF store.verify = caller[c].key THEN Goes(c, "read_dek") /\ UNCHANGED lockout
       ELSE Refuses(c)
    /\ UNCHANGED <<storeVars, running, history, salts, deks, events>>

\* What the DEK is for: the vault, or a re-wrap under a new key.
Rewraps(c, id) ==
    /\ FreshSalt /\ Enters(c)
    /\ Becomes(c, [caller[c] EXCEPT !.pc = "tmp", !.dek = id, !.key = <<salts', caller[c].new>>])
Unwraps(c, id) ==
    IF caller[c].kind = "change" THEN Rewraps(c, id)
    ELSE Becomes(c, [caller[c] EXCEPT !.pc = "open", !.dek = id]) /\ UNCHANGED <<disturbed, salts>>

\* Mutant of ReadDEK: a DEK that cannot be unwrapped is replaced by a new one.
ReadDEKOrReplace(c) ==
    /\ Sits(c, "read_dek") /\ store.dek # None
    /\ IF store.dek.key = caller[c].key THEN Unwraps(c, store.dek.id) /\ deks' = deks
       ELSE FreshDek /\ UNCHANGED <<disturbed, salts>>
            /\ Becomes(c, [caller[c] EXCEPT !.pc = "dek_file", !.dek = deks'])
    /\ Rest /\ UNCHANGED <<storeVars, running, password, used>>

ReadDEK(c) ==
    /\ Sits(c, "read_dek") /\ store.dek # None
    /\ IF store.dek.key = caller[c].key THEN Unwraps(c, store.dek.id) /\ UNCHANGED lockout
       ELSE Refuses(c) /\ UNCHANGED <<disturbed, salts>>
    /\ UNCHANGED <<storeVars, running, password, used, deks, events>>

CreateDEK(c) ==
    /\ Sits(c, "read_dek") /\ store.dek = None /\ FreshDek /\ Enters(c)
    /\ Becomes(c, [caller[c] EXCEPT !.pc = "dek_file", !.dek = deks'])
    /\ Rest /\ UNCHANGED <<storeVars, running, password, used, salts>>

WriteDEK(c) ==
    /\ Sits(c, "dek_file")
    /\ Puts("dek", [key |-> caller[c].key, id |-> caller[c].dek])
    /\ Unwraps(c, caller[c].dek)
    /\ Rest /\ UNCHANGED <<tmp, running, password, used, deks>>

\* vaultState.unlock: the first DEK opens the backend, later ones are ignored.
OpenVault(c) ==
    /\ Sits(c, "open") /\ caller[c].kind = "unlock" /\ Becomes(c, Idle) /\ RecordSuccess
    /\ IF running = None THEN running' = caller[c].dek /\ used' = used \cup {caller[c].dek}
       ELSE UNCHANGED <<running, used>>
    /\ UNCHANGED <<storeVars, password, disturbed, salts, deks, events>>

\* A command works with the DEK and ends; the server started with the password
\* in its environment opens its vault (unlockFromEnv).
UseDEK(c) ==
    /\ Sits(c, "open") /\ caller[c].kind = "command" /\ Becomes(c, Idle)
    /\ used' = used \cup {caller[c].dek}
    /\ running' \in IF running = None THEN {None, caller[c].dek} ELSE {running}
    /\ Rest /\ UNCHANGED <<storeVars, password, disturbed, salts, deks>>

------------------------------------------------------------------------------
(* ChangePassword's writeFileAtomic of .dek, .mk-verify and .salt.         *)
File(c) == Files[caller[c].next]
NewContent(c) ==
    CASE File(c) = "salt"   -> caller[c].key[1]
      [] File(c) = "verify" -> caller[c].key
      [] File(c) = "dek"    -> [key |-> caller[c].key, id |-> caller[c].dek]

WriteTmp(c) ==
    /\ Sits(c, "tmp")
    /\ tmp' = [tmp EXCEPT ![File(c)] = NewContent(c)] /\ Goes(c, "rename")
    /\ Rest /\ UNCHANGED <<store, running, history, salts, deks>>

Rename(c) ==
    /\ Sits(c, "rename") /\ tmp[File(c)] # None
    /\ Puts(File(c), tmp[File(c)]) /\ tmp' = [tmp EXCEPT ![File(c)] = None]
    /\ IF caller[c].next < Len(Files)
       THEN Becomes(c, [caller[c] EXCEPT !.pc = "tmp", !.next = @ + 1]) /\ password' = password
       ELSE Becomes(c, Idle) /\ password' = caller[c].new
    /\ Rest /\ UNCHANGED <<running, used, disturbed, salts, deks>>

\* Another change renamed the same .tmp file first.
RenameMissing(c) ==
    /\ Sits(c, "rename") /\ tmp[File(c)] = None /\ Becomes(c, Idle)
    /\ Rest /\ UNCHANGED <<storeVars, running, history, salts, deks>>

WriteFails(c) ==
    /\ Writing(c) /\ Event /\ Refuses(c)
    /\ disturbed' = (disturbed \/ HalfDone(c))
    /\ UNCHANGED <<storeVars, running, password, used, salts, deks>>

\* The server ends, and the requests with it; it comes back locked.
Crash ==
    /\ Event /\ (running # None \/ \E c \in Callers : ~Sits(c, "idle"))
    /\ caller' = [c \in Callers |-> Idle] /\ running' = None
    /\ disturbed' = (disturbed \/ \E c \in Callers : HalfDone(c))
    /\ RecordSuccess                    \* the lockout is kept in memory only
    /\ UNCHANGED <<storeVars, password, used, salts, deks>>

LockoutExpires ==
    /\ locked /\ locked' = FALSE /\ guesses' = 0
    /\ UNCHANGED <<storeVars, caller, running, history, failures, salts, deks, events>>

------------------------------------------------------------------------------
Unlock(c) ==
    \/ \E pw \in Passwords : StartUnlock(c, pw) \/ StartCommand(c, pw)
    \/ ReadSalt(c) \/ Bootstrap(c) \/ WriteSalt(c) \/ WriteVerify(c) \/ ReadVerify(c)
    \/ ReadDEK(c) \/ CreateDEK(c) \/ WriteDEK(c) \/ OpenVault(c) \/ UseDEK(c)

ChangePassword(c) ==
    \/ \E pw, new \in Passwords : StartChange(c, pw, new)
    \/ WriteTmp(c) \/ Rename(c) \/ RenameMissing(c) \/ WriteFails(c)

Next ==
    \/ \E c \in Callers : Unlock(c) \/ ChangePassword(c)
    \/ LockoutExpires
    \/ Crash

Spec == Init /\ [][Next]_vars

------------------------------------------------------------------------------
StoreTypes ==
    [salt : (1 .. MaxSalts) \cup {None}, verify : Keys \cup {None}, dek : Wrapped \cup {None}]

CallerType ==
    [pc : {"idle", "read_salt", "salt_file", "verify_file", "read_verify", "read_dek",
           "dek_file", "open", "tmp", "rename"},
     kind : {"unlock", "change", "command"},
     pw : Passwords \cup {None}, new : Passwords \cup {None}, key : Keys \cup {None},
     dek : (1 .. MaxDeks) \cup {None}, next : DOMAIN Files]

(* Types; a caller that is past the verifier holds a key, one that is past *)
(* .dek a DEK, and a vault runs on a DEK that was generated.               *)
TypeOK ==
    /\ store \in StoreTypes /\ tmp \in StoreTypes
    /\ caller \in [Callers -> CallerType]
    /\ \A c \in Callers :
         /\ ~Sits(c, "idle") => caller[c].pw \in Passwords
         /\ ~Sits(c, "idle") /\ caller[c].kind = "change" => caller[c].new \in Passwords
         /\ caller[c].pc \in {"read_verify", "read_dek"} => caller[c].key \in Keys
         /\ Writing(c) => caller[c].key \in Keys
         /\ caller[c].pc \in {"dek_file", "open", "tmp", "rename"} => caller[c].dek \in 1 .. deks
    /\ running \in used \cup {None} /\ used \subseteq 1 .. deks
    /\ password \in Passwords \cup {None} /\ disturbed \in BOOLEAN
    /\ failures \in 0 .. Threshold - 1 /\ locked \in BOOLEAN /\ guesses \in Nat
    /\ salts \in 0 .. MaxSalts /\ deks \in 0 .. MaxDeks /\ events \in 0 .. MaxEvents

(* The files of a store open with pw and yield the DEK id.                 *)
Opens(files, pw, id) ==
    /\ files.verify = <<files.salt, pw>>
    /\ files.dek # None /\ files.dek.key = files.verify /\ files.dek.id = id

(* Unless two writers of the store overlapped or one was cut short, the    *)
(* last password set opens the store and yields the one DEK everything is  *)
(* encrypted under, through any number of changes, failed attempts,        *)
(* restarts and a DEK created late (masterkey.go ChangePassword,           *)
(* LoadOrCreateDEK; state.go unlock).                                      *)
LastPasswordOpens ==
    Quiet /\ ~disturbed =>
        /\ store.salt # None => store.verify = <<store.salt, password>>
        /\ \A id \in used : Opens(store, password, id)

(* Between two lockouts, or a success, no more wrong passwords are tried   *)
(* than the threshold allows and requests were in flight past the check    *)
(* (unlock_lockout.go: "turning slow but unlimited into bounded").         *)
GuessesBounded == guesses < Threshold + Cardinality(Callers)
=============================================================================
