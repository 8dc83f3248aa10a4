----------------------------- MODULE VaultProofs -----------------------------
(***************************************************************************)
(* Proofs about the key store and the lockout of Vault, for any finite     *)
(* number of callers and any passwords, threshold and bounds.              *)
(*                                                                         *)
(* The inductive invariant VaultInv: the types; how far the guesses of the *)
(* address can be, by the callers past the lockout check; and what the     *)
(* files hold at each stage of the one writer, as long as no second writer *)
(* overlapped it and none was cut short half way.                          *)
(***************************************************************************)
EXTENDS Vault, FiniteSetTheorems, TLAPS

------------------------------------------------------------------------------
(* Only a password change replaces files, one after the other; a wrapped   *)
(* DEK is one of those generated.                                          *)
Staged(c) ==
    /\ caller[c].next # 1 => caller[c].pc \in {"tmp", "rename"}
    /\ caller[c].pc \in {"tmp", "rename"} => caller[c].kind = "change"

DeksKnown == /\ store.dek # None => store.dek.id \in 1 .. deks
             /\ tmp.dek # None => tmp.dek.id \in 1 .. deks

StageInv == DeksKnown /\ \A c \in Callers : Staged(c)

(* Requests past the lockout check that may still fail an unlock.          *)
InFlight == {c \in Callers : caller[c].kind = "unlock" /\ ~Sits(c, "idle")}

(* Before a lockout every guess is one of the counted failures; after it   *)
(* only those in flight can still add one, and no request joins them.      *)
LockInv ==
    /\ ~locked => guesses <= failures
    /\ locked => guesses + Cardinality(InFlight) < Threshold + Cardinality(Callers)

(* The files belong together, and with the last password.                  *)
Consistent ==
    /\ store.salt = None => store.verify = None /\ store.dek = None
    /\ store.salt # None => store.verify = <<store.salt, password>>
    /\ store.dek # None => store.dek.key = store.verify

(* What the files hold when c, the only writer, is about to write.         *)
Prepared(c) ==
    /\ Sits(c, "salt_file") =>
         /\ store.salt = None /\ store.verify = None /\ store.dek = None
         /\ caller[c].key[2] = caller[c].pw
    /\ Sits(c, "verify_file") =>
         /\ store.salt = caller[c].key[1] /\ store.verify = None /\ store.dek = None
         /\ caller[c].key[2] = caller[c].pw
    /\ Sits(c, "dek_file") =>
         /\ Consistent /\ store.dek = None /\ store.verify = caller[c].key
    /\ caller[c].pc \in {"tmp", "rename"} =>
         /\ store.salt # None /\ store.dek # None /\ store.dek.id = caller[c].dek
         /\ caller[c].key[2] = caller[c].new
         /\ caller[c].next = 1 => Consistent
         /\ caller[c].next = 2 => store.dek.key = caller[c].key
         /\ caller[c].next = 3 => store.dek.key = caller[c].key /\ store.verify = caller[c].key
    /\ Sits(c, "rename") =>
         /\ caller[c].next = 1 =>
              tmp.dek # None /\ tmp.dek.key = caller[c].key /\ tmp.dek.id = caller[c].dek
         /\ caller[c].next = 2 => tmp.verify = caller[c].key
         /\ caller[c].next = 3 => tmp.salt = caller[c].key[1]

OneWriter == \A c, d \in Callers : Writing(c) /\ Writing(d) => c = d
Settled   == (\A c \in Callers : ~Writing(c)) => Consistent

WriterInv == ~disturbed => OneWriter /\ Settled /\ \A c \in Callers : Prepared(c)

(* Undisturbed there is one DEK: callers that may create one hold the      *)
(* verifier's key, and those that hold one, like every vault that ran,     *)
(* hold the one in the store.                                              *)
Grasps(c) ==
    /\ Sits(c, "read_dek") /\ store.dek = None => caller[c].key = store.verify
    /\ Sits(c, "open") => store.dek # None /\ store.dek.id = caller[c].dek
UsedOne == \A id \in used : store.dek # None /\ store.dek.id = id

DekInv == ~disturbed => UsedOne /\ \A c \in Callers : Grasps(c)

VaultInv == TypeOK /\ StageInv /\ LockInv /\ WriterInv /\ DekInv
------------------------------------------------------------------------------
(* The store and the callers, a record at a time. *)
LEMMA FileOrder == /\ DOMAIN Files = 1 .. 3 /\ Len(Files) = 3
                   /\ Files[1] = "dek" /\ Files[2] = "verify" /\ Files[3] = "salt"
BY DEF Files

LEMMA StoreFields ==
  ASSUME NEW st \in StoreTypes
  PROVE  /\ st.salt \in (1 .. MaxSalts) \cup {None} /\ st.verify \in Keys \cup {None}
         /\ st.dek \in Wrapped \cup {None}
BY DEF StoreTypes

LEMMA KeyFields ==
  /\ \A k \in Keys : k[1] \in 1 .. MaxSalts /\ k[2] \in Passwords /\ k = <<k[1], k[2]>>
  /\ \A s \in 1 .. MaxSalts, pw \in Passwords : <<s, pw>> \in Keys
  /\ \A w \in Wrapped : w.key \in Keys /\ w.id \in 1 .. MaxDeks
  /\ \A k \in Keys, id \in 1 .. MaxDeks :
        /\ [key |-> k, id |-> id] \in Wrapped
        /\ [key |-> k, id |-> id].key = k /\ [key |-> k, id |-> id].id = id
  /\ None \notin 1 .. MaxSalts /\ None \notin Keys /\ None \notin Wrapped /\ None \notin 1 .. MaxDeks
BY VaultAssumption DEF Keys, Wrapped

LEMMA IdleFields ==
  /\ Idle \in CallerType /\ Idle.pc = "idle" /\ Idle.next = 1 /\ Idle.kind = "unlock"
  /\ Empty \in StoreTypes /\ Empty.salt = None /\ Empty.verify = None /\ Empty.dek = None
BY FileOrder DEF Idle, CallerType, Empty, StoreTypes

(* The caller that moves is the only one to. *)
Acts(c) == caller' \in [Callers -> CallerType] /\ \A d \in Callers : d # c => caller'[d] = caller[d]

(* It stays with its request. *)
Keeps(c) == /\ Acts(c) /\ caller'[c].kind = caller[c].kind
            /\ caller'[c].pw = caller[c].pw /\ caller'[c].new = caller[c].new

Advances(c, pc) == /\ Keeps(c) /\ caller'[c].pc = pc /\ caller'[c].next = caller[c].next

LEMMA CallerSets ==
  ASSUME TypeOK, NEW c \in Callers, NEW s \in CallerType, caller' = [caller EXCEPT ![c] = s]
  PROVE  Acts(c) /\ caller'[c] = s
BY DEF Acts, TypeOK

LEMMA CallerFields ==
  ASSUME TypeOK, NEW c \in Callers
  PROVE  /\ caller[c] \in CallerType
         /\ caller[c].pc \in {"idle", "read_salt", "salt_file", "verify_file", "read_verify", "read_dek",
                              "dek_file", "open", "tmp", "rename"}
         /\ caller[c].kind \in {"unlock", "change", "command"}
         /\ caller[c].pw \in Passwords \cup {None} /\ caller[c].new \in Passwords \cup {None}
         /\ caller[c].key \in Keys \cup {None} /\ caller[c].dek \in (1 .. MaxDeks) \cup {None}
         /\ caller[c].next \in 1 .. 3
BY FileOrder DEF TypeOK, CallerType

LEMMA Starting ==
  ASSUME TypeOK, NEW c \in Callers, NEW pw \in Passwords
  PROVE  /\ StartUnlock(c, pw) \/ StartCommand(c, pw) =>
              /\ Acts(c) /\ caller'[c].pc = "read_salt" /\ caller'[c].next = 1
              /\ caller'[c].pw = pw /\ caller'[c].kind # "change"
         /\ StartCommand(c, pw) => caller'[c].kind = "command"
         /\ \A new \in Passwords : StartChange(c, pw, new) =>
              /\ Acts(c) /\ caller'[c].pc = "read_salt" /\ caller'[c].next = 1
              /\ caller'[c].pw = pw /\ caller'[c].new = new /\ caller'[c].kind = "change"
<1>1. ASSUME StartUnlock(c, pw)
      PROVE  /\ Acts(c) /\ caller'[c].pc = "read_salt" /\ caller'[c].next = 1
             /\ caller'[c].pw = pw /\ caller'[c].kind = "unlock"
  <2>1. PICK s : s = [Idle EXCEPT !.pc = "read_salt", !.pw = pw]
    OBVIOUS
  <2>2. s \in CallerType /\ s.pc = "read_salt" /\ s.next = 1 /\ s.pw = pw /\ s.kind = "unlock"
    BY <2>1, IdleFields DEF CallerType
  <2> QED BY <1>1, <2>1, <2>2, CallerSets DEF StartUnlock, Becomes
<1>2. ASSUME StartCommand(c, pw)
      PROVE  /\ Acts(c) /\ caller'[c].pc = "read_salt" /\ caller'[c].next = 1
             /\ caller'[c].pw = pw /\ caller'[c].kind = "command"
  <2>1. PICK s : s = [Idle EXCEPT !.pc = "read_salt", !.kind = "command", !.pw = pw]
    OBVIOUS
  <2>2. s \in CallerType /\ s.pc = "read_salt" /\ s.next = 1 /\ s.pw = pw /\ s.kind = "command"
    BY <2>1, IdleFields DEF CallerType
  <2> QED BY <1>2, <2>1, <2>2, CallerSets DEF StartCommand, Becomes
<1>3. ASSUME NEW new \in Passwords, StartChange(c, pw, new)
      PROVE  /\ Acts(c) /\ caller'[c].pc = "read_salt" /\ caller'[c].next = 1
             /\ caller'[c].pw = pw /\ caller'[c].new = new /\ caller'[c].kind = "change"
  <2>1. PICK s : s = [Idle EXCEPT !.pc = "read_salt", !.kind = "change", !.pw = pw, !.new = new]
    OBVIOUS
  <2>2. s \in CallerType /\ s.pc = "read_salt" /\ s.next = 1 /\ s.pw = pw /\ s.new = new /\ s.kind = "change"
    BY <2>1, IdleFields DEF CallerType
  <2> QED BY <1>3, <2>1, <2>2, CallerSets DEF StartChange, Becomes
<1> QED BY <1>1, <1>2, <1>3

LEMMA Moving ==
  ASSUME TypeOK, NEW c \in Callers
  PROVE  /\ \A pc \in {"verify_file", "read_dek", "rename"} : Goes(c, pc) =>
               Advances(c, pc) /\ caller'[c].key = caller[c].key /\ caller'[c].dek = caller[c].dek
         /\ \A pc \in {"read_verify", "salt_file"}, k \in Keys :
               Becomes(c, [caller[c] EXCEPT !.pc = pc, !.key = k]) =>
                  Advances(c, pc) /\ caller'[c].key = k
         /\ \A pc \in {"open", "dek_file"}, id \in 1 .. MaxDeks :
               Becomes(c, [caller[c] EXCEPT !.pc = pc, !.dek = id]) =>
                  Advances(c, pc) /\ caller'[c].key = caller[c].key /\ caller'[c].dek = id
         /\ \A id \in 1 .. MaxDeks, k \in Keys :
               Becomes(c, [caller[c] EXCEPT !.pc = "tmp", !.dek = id, !.key = k]) =>
                  Advances(c, "tmp") /\ caller'[c].key = k /\ caller'[c].dek = id
         /\ caller[c].next < 3 /\ Becomes(c, [caller[c] EXCEPT !.pc = "tmp", !.next = @ + 1]) =>
               /\ Keeps(c) /\ caller'[c].pc = "tmp" /\ caller'[c].next = caller[c].next + 1
               /\ caller'[c].key = caller[c].key /\ caller'[c].dek = caller[c].dek
         /\ Becomes(c, Idle) => Acts(c) /\ caller'[c] = Idle
<1>1. caller[c] \in CallerType
  BY CallerFields
<1>2. ASSUME NEW pc \in {"verify_file", "read_dek", "rename"}, Goes(c, pc)
      PROVE  Advances(c, pc) /\ caller'[c].key = caller[c].key /\ caller'[c].dek = caller[c].dek
  <2>1. PICK s : s = [caller[c] EXCEPT !.pc = pc]
    OBVIOUS
  <2>2. s \in CallerType
    BY <1>1, <2>1 DEF CallerType
  <2>3. /\ s.pc = pc /\ s.kind = caller[c].kind /\ s.pw = caller[c].pw /\ s.new = caller[c].new
        /\ s.key = caller[c].key /\ s.dek = caller[c].dek /\ s.next = caller[c].next
    BY <1>1, <2>1 DEF CallerType
  <2>4. caller' = [caller EXCEPT ![c] = s]
    BY <1>2, <2>1 DEF Goes
  <2> QED BY <2>2, <2>3, <2>4, CallerSets DEF Advances, Keeps
<1>3. ASSUME NEW pc \in {"read_verify", "salt_file"}, NEW k \in Keys,
             Becomes(c, [caller[c] EXCEPT !.pc = pc, !.key = k])
      PROVE  Advances(c, pc) /\ caller'[c].key = k
  <2>1. PICK s : s = [caller[c] EXCEPT !.pc = pc, !.key = k]
    OBVIOUS
  <2>2. s \in CallerType
    BY <1>1, <2>1 DEF CallerType
  <2>3. /\ s.pc = pc /\ s.kind = caller[c].kind /\ s.pw = caller[c].pw /\ s.new = caller[c].new
        /\ s.key = k /\ s.next = caller[c].next
    BY <1>1, <2>1 DEF CallerType
  <2> QED BY <1>3, <2>1, <2>2, <2>3, CallerSets DEF Advances, Keeps, Becomes
<1>4. ASSUME NEW pc \in {"open", "dek_file"}, NEW id \in 1 .. MaxDeks,
             Becomes(c, [caller[c] EXCEPT !.pc = pc, !.dek = id])
      PROVE  Advances(c, pc) /\ caller'[c].key = caller[c].key /\ caller'[c].dek = id
  <2>1. PICK s : s = [caller[c] EXCEPT !.pc = pc, !.dek = id]
    OBVIOUS
  <2>2. s \in CallerType
    BY <1>1, <2>1 DEF CallerType
  <2>3. /\ s.pc = pc /\ s.kind = caller[c].kind /\ s.pw = caller[c].pw /\ s.new = caller[c].new
        /\ s.key = caller[c].key /\ s.dek = id /\ s.next = caller[c].next
    BY <1>1, <2>1 DEF CallerType
  <2> QED BY <1>4, <2>1, <2>2, <2>3, CallerSets DEF Advances, Keeps, Becomes
<1>5. ASSUME NEW id \in 1 .. MaxDeks, NEW k \in Keys,
             Becomes(c, [caller[c] EXCEPT !.pc = "tmp", !.dek = id, !.key = k])
      PROVE  Advances(c, "tmp") /\ caller'[c].key = k /\ caller'[c].dek = id
  <2>1. PICK s : s = [caller[c] EXCEPT !.pc = "tmp", !.dek = id, !.key = k]
    OBVIOUS
  <2>2. s \in CallerType
    BY <1>1, <2>1 DEF CallerType
  <2>3. /\ s.pc = "tmp" /\ s.kind = caller[c].kind /\ s.pw = caller[c].pw /\ s.new = caller[c].new
        /\ s.key = k /\ s.dek = id /\ s.next = caller[c].next
    BY <1>1, <2>1 DEF CallerType
  <2> QED BY <1>5, <2>1, <2>2, <2>3, CallerSets DEF Advances, Keeps, Becomes
<1>6. ASSUME caller[c].next < 3, Becomes(c, [caller[c] EXCEPT !.pc = "tmp", !.next = @ + 1])
      PROVE  /\ Keeps(c) /\ caller'[c].pc = "tmp" /\ caller'[c].next = caller[c].next + 1
             /\ caller'[c].key = caller[c].key /\ caller'[c].dek = caller[c].dek
  <2>1. PICK s : s = [caller[c] EXCEPT !.pc = "tmp", !.next = @ + 1]
    OBVIOUS
  <2>2. s \in CallerType
    <3>1. caller[c].next + 1 \in DOMAIN Files
      BY <1>6, CallerFields, FileOrder
    <3> QED BY <1>1, <2>1, <3>1 DEF CallerType
  <2>3. /\ s.pc = "tmp" /\ s.kind = caller[c].kind /\ s.pw = caller[c].pw /\ s.new = caller[c].new
        /\ s.key = caller[c].key /\ s.dek = caller[c].dek /\ s.next = caller[c].next + 1
    BY <1>1, <2>1 DEF CallerType
  <2> QED BY <1>6, <2>1, <2>2, <2>3, CallerSets DEF Keeps, Becomes
<1>7. Becomes(c, Idle) => Acts(c) /\ caller'[c] = Idle
  BY IdleFields, CallerSets DEF Becomes
<1> QED BY <1>2, <1>3, <1>4, <1>5, <1>6, <1>7

(* What each action does to its caller. *)
Yields(c, id) ==
    /\ caller[c].kind = "change" =>
         /\ Advances(c, "tmp") /\ caller'[c].dek = id
         /\ caller'[c].key = <<salts', caller[c].new>> /\ Enters(c)
    /\ caller[c].kind # "change" =>
         /\ Advances(c, "open") /\ caller'[c].dek = id
         /\ disturbed' = disturbed /\ salts' = salts
    /\ caller'[c].key \in Keys \/ caller'[c].key = caller[c].key
    /\ salts' \in 0 .. MaxSalts

Leaves(c) == Acts(c) /\ caller'[c] = Idle

LEMMA Salted ==
  ASSUME TypeOK, FreshSalt
  PROVE  salts' \in 1 .. MaxSalts
BY VaultAssumption DEF TypeOK, FreshSalt

LEMMA DekNumbered ==
  ASSUME TypeOK, FreshDek
  PROVE  deks' \in 1 .. MaxDeks /\ deks' = deks + 1
BY VaultAssumption DEF TypeOK, FreshDek

LEMMA Unwrapping ==
  ASSUME TypeOK, NEW c \in Callers, NEW id \in 1 .. MaxDeks, Unwraps(c, id), ~Sits(c, "idle")
  PROVE  Yields(c, id)
<1>1. CASE caller[c].kind = "change"
  <2>1. Rewraps(c, id) /\ caller[c].new \in Passwords
    BY <1>1 DEF Unwraps, TypeOK
  <2>2. salts' \in 1 .. MaxSalts
    BY <2>1, Salted DEF Rewraps
  <2>3. PICK k \in Keys : k = <<salts', caller[c].new>>
    BY <2>1, <2>2, KeyFields
  <2>4. Becomes(c, [caller[c] EXCEPT !.pc = "tmp", !.dek = id, !.key = k])
    BY <2>1, <2>3 DEF Rewraps
  <2>5. Advances(c, "tmp") /\ caller'[c].key = k /\ caller'[c].dek = id
    BY <2>4, Moving
  <2> QED BY <1>1, <2>1, <2>2, <2>3, <2>5 DEF Yields, Rewraps
<1>2. CASE caller[c].kind # "change"
  <2>1. /\ Becomes(c, [caller[c] EXCEPT !.pc = "open", !.dek = id])
        /\ disturbed' = disturbed /\ salts' = salts
    BY <1>2 DEF Unwraps
  <2>2. Advances(c, "open") /\ caller'[c].key = caller[c].key /\ caller'[c].dek = id
    BY <2>1, Moving
  <2> QED BY <1>2, <2>1, <2>2 DEF Yields, TypeOK
<1> QED BY <1>1, <1>2

LEMMA CallerSteps ==
  ASSUME TypeOK, NEW c \in Callers
  PROVE  /\ ReadSalt(c) => /\ Advances(c, "read_verify") /\ caller'[c].key = <<store.salt, caller[c].pw>>
                           /\ caller'[c].key \in Keys
         /\ Bootstrap(c) => /\ Advances(c, "salt_file") /\ caller'[c].key = <<salts', caller[c].pw>>
                            /\ caller'[c].key \in Keys /\ salts' \in 1 .. MaxSalts
         /\ WriteSalt(c) => Advances(c, "verify_file") /\ caller'[c].key = caller[c].key
         /\ WriteVerify(c) => Advances(c, "read_dek") /\ caller'[c].key = caller[c].key
         /\ ReadVerify(c) => IF store.verify = caller[c].key
                             THEN Advances(c, "read_dek") /\ caller'[c].key = caller[c].key ELSE Leaves(c)
         /\ ReadDEK(c) => IF store.dek.key = caller[c].key THEN Yields(c, store.dek.id)
                          ELSE Leaves(c) /\ disturbed' = disturbed /\ salts' = salts
         /\ CreateDEK(c) => /\ Advances(c, "dek_file") /\ caller'[c].key = caller[c].key
                            /\ caller'[c].dek = deks' /\ deks' = deks + 1 /\ deks' \in 1 .. MaxDeks
         /\ WriteDEK(c) => Yields(c, caller[c].dek)
         /\ OpenVault(c) \/ UseDEK(c) \/ RenameMissing(c) \/ WriteFails(c) => Leaves(c)
         /\ WriteTmp(c) => /\ Advances(c, "rename") /\ caller'[c].key = caller[c].key
                           /\ caller'[c].dek = caller[c].dek
         /\ Rename(c) => IF caller[c].next < 3
                         THEN /\ Keeps(c) /\ caller'[c].pc = "tmp" /\ caller'[c].next = caller[c].next + 1
                              /\ caller'[c].key = caller[c].key /\ caller'[c].dek = caller[c].dek
                              /\ password' = password
                         ELSE Leaves(c) /\ password' = caller[c].new
<1>1. ASSUME ReadSalt(c)
      PROVE  /\ Advances(c, "read_verify") /\ caller'[c].key = <<store.salt, caller[c].pw>>
             /\ caller'[c].key \in Keys
  <2>1. store.salt \in 1 .. MaxSalts /\ caller[c].pw \in Passwords
    BY <1>1, StoreFields DEF ReadSalt, Sits, TypeOK
  <2>2. PICK k \in Keys : k = <<store.salt, caller[c].pw>>
    BY <2>1, KeyFields
  <2> QED BY <1>1, <2>2, Moving DEF ReadSalt
<1>2. ASSUME Bootstrap(c)
      PROVE  /\ Advances(c, "salt_file") /\ caller'[c].key = <<salts', caller[c].pw>>
             /\ caller'[c].key \in Keys /\ salts' \in 1 .. MaxSalts
  <2>1. salts' \in 1 .. MaxSalts /\ caller[c].pw \in Passwords
    BY <1>2, Salted DEF Bootstrap, Sits, TypeOK
  <2>2. PICK k \in Keys : k = <<salts', caller[c].pw>>
    BY <2>1, KeyFields
  <2> QED BY <1>2, <2>1, <2>2, Moving DEF Bootstrap
<1>3. WriteSalt(c) => Advances(c, "verify_file") /\ caller'[c].key = caller[c].key
  BY Moving DEF WriteSalt
<1>4. WriteVerify(c) => Advances(c, "read_dek") /\ caller'[c].key = caller[c].key
  BY Moving DEF WriteVerify
<1>5. ReadVerify(c) => IF store.verify = caller[c].key
                       THEN Advances(c, "read_dek") /\ caller'[c].key = caller[c].key ELSE Leaves(c)
  BY Moving DEF ReadVerify, Refuses, Leaves
<1>6. ReadDEK(c) => IF store.dek.key = caller[c].key THEN Yields(c, store.dek.id)
                    ELSE Leaves(c) /\ disturbed' = disturbed /\ salts' = salts
  <2>1. ReadDEK(c) => store.dek.id \in 1 .. MaxDeks /\ ~Sits(c, "idle")
    BY StoreFields, KeyFields DEF ReadDEK, Sits, TypeOK
  <2> QED BY <2>1, Moving, Unwrapping DEF ReadDEK, Refuses, Leaves
<1>7. CreateDEK(c) => /\ Advances(c, "dek_file") /\ caller'[c].key = caller[c].key
                      /\ caller'[c].dek = deks' /\ deks' = deks + 1 /\ deks' \in 1 .. MaxDeks
  BY DekNumbered, Moving DEF CreateDEK
<1>8. WriteDEK(c) => Yields(c, caller[c].dek)
  <2>1. WriteDEK(c) => caller[c].dek \in 1 .. MaxDeks /\ ~Sits(c, "idle")
    BY CallerFields, VaultAssumption DEF WriteDEK, Sits, TypeOK
  <2> QED BY <2>1, Unwrapping DEF WriteDEK
<1>9. OpenVault(c) \/ UseDEK(c) \/ RenameMissing(c) \/ WriteFails(c) => Leaves(c)
  BY Moving DEF OpenVault, UseDEK, RenameMissing, WriteFails, Refuses, Leaves
<1>10. WriteTmp(c) => /\ Advances(c, "rename") /\ caller'[c].key = caller[c].key
                      /\ caller'[c].dek = caller[c].dek
  BY Moving DEF WriteTmp
<1>11. Rename(c) => IF caller[c].next < 3
                    THEN /\ Keeps(c) /\ caller'[c].pc = "tmp" /\ caller'[c].next = caller[c].next + 1
                         /\ caller'[c].key = caller[c].key /\ caller'[c].dek = caller[c].dek
                         /\ password' = password
                    ELSE Leaves(c) /\ password' = caller[c].new
  BY Moving, FileOrder DEF Rename, Leaves
<1> QED BY <1>1, <1>2, <1>3, <1>4, <1>5, <1>6, <1>7, <1>8, <1>9, <1>10, <1>11

(* What each action does to the files. *)
StoreStays == store' = store /\ tmp' = tmp

LEMMA FileSteps ==
  ASSUME TypeOK, NEW c \in Callers
  PROVE  /\ WriteSalt(c) =>
              /\ store' \in StoreTypes /\ tmp' = tmp
              /\ store'.salt = caller[c].key[1] /\ store'.verify = store.verify /\ store'.dek = store.dek
         /\ WriteVerify(c) =>
              /\ store' \in StoreTypes /\ tmp' = tmp
              /\ store'.salt = store.salt /\ store'.verify = caller[c].key /\ store'.dek = store.dek
         /\ WriteDEK(c) =>
              /\ store' \in StoreTypes /\ tmp' = tmp
              /\ store'.salt = store.salt /\ store'.verify = store.verify /\ store'.dek # None
              /\ store'.dek.key = caller[c].key /\ store'.dek.id = caller[c].dek
         /\ WriteTmp(c) =>
              /\ tmp' \in StoreTypes /\ store' = store
              /\ IF caller[c].next = 1
                 THEN tmp'.dek # None /\ tmp'.dek.key = caller[c].key /\ tmp'.dek.id = caller[c].dek
                 ELSE tmp'.dek = tmp.dek
              /\ caller[c].next = 2 => tmp'.verify = caller[c].key
              /\ caller[c].next = 3 => tmp'.salt = caller[c].key[1]
         /\ Rename(c) =>
              /\ store' \in StoreTypes /\ tmp' \in StoreTypes
              /\ tmp'.dek \in {tmp.dek, None}
              /\ IF caller[c].next = 1 THEN store'.dek = tmp.dek ELSE store'.dek = store.dek
              /\ IF caller[c].next = 2 THEN store'.verify = tmp.verify ELSE store'.verify = store.verify
              /\ IF caller[c].next = 3 THEN store'.salt = tmp.salt /\ tmp.salt # None ELSE store'.salt = store.salt
<1>1. store \in StoreTypes /\ tmp \in StoreTypes
  BY DEF TypeOK
<1>2. ASSUME WriteSalt(c)
      PROVE  /\ store' \in StoreTypes /\ tmp' = tmp
             /\ store'.salt = caller[c].key[1] /\ store'.verify = store.verify /\ store'.dek = store.dek
  <2>1. PICK st, v, new : st = store /\ v = caller[c].key[1] /\ new = [st EXCEPT !["salt"] = v]
    OBVIOUS
  <2>2. v \in 1 .. MaxSalts /\ st \in StoreTypes
    BY <1>1, <1>2, <2>1, KeyFields DEF TypeOK, WriteSalt, Sits, Writing
  <2>3. store' = new /\ tmp' = tmp
    BY <1>2, <2>1 DEF WriteSalt, Puts
  <2>4. new \in StoreTypes /\ new.salt = v /\ new.verify = st.verify /\ new.dek = st.dek
    BY <2>1, <2>2 DEF StoreTypes
  <2> QED BY <2>1, <2>3, <2>4
<1>3. ASSUME WriteVerify(c)
      PROVE  /\ store' \in StoreTypes /\ tmp' = tmp
             /\ store'.salt = store.salt /\ store'.verify = caller[c].key /\ store'.dek = store.dek
  <2>1. PICK st, v, new : st = store /\ v = caller[c].key /\ new = [st EXCEPT !["verify"] = v]
    OBVIOUS
  <2>2. v \in Keys /\ st \in StoreTypes
    BY <1>1, <1>3, <2>1 DEF TypeOK, WriteVerify, Sits, Writing
  <2>3. store' = new /\ tmp' = tmp
    BY <1>3, <2>1 DEF WriteVerify, Puts
  <2>4. new \in StoreTypes /\ new.salt = st.salt /\ new.verify = v /\ new.dek = st.dek
    BY <2>1, <2>2 DEF StoreTypes
  <2> QED BY <2>1, <2>3, <2>4
<1>4. ASSUME caller[c].pc \in {"dek_file", "tmp", "rename"}
      PROVE  \E w \in Wrapped : /\ w = [key |-> caller[c].key, id |-> caller[c].dek]
                                /\ w.key = caller[c].key /\ w.id = caller[c].dek
  <2>1. PICK k, id : k = caller[c].key /\ id = caller[c].dek
    OBVIOUS
  <2>2. k \in Keys
    BY <1>4, <2>1 DEF TypeOK, Writing
  <2>3. id \in 1 .. MaxDeks
    BY <1>4, <2>1, VaultAssumption DEF TypeOK
  <2> QED BY <2>1, <2>2, <2>3, KeyFields
<1>5. ASSUME WriteDEK(c)
      PROVE  /\ store' \in StoreTypes /\ tmp' = tmp
             /\ store'.salt = store.salt /\ store'.verify = store.verify /\ store'.dek # None
             /\ store'.dek.key = caller[c].key /\ store'.dek.id = caller[c].dek
  <2>1. PICK w \in Wrapped : /\ w = [key |-> caller[c].key, id |-> caller[c].dek]
                             /\ w.key = caller[c].key /\ w.id = caller[c].dek
    BY <1>4, <1>5 DEF WriteDEK, Sits
  <2>2. PICK st, new : st = store /\ new = [st EXCEPT !["dek"] = w]
    OBVIOUS
  <2>3. store' = new /\ tmp' = tmp
    BY <1>5, <2>1, <2>2 DEF WriteDEK, Puts
  <2>4. new \in StoreTypes /\ new.salt = st.salt /\ new.verify = st.verify /\ new.dek = w
    BY <1>1, <2>2 DEF StoreTypes
  <2>5. w # None
    BY KeyFields
  <2> QED BY <2>1, <2>2, <2>3, <2>4, <2>5
<1>6. ASSUME WriteTmp(c)
      PROVE  /\ tmp' \in StoreTypes /\ store' = store
             /\ IF caller[c].next = 1
                THEN tmp'.dek # None /\ tmp'.dek.key = caller[c].key /\ tmp'.dek.id = caller[c].dek
                ELSE tmp'.dek = tmp.dek
             /\ caller[c].next = 2 => tmp'.verify = caller[c].key
             /\ caller[c].next = 3 => tmp'.salt = caller[c].key[1]
  <2>1. PICK w \in Wrapped : /\ w = [key |-> caller[c].key, id |-> caller[c].dek]
                             /\ w.key = caller[c].key /\ w.id = caller[c].dek
    BY <1>4, <1>6 DEF WriteTmp, Sits
  <2>2. caller[c].key \in Keys /\ caller[c].key[1] \in 1 .. MaxSalts /\ caller[c].next \in 1 .. 3 /\ w # None
    BY <1>6, KeyFields, CallerFields DEF TypeOK, WriteTmp, Sits, Writing
  <2>3. PICK st, v, s, new : /\ st = tmp /\ v = caller[c].key /\ s = caller[c].key[1]
                             /\ new = [st EXCEPT ![File(c)] = NewContent(c)]
    OBVIOUS
  <2>4. store' = store /\ tmp' = new
    BY <1>6, <2>3 DEF WriteTmp
  <2>5. CASE caller[c].next = 1
    <3>1. new = [st EXCEPT !["dek"] = w]
      BY <2>1, <2>3, <2>5, FileOrder DEF File, NewContent
    <3>2. new \in StoreTypes /\ new.dek = w
      BY <1>1, <2>3, <3>1 DEF StoreTypes
    <3> QED BY <2>1, <2>2, <2>4, <2>5, <3>2
  <2>6. CASE caller[c].next = 2
    <3>1. new = [st EXCEPT !["verify"] = v]
      BY <2>3, <2>6, FileOrder DEF File, NewContent
    <3>2. new \in StoreTypes /\ new.verify = v /\ new.dek = st.dek
      BY <1>1, <2>2, <2>3, <3>1 DEF StoreTypes
    <3> QED BY <2>3, <2>4, <2>6, <3>2
  <2>7. CASE caller[c].next = 3
    <3>1. new = [st EXCEPT !["salt"] = s]
      BY <2>3, <2>7, FileOrder DEF File, NewContent
    <3>2. new \in StoreTypes /\ new.salt = s /\ new.dek = st.dek
      BY <1>1, <2>2, <2>3, <3>1 DEF StoreTypes
    <3> QED BY <2>3, <2>4, <2>7, <3>2
  <2> QED BY <2>2, <2>5, <2>6, <2>7
<1>7. ASSUME Rename(c)
      PROVE  /\ store' \in StoreTypes /\ tmp' \in StoreTypes
             /\ tmp'.dek \in {tmp.dek, None}
             /\ IF caller[c].next = 1 THEN store'.dek = tmp.dek ELSE store'.dek = store.dek
             /\ IF caller[c].next = 2 THEN store'.verify = tmp.verify ELSE store'.verify = store.verify
             /\ IF caller[c].next = 3 THEN store'.salt = tmp.salt /\ tmp.salt # None ELSE store'.salt = store.salt
  <2>1. caller[c].next \in 1 .. 3
    BY CallerFields
  <2>2. PICK st, old, new, rest : /\ st = store /\ old = tmp
                                  /\ new = [st EXCEPT ![File(c)] = old[File(c)]]
                                  /\ rest = [old EXCEPT ![File(c)] = None]
    OBVIOUS
  <2>3. store' = new /\ tmp' = rest /\ old[File(c)] # None
    BY <1>7, <2>2 DEF Rename, Puts
  <2>4. st \in StoreTypes /\ old \in StoreTypes
    BY <1>1, <2>2
  <2>5. CASE caller[c].next = 1
    <3>1. PICK v : v = old.dek
      OBVIOUS
    <3>2. new = [st EXCEPT !["dek"] = v] /\ rest = [old EXCEPT !["dek"] = None]
      BY <2>2, <2>5, <3>1, FileOrder DEF File
    <3>3. v \in Wrapped \cup {None}
      BY <2>4, <3>1, StoreFields
    <3>4. new \in StoreTypes /\ new.salt = st.salt /\ new.verify = st.verify /\ new.dek = v
      BY <2>4, <3>2, <3>3 DEF StoreTypes
    <3>5. rest \in StoreTypes /\ rest.dek = None
      BY <2>4, <3>2 DEF StoreTypes
    <3> QED BY <2>2, <2>3, <2>5, <3>1, <3>4, <3>5
  <2>6. CASE caller[c].next = 2
    <3>1. PICK v : v = old.verify
      OBVIOUS
    <3>2. new = [st EXCEPT !["verify"] = v] /\ rest = [old EXCEPT !["verify"] = None]
      BY <2>2, <2>6, <3>1, FileOrder DEF File
    <3>3. v \in Keys \cup {None}
      BY <2>4, <3>1, StoreFields
    <3>4. new \in StoreTypes /\ new.salt = st.salt /\ new.verify = v /\ new.dek = st.dek
      BY <2>4, <3>2, <3>3 DEF StoreTypes
    <3>5. rest \in StoreTypes /\ rest.dek = old.dek
      BY <2>4, <3>2 DEF StoreTypes
    <3> QED BY <2>2, <2>3, <2>6, <3>1, <3>4, <3>5
  <2>7. CASE caller[c].next = 3
    <3>1. PICK v : v = old.salt
      OBVIOUS
    <3>2. new = [st EXCEPT !["salt"] = v] /\ rest = [old EXCEPT !["salt"] = None] /\ v # None
      BY <2>2, <2>3, <2>7, <3>1, FileOrder DEF File
    <3>3. v \in (1 .. MaxSalts) \cup {None}
      BY <2>4, <3>1, StoreFields
    <3>4. new \in StoreTypes /\ new.salt = v /\ new.verify = st.verify /\ new.dek = st.dek
      BY <2>4, <3>2, <3>3 DEF StoreTypes
    <3>5. rest \in StoreTypes /\ rest.dek = old.dek
      BY <2>4, <3>2 DEF StoreTypes
    <3> QED BY <2>2, <2>3, <2>7, <3>1, <3>2, <3>4, <3>5
  <2> QED BY <2>1, <2>5, <2>6, <2>7
<1> QED BY <1>2, <1>3, <1>5, <1>6, <1>7

------------------------------------------------------------------------------
(* Types. *)
LEMMA Counters ==
  ASSUME TypeOK, Next
  PROVE  /\ salts' \in 0 .. MaxSalts
         /\ deks' \in 0 .. MaxDeks /\ deks <= deks'
         /\ events' \in 0 .. MaxEvents
<1>1. salts' = salts \/ FreshSalt
  BY DEF Next, Unlock, ChangePassword, StartUnlock, StartCommand, StartChange, ReadSalt, Bootstrap, WriteSalt,
       WriteVerify, ReadVerify, ReadDEK, CreateDEK, WriteDEK, OpenVault, UseDEK, WriteTmp, Rename,
       RenameMissing, WriteFails, Crash, LockoutExpires, Unwraps, Rewraps, Refuses, Rest, storeVars, history, lockout
<1>2. deks' = deks \/ FreshDek
  BY DEF Next, Unlock, ChangePassword, StartUnlock, StartCommand, StartChange, ReadSalt, Bootstrap, WriteSalt,
       WriteVerify, ReadVerify, ReadDEK, CreateDEK, WriteDEK, OpenVault, UseDEK, WriteTmp, Rename,
       RenameMissing, WriteFails, Crash, LockoutExpires, Unwraps, Rewraps, Refuses, Rest, storeVars, history, lockout
<1>3. events' = events \/ Event
  BY DEF Next, Unlock, ChangePassword, StartUnlock, StartCommand, StartChange, ReadSalt, Bootstrap, WriteSalt,
       WriteVerify, ReadVerify, ReadDEK, CreateDEK, WriteDEK, OpenVault, UseDEK, WriteTmp, Rename,
       RenameMissing, WriteFails, Crash, LockoutExpires, Unwraps, Rewraps, Refuses, Rest, storeVars, history, lockout
<1>4. salts' \in 0 .. MaxSalts
  BY <1>1, Salted DEF TypeOK
<1>5. deks' \in 0 .. MaxDeks /\ deks <= deks'
  BY <1>2, DekNumbered, VaultAssumption DEF TypeOK
<1>6. events' \in 0 .. MaxEvents
  BY <1>3, VaultAssumption DEF TypeOK, Event
<1> QED BY <1>4, <1>5, <1>6

LEMMA Locking ==
  ASSUME TypeOK, Next
  PROVE  failures' \in 0 .. Threshold - 1 /\ locked' \in BOOLEAN /\ guesses' \in Nat
<1>1. UNCHANGED lockout \/ RecordFailure \/ RecordSuccess
        \/ (failures' = failures /\ locked' = FALSE /\ guesses' = 0)
  <2>1. ASSUME NEW c \in Callers, Unlock(c) \/ ChangePassword(c)
        PROVE  UNCHANGED lockout \/ RecordFailure \/ RecordSuccess
    BY <2>1 DEF Unlock, ChangePassword, StartUnlock, StartCommand, StartChange, ReadSalt, Bootstrap, WriteSalt,
       WriteVerify, ReadVerify, ReadDEK, CreateDEK, WriteDEK, OpenVault, UseDEK, WriteTmp, Rename,
       RenameMissing, WriteFails, Refuses, Rest
  <2>2. Crash => RecordSuccess
    BY DEF Crash
  <2>3. LockoutExpires => failures' = failures /\ locked' = FALSE /\ guesses' = 0
    BY DEF LockoutExpires
  <2> QED BY <2>1, <2>2, <2>3 DEF Next
<1>2. /\ failures \in 0 .. Threshold - 1 /\ locked \in BOOLEAN /\ guesses \in Nat
      /\ Threshold \in Nat /\ Threshold # 0
  BY VaultAssumption DEF TypeOK
<1>3. locked' \in {locked, TRUE, FALSE}
  BY <1>1 DEF RecordFailure, RecordSuccess, lockout
<1>4. guesses' \in {guesses, guesses + 1, 0}
  BY <1>1 DEF RecordFailure, RecordSuccess, lockout
<1>5. failures' = failures \/ failures' = 0 \/ (failures' = failures + 1 /\ ~(failures + 1 >= Threshold))
  BY <1>1 DEF RecordFailure, RecordSuccess, lockout
<1>6. failures' \in 0 .. Threshold - 1
  BY <1>2, <1>5
<1>7. guesses' \in Nat
  BY <1>2, <1>4
<1>8. locked' \in BOOLEAN
  BY <1>2, <1>3
<1> QED BY <1>6, <1>7, <1>8

LEMMA Histories ==
  ASSUME TypeOK, Next
  PROVE  /\ running' \in used' \cup {None} /\ used' \subseteq 1 .. deks'
         /\ password' \in Passwords \cup {None} /\ disturbed' \in BOOLEAN
<1>1. \/ running' = running /\ used' = used
      \/ running' = None /\ used' = used
      \/ \E c \in Callers : Sits(c, "open") /\ used' = used \cup {caller[c].dek}
                            /\ running' \in {running, caller[c].dek, None}
  BY DEF Next, Unlock, ChangePassword, StartUnlock, StartCommand, StartChange, ReadSalt, Bootstrap, WriteSalt,
       WriteVerify, ReadVerify, ReadDEK, CreateDEK, WriteDEK, OpenVault, UseDEK, WriteTmp, Rename,
       RenameMissing, WriteFails, Crash, LockoutExpires, Unwraps, Rewraps, Refuses, Rest, storeVars, history, lockout
<1>2. \A c \in Callers : Sits(c, "open") => caller[c].dek \in 1 .. deks
  BY DEF TypeOK, Sits
<1>3. deks \in Nat /\ deks' \in Nat /\ deks <= deks'
  BY Counters, VaultAssumption DEF TypeOK
<1>4. 1 .. deks \subseteq 1 .. deks'
  BY <1>3
<1>5. running' \in used' \cup {None} /\ used' \subseteq 1 .. deks
  BY <1>1, <1>2 DEF TypeOK
<1>6. \/ password' = password
      \/ \E c \in Callers : ~Sits(c, "idle") /\ password' = caller[c].pw
      \/ \E c \in Callers : Sits(c, "rename") /\ password' = caller[c].new
  BY DEF Next, Unlock, ChangePassword, StartUnlock, StartCommand, StartChange, ReadSalt, Bootstrap, WriteSalt,
       WriteVerify, ReadVerify, ReadDEK, CreateDEK, WriteDEK, OpenVault, UseDEK, WriteTmp, Rename,
       RenameMissing, WriteFails, Crash, LockoutExpires, Unwraps, Rewraps, Refuses, Rest, storeVars, history, lockout, Sits
<1>7. password' \in Passwords \cup {None}
  BY <1>6, CallerFields DEF TypeOK
<1>8. \/ disturbed' = disturbed \/ \E c \in Callers : Enters(c)
      \/ \E c \in Callers : disturbed' = (disturbed \/ HalfDone(c))
      \/ disturbed' = (disturbed \/ \E c \in Callers : HalfDone(c))
  BY DEF Next, Unlock, ChangePassword, StartUnlock, StartCommand, StartChange, ReadSalt, Bootstrap, WriteSalt,
       WriteVerify, ReadVerify, ReadDEK, CreateDEK, WriteDEK, OpenVault, UseDEK, WriteTmp, Rename,
       RenameMissing, WriteFails, Crash, LockoutExpires, Unwraps, Rewraps, Refuses, Rest, storeVars, history, lockout
<1>9. disturbed' \in BOOLEAN
  BY <1>8 DEF TypeOK, Enters
<1> QED BY <1>4, <1>5, <1>7, <1>9

LEMMA FilesTyped ==
  ASSUME TypeOK, DeksKnown, Next
  PROVE  store' \in StoreTypes /\ tmp' \in StoreTypes /\ DeksKnown'
<1>1. store \in StoreTypes /\ tmp \in StoreTypes
  BY DEF TypeOK
<1>2. 1 .. deks \subseteq 1 .. deks'
  BY Counters, VaultAssumption DEF TypeOK
<1>3. StoreStays \/ \E c \in Callers : WriteSalt(c) \/ WriteVerify(c) \/ WriteDEK(c) \/ WriteTmp(c) \/ Rename(c)
  BY DEF StoreStays, Next, Unlock, ChangePassword, StartUnlock, StartCommand, StartChange, ReadSalt, Bootstrap, WriteSalt,
       WriteVerify, ReadVerify, ReadDEK, CreateDEK, WriteDEK, OpenVault, UseDEK, WriteTmp, Rename,
       RenameMissing, WriteFails, Crash, LockoutExpires, Unwraps, Rewraps, Refuses, Rest, storeVars, history, lockout
<1>4. CASE StoreStays
  BY <1>1, <1>2, <1>4 DEF StoreStays, DeksKnown
<1>5. ASSUME NEW c \in Callers, WriteSalt(c) \/ WriteVerify(c) \/ WriteDEK(c) \/ WriteTmp(c) \/ Rename(c)
      PROVE  store' \in StoreTypes /\ tmp' \in StoreTypes /\ DeksKnown'
  <2>1. caller[c].pc \in {"dek_file", "tmp"} => caller[c].dek \in 1 .. deks
    BY DEF TypeOK
  <2>2. WriteDEK(c) => Sits(c, "dek_file")
    BY DEF WriteDEK
  <2>3. WriteTmp(c) => Sits(c, "tmp")
    BY DEF WriteTmp
  <2>4. store' \in StoreTypes /\ tmp' \in StoreTypes
    BY <1>1, <1>5, FileSteps
  <2>5. store'.dek # None => store'.dek.id \in 1 .. deks
    BY <1>5, <2>1, <2>2, FileSteps DEF Sits, DeksKnown
  <2>6. tmp'.dek # None => tmp'.dek.id \in 1 .. deks
    BY <1>5, <2>1, <2>3, FileSteps DEF Sits, DeksKnown
  <2> QED BY <1>2, <2>4, <2>5, <2>6 DEF DeksKnown
<1> QED BY <1>3, <1>4, <1>5

Holds(c) ==
    /\ ~Sits(c, "idle") => caller[c].pw \in Passwords
    /\ ~Sits(c, "idle") /\ caller[c].kind = "change" => caller[c].new \in Passwords
    /\ caller[c].pc \in {"read_verify", "read_dek"} => caller[c].key \in Keys
    /\ Writing(c) => caller[c].key \in Keys
    /\ caller[c].pc \in {"dek_file", "open", "tmp", "rename"} => caller[c].dek \in 1 .. deks

Steps(c) == Unlock(c) \/ ChangePassword(c)

LEMMA YieldTyped ==
  ASSUME TypeOK, NEW c \in Callers, NEW id, id \in 1 .. deks', Staged(c), caller[c].key \in Keys,
         caller[c].pc \in {"read_dek", "dek_file"}, Yields(c, id)
  PROVE  Acts(c) /\ Holds(c)' /\ Staged(c)'
<1>1. caller[c].pw \in Passwords /\ (caller[c].kind = "change" => caller[c].new \in Passwords)
  BY DEF TypeOK, Sits
<1>2. /\ Acts(c) /\ caller'[c].kind = caller[c].kind /\ caller'[c].pw = caller[c].pw
      /\ caller'[c].new = caller[c].new /\ caller'[c].next = caller[c].next
      /\ caller'[c].pc = IF caller[c].kind = "change" THEN "tmp" ELSE "open"
      /\ caller'[c].dek = id
  BY DEF Yields, Advances, Keeps
<1>3. caller'[c].key \in Keys
  BY DEF Yields
<1>4. caller[c].next = 1
  BY DEF Staged
<1>5. Holds(c)'
  BY <1>1, <1>2, <1>3 DEF Holds, Sits, Writing
<1>6. Staged(c)'
  BY <1>2, <1>4 DEF Staged
<1> QED BY <1>2, <1>5, <1>6

LEMMA CallerTyped ==
  ASSUME TypeOK, StageInv, Next, NEW c \in Callers, Steps(c)
  PROVE  Acts(c) /\ Holds(c)' /\ Staged(c)'
<1>1. Holds(c) /\ Staged(c)
  BY DEF TypeOK, StageInv, Holds
<1>2. 1 .. deks \subseteq 1 .. deks'
  BY Counters, VaultAssumption DEF TypeOK
<1>3. Leaves(c) => Acts(c) /\ Holds(c)' /\ Staged(c)'
  BY IdleFields DEF Leaves, Holds, Staged, Sits, Writing
<1>4. ASSUME NEW pw \in Passwords, StartUnlock(c, pw) \/ StartCommand(c, pw)
      PROVE  Acts(c) /\ Holds(c)' /\ Staged(c)'
  BY <1>4, Starting DEF Holds, Staged, Sits, Writing
<1>5. ASSUME NEW pw \in Passwords, NEW new \in Passwords, StartChange(c, pw, new)
      PROVE  Acts(c) /\ Holds(c)' /\ Staged(c)'
  BY <1>5, Starting DEF Holds, Staged, Sits, Writing
<1>6. CASE ReadSalt(c)
  <2>1. Sits(c, "read_salt") /\ Advances(c, "read_verify") /\ caller'[c].key \in Keys
    BY <1>6, CallerSteps DEF ReadSalt
  <2> QED BY <1>1, <2>1 DEF Advances, Keeps, Holds, Staged, Sits, Writing
<1>7. CASE Bootstrap(c)
  <2>1. Sits(c, "read_salt") /\ Advances(c, "salt_file") /\ caller'[c].key \in Keys
    BY <1>7, CallerSteps DEF Bootstrap
  <2> QED BY <1>1, <2>1 DEF Advances, Keeps, Holds, Staged, Sits, Writing
<1>8. CASE WriteSalt(c)
  <2>1. Sits(c, "salt_file") /\ Advances(c, "verify_file") /\ caller'[c].key = caller[c].key
    BY <1>8, CallerSteps DEF WriteSalt
  <2> QED BY <1>1, <2>1 DEF Advances, Keeps, Holds, Staged, Sits, Writing
<1>9. CASE WriteVerify(c)
  <2>1. Sits(c, "verify_file") /\ Advances(c, "read_dek") /\ caller'[c].key = caller[c].key
    BY <1>9, CallerSteps DEF WriteVerify
  <2> QED BY <1>1, <2>1 DEF Advances, Keeps, Holds, Staged, Sits, Writing
<1>10. CASE ReadVerify(c)
  <2>1. /\ Sits(c, "read_verify")
        /\ Leaves(c) \/ (Advances(c, "read_dek") /\ caller'[c].key = caller[c].key)
    BY <1>10, CallerSteps DEF ReadVerify
  <2> QED BY <1>1, <1>3, <2>1 DEF Advances, Keeps, Holds, Staged, Sits, Writing
<1>11. CASE ReadDEK(c)
  <2>1. Sits(c, "read_dek") /\ store.dek # None /\ (Leaves(c) \/ Yields(c, store.dek.id))
    BY <1>11, CallerSteps DEF ReadDEK
  <2>2. PICK id : id = store.dek.id
    OBVIOUS
  <2>3. id \in 1 .. deks' /\ caller[c].key \in Keys /\ caller[c].pc = "read_dek"
    BY <1>1, <1>2, <2>1, <2>2 DEF StageInv, DeksKnown, Holds, Sits
  <2> QED BY <1>1, <1>3, <2>1, <2>2, <2>3, YieldTyped
<1>12. CASE CreateDEK(c)
  <2>1. /\ Sits(c, "read_dek") /\ Advances(c, "dek_file") /\ caller'[c].key = caller[c].key
        /\ caller'[c].dek = deks' /\ deks' \in 1 .. MaxDeks
    BY <1>12, CallerSteps DEF CreateDEK
  <2>2. deks' \in 1 .. deks'
    BY <2>1, VaultAssumption
  <2> QED BY <1>1, <2>1, <2>2 DEF Advances, Keeps, Holds, Staged, Sits, Writing
<1>13. CASE WriteDEK(c)
  <2>1. Sits(c, "dek_file") /\ Yields(c, caller[c].dek)
    BY <1>13, CallerSteps DEF WriteDEK
  <2>2. PICK id : id = caller[c].dek
    OBVIOUS
  <2>3. id \in 1 .. deks' /\ caller[c].key \in Keys /\ caller[c].pc = "dek_file"
    BY <1>1, <1>2, <2>1, <2>2 DEF Holds, Sits, Writing
  <2> QED BY <1>1, <2>1, <2>2, <2>3, YieldTyped
<1>14. CASE OpenVault(c) \/ UseDEK(c) \/ RenameMissing(c) \/ WriteFails(c)
  BY <1>3, <1>14, CallerSteps
<1>15. CASE WriteTmp(c)
  <2>1. /\ Sits(c, "tmp") /\ Advances(c, "rename") /\ caller'[c].key = caller[c].key
        /\ caller'[c].dek = caller[c].dek
    BY <1>15, CallerSteps DEF WriteTmp
  <2> QED BY <1>1, <1>2, <2>1 DEF Advances, Keeps, Holds, Staged, Sits, Writing
<1>16. CASE Rename(c)
  <2>1. /\ Sits(c, "rename")
        /\ \/ Leaves(c)
           \/ /\ Keeps(c) /\ caller'[c].pc = "tmp" /\ caller'[c].key = caller[c].key
              /\ caller'[c].dek = caller[c].dek
    BY <1>16, CallerSteps DEF Rename
  <2> QED BY <1>1, <1>2, <1>3, <2>1 DEF Keeps, Holds, Staged, Sits, Writing
<1> QED BY <1>4, <1>5, <1>6, <1>7, <1>8, <1>9, <1>10, <1>11, <1>12, <1>13, <1>14, <1>15, <1>16
        DEF Steps, Unlock, ChangePassword

LEMMA TypeStep ==
  ASSUME TypeOK, StageInv, [Next]_vars
  PROVE  TypeOK' /\ StageInv'
<1>1. CASE UNCHANGED vars
  BY <1>1 DEF vars, storeVars, history, lockout, TypeOK, StageInv, DeksKnown, Staged, Sits, Writing
<1>2. CASE Next
  <2>1. 1 .. deks \subseteq 1 .. deks'
    BY <1>2, Counters, VaultAssumption DEF TypeOK
  <2>2. caller' \in [Callers -> CallerType] /\ \A d \in Callers : Holds(d)' /\ Staged(d)'
    <3>1. CASE LockoutExpires
      BY <3>1 DEF LockoutExpires, storeVars, history, TypeOK, StageInv, Holds, Staged, Sits, Writing
    <3>2. CASE Crash
      BY <3>2, IdleFields DEF Crash, Holds, Staged, Sits, Writing
    <3>3. ASSUME NEW c \in Callers, Steps(c)
          PROVE  caller' \in [Callers -> CallerType] /\ \A d \in Callers : Holds(d)' /\ Staged(d)'
      <4>1. Acts(c) /\ Holds(c)' /\ Staged(c)'
        BY <1>2, <3>3, CallerTyped
      <4>2. ASSUME NEW d \in Callers, d # c
            PROVE  Holds(d)' /\ Staged(d)'
        <5>1. Holds(d) /\ Staged(d) /\ caller'[d] = caller[d]
          BY <4>1, <4>2 DEF TypeOK, StageInv, Holds, Acts
        <5> QED BY <2>1, <5>1 DEF Holds, Staged, Sits, Writing
      <4> QED BY <4>1, <4>2 DEF Acts
    <3> QED BY <1>2, <3>1, <3>2, <3>3 DEF Next, Steps
  <2>3. TypeOK'
    BY <1>2, <2>2, Counters, Locking, Histories, FilesTyped DEF TypeOK, StageInv, Holds
  <2>4. StageInv'
    BY <1>2, <2>2, FilesTyped DEF StageInv
  <2> QED BY <2>3, <2>4
<1> QED BY <1>1, <1>2

------------------------------------------------------------------------------
(* The lockout. *)
Unlocking(c) == caller[c].kind = "unlock" /\ ~Sits(c, "idle")

(* Nobody joins the requests in flight while the address is locked out. *)
LEMMA NoNewGuess ==
  ASSUME TypeOK, NEW c \in Callers, Steps(c), locked, Unlocking(c)'
  PROVE  Unlocking(c)
<1>1. Leaves(c) => FALSE
  BY IdleFields DEF Leaves, Unlocking, Sits
<1>2. \A pw \in Passwords : ~StartUnlock(c, pw)
  BY DEF StartUnlock
<1>3. \A pw \in Passwords : ~StartCommand(c, pw)
  BY Starting DEF Unlocking
<1>4. \A pw, new \in Passwords : ~StartChange(c, pw, new)
  BY Starting DEF Unlocking
<1>5. ~Sits(c, "idle")
  BY <1>2, <1>3, <1>4 DEF Steps, Unlock, ChangePassword, ReadSalt, Bootstrap, WriteSalt, WriteVerify, ReadVerify,
     ReadDEK, CreateDEK, WriteDEK, OpenVault, UseDEK, WriteTmp, Rename, RenameMissing, WriteFails, Sits, Writing
<1>6. caller'[c].kind = caller[c].kind
  BY <1>1, <1>2, <1>3, <1>4, CallerSteps DEF Steps, Unlock, ChangePassword, Advances, Keeps, Yields
<1> QED BY <1>5, <1>6 DEF Unlocking

LEMMA LockCases ==
  ASSUME TypeOK, Next
  PROVE  \/ UNCHANGED lockout /\ caller' = caller
         \/ \E c \in Callers : Steps(c) /\ UNCHANGED lockout
         \/ locked' = FALSE /\ guesses' = 0
         \/ \E c \in Callers : Unlocking(c) /\ RecordFailure /\ Leaves(c)
<1>1. ASSUME NEW c \in Callers, Steps(c)
      PROVE  \/ UNCHANGED lockout \/ (locked' = FALSE /\ guesses' = 0)
             \/ Unlocking(c) /\ RecordFailure /\ Leaves(c)
  <2>1. \/ UNCHANGED lockout \/ RecordSuccess
        \/ Refuses(c) /\ caller[c].kind = "unlock" /\ RecordFailure
           /\ caller[c].pc \in {"read_verify", "read_dek", "salt_file", "verify_file", "dek_file", "tmp", "rename"}
    BY <1>1 DEF Steps, Unlock, ChangePassword, StartUnlock, StartCommand, StartChange, ReadSalt, Bootstrap, WriteSalt,
       WriteVerify, ReadVerify, ReadDEK, CreateDEK, WriteDEK, OpenVault, UseDEK, WriteTmp, Rename,
       RenameMissing, WriteFails, Refuses, Rest, lockout, Sits, Writing
  <2>2. Refuses(c) => Leaves(c)
    BY Moving DEF Refuses, Leaves
  <2> QED BY <2>1, <2>2 DEF RecordSuccess, Unlocking, Sits
<1>2. LockoutExpires \/ Crash => locked' = FALSE /\ guesses' = 0
  BY DEF LockoutExpires, Crash, RecordSuccess
<1> QED BY <1>1, <1>2 DEF Next, Steps

LEMMA LockStep ==
  ASSUME TypeOK, LockInv, TypeOK', [Next]_vars
  PROVE  LockInv'
<1>1. /\ IsFiniteSet(Callers) /\ InFlight \subseteq Callers /\ InFlight' \subseteq Callers
      /\ InFlight = {c \in Callers : Unlocking(c)} /\ InFlight' = {c \in Callers : Unlocking(c)'}
  BY VaultAssumption DEF InFlight, Unlocking
<1>2. /\ IsFiniteSet(InFlight) /\ IsFiniteSet(InFlight')
      /\ Cardinality(InFlight) \in Nat /\ Cardinality(InFlight') \in Nat /\ Cardinality(Callers) \in Nat
  BY <1>1, FS_Subset, FS_CardinalityType
<1>3. /\ Threshold \in Nat /\ Threshold # 0 /\ guesses \in Nat /\ guesses' \in Nat
      /\ failures \in 0 .. Threshold - 1 /\ failures' \in 0 .. Threshold - 1
  BY VaultAssumption DEF TypeOK
<1>4. ASSUME UNCHANGED lockout, InFlight' \subseteq InFlight \/ ~locked
      PROVE  LockInv'
  <2>1. InFlight' \subseteq InFlight => Cardinality(InFlight') <= Cardinality(InFlight)
    BY <1>2, FS_Subset
  <2>2. locked' = locked /\ guesses' = guesses /\ failures' = failures
    BY <1>4 DEF lockout
  <2>3. ~locked' => guesses' <= failures'
    BY <2>2 DEF LockInv
  <2>4. ASSUME locked'
        PROVE  guesses' + Cardinality(InFlight') < Threshold + Cardinality(Callers)
    <3>1. locked /\ guesses' = guesses /\ Cardinality(InFlight') <= Cardinality(InFlight)
      BY <1>4, <2>1, <2>2, <2>4
    <3>2. guesses + Cardinality(InFlight) < Threshold + Cardinality(Callers)
      BY <3>1 DEF LockInv
    <3> QED BY <1>2, <1>3, <3>1, <3>2
  <2> QED BY <2>3, <2>4 DEF LockInv
<1>5. CASE UNCHANGED vars
  BY <1>4, <1>5 DEF vars, lockout, InFlight, Sits
<1>6. ASSUME UNCHANGED lockout /\ caller' = caller
      PROVE  LockInv'
  BY <1>4, <1>6 DEF InFlight, Sits
<1>7. ASSUME NEW c \in Callers, Steps(c), UNCHANGED lockout, Acts(c)
      PROVE  LockInv'
  <2>1. ASSUME locked, NEW d \in InFlight'
        PROVE  d \in InFlight
    <3>1. d \in Callers /\ Unlocking(d)'
      BY <1>1, <2>1
    <3>2. CASE d = c
      BY <1>1, <1>7, <2>1, <3>1, <3>2, NoNewGuess
    <3>3. CASE d # c
      BY <1>1, <1>7, <3>1, <3>3 DEF Acts, Unlocking, Sits
    <3> QED BY <3>2, <3>3
  <2> QED BY <1>4, <1>7, <2>1
<1>8. CASE locked' = FALSE /\ guesses' = 0
  BY <1>3, <1>8 DEF LockInv
<1>9. ASSUME NEW c \in Callers, Unlocking(c), RecordFailure, Leaves(c)
      PROVE  LockInv'
  <2>1. InFlight' = InFlight \ {c} /\ c \in InFlight
    <3>1. \A d \in Callers : d # c => (Unlocking(d)' <=> Unlocking(d))
      BY <1>9 DEF Leaves, Acts, Unlocking, Sits
    <3>2. ~Unlocking(c)'
      BY <1>9, IdleFields DEF Leaves, Unlocking, Sits
    <3> QED BY <1>1, <1>9, <3>1, <3>2
  <2>2. Cardinality(InFlight') = Cardinality(InFlight) - 1
    BY <1>2, <2>1, FS_RemoveElement
  <2>3. Cardinality(InFlight) <= Cardinality(Callers)
    BY <1>1, FS_Subset
  <2>4. guesses' = guesses + 1
    BY <1>9 DEF RecordFailure
  <2>5. ~locked' => ~locked /\ failures' = failures + 1
    BY <1>3, <1>9 DEF RecordFailure
  <2>6. ASSUME ~locked'
        PROVE  guesses' <= failures'
    <3>1. guesses <= failures
      BY <2>5, <2>6 DEF LockInv
    <3> QED BY <1>3, <2>4, <2>5, <2>6, <3>1
  <2>7. ASSUME locked'
        PROVE  guesses' + Cardinality(InFlight') < Threshold + Cardinality(Callers)
    <3>1. CASE locked
      <4>1. guesses + Cardinality(InFlight) < Threshold + Cardinality(Callers)
        BY <3>1 DEF LockInv
      <4> QED BY <1>2, <1>3, <2>2, <2>4, <4>1
    <3>2. CASE ~locked
      <4>1. guesses <= failures
        BY <3>2 DEF LockInv
      <4>2. guesses <= Threshold - 1
        BY <1>3, <4>1
      <4> QED BY <1>2, <1>3, <2>2, <2>3, <2>4, <4>2
    <3> QED BY <3>1, <3>2
  <2> QED BY <2>6, <2>7 DEF LockInv
<1>10. \A c \in Callers : Steps(c) => Acts(c)
  BY Starting, CallerSteps DEF Steps, Unlock, ChangePassword, Advances, Keeps, Yields, Leaves
<1> QED BY <1>5, <1>6, <1>7, <1>8, <1>9, <1>10, LockCases

------------------------------------------------------------------------------
(* The files and the one DEK, undisturbed. *)
Undisturbed == OneWriter /\ Settled /\ (\A c \in Callers : Prepared(c)) /\ UsedOne /\ \A c \in Callers : Grasps(c)

LEMMA IdlersPrepared == \A c \in Callers : (~Writing(c))' => Prepared(c)'
BY DEF Writing, Prepared, Sits

(* A step that leaves the files alone and is no writer's. *)
LEMMA Reading ==
  ASSUME Undisturbed, NEW c \in Callers, Acts(c), StoreStays, password' = password,
         ~Writing(c), ~Writing(c)', UsedOne', Grasps(c)'
  PROVE  Undisturbed'
<1>1. store' = store /\ tmp' = tmp
  BY DEF StoreStays
<1>2. \A d \in Callers : Writing(d)' <=> Writing(d)
  BY DEF Acts, Writing
<1>3. OneWriter'
  BY <1>2 DEF Undisturbed, OneWriter
<1>4. Consistent' <=> Consistent
  BY <1>1 DEF Consistent
<1>5. Settled'
  BY <1>2, <1>4 DEF Undisturbed, Settled
<1>6. ASSUME NEW d \in Callers, d # c
      PROVE  Prepared(d)' /\ Grasps(d)'
  BY <1>1, <1>4, <1>6 DEF Undisturbed, Acts, Prepared, Grasps, Sits
<1>7. Prepared(c)'
  BY IdlersPrepared
<1> QED BY <1>3, <1>5, <1>6, <1>7 DEF Undisturbed

(* A writer's step: nobody else writes, before it or after it. *)
LEMMA WritingAlone ==
  ASSUME NEW c \in Callers, Acts(c), \A d \in Callers : d # c => ~Writing(d),
         ~Writing(c)' => Consistent', Prepared(c)',
         UsedOne', \A d \in Callers : Grasps(d)'
  PROVE  Undisturbed'
<1>1. \A d \in Callers : d # c => (~Writing(d))'
  BY DEF Acts, Writing
<1>2. OneWriter'
  BY <1>1 DEF OneWriter
<1>3. Settled'
  BY DEF Settled
<1>4. \A d \in Callers : Prepared(d)'
  BY <1>1, IdlersPrepared
<1> QED BY <1>2, <1>3, <1>4 DEF Undisturbed

(* A caller that begins to write finds the files at rest. *)
LEMMA Entering ==
  ASSUME Undisturbed, TypeOK, NEW c \in Callers, Acts(c), StoreStays, password' = password, used' = used,
         ~Writing(c), Enters(c), disturbed' = FALSE, Writing(c)', Consistent => Prepared(c)'
  PROVE  Undisturbed'
<1>1. \A d \in Callers : d # c => ~Writing(d)
  BY DEF Enters
<1>2. Consistent
  BY <1>1 DEF Undisturbed, Settled
<1>3. store' = store
  BY DEF StoreStays
<1>4. UsedOne'
  BY <1>3 DEF Undisturbed, UsedOne
<1>5. \A d \in Callers : Grasps(d)'
  <2>1. Grasps(c)'
    BY DEF Grasps, Writing, Sits
  <2>2. \A d \in Callers : d # c => Grasps(d)'
    BY <1>3 DEF Undisturbed, Acts, Grasps, Sits
  <2> QED BY <2>1, <2>2
<1> QED BY <1>1, <1>2, <1>4, <1>5, WritingAlone

Calm == Undisturbed /\ TypeOK /\ StageInv /\ ~disturbed /\ disturbed' = FALSE

(* Steps of callers that only read, and the ends of their requests. *)
LEMMA CalmReads ==
  ASSUME Calm, NEW c \in Callers,
         \/ \E pw \in Passwords : StartUnlock(c, pw) \/ StartCommand(c, pw)
         \/ \E pw, new \in Passwords : StartChange(c, pw, new)
         \/ ReadSalt(c) \/ ReadVerify(c) \/ OpenVault(c) \/ UseDEK(c)
  PROVE  Undisturbed'
<1>1. StoreStays /\ password' = password
  BY DEF StoreStays, StartUnlock, StartCommand, StartChange, ReadSalt, ReadVerify, OpenVault, UseDEK, Rest, storeVars, history
<1>2. /\ ~Writing(c)
      /\ used' = used \/ (Sits(c, "open") /\ used' = used \cup {caller[c].dek})
  BY DEF StartUnlock, StartCommand, StartChange, ReadSalt, ReadVerify, OpenVault, UseDEK, Rest, history, Sits, Writing
<1>3. UsedOne'
  BY <1>1, <1>2 DEF Calm, Undisturbed, UsedOne, Grasps, StoreStays
<1>4. /\ Acts(c)
      /\ \/ caller'[c].pc \in {"idle", "read_salt", "read_verify"}
         \/ caller'[c].pc = "read_dek" /\ store.verify = caller[c].key /\ caller'[c].key = caller[c].key
  BY Starting, CallerSteps, IdleFields DEF Calm, Advances, Keeps, Leaves
<1>5. ~Writing(c)' /\ Grasps(c)'
  BY <1>1, <1>4 DEF Writing, Grasps, Sits, StoreStays
<1> QED BY <1>1, <1>2, <1>3, <1>4, <1>5, Reading DEF Calm

LEMMA CalmBootstrap ==
  ASSUME Calm, NEW c \in Callers, Bootstrap(c)
  PROVE  Undisturbed'
<1>1. /\ StoreStays /\ password' = password /\ used' = used /\ Sits(c, "read_salt") /\ store.salt = None /\ Enters(c)
  BY DEF StoreStays, Bootstrap, Rest, storeVars
<1>2. /\ Acts(c) /\ caller'[c].pc = "salt_file" /\ caller'[c].pw = caller[c].pw
      /\ caller'[c].key = <<salts', caller[c].pw>>
  BY CallerSteps DEF Calm, Advances, Keeps
<1>3. ~Writing(c) /\ Writing(c)'
  BY <1>1, <1>2 DEF Writing, Sits
<1>4. Consistent => Prepared(c)'
  BY <1>1, <1>2 DEF Consistent, Prepared, Sits, StoreStays
<1> QED BY <1>1, <1>2, <1>3, <1>4, Entering DEF Calm

LEMMA CalmCreateDEK ==
  ASSUME Calm, NEW c \in Callers, CreateDEK(c)
  PROVE  Undisturbed'
<1>1. /\ StoreStays /\ password' = password /\ used' = used /\ Sits(c, "read_dek") /\ store.dek = None /\ Enters(c)
  BY DEF StoreStays, CreateDEK, Rest, storeVars
<1>2. Acts(c) /\ caller'[c].pc = "dek_file" /\ caller'[c].key = caller[c].key
  BY CallerSteps DEF Calm, Advances, Keeps
<1>3. ~Writing(c) /\ Writing(c)'
  BY <1>1, <1>2 DEF Writing, Sits
<1>4. store.verify = caller[c].key
  BY <1>1 DEF Calm, Undisturbed, Grasps
<1>5. Consistent' <=> Consistent
  BY <1>1 DEF Consistent, StoreStays
<1>6. Consistent => Prepared(c)'
  BY <1>1, <1>2, <1>4, <1>5 DEF Prepared, Sits, StoreStays
<1> QED BY <1>1, <1>2, <1>3, <1>6, Entering DEF Calm

LEMMA CalmReadDEK ==
  ASSUME Calm, NEW c \in Callers, ReadDEK(c)
  PROVE  Undisturbed'
<1>1. StoreStays /\ password' = password /\ used' = used /\ Sits(c, "read_dek") /\ store.dek # None
  BY DEF StoreStays, ReadDEK, Rest, storeVars
<1>2. UsedOne'
  BY <1>1 DEF Calm, Undisturbed, UsedOne, StoreStays
<1>3. ~Writing(c)
  BY <1>1 DEF Writing, Sits
<1>4. CASE Leaves(c)
  BY <1>1, <1>2, <1>3, <1>4, Reading, IdleFields DEF Calm, Leaves, Writing, Grasps, Sits
<1>5. ASSUME store.dek.key = caller[c].key, Yields(c, store.dek.id)
      PROVE  Undisturbed'
  <2>1. CASE caller[c].kind # "change"
    <3>1. Acts(c) /\ caller'[c].pc = "open" /\ caller'[c].dek = store.dek.id
      BY <1>5, <2>1 DEF Yields, Advances, Keeps
    <3>2. ~Writing(c)' /\ Grasps(c)'
      BY <1>1, <3>1 DEF Writing, Grasps, Sits, StoreStays
    <3> QED BY <1>1, <1>2, <1>3, <3>1, <3>2, Reading DEF Calm
  <2>2. CASE caller[c].kind = "change"
    <3>1. /\ Acts(c) /\ caller'[c].pc = "tmp" /\ caller'[c].dek = store.dek.id /\ Enters(c)
          /\ caller'[c].key = <<salts', caller[c].new>> /\ caller'[c].new = caller[c].new
          /\ caller'[c].next = caller[c].next
      BY <1>5, <2>2 DEF Yields, Advances, Keeps
    <3>2. caller[c].next = 1
      BY <1>1 DEF Calm, StageInv, Staged, Sits
    <3>3. Writing(c)'
      BY <3>1 DEF Writing
    <3>4. Consistent' <=> Consistent
      BY <1>1 DEF Consistent, StoreStays
    <3>5. Consistent => store.salt # None
      BY <1>1 DEF Consistent
    <3>6. Consistent => Prepared(c)'
      BY <1>1, <3>1, <3>2, <3>4, <3>5 DEF Prepared, Sits, StoreStays
    <3> QED BY <1>1, <1>3, <3>1, <3>3, <3>6, Entering DEF Calm
  <2> QED BY <2>1, <2>2
<1>6. \/ Leaves(c) \/ (store.dek.key = caller[c].key /\ Yields(c, store.dek.id))
  BY CallerSteps DEF Calm
<1> QED BY <1>4, <1>5, <1>6

(* The writer of the store is alone, and finds it as it left it. *)
LEMMA Alone ==
  ASSUME Calm, NEW c \in Callers, Writing(c)
  PROVE  /\ \A d \in Callers : d # c => ~Writing(d)
         /\ Prepared(c) /\ caller[c].key \in Keys
         /\ \A d \in Callers : Grasps(d) /\ (Sits(d, "read_dek") => caller[d].key # None)
<1>1. \A d \in Callers : d # c => ~Writing(d)
  BY DEF Calm, Undisturbed, OneWriter
<1>2. Prepared(c) /\ caller[c].key \in Keys /\ \A d \in Callers : Grasps(d)
  BY DEF Calm, Undisturbed, TypeOK
<1>3. \A d \in Callers : Sits(d, "read_dek") => caller[d].key # None
  BY KeyFields DEF Calm, TypeOK, Sits
<1> QED BY <1>1, <1>2, <1>3

LEMMA CalmWriteSalt ==
  ASSUME Calm, NEW c \in Callers, WriteSalt(c)
  PROVE  Undisturbed'
<1>1. Sits(c, "salt_file") /\ Writing(c) /\ password' = password /\ used' = used
  BY DEF WriteSalt, Rest, history, Sits, Writing
<1>2. /\ Acts(c) /\ caller'[c].pc = "verify_file" /\ caller'[c].key = caller[c].key /\ caller'[c].pw = caller[c].pw
  BY CallerSteps DEF Calm, Advances, Keeps
<1>3. store'.salt = caller[c].key[1] /\ store'.verify = store.verify /\ store'.dek = store.dek
  BY FileSteps DEF Calm
<1>4. store.verify = None /\ store.dek = None /\ caller[c].key[2] = caller[c].pw
  BY <1>1, Alone DEF Prepared
<1>5. Prepared(c)' /\ Writing(c)'
  BY <1>2, <1>3, <1>4 DEF Prepared, Writing, Sits
<1>6. UsedOne'
  BY <1>1, <1>3 DEF Calm, Undisturbed, UsedOne
<1>7. \A d \in Callers : Grasps(d)'
  <2>1. Grasps(c)'
    BY <1>2 DEF Grasps, Sits
  <2>2. \A d \in Callers : d # c => Grasps(d)'
    BY <1>1, <1>2, <1>3, Alone DEF Acts, Grasps, Sits
  <2> QED BY <2>1, <2>2
<1> QED BY <1>1, <1>2, <1>5, <1>6, <1>7, Alone, WritingAlone

LEMMA CalmWriteVerify ==
  ASSUME Calm, NEW c \in Callers, WriteVerify(c)
  PROVE  Undisturbed'
<1>1. Sits(c, "verify_file") /\ Writing(c) /\ password' = caller[c].pw /\ used' = used
  BY DEF WriteVerify, Rest, Sits, Writing
<1>2. Acts(c) /\ caller'[c].pc = "read_dek" /\ caller'[c].key = caller[c].key
  BY CallerSteps DEF Calm, Advances, Keeps
<1>3. store'.salt = store.salt /\ store'.verify = caller[c].key /\ store'.dek = store.dek
  BY FileSteps DEF Calm
<1>4. /\ store.salt = caller[c].key[1] /\ store.verify = None /\ store.dek = None
      /\ caller[c].key[2] = caller[c].pw
  BY <1>1, Alone DEF Prepared
<1>5. caller[c].key = <<store.salt, caller[c].pw>> /\ store.salt # None
  BY <1>1, <1>4, Alone, KeyFields
<1>6. Consistent'
  BY <1>1, <1>3, <1>4, <1>5 DEF Consistent
<1>7. Prepared(c)'
  BY <1>2 DEF Prepared, Sits
<1>8. UsedOne'
  BY <1>1, <1>3 DEF Calm, Undisturbed, UsedOne
<1>9. \A d \in Callers : Grasps(d)'
  <2>1. Grasps(c)'
    BY <1>2, <1>3 DEF Grasps, Sits
  <2>2. \A d \in Callers : d # c => Grasps(d)'
    BY <1>1, <1>2, <1>3, <1>4, Alone DEF Acts, Grasps, Sits
  <2> QED BY <2>1, <2>2
<1> QED BY <1>1, <1>2, <1>6, <1>7, <1>8, <1>9, Alone, WritingAlone

LEMMA CalmWriteDEK ==
  ASSUME Calm, NEW c \in Callers, WriteDEK(c)
  PROVE  Undisturbed'
<1>1. Sits(c, "dek_file") /\ Writing(c) /\ password' = password /\ used' = used
  BY DEF WriteDEK, Rest, Sits, Writing
<1>2. /\ store'.salt = store.salt /\ store'.verify = store.verify /\ store'.dek # None
      /\ store'.dek.key = caller[c].key /\ store'.dek.id = caller[c].dek
  BY FileSteps DEF Calm
<1>3. Consistent /\ store.dek = None /\ store.verify = caller[c].key /\ caller[c].key # None
  BY <1>1, Alone, KeyFields DEF Prepared
<1>4. store.salt # None
  BY <1>3 DEF Consistent
<1>5. Consistent'
  BY <1>1, <1>2, <1>3, <1>4 DEF Consistent
<1>6. UsedOne'
  BY <1>1, <1>3 DEF Calm, Undisturbed, UsedOne
<1>7. Yields(c, caller[c].dek)
  BY CallerSteps DEF Calm
<1>8. /\ Acts(c) /\ caller'[c].dek = caller[c].dek /\ caller'[c].next = caller[c].next
      /\ IF caller[c].kind = "change"
         THEN caller'[c].pc = "tmp" /\ caller'[c].key = <<salts', caller[c].new>> /\ caller'[c].new = caller[c].new
         ELSE caller'[c].pc = "open"
  BY <1>7 DEF Yields, Advances, Keeps
<1>9. caller[c].next = 1
  BY <1>1 DEF Calm, StageInv, Staged, Sits
<1>10. Prepared(c)'
  BY <1>2, <1>4, <1>5, <1>8, <1>9 DEF Prepared, Sits
<1>11. \A d \in Callers : Grasps(d)'
  <2>1. Grasps(c)'
    BY <1>2, <1>8 DEF Grasps, Sits
  <2>2. \A d \in Callers : d # c => Grasps(d)'
    BY <1>1, <1>2, <1>3, <1>8, Alone DEF Acts, Grasps, Sits
  <2> QED BY <2>1, <2>2
<1> QED BY <1>1, <1>5, <1>6, <1>8, <1>10, <1>11, Alone, WritingAlone

LEMMA CalmWriteTmp ==
  ASSUME Calm, NEW c \in Callers, WriteTmp(c)
  PROVE  Undisturbed'
<1>1. Sits(c, "tmp") /\ Writing(c) /\ password' = password /\ used' = used
  BY DEF WriteTmp, Rest, history, Sits, Writing
<1>2. /\ Acts(c) /\ caller'[c].pc = "rename" /\ caller'[c].key = caller[c].key /\ caller'[c].new = caller[c].new
      /\ caller'[c].dek = caller[c].dek /\ caller'[c].next = caller[c].next
  BY CallerSteps DEF Calm, Advances, Keeps
<1>3. /\ store' = store
      /\ caller[c].next = 1 => tmp'.dek # None /\ tmp'.dek.key = caller[c].key /\ tmp'.dek.id = caller[c].dek
      /\ caller[c].next = 2 => tmp'.verify = caller[c].key
      /\ caller[c].next = 3 => tmp'.salt = caller[c].key[1]
  BY FileSteps DEF Calm
<1>4. Consistent' <=> Consistent
  BY <1>1, <1>3 DEF Consistent
<1>5. Prepared(c)' /\ Writing(c)'
  BY <1>1, <1>2, <1>3, <1>4, Alone DEF Prepared, Writing, Sits
<1>6. UsedOne'
  BY <1>1, <1>3 DEF Calm, Undisturbed, UsedOne
<1>7. \A d \in Callers : Grasps(d)'
  <2>1. Grasps(c)'
    BY <1>2 DEF Grasps, Sits
  <2>2. \A d \in Callers : d # c => Grasps(d)'
    BY <1>1, <1>2, <1>3, Alone DEF Acts, Grasps, Sits
  <2> QED BY <2>1, <2>2
<1> QED BY <1>1, <1>2, <1>5, <1>6, <1>7, Alone, WritingAlone

LEMMA CalmRename ==
  ASSUME Calm, NEW c \in Callers, Rename(c)
  PROVE  Undisturbed'
<1>1. Sits(c, "rename") /\ Writing(c) /\ used' = used /\ caller[c].next \in 1 .. 3
  BY CallerFields DEF Calm, Rename, Rest, Sits, Writing
<1>2. /\ caller[c].next < 3 =>
           /\ Acts(c) /\ caller'[c].pc = "tmp" /\ caller'[c].next = caller[c].next + 1
           /\ caller'[c].key = caller[c].key /\ caller'[c].dek = caller[c].dek
           /\ caller'[c].new = caller[c].new /\ password' = password
      /\ ~(caller[c].next < 3) => Acts(c) /\ caller'[c].pc = "idle" /\ password' = caller[c].new
  BY CallerSteps, IdleFields DEF Calm, Keeps, Leaves
<1>3. /\ IF caller[c].next = 1 THEN store'.dek = tmp.dek ELSE store'.dek = store.dek
      /\ IF caller[c].next = 2 THEN store'.verify = tmp.verify ELSE store'.verify = store.verify
      /\ IF caller[c].next = 3 THEN store'.salt = tmp.salt /\ tmp.salt # None ELSE store'.salt = store.salt
  BY FileSteps DEF Calm
<1>4. /\ store.salt # None /\ store.dek # None /\ store.dek.id = caller[c].dek
      /\ caller[c].key[2] = caller[c].new /\ caller[c].key \in Keys
      /\ caller[c].next = 1 =>
           tmp.dek # None /\ tmp.dek.key = caller[c].key /\ tmp.dek.id = caller[c].dek
      /\ caller[c].next = 2 => store.dek.key = caller[c].key /\ tmp.verify = caller[c].key
      /\ caller[c].next = 3 =>
           /\ store.dek.key = caller[c].key /\ store.verify = caller[c].key /\ tmp.salt = caller[c].key[1]
  BY <1>1, Alone DEF Prepared, Sits
<1>5. store'.dek # None /\ store'.dek.id = store.dek.id /\ store'.salt # None
  BY <1>1, <1>3, <1>4
<1>6. ASSUME caller[c].next = 3
      PROVE  Consistent'
  <2>1. caller[c].key = <<tmp.salt, caller[c].new>>
    BY <1>4, <1>6, KeyFields
  <2> QED BY <1>2, <1>3, <1>4, <1>5, <1>6, <2>1 DEF Consistent
<1>7. ~Writing(c)' => Consistent'
  BY <1>1, <1>2, <1>6 DEF Writing
<1>8. Prepared(c)'
  <2>1. CASE caller[c].next = 1
    BY <1>2, <1>3, <1>4, <1>5, <2>1 DEF Prepared, Sits
  <2>2. CASE caller[c].next = 2
    BY <1>2, <1>3, <1>4, <1>5, <2>2 DEF Prepared, Sits
  <2>3. CASE caller[c].next = 3
    BY <1>2, <2>3 DEF Prepared, Sits
  <2> QED BY <1>1, <2>1, <2>2, <2>3
<1>9. UsedOne'
  BY <1>1, <1>4, <1>5 DEF Calm, Undisturbed, UsedOne
<1>10. \A d \in Callers : Grasps(d)'
  <2>1. Grasps(c)'
    BY <1>1, <1>2 DEF Grasps, Sits
  <2>2. \A d \in Callers : d # c => Grasps(d)'
    BY <1>1, <1>2, <1>4, <1>5, Alone DEF Acts, Grasps, Sits
  <2> QED BY <2>1, <2>2
<1> QED BY <1>1, <1>2, <1>7, <1>8, <1>9, <1>10, Alone, WritingAlone

(* A write that fails before the files stop to belong together. *)
LEMMA Restored ==
  ASSUME Calm, NEW c \in Callers, Writing(c), ~HalfDone(c)
  PROVE  Consistent
<1>1. TypeOK
  BY DEF Calm
<1>2. Prepared(c) /\ caller[c].next \in 1 .. 3
  BY <1>1, Alone, CallerFields
<1>3. caller[c].next = 1 /\ caller[c].pc \in {"salt_file", "dek_file", "tmp", "rename"}
  BY <1>2 DEF HalfDone, Writing, Sits
<1> QED BY <1>2, <1>3 DEF Prepared, Sits, Consistent

LEMMA CalmFails ==
  ASSUME Calm, NEW c \in Callers, WriteFails(c) \/ RenameMissing(c)
  PROVE  Undisturbed'
<1>1. /\ Writing(c) /\ StoreStays /\ password' = password /\ used' = used
      /\ RenameMissing(c) \/ ~HalfDone(c)
  BY DEF Calm, WriteFails, RenameMissing, Rest, storeVars, history, StoreStays, Sits, Writing
<1>2. ~RenameMissing(c)
  <2>1. ASSUME Sits(c, "rename")
        PROVE  tmp[File(c)] # None
    <3>1. Prepared(c) /\ caller[c].key \in Keys /\ caller[c].next \in 1 .. 3
      <4>1. TypeOK
        BY DEF Calm
      <4> QED BY <1>1, <4>1, Alone, CallerFields
    <3>2. /\ caller[c].next = 1 => tmp.dek # None
          /\ caller[c].next = 2 => tmp.verify # None
          /\ caller[c].next = 3 => tmp.salt # None
      BY <2>1, <3>1, KeyFields DEF Prepared
    <3> QED BY <3>1, <3>2, FileOrder DEF File
  <2> QED BY <2>1 DEF RenameMissing
<1>3. Consistent
  BY <1>1, <1>2, Restored
<1>4. Consistent'
  BY <1>1, <1>3 DEF Consistent, StoreStays
<1>5. Acts(c) /\ caller'[c].pc = "idle"
  BY CallerSteps, IdleFields DEF Calm, Leaves
<1>6. UsedOne'
  BY <1>1 DEF Calm, Undisturbed, UsedOne, StoreStays
<1>7. \A d \in Callers : Grasps(d)'
  <2>1. Grasps(c)'
    BY <1>5 DEF Grasps, Sits
  <2>2. \A d \in Callers : d # c => Grasps(d)'
    BY <1>1, <1>5, Alone DEF Acts, Grasps, Sits, StoreStays
  <2> QED BY <2>1, <2>2
<1>8. Prepared(c)'
  BY <1>5 DEF Prepared, Sits
<1> QED BY <1>1, <1>4, <1>5, <1>6, <1>7, <1>8, Alone, WritingAlone

LEMMA CalmCrash ==
  ASSUME Calm, Crash
  PROVE  Undisturbed'
<1>1. /\ store' = store /\ tmp' = tmp /\ password' = password /\ used' = used
      /\ \A c \in Callers : caller'[c].pc = "idle"
      /\ \A c \in Callers : ~HalfDone(c)
  BY IdleFields DEF Calm, Crash, storeVars
<1>2. Consistent
  <2>1. CASE \E c \in Callers : Writing(c)
    BY <1>1, <2>1, Restored
  <2>2. CASE \A c \in Callers : ~Writing(c)
    BY <2>2 DEF Calm, Undisturbed, Settled
  <2> QED BY <2>1, <2>2
<1>3. Consistent' /\ UsedOne'
  BY <1>1, <1>2 DEF Calm, Undisturbed, UsedOne, Consistent
<1>4. \A c \in Callers : (~Writing(c))' /\ Prepared(c)' /\ Grasps(c)'
  BY <1>1 DEF Writing, Prepared, Grasps, Sits
<1> QED BY <1>3, <1>4 DEF Undisturbed, OneWriter, Settled

LEMMA DisturbedStays ==
  ASSUME TypeOK, Next, disturbed
  PROVE  disturbed' = TRUE
BY DEF Next, Crash, LockoutExpires, Enters, Steps, Unlock, ChangePassword, StartUnlock, StartCommand, StartChange, ReadSalt, Bootstrap, WriteSalt,
       WriteVerify, ReadVerify, ReadDEK, CreateDEK, WriteDEK, OpenVault, UseDEK, WriteTmp, Rename,
       RenameMissing, WriteFails, Refuses, Unwraps, Rewraps, Rest, storeVars, history

LEMMA UndisturbedStep ==
  ASSUME TypeOK, TypeOK', StageInv, WriterInv, DekInv, [Next]_vars
  PROVE  WriterInv' /\ DekInv'
<1>1. disturbed \in BOOLEAN /\ disturbed' \in BOOLEAN
  BY DEF TypeOK
<1>2. SUFFICES ASSUME disturbed' = FALSE
               PROVE  Undisturbed'
  BY <1>1 DEF WriterInv, DekInv, Undisturbed
<1>3. CASE UNCHANGED vars
  <2>1. ~disturbed
    BY <1>2, <1>3 DEF vars, history
  <2>2. Undisturbed
    BY <2>1 DEF WriterInv, DekInv, Undisturbed
  <2> QED BY <1>3, <2>2 DEF vars, storeVars, history, Undisturbed, OneWriter, Settled, Consistent, Prepared,
         UsedOne, Grasps, Sits, Writing
<1>4. CASE Next
  <2>1. ~disturbed
    BY <1>1, <1>2, <1>4, DisturbedStays
  <2>2. Calm
    BY <1>2, <2>1 DEF WriterInv, DekInv, Undisturbed, Calm
  <2>3. CASE LockoutExpires
    BY <2>2, <2>3 DEF Calm, LockoutExpires, storeVars, history, Undisturbed, OneWriter, Settled, Consistent, Prepared,
       UsedOne, Grasps, Sits, Writing
  <2>4. CASE Crash
    BY <2>2, <2>4, CalmCrash
  <2>5. ASSUME NEW c \in Callers, Unlock(c) \/ ChangePassword(c)
        PROVE  Undisturbed'
    BY <2>2, <2>5, CalmReads, CalmBootstrap, CalmCreateDEK, CalmReadDEK, CalmWriteSalt, CalmWriteVerify,
       CalmWriteDEK, CalmWriteTmp, CalmRename, CalmFails DEF Unlock, ChangePassword
  <2> QED BY <1>4, <2>3, <2>4, <2>5 DEF Next
<1> QED BY <1>3, <1>4

LEMMA InvStart == Init => VaultInv
<1> SUFFICES ASSUME Init PROVE VaultInv
  OBVIOUS
<1>1. store \in StoreTypes /\ tmp \in StoreTypes /\ store.dek = None /\ tmp.dek = None
  BY IdleFields DEF Init
<1>2. caller \in [Callers -> CallerType] /\ \A c \in Callers : Sits(c, "idle") /\ caller[c].next = 1
  BY IdleFields DEF Init, Sits
<1>3. /\ deks = 0 /\ salts = 0 /\ events = 0 /\ used = {} /\ running = None /\ password = None
      /\ failures = 0 /\ guesses = 0
  BY DEF Init
<1>4. disturbed = FALSE /\ locked = FALSE
  BY DEF Init
<1>5. TypeOK
  <2>1. \A c \in Callers : Holds(c)
    BY <1>2 DEF Holds, Sits, Writing
  <2>2. /\ failures \in 0 .. Threshold - 1 /\ guesses \in Nat
        /\ salts \in 0 .. MaxSalts /\ deks \in 0 .. MaxDeks /\ events \in 0 .. MaxEvents
    BY <1>3, VaultAssumption
  <2>3. disturbed \in BOOLEAN /\ locked \in BOOLEAN
    BY <1>4
  <2>4. running \in used \cup {None} /\ used \subseteq 1 .. deks /\ password \in Passwords \cup {None}
    BY <1>3
  <2> QED BY <1>1, <1>2, <2>1, <2>2, <2>3, <2>4 DEF TypeOK, Holds
<1>6. StageInv
  <2>1. DeksKnown
    BY <1>1 DEF DeksKnown
  <2>2. \A c \in Callers : Staged(c)
    BY <1>2 DEF Staged, Sits
  <2> QED BY <2>1, <2>2 DEF StageInv
<1>7. LockInv
  BY <1>3, <1>4 DEF LockInv
<1>8. \A c \in Callers : ~Writing(c) /\ Prepared(c) /\ Grasps(c)
  BY <1>2 DEF Sits, Writing, Prepared, Grasps
<1>9. Consistent
  BY IdleFields DEF Init, Consistent
<1>10. WriterInv /\ DekInv
  BY <1>3, <1>8, <1>9 DEF WriterInv, DekInv, OneWriter, Settled, UsedOne
<1> QED BY <1>5, <1>6, <1>7, <1>10 DEF VaultInv

LEMMA InvStep == VaultInv /\ [Next]_vars => VaultInv'
BY TypeStep, LockStep, UndisturbedStep DEF VaultInv

------------------------------------------------------------------------------
(* The inductive invariant. *)
THEOREM VaultInvariant == Spec => []VaultInv
<1> QED BY InvStart, InvStep, PTL DEF Spec

(* Type correctness, for any callers, passwords, threshold and bounds. *)
THEOREM TypeCorrect == Spec => []TypeOK
<1>1. VaultInv => TypeOK
  BY DEF VaultInv
<1> QED BY <1>1, VaultInvariant, PTL

(* However requests to /unlock, password changes, commands and crashes     *)
(* interleave, an address never tries more wrong passwords between two     *)
(* lockouts than the threshold and the requests that can be in flight.     *)
THEOREM GuessingIsBounded == Spec => []GuessesBounded
<1>1. ASSUME VaultInv
      PROVE  GuessesBounded
  <2>1. /\ Threshold \in Nat /\ guesses \in Nat /\ failures \in 0 .. Threshold - 1
        /\ IsFiniteSet(Callers) /\ InFlight \subseteq Callers
    BY <1>1, VaultAssumption DEF VaultInv, TypeOK, InFlight
  <2>2. Cardinality(Callers) \in Nat /\ Cardinality(InFlight) \in Nat
    BY <2>1, FS_Subset, FS_CardinalityType
  <2>3. CASE locked
    <3>1. guesses + Cardinality(InFlight) < Threshold + Cardinality(Callers)
      BY <1>1, <2>3 DEF VaultInv, LockInv
    <3> QED BY <2>1, <2>2, <3>1 DEF GuessesBounded
  <2>4. CASE ~locked
    <3>1. guesses <= failures
      BY <1>1, <2>4 DEF VaultInv, LockInv
    <3> QED BY <2>1, <2>2, <3>1 DEF GuessesBounded
  <2> QED BY <2>3, <2>4
<1> QED BY <1>1, VaultInvariant, PTL

(* Unless two writers of the key store overlapped or one was cut short     *)
(* half way, the last password set opens it and yields the DEK every vault *)
(* has run on, whatever readers, failures and restarts come in between.    *)
THEOREM LastPasswordAlwaysOpens == Spec => []LastPasswordOpens
<1>1. ASSUME VaultInv, Quiet, ~disturbed
      PROVE  /\ store.salt # None => store.verify = <<store.salt, password>>
             /\ \A id \in used : Opens(store, password, id)
  <2>1. Consistent /\ UsedOne
    BY <1>1 DEF VaultInv, WriterInv, DekInv, Settled, Quiet
  <2>2. \A id \in used : store.salt # None
    BY <2>1 DEF Consistent, UsedOne
  <2> QED BY <2>1, <2>2 DEF Consistent, UsedOne, Opens
<1>2. VaultInv => LastPasswordOpens
  BY <1>1 DEF LastPasswordOpens
<1> QED BY <1>2, VaultInvariant, PTL
=============================================================================
