-------------------------- MODULE VaultCoreProofs --------------------------
(***************************************************************************)
(* The safety of VaultCore for any number of threads, passphrases, keys    *)
(* and files, provided no two inits run at once.                           *)
(***************************************************************************)
EXTENDS VaultCore, TLAPS

-----------------------------------------------------------------------------
(* Type correctness needs no assumption on the initializers.  It is        *)
(* inductive only together with what a thread holds at each of its steps.  *)

\* The local variables a step is about to use have been assigned.
LocalsSet == \A t \in Thread :
    /\ pc[t] \in Saving \cup {"init_lock", "init_status"} => pass[t] \in Strong
    /\ pc[t] \in Saving => key[t] \in Dek
    /\ pc[t] \in {"write", "fsync"} => fd[t] \in Inode
    /\ pc[t] = "unlock_load" => cfg # None
    /\ pc[t] \in {"seal"} => key[t] \in Dek

\* Init puts every variable in its type.
LEMMA InitTypes == Init => TypeOK /\ LocalsSet
  <1> SUFFICES ASSUME Init PROVE TypeOK /\ LocalsSet
    OBVIOUS
  <1>1. undone \in BOOLEAN
    BY Zenon DEF Init
  <1>2. TypeOK
    BY <1>1 DEF Init, TypeOK, Pc, Saving, Blame
  <1>3. LocalsSet
    BY DEF Init, LocalsSet, Saving
  <1> QED
    BY <1>2, <1>3

\* A step of a thread that is inside a request keeps the types.
LEMMA StepTypes ==
  ASSUME TypeOK, LocalsSet, NEW t \in Thread, Step(t)
  PROVE  TypeOK' /\ LocalsSet'
  <1> USE VaultAssumption DEF TypeOK, LocalsSet, Pc, Saving, Blame, Goto, Answer,
        Begins, files, history, Passphrase
  <1>1. CASE SaveOpen(t)
    BY <1>1 DEF SaveOpen, Empty
  <1>2. CASE SaveWrite(t)
    BY <1>2 DEF SaveWrite, Config
  <1>3. CASE SaveFsync(t)
    BY <1>3 DEF SaveFsync, fsync
  <1>4. CASE SaveReplace(t)
    BY <1>4 DEF SaveReplace
  <1>5. CASE SaveFails(t)
    BY <1>5 DEF SaveFails
  <1>6. CASE InitializeLock(t)
    BY <1>6 DEF InitializeLock
  <1>7. CASE UnlockLoad(t)
    BY <1>7 DEF UnlockLoad, Opens, Config, Empty
  <1>8. CASE UnlockSetDek(t)
    BY <1>8 DEF UnlockSetDek
  <1>9. CASE ReturnStatus(t)
    BY <1>9 DEF ReturnStatus, status, is_initialized, is_unlocked
  <1>10. CASE Seal(t)
    BY <1>10 DEF Seal
  <1> QED
    BY <1>1, <1>2, <1>3, <1>4, <1>5, <1>6, <1>7, <1>8, <1>9, <1>10 DEF Step

\* So does the arrival of a request.
LEMMA RequestTypes ==
  ASSUME TypeOK, LocalsSet, NEW t \in Thread, Request(t)
  PROVE  TypeOK' /\ LocalsSet'
  <1> USE VaultAssumption DEF TypeOK, LocalsSet, Pc, Saving, Blame, Goto, Answer,
        Begins, files, history, Passphrase
  <1>1. ASSUME NEW p \in Passphrase, InitializeStart(t, p)
        PROVE  TypeOK' /\ LocalsSet'
    BY <1>1 DEF InitializeStart, InitError
  <1>2. ASSUME NEW p \in Passphrase, UnlockStart(t, p)
        PROVE  TypeOK' /\ LocalsSet'
    BY <1>2 DEF UnlockStart, is_initialized
  <1>3. CASE Lock(t)
    BY <1>3 DEF Lock
  <1>4. CASE GetStatus(t)
    BY <1>4 DEF GetStatus
  <1>5. CASE GetDek(t)
    BY <1>5 DEF GetDek, is_unlocked
  <1> QED
    BY <1>1, <1>2, <1>3, <1>4, <1>5 DEF Request

\* A fault ends all requests, and files, paths and histories stay in their types.
LEMMA FaultTypes ==
  ASSUME TypeOK, LocalsSet, FlushDirectory \/ Crash \/ PowerLoss
  PROVE  TypeOK' /\ LocalsSet'
  <1> USE DEF TypeOK, LocalsSet, Pc, Saving, Blame, files, history
  <1>1. CASE FlushDirectory
    BY <1>1 DEF FlushDirectory
  <1>2. CASE Crash
    BY <1>2 DEF Crash, Restarted
  <1>3. CASE PowerLoss
    <2>1. disk' \in [Inode -> Config \cup {Empty}]
      BY <1>3 DEF PowerLoss
    <2>2. cfg' \in Inode \cup {None} /\ tmp' \in Inode \cup {None} /\ undone' \in BOOLEAN
      BY <1>3 DEF PowerLoss
    <2> QED
      BY <1>3, <2>1, <2>2 DEF PowerLoss, Restarted
  <1> QED
    BY <1>1, <1>2, <1>3

\* Every step keeps the types, and every state has them.
LEMMA NextTypes ==
  ASSUME TypeOK, LocalsSet, [Next]_vars
  PROVE  TypeOK' /\ LocalsSet'
  <1>1. CASE UNCHANGED vars
    BY <1>1 DEF vars, TypeOK, LocalsSet
  <1>2. CASE Next
    BY <1>2, StepTypes, RequestTypes, FaultTypes DEF Next
  <1> QED
    BY <1>1, <1>2

LEMMA TypedAlways == Spec => [](TypeOK /\ LocalsSet)
  <1>1. TypeOK /\ LocalsSet /\ [Next]_vars => (TypeOK /\ LocalsSet)'
    BY NextTypes
  <1> QED
    BY InitTypes, <1>1, PTL DEF Spec

\* The variables of vault.py, state.py and config_store.py keep their types in
\* every execution, racing inits included: no step of a request uses a local
\* variable that has not been assigned, and no row is sealed without a key.
THEOREM TypeCorrect == Spec => []TypeOK
  BY TypedAlways, PTL

-----------------------------------------------------------------------------
(* Safety with at most one initializer.                                    *)

\* With one initializer a thread that saves is the only one.
LEMMA SaverUnique ==
  ASSUME OneInitializer, SaveInv, NEW t \in Thread, NEW u \in Thread,
         pc[t] \in Saving, pc[u] \in Saving
  PROVE  t = u
  BY DEF OneInitializer, SaveInv

\* The initial state satisfies the inductive invariant.
LEMMA InitInd == Init => IndInv
  BY InitTypes DEF Init, IndInv, TypeOK, SaveInv, FileInv, LocalInv, Saving,
     DekMatchesConfig, InitAckDurable, SealedRecoverable, UnlockHonest

\* The inductive invariant is strong enough for the lemmas on types.
LEMMA IndTypes == IndInv => TypeOK /\ LocalsSet
  BY VaultAssumption DEF IndInv, TypeOK, SaveInv, FileInv, LocalInv, LocalsSet,
     Config, Saving

\* The invariant without its type part, for the proofs by action below.
Safe ==
    /\ SaveInv
    /\ FileInv
    /\ LocalInv
    /\ DekMatchesConfig
    /\ InitAckDurable
    /\ SealedRecoverable
    /\ UnlockHonest

\* save_atomic works on the temporary path while there is no config file, and
\* what os.replace puts in place is complete and flushed.
LEMMA SaveInd ==
  ASSUME OneInitializer, IndInv, TypeOK', NEW t \in Thread,
         \/ SaveOpen(t) \/ SaveWrite(t) \/ SaveFsync(t)
         \/ SaveReplace(t) \/ SaveFails(t)
  PROVE  Safe'
  <1> USE VaultAssumption DEF Saving, Goto, Answer, Blame, files, history
  <1>0. \A u \in Thread : pc[t] \in Saving /\ pc[u] \in Saving => u = t
    BY SaverUnique DEF IndInv
  <1>1. pc[t] \in Saving /\ cfg = None
    BY DEF IndInv, SaveInv, SaveOpen, SaveWrite, SaveFsync, SaveReplace, SaveFails
  <1>2. dek = None /\ (undone \/ (acked = {} /\ sealed = {}))
    BY <1>1 DEF IndInv, DekMatchesConfig, InitAckDurable, SealedRecoverable
  <1>3. dek' = None /\ (undone' \/ (acked' = {} /\ sealed' = {}))
    BY <1>2 DEF SaveOpen, SaveWrite, SaveFsync, SaveReplace, SaveFails
  <1>4. DekMatchesConfig' /\ InitAckDurable' /\ SealedRecoverable'
    BY <1>3 DEF DekMatchesConfig, InitAckDurable, SealedRecoverable
  <1>5. UnlockHonest'
    BY <1>1 DEF IndInv, UnlockHonest, LocalInv, TypeOK, SaveOpen, SaveWrite,
       SaveFsync, SaveReplace, SaveFails
  <1>6. SaveInv'
    <2>1. CASE SaveOpen(t)
      <3>1. PICK i \in Inode : tmp' = i /\ fd' = [fd EXCEPT ![t] = i]
        BY <2>1 DEF SaveOpen
      <3>2. tmp' # None /\ fd'[t] = tmp'
        BY <3>1 DEF IndInv, TypeOK
      <3>3. pc'[t] = "write" /\ \A u \in Thread : u # t => pc'[u] = pc[u]
        BY <2>1 DEF SaveOpen, IndInv, TypeOK
      <3>4. \A u \in Thread : u # t => pc'[u] \notin Saving
        BY <1>0, <1>1, <3>3
      <3>5. cfg' = cfg /\ pass' = pass /\ key' = key
        BY <2>1 DEF SaveOpen
      <3> QED
        BY <1>1, <3>2, <3>3, <3>4, <3>5 DEF SaveInv, IndInv
    <2>2. CASE SaveWrite(t)
      <3>1. tmp # None /\ fd[t] = tmp /\ tmp \in Inode
        BY <2>2 DEF SaveWrite, SaveInv, IndInv, TypeOK
      <3>2. /\ disk'[tmp] = [pass |-> pass[t], dek |-> key[t]]
            /\ cfg' = cfg /\ tmp' = tmp /\ pass' = pass /\ key' = key /\ fd' = fd
        BY <2>2, <3>1 DEF SaveWrite, IndInv, TypeOK
      <3>3. pc'[t] = "fsync" /\ \A u \in Thread : u # t => pc'[u] = pc[u]
        BY <2>2 DEF SaveWrite, IndInv, TypeOK
      <3>4. \A u \in Thread : u # t => pc'[u] \notin Saving
        BY <1>0, <1>1, <3>3
      <3> QED
        BY <1>1, <3>1, <3>2, <3>3, <3>4 DEF SaveInv, IndInv
    <2>3. CASE SaveFsync(t)
      BY <1>0, <1>1, <2>3 DEF SaveFsync, fsync, SaveInv, IndInv, TypeOK
    <2>4. CASE SaveReplace(t)
      BY <1>0, <1>1, <2>4 DEF SaveReplace, SaveInv, IndInv, TypeOK
    <2>5. CASE SaveFails(t)
      BY <1>0, <1>1, <2>5 DEF SaveFails, SaveInv, IndInv, TypeOK
    <2> QED
      BY <2>1, <2>2, <2>3, <2>4, <2>5
  <1>7. FileInv'
    <2>1. CASE SaveReplace(t)
      <3>1. /\ tmp # None /\ tmp \in synced
            /\ disk[tmp] = [pass |-> pass[t], dek |-> key[t]]
            /\ pass[t] \in Passphrase /\ key[t] \in Dek
        BY <2>1 DEF IndInv, SaveInv, Passphrase, SaveReplace
      <3>2. [pass |-> pass[t], dek |-> key[t]] \in Config
        BY <3>1 DEF Config
      <3>3. /\ cfg' = tmp /\ tmp' = None /\ disk' = disk /\ synced' = synced
            /\ shadows' = shadows \cup {cfg}
        BY <2>1 DEF SaveReplace
      <3> QED
        BY <1>1, <3>1, <3>2, <3>3 DEF FileInv, IndInv
    <2>2. CASE ~SaveReplace(t)
      BY <1>1, <2>2 DEF IndInv, FileInv, SaveOpen, SaveWrite, SaveFsync, SaveFails
    <2> QED
      BY <2>1, <2>2
  <1>8. LocalInv'
    <2>1. CASE SaveReplace(t)
      <3>1. \A u \in Thread :
               /\ pc[u] \notin {"init_lock", "init_status", "unlock_load",
                                "unlock_set", "seal"}
               /\ reply[u] # "UNLOCK_FAILED"
        BY <1>1 DEF IndInv, LocalInv
      <3>2. /\ tmp # None
            /\ disk[tmp] = [pass |-> pass[t], dek |-> key[t]]
            /\ pass[t] \in Strong
        BY <2>1 DEF IndInv, SaveInv, SaveReplace
      <3>3. /\ cfg' = tmp /\ disk' = disk /\ pass' = pass /\ reply' = reply
            /\ pc' = [pc EXCEPT ![t] = "init_lock"]
        BY <2>1 DEF SaveReplace
      <3>4. \A u \in Thread : u # t => pc'[u] = pc[u]
        BY <3>3 DEF IndInv, TypeOK
      <3>5. pc'[t] = "init_lock" /\ pass'[t] = disk'[cfg'].pass
        BY <3>2, <3>3 DEF IndInv, TypeOK
      <3> QED
        BY <3>1, <3>2, <3>3, <3>4, <3>5 DEF LocalInv
    <2>2. CASE ~SaveReplace(t)
      BY <1>1, <2>2 DEF IndInv, LocalInv, TypeOK, SaveOpen, SaveWrite, SaveFsync,
         SaveFails
    <2> QED
      BY <2>1, <2>2
  <1> QED
    BY <1>4, <1>5, <1>6, <1>7, <1>8 DEF Safe

\* The other steps of a request leave the files alone; they use what they read
\* of the config file, which still holds.
LEMMA OtherStepInd ==
  ASSUME IndInv, TypeOK', NEW t \in Thread,
         \/ InitializeLock(t) \/ UnlockLoad(t) \/ UnlockSetDek(t)
         \/ ReturnStatus(t) \/ Seal(t)
  PROVE  Safe'
  <1> USE VaultAssumption DEF Saving, Goto, Answer, Begins, Blame, files, history, IndInv, Safe,
        TypeOK, SaveInv, FileInv, LocalInv, DekMatchesConfig, InitAckDurable,
        SealedRecoverable, UnlockHonest
  <1>1. CASE InitializeLock(t)
    BY <1>1 DEF InitializeLock
  <1>2. CASE UnlockLoad(t)
    BY <1>2 DEF UnlockLoad, Opens, Config, Empty
  <1>3. CASE UnlockSetDek(t)
    BY <1>3 DEF UnlockSetDek
  <1>4. CASE ReturnStatus(t)
    BY <1>4 DEF ReturnStatus, status, is_initialized, is_unlocked
  <1>5. CASE Seal(t)
    BY <1>5 DEF Seal
  <1> QED
    BY <1>1, <1>2, <1>3, <1>4, <1>5

\* A new request starts from the checks of its handler.
LEMMA RequestInd ==
  ASSUME IndInv, TypeOK', NEW t \in Thread, Request(t)
  PROVE  Safe'
  <1> USE VaultAssumption DEF Saving, Goto, Answer, Begins, Blame, files, history, IndInv, Safe,
        TypeOK, SaveInv, FileInv, LocalInv, DekMatchesConfig, InitAckDurable,
        SealedRecoverable, UnlockHonest, Passphrase
  <1>1. ASSUME NEW p \in Passphrase, InitializeStart(t, p)
        PROVE  Safe'
    BY <1>1 DEF InitializeStart, InitError, is_initialized
  <1>2. ASSUME NEW p \in Passphrase, UnlockStart(t, p)
        PROVE  Safe'
    BY <1>2 DEF UnlockStart, is_initialized
  <1>3. CASE Lock(t)
    BY <1>3 DEF Lock
  <1>4. CASE GetStatus(t)
    BY <1>4 DEF GetStatus
  <1>5. CASE GetDek(t)
    BY <1>5 DEF GetDek, is_unlocked
  <1> QED
    BY <1>1, <1>2, <1>3, <1>4, <1>5 DEF Request

\* A fault spares the contents of the config file, because they were flushed; a
\* power loss can take the whole file, and then the vault is not initialized.
LEMMA FaultInd ==
  ASSUME IndInv, TypeOK', FlushDirectory \/ Crash \/ PowerLoss
  PROVE  Safe'
  <1> USE DEF IndInv, Safe, TypeOK, SaveInv, FileInv, LocalInv, Saving, history, files,
        DekMatchesConfig, InitAckDurable, SealedRecoverable, UnlockHonest
  <1>1. CASE FlushDirectory
    BY <1>1 DEF FlushDirectory
  <1>2. CASE Crash
    BY <1>2 DEF Crash, Restarted
  <1>3. CASE PowerLoss
    <2>1. /\ dek' = None /\ acked' = acked /\ sealed' = sealed /\ synced' = synced
          /\ shadows' = {}
          /\ \A t \in Thread : pc'[t] = "idle" /\ reply'[t] = "none"
      BY <1>3 DEF PowerLoss, Restarted
    <2>2. cfg # None => disk'[cfg] = disk[cfg]
      BY <1>3 DEF PowerLoss
    <2>3. CASE cfg' = cfg /\ tmp' = tmp /\ undone' = undone
      BY <2>1, <2>2, <2>3
    <2>4. CASE cfg' = None /\ undone' = TRUE
      BY <2>1, <2>4
    <2> QED
      BY <1>3, <2>3, <2>4 DEF PowerLoss
  <1> QED
    BY <1>1, <1>2, <1>3

\* Every step preserves the inductive invariant.
LEMMA NextInd ==
  ASSUME OneInitializer, IndInv, [Next]_vars
  PROVE  IndInv'
  <1>1. TypeOK /\ LocalsSet
    BY IndTypes
  <1>2. CASE UNCHANGED vars
    BY <1>2 DEF vars, IndInv, TypeOK, SaveInv, FileInv, LocalInv, DekMatchesConfig,
       InitAckDurable, SealedRecoverable, UnlockHonest
  <1>3. CASE FlushDirectory \/ Crash \/ PowerLoss
    BY <1>1, <1>3, FaultTypes, FaultInd DEF IndInv, Safe
  <1>4. ASSUME NEW t \in Thread, Request(t)
        PROVE  IndInv'
    BY <1>1, <1>4, RequestTypes, RequestInd DEF IndInv, Safe
  <1>5. ASSUME NEW t \in Thread, Step(t)
        PROVE  IndInv'
    BY <1>1, <1>5, StepTypes, SaveInd, OtherStepInd DEF Step, IndInv, Safe
  <1> QED
    BY <1>2, <1>3, <1>4, <1>5 DEF Next

\* The inductive invariant holds throughout.
LEMMA IndAlways == OneInitializer => (Spec => []IndInv)
  <1> SUFFICES ASSUME OneInitializer
               PROVE  Spec => []IndInv
    OBVIOUS
  <1>1. IndInv /\ [Next]_vars => IndInv'
    BY NextInd
  <1> QED
    BY InitInd, <1>1, PTL DEF Spec

\* The DEK in VaultState is always the one the config file wraps.
THEOREM DekMatches == OneInitializer => (Spec => []DekMatchesConfig)
  BY IndAlways, PTL DEF IndInv

\* An acknowledged initialize survives crashes and power losses, unless a power loss
\* undoes the rename itself.
THEOREM InitDurable == OneInitializer => (Spec => []InitAckDurable)
  BY IndAlways, PTL DEF IndInv

\* The vault never blames the file or the user for what it did itself.
THEOREM UnlockIsHonest == OneInitializer => (Spec => []UnlockHonest)
  BY IndAlways, PTL DEF IndInv

\* Whatever was encrypted with a copy of the DEK can be decrypted later.
THEOREM SealedStays == OneInitializer => (Spec => []SealedRecoverable)
  BY IndAlways, PTL DEF IndInv

\* initialize, with its leftovers and failures, and every other request leave an
\* existing config file as it is.
THEOREM ConfigStays == OneInitializer => (Spec => ConfigImmutable)
  <1> SUFFICES ASSUME OneInitializer
               PROVE  Spec => ConfigImmutable
    OBVIOUS
  <1>1. IndInv /\ [Next]_vars =>
           [cfg # None =>
              \/ cfg' = cfg /\ disk'[cfg] = disk[cfg]
              \/ shadows # {} /\ cfg' = None /\ undone']_vars
    <2> SUFFICES ASSUME IndInv, Next, cfg # None
                 PROVE  \/ cfg' = cfg /\ disk'[cfg] = disk[cfg]
                        \/ shadows # {} /\ cfg' = None /\ undone'
      BY DEF vars
    <2>1. CASE FlushDirectory \/ Crash
      BY <2>1 DEF FlushDirectory, Crash, files
    <2>0. CASE PowerLoss
      BY <2>0 DEF PowerLoss, IndInv, TypeOK, FileInv
    <2>2. ASSUME NEW t \in Thread, Request(t)
          PROVE  cfg' = cfg /\ disk' = disk
      BY <2>2 DEF Request, InitializeStart, UnlockStart, Lock, GetStatus, GetDek, files
    <2>3. ASSUME NEW t \in Thread, Step(t)
          PROVE  cfg' = cfg /\ disk' = disk
      <3>1. pc[t] \notin Saving
        BY DEF IndInv, SaveInv
      <3> QED
        BY <2>3, <3>1 DEF Step, Saving, SaveOpen, SaveWrite, SaveFsync, SaveReplace,
           SaveFails, InitializeLock, UnlockLoad, UnlockSetDek, ReturnStatus, Seal,
           files
    <2> QED
      BY <2>0, <2>1, <2>2, <2>3 DEF Next
  <1> QED
    BY IndAlways, <1>1, PTL DEF Spec, ConfigImmutable

\* The vault is unlocked only with the passphrase of the config file in force.
THEOREM OwnerUnlocks == OneInitializer => (Spec => OnlyOwnerUnlocks)
  <1> SUFFICES ASSUME OneInitializer
               PROVE  Spec => OnlyOwnerUnlocks
    OBVIOUS
  <1>1. IndInv /\ [Next]_vars =>
           [dek = None /\ dek' # None =>
              \E t \in Thread : pc[t] = "unlock_set" /\ pass[t] = disk[cfg].pass]_vars
    <2> SUFFICES ASSUME IndInv, Next, dek = None, dek' # None
                 PROVE  \E t \in Thread :
                           pc[t] = "unlock_set" /\ pass[t] = disk[cfg].pass
      BY DEF vars
    <2>1. PICK t \in Thread : UnlockSetDek(t)
      BY DEF Next, Request, Step, InitializeStart, UnlockStart, Lock, GetStatus,
         GetDek, SaveOpen, SaveWrite, SaveFsync, SaveReplace, SaveFails,
         InitializeLock, UnlockLoad, ReturnStatus, Seal, FlushDirectory, Crash,
         PowerLoss, Restarted
    <2> QED
      BY <2>1 DEF UnlockSetDek, IndInv, LocalInv
  <1> QED
    BY IndAlways, <1>1, PTL DEF Spec, OnlyOwnerUnlocks

-----------------------------------------------------------------------------
(* What racing inits leave intact.                                         *)

\* A request that is about to write a DEK to a file or to the memory of the server.
Carries(t) == pc[t] \in Saving \cup {"unlock_set"}

\* d is wrapped for p in a file, the config file or another, or carried by a request
\* that was sent p.
Bound(p, d) ==
    \/ \E i \in Inode : disk[i] # Empty /\ disk[i].pass = p /\ disk[i].dek = d
    \/ \E t \in Thread : Carries(t) /\ pass[t] = p /\ key[t] = d

Secret == Passphrase \cup {None}
Drawn == Dek \cup {None}

\* A DEK belongs to one passphrase, that of the init that drew it, wherever it is.
OnePassPerKey ==
    \A p \in Secret, d \in Drawn : Bound(p, d) =>
        p \in Strong /\ d \in minted /\ \A q \in Secret : Bound(q, d) => q = p

\* The DEK changes only by a request that was sent the strong passphrase to which the
\* new one belongs in every file that wraps it.
UnlockedByOwner ==
    [][dek' # None /\ dek' # dek =>
          \E t \in Thread : /\ pc[t] = "unlock_set" /\ pass[t] \in Strong
                            /\ \A i \in Inode : disk[i].dek = dek' => disk[i].pass = pass[t]]_vars

\* A step that binds nothing anew.
LEMMA NothingNew ==
  ASSUME OnePassPerKey, minted \subseteq minted',
         \A p \in Secret, d \in Drawn : Bound(p, d)' => Bound(p, d)
  PROVE  OnePassPerKey'
  BY DEF OnePassPerKey, Secret, Drawn, Passphrase

\* Requests that carry what they carried before, and files that are as before or empty.
LEMMA OnlyCarried ==
  ASSUME TypeOK,
         \A t \in Thread : Carries(t)' => Carries(t) /\ pass'[t] = pass[t] /\ key'[t] = key[t],
         \A i \in Inode : disk'[i] \in {disk[i], Empty},
         NEW p, NEW d, Bound(p, d)'
  PROVE  Bound(p, d)
  <1>1. CASE \E t \in Thread : Carries(t)' /\ pass'[t] = p /\ key'[t] = d
    BY <1>1 DEF Bound
  <1>2. CASE \E i \in Inode : disk'[i] # Empty /\ disk'[i].pass = p /\ disk'[i].dek = d
    <2>1. PICK i \in Inode : disk'[i] # Empty /\ disk'[i].pass = p /\ disk'[i].dek = d
      BY <1>2
    <2>2. disk'[i] = disk[i]
      BY <2>1
    <2> QED
      BY <2>1, <2>2 DEF Bound
  <1> QED
    BY <1>1, <1>2 DEF Bound, Empty

LEMMA WriteBinds ==
  ASSUME TypeOK, LocalsSet, NEW t \in Thread, SaveWrite(t), NEW p, NEW d, Bound(p, d)'
  PROVE  Bound(p, d)
  <1>1. /\ disk' = [disk EXCEPT ![fd[t]] = [pass |-> pass[t], dek |-> key[t]]]
        /\ disk \in [Inode -> Config \cup {Empty}] /\ fd[t] \in Inode /\ Carries(t)
    BY DEF SaveWrite, TypeOK, LocalsSet, Carries, Saving
  <1>2. \A u \in Thread : Carries(u)' => Carries(u) /\ pass'[u] = pass[u] /\ key'[u] = key[u]
    BY DEF SaveWrite, Goto, Carries, Saving, TypeOK
  <1>3. CASE \E u \in Thread : Carries(u)' /\ pass'[u] = p /\ key'[u] = d
    BY <1>2, <1>3 DEF Bound
  <1>4. ASSUME NEW i \in Inode, disk'[i] # Empty, disk'[i].pass = p, disk'[i].dek = d
        PROVE  Bound(p, d)
    <2>1. CASE i = fd[t]
      <3>1. pass[t] = p /\ key[t] = d
        BY <1>1, <1>4, <2>1
      <3> QED
        BY <1>1, <3>1 DEF Bound
    <2>2. CASE i # fd[t]
      BY <1>1, <1>4, <2>2 DEF Bound
    <2> QED
      BY <2>1, <2>2
  <1> QED
    BY <1>3, <1>4 DEF Bound, Empty

\* unlock carries away what the config file binds.
LEMMA LoadBinds ==
  ASSUME TypeOK, LocalsSet, NEW t \in Thread, UnlockLoad(t), NEW p, NEW d, Bound(p, d)'
  PROVE  Bound(p, d)
  <1>1. cfg \in Inode /\ disk' = disk
    BY DEF UnlockLoad, TypeOK, LocalsSet, files
  <1>2. \A u \in Thread \ {t} : Carries(u)' => Carries(u) /\ pass'[u] = pass[u] /\ key'[u] = key[u]
    BY DEF UnlockLoad, Answer, Goto, Carries, TypeOK
  <1>3. CASE Carries(t)'
    <2>1. disk[cfg] # Empty /\ pass'[t] = disk[cfg].pass /\ key'[t] = disk[cfg].dek
      BY <1>3 DEF UnlockLoad, Answer, Goto, Carries, Opens, TypeOK, Saving
    <2> QED
      BY <1>1, <1>2, <2>1 DEF Bound
  <1>4. CASE ~Carries(t)'
    BY <1>1, <1>2, <1>4 DEF Bound
  <1> QED
    BY <1>3, <1>4

\* An init draws a key that is nowhere yet.
LEMMA StartBinds ==
  ASSUME TypeOK, OnePassPerKey, NEW t \in Thread, NEW w \in Passphrase, InitializeStart(t, w)
  PROVE  OnePassPerKey'
  <1>0. disk' = disk /\ minted \subseteq minted'
    BY DEF InitializeStart, files
  <1>1. \A u \in Thread \ {t} : Carries(u)' => Carries(u) /\ pass'[u] = pass[u] /\ key'[u] = key[u]
    BY DEF InitializeStart, Answer, Goto, Carries, TypeOK
  <1>2. CASE ~Carries(t)'
    <2>1. \A p \in Secret, d \in Drawn : Bound(p, d)' => Bound(p, d)
      BY <1>0, <1>1, <1>2 DEF Bound
    <2> QED
      BY <1>0, <2>1, NothingNew
  <1>3. CASE Carries(t)'
    <2>1. /\ pass'[t] = w /\ key'[t] \in Dek /\ w \in Strong
          /\ key'[t] \notin minted /\ key'[t] \in minted'
      BY <1>3 DEF InitializeStart, InitError, Answer, Goto, Carries, Saving, TypeOK, Passphrase
    <2>2. ASSUME NEW p \in Secret, NEW d \in Drawn, Bound(p, d)'
          PROVE  Bound(p, d) \/ (p = w /\ d = key'[t])
      <3>1. CASE \E i \in Inode : disk'[i] # Empty /\ disk'[i].pass = p /\ disk'[i].dek = d
        BY <1>0, <3>1 DEF Bound
      <3>2. ASSUME NEW u \in Thread, Carries(u)', pass'[u] = p, key'[u] = d
            PROVE  Bound(p, d) \/ (p = w /\ d = key'[t])
        <4>1. CASE u = t
          BY <2>1, <3>2, <4>1
        <4>2. CASE u # t
          BY <1>1, <3>2, <4>2 DEF Bound
        <4> QED
          BY <4>1, <4>2
      <3> QED
        BY <2>2, <3>1, <3>2 DEF Bound, Empty
    <2>3. \A p \in Secret, d \in Drawn : Bound(p, d) => p \in Strong /\ d \in minted
      BY DEF OnePassPerKey
    <2> QED
      BY <1>0, <2>1, <2>2, <2>3 DEF OnePassPerKey
  <1> QED
    BY <1>2, <1>3

LEMMA OnePassStays ==
  ASSUME TypeOK, LocalsSet, OnePassPerKey, [Next]_vars
  PROVE  OnePassPerKey'
  <1>1. ASSUME NEW t \in Thread, Step(t) PROVE OnePassPerKey'
    <2>0. minted \subseteq minted'
      BY <1>1 DEF Step, SaveOpen, SaveWrite, SaveFsync, SaveReplace, SaveFails, InitializeLock,
         UnlockLoad, UnlockSetDek, ReturnStatus, Seal, history
    <2>1. CASE SaveWrite(t)
      BY <2>0, <2>1, WriteBinds, NothingNew
    <2>2. CASE UnlockLoad(t)
      BY <2>0, <2>2, LoadBinds, NothingNew
    <2>3. CASE ~SaveWrite(t) /\ ~UnlockLoad(t)
      <3>1. \A u \in Thread : Carries(u)' => Carries(u) /\ pass'[u] = pass[u] /\ key'[u] = key[u]
        BY <1>1, <2>3 DEF Step, SaveOpen, SaveFsync, SaveReplace, SaveFails, InitializeLock,
           UnlockSetDek, ReturnStatus, Seal, Answer, Goto, Carries, Saving, TypeOK
      <3>2. \A i \in Inode : disk'[i] \in {disk[i], Empty}
        BY <1>1, <2>3 DEF Step, SaveOpen, SaveFsync, SaveReplace, SaveFails, InitializeLock,
           UnlockSetDek, ReturnStatus, Seal, files, TypeOK
      <3> QED
        BY <2>0, <3>1, <3>2, OnlyCarried, NothingNew
    <2> QED
      BY <2>1, <2>2, <2>3
  <1>2. ASSUME NEW t \in Thread, Request(t), \A w \in Passphrase : ~InitializeStart(t, w)
        PROVE  OnePassPerKey'
    <2>1. minted \subseteq minted' /\ disk' = disk
      BY <1>2 DEF Request, UnlockStart, Lock, GetStatus, GetDek, files, history
    <2>2. \A u \in Thread : Carries(u)' => Carries(u) /\ pass'[u] = pass[u] /\ key'[u] = key[u]
      BY <1>2 DEF Request, UnlockStart, Lock, GetStatus, GetDek, Answer, Begins, Goto,
         Carries, Saving, TypeOK
    <2> QED
      BY <2>1, <2>2, OnlyCarried, NothingNew
  <1>3. CASE FlushDirectory \/ Crash \/ PowerLoss \/ UNCHANGED vars
    <2>1. minted \subseteq minted' /\ \A i \in Inode : disk'[i] \in {disk[i], Empty}
      BY <1>3 DEF FlushDirectory, Crash, PowerLoss, Restarted, files, history, vars
    <2>2. \A u \in Thread : Carries(u)' => Carries(u) /\ pass'[u] = pass[u] /\ key'[u] = key[u]
      BY <1>3 DEF FlushDirectory, Crash, PowerLoss, Restarted, vars, Carries, Saving
    <2> QED
      BY <2>1, <2>2, OnlyCarried, NothingNew
  <1> QED
    BY <1>1, <1>2, <1>3, StartBinds DEF Next, Request

\* Without any hypothesis: inits that race may lose a vault, but no file ever wraps the
\* DEK of one for the passphrase of another, and whoever unlocks the vault has sent the
\* passphrase of the DEK that is put in place, in whichever file it was.
THEOREM RacesKeepKeysApart == Spec => []OnePassPerKey /\ UnlockedByOwner
  <1>1. Init => OnePassPerKey
    BY DEF Init, OnePassPerKey, Bound, Carries, Saving
  <1>2. TypeOK /\ LocalsSet /\ OnePassPerKey /\ [Next]_vars => OnePassPerKey'
    BY OnePassStays
  <1>3. ASSUME TypeOK, OnePassPerKey, [Next]_vars, dek' # None, dek' # dek
        PROVE  \E t \in Thread : /\ pc[t] = "unlock_set" /\ pass[t] \in Strong
                                 /\ \A i \in Inode : disk[i].dek = dek' => disk[i].pass = pass[t]
    <2>1. PICK t \in Thread : UnlockSetDek(t)
      BY <1>3 DEF Next, Request, Step, InitializeStart, UnlockStart, Lock, GetStatus, GetDek,
         SaveOpen, SaveWrite, SaveFsync, SaveReplace, SaveFails, InitializeLock, UnlockLoad,
         ReturnStatus, Seal, FlushDirectory, Crash, PowerLoss, Restarted, vars
    <2>2. pc[t] = "unlock_set" /\ dek' = key[t] /\ Bound(pass[t], key[t])
      BY <2>1 DEF UnlockSetDek, Bound, Carries
    <2>3. pass[t] \in Secret /\ key[t] \in Drawn
      BY <1>3 DEF TypeOK, Secret, Drawn
    <2>4. pass[t] \in Strong /\ \A q \in Secret : Bound(q, key[t]) => q = pass[t]
      BY <1>3, <2>2, <2>3 DEF OnePassPerKey
    <2>5. ASSUME NEW i \in Inode, disk[i].dek = dek' PROVE disk[i].pass = pass[t]
      <3>1. disk[i] # Empty /\ disk[i].pass \in Secret
        BY <1>3, <2>5 DEF TypeOK, Config, Empty, Secret
      <3> QED
        BY <2>2, <2>4, <2>5, <3>1 DEF Bound
    <2> QED
      BY <2>2, <2>4, <2>5
  <1>4. TypeOK /\ OnePassPerKey /\ [Next]_vars =>
           [dek' # None /\ dek' # dek =>
              \E t \in Thread : /\ pc[t] = "unlock_set" /\ pass[t] \in Strong
                                /\ \A i \in Inode : disk[i].dek = dek' => disk[i].pass = pass[t]]_vars
    BY <1>3
  <1> QED
    BY TypedAlways, <1>1, <1>2, <1>4, PTL DEF Spec, UnlockedByOwner
=============================================================================
