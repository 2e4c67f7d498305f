----------------------------- MODULE VaultCore -----------------------------
(***************************************************************************)
(* VaultService over VaultState and JsonConfigStore: initialisation of the *)
(* vault, unlock, lock and status, run by the worker threads of one server *)
(* process, with process restarts and power losses in between.             *)
(*                                                                         *)
(* A request is cut at every access to state that another thread can see:  *)
(* a system call on the config file or its ".tmp" sibling, or a critical   *)
(* section of VaultState._lock.  What lies between two such points (Argon2, *)
(* AES-GCM) is local to the thread.                                        *)
(***************************************************************************)
EXTENDS Naturals

CONSTANTS
    Thread,       \* worker threads of the server
    Initializer,  \* the threads that may run POST /v1/vault/init
    Strong,       \* master passphrases that pass the strength policy
    Weak,         \* master passphrases that do not
    Dek,          \* the keys generate_dek() can return; bounds the inits
    Inode,        \* files of the config directory
    None          \* no file, no key, no passphrase

ASSUME VaultAssumption ==
    /\ Initializer \subseteq Thread
    /\ None \notin Inode \cup Dek \cup Strong \cup Weak
    /\ Strong \cap Weak = {}

VARIABLES
    cfg,      \* the inode at config_path, None when there is no such file
    tmp,      \* the inode at config_path + ".tmp"
    disk,     \* disk[i]: contents of inode i
    synced,   \* inodes whose contents an fsync has made durable
    shadows,  \* what a power loss can make of config_path again, the directory
              \* not being flushed: the inodes, or None, it named before a rename
    dek,      \* VaultState._dek
    minted,   \* keys generated so far: generate_dek() never repeats one
    sealed,   \* keys under which some engine has committed ciphertext
    acked,    \* history: passphrases of the inits answered 201
    undone,   \* history: whether a power loss has undone a rename
    pc,       \* pc[t]: where thread t is in its request
    pass,     \* pass[t]: the master passphrase of the request
    key,      \* key[t]: the DEK in a local variable of the request
    fd,       \* fd[t]: the inode the request has open for writing
    reply     \* reply[t]: how the last request of t was answered

files   == <<cfg, tmp, disk, synced, shadows>>
history == <<minted, sealed, acked, undone>>
vars    == <<cfg, tmp, disk, synced, shadows, dek, minted, sealed, acked, undone,
             pc, pass, key, fd, reply>>

Passphrase == Strong \cup Weak

\* A config file binds a DEK to the passphrase whose derived key wraps it.  A
\* file opened with "w" and not yet written is empty: pass and dek are None.
Config == [pass : Passphrase, dek : Dek]
Empty  == [pass |-> None, dek |-> None]

Saving == {"open", "write", "fsync", "replace"}
Pc == Saving \cup {"idle", "init_lock", "init_status", "unlock_load",
                   "unlock_set", "status", "seal"}
Init ==
    /\ cfg = None /\ tmp = None
    /\ disk = [i \in Inode |-> Empty]
    /\ synced = {} /\ shadows = {}
    /\ dek = None
    /\ minted = {} /\ sealed = {} /\ acked = {} /\ undone = FALSE
    /\ pc    = [t \in Thread |-> "idle"]
    /\ pass  = [t \in Thread |-> None]
    /\ key   = [t \in Thread |-> None]
    /\ fd    = [t \in Thread |-> None]
    /\ reply = [t \in Thread |-> "none"]

-----------------------------------------------------------------------------
(* Steps shared by the requests.                                           *)

\* JsonConfigStore.exists
is_initialized == cfg # None

\* The answers by which unlock blames the file or the user; no property tells the
\* others apart.
Blame == {"UNLOCK_FAILED", "VAULT_CONFIG_INVALID"}

\* The request of t ends with answer r; its local variables die with it, except for
\* the passphrase of a blame.
Answer(t, r) ==
    /\ pc'    = [pc EXCEPT ![t] = "idle"]
    /\ pass'  = [pass EXCEPT ![t] = IF r \in Blame THEN @ ELSE None]
    /\ key'   = [key EXCEPT ![t] = None]
    /\ fd'    = [fd EXCEPT ![t] = None]
    /\ reply' = [reply EXCEPT ![t] = IF r \in Blame THEN r ELSE "none"]

\* A request without a passphrase begins.
Begins(t) ==
    /\ pass'  = [pass EXCEPT ![t] = None]
    /\ reply' = [reply EXCEPT ![t] = "none"]

Goto(t, l) == pc' = [pc EXCEPT ![t] = l]

\* A file that no path and no open descriptor refers to can be allocated.
Unused(i) == i \notin shadows \cup {cfg, tmp} /\ \A t \in Thread : fd[t] # i

-----------------------------------------------------------------------------
(* POST /v1/vault/init                                                     *)

\* The checks of initialize, in their order.
InitError_NoCheck(p) ==
    IF p \in Weak THEN "WEAK_MASTER_PASSPHRASE" ELSE "none"
InitError(p) ==
    IF is_initialized THEN "VAULT_ALREADY_INITIALIZED"
    ELSE IF p \in Weak THEN "WEAK_MASTER_PASSPHRASE" ELSE "none"

\* On success the request derives the wrapping key and generates the DEK:
\* minted remembers that no other call can draw it.
InitializeStart(t, p) ==
    /\ t \in Initializer
    /\ pc[t] = "idle"
    /\ \/ /\ InitError(p) # "none"
          /\ Answer(t, InitError(p))
          /\ UNCHANGED minted
       \/ /\ InitError(p) = "none"
          /\ \E d \in Dek \ minted :
                /\ minted' = minted \cup {d}
                /\ key' = [key EXCEPT ![t] = d]
          /\ pass' = [pass EXCEPT ![t] = p]
          /\ Goto(t, "open")
          /\ reply' = [reply EXCEPT ![t] = "none"]
          /\ UNCHANGED fd
    /\ UNCHANGED <<files, dek, sealed, acked, undone>>

\* open(tmp, "w"): truncates the file at the temporary path, or creates it.
SaveOpen(t) ==
    /\ pc[t] = "open"
    /\ \E i \in Inode :
          /\ IF tmp = None THEN Unused(i) ELSE i = tmp
          /\ tmp' = i
          /\ fd' = [fd EXCEPT ![t] = i]
          /\ disk' = [disk EXCEPT ![i] = Empty]
          /\ synced' = synced \ {i}
    /\ Goto(t, "write")
    /\ UNCHANGED <<cfg, shadows, dek, history, pass, key, reply>>

\* json.dump and flush: the file is small enough for one write at offset 0.
SaveWrite(t) ==
    /\ pc[t] = "write"
    /\ disk' = [disk EXCEPT ![fd[t]] = [pass |-> pass[t], dek |-> key[t]]]
    /\ synced' = synced \ {fd[t]}
    /\ Goto(t, "fsync")
    /\ UNCHANGED <<cfg, tmp, shadows, dek, history, pass, key, fd, reply>>

\* os.fsync, then the with block closes the file.
fsync_Skipped(i) == synced
fsync(i) == synced \cup {i}

SaveFsync(t) ==
    /\ pc[t] = "fsync"
    /\ synced' = fsync(fd[t])
    /\ fd' = [fd EXCEPT ![t] = None]
    /\ Goto(t, "replace")
    /\ UNCHANGED <<cfg, tmp, disk, shadows, dek, history, pass, key, reply>>

\* os.replace: atomic, and not followed by an fsync of the directory.  It cannot succeed when another request has already
\* moved the shared temporary path away: then only SaveFails is left.
SaveReplace(t) ==
    /\ pc[t] = "replace"
    /\ tmp # None
    /\ cfg' = tmp
    /\ tmp' = None
    /\ shadows' = shadows \cup {cfg}
    /\ Goto(t, "init_lock")
    /\ UNCHANGED <<disk, synced, dek, history, pass, key, fd, reply>>

\* An OSError anywhere in save_atomic: the temporary file is removed if that
\* is possible, and the request fails.
SaveFails_Retries(t) ==
    /\ pc[t] \in Saving
    /\ tmp' \in {tmp, None}
    /\ Goto(t, "open")
    /\ fd' = [fd EXCEPT ![t] = None]
    /\ UNCHANGED <<cfg, disk, synced, shadows, dek, history, pass, key, reply>>
SaveFails(t) ==
    /\ pc[t] \in Saving
    /\ tmp' \in {tmp, None}
    /\ Answer(t, "STORAGE_ERROR")
    /\ UNCHANGED <<cfg, disk, synced, shadows, dek, history>>

InitializeLock(t) ==
    /\ pc[t] = "init_lock"
    /\ dek' = None
    /\ Goto(t, "init_status")
    /\ UNCHANGED <<files, history, pass, key, fd, reply>>

-----------------------------------------------------------------------------
(* POST /v1/vault/unlock                                                   *)

\* The config file is never removed, so its existence check and the lock() that
\* follows it can be taken together.
UnlockStart(t, p) ==
    /\ pc[t] = "idle"
    /\ \/ /\ ~is_initialized
          /\ Answer(t, "VAULT_NOT_INITIALIZED")
          /\ UNCHANGED dek
       \/ /\ is_initialized
          /\ dek' = None
          /\ pass' = [pass EXCEPT ![t] = p]
          /\ Goto(t, "unlock_load")
          /\ reply' = [reply EXCEPT ![t] = "none"]
          /\ UNCHANGED <<key, fd>>
    /\ UNCHANGED <<files, history>>

\* Only the key derived from the wrapping passphrase passes the GCM tag.
Opens_IgnoringTag(config, p) == TRUE
Opens(config, p) == config.pass = p

\* Reads the file; everything up to set_dek is then local.  An empty file does
\* not parse.
UnlockLoad(t) ==
    /\ pc[t] = "unlock_load"
    /\ LET config == disk[cfg] IN
          \/ /\ config = Empty
             /\ Answer(t, "VAULT_CONFIG_INVALID")
          \/ /\ config # Empty
             /\ ~Opens(config, pass[t])
             /\ Answer(t, "UNLOCK_FAILED")
          \/ /\ config # Empty
             /\ Opens(config, pass[t])
             /\ key' = [key EXCEPT ![t] = config.dek]
             /\ Goto(t, "unlock_set")
             /\ UNCHANGED <<pass, fd, reply>>
    /\ UNCHANGED <<files, dek, history>>

\* VaultState.set_dek
UnlockSetDek(t) ==
    /\ pc[t] = "unlock_set"
    /\ dek' = key[t]
    /\ Goto(t, "status")
    /\ UNCHANGED <<files, history, pass, key, fd, reply>>

-----------------------------------------------------------------------------
(* POST /v1/vault/lock, GET /v1/vault/status and the engines               *)

Lock(t) ==
    /\ pc[t] = "idle"
    /\ dek' = None
    /\ Goto(t, "status")
    /\ Begins(t)
    /\ UNCHANGED <<files, history, key, fd>>

\* GET /v1/vault/status, whose handler only calls status().
GetStatus(t) ==
    /\ pc[t] = "idle"
    /\ Goto(t, "status")
    /\ Begins(t)
    /\ UNCHANGED <<files, dek, history, key, fd>>

\* VaultState.is_unlocked
is_unlocked_Always == TRUE
is_unlocked == dek # None

\* status() looks at the file and then at the DEK.  An existing file stays, so
\* the second look decides the answer; a missing one answers at once.
status ==
    IF ~is_initialized THEN "not_initialized"
    ELSE IF is_unlocked THEN "unlocked" ELSE "locked"

ReturnStatus(t) ==
    /\ pc[t] \in {"init_status", "status"}
    /\ Answer(t, status)
    /\ acked' = IF pc[t] = "init_status" THEN acked \cup {pass[t]} ELSE acked
    /\ UNCHANGED <<files, dek, minted, sealed, undone>>

\* require_unlocked / get_dek, called by the KV and Transit engines: a private
\* copy of the DEK, or the VAULT_LOCKED error.
GetDek(t) ==
    /\ pc[t] = "idle"
    /\ \/ /\ ~is_unlocked
          /\ Answer(t, "VAULT_LOCKED")
       \/ /\ is_unlocked
          /\ key' = [key EXCEPT ![t] = dek]
          /\ Goto(t, "seal")
          /\ Begins(t)
          /\ UNCHANGED fd
    /\ UNCHANGED <<files, dek, history>>

\* The engine commits a row encrypted with the copy it took.
Seal(t) ==
    /\ pc[t] = "seal"
    /\ sealed' = sealed \cup {key[t]}
    /\ Answer(t, "ok")
    /\ UNCHANGED <<files, dek, minted, acked, undone>>

-----------------------------------------------------------------------------
(* Faults and the file system                                              *)

\* The kernel writes the directory out, at a time of its own.
FlushDirectory ==
    /\ shadows # {}
    /\ shadows' = {}
    /\ UNCHANGED <<cfg, tmp, disk, synced, dek, history, pc, pass, key, fd, reply>>

\* The process stops, at any point, and is started again: threads and the DEK
\* are gone and lifespan() leaves the vault locked.
Restarted ==
    /\ dek'   = None
    /\ pc'    = [t \in Thread |-> "idle"]
    /\ pass'  = [t \in Thread |-> None]
    /\ key'   = [t \in Thread |-> None]
    /\ fd'    = [t \in Thread |-> None]
    /\ reply' = [t \in Thread |-> "none"]
    /\ UNCHANGED <<minted, sealed, acked>>

Crash == Restarted /\ UNCHANGED <<files, undone>>

\* A power loss also drops the contents of some files that were not fsynced, and
\* may undo the renames the directory has not recorded yet.
PowerLoss ==
    /\ Restarted
    /\ \E lost \in SUBSET (Inode \ synced) :
          disk' = [i \in Inode |-> IF i \in lost THEN Empty ELSE disk[i]]
    /\ \/ UNCHANGED <<cfg, tmp, undone>>
       \/ /\ cfg' \in shadows
          /\ tmp' \in {cfg, None}
          /\ undone' = TRUE
    /\ shadows' = {}
    /\ UNCHANGED synced

Request(t) ==
    \/ \E p \in Passphrase : InitializeStart(t, p)
    \/ \E p \in Passphrase : UnlockStart(t, p)
    \/ Lock(t)
    \/ GetStatus(t)
    \/ GetDek(t)

Step(t) ==
    \/ SaveOpen(t)
    \/ SaveWrite(t)
    \/ SaveFsync(t)
    \/ SaveReplace(t)
    \/ SaveFails(t)
    \/ InitializeLock(t)
    \/ UnlockLoad(t)
    \/ UnlockSetDek(t)
    \/ ReturnStatus(t)
    \/ Seal(t)

Next == (\E t \in Thread : Request(t) \/ Step(t)) \/ FlushDirectory \/ Crash \/ PowerLoss

Spec == Init /\ [][Next]_vars

\* The operating system keeps scheduling a thread that is inside a request.
FairSpec == Spec /\ \A t \in Thread : WF_vars(Step(t))
-----------------------------------------------------------------------------
(* Properties                                                              *)

\* Every variable has the shape the code gives it; in particular no row is
\* ever sealed without a key, whatever lock() does around get_dek().
TypeOK ==
    /\ cfg \in Inode \cup {None}
    /\ tmp \in Inode \cup {None}
    /\ disk \in [Inode -> Config \cup {Empty}]
    /\ synced \subseteq Inode
    /\ shadows \subseteq Inode \cup {None}
    /\ dek \in Dek \cup {None}
    /\ minted \subseteq Dek
    /\ sealed \subseteq Dek
    /\ acked \subseteq Strong
    /\ undone \in BOOLEAN
    /\ pc \in [Thread -> Pc]
    /\ pass \in [Thread -> Passphrase \cup {None}]
    /\ key \in [Thread -> Dek \cup {None}]
    /\ fd \in [Thread -> Inode \cup {None}]
    /\ reply \in [Thread -> Blame \cup {"none"}]

\* The DEK that VaultState holds is the one the config file wraps: a restart and
\* an unlock bring back the key that requests are using now.
DekMatchesConfig == dek # None => cfg # None /\ disk[cfg].dek = dek

\* Once initialize has answered, its passphrase opens the config file, through
\* every crash and power loss: save_atomic flushed the file before renaming it.
\* Only a power loss before the directory reaches the disk can take it back.
InitAckDurable == undone \/ \A p \in acked : cfg # None /\ disk[cfg].pass = p

\* Whatever an engine has committed stays readable: the config file wraps the
\* key of every committed ciphertext, although the engine used its own copy of
\* the DEK after VaultState let go of it.
SealedRecoverable == undone \/ \A d \in sealed : cfg # None /\ disk[cfg].dek = d

\* unlock never blames the user for a damaged file, nor reports a damaged file:
\* UNLOCK_FAILED means a wrong passphrase, VAULT_CONFIG_INVALID does not occur, not
\* even after a power loss that has undone the rename.
UnlockHonest == \A t \in Thread :
    /\ reply[t] # "VAULT_CONFIG_INVALID"
    /\ reply[t] = "UNLOCK_FAILED" => pass[t] # disk[cfg].pass

\* An existing config file is never replaced nor changed in place; it can only be
\* gone as a whole after a power loss, while the directory is not flushed.
ConfigImmutable ==
    [][cfg # None =>
          \/ cfg' = cfg /\ disk'[cfg] = disk[cfg]
          \/ shadows # {} /\ cfg' = None /\ undone']_vars

\* The vault gets unlocked only by a request that carries the passphrase of the
\* config file as it is at that moment, not as it was when it was read.
OnlyOwnerUnlocks ==
    [][dek = None /\ dek' # None =>
          \E t \in Thread : pc[t] = "unlock_set" /\ pass[t] = disk[cfg].pass]_vars

\* Every request is answered, storage errors and racing requests included.
RequestsReturn == \A t \in Thread : pc[t] # "idle" ~> pc[t] = "idle"

-----------------------------------------------------------------------------
(* The inductive invariant behind the safety properties.                   *)

\* Operators do not run two inits at once; what they lose if they do is the
\* subject of the run VaultCore_init_race.
OneInitializer == \A t, u \in Initializer : t = u

\* A save in progress owns the temporary path and there is no config file yet.
SaveInv == \A t \in Thread :
    /\ pc[t] \in Saving =>
          /\ t \in Initializer /\ cfg = None
          /\ pass[t] \in Strong /\ key[t] \in Dek
    /\ pc[t] \in {"write", "fsync"} => tmp # None /\ fd[t] = tmp
    /\ pc[t] \in {"fsync", "replace"} =>
          tmp # None /\ disk[tmp] = [pass |-> pass[t], dek |-> key[t]]
    /\ pc[t] = "replace" => tmp \in synced

\* A config file is complete and durable, and apart from the temporary one; before
\* it there was none.
FileInv ==
    /\ cfg # None => disk[cfg] \in Config /\ cfg \in synced /\ cfg # tmp
    /\ shadows \subseteq {None}

\* What a request has read of the config file is still true of it.
LocalInv == \A t \in Thread :
    /\ pc[t] \in {"init_lock", "init_status"} =>
          cfg # None /\ pass[t] = disk[cfg].pass /\ pass[t] \in Strong
    /\ pc[t] = "unlock_load" => cfg # None
    /\ pc[t] = "unlock_set" =>
          cfg # None /\ key[t] = disk[cfg].dek /\ pass[t] = disk[cfg].pass
    /\ pc[t] = "seal" => cfg # None /\ key[t] = disk[cfg].dek
    /\ reply[t] = "UNLOCK_FAILED" => cfg # None

IndInv ==
    /\ TypeOK
    /\ SaveInv
    /\ FileInv
    /\ LocalInv
    /\ DekMatchesConfig
    /\ InitAckDurable
    /\ SealedRecoverable
    /\ UnlockHonest
=============================================================================
