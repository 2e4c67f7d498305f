------------------------------ MODULE KvEngine ------------------------------
(***************************************************************************)
(* KvService and KvRepository over SQLite: authorisation, the vault check, *)
(* version allocation inside BEGIN IMMEDIATE, reads that fetch a row first *)
(* and the DEK afterwards, deletion with its cascade; run by concurrent    *)
(* requests while the vault is locked and unlocked and the process stops.  *)
(*                                                                         *)
(* A request is cut at each access to VaultState and to the database.  A   *)
(* transaction's writes show at its commit; the write lock is held from    *)
(* BEGIN IMMEDIATE on.  By VaultCore there is one DEK for all sealed data. *)
(***************************************************************************)
EXTENDS Naturals

CONSTANTS
    Thread,      \* requests in progress at the same time
    User,        \* session e-mails
    Path,        \* KV paths
    PathOwner,   \* PathOwner[p]: owner in the path; None for a malformed path
    Data,        \* values
    Dek,         \* the data encryption key of the vault
    MaxVersion,  \* bound on version numbers
    MaxId,       \* bound on the ids of kv_records
    None

ASSUME KvAssumption ==
    /\ PathOwner \in [Path -> User \cup {None}]
    /\ None \notin User \cup Thread
    /\ Dek # None
    /\ MaxVersion \in Nat /\ MaxId \in Nat

VARIABLES
    dek,          \* VaultState._dek
    kv_records,   \* kv_records[p]: the row of path p, or None
    kv_versions,  \* the rows of kv_versions
    next_id,      \* AUTOINCREMENT: ids are never used again
    writer,       \* the request that holds SQLite's write lock, or None
    denials,      \* <<requester, path>> of the ACCESS_DENIED rows of audit_logs
    pc,           \* pc[t]: where request t is
    req,          \* req[t]: the request
    key,          \* key[t]: the copy of the DEK the request holds
    row,          \* row[t]: what the request has read or is about to insert
    out           \* out[t]: the outcome it returns, or has returned

tables == <<kv_records, kv_versions, next_id>>
vars == <<dek, kv_records, kv_versions, next_id, writer, denials,
          pc, req, key, row, out>>

Version == 1 .. MaxVersion

Request ==
    [op : {"write"}, user : User, path : Path, data : Data]
    \cup [op : {"read"}, user : User, path : Path, version : 0 .. MaxVersion]
    \cup [op : {"versions", "delete"}, user : User, path : Path]

Record == [id : 1 .. MaxId, latest_version : Version]

\* AES-GCM: a blob opens with the key and the associated data it was sealed with.
aad(owner, path, version) == <<owner, path, version>>
Blob == [key : {Dek}, aad : User \X Path \X Version, plaintext : Data]
opens(blob, k, ad) == blob.key = k /\ blob.aad = ad

VersionRow == [record_id : 1 .. MaxId, version : Version, blob : Blob]

Error(code) == [result |-> code]
NotFound == Error("NOT_FOUND")

Init ==
    /\ dek = None
    /\ kv_records = [p \in Path |-> None]
    /\ kv_versions = {}
    /\ next_id = 1
    /\ writer = None
    /\ denials = {}
    /\ pc  = [t \in Thread |-> "idle"]
    /\ req = [t \in Thread |-> None]
    /\ key = [t \in Thread |-> None]
    /\ row = [t \in Thread |-> None]
    /\ out = [t \in Thread |-> None]

Goto(t, l) == pc' = [pc EXCEPT ![t] = l]

\* The outcome is known; the response is on its way.
Outcome(t, o) ==
    /\ Goto(t, "reply")
    /\ out' = [out EXCEPT ![t] = o]
    /\ key' = [key EXCEPT ![t] = None]
    /\ row' = [row EXCEPT ![t] = None]

\* An exception ends the request with an error response.
Raise(t, code) ==
    /\ Goto(t, "idle")
    /\ out' = [out EXCEPT ![t] = Error(code)]
    /\ req' = [req EXCEPT ![t] = None]
    /\ key' = [key EXCEPT ![t] = None]
    /\ row' = [row EXCEPT ![t] = None]

-----------------------------------------------------------------------------
\* The request reaches the service; _authorize compares its user with the owner
\* named in the path, before anything else.
authorized(r) == PathOwner[r.path] = r.user

Start(t, r) ==
    /\ pc[t] = "idle"
    /\ req' = [req EXCEPT ![t] = r]
    /\ out' = [out EXCEPT ![t] = None]
    /\ Goto(t, IF authorized(r) THEN "check" ELSE "deny")
    /\ UNCHANGED <<dek, tables, writer, denials, key, row>>

\* log_denied_access commits its row, and only then is the caller refused.
Deny(t) ==
    /\ pc[t] = "deny"
    /\ writer = None
    /\ denials' = denials \cup {<<req[t].user, req[t].path>>}
    /\ Raise(t, "PERMISSION_DENIED")
    /\ UNCHANGED <<dek, tables, writer>>

\* VaultState.is_unlocked, under its lock.
is_unlocked == dek # None

\* require_unlocked
RequireUnlocked(t) ==
    /\ pc[t] = "check"
    /\ \/ /\ ~is_unlocked
          /\ Raise(t, "VAULT_LOCKED")
       \/ /\ is_unlocked
          /\ Goto(t, CASE req[t].op = "write"  -> "get_dek"
                       [] req[t].op = "delete" -> "delete"
                       [] OTHER                -> "select")
          /\ UNCHANGED <<req, key, row, out>>
    /\ UNCHANGED <<dek, tables, writer, denials>>

-----------------------------------------------------------------------------
(* write                                                                   *)

\* The DEK for encrypt_for is taken before the transaction begins.
GetDek(t) ==
    /\ pc[t] = "get_dek"
    /\ \/ /\ ~is_unlocked
          /\ Raise(t, "VAULT_LOCKED")
       \/ /\ is_unlocked
          /\ key' = [key EXCEPT ![t] = dek]
          /\ Goto(t, "begin")
          /\ UNCHANGED <<req, row, out>>
    /\ UNCHANGED <<dek, tables, writer, denials>>

\* BEGIN IMMEDIATE
Begin(t) ==
    /\ pc[t] = "begin"
    /\ writer = None
    /\ writer' = t
    /\ Goto(t, "allocate")
    /\ UNCHANGED <<dek, tables, denials, req, key, row, out>>

\* The SELECT of append_version: the record's id and the version to write.
\* MaxVersion and MaxId bound the model; beyond them only DbFails is enabled.
next_row(p) ==
    IF kv_records[p] = None
    THEN [id |-> next_id, latest_version |-> 1]
    ELSE [id |-> kv_records[p].id, latest_version |-> kv_records[p].latest_version + 1]

Allocate(t) ==
    /\ pc[t] = "allocate"
    /\ next_row(req[t].path) \in Record
    /\ row' = [row EXCEPT ![t] = next_row(req[t].path)]
    /\ Goto(t, "commit")
    /\ UNCHANGED <<dek, tables, writer, denials, req, key, out>>

\* encrypt_for(version): the version number is part of the associated data.
encrypt_for_Unbound(t, version) ==
    [key |-> key[t], aad |-> aad(req[t].user, req[t].path, 1),
     plaintext |-> req[t].data]
encrypt_for(t, version) ==
    [key |-> key[t], aad |-> aad(req[t].user, req[t].path, version),
     plaintext |-> req[t].data]

\* The constraints of the schema: one record per path, one row per version.
unique(r, p) ==
    /\ kv_records[p] # None => kv_records[p].id = r.id
    /\ \A v \in kv_versions : ~(v.record_id = r.id /\ v.version = r.latest_version)

\* Both tables change at COMMIT.
Commit(t) ==
    /\ pc[t] = "commit"
    /\ LET r == row[t] IN
          /\ unique(r, req[t].path)
          /\ kv_records' = [kv_records EXCEPT ![req[t].path] = r]
          /\ kv_versions' = kv_versions \cup
                {[record_id |-> r.id, version |-> r.latest_version,
                  blob |-> encrypt_for(t, r.latest_version)]}
          /\ next_id' = IF r.id = next_id THEN next_id + 1 ELSE next_id
          /\ Outcome(t, [result |-> "written", version |-> r.latest_version])
    /\ writer' = None
    /\ UNCHANGED <<dek, denials, req>>

-----------------------------------------------------------------------------
(* read, versions, delete                                                  *)

VersionsOf(p) ==
    IF kv_records[p] = None THEN {}
    ELSE {v \in kv_versions : v.record_id = kv_records[p].id}

\* get_version: version 0 stands for None, the current version.
get_version_AnyLatest(p, version) ==
    {v \in VersionsOf(p) : version = 0 \/ v.version = version}
get_version(p, version) ==
    {v \in VersionsOf(p) :
        v.version = IF version = 0 THEN kv_records[p].latest_version ELSE version}

SelectVersion(t) ==
    LET p == req[t].path
        found == get_version(p, req[t].version)
    IN  /\ pc[t] = "select" /\ req[t].op = "read"
        /\ \/ /\ found = {}
              /\ Outcome(t, NotFound)
           \/ \E v \in found :
                 /\ row' = [row EXCEPT ![t] =
                        [version |-> v.version, blob |-> v.blob,
                         latest |-> kv_records[p].latest_version]]
                 /\ Goto(t, "decrypt")
                 /\ UNCHANGED <<key, out>>
        /\ UNCHANGED <<dek, tables, writer, denials, req>>

\* get_dek() again, after the row was read, then decryption and the reply.
Decrypt(t) ==
    LET r == row[t] IN
    /\ pc[t] = "decrypt"
    /\ \/ /\ ~is_unlocked
          /\ Raise(t, "VAULT_LOCKED")
       \/ /\ is_unlocked
          /\ ~opens(r.blob, dek, aad(req[t].user, req[t].path, r.version))
          /\ Raise(t, "TAMPER_DETECTED")
       \/ /\ is_unlocked
          /\ opens(r.blob, dek, aad(req[t].user, req[t].path, r.version))
          /\ Outcome(t, [result |-> "ok", data |-> r.blob.plaintext,
                         version |-> r.version, latest |-> r.latest])
          /\ UNCHANGED req
    /\ UNCHANGED <<dek, tables, writer, denials>>

SelectHistory(t) ==
    LET p == req[t].path IN
    /\ pc[t] = "select" /\ req[t].op = "versions"
    /\ Outcome(t, IF VersionsOf(p) = {} THEN NotFound
                  ELSE [result |-> "history", latest |-> kv_records[p].latest_version,
                        versions |-> {v.version : v \in VersionsOf(p)}])
    /\ UNCHANGED <<dek, tables, writer, denials, req>>

\* DELETE FROM kv_records; ON DELETE CASCADE takes the versions along.
cascade_Off(p) == kv_versions
cascade(p) == kv_versions \ VersionsOf(p)

Delete(t) ==
    LET p == req[t].path IN
    /\ pc[t] = "delete"
    /\ writer = None
    /\ kv_versions' = cascade(p)
    /\ kv_records' = [kv_records EXCEPT ![p] = None]
    /\ Outcome(t, IF kv_records[p] = None THEN NotFound ELSE [result |-> "deleted"])
    /\ UNCHANGED <<dek, next_id, writer, denials, req>>

-----------------------------------------------------------------------------
\* sqlite3.Error at any access to the database: the busy timeout of 5 s expired
\* while another request has the write lock, the disk is full, COMMIT failed.
\* The transaction is rolled back and the server answers 500; a denial that
\* cannot be logged is not answered as one.
Database == {"deny", "begin", "allocate", "commit", "select", "delete"}

\* The write lock after ROLLBACK.
rolled_back_Never(t) == writer
rolled_back(t) == IF writer = t THEN None ELSE writer

failure_Silent(t) == IF pc[t] = "deny" THEN "PERMISSION_DENIED" ELSE "INTERNAL_ERROR"
failure(t) == "INTERNAL_ERROR"

DbFails_Retries(t) ==
    /\ pc[t] \in Database
    /\ writer' = rolled_back(t)
    /\ Goto(t, IF pc[t] = "deny" THEN "deny" ELSE "check")
    /\ UNCHANGED <<dek, tables, denials, req, key, row, out>>
DbFails(t) ==
    /\ pc[t] \in Database
    /\ writer' = rolled_back(t)
    /\ Raise(t, failure(t))
    /\ UNCHANGED <<dek, tables, denials>>

Reply(t) ==
    /\ pc[t] = "reply"
    /\ Goto(t, "idle")
    /\ req' = [req EXCEPT ![t] = None]
    /\ UNCHANGED <<dek, tables, writer, denials, key, row, out>>

\* POST /v1/vault/unlock and /v1/vault/lock, at any moment.
Unlock ==
    /\ dek = None
    /\ dek' = Dek
    /\ UNCHANGED <<tables, writer, denials, pc, req, key, row, out>>

Lock ==
    /\ dek # None
    /\ dek' = None
    /\ UNCHANGED <<tables, writer, denials, pc, req, key, row, out>>

\* The process stops: an open transaction is rolled back by SQLite's journal.
Crash ==
    /\ dek' = None
    /\ writer' = None
    /\ pc'  = [t \in Thread |-> "idle"]
    /\ req' = [t \in Thread |-> None]
    /\ key' = [t \in Thread |-> None]
    /\ row' = [t \in Thread |-> None]
    /\ out' = [t \in Thread |-> None]
    /\ UNCHANGED <<tables, denials>>

Step(t) ==
    \/ Deny(t)
    \/ RequireUnlocked(t)
    \/ GetDek(t)
    \/ Begin(t)
    \/ Allocate(t)
    \/ Commit(t)
    \/ SelectVersion(t)
    \/ Decrypt(t)
    \/ SelectHistory(t)
    \/ Delete(t)
    \/ DbFails(t)
    \/ Reply(t)

Next ==
    \/ \E t \in Thread : (\E r \in Request : Start(t, r)) \/ Step(t)
    \/ Unlock \/ Lock \/ Crash

Spec == Init /\ [][Next]_vars

\* A request inside the server keeps being scheduled; SQLite's busy timeout ends
\* every wait for the write lock.
FairSpec == Spec /\ \A t \in Thread : WF_vars(Step(t))

-----------------------------------------------------------------------------
(* Properties                                                              *)

Pc == Database \cup {"idle", "check", "get_dek", "decrypt", "reply"}

Fetched == [version : Version, blob : Blob, latest : Version]

Out ==
    {Error(c) : c \in {"PERMISSION_DENIED", "VAULT_LOCKED", "NOT_FOUND",
                       "TAMPER_DETECTED", "INTERNAL_ERROR", "deleted"}}
    \cup [result : {"written"}, version : Version]
    \cup [result : {"ok"}, data : Data, version : Version, latest : Version]
    \cup [result : {"history"}, latest : Version, versions : SUBSET Version]

\* The shape of the tables and of what requests hold.
TypeOK ==
    /\ dek \in {Dek, None}
    /\ kv_records \in [Path -> Record \cup {None}]
    /\ kv_versions \subseteq VersionRow
    /\ next_id \in 1 .. MaxId + 1
    /\ writer \in Thread \cup {None}
    /\ denials \subseteq User \X Path
    /\ pc \in [Thread -> Pc]
    /\ req \in [Thread -> Request \cup {None}]
    /\ key \in [Thread -> {Dek, None}]
    /\ row \in [Thread -> Record \cup Fetched \cup {None}]
    /\ out \in [Thread -> Out \cup {None}]

VersionsNumbered == \A p \in Path : kv_records[p] # None =>
    /\ {v.version : v \in VersionsOf(p)} = 1 .. kv_records[p].latest_version
    /\ \A v, w \in VersionsOf(p) : v.version = w.version => v = w

IdsDistinct == \A p, q \in Path :
    /\ kv_records[p] # None /\ kv_records[q] # None
    /\ kv_records[p].id = kv_records[q].id
    => p = q

NoOrphans == \A v \in kv_versions : \E p \in Path : v \in VersionsOf(p)

\* The two tables agree: a record points at the last of the versions 1..n, each
\* stored exactly once; no two paths share a record id; and no version outlives
\* its record, so that a path written again does not inherit old versions.
TablesAgree == TypeOK /\ VersionsNumbered /\ IdsDistinct /\ NoOrphans

\* Without outside interference no read ever reports tampering: whatever was
\* deleted, rewritten, locked and unlocked since, the associated data that read
\* recomputes is that of the write.
NoSpuriousTamper == \A t \in Thread : out[t] # Error("TAMPER_DETECTED")

\* Who is answered PERMISSION_DENIED stands in the audit log; a failing or busy
\* database does not let a denial go unrecorded.  (A new request clears out.)
DenialsAudited ==
    [][\A t \in Thread :
          out'[t] = Error("PERMISSION_DENIED") /\ out[t] # out'[t] =>
             <<req[t].user, req[t].path>> \in denials']_vars

\* Every request is answered.
RequestsReturn == \A t \in Thread : pc[t] # "idle" ~> pc[t] = "idle"

\* The write lock always comes free: no path through exclusive_connection keeps
\* it, errors included, else every later write and denial would time out.
WriteLockReleased == \A t \in Thread : writer = t ~> writer # t

\* What a caller knows of the state, for the comparison with KvStore: the history
\* of a path is the plaintext of its versions, in order.
History(p) ==
    IF kv_records[p] = None THEN <<>>
    ELSE [n \in 1 .. kv_records[p].latest_version |->
            (CHOOSE v \in VersionsOf(p) : v.version = n).blob.plaintext]

CallOf(t) ==
    IF pc[t] = "idle" THEN None
    ELSE [f \in DOMAIN req[t] \ {"user"} |-> req[t][f]]

SeenBy(t) ==
    CASE pc[t] = "reply"   -> out[t]
      [] pc[t] = "decrypt" -> [result |-> "ok", data |-> row[t].blob.plaintext,
                               version |-> row[t].version, latest |-> row[t].latest]
      [] OTHER             -> None

AnswerTo(t) ==
    IF pc[t] # "idle" \/ out[t] = None THEN None
    ELSE IF out[t].result \in {"ok", "written", "history", "deleted", "NOT_FOUND"}
    THEN out[t]
    ELSE [result |-> "refused"]

Abstract == INSTANCE KvStore WITH
    hist   <- [p \in Path |-> History(p)],
    call   <- [t \in Thread |-> CallOf(t)],
    seen   <- [t \in Thread |-> SeenBy(t)],
    answer <- [t \in Thread |-> AnswerTo(t)]

\* Python's None is no row, request, call or answer.
ASSUME NoneAssumption == None \notin Record \cup Request \cup Out \cup Abstract!Call

\* The engine is a linearizable versioned store: each answered request took
\* effect once, atomically, between its arrival and its answer, and a refused
\* one did not, in spite of interleavings, rollbacks, locking and crashes.
Linearizable == Abstract!Spec
=============================================================================
