------------------------------- MODULE Transit -------------------------------
(***************************************************************************)
(* TransitService over NamedKeyRepository: named keys with versioned key   *)
(* material, wrapped with the DEK; rotation, revocation, encrypt, decrypt, *)
(* sign and verify.  Every repository call is a transaction of its own: an *)
(* operation reads the key, then one of its versions, then the DEK, while  *)
(* other requests rotate, revoke and create again, and the vault is locked. *)
(***************************************************************************)
EXTENDS Ciphertext, FiniteSetsExt

CONSTANTS
    Thread,      \* requests in progress at the same time
    User,        \* owners
    Name,        \* key names
    Creatable,   \* the pairs of a name and a usage that requests create
    Material,    \* the keys AESGCM and Ed25519 generate; bounds the versions made
    Dek,         \* the key of the vault
    MaxVersion,  \* bound on the versions of a key
    MaxId,       \* bound on the keys ever created
    None

Usage == {"ENCRYPT_DECRYPT", "SIGN_VERIFY"}

ASSUME TransitAssumption ==
    /\ MaxVersion \in Nat \ {0} /\ MaxId \in Nat
    /\ Creatable \subseteq Name \X Usage
    /\ Name \subseteq KeyWord /\ MaxVersion <= MaxNumeral
    /\ None \notin Thread \cup Material \cup {Dek}

VARIABLES
    dek,                 \* VaultState._dek
    named_keys,          \* named_keys[o, n]: the row of key n of owner o, or None
    named_key_versions,  \* the rows of the version table
    next_id,             \* AUTOINCREMENT: ids are not used twice
    writer,              \* the request that holds SQLite's write lock, or None
    minted,              \* history: all version rows that were ever stored
    revoked,             \* history: the material of keys answered as deleted
    issued,              \* history: the ciphertexts and signatures handed out
    pc,                  \* pc[t]: where request t is
    req,                 \* req[t]: what it asks for
    row,                 \* row[t]: the named_keys row it has read or written
    rows,                \* rows[t]: the version rows it has read
    todo,                \* todo[t]: the versions verify has yet to read
    dead,                \* dead[t]: the material already revoked when t began
    out                  \* out[t]: the answer to the last request of t

tables == <<named_keys, named_key_versions, next_id, minted, revoked>>
locals == <<req, row, rows, todo, dead>>
vars == <<dek, tables, writer, issued, pc, locals, out>>

Version == 1 .. MaxVersion
Key == [id : 1 .. MaxId, usage : Usage, latest_version : Version]

ASSUME NoneAssumption ==
    None \notin Key \cup {[result |-> r] : r \in {"done", "invalid", "refused", "TAMPER_DETECTED"}}

\* AES-GCM binds the wrapped material to its key; only a signing key's row has a
\* public key, named here by the private key it belongs to.
key_aad(o, n, usage, version) == <<o, n, usage, version>>
VersionRow == [key_id : 1 .. MaxId, version : Version, material : Material,
               aad : User \X Name \X Usage \X Version, public : Material \cup {None}]

\* A ciphertext or a signature: the material it was made with, what it is bound
\* to, the header a ciphertext shows, and, for the properties, the key's id.
Header == {header(n, v) : n \in Name, v \in Version}
Token == [usage : Usage, owner : User, name : Name, version : Version, words : Header,
          material : Material, key_id : 1 .. MaxId]

Request ==
    {r \in [op : {"create"}, user : User, name : Name, usage : Usage] :
        <<r.name, r.usage>> \in Creatable}
    \cup [op : {"rotate", "revoke", "encrypt", "sign"}, user : User, name : Name]
    \cup {[op |-> "decrypt", user |-> u, name |-> parse_header(c.words).key_name, token |-> c] :
            u \in User, c \in {i \in issued : i.usage = "ENCRYPT_DECRYPT"}}
    \cup {[op |-> "verify", user |-> u, name |-> c.name, token |-> c, pinned |-> v] :
            u \in User, c \in {i \in issued : i.usage = "SIGN_VERIFY"},
            v \in 0 .. MaxVersion}

Init ==
    /\ dek = None
    /\ named_keys = [s \in User \X Name |-> None]
    /\ named_key_versions = {}
    /\ next_id = 1
    /\ writer = None
    /\ minted = {} /\ revoked = {} /\ issued = {}
    /\ pc   = [t \in Thread |-> "idle"]
    /\ req  = [t \in Thread |-> None]
    /\ row  = [t \in Thread |-> None]
    /\ rows = [t \in Thread |-> {}]
    /\ todo = [t \in Thread |-> {}]
    /\ dead = [t \in Thread |-> {}]
    /\ out  = [t \in Thread |-> None]

Slot(t) == <<req[t].user, req[t].name>>
Goto(t, l) == pc' = [pc EXCEPT ![t] = l]

Answer(t, o) ==
    /\ Goto(t, "idle")
    /\ out'  = [out EXCEPT ![t] = o]
    /\ req'  = [req EXCEPT ![t] = None]
    /\ row'  = [row EXCEPT ![t] = None]
    /\ rows' = [rows EXCEPT ![t] = {}]
    /\ todo' = [todo EXCEPT ![t] = {}]
    /\ dead' = [dead EXCEPT ![t] = {}]

\* Answers that no property tells apart: the metadata of a key and a deletion, and
\* all errors but TAMPER_DETECTED.
Done == [result |-> "done"]
Refused == [result |-> "refused"]
Raise(t, code) ==
    Answer(t, IF code = "TAMPER_DETECTED" THEN [result |-> code] ELSE Refused)

-----------------------------------------------------------------------------
(* What the operations have in common                                      *)

\* The version rows of a key; ON DELETE CASCADE removes them with it.
versions_of(id) == {v \in named_key_versions : v.key_id = id}

\* Only a create goes on without a key.
owned(op, key) == op = "create" \/ key # None

\* A create starts with require_unlocked, the others with get_owned, for which a
\* missing key and somebody else's look the same.
Start(t, r) ==
    LET key == IF r.op = "create" THEN None ELSE named_keys[<<r.user, r.name>>] IN
    /\ pc[t] = "idle"
    /\ req' = [req EXCEPT ![t] = r]
    /\ row' = [row EXCEPT ![t] = key]
    /\ dead' = [dead EXCEPT ![t] = revoked]
    /\ out' = [out EXCEPT ![t] = None]
    /\ Goto(t, IF owned(r.op, key) THEN "check" ELSE "deny")
    /\ UNCHANGED <<dek, tables, writer, issued, rows, todo>>

\* log_denied_access needs the write lock of SQLite; then the caller is refused.
Deny(t) ==
    /\ pc[t] = "deny"
    /\ writer = None
    /\ Raise(t, "PERMISSION_DENIED")
    /\ UNCHANGED <<dek, tables, writer, issued>>

is_unlocked == dek # None

\* Whether the key serves for the operation; create, rotate and revoke take any.
usable(t) ==
    CASE req[t].op \in {"encrypt", "decrypt"} -> row[t].usage = "ENCRYPT_DECRYPT"
      [] req[t].op \in {"sign", "verify"}     -> row[t].usage = "SIGN_VERIFY"
      [] OTHER                                -> TRUE

\* The operations that may refuse their payload, algorithm or digest.
Validated == {"create", "encrypt", "sign", "verify"}

\* The usage of the key, the input, and require_unlocked.
Check(t) ==
    /\ pc[t] = "check"
    /\ \/ /\ ~usable(t)
          /\ Raise(t, "INVALID_KEY_USAGE")
       \/ /\ usable(t)
          /\ req[t].op \in Validated
          /\ Raise(t, "INVALID_INPUT")
       \/ /\ usable(t) /\ ~is_unlocked
          /\ Raise(t, "VAULT_LOCKED")
       \/ /\ usable(t) /\ is_unlocked
          /\ Goto(t, CASE req[t].op \in {"create", "rotate"} -> "begin"
                       [] req[t].op = "revoke" -> "delete"
                       [] req[t].op = "verify" -> "list"
                       [] OTHER                -> "version")
          /\ UNCHANGED <<locals, out>>
    /\ UNCHANGED <<dek, tables, writer, issued>>

-----------------------------------------------------------------------------
(* create_key, create_signing_key, rotate_key                              *)

\* BEGIN IMMEDIATE
Begin(t) ==
    /\ pc[t] = "begin"
    /\ writer = None
    /\ writer' = t
    /\ Goto(t, "wrap")
    /\ UNCHANGED <<dek, tables, issued, locals, out>>

\* Inside the transaction: UNIQUE(owner_email, key_name) for a create, the SELECT
\* of rotate, and the DEK that wraps the new material.
Wrap(t) ==
    LET key == named_keys[Slot(t)] IN
    /\ pc[t] = "wrap"
    /\ \/ /\ req[t].op = "create" /\ key # None
          /\ Raise(t, "KEY_ALREADY_EXISTS")
          /\ writer' = None
       \/ /\ req[t].op = "rotate" /\ key = None
          /\ Raise(t, "PERMISSION_DENIED")
          /\ writer' = None
       \/ /\ (req[t].op = "create") = (key = None)
          /\ ~is_unlocked
          /\ Raise(t, "VAULT_LOCKED")
          /\ writer' = None
       \/ /\ (req[t].op = "create") = (key = None)
          /\ is_unlocked
          /\ Goto(t, "commit")
          /\ UNCHANGED <<writer, locals, out>>
    /\ UNCHANGED <<dek, tables, issued>>

\* The row of named_keys after the transaction.
new_key_LatestForgotten(t) ==
    IF req[t].op = "create"
    THEN [id |-> next_id, usage |-> req[t].usage, latest_version |-> 1]
    ELSE named_keys[Slot(t)]
new_key(t) ==
    IF req[t].op = "create"
    THEN [id |-> next_id, usage |-> req[t].usage, latest_version |-> 1]
    ELSE [named_keys[Slot(t)] EXCEPT !.latest_version = @ + 1]

\* rotate wraps for the usage of the row that _owned_key read, before the
\* transaction.
wrap_usage(t) == IF req[t].op = "create" THEN req[t].usage ELSE row[t].usage

wrap(t, version, m) ==
    LET usage == wrap_usage(t) IN
    [material |-> m,
     aad      |-> key_aad(req[t].user, req[t].name, usage, version),
     public   |-> IF usage = "SIGN_VERIFY" THEN m ELSE None]

\* COMMIT.  The material drawn in wrap is new; it matters only once stored.
\* Beyond MaxVersion, MaxId and Material only DbFails is enabled.
Commit(t) ==
    LET key == new_key(t)
        version == IF req[t].op = "create" THEN 1
                   ELSE named_keys[Slot(t)].latest_version + 1
    IN  /\ pc[t] = "commit"
        /\ key \in Key /\ version \in Version
        /\ \E m \in Material \ {v.material : v \in minted} :
              LET w == wrap(t, version, m)
                  v == [key_id |-> key.id, version |-> version, material |-> w.material,
                        aad |-> w.aad, public |-> w.public]
              IN  /\ named_key_versions' = named_key_versions \cup {v}
                  /\ minted' = minted \cup {v}
        /\ named_keys' = [named_keys EXCEPT ![Slot(t)] = key]
        /\ next_id' = IF key.id = next_id THEN next_id + 1 ELSE next_id
        /\ writer' = None
        /\ Goto(t, "reread")
        /\ UNCHANGED <<dek, revoked, issued, locals, out>>

\* get_owned once more, on a new connection; _metadata lists the versions on yet
\* another, and answers whatever it finds.
Reread(t) ==
    /\ pc[t] = "reread"
    /\ IF named_keys[Slot(t)] # None THEN Answer(t, Done)
       ELSE Raise(t, IF req[t].op = "create" THEN "INTERNAL_ERROR" ELSE "PERMISSION_DENIED")
    /\ UNCHANGED <<dek, tables, writer, issued>>

-----------------------------------------------------------------------------
\* delete_key: DELETE FROM named_keys, with its versions; somebody else may have
\* deleted the key since it was read.
Delete_Uncommitted(t) ==
    /\ pc[t] = "delete"
    /\ writer = None
    /\ Answer(t, Done)
    /\ revoked' = revoked \cup {v.material : v \in versions_of(row[t].id)}
    /\ UNCHANGED <<dek, named_keys, named_key_versions, next_id, minted, writer, issued>>
Delete(t) ==
    LET key == named_keys[Slot(t)]
        gone == IF key = None THEN {} ELSE versions_of(key.id)
    IN  /\ pc[t] = "delete"
        /\ writer = None
        /\ named_keys' = [named_keys EXCEPT ![Slot(t)] = None]
        /\ named_key_versions' = named_key_versions \ gone
        /\ revoked' = revoked \cup {v.material : v \in gone}
        /\ IF key # None THEN Answer(t, Done) ELSE Raise(t, "PERMISSION_DENIED")
        /\ UNCHANGED <<dek, next_id, minted, writer, issued>>

-----------------------------------------------------------------------------
(* encrypt, decrypt, sign                                                  *)

\* get_version, by the id of the key row that was read.
get_version(id, version) == {v \in versions_of(id) : v.version = version}

\* The newest version, or the one the ciphertext names.
version_wanted_Oldest(t) ==
    IF req[t].op = "decrypt" THEN parse_header(req[t].token.words).key_version ELSE 1
version_wanted(t) ==
    IF req[t].op = "decrypt" THEN parse_header(req[t].token.words).key_version
    ELSE row[t].latest_version

SelectVersion(t) ==
    LET found == get_version(row[t].id, version_wanted(t)) IN
    /\ pc[t] = "version"
    /\ \/ /\ found = {}
          /\ Raise(t, "KEY_VERSION_NOT_FOUND")
       \/ \E v \in found :
             /\ rows' = [rows EXCEPT ![t] = {v}]
             /\ Goto(t, "unwrap")
             /\ UNCHANGED <<req, row, todo, dead, out>>
    /\ UNCHANGED <<dek, tables, writer, issued>>

\* _unwrap, with the usage of the key row and the version of the version row.
unwraps_AsLatest(t, v) ==
    v.aad = key_aad(req[t].user, req[t].name, row[t].usage, row[t].latest_version)
unwraps(t, v) == v.aad = key_aad(req[t].user, req[t].name, row[t].usage, v.version)

\* Tag and _data_aad of a ciphertext.
decrypts(t, v) ==
    LET c == req[t].token IN
    /\ c.material = v.material
    /\ <<c.owner, c.name, c.version>> = <<req[t].user, req[t].name, version_wanted(t)>>

token_of(t, v) ==
    [usage |-> row[t].usage, owner |-> req[t].user, name |-> req[t].name,
     version |-> v.version, words |-> header(req[t].name, v.version),
     material |-> v.material, key_id |-> row[t].id]

Unwrap(t) ==
    LET v == CHOOSE v \in rows[t] : TRUE
        opened == unwraps(t, v) /\ (req[t].op = "decrypt" => decrypts(t, v))
    IN  /\ pc[t] = "unwrap"
        /\ \/ /\ ~is_unlocked
              /\ Raise(t, "VAULT_LOCKED")
              /\ UNCHANGED issued
           \/ /\ is_unlocked /\ ~opened
              /\ Raise(t, "TAMPER_DETECTED")
              /\ UNCHANGED issued
           \/ /\ is_unlocked /\ opened
              /\ req[t].op = "decrypt"
              /\ Answer(t, [result |-> "plaintext", material |-> v.material])
              /\ UNCHANGED issued
           \/ /\ is_unlocked /\ opened
              /\ req[t].op \in {"encrypt", "sign"}
              /\ Answer(t, [result |-> "issued", material |-> v.material])
              /\ issued' = issued \cup {token_of(t, v)}
        /\ UNCHANGED <<dek, tables, writer>>

-----------------------------------------------------------------------------
(* verify                                                                  *)

\* The highest version whose public key verifies the signature, 0 if none does.
verdict(found, signature) ==
    LET matching == {v \in found : v.public = signature.material} IN
    IF matching = {} THEN [result |-> "invalid"]
    ELSE [result |-> "valid", material |-> signature.material]

\* The pinned version, or list_versions.
candidates_NewestOnly(t) ==
    IF req[t].pinned # 0 THEN {req[t].pinned} ELSE {row[t].latest_version}
candidates(t) ==
    IF req[t].pinned # 0 THEN {req[t].pinned}
    ELSE {v.version : v \in versions_of(row[t].id)}

\* A key without versions, revoked in the meantime, verifies nothing.
List(t) ==
    LET wanted == candidates(t)
    IN  /\ pc[t] = "list"
        /\ \/ /\ wanted = {}
              /\ Answer(t, verdict({}, req[t].token))
           \/ /\ wanted # {}
              /\ todo' = [todo EXCEPT ![t] = wanted]
              /\ Goto(t, "candidates")
              /\ UNCHANGED <<req, row, rows, dead, out>>
        /\ UNCHANGED <<dek, tables, writer, issued>>

\* get_version for each of them, newest first, each on its own connection.
Candidate(t) ==
    LET newest == Max(todo[t])
        found == get_version(row[t].id, newest)
    IN  /\ pc[t] = "candidates"
        /\ \/ /\ found = {}
              /\ Raise(t, "KEY_VERSION_NOT_FOUND")
           \/ /\ found # {} /\ todo[t] # {newest}
              /\ rows' = [rows EXCEPT ![t] = @ \cup found]
              /\ todo' = [todo EXCEPT ![t] = @ \ {newest}]
              /\ UNCHANGED <<pc, req, row, dead, out>>
           \/ /\ found # {} /\ todo[t] = {newest}
              /\ Answer(t, verdict(rows[t] \cup found, req[t].token))
        /\ UNCHANGED <<dek, tables, writer, issued>>

-----------------------------------------------------------------------------
\* sqlite3.Error at any access to the database: rollback, answer 500.
Database == {"deny", "begin", "wrap", "commit", "reread", "delete",
             "version", "list", "candidates"}

DbFails(t) ==
    /\ pc[t] \in Database
    /\ writer' = IF writer = t THEN None ELSE writer
    /\ Raise(t, "INTERNAL_ERROR")
    /\ UNCHANGED <<dek, tables, issued>>

\* POST /v1/vault/unlock and /v1/vault/lock, at any moment.
Unlock ==
    /\ dek = None
    /\ dek' = Dek
    /\ UNCHANGED <<tables, writer, issued, pc, locals, out>>

Lock ==
    /\ dek # None
    /\ dek' = None
    /\ UNCHANGED <<tables, writer, issued, pc, locals, out>>

\* The process stops: SQLite rolls an open transaction back.
Crash ==
    /\ dek' = None
    /\ writer' = None
    /\ pc'   = [t \in Thread |-> "idle"]
    /\ req'  = [t \in Thread |-> None]
    /\ row'  = [t \in Thread |-> None]
    /\ rows' = [t \in Thread |-> {}]
    /\ todo' = [t \in Thread |-> {}]
    /\ dead' = [t \in Thread |-> {}]
    /\ out'  = [t \in Thread |-> None]
    /\ UNCHANGED <<tables, issued>>

Step(t) ==
    \/ Deny(t)
    \/ Check(t)
    \/ Begin(t)
    \/ Wrap(t)
    \/ Commit(t)
    \/ Reread(t)
    \/ Delete(t)
    \/ SelectVersion(t)
    \/ Unwrap(t)
    \/ List(t)
    \/ Candidate(t)
    \/ DbFails(t)

Next ==
    \/ \E t \in Thread : (\E r \in Request : Start(t, r)) \/ Step(t)
    \/ Unlock \/ Lock \/ Crash

Spec == Init /\ [][Next]_vars

-----------------------------------------------------------------------------
(* Properties                                                              *)

Pc == Database \cup {"idle", "check", "unwrap"}

\* The shape of the tables and of what requests hold; an operation past
\* _owned_key has a key row at hand.
TypeOK ==
    /\ dek \in {Dek, None}
    /\ named_keys \in [User \X Name -> Key \cup {None}]
    /\ named_key_versions \subseteq VersionRow
    /\ next_id \in 1 .. MaxId + 1
    /\ writer \in Thread \cup {None}
    /\ minted \subseteq VersionRow /\ revoked \subseteq {v.material : v \in minted}
    /\ issued \subseteq Token
    /\ pc \in [Thread -> Pc]
    /\ row \in [Thread -> Key \cup {None}]
    /\ rows \in [Thread -> SUBSET VersionRow]
    /\ todo \in [Thread -> SUBSET Version]
    /\ dead \in [Thread -> SUBSET Material]
    /\ DOMAIN req = Thread /\ DOMAIN out = Thread
    /\ \A t \in Thread :
          /\ dead[t] \subseteq revoked
          /\ pc[t] \notin {"idle", "deny"} /\ req[t].op # "create" => row[t] # None

\* The two tables agree: a key has the versions 1 to latest_version, one row each,
\* and delete_owned left "no wrapped key material for that name" behind.
KeysAgree ==
    /\ TypeOK
    /\ \A s \in User \X Name : named_keys[s] # None =>
          LET own == versions_of(named_keys[s].id) IN
          /\ {v.version : v \in own} = 1 .. named_keys[s].latest_version
          /\ \A v, w \in own : v.version = w.version => v = w
    /\ \A v \in named_key_versions :
          \E s \in User \X Name : named_keys[s] # None /\ named_keys[s].id = v.key_id

\* Parsing inverts formatting and accepts nothing else: each ciphertext handed out
\* names the key and version that made it, and so would any other.
FramingExact ==
    /\ \A c \in issued : parse_header(c.words) = [key_name |-> c.name, key_version |-> c.version]
    /\ issued # {} => RoundTrip /\ AcceptsShapes

\* Rotation keeps what was handed out usable: as long as its key exists, the
\* version that a ciphertext or signature belongs to is stored, unwraps under the
\* key's own usage and is the one that made it.
IssuedUsable ==
    \A i \in issued :
        LET key == named_keys[<<i.owner, i.name>>] IN
        key # None /\ key.id = i.key_id =>
            \E v \in get_version(key.id, parse_header(i.words).key_version) :
                /\ v.material = i.material
                /\ v.aad = key_aad(i.owner, i.name, key.usage, i.version)

\* Nothing but a foreign ciphertext is reported as tampered: encrypt and sign
\* never fail to unwrap, and decrypt refuses only what another key has made,
\* a revoked one of the same name included.
NoSpuriousTamper ==
    [][\A t \in Thread :
          out'[t] = [result |-> "TAMPER_DETECTED"] /\ out[t] # out'[t] =>
              req[t].op = "decrypt" /\ req[t].token.key_id # row[t].id]_vars

\* Where a name has been used for both: what decrypt refuses another key has made,
\* or the version that was read is bound to another usage than the key, because a
\* rotation had begun before the name was revoked and created again.
TamperExplained ==
    [][\A t \in Thread :
          out'[t] = [result |-> "TAMPER_DETECTED"] /\ out[t] # out'[t] =>
              \/ req[t].op = "decrypt" /\ req[t].token.key_id # row[t].id
              \/ \E v \in rows[t] : v.aad[3] # row[t].usage]_vars

\* A key answered as deleted is gone: no request that begins after the answer
\* encrypts, decrypts, signs or verifies with any of its versions, even if the
\* name is created again.
RevokedIsGone ==
    [][\A t \in Thread :
          pc[t] # "idle" /\ out'[t] # None /\ "material" \in DOMAIN out'[t] =>
              out'[t].material \notin dead[t]]_vars

\* verify rejects a signature that the key has made only if the caller pinned
\* another version or the key was revoked while verify ran, however rotations
\* interleave with the reading of its versions.
VerifyHonest ==
    [][\A t \in Thread :
          /\ out'[t] = [result |-> "invalid"] /\ out[t] # out'[t]
          /\ req[t].token.key_id = row[t].id
          /\ req[t].pinned \in {0, req[t].token.version}
          => named_keys[Slot(t)] = None \/ named_keys[Slot(t)].id # row[t].id]_vars

\* The state as KeyStore has it: the materials of a key among the given version
\* rows, and what a request was asked, has read and has answered.
Materials(versions, key) ==
    IF key = None THEN <<>>
    ELSE [n \in 1 .. key.latest_version |->
            (CHOOSE v \in versions : v.key_id = key.id /\ v.version = n).material]

KeyAt(s) == Materials(named_key_versions, named_keys[s])

CallOf(t) ==
    LET r == req[t] IN
    IF pc[t] = "idle" THEN None
    ELSE IF r.op = "decrypt" THEN [op |-> r.op, slot |-> Slot(t), made |-> r.token.material]
    ELSE IF r.op = "verify"
    THEN [op |-> r.op, slot |-> Slot(t), made |-> r.token.material, pinned |-> r.pinned]
    ELSE [op |-> r.op, slot |-> Slot(t)]

SeenBy(t) ==
    IF pc[t] = "idle" \/ req[t].op \in {"create", "rotate", "revoke"} THEN <<>>
    ELSE Materials(minted, row[t])

AnswerTo(t) == IF out[t] = [result |-> "TAMPER_DETECTED"] THEN Refused ELSE out[t]

Store == INSTANCE KeyStore WITH
    KeySlot <- User \X Name,
    keys    <- [s \in User \X Name |-> KeyAt(s)],
    drawn   <- {v.material : v \in minted},
    call    <- [t \in Thread |-> CallOf(t)],
    seen    <- [t \in Thread |-> SeenBy(t)],
    changed <- [t \in Thread |-> pc[t] = "reread"],
    answer  <- [t \in Thread |-> AnswerTo(t)]

ASSUME CallAssumption == None \notin Store!Call

\* Every answer is right for the key as it was when the request arrived, or for a
\* verify as it is now, although the request reads the key and its versions one by
\* one while others rotate, revoke and create; changes are atomic, and material is
\* never used for two versions.
ImplementsKeyStore == Store!Spec
=============================================================================
