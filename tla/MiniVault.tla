----------------------------- MODULE MiniVault -----------------------------
(***************************************************************************)
(* The server as its clients see it: the routes behind get_current_user,   *)
(* the services they call and the error handlers that answer, over one     *)
(* database with one write lock and one VaultState.  A route is the script *)
(* of its accesses to shared state; what the engines do inside them is the *)
(* subject of KvEngine, Transit, AuditChain and VaultCore.                 *)
(***************************************************************************)
EXTENDS Naturals, Sequences

CONSTANTS
    Thread,     \* worker threads of the server
    User,       \* e-mail addresses
    Token,      \* session tokens
    Holder,     \* Holder[k]: the user a login issues token k to
    Path,       \* KV paths
    PathOwner,  \* PathOwner[p]: the owner a path names, None if it is malformed
    Name,       \* well-formed names of Transit keys; others are answered 400
    None

ASSUME MiniVaultAssumption ==
    /\ Holder \in [Token -> User]
    /\ PathOwner \in [Path -> User \cup {None}]
    /\ None \notin User \cup Thread \cup Path \cup Name \cup Nat
    /\ Path \cap Name = {}

VARIABLES
    unlocked,    \* whether VaultState holds the DEK
    writer,      \* the request that holds SQLite's write lock, or None
    sessions,    \* sessions[k]: "none", "active" or "ended"
    kv_records,  \* the pairs of an owner and a path that have a record
    named_keys,  \* the pairs of an owner and a name that have a key
    req,         \* req[t]: the request of t, None when t is idle
    todo,        \* todo[t]: the accesses that are left of its script
    reply,       \* reply[t]: the status of the response, None until there is one
    done,        \* done[t]: whether a transaction of the request was committed
    noted,       \* noted[t]: the audit entry that the request has logged, or None
    late,        \* history: the requests that work on though their session ended
    fate         \* history: what became of the row the request asks for

tables  == <<kv_records, named_keys>>
effects == <<done, noted, fate>>
course  == <<req, todo, reply, late>>
vars == <<unlocked, writer, sessions, tables, course, effects>>

-----------------------------------------------------------------------------
(* Routes                                                                  *)

\* What each handler does after _authorize (KV) or from the start (the others).
\* get_dek stands for require_unlocked too; an access to the rows of a version
\* table is a "select" of the record or key it belongs to.
Script ==
    [kv_write     |-> <<"get_dek", "get_dek", "begin", "commit">>,
     kv_read      |-> <<"get_dek", "select", "get_dek">>,
     kv_versions  |-> <<"get_dek", "select">>,
     kv_delete    |-> <<"get_dek", "delete">>,
     key_create   |-> <<"get_dek", "begin", "get_dek", "commit", "reread">>,
     key_rotate   |-> <<"lookup", "get_dek", "begin", "get_dek", "commit", "reread">>,
     key_list     |-> <<"get_dek", "list">>,
     key_revoke   |-> <<"lookup", "get_dek", "delete">>,
     key_use      |-> <<"lookup", "get_dek", "select", "get_dek">>,
     key_verify   |-> <<"lookup", "get_dek", "list">>,
     audit        |-> <<"list">>,
     logout       |-> <<"revoke">>]

KvRoute  == {"kv_write", "kv_read", "kv_versions", "kv_delete"}
KeyRoute == {"key_create", "key_rotate", "key_revoke", "key_use", "key_verify"}

Request ==
    [route : KvRoute, token : Token, item : Path]
    \cup [route : KeyRoute, token : Token, item : Name]
    \cup [route : {"key_list", "audit", "logout"}, token : Token, item : {None}]

\* Python's None is no request.
ASSUME NoneAssumption == None \notin Request

\* The caller: always from the session, never from the request.
user(r) == Holder[r.token]
row(r) == <<user(r), r.item>>

\* register_error_handlers.  KeyUnavailableError and PermissionDeniedError get
\* the same answer; an exception without a handler becomes a 500.
handlers ==
    [UnauthenticatedError |-> 401, PermissionDeniedError |-> 403,
     KeyUnavailableError |-> 403, RecordNotFoundError |-> 404,
     KeyVersionUnavailableError |-> 404, KeyAlreadyExistsError |-> 409,
     InvalidKeyUsageError |-> 400, TransitTamperedError |-> 409,
     VaultLockedError |-> 423]
status_of(e) == IF e \in DOMAIN handlers THEN handlers[e] ELSE 500

Init ==
    /\ unlocked = FALSE
    /\ writer = None
    /\ sessions = [k \in Token |-> "none"]
    /\ kv_records = {} /\ named_keys = {}
    /\ req   = [t \in Thread |-> None]
    /\ todo  = [t \in Thread |-> <<>>]
    /\ reply = [t \in Thread |-> None]
    /\ done  = [t \in Thread |-> FALSE]
    /\ noted = [t \in Thread |-> None]
    /\ late = {}
    /\ fate  = [t \in Thread |-> {}]

-----------------------------------------------------------------------------
(* How a request goes on                                                   *)

At(t, access) == todo[t] # <<>> /\ Head(todo[t]) = access

Answer(t, status) ==
    /\ todo' = [todo EXCEPT ![t] = <<>>]
    /\ reply' = [reply EXCEPT ![t] = status]
    /\ late' = late \ {t}

Continue(t, script) ==
    /\ todo' = [todo EXCEPT ![t] = script]
    /\ UNCHANGED <<reply, late>>

\* exclusive_connection and connection roll back on the way out.
Release_Forgotten(t) == UNCHANGED writer
Release(t) == writer' = IF writer = t THEN None ELSE writer

Raise(t, e) == Answer(t, status_of(e)) /\ Release(t)

\* On to the next access, or to the response.
Proceed(t) ==
    IF Len(todo[t]) = 1 THEN Answer(t, 200) ELSE Continue(t, Tail(todo[t]))

\* _owned_key and _authorize refuse in the same way: log, then raise.
Deny_Unlogged(t) == Answer(t, status_of("PermissionDeniedError"))
Deny_StateFirst(t) ==
    IF unlocked THEN Continue(t, <<"log">>) ELSE Answer(t, status_of("VaultLockedError"))
Deny(t) == Continue(t, <<"log">>)

\* Whether a record or key exists, for the history variable.
Rows == kv_records \cup named_keys
present(r) == IF row(r) \in Rows THEN {"present"} ELSE {}

\* get_current_user, then _authorize, which needs nothing but the path.
admitted_Ended(k) == sessions[k] # "none"
admitted(k) == sessions[k] = "active"

authorized_Any(r) == TRUE
authorized(r) == r.route \in KvRoute => PathOwner[r.item] = user(r)

Arrive(t, r) ==
    /\ req[t] = None
    /\ req' = [req EXCEPT ![t] = r]
    /\ \/ /\ ~admitted(r.token)
          /\ Answer(t, status_of("UnauthenticatedError"))
       \/ /\ admitted(r.token)
          /\ IF authorized(r) THEN Continue(t, Script[r.route]) ELSE Deny(t)
    /\ fate' = [fate EXCEPT ![t] = present(r)]
    /\ UNCHANGED <<unlocked, writer, sessions, tables, done, noted>>

\* log_denied_access: one transaction, here one step.
Log(t) ==
    /\ At(t, "log")
    /\ writer = None
    /\ noted' = [noted EXCEPT ![t] = row(req[t])]
    /\ Raise(t, "PermissionDeniedError")
    /\ UNCHANGED <<unlocked, sessions, tables, req, done, fate>>

\* get_owned in _owned_key.  An own key that is to be used may be of the wrong
\* usage, or the payload, algorithm or digest not valid.
Lookup(t) ==
    /\ At(t, "lookup")
    /\ \/ /\ row(req[t]) \notin named_keys
          /\ Deny(t)
          /\ UNCHANGED writer
       \/ /\ row(req[t]) \in named_keys
          /\ req[t].route \in {"key_use", "key_verify"}
          /\ Raise(t, "InvalidKeyUsageError")
       \/ /\ row(req[t]) \in named_keys
          /\ Proceed(t)
          /\ UNCHANGED writer
    /\ UNCHANGED <<unlocked, sessions, tables, req, effects>>

\* What key_use opens last may be a ciphertext that a former key has made.
GetDek(t) ==
    /\ At(t, "get_dek")
    /\ \/ /\ ~unlocked
          /\ Raise(t, "VaultLockedError")
       \/ /\ unlocked /\ req[t].route = "key_use" /\ Len(todo[t]) = 1
          /\ Raise(t, "TransitTamperedError")
       \/ /\ unlocked
          /\ Proceed(t)
          /\ UNCHANGED writer
    /\ UNCHANGED <<unlocked, sessions, tables, req, effects>>

\* get_version by the id of the row that was read: the row may also have been
\* removed and made again since.
Select(t) ==
    /\ At(t, "select")
    /\ \/ Raise(t, IF req[t].route \in KvRoute THEN "RecordNotFoundError"
                   ELSE "KeyVersionUnavailableError")
       \/ /\ row(req[t]) \in Rows
          /\ Proceed(t)
          /\ UNCHANGED writer
    /\ UNCHANGED <<unlocked, sessions, tables, req, effects>>

\* What there is to list is listed; verify then looks for versions one by one.
List(t) ==
    /\ At(t, "list")
    /\ \/ /\ req[t].route = "key_verify"
          /\ Raise(t, "KeyVersionUnavailableError")
       \/ /\ Proceed(t)
          /\ UNCHANGED writer
    /\ UNCHANGED <<unlocked, sessions, tables, req, effects>>

\* BEGIN IMMEDIATE and the statements that find out whether there is a row;
\* nobody else writes before the COMMIT.
Begin(t) ==
    /\ At(t, "begin")
    /\ writer = None
    /\ \/ /\ req[t].route = "key_create" /\ row(req[t]) \in named_keys
          /\ Raise(t, "KeyAlreadyExistsError")
       \/ /\ req[t].route = "key_rotate" /\ row(req[t]) \notin named_keys
          /\ Raise(t, "KeyUnavailableError")
       \/ /\ req[t].route = "key_create" => row(req[t]) \notin named_keys
          /\ req[t].route = "key_rotate" => row(req[t]) \in named_keys
          /\ writer' = t
          /\ Proceed(t)
    /\ UNCHANGED <<unlocked, sessions, tables, req, effects>>

\* The requests for the same row that are in progress.
rivals(t) == {u \in Thread : req[u] # None /\ req[u].item # None /\ row(req[u]) = row(req[t])}

Happens(t, what) ==
    fate' = [u \in Thread |-> IF u \in rivals(t) THEN fate[u] \cup {what} ELSE fate[u]]

Commit(t) ==
    /\ At(t, "commit")
    /\ IF req[t].route = "kv_write"
       THEN kv_records' = kv_records \cup {row(req[t])} /\ UNCHANGED named_keys
       ELSE named_keys' = named_keys \cup {row(req[t])} /\ UNCHANGED kv_records
    /\ Happens(t, "present")
    /\ done' = [done EXCEPT ![t] = TRUE]
    /\ Release(t)
    /\ Proceed(t)
    /\ UNCHANGED <<unlocked, sessions, req, noted>>

\* get_owned after the COMMIT of create and rotate.
lost_Unavailable(route) == "KeyUnavailableError"
lost(route) == IF route = "key_create" THEN "RuntimeError" ELSE "KeyUnavailableError"

Reread(t) ==
    /\ At(t, "reread")
    /\ IF row(req[t]) \in named_keys THEN Proceed(t) /\ UNCHANGED writer
       ELSE Raise(t, lost(req[t].route))
    /\ UNCHANGED <<unlocked, sessions, tables, req, effects>>

\* DELETE in a transaction of its own; rowcount tells whether there was a row.
Delete(t) ==
    /\ At(t, "delete")
    /\ writer = None
    /\ IF row(req[t]) \in Rows
       THEN /\ kv_records' = kv_records \ {row(req[t])}
            /\ named_keys' = named_keys \ {row(req[t])}
            /\ Happens(t, "removed")
            /\ done' = [done EXCEPT ![t] = TRUE]
            /\ Proceed(t)
            /\ UNCHANGED writer
       ELSE /\ Raise(t, IF req[t].route = "kv_delete" THEN "RecordNotFoundError"
                        ELSE "KeyUnavailableError")
            /\ UNCHANGED <<tables, done, fate>>
    /\ UNCHANGED <<unlocked, sessions, req, noted>>

\* The requests that go on once the session of token k has ended.
outliving(k) == late \cup {u \in Thread : todo[u] # <<>> /\ req[u].token = k}

\* AuthService.logout
Revoke(t) ==
    LET k == req[t].token IN
    /\ At(t, "revoke")
    /\ writer = None
    /\ sessions' = [sessions EXCEPT ![k] = "ended"]
    /\ late'  = outliving(k) \ {t}
    /\ todo'  = [todo EXCEPT ![t] = <<>>]
    /\ reply' = [reply EXCEPT ![t] = 200]
    /\ done'  = [done EXCEPT ![t] = TRUE]
    /\ UNCHANGED <<unlocked, writer, tables, req, noted, fate>>

\* sqlite3.Error: the busy timeout while another request writes, or any other.
DbFails(t) ==
    /\ todo[t] # <<>> /\ ~At(t, "get_dek")
    /\ Raise(t, "OperationalError")
    /\ UNCHANGED <<unlocked, sessions, tables, req, effects>>

\* The response has been sent.
Return(t) ==
    /\ reply[t] # None
    /\ req'   = [req EXCEPT ![t] = None]
    /\ reply' = [reply EXCEPT ![t] = None]
    /\ done'  = [done EXCEPT ![t] = FALSE]
    /\ noted' = [noted EXCEPT ![t] = None]
    /\ fate'  = [fate EXCEPT ![t] = {}]
    /\ UNCHANGED <<unlocked, writer, sessions, tables, todo, late>>

-----------------------------------------------------------------------------
(* Login, the clock, and the routes of the vault, which need no session     *)

Login(k) ==
    /\ sessions[k] = "none"
    /\ writer = None
    /\ sessions' = [sessions EXCEPT ![k] = "active"]
    /\ UNCHANGED <<unlocked, writer, tables, course, effects>>

Expire(k) ==
    /\ sessions[k] = "active"
    /\ sessions' = [sessions EXCEPT ![k] = "ended"]
    /\ late' = outliving(k)
    /\ UNCHANGED <<unlocked, writer, tables, req, todo, reply, effects>>

\* unlock locks first, so that a wrong passphrase leaves the vault locked.
SetUnlocked(b) ==
    /\ unlocked # b
    /\ unlocked' = b
    /\ UNCHANGED <<writer, sessions, tables, course, effects>>

\* The process stops and lifespan runs again: locked, and the rows still there.
Restart ==
    /\ unlocked' = FALSE
    /\ writer' = None
    /\ req'   = [t \in Thread |-> None]
    /\ todo'  = [t \in Thread |-> <<>>]
    /\ reply' = [t \in Thread |-> None]
    /\ done'  = [t \in Thread |-> FALSE]
    /\ noted' = [t \in Thread |-> None]
    /\ late' = {}
    /\ fate'  = [t \in Thread |-> {}]
    /\ UNCHANGED <<sessions, tables>>

Step(t) ==
    \/ Log(t)
    \/ Lookup(t)
    \/ GetDek(t)
    \/ Select(t)
    \/ List(t)
    \/ Begin(t)
    \/ Commit(t)
    \/ Reread(t)
    \/ Delete(t)
    \/ Revoke(t)
    \/ DbFails(t)
    \/ Return(t)

Next ==
    \/ \E t \in Thread : (\E r \in Request : Arrive(t, r)) \/ Step(t)
    \/ \E k \in Token : Login(k) \/ Expire(k)
    \/ \E b \in BOOLEAN : SetUnlocked(b)
    \/ Restart

Spec == Init /\ [][Next]_vars

-----------------------------------------------------------------------------
(* Properties                                                              *)

Access == {"lookup", "get_dek", "select", "list", "begin", "commit", "reread", "delete",
           "revoke", "log"}
Row    == User \X (Path \cup Name)
Status == {200, 400, 401, 403, 404, 409, 423, 500}

\* The shape of the state.
TypeOK ==
    /\ unlocked \in BOOLEAN
    /\ writer \in Thread \cup {None}
    /\ sessions \in [Token -> {"none", "active", "ended"}]
    /\ kv_records \subseteq User \X Path
    /\ named_keys \subseteq User \X Name
    /\ req \in [Thread -> Request \cup {None}]
    /\ todo \in [Thread -> Seq(Access)]
    /\ reply \in [Thread -> Status \cup {None}]
    /\ done \in [Thread -> BOOLEAN]
    /\ noted \in [Thread -> Row \cup {None}]
    /\ late \subseteq Thread
    /\ fate \in [Thread -> SUBSET {"present", "removed"}]
    /\ \A t \in Thread : req[t] = None <=> todo[t] = <<>> /\ reply[t] = None

\* The caller asks for a path that names him; keys are looked up by owner.
Rightful(t) == req[t].route \in KvRoute => PathOwner[req[t].item] = Holder[req[t].token]

\* README: "no response reveals whether a foreign path or key exists".  Who asks
\* for a path of somebody else, or for a key that was never there while the
\* request ran, is answered 403 (or 401, or 500 when the database fails),
\* whatever others own and whether the vault is locked or not.
NoOracle == \A t \in Thread :
    reply[t] # None /\ req[t].item # None /\ req[t].route # "key_create" =>
        \/ reply[t] \in {401, 403, 500}
        \/ IF req[t].route \in KvRoute THEN Rightful(t) ELSE "present" \in fate[t]

\* Every 403 stands in the audit log under the session's e-mail address, except
\* for the caller whose own key was revoked while the request ran.
DenialsLogged == \A t \in Thread :
    reply[t] = 403 =>
        \/ noted[t] = row(req[t])
        \/ Rightful(t) /\ {"present", "removed"} \subseteq fate[t]

\* A request refused with a 4xx has changed nothing, except for a rotation whose
\* key was revoked before it could be read back.
RefusedMeansUndone == \A t \in Thread :
    reply[t] # None /\ reply[t] \in 400 .. 499 /\ done[t] =>
        req[t].route = "key_rotate" /\ "removed" \in fate[t]

\* A request that holds the write lock never waits for it: the audit entry of a
\* denial, which needs a transaction of its own, is not logged inside one.
NoNestedTransaction ==
    /\ TypeOK
    /\ \A t \in Thread :
          writer = t => todo[t] # <<>> /\ Head(todo[t]) \in {"get_dek", "commit"}

\* A record or key appears and disappears only through a session of its owner,
\* and a record only under a path that names him.
OnlyOwnerChanges ==
    [][\A r \in (Rows \ Rows') \cup (Rows' \ Rows) :
          \E t \in Thread : /\ req[t] # None /\ row(req[t]) = r
                            /\ Rightful(t)
                            /\ todo'[t] # todo[t]]_vars

\* The session is looked up once, when a request arrives: whatever still works for
\* a session that was logged out or has expired was let in before that, so that
\* nothing new begins under it, after a restart either.
OnlyAdmittedFinish == \A t \in Thread :
    todo[t] # <<>> /\ sessions[req[t].token] # "active" => t \in late
=============================================================================
