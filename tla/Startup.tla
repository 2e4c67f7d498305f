------------------------------ MODULE Startup ------------------------------
(***************************************************************************)
(* settings.py, kdf.py and security.py over the life of an installation:   *)
(* server processes start (SchemaInit), each in an environment of its own, *)
(* and create or open a vault and accounts that other processes, with      *)
(* other cost settings, made.  Settings have minima and no maxima, so a    *)
(* server can be one whose requests fail; and the host decides at each     *)
(* request whether Argon2 gets the memory and threads it asks for.         *)
(* Requests are atomic here and no account is locked out; VaultCore and    *)
(* Auth have their steps and the lockout.                                  *)
(***************************************************************************)
EXTENDS SchemaInit, Passphrase, Integers

CONSTANTS
    Environment,  \* the environments: records of the MINIVAULT_ variables that are set
    Phrase,       \* the passphrases requests come with
    NotANumber,   \* a value that int() does not parse
    MAX_COST,     \* Argon2's largest time and memory cost, 2^32 - 1
    MAX_LANES,    \* Argon2's largest number of lanes, 2^24 - 1
    MaxMinutes,   \* the longest session that ends at a date datetime can hold
    None

ASSUME PhraseAssumption == Phrase \subseteq Seq(Char)

\* What int() makes of the text of a variable.
ASSUME EnvironmentAssumption ==
    \A e \in Environment : \A name \in DOMAIN e : e[name] \in Int \cup {NotANumber}

VARIABLES
    env,          \* env[p]: the environment process p was started in
    placeholder,  \* the processes that hold the hash _dummy_hash makes once
    config,       \* what vault_config.json holds, or None
    user,         \* the row of an account in users, or None
    answer        \* the last answer, or None

stored == <<config, user>>
allVars == <<vars, env, placeholder, stored, answer>>

-----------------------------------------------------------------------------
(* settings.py                                                             *)

DEFAULT_KDF_TIME_COST == 3
DEFAULT_KDF_MEMORY_COST == 65536
DEFAULT_KDF_PARALLELISM == 4
DEFAULT_KDF_HASH_LENGTH == 32
DEFAULT_SESSION_TTL_MINUTES == 30

\* _int: an unset, unparsable or too small value gives the default.
int(e, name, default, minimum) ==
    IF name \in DOMAIN e /\ e[name] # NotANumber /\ e[name] >= minimum THEN e[name] ELSE default

load(e) ==
    LET time   == int(e, "KDF_TIME_COST", DEFAULT_KDF_TIME_COST, 1)
        memory == int(e, "KDF_MEMORY_COST", DEFAULT_KDF_MEMORY_COST, 8)
        lanes  == int(e, "KDF_PARALLELISM", DEFAULT_KDF_PARALLELISM, 1)
    IN  [kdf |-> [time_cost |-> time, memory_cost |-> memory, parallelism |-> lanes,
                  hash_len |-> int(e, "KDF_HASH_LENGTH", DEFAULT_KDF_HASH_LENGTH, 32)],
         password |-> [time_cost   |-> int(e, "PASSWORD_TIME_COST", time, 1),
                       memory_cost |-> int(e, "PASSWORD_MEMORY_COST", memory, 8),
                       parallelism |-> int(e, "PASSWORD_PARALLELISM", lanes, 1)],
         session_ttl_minutes |->
             int(e, "SESSION_TTL_MINUTES", DEFAULT_SESSION_TTL_MINUTES, 1)]

current_parameters(p) == load(env[p]).kdf
password_parameters(p) == load(env[p]).password

-----------------------------------------------------------------------------
(* kdf.py, crypto.py, security.py and session.py                           *)

\* Argon2 has limits, needs 8 KiB of memory for each lane, and computes nothing
\* if the host does not give it (enough) the memory and threads.
argon2_accepts(parameters) ==
    /\ parameters.time_cost <= MAX_COST
    /\ parameters.memory_cost <= MAX_COST
    /\ parameters.parallelism <= MAX_LANES
    /\ parameters.memory_cost >= 8 * parameters.parallelism
computes(parameters, enough) == argon2_accepts(parameters) /\ enough

AES_256_KEY_LENGTH == 32

\* Salted and free of collisions: a key or hash is what it was derived from.
derive_wrapping_key(w, parameters) == <<w, parameters>>

\* encrypt_aes_gcm and decrypt_aes_gcm: either refuses any other length of key.
aes_key(parameters) == parameters.hash_len = AES_256_KEY_LENGTH
wraps(parameters, enough) == computes(parameters, enough) /\ aes_key(parameters)

unlocks_Current(p, w) == derive_wrapping_key(w, current_parameters(p)) = config.wrapped_with
unlocks(p, w) == derive_wrapping_key(w, config.kdf_parameters) = config.wrapped_with

\* The hash string carries its parameters.
hash_password(p, w) ==
    LET parameters == password_parameters(p) IN
    [parameters |-> parameters, hash |-> <<w, parameters>>]

\* A computation that fails is a passphrase that does not match.
verify_password(p, w, enough, stored_hash) ==
    /\ computes(stored_hash.parameters, enough)
    /\ stored_hash.hash = <<w, stored_hash.parameters>>

\* compute_expiry overflows beyond the last date.
expiry_exists(p) == load(env[p]).session_ttl_minutes <= MaxMinutes

-----------------------------------------------------------------------------
(* Requests.  What is raised and mapped to no other status is a 500.       *)

Replies(p, op, w, enough, status) ==
    /\ answer' = [by |-> p, op |-> op, said |-> w, enough |-> enough, status |-> status]
    /\ UNCHANGED <<vars, env>>

\* VaultInitRequest, then the checks of initialize.
init_status(p, w, enough) ==
    CASE Len(w) < MIN_LENGTH -> 422
      [] Len(w) >= MIN_LENGTH /\ config # None -> 409
      [] OTHER -> IF ~is_strong(w) THEN 400
                  ELSE IF wraps(current_parameters(p), enough) THEN 201 ELSE 500

\* initialize: the config file is saved last.
VaultInit_SavesFirst(p, w, enough) ==
    LET kdf == current_parameters(p)
        status == init_status(p, w, enough)
    IN  /\ pc[p] = "serving"
        /\ Replies(p, "init", w, enough, status)
        /\ config' = IF status \notin {201, 500} THEN config
                     ELSE [kdf_parameters |-> kdf, wrapped_with |-> derive_wrapping_key(w, kdf)]
        /\ UNCHANGED <<placeholder, user>>
VaultInit(p, w, enough) ==
    LET kdf == current_parameters(p)
        status == init_status(p, w, enough)
    IN  /\ pc[p] = "serving"
        /\ Replies(p, "init", w, enough, status)
        /\ config' = IF status # 201 THEN config
                     ELSE [kdf_parameters |-> kdf, wrapped_with |-> derive_wrapping_key(w, kdf)]
        /\ UNCHANGED <<placeholder, user>>

\* unlock: a failure of Argon2 or a key of another length is no wrong passphrase.
unlock_status(p, w, enough) ==
    IF config = None THEN 409
    ELSE IF ~wraps(config.kdf_parameters, enough) THEN 500
    ELSE IF unlocks(p, w) THEN 200 ELSE 401

VaultUnlock(p, w, enough) ==
    /\ pc[p] = "serving"
    /\ Replies(p, "unlock", w, enough, unlock_status(p, w, enough))
    /\ UNCHANGED <<placeholder, stored>>

\* The hash is computed before the row is inserted.
Register(p, w, enough) ==
    LET status == IF ~is_strong(w) THEN 400
                  ELSE IF ~computes(password_parameters(p), enough) THEN 500
                  ELSE IF user # None THEN 409 ELSE 201
    IN  /\ pc[p] = "serving"
        /\ Replies(p, "register", w, enough, status)
        /\ user' = IF status = 201 THEN hash_password(p, w) ELSE user
        /\ UNCHANGED <<placeholder, config>>

\* An unknown account costs the work of a known one: _dummy_hash makes a hash to
\* verify against, at the first such login.
dummy_hash_made(p, enough) ==
    p \in placeholder \/ computes(password_parameters(p), enough)

LoginUnknown(p, w, enough) ==
    LET made == dummy_hash_made(p, enough) IN
    /\ pc[p] = "serving" /\ user = None
    /\ Replies(p, "login", w, enough, IF made THEN 401 ELSE 500)
    /\ placeholder' = IF made THEN placeholder \cup {p} ELSE placeholder
    /\ UNCHANGED stored

Login(p, w, enough) ==
    /\ pc[p] = "serving" /\ user # None
    /\ Replies(p, "login", w, enough, IF ~verify_password(p, w, enough, user) THEN 401
                                      ELSE IF expiry_exists(p) THEN 200 ELSE 500)
    /\ UNCHANGED <<placeholder, stored>>

\* A new process, in any environment.
Launch(p, e) ==
    /\ Start(p)
    /\ env' = [env EXCEPT ![p] = e]
    /\ answer' = None
    /\ UNCHANGED <<placeholder, stored>>

Boot(p) ==
    /\ Guard(p) \/ Create(p) \/ Stamp(p)
    /\ UNCHANGED <<env, placeholder, stored, answer>>

Ends(p) ==
    /\ Stop(p)
    /\ env' = [env EXCEPT ![p] = None]
    /\ placeholder' = placeholder \ {p}
    /\ answer' = None
    /\ UNCHANGED stored

StartupInit ==
    /\ Init
    /\ env = [p \in Process |-> None] /\ placeholder = {}
    /\ config = None /\ user = None /\ answer = None

StartupNext ==
    \E p \in Process :
        \/ \E e \in Environment : Launch(p, e)
        \/ Boot(p)
        \/ Ends(p)
        \/ \E w \in Phrase, enough \in BOOLEAN :
              \/ VaultInit(p, w, enough)
              \/ VaultUnlock(p, w, enough)
              \/ Register(p, w, enough)
              \/ LoginUnknown(p, w, enough)
              \/ Login(p, w, enough)

StartupSpec == StartupInit /\ [][StartupNext]_allVars

-----------------------------------------------------------------------------
(* Properties                                                              *)

\* kdf.py and .env.example: "raising them later never locks an existing Vault out
\* of its own data", and the same for accounts (security.py).  When the host gives
\* Argon2 what it asks for, the passphrase that made the vault or the account opens
\* it in every process, whatever the cost settings are by then (a login also needs
\* a session that can be dated), and no other passphrase ever begins to.
OldSecretsWork ==
    answer # None =>
        /\ answer.op = "unlock" /\ config # None =>
              (answer.status = 200 <=> answer.enough /\ answer.said = config.wrapped_with[1])
        /\ answer.op = "login" /\ user # None =>
              (answer.status = 200 <=> /\ answer.enough /\ answer.said = user.hash[1]
                                       /\ expiry_exists(answer.by))

\* A vault or account is made only with a passphrase that the policy's messages
\* allow, one is refused as weak only if they forbid it, and the same is true of
\* all passphrases, whoever comes with them.
PolicyExact ==
    answer # None /\ answer.op \in {"init", "register"} =>
        /\ answer.status = 201 => Strong(answer.said)
        /\ answer.status \in {400, 422} => ~Strong(answer.said)
        /\ AcceptsStrong

\* settings.py has no maxima: costs that Argon2 refuses or the host cannot give, and
\* hash lengths that make no AES key, fail in the middle of a request.  An init that
\* fails leaves no vault, so that it can be made again; and a vault or an account
\* that is there can be opened, with some passphrase, by every process that has the
\* memory for it, whatever failed before.
FailuresSpoilNothing ==
    /\ answer # None /\ answer.op = "init" /\ answer.status = 500 => config = None
    /\ \A p \in Process :
          pc[p] = "serving" =>
             /\ config # None => \E w \in Phrase : unlock_status(p, w, TRUE) = 200
             /\ user # None => \E w \in Phrase : verify_password(p, w, TRUE, user)
=============================================================================
