# Mini Vault: TLA+ models, checks and proofs

Mini Vault is a small secrets server (FastAPI, SQLite, one JSON config file).
FastAPI runs its synchronous route handlers in a pool of worker threads, so the
services, the repositories and the process-wide `VaultState` are called
concurrently. The modules in this directory model those services at the grain at
which threads, SQLite and the file system really interleave.

Paths below are relative to the repository root; `src/` there is the package.

## 1. Inventory

| Component | State | Operations | Correct when |
|---|---|---|---|
| Vault core: `src/core/vault.py`, `state.py`, `src/storage/config_store.py` | config file and its `.tmp` sibling; `VaultState._dek` in memory | initialize, unlock, lock, status, get_dek, save_atomic | the DEK in memory is the one the file wraps; an answered init survives any crash; what was sealed stays readable; only the owner unlocks |
| KV engine: `src/kv/` | `kv_records`, `kv_versions` | write, read, versions, delete | a linearizable versioned store: the tables agree, versions are 1..n, no read reports tampering without cause; denials are logged |
| Audit log: `src/audit/` | `audit_logs`, `audit_chain_head` in `schema_metadata` | log, log_denied_access, verify, list | the chain never forks; outside edits are detected; an untouched log verifies |
| Authentication: `src/auth/` | `users` (counter, lockout), `sessions` | register, login, logout, get_current_user | N failures lock the account, for the whole lockout period; sessions only ever end |
| Database: `src/storage/database.py` | tables, `schema_version` | initialize, legacy guard, connection, exclusive_connection | only a complete current schema is served; an old one is left alone; a transaction is all or nothing and gives the write lock back |
| Transit engine: `src/transit/` | `named_keys`, `named_key_versions` | create, rotate, revoke, encrypt, decrypt, sign, verify | every answer is right for the key the request found: the newest version encrypts, every version decrypts what it encrypted, rotation allocates versions without gaps |
| Pure code: `ciphertext.py`, `passphrase.py`, `crypto.py`, `encoding.py` | none | format/parse, policy, AES-GCM, Base64 | parse inverts format and accepts nothing else; the policy accepts what it says |
| Settings and key stretching: `src/core/settings.py`, `kdf.py`, `src/auth/security.py` | the environment of each process | load, current_parameters, derive_wrapping_key, hash_password, verify_password | vaults and accounts outlive the settings they were made with; bad values fall back to safe ones |
| Application: `main.py`, the routes and exceptions | wiring | lifespan, error mapping, every route | no answer tells what others own; a refusal has no effect; denials are logged; after a restart the vault is locked |

Interactions. Every KV and Transit handler first resolves the session
(`get_current_user`), then calls its service. The services ask `VaultService` for
`require_unlocked` and later for a private copy of the DEK, and the audit
repository for the record of a denial. All tables live in one SQLite file: a
transaction of `exclusive_connection` (BEGIN IMMEDIATE) excludes every other
writer, whichever engine it belongs to. The DEK is the only state shared in
memory.

What is hard here:

* requests interleave at each system call, each repository call and each
  critical section of `VaultState._lock`; state read in one of them (config file,
  DEK copy, users row, key row, chain head) is used in a later one;
* a process may stop, and the machine lose power, between any two of them;
* BEGIN IMMEDIATE waits 5 s for the write lock and then raises, and COMMIT can
  fail: each multi-statement operation may be undone;
* counters sit at boundaries: version numbers after a delete, the failure
  counter at its limit, the empty audit log, the two shapes of a ciphertext, the
  run of a repeated character;
* vault and accounts outlive the process, and with it the settings, that made them;
* one write lock serves all engines: who holds it must not wait for it again, as a
  denial logged inside a transaction would.

PROJECT.json lists the hazards one by one, at their lines.

## 2. Modules

| Module | Models | Uses |
|---|---|---|
| `VaultCore` | `vault.py`, `state.py`, `config_store.py`, vault routes | |
| `VaultCoreProofs` | theorems about `VaultCore` | extends `VaultCore` |
| `KvStore` | abstract: what the KV engine promises | |
| `KvEngine` | `kv/service.py`, `kv/repository.py`, the transactions of `database.py` | instantiates `KvStore` |
| `KvEngineProofs` | theorems about `KvEngine` and its refinement of `KvStore` | extends `KvEngine` |
| `Ciphertext` | `transit/ciphertext.py`, the lengths of `crypto.py`, Base64 | |
| `KeyStore` | abstract: what the transit engine promises | |
| `Transit` | `transit/service.py`, `transit/repository.py` | extends `Ciphertext`, instantiates `KeyStore` |
| `TransitProofs` | theorems about `Transit`, its refinement of `KeyStore`, and `Ciphertext` | extends `Transit` |
| `AuditChain` | `audit/repository.py`, `audit/chain.py` | |
| `AuditChainProofs` | theorems about `AuditChain` | extends `AuditChain` |
| `Auth` | `auth/service.py`, the two repositories, `dependencies.py`, `session.py` | |
| `AuthProofs` | theorems about `Auth` | extends `Auth` |
| `SchemaInit` | `Database.initialize` and its guard | |
| `SchemaInitProofs` | theorems about `SchemaInit` | extends `SchemaInit` |
| `Passphrase` | `core/passphrase.py` | |
| `Startup` | `settings.py`, `kdf.py`, `security.py`: processes with different settings over one installation | extends `SchemaInit`, `Passphrase` |
| `StartupProofs` | theorems about `Startup` | extends `Startup`, `SchemaInitProofs` |
| `MiniVault` | `main.py`, the routes, `dependencies.py`: sessions, KV, Transit, audit and the vault state composed over one write lock | |
| `MiniVaultProofs` | theorems about `MiniVault` | extends `MiniVault` |
| `MC...` | model values and symmetry sets for TLC | |

### VaultCore

The file system is a set of inodes: `cfg` and `tmp` are the two directory
entries, `disk` the contents and `synced` the inodes whose contents were fsynced.
This is what tells apart "the file was replaced", "the file was written in place
through a descriptor of the old name" and "the name survived a power loss and the
contents did not". `pc`, `pass`, `key`, `fd` are the local variables of each
worker thread; `minted`, `sealed`, `acked` record what happened.

`initialize` is `InitializeStart` (checks, key derivation, DEK), `SaveOpen`,
`SaveWrite`, `SaveFsync`, `SaveReplace` or at any of them `SaveFails`
(`save_atomic`), `InitializeLock`, `ReturnStatus`. `unlock` is `UnlockStart`,
`UnlockLoad`, `UnlockSetDek`, `ReturnStatus`. `GetDek` and `Seal` are an engine
that takes its copy of the DEK and later commits a row under it. `Crash` is a
restart. `PowerLoss` is one that also loses contents of inodes that are not in
`synced` and may undo a rename: the code does not fsync the directory, so until
`FlushDirectory`, which the file system takes when it likes, `shadows` holds what
config_path may become again. `undone` records that this happened.

### KvStore and KvEngine

`KvStore` is the promise: each path has a history, a call takes effect on it once
(`Effect`) between `Invoke` and `Return`, or is refused without effect.
`KvEngine` has the two tables, SQLite's write lock (`writer`), the DEK and the
local variables of each request: `row` is what a request has selected or is about
to insert, `out` its outcome. Write is `Start`, `RequireUnlocked`, `GetDek`,
`Begin`, `Allocate`, `Commit`; read is `Start`, `RequireUnlocked`,
`SelectVersion`, `Decrypt`; a request for somebody else's path is `Start`,
`Deny`. `DbFails` is a `sqlite3.Error` at any database access: rollback, answer
500. `Lock`, `Unlock` and `Crash` happen at any time.

AES-GCM is modelled by what it guarantees: a blob carries the key and associated
data it was sealed with and opens with nothing else. There is a single DEK: that
every unlock brings back the same one is `DekMatchesConfig` and
`SealedRecoverable` of `VaultCore`, proved there. A version below 1 is refused by
the route (`ge=1`), so the engine's own check for it has no case here.

The refinement mapping rebuilds a path's history from the plaintexts of its
version rows. A write and a delete take effect at `Commit` and `Delete`, a read
at `SelectVersion`: that is why `KvStore` lets a read be refused after its effect
(the vault was locked before `Decrypt`).

### KeyStore and Transit

`Transit` has two tables as in the KV engine, and per request the rows it has read so far: `row`
(the key), `rows` (version rows), `todo` (versions that verify has yet to read).
All operations but create begin with `_owned_key` (`Start`, or `Deny` when there is
no such key) and go through `Check`; then create and rotate are `Begin`, `Wrap`,
`Commit`, `Reread`, revoke is `Delete`, encrypt, decrypt and sign are
`SelectVersion` and `Unwrap`, verify is `List` and one `Candidate` per version. Key
material is a model value that is never drawn twice; a ciphertext or signature is a
record of what made it and, for a ciphertext, of the header `Ciphertext` gives it.
`issued`, `minted`, `revoked` and `dead` are history: what was handed out, every
version row ever stored, the material of revoked keys, and for each request the
part of it that was revoked when the request began. `Creatable` says which names
are created with which usage; in the runs a name that was revoked may come back with
the other one. Of the error codes only TAMPER_DETECTED is kept apart from the rest. A malformed ciphertext or key name is refused before
anything is read and has no action.

`KeyStore` is the promise. A slot holds the materials of its key, oldest first. A call
sees what its slot holds when it arrives, and is answered by that: encrypt and sign use
the last material, decrypt one of them that made the ciphertext, verify says whether one
of them made the signature. A verify that has not ended may also be answered by what
the slot holds by then: a rotation or revocation that overlaps with it may count or not.
Create and rotate add one new material once (`Extend`), and are answered later; a
revocation is answered in the step that empties the slot. A refused call has used no
material, but a create or rotation may have happened all the same, and after a crash its
caller does not know. TAMPER_DETECTED is one of the refusals: which of them it may be is
said by `TamperExplained`.

The refinement mapping reads a slot's materials off the version rows of its key. What a
request saw is rebuilt from the key row it has read and from `minted`, as by the time it
reads the versions they may be gone, and the name a new key's.

### Ciphertext

A text is cut at its colons: the words before the last one, and a payload that is
either not Base64 or a sequence of bytes. `format_ciphertext` and
`parse_ciphertext` are operators; words are strings of which some look like
versions (`Numeral`), some of those being key names too. `RoundTrip`
and `AcceptsShapes` compare them with the two shapes the file's header comment gives,
for every text of up to four words and every short payload; `FramingExact` of
`Transit` checks them together with the ciphertexts that requests hand out. What the
run enumerates, the theorem `FramingIsExact` shows for texts and payloads of any
length.

### AuditChain

A hash is the tuple it was computed from, that is, SHA-256 without collisions;
the canonical encoding keeps the fields apart, so the tuple has the same
equalities. `log` is `LogStart`, `LogBegin`, `LogLink`, `LogCommit`, or
`LogFails`; `verify` is `VerifyRows` and `VerifyHead`, on two connections as in
the code; `verify_chain` is an operator on a table, with `At(tab, i)` for the
i-th row of `ORDER BY sequence`. `EditField`, `EditDelete`, `EditReorder` are the
changes from outside that `chain.py` names; the stored head is left alone, as its
threat model says. It is a set of at most one hash, as a log without rows has none.
Edits and requests interleave; `covered` records that log() overwrote a stored head
that the last row did not match any more (it was changed or cut off). That is the one
case, with the emptied log, that `EditsDetected` excludes.

### Auth

Each repository call is one transaction, so a login is cut at each:
`LoginRead`, `LoginLockout`, `LoginFresh`, `LoginReread`, `LoginVerify`,
`LoginFail` or `LoginReset` and `LoginSession`. `snap` is the row the login read
before Argon2 ran. `strikes` counts the failures answered, independently of the
code's counter. `LoginAs` fixes the account whose logins a thread handles: with
`OneLoginPerAccount` logins of one account follow each other, without it they
race. The clock `now` moves at any time.

### SchemaInit

`layout` says with which schema each table was created, `predates` whether the
file is from before schema 2. `executescript` commits each CREATE statement on its
own, so `Create` is one statement; `Stamp` writes the version row, last.

### Passphrase and Startup

`Passphrase` is the policy, rule by rule, on sequences of characters, and a
reference definition (`Strong`) that states the rules without the loop.

`Startup` puts processes around `SchemaInit`: each is started in an environment
(`Launch`), boots through the schema steps (`Boot`) and then answers init, unlock,
register and login, each as one step. The config file and the account they leave
behind are read by later processes with other settings. A derived key or hash is
the tuple of passphrase and parameters. Argon2 refuses parameters outside its limits
(`argon2_accepts`), which `_int`, having no maximum, lets through, and whether the
host gives it the memory and threads for a computation is a choice made at each
request (`enough`). How the code takes a failure differs: init, register and unlock
answer 500, a login takes it as a wrong passphrase, and a login of an unknown account
fails unless the process has made its placeholder hash before (`placeholder`).
Concurrency, lockout and storage errors of these requests are in `VaultCore` and
`Auth`.

### MiniVault

A route is the script of its accesses to shared state (`Script`): the DEK, a select,
the write lock, a commit. `Arrive` is `get_current_user` and, for KV, `_authorize`;
then a request takes its script step by step, `Raise`s through
`register_error_handlers`, or goes on. What the engines do inside an access is in
their own modules, so rows are only present or absent here, and an error that
depends on details (usage of a key, a ciphertext of a former key, a missing
version) may or may not occur. Sessions end by logout or by the clock at any time;
`late` and `fate` are history: which requests outlived their session, and whether
the row a request asks for was there, or was removed, while it ran.

## 3. Runs

| Run | cfg | Shows |
|---|---|---|
| vault_safety | VaultCore_safety | all safety properties of the vault core, three threads, one of which may initialize |
| vault_live | VaultCore_live | every vault request is answered, with two racing inits |
| vault_init_race | VaultCore_init_race | violated: `InitAckDurable` when two inits race |
| kv_safety | KvEngine_safety | tables agree, no spurious tamper report, no unlogged denial |
| kv_service | KvEngine_store | `KvEngine` implements `KvStore`, every request is answered, the write lock comes free |
| audit_safety | AuditChain_safety | the chain is linear under concurrent requests; verify is wrong only when raced; up to two edits of up to three logged rows, before and after further entries, are found unless the log was emptied or an entry was logged over a head that no longer matched |
| auth_lockout | Auth_lockout | counter, lockout and sessions, logins of one account one at a time |
| auth_login_race | Auth_race | violated: racing failures are lost from the counter |
| startup_safety | Startup_safety | only a complete current schema is served, an old one is untouched; vaults and accounts keep working under other settings; requests that fail for their settings or for want of memory leave nothing unusable behind; the passphrase policy |
| transit_safety | Transit_safety | `Transit` implements `KeyStore`; key tables agree, what was handed out stays usable until revoked and not after, verify is right under rotations, tampering is reported only with a reason; the framing of ciphertexts |
| transit_rotate_race | Transit_rotate_race | violated: `NoSpuriousTamper`, when a rotation races revoke and create of the same name |
| server_safety | MiniVault_safety | no answer is an oracle, denials are logged, refusals have no effect, no request waits for its own write lock, only the owner's session changes rows, nothing begins under an ended session |

The type invariants of KvEngine, Transit, AuditChain, Auth, SchemaInit and MiniVault are
checked as the first conjunct of `TablesAgree`, `KeysAgree`, `ChainLinear`,
`CounterHonest`, `ServesCurrent` and `NoNestedTransaction`; that of VaultCore on its
own.

### Bounds, and why they are enough

* VaultCore: two inodes are all the files there can be at a time (the config file
  and the temporary one; a thread keeps a descriptor open only until the fsync),
  and two or three DEKs give a failed and a successful init, two racing ones, or
  one more after a power loss took the first away.
  Three threads let an unlock, a lock and a sealing request interleave; two strong
  passphrases and a weak one make every check answer both ways.
* KvEngine: two versions per path, with deletes, give first write, rewrite and a
  new record after a delete (`MaxId` 3 on two paths). Beyond the bounds a write
  can only fail, through `DbFails`, as on a full disk.
* Transit: one owner and one name, "v2", which is a version segment too; two versions
  per key, two keys and three materials over time: a rotated key, and a name that is
  revoked and created again, with the same usage or the other. Keys of different slots
  share only the ids, the write lock and the draw of new material; that they do not
  disturb each other is part of the theorems, which have any names and owners. Beyond
  the bounds create and rotate can only fail.
* Ciphertext: numerals 1 to 3 of which 3 has too many digits, a nonce of one byte and
  a tag of two, payloads of up to four: shorter than both, exactly both, and more.
* AuditChain: three entries, so that an edited row has rows before and after it or
  an entry is appended after the edit, and two edits that may compensate each
  other; two requests are what a fork or a raced verify takes.
* Auth: the limit is 2 failures instead of 5; three clock values let a lockout
  and a session start, last and expire.
* Startup: three starts of two processes: one that stops half way or makes a vault,
  one that finds what it left, one that runs beside it. It may run out of starts,
  hence no deadlock check. Four environments: nothing set; higher costs among values
  that `_int` rejects (too small, not a number); less than 8 KiB for each lane; and a
  hash length, a time cost and a session time that pass and are too large, each for a
  request of its own. TLC has no integers above 2^31 - 1, so the largest cost (really
  2^32 - 1) and the longest session that can be dated (really some 4 * 10^9 minutes)
  are one less than that.
* Passphrase: all words of up to five characters of an alphabet of five (two lower
  case letters, an upper case one, a digit, a space), with limits of 4, 3 and 3 and
  one forbidden word of two letters: each rule is met, just missed, and met at both
  ends of the word.
* MiniVault: two users, one of whom owns the path; two worker threads, one key name,
  one session each. Two threads suffice for every pair of requests that race on a
  row, on the vault state or on a session.

### Fairness

`vault_live` and `kv_service` assume weak fairness of each thread's `Step`: the
operating system keeps scheduling a thread inside a request. Arrivals, locks,
unlocks, database errors of other requests and crashes are not assumed to happen.
A request that waits for SQLite's write lock always has an enabled step, because
the busy timeout ends the wait after 5 s with an error (`DbFails`).

## 4. What is proved

Every theorem is about the specification that the runs check, for any values of its
constants: any number of threads, users, paths and passphrases, any bounds. Where a
property is listed in a run, the run shows it on a small instance and the theorem
for all of them.

The assumptions are the named ASSUMEs of the modules, which TLC evaluates in every
run: sizes are natural numbers, functions of constants have their domains, and the
markers `None` and `Malformed` are not also data (`NoneAssumption`,
`MalformedAssumption`, `CallAssumption`). None of them restricts the code. Three hypotheses do, and
are written in front of the theorems that need them: `OneInitializer`,
`OneLoginPerAccount` and `OneUsagePerName`. For each of them a run with the
expectation `violation` is the behaviour that the hypothesis excludes.

Few of the properties are inductive. Each proof has the same plan: an invariant `IndInv`
(`StartupInv` in Startup) made of what is true of the tables and what is true of each
request where it stands; a lemma per action or group of actions that it is
preserved; a lemma (`Bystander` in most modules) that the other requests do not
notice; and then the properties as consequences of it. Action properties follow from
the invariant and one step.

### VaultCore

`TypeCorrect` holds without a hypothesis, racing inits included. Under
`OneInitializer` (at most one thread runs init), `DekMatches`, `InitDurable`,
`SealedStays`, `ConfigStays`, `OwnerUnlocks` and `UnlockIsHonest`: the safety
properties of `vault_safety`. Where a power loss undoes the rename itself,
`InitAckDurable` and `SealedRecoverable` promise nothing and the others still hold.

`IndInv` adds: a save in progress has no config file to overwrite, owns the temporary
path, and from the write on the temporary file holds its own configuration
(`SaveInv`); a config file is complete, fsynced and never the same inode as the
temporary one, and a rename can only be undone to no file at all (`FileInv`); and
whatever a request has read of the config file is still true of it (`LocalInv`).
`SaveInv` is where `OneInitializer` is needed, and `vault_init_race` is the behaviour
that breaks it.

`RacesKeepKeysApart` says how much the race can damage. Without a hypothesis most of the
above is false: a config file may be emptied or replaced, and with it a vault is lost.
What is left is that a DEK belongs to one passphrase, a strong one, in every file that
wraps it and in every request that carries it (`OnePassPerKey`), so a vault is never
opened by a passphrase other than that of its own init. The argument is that no step but
`InitializeStart` binds a DEK, and that one draws it new; all others move bindings or
drop them.

### KvEngine and KvStore

`TablesStayInAgreement`, `ReadsNeverTampered` and `DenialsAreAudited`, and
`EngineImplementsStore`: the engine implements `KvStore`, so it is a linearizable
versioned store for any requests, paths and values.

`IndInv` says of the tables that versions are numbered, ids differ and are below the
next one, no version is an orphan, and every stored row opens with the DEK and with the
associated data that a read of it computes; of a request, that the one between BEGIN
and COMMIT is the writer and that the row it has allocated is still the next one
(`Allocated`), and that a row it has selected opens even when it is deleted meanwhile
(`FetchedOpens`). The refinement has a lemma per action. It rests on `HistoryInv`: a
path's plaintexts, in the order of their versions, are a sequence of values. `Commit`
appends to it, `Delete` empties it, `SelectVersion` answers from it, and every other
step leaves it alone; each of these is a step of `KvStore` by one request (`OneMoves`).

### Auth

Under `OneLoginPerAccount`, `LockoutIsEnforced`, `CounterIsHonest` and
`LockoutEndures`; without it, `SessionsOnlyEverEnd`. The first three are instances of
`SoloIsSafe`, which has no hypothesis: races between logins of one account do no harm to
any other (`Solo` are the accounts whose logins follow each other). And for an account
whose logins do race, `RacesLeaveRowsFit`: the counter may lose failures or, after a login
that succeeded in between, count one too many, but the lock still agrees with the counter
and never lasts longer than one lockout from now. The invariant says that the row
a login has read before Argon2 runs is still the row of the account when it uses it
(`LoginCurrent`), which is what the race in `auth_login_race` breaks, and that the
counter is the number of failures answered, and the account locked exactly at the
limit (`Counts`).

### AuditChain

`ChainNeverForks`, `EditsAreDetected` and `AlarmsOnlyWhenRaced`, for logs of any length
and any number of edits. The argument for `EditsAreDetected`: `VerifiedIsLinear` shows
that a table which verify accepts is one chain that ends in the stored head, and the
invariant's part `Sealed` that no other chain than what was logged ends in that head.
That is where hashes without collisions come in: when a row is logged, another chain
with the same last hash has the same last row, and without it (`LinearCut`) is a chain
that ends in the head before, which only the log before does.
`Sealed` is lost exactly when log() overwrites a head that does not match, which is
why `covered` is defined by that (see section 5): with a `covered` that asked whether
the head was the only trace of the edit, the property has a counterexample with three
edits, one more than the run makes.

### SchemaInit and Startup

`StampComplete`, `ServesComplete` and `LegacyStays` for any number of processes and
starts. A process past the guard works on a new database, the statements
it has run have left their tables there (`ProcessInv`), and an old database keeps a
table the guard looks for (`FileInv`).

`StartupImplementsSchemaInit`: processes with environments and requests refine
`SchemaInit`, so `ServersKeepTheSchema` follows from the theorem above.
`OldSecretsKeepWorking` holds because what is stored carries the parameters it was
made with, and these are parameters that Argon2 has computed with and that give an
AES key (`StoredInv`): they can be computed with again. `FailuresLeaveItOpenable`
follows from that too, with the order of initialize, which saves last. Both are proved
for any environments and any limits of Argon2 and of dates.

`PolicyIsExact`: a vault or an account is made only with a passphrase that meets the
rules as they are stated, and only one that does not is refused as weak; the run compares
the two for short words, `PolicyIs` for words of any length. The policy counts runs of a
character from left to right, in a recursive function, and induction over data is out of
the prover's reach. The proof does without: if some position had a wrong count there
would be a first one, and the count before it, which is right, makes it right too. What is
needed is that a set of natural numbers has a least element (`Least`), and that follows
from the library's theorem that the subsets of a finite set are well-founded.

### MiniVault

`NoResponseIsAnOracle`, `DenialsAreLogged`, `RefusedIsUndone`,
`TransactionsAreNotNested`, `OnlyTheAdmittedFinish` and `OnlyTheOwnerChanges`. The
invariant says that what is left of a request's script is a suffix of the route's
(`Course`), so that its length tells where the request is; a request has the write
lock exactly where its route is between BEGIN IMMEDIATE and COMMIT (`Holding`); one
that is past its first check is the owner of the path or has found its own key
(`Entitled`); and `fate` is what happened to the row (`Witnessed`).

### Transit and Ciphertext

`TablesStayInAgreement`, `IssuedStaysUsable`, `RevokedStaysGone` and `VerifyIsHonest`
without a hypothesis. So is `TamperIsExplained`: where rotate_key's race (section 5) can
happen, it is the only other reason why tampering is reported. When every name is created
with one usage (`OneUsagePerName`, which `transit_rotate_race` shows to be needed) there is
no such race, and `TamperMeansForeign` says that only foreign ciphertexts are reported.

`TransitImplementsKeyStore`: the answers are right for any requests, owners, names and
numbers of versions.

The invariant is about `minted`, which only grows: a version row determines the key,
the slot (owner and name) and the usage it was made for, and the material it holds is in no other row
(`MintedInv`, `KeyOf`). The tables are then parts of it (`SlotInv`, `StoredInv`), and so
is what was issued (`IssuedInv`) and what a request has read, even if it was revoked
since (`Holds`, `Reads`). `Pending` is for verify, which reads version after version
between rotations: the one that signed was read or is still to come.

The refinement needs one more invariant, `Known`: the versions that the key row of a
request counts were all stored once, the one its ciphertext or signature names among them
(`Arrived`), and a verify that pins a version reads no other (`Pins`). So the materials a
request saw on arrival are in `minted` whatever happens to the key (`MaterialsKept`). There
is a lemma per action: `Start` is `Arrive`, `Commit` is `Extend`, a successful `Delete` is
`Revoke`, the last step of a reading request and `Reread` are `Return`, an error is
`Refuse`, and all other steps stutter.

`FramingIsExact` is about the operators alone: for any names, numerals, nonce and tag
lengths, bytes and payloads, parsing inverts formatting (`RoundTrips`) and accepts the two
documented shapes and nothing else (`ShapesAccepted`). It rests on facts about
slices of sequences (`Slice`, `BlobOfPayload`, `PayloadOfBlob`).

### Only model-checked

* Liveness: `RequestsReturn` of VaultCore and KvEngine and `WriteLockReleased`. The
  prover has no rule for fairness and ENABLED.
* The three runs that end in a counterexample.

## 5. Findings

Each is a run with the expectation `violation` and an entry in PROJECT.json.

1. vault_init_race: two concurrent inits can both be answered 201, and one
   passphrase is lost.
2. auth_login_race: simultaneous failed logins overwrite each other's counter.
3. transit_rotate_race: rotate_key wraps new material for the usage of a key row it
   read before its transaction; if the name was revoked and created again with the
   other usage in between, the new key cannot encrypt or sign any more.

Limits of the code that the models show and the passing properties spell out:

* verify reads rows and head in two snapshots, so on an untouched log it may answer
  HEAD_MISMATCH when an entry was committed in between, and only then
  (`AlarmOnlyWhenRaced`);
* verify ignores the stored head of an empty log, so a log that lost all its rows
  verifies, against chain.py's "Truncating the tail of the log"; `EditsDetected`
  excludes the empty log for that reason;
* log() links to whatever row is last and overwrites the stored head without comparing
  the two, so an edit that only the head gives away verifies again after the next
  entry. Nor does it help that other edits gave it away as well at the time: change the
  last row and an earlier one, let an entry be logged, put the earlier one back, and the
  log verifies. So what `covered` records is that the head was overwritten when it did
  not match, whatever else was wrong with the log then;
* os.replace is not followed by an fsync of the directory: a power loss right after
  an answered init may take the whole config file away (`undone`), after which the
  vault can be initialized again and what was sealed is lost; a damaged file is
  never left (`UnlockHonest`, `ConfigImmutable`);
* settings have minima and no maxima, and a request can fail with 500 in the middle:
  for a hash length over 32, less than 8 KiB of memory for each lane, a cost above
  Argon2's own limits, memory or threads the host does not give (a memory cost in
  bytes instead of KiB), or a session so long that its end is no date. Such a failure
  leaves no vault, and vaults and accounts that are there remain usable
  (`FailuresSpoilNothing`, `OldSecretsWork`). With PASSWORD_ settings that Argon2
  refuses, a login with an unknown e-mail is answered 500 and one with a known e-mail
  properly;
* a login whose Argon2 computation fails for want of memory is answered 401, with the
  right passphrase too, and counts as a failure, while an unlock is answered 500;
* likewise a lockout so long that its end is no date is never set: the login that
  would set it is answered 500 before the counter is written (not modelled: the
  lockout of Auth is a time the clock can hold);
* a session is checked once: a request goes on after the logout of its session
  (`OnlyAdmittedFinish` says what does not);
* a 403 for a key that was revoked while the request ran is not in the audit log
  (`DenialsLogged`), and a rotation that was carried out is answered 403 when the
  key is revoked before it is read back (`RefusedMeansUndone`);
* a request in flight keeps its copy of the DEK after lock(), against state.py's
  "The DEK only exists while the Vault is unlocked", but what it seals with the
  copy stays readable (`SealedRecoverable`, `NoSpuriousTamper`);
* a first start that stops between the CREATE statements and the version row leaves
  a new database that every later start refuses as a legacy one: `StampMeansComplete`
  holds, its converse does not;
* verify of a signature answers "invalid" instead of "unavailable" when the key is
  revoked between its first two reads (`VerifyHonest`).

## 6. Not modelled

* HTTP, JSON, wiring, error wording and the fields of requests and responses: no
  state. Of the request schemas only the minimum length of the master passphrase is
  here; key names, paths and e-mail addresses are taken as validated.
* AES-GCM, Argon2, SHA-256, Base64, random numbers: libraries, taken by what they
  guarantee.
* Paths in the settings. The session and lockout times are constants of Auth; of a
  session time Startup only asks whether its end can be dated.
* The contents of `list_for_requester` and `list_keys`, which only read; that they
  are asked for the session's own e-mail address is in MiniVault's `user`.
* `generate_samples.py`, a development script that drives the HTTP API once.

## 7. What is left

A listed theorem states every safety and refinement property of the passing runs; the
liveness properties stay with TLC. What would extend the project:

1. A lemma that `MiniVault`'s `row` and `Rows` are what the tables of `KvEngine` and
   `Transit` look like from outside, so that the composition is more than a reading.
2. One installation for all engines: the DEK that `KvEngine` and `Transit` take as a
   constant is the one whose `DekMatchesConfig` `VaultCore` proves; nothing but this
   text joins them.
