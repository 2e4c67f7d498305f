-------------------------------- MODULE Auth --------------------------------
(***************************************************************************)
(* AuthService, UserRepository, SessionRepository and get_current_user:    *)
(* registration, login with its failure counter and timed lockout, session *)
(* tokens that expire and are revoked.  Every repository call is its own   *)
(* transaction, so a login is cut at each of them; verify_password (Argon2) *)
(* runs between two of them, on a row that was read earlier.               *)
(***************************************************************************)
EXTENDS Naturals

CONSTANTS
    Thread,     \* worker threads of the server
    User,       \* e-mail addresses
    LoginAs,    \* LoginAs[t]: the account thread t handles logins of
    MaxFailed,  \* MINIVAULT_MAX_FAILED_ATTEMPTS
    Lockout,    \* MINIVAULT_LOCKOUT_MINUTES
    Ttl,        \* MINIVAULT_SESSION_TTL_MINUTES
    MaxTime,    \* bound on the clock
    MaxToken,   \* bound on the tokens issued
    None

ASSUME AuthAssumption ==
    /\ LoginAs \in [Thread -> User]
    /\ MaxFailed \in Nat \ {0} /\ Lockout \in Nat \ {0} /\ Ttl \in Nat \ {0}
    /\ MaxTime \in Nat /\ MaxToken \in Nat
    /\ None \notin Nat

VARIABLES
    now,       \* the clock, in minutes
    users,     \* users[u]: failed_attempts and locked_until, None if unregistered
    sessions,  \* sessions[k]: the k-th token's row, or None
    pc,        \* pc[t]: where the request of t is
    right,     \* right[t]: whether the passphrase of the login is the right one
    snap,      \* snap[t]: the users row the login has read
    token,     \* token[t]: the token the request carries
    out,       \* out[t]: the answer to the last request of t
    strikes    \* history: failures answered since the last success or lockout

vars == <<now, users, sessions, pc, right, snap, token, out, strikes>>
local == <<right, snap, token>>

Token == 1 .. MaxToken
Account == [failed_attempts : Nat, locked_until : Nat \cup {None}]
Session == [user : User, expires_at : Nat, revoked : BOOLEAN]
Clean   == [failed_attempts |-> 0, locked_until |-> None]

\* Python's None is no row.
ASSUME NoneAssumption == None \notin Account \cup Session

Init ==
    /\ now = 0
    /\ users = [u \in User |-> None]
    /\ sessions = [k \in Token |-> None]
    /\ pc    = [t \in Thread |-> "idle"]
    /\ right = [t \in Thread |-> FALSE]
    /\ snap  = [t \in Thread |-> None]
    /\ token = [t \in Thread |-> None]
    /\ out   = [t \in Thread |-> None]
    /\ strikes = [u \in User |-> 0]

Goto(t, l) == pc' = [pc EXCEPT ![t] = l] /\ out' = [out EXCEPT ![t] = None]

Answer(t, o) ==
    /\ pc'    = [pc EXCEPT ![t] = "idle"]
    /\ snap'  = [snap EXCEPT ![t] = None]
    /\ token' = [token EXCEPT ![t] = None]
    /\ right' = [right EXCEPT ![t] = FALSE]
    /\ out'   = [out EXCEPT ![t] = o]

-----------------------------------------------------------------------------
\* register: the passphrases may differ or be weak; else INSERT, where UNIQUE
\* decides between registrations of the same address.
Register(t, u) ==
    /\ pc[t] = "idle"
    /\ \/ /\ \E error \in {"PASSPHRASE_MISMATCH", "WEAK_PASSPHRASE"} : Answer(t, error)
          /\ UNCHANGED users
       \/ /\ users[u] # None
          /\ Answer(t, "EMAIL_ALREADY_REGISTERED")
          /\ UNCHANGED users
       \/ /\ users[u] = None
          /\ users' = [users EXCEPT ![u] = Clean]
          /\ Answer(t, "registered")
    /\ UNCHANGED <<now, sessions, strikes>>

-----------------------------------------------------------------------------
(* login                                                                   *)

\* get_by_email; an unknown address gets the answer of a wrong passphrase.
LoginRead(t, ok) ==
    LET row == users[LoginAs[t]] IN
    /\ pc[t] = "idle"
    /\ \/ /\ row = None
          /\ Answer(t, "INVALID_CREDENTIALS")
       \/ /\ row # None
          /\ snap' = [snap EXCEPT ![t] = row]
          /\ right' = [right EXCEPT ![t] = ok]
          /\ Goto(t, IF row.locked_until = None THEN "verify" ELSE "lockout")
          /\ UNCHANGED token
    /\ UNCHANGED <<now, users, sessions, strikes>>

\* The lockout read may have expired.
expired_Always(until) == TRUE
expired(until) == now >= until

LoginLockout(t) ==
    /\ pc[t] = "lockout"
    /\ \/ /\ ~expired(snap[t].locked_until)
          /\ Answer(t, "ACCOUNT_LOCKED")
       \/ /\ expired(snap[t].locked_until)
          /\ Goto(t, "fresh")
          /\ UNCHANGED local
    /\ UNCHANGED <<now, users, sessions, strikes>>

reset_login_failures_LockOnly(row) == [row EXCEPT !.locked_until = None]
reset_login_failures(row) == Clean

\* An expired lockout starts a fresh failure window.
LoginFresh(t) ==
    /\ pc[t] = "fresh"
    /\ users' = [users EXCEPT ![LoginAs[t]] = reset_login_failures(@)]
    /\ strikes' = [strikes EXCEPT ![LoginAs[t]] = 0]
    /\ Goto(t, "reread")
    /\ UNCHANGED <<now, sessions, local>>

\* The row is read again; accounts are never removed.  The new row's lockout is
\* not looked at.
LoginReread(t) ==
    /\ pc[t] = "reread"
    /\ snap' = [snap EXCEPT ![t] = users[LoginAs[t]]]
    /\ Goto(t, "verify")
    /\ UNCHANGED <<now, users, sessions, right, token, strikes>>

\* verify_password, some time after the row was read.
LoginVerify(t) ==
    /\ pc[t] = "verify"
    /\ Goto(t, IF right[t] THEN "reset" ELSE "fail")
    /\ UNCHANGED <<now, users, sessions, local, strikes>>

\* _register_failed_attempt: the counter that was read, plus one.
after_failure_OffByOne(row) ==
    [failed_attempts |-> row.failed_attempts + 1,
     locked_until |-> IF row.failed_attempts + 1 > MaxFailed THEN now + Lockout ELSE None]
after_failure(row) ==
    [failed_attempts |-> row.failed_attempts + 1,
     locked_until |-> IF row.failed_attempts + 1 >= MaxFailed THEN now + Lockout ELSE None]

LoginFail(t) ==
    /\ pc[t] = "fail"
    /\ users' = [users EXCEPT ![LoginAs[t]] = after_failure(snap[t])]
    /\ strikes' = [strikes EXCEPT ![LoginAs[t]] = @ + 1]
    /\ Answer(t, "INVALID_CREDENTIALS")
    /\ UNCHANGED <<now, sessions>>

LoginReset(t) ==
    /\ pc[t] = "reset"
    /\ users' = [users EXCEPT ![LoginAs[t]] = reset_login_failures(@)]
    /\ strikes' = [strikes EXCEPT ![LoginAs[t]] = 0]
    /\ Goto(t, "session")
    /\ UNCHANGED <<now, sessions, local>>

\* 256 random bits: a token that no session has.  The model numbers them.
fresh_Reused(k) == IF sessions[k] = None THEN TRUE ELSE sessions[k].revoked
fresh(k) == \A j \in Token : sessions[j] = None <=> j >= k

LoginSession(t) ==
    /\ pc[t] = "session"
    /\ \E k \in Token :
          /\ fresh(k)
          /\ sessions' = [sessions EXCEPT ![k] =
                [user |-> LoginAs[t], expires_at |-> now + Ttl, revoked |-> FALSE]]
    /\ Answer(t, "token")
    /\ UNCHANGED <<now, users, strikes>>

\* sqlite3.Error in a repository call: nothing is written, the answer is 500.
DbFails(t) ==
    /\ pc[t] \in {"fresh", "reread", "fail", "reset", "session", "revoke"}
    /\ Answer(t, "INTERNAL_ERROR")
    /\ UNCHANGED <<now, users, sessions, strikes>>

-----------------------------------------------------------------------------
(* Requests with a token                                                   *)

\* get_current_user: the session is looked up and must not have expired.
is_expired(s) == now >= s.expires_at

authenticates(k) ==
    /\ sessions[k] # None
    /\ ~sessions[k].revoked
    /\ ~is_expired(sessions[k])

\* A KV, Transit or audit request, or logout.  The engines' work is elsewhere:
\* here it matters only how long it goes on.
Authenticate(t, k, next) ==
    /\ pc[t] = "idle"
    /\ next \in {"work", "revoke"}
    /\ \/ /\ ~authenticates(k)
          /\ Answer(t, "UNAUTHENTICATED")
       \/ /\ authenticates(k)
          /\ token' = [token EXCEPT ![t] = k]
          /\ Goto(t, next)
          /\ UNCHANGED <<right, snap>>
    /\ UNCHANGED <<now, users, sessions, strikes>>

Work(t) ==
    /\ pc[t] = "work"
    /\ Answer(t, "ok")
    /\ UNCHANGED <<now, users, sessions, strikes>>

Revoke(t) ==
    /\ pc[t] = "revoke"
    /\ sessions' = [sessions EXCEPT ![token[t]].revoked = TRUE]
    /\ Answer(t, "logged_out")
    /\ UNCHANGED <<now, users, strikes>>

-----------------------------------------------------------------------------
Tick ==
    /\ now < MaxTime
    /\ now' = now + 1
    /\ UNCHANGED <<users, sessions, pc, local, out, strikes>>

\* The process stops: accounts and sessions are in the database.
Crash ==
    /\ pc'    = [t \in Thread |-> "idle"]
    /\ right' = [t \in Thread |-> FALSE]
    /\ snap'  = [t \in Thread |-> None]
    /\ token' = [t \in Thread |-> None]
    /\ out'   = [t \in Thread |-> None]
    /\ UNCHANGED <<now, users, sessions, strikes>>

Step(t) ==
    \/ LoginLockout(t)
    \/ LoginFresh(t)
    \/ LoginReread(t)
    \/ LoginVerify(t)
    \/ LoginFail(t)
    \/ LoginReset(t)
    \/ LoginSession(t)
    \/ DbFails(t)
    \/ Work(t)
    \/ Revoke(t)

Next ==
    \/ \E t \in Thread :
          \/ \E u \in User : Register(t, u)
          \/ \E ok \in BOOLEAN : LoginRead(t, ok)
          \/ \E k \in Token, next \in {"work", "revoke"} : Authenticate(t, k, next)
          \/ Step(t)
    \/ Tick
    \/ Crash

Spec == Init /\ [][Next]_vars

-----------------------------------------------------------------------------
(* Properties                                                              *)

Pc == {"idle", "lockout", "fresh", "reread", "verify", "fail", "reset", "session",
       "work", "revoke"}

\* A login past its first read has a row at hand, of an account that is not gone,
\* and an authenticated request its token.
Held(t) ==
    /\ pc[t] \in {"lockout", "fresh", "reread", "verify", "fail"} =>
          snap[t] # None /\ users[LoginAs[t]] # None
    /\ pc[t] = "lockout" => snap[t].locked_until # None
    /\ pc[t] \in {"work", "revoke"} => token[t] # None /\ sessions[token[t]] # None

\* The shape of the tables and of what requests hold.
TypeOK ==
    /\ now \in 0 .. MaxTime
    /\ users \in [User -> Account \cup {None}]
    /\ sessions \in [Token -> Session \cup {None}]
    /\ pc \in [Thread -> Pc]
    /\ right \in [Thread -> BOOLEAN]
    /\ snap \in [Thread -> Account \cup {None}]
    /\ token \in [Thread -> Token \cup {None}]
    /\ strikes \in [User -> Nat]
    /\ \A t \in Thread : Held(t)

\* At most one login per account is being processed.
OneLoginPerAccount == \A t, u \in Thread : LoginAs[t] = LoginAs[u] => t = u

locked(u) == users[u] # None /\ users[u].locked_until # None

\* README: "Five failed logins lock an account": once MaxFailed failures have been
\* answered with no success or expired lockout in between, the account is locked.
LockoutEnforced == \A u \in User : strikes[u] >= MaxFailed => locked(u)

\* No account is locked for less: the counter is the number of failures answered,
\* and it stops at MaxFailed, because a locked account accepts no more guesses.
CounterHonest ==
    /\ TypeOK
    /\ \A u \in User : users[u] # None =>
          /\ users[u].failed_attempts = strikes[u]
          /\ locked(u) <=> users[u].failed_attempts = MaxFailed

\* A lockout is neither lifted nor moved before it has run out.
LockoutLasts ==
    [][\A u \in User : locked(u) /\ now < users[u].locked_until
          => users'[u] = users[u]]_vars

\* A session only ever ends: no later login, logout or crash revives it, extends
\* it or hands it to another account.
SessionsOnlyEnd ==
    [][\A k \in Token : sessions[k] # None =>
          sessions'[k] \in {sessions[k], [sessions[k] EXCEPT !.revoked = TRUE]}]_vars
=============================================================================
