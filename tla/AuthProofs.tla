----------------------------- MODULE AuthProofs -----------------------------
(***************************************************************************)
(* The lockout and the sessions of Auth, for any sets of threads and       *)
(* accounts, any limits and any bound on the clock and the tokens.         *)
(***************************************************************************)
EXTENDS Auth, TLAPS

-----------------------------------------------------------------------------
(* The inductive invariant                                                 *)

\* The accounts of which at most one login is being processed; those of the others
\* may race.
Solo == {u \in User : \A s, t \in Thread : LoginAs[s] = u /\ LoginAs[t] = u => s = t}

\* With one login of the account at a time, the row a login has read is still the
\* row of the account, and whoever passed the check of the lockout is not locked.
LoginCurrent(t) ==
    /\ pc[t] \in {"lockout", "fresh", "verify", "fail"} => snap[t] = users[LoginAs[t]]
    /\ pc[t] \in {"reread", "verify", "fail", "reset"} =>
          users[LoginAs[t]] # None /\ users[LoginAs[t]].locked_until = None
    /\ pc[t] = "fresh" =>
          users[LoginAs[t]].locked_until \in Nat /\ now >= users[LoginAs[t]].locked_until

\* The counter is the number of failures, up to the limit, and the limit locks.
Counts(u) ==
    /\ users[u] = None => strikes[u] = 0
    /\ users[u] # None =>
          /\ users[u].failed_attempts = strikes[u]
          /\ users[u].failed_attempts <= MaxFailed
          /\ locked(u) <=> users[u].failed_attempts = MaxFailed

IndInv ==
    /\ TypeOK
    /\ \A t \in Thread : LoginAs[t] \in Solo => LoginCurrent(t)
    /\ \A u \in Solo : Counts(u)

-----------------------------------------------------------------------------
(* Types                                                                   *)

\* TypeOK but for its last part.
Shapes ==
    /\ now \in 0 .. MaxTime
    /\ users \in [User -> Account \cup {None}]
    /\ sessions \in [Token -> Session \cup {None}]
    /\ pc \in [Thread -> Pc]
    /\ right \in [Thread -> BOOLEAN]
    /\ snap \in [Thread -> Account \cup {None}]
    /\ token \in [Thread -> Token \cup {None}]
    /\ strikes \in [User -> Nat]

LEMMA TypeParts == TypeOK <=> Shapes /\ \A t \in Thread : Held(t)
  BY DEF TypeOK, Shapes

LEMMA InitTypes == Init => TypeOK
  BY AuthAssumption DEF Init, TypeOK, Pc, Held

\* A row as the failure of a login leaves it.
LEMMA FailureRow ==
  ASSUME TypeOK, NEW t \in Thread, pc[t] = "fail"
  PROVE  after_failure(snap[t]) \in Account
  BY AuthAssumption DEF TypeOK, Held, after_failure, Account

\* A session that was revoked is still a session.
LEMMA RevokedRow ==
  ASSUME NEW s \in Session
  PROVE  [s EXCEPT !.revoked = TRUE] \in Session
  BY DEF Session

LEMMA NextShapes ==
  ASSUME TypeOK, [Next]_vars
  PROVE  Shapes'
  <1> USE AuthAssumption DEF TypeOK, Shapes, Pc, Goto, Answer, local
  <1>1. ASSUME NEW t \in Thread, NEW u \in User, Register(t, u) PROVE Shapes'
    <2>1. \E o : Answer(t, o)
      BY <1>1 DEF Register
    <2>2. users' \in [User -> Account \cup {None}]
      BY <1>1 DEF Register, Clean, Account
    <2> QED
      BY <1>1, <2>1, <2>2 DEF Register
  <1>2. ASSUME NEW t \in Thread, NEW ok \in BOOLEAN, LoginRead(t, ok) PROVE Shapes'
    BY <1>2 DEF LoginRead
  <1>3. ASSUME NEW t \in Thread, NEW k \in Token, NEW next, Authenticate(t, k, next) PROVE Shapes'
    <2>1. CASE Answer(t, "UNAUTHENTICATED")
      BY <1>3, <2>1 DEF Authenticate
    <2>2. CASE ~Answer(t, "UNAUTHENTICATED")
      BY <1>3, <2>2 DEF Authenticate
    <2> QED
      BY <2>1, <2>2
  <1>4. ASSUME NEW t \in Thread, LoginLockout(t) PROVE Shapes'
    BY <1>4 DEF LoginLockout
  <1>5. ASSUME NEW t \in Thread, LoginFresh(t) PROVE Shapes'
    BY <1>5 DEF LoginFresh, reset_login_failures, Clean, Account
  <1>6. ASSUME NEW t \in Thread, LoginReread(t) PROVE Shapes'
    BY <1>6 DEF LoginReread
  <1>7. ASSUME NEW t \in Thread, LoginVerify(t) PROVE Shapes'
    BY <1>7 DEF LoginVerify
  <1>8. ASSUME NEW t \in Thread, LoginFail(t) PROVE Shapes'
    BY <1>8, FailureRow DEF LoginFail
  <1>9. ASSUME NEW t \in Thread, LoginReset(t) PROVE Shapes'
    BY <1>9 DEF LoginReset, reset_login_failures, Clean, Account
  <1>10. ASSUME NEW t \in Thread, LoginSession(t) PROVE Shapes'
    BY <1>10 DEF LoginSession, Session, Token
  <1>11. ASSUME NEW t \in Thread, DbFails(t) \/ Work(t) PROVE Shapes'
    BY <1>11 DEF DbFails, Work
  <1>12. ASSUME NEW t \in Thread, Revoke(t) PROVE Shapes'
    BY <1>12, RevokedRow DEF Revoke, Held
  <1>13. CASE Tick
    BY <1>13 DEF Tick
  <1>14. CASE Crash
    BY <1>14 DEF Crash
  <1>15. CASE UNCHANGED vars
    BY <1>15 DEF vars
  <1> QED
    BY <1>1, <1>2, <1>3, <1>4, <1>5, <1>6, <1>7, <1>8, <1>9, <1>10, <1>11, <1>12,
       <1>13, <1>14, <1>15 DEF Next, Step

LEMMA NextHeld ==
  ASSUME TypeOK, [Next]_vars, Shapes'
  PROVE  \A u \in Thread : Held(u)'
  <1> USE NoneAssumption DEF TypeOK, Shapes, Goto, Answer, local
  <1>1. ASSUME NEW k \in Token, sessions[k] # None PROVE sessions'[k] # None
    <2>1. ASSUME NEW t \in Thread, LoginSession(t) PROVE sessions'[k] # None
      BY <1>1, <2>1, AuthAssumption DEF LoginSession, fresh, Token
    <2>2. ASSUME NEW t \in Thread, Revoke(t) PROVE sessions'[k] # None
      BY <1>1, <2>2, RevokedRow DEF Revoke
    <2> QED
      BY <1>1, <2>1, <2>2 DEF Next, Step, Register, LoginRead, Authenticate, LoginLockout, LoginFresh,
         LoginReread, LoginVerify, LoginFail, LoginReset, DbFails, Work, Tick, Crash, vars
  <1>2. ASSUME NEW a \in User, users[a] # None PROVE users'[a] # None
    <2>1. ASSUME NEW t \in Thread, LoginFail(t) PROVE users'[a] # None
      BY <1>2, <2>1, FailureRow, AuthAssumption DEF LoginFail
    <2>2. ASSUME NEW t \in Thread, LoginFresh(t) \/ LoginReset(t) PROVE users'[a] # None
      BY <1>2, <2>2, AuthAssumption DEF LoginFresh, LoginReset, reset_login_failures, Clean, Account
    <2>3. ASSUME NEW t \in Thread, NEW u \in User, Register(t, u) PROVE users'[a] # None
      BY <1>2, <2>3 DEF Register
    <2> QED
      BY <1>2, <2>1, <2>2, <2>3 DEF Next, Step, LoginRead, Authenticate, LoginLockout,
         LoginReread, LoginVerify, LoginSession, Revoke, DbFails, Work, Tick, Crash, vars
  <1>3. CASE Tick \/ Crash \/ UNCHANGED vars
    BY <1>1, <1>2, <1>3, AuthAssumption DEF Tick, Crash, vars, Held
  <1>4. ASSUME NEW t \in Thread, NEW u \in Thread,
               \/ \E v \in User : Register(t, v)
               \/ \E ok \in BOOLEAN : LoginRead(t, ok)
               \/ \E k \in Token, next \in {"work", "revoke"} : Authenticate(t, k, next)
               \/ Step(t)
        PROVE  Held(u)'
    <2>1. CASE u # t
      <3>1. pc'[u] = pc[u] /\ snap'[u] = snap[u] /\ token'[u] = token[u]
        BY <1>4, <2>1 DEF Step, Register, LoginRead, Authenticate, LoginLockout, LoginFresh,
           LoginReread, LoginVerify, LoginFail, LoginReset, LoginSession, Revoke, DbFails, Work
      <3> QED
        BY <1>1, <1>2, <3>1, AuthAssumption DEF Held
    <2>2. CASE u = t
      <3>1. CASE pc'[t] = "idle"
        BY <2>2, <3>1 DEF Held
      <3>2. ASSUME NEW ok \in BOOLEAN, LoginRead(t, ok), pc'[t] # "idle" PROVE Held(t)'
        BY <3>2 DEF LoginRead, Held
      <3>3. ASSUME NEW k \in Token, NEW next \in {"work", "revoke"}, Authenticate(t, k, next), pc'[t] # "idle"
            PROVE  Held(t)'
        BY <3>3, AuthAssumption DEF Authenticate, authenticates, Held, Token
      <3>4. CASE LoginLockout(t) /\ pc'[t] # "idle"
        BY <1>2, <3>4, AuthAssumption DEF LoginLockout, Held
      <3>5. CASE LoginFresh(t)
        BY <1>2, <3>5, AuthAssumption DEF LoginFresh, Held
      <3>6. CASE LoginVerify(t) \/ LoginReset(t)
        BY <1>2, <3>6, AuthAssumption DEF LoginVerify, LoginReset, Held
      <3>7. CASE LoginReread(t)
        BY <1>2, <3>7, AuthAssumption DEF LoginReread, Held
      <3> QED
        BY <1>4, <2>2, <3>1, <3>2, <3>3, <3>4, <3>5, <3>6, <3>7
           DEF Step, Register, LoginFail, LoginSession, Revoke, DbFails, Work
    <2> QED
      BY <2>1, <2>2
  <1> QED
    BY <1>3, <1>4 DEF Next

LEMMA TypesAlways == Spec => []TypeOK
  <1>1. TypeOK /\ [Next]_vars => TypeOK'
    <2> SUFFICES ASSUME TypeOK, [Next]_vars PROVE TypeOK'
      OBVIOUS
    <2>1. Shapes' /\ \A t \in Thread : Held(t)'
      BY NextShapes, NextHeld
    <2> QED
      BY <2>1 DEF TypeOK, Shapes
  <1> QED
    BY InitTypes, <1>1, PTL DEF Spec

-----------------------------------------------------------------------------
(* Sessions                                                                *)

\* In every execution a session only ever ends: LoginSession takes a token that no
\* session has, and Revoke marks the row it looks up.
THEOREM SessionsOnlyEverEnd == Spec => SessionsOnlyEnd
  <1>1. ASSUME TypeOK, [Next]_vars, NEW k \in Token, sessions[k] # None
        PROVE  sessions'[k] \in {sessions[k], [sessions[k] EXCEPT !.revoked = TRUE]}
    <2>1. ASSUME NEW t \in Thread, LoginSession(t) PROVE sessions'[k] = sessions[k]
      BY <1>1, <2>1, AuthAssumption DEF LoginSession, fresh, Token, TypeOK
    <2>2. ASSUME NEW t \in Thread, Revoke(t)
          PROVE  sessions'[k] \in {sessions[k], [sessions[k] EXCEPT !.revoked = TRUE]}
      BY <1>1, <2>2 DEF Revoke, TypeOK
    <2> QED
      BY <1>1, <2>1, <2>2 DEF Next, Step, Register, LoginRead, Authenticate, LoginLockout, LoginFresh,
         LoginReread, LoginVerify, LoginFail, LoginReset, DbFails, Work, Tick, Crash, vars
  <1>2. TypeOK /\ [Next]_vars =>
           [\A k \in Token : sessions[k] # None =>
              sessions'[k] \in {sessions[k], [sessions[k] EXCEPT !.revoked = TRUE]}]_vars
    BY <1>1
  <1> QED
    BY TypesAlways, <1>2, PTL DEF Spec, SessionsOnlyEnd

-----------------------------------------------------------------------------
(* The lockout                                                             *)

LEMMA InitInd == Init => IndInv
  <1> SUFFICES ASSUME Init PROVE IndInv
    OBVIOUS
  <1>1. \A t \in Thread : LoginCurrent(t)
    BY DEF Init, LoginCurrent
  <1>2. \A u \in Solo : Counts(u)
    BY DEF Init, Counts, Solo
  <1> QED
    BY InitTypes, <1>1, <1>2 DEF IndInv

\* A login is not disturbed by a step that leaves its account alone, or creates it.
LEMMA Bystander ==
  ASSUME NEW u \in Thread, LoginCurrent(u), Held(u), pc'[u] = pc[u], snap'[u] = snap[u],
         users'[LoginAs[u]] = users[LoginAs[u]] \/ users[LoginAs[u]] = None,
         now' \in Nat, now \in Nat, now' >= now
  PROVE  LoginCurrent(u)'
  <1>1. CASE users'[LoginAs[u]] = users[LoginAs[u]]
    BY <1>1 DEF LoginCurrent
  <1>2. CASE users[LoginAs[u]] = None
    BY <1>2 DEF LoginCurrent, Held
  <1> QED
    BY <1>1, <1>2

\* Steps that leave the accounts alone.
LEMMA CountsStay ==
  ASSUME NEW u \in User, Counts(u), users'[u] = users[u], strikes'[u] = strikes[u]
  PROVE  Counts(u)'
  BY DEF Counts, locked

\* A new account has no failures, and a row that was reset has none either.
LEMMA CleanCounts ==
  ASSUME NEW u \in User, users'[u] = Clean, strikes'[u] = 0
  PROVE  Counts(u)'
  <1>1. Clean # None /\ Clean.failed_attempts = 0 /\ Clean.locked_until = None
    BY AuthAssumption, NoneAssumption DEF Clean, Account
  <1> QED
    BY <1>1, AuthAssumption DEF Counts, locked

LEMMA CreatedCounts ==
  ASSUME NEW u \in User, Counts(u), users[u] = None, users'[u] = Clean, strikes'[u] = strikes[u]
  PROVE  Counts(u)'
  BY CleanCounts DEF Counts

\* What a step does to the login of the thread that takes it, and to its account.
LEMMA OwnLogin ==
  ASSUME IndInv, TypeOK', NEW t \in Thread, LoginAs[t] \in Solo,
         \/ \E v \in User : Register(t, v)
         \/ \E ok \in BOOLEAN : LoginRead(t, ok)
         \/ \E k \in Token, next \in {"work", "revoke"} : Authenticate(t, k, next)
         \/ Step(t)
  PROVE  LoginCurrent(t)' /\ Counts(LoginAs[t])'
  <1>0. PICK a \in User : a = LoginAs[t]
    BY AuthAssumption
  <1> SUFFICES LoginCurrent(t)' /\ Counts(a)'
    BY <1>0
  <1>1. /\ LoginCurrent(t) /\ Held(t) /\ Counts(a)
        /\ pc \in [Thread -> Pc] /\ snap \in [Thread -> Account \cup {None}]
        /\ users \in [User -> Account \cup {None}] /\ strikes \in [User -> Nat]
        /\ now \in Nat
    BY <1>0, AuthAssumption DEF IndInv, TypeOK
  <1>2. ASSUME NEW v \in User, Register(t, v) PROVE LoginCurrent(t)' /\ Counts(a)'
    <2>1. pc'[t] = "idle" /\ strikes' = strikes
      BY <1>1, <1>2 DEF Register, Answer
    <2>2. users'[a] = users[a] \/ (users[a] = None /\ users'[a] = Clean)
      BY <1>1, <1>2 DEF Register
    <2>3. Counts(a)'
      BY <1>1, <2>1, <2>2, CountsStay, CreatedCounts
    <2> QED
      BY <2>1, <2>3 DEF LoginCurrent
  <1>3. CASE users' = users /\ strikes' = strikes /\ pc'[t] \in {"idle", "session", "work", "revoke"}
    BY <1>1, <1>3, CountsStay DEF LoginCurrent
  <1>4. ASSUME NEW ok \in BOOLEAN, LoginRead(t, ok), pc'[t] # "idle" PROVE LoginCurrent(t)' /\ Counts(a)'
    BY <1>0, <1>1, <1>4, CountsStay DEF LoginRead, Goto, Answer, LoginCurrent
  <1>5. CASE LoginLockout(t) /\ pc'[t] # "idle"
    <2>1. users' = users /\ strikes' = strikes /\ snap' = snap /\ pc[t] = "lockout" /\ pc'[t] = "fresh"
          /\ now' = now /\ now >= snap[t].locked_until
      BY <1>1, <1>5 DEF LoginLockout, Goto, Answer, local, expired
    <2>2. snap[t] = users[LoginAs[t]] /\ snap[t].locked_until \in Nat
      BY <1>1, <2>1 DEF LoginCurrent, Held, Account
    <2> QED
      BY <1>1, <2>1, <2>2, CountsStay DEF LoginCurrent
  <1>6. CASE LoginFresh(t) \/ LoginReset(t)
    <2>1. users'[a] = Clean /\ strikes'[a] = 0 /\ pc'[t] \in {"reread", "session"}
      BY <1>0, <1>1, <1>6 DEF LoginFresh, LoginReset, reset_login_failures, Goto
    <2>2. Clean # None /\ Clean.locked_until = None
      BY AuthAssumption, NoneAssumption DEF Clean, Account
    <2> QED
      BY <1>0, <2>1, <2>2, CleanCounts DEF LoginCurrent
  <1>7. CASE LoginReread(t)
    BY <1>0, <1>1, <1>7, CountsStay DEF LoginReread, Goto, LoginCurrent
  <1>8. CASE LoginVerify(t)
    BY <1>0, <1>1, <1>8, CountsStay DEF LoginVerify, Goto, LoginCurrent, local
  <1>9. CASE LoginFail(t)
    <2>1. /\ users[a] # None /\ snap[t] = users[a] /\ users[a].locked_until = None
          /\ users[a] \in Account
      BY <1>0, <1>1, <1>9 DEF LoginFail, LoginCurrent
    <2>2. /\ users[a].failed_attempts \in Nat /\ users[a].failed_attempts = strikes[a]
          /\ users[a].failed_attempts < MaxFailed
      <3>1. ~locked(a)
        BY <2>1 DEF locked
      <3>2. users[a].failed_attempts \in Nat
        BY <2>1 DEF Account
      <3> QED
        BY <1>1, <2>1, <3>1, <3>2, AuthAssumption DEF Counts
    <2>3. pc'[t] = "idle" /\ strikes'[a] = strikes[a] + 1 /\ users'[a] = after_failure(users[a])
      BY <1>0, <1>1, <1>9, <2>1 DEF LoginFail, Answer
    <2>4. users'[a] # None
      BY <1>0, <1>9, <2>1, <2>3, FailureRow, NoneAssumption DEF LoginFail, IndInv
    <2>5. /\ users'[a].failed_attempts = strikes'[a]
          /\ users'[a].locked_until = IF strikes'[a] >= MaxFailed THEN now + Lockout ELSE None
      BY <2>1, <2>2, <2>3 DEF after_failure
    <2>6. now + Lockout # None
      BY <1>1, AuthAssumption
    <2>7. strikes'[a] \in Nat /\ strikes'[a] <= MaxFailed
      BY <2>2, <2>3, AuthAssumption
    <2>8. locked(a)' <=> strikes'[a] = MaxFailed
      BY <2>4, <2>5, <2>6, <2>7, AuthAssumption DEF locked
    <2>9. Counts(a)'
      BY <2>4, <2>5, <2>7, <2>8 DEF Counts
    <2> QED
      BY <2>3, <2>9 DEF LoginCurrent
  <1>10. LoginSession(t) \/ DbFails(t) \/ Work(t) \/ Revoke(t) => pc'[t] = "idle" /\ users' = users /\ strikes' = strikes
    BY <1>1 DEF LoginSession, DbFails, Work, Revoke, Answer
  <1> QED
    BY <1>0, <1>1, <1>2, <1>3, <1>4, <1>5, <1>6, <1>7, <1>8, <1>9, <1>10
       DEF Step, LoginRead, Authenticate, LoginLockout, Goto, Answer

LEMMA NextInd ==
  ASSUME IndInv, [Next]_vars
  PROVE  IndInv'
  <1>1. TypeOK'
    BY NextShapes, NextHeld, TypeParts DEF IndInv, TypeOK, Shapes
  <1>2. now \in Nat /\ now' \in Nat /\ now' >= now
    <2>1. Tick \/ UNCHANGED now
      BY DEF Next, Step, Register, LoginRead, Authenticate, LoginLockout, LoginFresh, LoginReread,
         LoginVerify, LoginFail, LoginReset, LoginSession, Revoke, DbFails, Work, Crash, vars
    <2>2. now \in Nat
      BY AuthAssumption DEF IndInv, TypeOK
    <2> QED
      BY <2>1, <2>2 DEF Tick
  <1>3. CASE Tick \/ Crash \/ UNCHANGED vars
    <2>1. UNCHANGED <<users, strikes>>
      BY <1>3 DEF Tick, Crash, vars
    <2>2. \A u \in Solo : Counts(u)'
      BY <2>1, CountsStay DEF IndInv, Solo
    <2>3. CASE Crash
      BY <1>1, <2>2, <2>3 DEF Crash, LoginCurrent, IndInv
    <2>4. CASE Tick \/ UNCHANGED vars
      BY <1>1, <1>2, <2>1, <2>2, <2>4, Bystander DEF Tick, vars, local, IndInv, TypeOK
    <2> QED
      BY <1>3, <2>3, <2>4
  <1>4. ASSUME NEW t \in Thread,
               \/ \E v \in User : Register(t, v)
               \/ \E ok \in BOOLEAN : LoginRead(t, ok)
               \/ \E k \in Token, next \in {"work", "revoke"} : Authenticate(t, k, next)
               \/ Step(t)
        PROVE  IndInv'
    <2>1. \A u \in Thread \ {t} : pc'[u] = pc[u] /\ snap'[u] = snap[u]
      BY <1>4 DEF Step, Register, LoginRead, Authenticate, LoginLockout, LoginFresh,
         LoginReread, LoginVerify, LoginFail, LoginReset, LoginSession, Revoke, DbFails, Work,
         Goto, Answer, local, IndInv, TypeOK
    <2>2. \A u \in User \ {LoginAs[t]} :
             \/ users'[u] = users[u] /\ strikes'[u] = strikes[u]
             \/ users[u] = None /\ users'[u] = Clean /\ strikes'[u] = strikes[u]
      <3> SUFFICES ASSUME NEW u \in User \ {LoginAs[t]}
                   PROVE  \/ users'[u] = users[u] /\ strikes'[u] = strikes[u]
                          \/ users[u] = None /\ users'[u] = Clean /\ strikes'[u] = strikes[u]
        OBVIOUS
      <3>0. users \in [User -> Account \cup {None}] /\ strikes \in [User -> Nat]
        BY DEF IndInv, TypeOK
      <3>1. CASE \E v \in User : Register(t, v)
        BY <3>0, <3>1 DEF Register
      <3>2. CASE LoginFresh(t) \/ LoginFail(t) \/ LoginReset(t)
        BY <3>0, <3>2 DEF LoginFresh, LoginFail, LoginReset
      <3> QED
        BY <1>4, <3>1, <3>2 DEF Step, LoginRead, Authenticate, LoginLockout, LoginReread, LoginVerify,
           LoginSession, Revoke, DbFails, Work
    <2>3. ASSUME NEW u \in Thread \ {t}, LoginAs[u] \in Solo PROVE LoginCurrent(u)'
      <3>1. LoginAs[u] \in User \ {LoginAs[t]}
        BY <2>3 DEF Solo
      <3>2. LoginCurrent(u) /\ Held(u)
        BY <2>3 DEF IndInv, TypeOK
      <3> QED
        BY <1>2, <2>1, <2>2, <3>1, <3>2, Bystander
    <2>4. \A u \in Solo \ {LoginAs[t]} : Counts(u)'
      <3> SUFFICES ASSUME NEW u \in Solo \ {LoginAs[t]} PROVE Counts(u)'
        OBVIOUS
      <3>0. u \in User \ {LoginAs[t]} /\ Counts(u)
        BY DEF IndInv, Solo
      <3>1. CASE users'[u] = users[u] /\ strikes'[u] = strikes[u]
        BY <3>0, <3>1, CountsStay
      <3>2. CASE users[u] = None /\ users'[u] = Clean /\ strikes'[u] = strikes[u]
        BY <3>0, <3>2, CreatedCounts
      <3> QED
        BY <2>2, <3>0, <3>1, <3>2
    <2>5. LoginAs[t] \in Solo => LoginCurrent(t)' /\ Counts(LoginAs[t])'
      BY <1>1, <1>4, OwnLogin
    <2> QED
      BY <1>1, <2>3, <2>4, <2>5 DEF IndInv
  <1> QED
    BY <1>3, <1>4 DEF Next

\* Logins that race touch no account but their own.
LEMMA IndAlways == Spec => []IndInv
  <1>1. IndInv /\ [Next]_vars => IndInv'
    BY NextInd
  <1> QED
    BY InitInd, <1>1, PTL DEF Spec

\* An account whose counter has as many failures as were answered, and which is
\* locked once these are MaxFailed, and only then.
SoloHonest ==
    \A u \in Solo :
        /\ strikes[u] >= MaxFailed => locked(u)
        /\ users[u] # None =>
              /\ users[u].failed_attempts = strikes[u]
              /\ locked(u) <=> users[u].failed_attempts = MaxFailed

SoloLasts ==
    [][\A u \in Solo : locked(u) /\ now < users[u].locked_until
          => users'[u] = users[u]]_vars

LEMMA IndHonest == ASSUME IndInv PROVE SoloHonest
  <1> SUFFICES ASSUME NEW u \in Solo
               PROVE  /\ strikes[u] >= MaxFailed => locked(u)
                      /\ users[u] # None =>
                            /\ users[u].failed_attempts = strikes[u]
                            /\ locked(u) <=> users[u].failed_attempts = MaxFailed
    BY DEF SoloHonest
  <1>1. Counts(u) /\ strikes[u] \in Nat
    BY DEF IndInv, TypeOK, Solo
  <1>2. strikes[u] >= MaxFailed => users[u] # None
    BY <1>1, AuthAssumption DEF Counts
  <1>3. strikes[u] >= MaxFailed => users[u].failed_attempts = MaxFailed
    BY <1>1, <1>2, AuthAssumption DEF Counts
  <1> QED
    BY <1>1, <1>2, <1>3 DEF Counts

\* A lockout stays as it is until it has run out: LoginFresh resets only a row whose
\* lockout it has seen expire.
LEMMA LockoutStays ==
  ASSUME IndInv, [Next]_vars, NEW u \in Solo, locked(u), now < users[u].locked_until
  PROVE  users'[u] = users[u]
  <1>0. users \in [User -> Account \cup {None}] /\ now \in Nat /\ u \in User
    BY AuthAssumption DEF IndInv, TypeOK, Solo
  <1>1. ASSUME NEW t \in Thread, LoginFresh(t) PROVE users'[u] = users[u]
    <2>1. CASE LoginAs[t] = u
      <3>1. users[u].locked_until \in Nat /\ now >= users[u].locked_until
        BY <1>1, <2>1 DEF LoginFresh, IndInv, LoginCurrent
      <3> QED
        BY <1>0, <3>1
    <2>2. CASE LoginAs[t] # u
      BY <1>0, <1>1, <2>2 DEF LoginFresh
    <2> QED
      BY <2>1, <2>2
  <1>2. ASSUME NEW t \in Thread, LoginFail(t) \/ LoginReset(t) PROVE users'[u] = users[u]
    <2>1. CASE LoginAs[t] = u
      BY <1>2, <2>1 DEF LoginFail, LoginReset, IndInv, LoginCurrent, locked
    <2>2. CASE LoginAs[t] # u
      BY <1>0, <1>2, <2>2 DEF LoginFail, LoginReset
    <2> QED
      BY <2>1, <2>2
  <1>3. ASSUME NEW t \in Thread, NEW v \in User, Register(t, v) PROVE users'[u] = users[u]
    BY <1>0, <1>3 DEF Register, locked
  <1> QED
    BY <1>1, <1>2, <1>3 DEF Next, Step, LoginRead, Authenticate, LoginLockout, LoginReread,
       LoginVerify, LoginSession, Revoke, DbFails, Work, Tick, Crash, vars

\* Whatever logins of other accounts race, an account whose own logins follow each
\* other has an honest counter, is locked at the limit and stays so for the time.
THEOREM SoloIsSafe == Spec => []SoloHonest /\ SoloLasts
  <1>1. IndInv => SoloHonest
    BY IndHonest
  <1>2. IndInv /\ [Next]_vars =>
           [\A u \in Solo : locked(u) /\ now < users[u].locked_until => users'[u] = users[u]]_vars
    BY LockoutStays
  <1> QED
    BY IndAlways, <1>1, <1>2, PTL DEF Spec, SoloLasts

LEMMA AllSolo == ASSUME OneLoginPerAccount PROVE Solo = User
  BY DEF OneLoginPerAccount, Solo

\* With one login per account at a time, an account with MaxFailed failed logins
\* behind it is locked, whatever else the server does meanwhile.
THEOREM LockoutIsEnforced == ASSUME OneLoginPerAccount PROVE Spec => []LockoutEnforced
  <1>1. IndInv => LockoutEnforced
    BY IndHonest, AllSolo DEF SoloHonest, LockoutEnforced
  <1> QED
    BY IndAlways, <1>1, PTL

\* With one login per account at a time, users.failed_attempts is the number of
\* failures answered, and an account is locked exactly when it has reached MaxFailed.
THEOREM CounterIsHonest == ASSUME OneLoginPerAccount PROVE Spec => []CounterHonest
  <1>1. IndInv => CounterHonest
    BY IndHonest, AllSolo DEF IndInv, SoloHonest, CounterHonest
  <1> QED
    BY IndAlways, <1>1, PTL

\* With one login per account at a time, a lockout stays as it is until it has run out.
THEOREM LockoutEndures == ASSUME OneLoginPerAccount PROVE Spec => LockoutLasts
  <1>1. IndInv /\ [Next]_vars =>
           [\A u \in User : locked(u) /\ now < users[u].locked_until => users'[u] = users[u]]_vars
    BY LockoutStays, AllSolo
  <1> QED
    BY IndAlways, <1>1, PTL DEF Spec, LockoutLasts

-----------------------------------------------------------------------------
(* What racing logins leave intact                                         *)

\* A row that is locked has its counter at the limit or above, and the other way
\* round, and no lockout lasts longer than the configured time from now.
RowFits(u) ==
    users[u] # None =>
        /\ locked(u) <=> users[u].failed_attempts >= MaxFailed
        /\ locked(u) => users[u].locked_until <= now + Lockout

LocksFit == \A u \in User : RowFits(u)

\* The rows that login writes fit.
LEMMA WrittenFits ==
  ASSUME TypeOK, NEW u \in User, now' = now,
         \/ users'[u] = Clean
         \/ \E t \in Thread : pc[t] = "fail" /\ users'[u] = after_failure(snap[t])
  PROVE  RowFits(u)'
  <1>0. now \in Nat /\ MaxFailed \in Nat \ {0} /\ Lockout \in Nat /\ now + Lockout # None
    BY AuthAssumption DEF TypeOK
  <1>1. CASE users'[u] = Clean
    BY <1>0, <1>1 DEF Clean, RowFits, locked
  <1>2. ASSUME NEW t \in Thread, pc[t] = "fail", users'[u] = after_failure(snap[t])
        PROVE  RowFits(u)'
    <2>1. snap[t].failed_attempts \in Nat
      BY <1>2 DEF TypeOK, Held, Account
    <2>2. users'[u] # None
      BY <1>2, FailureRow, NoneAssumption
    <2>3. users'[u].failed_attempts = snap[t].failed_attempts + 1
          /\ users'[u].locked_until = IF snap[t].failed_attempts + 1 >= MaxFailed
                                      THEN now + Lockout ELSE None
      BY <1>2 DEF after_failure
    <2> QED
      BY <1>0, <1>2, <2>1, <2>2, <2>3 DEF RowFits, locked
  <1> QED
    BY <1>1, <1>2

\* Without any hypothesis: logins that race may lose failures or count one too many,
\* but they never leave an account locked below the limit or open above it, or
\* locked for longer than Lockout from now.
THEOREM RacesLeaveRowsFit == Spec => []LocksFit
  <1>1. Init => LocksFit
    BY DEF Init, LocksFit, RowFits
  <1>2. ASSUME TypeOK, LocksFit, [Next]_vars, NEW u \in User PROVE RowFits(u)'
    <2>0. /\ users \in [User -> Account \cup {None}] /\ now \in Nat /\ RowFits(u)
          /\ Lockout \in Nat
      BY <1>2, AuthAssumption DEF TypeOK, LocksFit
    <2>1. CASE users'[u] = users[u] /\ now' \in {now, now + 1}
      <3>1. users[u] # None /\ locked(u) => users[u].locked_until \in Nat
        BY <2>0 DEF Account, locked
      <3> QED
        BY <2>0, <2>1, <3>1 DEF RowFits, locked
    <2>2. ASSUME NEW t \in Thread, NEW v \in User, Register(t, v), users'[u] # users[u]
          PROVE  RowFits(u)'
      BY <1>2, <2>0, <2>2, WrittenFits DEF Register
    <2>3. ASSUME NEW t \in Thread, LoginFresh(t) \/ LoginFail(t) \/ LoginReset(t),
                 users'[u] # users[u]
          PROVE  RowFits(u)'
      BY <1>2, <2>0, <2>3, WrittenFits DEF LoginFresh, LoginFail, LoginReset, reset_login_failures
    <2>4. now' \in {now, now + 1}
      BY <1>2 DEF Next, Step, Register, LoginRead, Authenticate, LoginLockout, LoginFresh,
         LoginReread, LoginVerify, LoginFail, LoginReset, LoginSession, Revoke, DbFails, Work,
         Tick, Crash, vars
    <2> QED
      BY <1>2, <2>1, <2>2, <2>3, <2>4 DEF Next, Step, LoginRead, Authenticate, LoginLockout,
         LoginReread, LoginVerify, LoginSession, Revoke, DbFails, Work, Tick, Crash, vars
  <1>3. TypeOK /\ LocksFit /\ [Next]_vars => LocksFit'
    BY <1>2 DEF LocksFit
  <1> QED
    BY TypesAlways, <1>1, <1>3, PTL DEF Spec
=============================================================================
