--------------------------- MODULE StartupProofs ---------------------------
(* Theorems about Startup, for any environments, passphrases and processes. *)
EXTENDS Startup, SchemaInitProofs, FiniteSetTheorems, SequenceTheorems

\* The requests change nothing of what SchemaInit models, and the rest is its steps.
\* Every start that serves requests is one of Database.initialize's.
THEOREM StartupImplementsSchemaInit == StartupSpec => Spec
<1>1. StartupInit => Init
  BY DEF StartupInit
<1>2. [StartupNext]_allVars => [Next]_vars
  BY DEF StartupNext, allVars, Launch, Boot, Ends, VaultInit, VaultUnlock, Register,
         LoginUnknown, Login, Replies, Next
<1>. QED
  BY <1>1, <1>2, PTL DEF StartupSpec, Spec

-----------------------------------------------------------------------------
(* The inductive invariant                                                 *)

\* A process that has been launched has an environment.
EnvInv ==
    /\ env \in [Process -> Environment \cup {None}]
    /\ \A p \in Process : pc[p] # "down" => env[p] \in Environment

\* What is stored carries the parameters it was made with, and Argon2 has computed
\* with them.
StoredInv ==
    /\ config # None =>
          \E w \in Phrase : \E k :
             /\ config = [kdf_parameters |-> k, wrapped_with |-> <<w, k>>]
             /\ argon2_accepts(k) /\ aes_key(k)
    /\ user # None =>
          \E w \in Phrase : \E k :
             user = [parameters |-> k, hash |-> <<w, k>>] /\ argon2_accepts(k)

\* A failed init is the answer of an installation without a vault.
FailedInit == answer # None /\ answer.op = "init" /\ answer.status = 500 => config = None

StartupInv == TypeOK /\ EnvInv /\ StoredInv /\ OldSecretsWork /\ FailedInit

LEMMA StartupInitInd == StartupInit => StartupInv
<1>. SUFFICES ASSUME StartupInit PROVE StartupInv
  OBVIOUS
<1>1. TypeOK
  BY InitInd DEF StartupInit, IndInv
<1>. QED
  BY <1>1 DEF StartupInit, StartupInv, EnvInv, StoredInv, OldSecretsWork, FailedInit, Init

\* A process starts, boots or ends.
LEMMA LifeStep ==
    ASSUME StartupInv, TypeOK', NEW p \in Process,
           (\E e \in Environment : Launch(p, e)) \/ Boot(p) \/ Ends(p)
    PROVE  StartupInv'
<1>1. CASE \E e \in Environment : Launch(p, e)
  BY <1>1 DEF StartupInv, TypeOK, EnvInv, StoredInv, OldSecretsWork, FailedInit,
              Launch, Start, stored
<1>2. CASE Boot(p)
  <2>1. \A q \in Process : pc'[q] # "down" => pc[q] # "down"
    BY <1>2 DEF StartupInv, TypeOK, Boot, Guard, Create, Stamp
  <2>. QED
    BY <1>2, <2>1 DEF StartupInv, EnvInv, StoredInv, OldSecretsWork, FailedInit,
              Boot, stored, expiry_exists
<1>3. CASE Ends(p)
  BY <1>3 DEF StartupInv, TypeOK, EnvInv, StoredInv, OldSecretsWork, FailedInit,
              Ends, Stop, stored
<1>. QED
  BY <1>1, <1>2, <1>3

\* The passphrase a stored vault was made with, and no other, opens it in any process.
LEMMA StoredVaultOpens ==
    ASSUME StoredInv, config # None, NEW p, NEW w, NEW enough \in BOOLEAN
    PROVE  /\ config.wrapped_with[1] \in Phrase
           /\ unlock_status(p, w, enough) = 200 <=> enough /\ w = config.wrapped_with[1]
<1>1. PICK v, k : /\ v \in Phrase /\ config = [kdf_parameters |-> k, wrapped_with |-> <<v, k>>]
                  /\ argon2_accepts(k) /\ aes_key(k)
  BY DEF StoredInv
<1>2. /\ config.kdf_parameters = k /\ config.wrapped_with = <<v, k>>
      /\ config.wrapped_with[1] = v
  BY <1>1
<1>3. unlocks(p, w) <=> w = v
  BY <1>2 DEF unlocks, derive_wrapping_key
<1>4. wraps(config.kdf_parameters, enough) <=> enough
  BY <1>1, <1>2, Zenon DEF wraps, computes
<1>5. ASSUME enough PROVE unlock_status(p, w, enough) = 200 <=> w = v
  <2>1. wraps(config.kdf_parameters, enough)
    BY <1>4, <1>5
  <2>. QED
    BY <2>1, <1>3 DEF unlock_status
<1>6. ASSUME ~enough PROVE unlock_status(p, w, enough) # 200
  <2>1. ~wraps(config.kdf_parameters, enough)
    BY <1>4, <1>6
  <2>. QED
    BY <2>1 DEF unlock_status
<1>7. unlock_status(p, w, enough) = 200 <=> enough /\ w = v
  BY <1>5, <1>6, Zenon
<1>8. config.wrapped_with[1] \in Phrase /\ (w = config.wrapped_with[1] <=> w = v)
  BY <1>1, <1>2
<1>. QED
  BY <1>7, <1>8, Zenon

\* The same of an account.
LEMMA StoredAccountOpens ==
    ASSUME StoredInv, user # None, NEW p, NEW w, NEW enough \in BOOLEAN
    PROVE  /\ user.hash[1] \in Phrase
           /\ verify_password(p, w, enough, user) <=> enough /\ w = user.hash[1]
<1>1. PICK v, k : /\ v \in Phrase /\ user = [parameters |-> k, hash |-> <<v, k>>]
                  /\ argon2_accepts(k)
  BY DEF StoredInv
<1>2. user.parameters = k /\ user.hash = <<v, k>> /\ user.hash[1] = v
  BY <1>1
<1>3. user.hash = <<w, user.parameters>> <=> w = v
  BY <1>2
<1>4. computes(user.parameters, enough) <=> enough
  BY <1>1, <1>2, Zenon DEF computes
<1>5. verify_password(p, w, enough, user) <=> enough /\ w = v
  BY <1>3, <1>4, Zenon DEF verify_password
<1>6. user.hash[1] \in Phrase /\ (w = user.hash[1] <=> w = v)
  BY <1>1, <1>2
<1>. QED
  BY <1>5, <1>6, Zenon

LEMMA RequestStep ==
    ASSUME StartupInv, NEW p \in Process, NEW w \in Phrase, NEW enough \in BOOLEAN,
           \/ VaultInit(p, w, enough) \/ VaultUnlock(p, w, enough)
           \/ Register(p, w, enough)
           \/ LoginUnknown(p, w, enough) \/ Login(p, w, enough)
    PROVE  StartupInv'
<1>0. pc[p] = "serving" /\ UNCHANGED <<vars, env>>
  BY DEF VaultInit, VaultUnlock, Register, LoginUnknown, Login, Replies
<1>1. TypeOK' /\ EnvInv'
  BY <1>0 DEF StartupInv, TypeOK, EnvInv, vars
<1>. USE DEF StoredInv
<1>2. CASE VaultInit(p, w, enough)
  <2>. PICK kdf : kdf = current_parameters(p)
    OBVIOUS
  <2>0. Len(w) \in Nat /\ MIN_LENGTH \in Nat
    BY PhraseAssumption, PassphraseAssumption, LenProperties
  <2>1. /\ init_status(p, w, enough) = 201 => wraps(kdf, enough)
        /\ init_status(p, w, enough) = 500 => config = None
    BY <2>0 DEF init_status
  <2>2. PICK status :
          /\ status = 201 => argon2_accepts(kdf) /\ aes_key(kdf)
          /\ status = 500 => config = None
          /\ answer' = [by |-> p, op |-> "init", said |-> w, enough |-> enough,
                        status |-> status]
          /\ config' = IF status # 201 THEN config
                       ELSE [kdf_parameters |-> kdf, wrapped_with |-> <<w, kdf>>]
          /\ user' = user
    BY <1>2, <2>1 DEF VaultInit, Replies, derive_wrapping_key, wraps, computes
  <2>3. StoredInv'
    <3>1. CASE status = 201
      <4>1. \E v \in Phrase : \E k :
               /\ config' = [kdf_parameters |-> k, wrapped_with |-> <<v, k>>]
               /\ argon2_accepts(k) /\ aes_key(k)
        BY <2>2, <3>1
      <4>2. user' # None =>
               \E v \in Phrase : \E k :
                  user' = [parameters |-> k, hash |-> <<v, k>>] /\ argon2_accepts(k)
        BY <2>2 DEF StartupInv
      <4>. QED
        BY <4>1, <4>2, Zenon DEF argon2_accepts, aes_key
    <3>2. CASE status # 201
      BY <2>2, <3>2 DEF StartupInv, argon2_accepts, aes_key
    <3>. QED
      BY <3>1, <3>2
  <2>4. OldSecretsWork' /\ FailedInit'
    BY <2>2 DEF OldSecretsWork, FailedInit
  <2>. QED
    BY <2>3, <2>4, <1>1 DEF StartupInv
<1>3. CASE VaultUnlock(p, w, enough)
  <2>1. /\ answer' = [by |-> p, op |-> "unlock", said |-> w, enough |-> enough,
                      status |-> unlock_status(p, w, enough)]
        /\ config' = config /\ user' = user
    BY <1>3 DEF VaultUnlock, Replies, stored
  <2>2. StoredInv' /\ FailedInit'
    BY <2>1 DEF StartupInv, FailedInit, argon2_accepts, aes_key
  <2>3. config # None =>
           (unlock_status(p, w, enough) = 200 <=> enough /\ w = config.wrapped_with[1])
    BY StoredVaultOpens DEF StartupInv
  <2>4. OldSecretsWork'
    BY <2>1, <2>3 DEF OldSecretsWork
  <2>. QED
    BY <2>2, <2>4, <1>1 DEF StartupInv
<1>4. CASE Register(p, w, enough)
  <2>. PICK password : password = password_parameters(p)
    OBVIOUS
  <2>1. PICK status :
          /\ status = 201 => argon2_accepts(password)
          /\ answer' = [by |-> p, op |-> "register", said |-> w, enough |-> enough,
                        status |-> status]
          /\ user' = IF status = 201 THEN hash_password(p, w) ELSE user
          /\ config' = config
    BY <1>4 DEF Register, Replies, computes
  <2>2. StoredInv'
    <3>1. CASE status = 201
      <4>1. user' = [parameters |-> password, hash |-> <<w, password>>]
        BY <2>1, <3>1 DEF hash_password
      <4>. QED
        BY <2>1, <3>1, <4>1 DEF StartupInv, argon2_accepts, aes_key
    <3>2. CASE status # 201
      BY <2>1, <3>2 DEF StartupInv, argon2_accepts, aes_key
    <3>. QED
      BY <3>1, <3>2
  <2>3. OldSecretsWork' /\ FailedInit'
    BY <2>1 DEF OldSecretsWork, FailedInit
  <2>. QED
    BY <2>2, <2>3, <1>1 DEF StartupInv
<1>5. CASE LoginUnknown(p, w, enough)
  <2>1. /\ answer'.op = "login" /\ config' = config /\ user' = user /\ user' = None
    BY <1>5 DEF LoginUnknown, Replies, stored
  <2>2. StoredInv'
    BY <2>1 DEF StartupInv, argon2_accepts, aes_key
  <2>3. OldSecretsWork' /\ FailedInit'
    BY <2>1 DEF OldSecretsWork, FailedInit
  <2>. QED
    BY <2>2, <2>3, <1>1 DEF StartupInv
<1>6. CASE Login(p, w, enough)
  <2>1. PICK status :
          /\ status = IF ~verify_password(p, w, enough, user) THEN 401
                      ELSE IF expiry_exists(p) THEN 200 ELSE 500
          /\ answer' = [by |-> p, op |-> "login", said |-> w, enough |-> enough,
                        status |-> status]
          /\ config' = config /\ user' = user
    BY <1>6 DEF Login, Replies, stored
  <2>2. StoredInv' /\ FailedInit'
    BY <2>1 DEF StartupInv, FailedInit, argon2_accepts, aes_key
  <2>3. user # None =>
           (verify_password(p, w, enough, user) <=> enough /\ w = user.hash[1])
    BY StoredAccountOpens DEF StartupInv
  <2>4. expiry_exists(p)' <=> expiry_exists(p)
    BY <1>0 DEF expiry_exists
  <2>5. user # None =>
           (status = 200 <=> enough /\ w = user.hash[1] /\ expiry_exists(p))
    BY <2>1, <2>3
  <2>6. OldSecretsWork'
    BY <2>1, <2>4, <2>5 DEF OldSecretsWork
  <2>. QED
    BY <2>2, <2>6, <1>1 DEF StartupInv
<1>. QED
  BY <1>2, <1>3, <1>4, <1>5, <1>6

LEMMA StartupInductive == StartupSpec => []StartupInv
<1>1. StartupSpec => []TypeOK
  <2>1. IndInv => TypeOK
    BY DEF IndInv
  <2>. QED
    BY <2>1, StartupImplementsSchemaInit, IndAlways, PTL
<1>2. StartupInv /\ TypeOK' /\ [StartupNext]_allVars => StartupInv'
  <2>1. CASE UNCHANGED allVars
    BY <2>1 DEF StartupInv, TypeOK, EnvInv, StoredInv, OldSecretsWork, FailedInit,
                allVars, vars, stored, expiry_exists
  <2>2. CASE StartupNext
    BY <2>2, LifeStep, RequestStep DEF StartupNext
  <2>. QED
    BY <2>1, <2>2
<1>. QED
  BY <1>1, <1>2, StartupInitInd, PTL DEF StartupSpec

-----------------------------------------------------------------------------
(* Theorems                                                                *)

\* kdf.py and security.py: the passphrase that made the vault or the account, and
\* no other, opens it in every process, whatever the cost settings are by then.
THEOREM OldSecretsKeepWorking == StartupSpec => []OldSecretsWork
<1>1. StartupInv => OldSecretsWork
  BY DEF StartupInv
<1>. QED
  BY <1>1, StartupInductive, PTL

\* settings.py has no maxima: whatever failed for it before, an init that fails leaves
\* no vault, and a vault or account that is there opens in every process with memory.
THEOREM FailuresLeaveItOpenable == StartupSpec => []FailuresSpoilNothing
<1>1. StartupInv => FailuresSpoilNothing
  <2>. SUFFICES ASSUME StartupInv PROVE FailuresSpoilNothing
    OBVIOUS
  <2>1. ASSUME NEW p \in Process, config # None
        PROVE  \E w \in Phrase : unlock_status(p, w, TRUE) = 200
    <3>1. PICK w : w = config.wrapped_with[1]
      OBVIOUS
    <3>2. StoredInv
      BY DEF StartupInv
    <3>3. w \in Phrase
      BY <2>1, <3>1, <3>2, StoredVaultOpens
    <3>4. unlock_status(p, w, TRUE) = 200
      <4>1. PICK enough \in BOOLEAN : enough = TRUE
        OBVIOUS
      <4>2. unlock_status(p, w, enough) = 200 <=> enough /\ w = config.wrapped_with[1]
        BY <2>1, <3>2, StoredVaultOpens
      <4>. QED
        BY <4>1, <4>2, <3>1, Zenon
    <3>. QED
      BY <3>3, <3>4, Zenon
  <2>2. ASSUME NEW p \in Process, user # None
        PROVE  \E w \in Phrase : verify_password(p, w, TRUE, user)
    BY <2>2, StoredAccountOpens DEF StartupInv
  <2>. QED
    BY <2>1, <2>2 DEF FailuresSpoilNothing, StartupInv, FailedInit
<1>. QED
  BY <1>1, StartupInductive, PTL

\* Database.initialize under the requests of running servers: they are served over
\* the complete current schema only, the version row says so only when it is true,
\* and an old database is left alone.
THEOREM ServersKeepTheSchema ==
    StartupSpec => []ServesCurrent /\ []StampMeansComplete /\ LegacyUntouched
BY StartupImplementsSchemaInit, ServesComplete, StampComplete, LegacyStays, PTL

-----------------------------------------------------------------------------
(* The passphrase policy.  What passphrase.py counts from left to right is      *)
(* compared with what it means: a recursive definition is reasoned about by the  *)
(* least place at which it would be wrong.                                      *)

\* A set of natural numbers that is not empty has a least one.
LEMMA Least ==
    ASSUME NEW S \in SUBSET Nat, S # {}
    PROVE  \E m \in S : \A n \in S : m <= n
<1>1. PICK x \in S : TRUE
  OBVIOUS
<1>. DEFINE Small == {k \in S : k <= x}
            Below == {0 .. k : k \in Small}
<1>2. IsFiniteSet(0 .. x)
  BY FS_Interval
<1>3. IsWellFoundedOn(StrictSubsetOrdering(0 .. x), SUBSET (0 .. x))
  BY <1>2, FS_StrictSubsetOrderingWellFounded, FS_FiniteSubsetsOfFinite
<1>4. Below # {} /\ Below \subseteq SUBSET (0 .. x)
  <2>1. \A k \in Small : 0 .. k \subseteq 0 .. x
    BY <1>1
  <2>. QED
    BY <2>1, <1>1
<1>. HIDE DEF Below
<1>5. PICK B \in Below : \A C \in Below : <<C, B>> \notin StrictSubsetOrdering(0 .. x)
  BY <1>3, <1>4, WFMin
<1>. USE DEF Below
<1>6. PICK m \in Small : B = 0 .. m
  BY <1>5
<1>7. ASSUME NEW n \in S, n < m PROVE FALSE
  <2>1. n \in Small /\ 0 .. n \in Below
    BY <1>1, <1>7
  <2>2. 0 .. n \subseteq 0 .. m /\ m \in 0 .. m /\ m \notin 0 .. n /\ 0 .. m \subseteq 0 .. x
    BY <1>7
  <2>3. <<0 .. n, B>> \in StrictSubsetOrdering(0 .. x)
    BY <2>2, <1>6 DEF StrictSubsetOrdering
  <2>. QED
    BY <2>1, <2>3, <1>5
<1>8. m \in S /\ m \in Nat
  BY <1>6
<1>9. \A n \in S : n \in Nat /\ ~(n < m)
  BY <1>7
<1>. QED
  BY <1>8, <1>9

-----------------------------------------------------------------------------
\* The counter of _has_long_run after character i, from the one before.
RunStep(w, f, i) ==
    IF i = 1 THEN first_run ELSE IF w[i] = w[i - 1] THEN f[i - 1] + 1 ELSE 1

\* f is that counter for the whole of w.
Counts(f, w, n) == /\ f \in [1 .. n -> Nat]
                   /\ \A i \in 1 .. n : f[i] = RunStep(w, f, i)

\* The recursive definition defines the counter.
LEMMA CounterExists ==
    ASSUME NEW w \in Seq(Char), NEW n \in 0 .. Len(w)
    PROVE  \E f : Counts(f, w, n)
<1>. DEFINE Bad == {k \in 0 .. n : ~\E f : Counts(f, w, k)}
<1>0. n \in Nat
  BY LenProperties
<1>. SUFFICES ASSUME ~\E f : Counts(f, w, n) PROVE FALSE
  OBVIOUS
<1>11. n \in Bad
  BY <1>0
<1>1. Bad \in SUBSET Nat
  OBVIOUS
<1>. HIDE DEF Bad
<1>2. PICK m \in Bad : \A k \in Bad : m <= k
  BY <1>11, <1>1, Least
<1>. USE DEF Bad
<1>3. m # 0
  <2>. DEFINE e == [i \in 1 .. 0 |-> 0]
  <2>1. e \in [1 .. 0 -> Nat] /\ \A i \in 1 .. 0 : e[i] = RunStep(w, e, i)
    OBVIOUS
  <2>2. Counts(e, w, 0)
    BY <2>1 DEF Counts
  <2>. QED
    BY <2>2
<1>4. m - 1 \in 0 .. n /\ m - 1 \notin Bad
  BY <1>2, <1>3
<1>5. PICK f : Counts(f, w, m - 1)
  BY <1>4
<1>. DEFINE g == [i \in 1 .. m |-> IF i < m THEN f[i] ELSE RunStep(w, f, i)]
<1>6. f \in [1 .. m - 1 -> Nat] /\ \A i \in 1 .. m - 1 : f[i] = RunStep(w, f, i)
  BY <1>5 DEF Counts
<1>7. RunStep(w, f, m) \in Nat
  BY <1>3, <1>6 DEF RunStep, first_run
<1>8. g \in [1 .. m -> Nat]
  BY <1>6, <1>7
<1>9. ASSUME NEW i \in 1 .. m PROVE g[i] = RunStep(w, f, i) /\ RunStep(w, g, i) = RunStep(w, f, i)
  <2>1. g[i] = RunStep(w, f, i)
    BY <1>6
  <2>2. i # 1 => g[i - 1] = f[i - 1]
    OBVIOUS
  <2>. HIDE DEF g
  <2>. QED
    BY <2>1, <2>2 DEF RunStep
<1>10. Counts(g, w, m)
  BY <1>8, <1>9 DEF Counts
<1>. QED
  BY <1>10

\* has_long_run, with the counter by name.
LEMMA LongRun ==
    ASSUME NEW w \in Seq(Char)
    PROVE  \E f : /\ Counts(f, w, Len(w))
                  /\ has_long_run(w) <=> \E i \in 2 .. Len(w) : f[i] >= MAX_REPEATED_RUN
<1>1. PICK f : Counts(f, w, Len(w))
  BY CounterExists, LenProperties
<1>. DEFINE Run(run) == [i \in 1 .. Len(w) |->
                           IF i = 1 THEN first_run
                           ELSE IF w[i] = w[i - 1] THEN run[i - 1] + 1 ELSE 1]
            r == CHOOSE run : run = Run(run)
<1>2. f = Run(f)
  BY <1>1 DEF Counts, RunStep
<1>3. r = Run(r)
  BY <1>2
<1>4. \A i \in 1 .. Len(w) : r[i] = f[i]
  <2>. DEFINE Bad == {i \in 1 .. Len(w) : r[i] # f[i]}
  <2>. SUFFICES ASSUME Bad # {} PROVE FALSE
    OBVIOUS
  <2>1. Bad \in SUBSET Nat
    OBVIOUS
  <2>. HIDE DEF Bad, r
  <2>2. PICK m \in Bad : \A k \in Bad : m <= k
    BY <2>1, Least
  <2>. USE DEF Bad
  <2>3. m \in 1 .. Len(w) /\ Len(w) \in Nat
    BY LenProperties
  <2>4. m # 1 => r[m - 1] = f[m - 1]
    BY <2>2, <2>3
  <2>5. r[m] = Run(r)[m] /\ f[m] = Run(f)[m]
    BY <1>2, <1>3
  <2>6. r[m] = IF m = 1 THEN first_run ELSE IF w[m] = w[m - 1] THEN r[m - 1] + 1 ELSE 1
    BY <2>3, <2>5
  <2>7. f[m] = IF m = 1 THEN first_run ELSE IF w[m] = w[m - 1] THEN f[m - 1] + 1 ELSE 1
    BY <2>3, <2>5
  <2>. QED
    BY <2>4, <2>6, <2>7
<1>5. has_long_run(w) <=> \E i \in 2 .. Len(w) : r[i] >= MAX_REPEATED_RUN
  BY DEF has_long_run
<1>. HIDE DEF r
<1>6. has_long_run(w) <=> \E i \in 2 .. Len(w) : f[i] >= MAX_REPEATED_RUN
  BY <1>4, <1>5, LenProperties
<1>. QED
  BY <1>1, <1>6

-----------------------------------------------------------------------------
\* The counter reaches n exactly where n equal characters end.
LEMMA CountsRuns ==
    ASSUME NEW w \in Seq(Char), NEW f, Counts(f, w, Len(w)), NEW i \in 1 .. Len(w), NEW n \in Nat \ {0}
    PROVE  f[i] >= n <=> n <= i /\ \A j \in i - n + 1 .. i : w[j] = w[i]
<1>0. PICK L \in Nat : L = Len(w)
  BY LenProperties
<1>. DEFINE Same(k) == /\ f[k] \in 1 .. k
                       /\ \A j \in 1 .. k : k - f[k] + 1 <= j => w[j] = w[k]
                       /\ f[k] < k => w[k - f[k]] # w[k]
            Bad == {k \in 1 .. L : ~Same(k)}
<1>1. Bad = {}
  <2>. SUFFICES ASSUME Bad # {} PROVE FALSE
    OBVIOUS
  <2>1. Bad \in SUBSET Nat
    OBVIOUS
  <2>. HIDE DEF Bad
  <2>2. PICK m \in Bad : \A k \in Bad : m <= k
    BY <2>1, Least
  <2>. USE DEF Bad
  <2>3. m \in 1 .. L /\ ~Same(m)
    OBVIOUS
  <2>4. f[m] = RunStep(w, f, m)
    BY <1>0, <2>3 DEF Counts
  <2>5. CASE m = 1
    BY <2>3, <2>4, <2>5 DEF RunStep, first_run
  <2>6. CASE m # 1 /\ w[m] # w[m - 1]
    <3>1. f[m] = 1
      BY <2>4, <2>6 DEF RunStep
    <3>. QED
      BY <3>1, <2>3, <2>6
  <2>7. CASE m # 1 /\ w[m] = w[m - 1]
    <3>1. f[m] = f[m - 1] + 1
      BY <2>4, <2>7 DEF RunStep
    <3>2. m - 1 \in 1 .. L /\ Same(m - 1)
      BY <2>2, <2>3, <2>7
    <3>3. f[m - 1] \in 1 .. m - 1
      BY <3>2
    <3>4. \A j \in 1 .. m - 1 : m - 1 - f[m - 1] + 1 <= j => w[j] = w[m - 1]
      BY <3>2
    <3>5. f[m - 1] < m - 1 => w[m - 1 - f[m - 1]] # w[m - 1]
      BY <3>2, <3>3
    <3>. PICK a, b : a = f[m] /\ b = f[m - 1]
      OBVIOUS
    <3>6. a = b + 1 /\ b \in 1 .. m - 1 /\ a \in 1 .. m /\ m - a = m - 1 - b
      BY <3>1, <3>3, <2>3
    <3>7. \A j \in 1 .. m : m - a + 1 <= j => w[j] = w[m]
      <4>. SUFFICES ASSUME NEW j \in 1 .. m, m - a + 1 <= j PROVE w[j] = w[m]
        OBVIOUS
      <4>1. CASE j = m
        BY <4>1
      <4>2. CASE j # m
        <5>1. j \in 1 .. m - 1 /\ m - 1 - b + 1 <= j
          BY <4>2, <3>6, <2>3
        <5>. QED
          BY <5>1, <3>4, <2>7
      <4>. QED
        BY <4>1, <4>2
    <3>8. a < m => w[m - a] # w[m]
      BY <3>5, <3>6, <2>3, <2>7
    <3>9. Same(m)
      BY <3>6, <3>7, <3>8
    <3>. HIDE DEF Same
    <3>. QED
      BY <2>3, <3>9
  <2>. QED
    BY <2>5, <2>6, <2>7
<1>. PICK c : c = f[i]
  OBVIOUS
<1>2. /\ c \in 1 .. i
      /\ \A j \in 1 .. i : i - c + 1 <= j => w[j] = w[i]
      /\ c < i => w[i - c] # w[i]
  BY <1>0, <1>1
<1>. QED
  BY <1>0, <1>2

\* The policy's rule about repetitions.
LEMMA LongRunIs ==
    ASSUME NEW w \in Seq(Char)
    PROVE  has_long_run(w) <=>
              \E i \in DOMAIN w :
                /\ i + MAX_REPEATED_RUN - 1 <= Len(w)
                /\ \A j \in i .. i + MAX_REPEATED_RUN - 1 : w[j] = w[i]
<1>1. PICK f : /\ Counts(f, w, Len(w))
               /\ has_long_run(w) <=> \E i \in 2 .. Len(w) : f[i] >= MAX_REPEATED_RUN
  BY LongRun
<1>. PICK L, M : L = Len(w) /\ M = MAX_REPEATED_RUN
  OBVIOUS
<1>2. L \in Nat /\ M \in Nat \ {0, 1} /\ DOMAIN w = 1 .. L
  BY LenProperties, PassphraseAssumption
<1>3. \A i \in 1 .. L : f[i] >= M <=> M <= i /\ \A j \in i - M + 1 .. i : w[j] = w[i]
  BY <1>1, <1>2, CountsRuns
<1>4. ASSUME NEW i \in 2 .. L, f[i] >= M
      PROVE  \E s \in 1 .. L : s + M - 1 <= L /\ \A j \in s .. s + M - 1 : w[j] = w[s]
  <2>1. M <= i /\ \A j \in i - M + 1 .. i : w[j] = w[i]
    BY <1>2, <1>3, <1>4
  <2>2. PICK s : s = i - M + 1
    OBVIOUS
  <2>3. s \in 1 .. L /\ s + M - 1 = i /\ s <= i
    BY <2>1, <2>2, <1>2
  <2>4. w[s] = w[i]
    BY <2>1, <2>2, <2>3
  <2>. QED
    BY <2>1, <2>2, <2>3, <2>4
<1>5. ASSUME NEW s \in 1 .. L, s + M - 1 <= L, \A j \in s .. s + M - 1 : w[j] = w[s]
      PROVE  \E i \in 2 .. L : f[i] >= M
  <2>1. PICK i : i = s + M - 1
    OBVIOUS
  <2>2. i \in 2 .. L /\ M <= i /\ i - M + 1 = s
    BY <2>1, <1>2, <1>5
  <2>3. w[i] = w[s]
    BY <2>1, <2>2, <1>2, <1>5
  <2>4. \A j \in i - M + 1 .. i : w[j] = w[i]
    BY <2>1, <2>2, <2>3, <1>5
  <2>. QED
    BY <2>2, <2>4, <1>2, <1>3
<1>. QED
  BY <1>1, <1>2, <1>4, <1>5

\* A finite set has subsets of every smaller size.
LEMMA SubsetOfSize ==
    ASSUME NEW S, IsFiniteSet(S), NEW n \in Nat, n <= Cardinality(S)
    PROVE  \E T \in SUBSET S : Cardinality(T) = n
<1>. DEFINE Sizes == {k \in Nat : k >= n /\ \E T \in SUBSET S : Cardinality(T) = k}
<1>1. Cardinality(S) \in Sizes
  BY FS_CardinalityType
<1>2. Sizes \in SUBSET Nat
  OBVIOUS
<1>. HIDE DEF Sizes
<1>3. PICK m \in Sizes : \A k \in Sizes : m <= k
  BY <1>1, <1>2, Least
<1>. USE DEF Sizes
<1>4. PICK T \in SUBSET S : Cardinality(T) = m
  BY <1>3
<1>5. IsFiniteSet(T)
  BY FS_Subset
<1>6. ASSUME m > n PROVE FALSE
  <2>1. T # {}
    BY <1>4, <1>6, FS_EmptySet
  <2>2. PICK x \in T : TRUE
    BY <2>1
  <2>3. Cardinality(T \ {x}) = m - 1
    BY <1>4, <1>5, FS_RemoveElement
  <2>4. m - 1 \in Sizes
    BY <2>3, <1>6
  <2>. QED
    BY <2>4, <1>3, <1>6
<1>. QED
  BY <1>4, <1>6

\* The policy's rule about character classes.
LEMMA EnoughClasses ==
    ASSUME NEW w \in Seq(Char)
    PROVE  ~(Cardinality(classes(w)) < MIN_CHARACTER_CLASSES) <=>
              \E good \in SUBSET ClassPattern :
                 /\ Cardinality(good) = MIN_CHARACTER_CLASSES
                 /\ \A class \in good : class \cap ToSet(w) # {}
<1>1. \A class \in ClassPattern : class \in classes(w) <=> class \cap ToSet(w) # {}
  BY DEF classes, ToSet
<1>2. classes(w) \subseteq ClassPattern
  BY DEF classes
<1>3. IsFiniteSet(classes(w)) /\ Cardinality(classes(w)) \in Nat
  BY <1>2, PassphraseAssumption, FS_Subset, FS_CardinalityType
<1>4. MIN_CHARACTER_CLASSES \in Nat
  BY PassphraseAssumption
<1>5. ASSUME MIN_CHARACTER_CLASSES <= Cardinality(classes(w))
      PROVE  \E good \in SUBSET classes(w) : Cardinality(good) = MIN_CHARACTER_CLASSES
  BY <1>3, <1>4, <1>5, SubsetOfSize
<1>6. ASSUME NEW good \in SUBSET classes(w)
      PROVE  Cardinality(good) <= Cardinality(classes(w))
  BY <1>3, FS_Subset
<1>7. \A good \in SUBSET ClassPattern :
        (\A class \in good : class \cap ToSet(w) # {}) <=> good \in SUBSET classes(w)
  BY <1>1
<1>. QED
  BY <1>2, <1>3, <1>4, <1>5, <1>6, <1>7

\* The policy's rule about common words.
LEMMA ContainsIs ==
    ASSUME NEW w \in Seq(Char), NEW bad \in FORBIDDEN_SUBSTRINGS
    PROVE  contains(lowered(w), bad) <=>
              \E before \in 0 .. Len(w) : \E i \in before + 1 .. Len(w) :
                 [k \in 1 .. i - before |-> Lower[w[before + k]]] = bad
<1>. PICK L, n, low : L = Len(w) /\ n = Len(bad) /\ low = lowered(w)
  OBVIOUS
<1>1. L \in Nat /\ DOMAIN w = 1 .. L /\ \A i \in 1 .. L : w[i] \in Char
  BY LenProperties, ElementOfSeq
<1>2. bad \in Seq(Char) /\ n \in Nat /\ n # 0
  BY PassphraseAssumption, LenProperties, EmptySeq
<1>3. /\ low \in Seq(Char) /\ Len(low) = L
      /\ \A i \in 1 .. L : low[i] = Lower[w[i]]
  <2>1. low = [i \in 1 .. L |-> Lower[w[i]]]
    BY <1>1 DEF lowered
  <2>2. low \in [1 .. L -> Char]
    BY <2>1, <1>1, PassphraseAssumption
  <2>. QED
    BY <2>1, <2>2, <1>1
<1>4. ASSUME NEW b \in 0 .. L, NEW m \in Nat \ {0}, b + m <= L
      PROVE  SubSeq(low, b + 1, b + m) = [k \in 1 .. m |-> Lower[w[b + k]]]
  <2>1. SubSeq(low, b + 1, b + m) = [k \in 1 .. m |-> low[b + k]]
    BY <1>3, <1>4
  <2>2. \A k \in 1 .. m : low[b + k] = Lower[w[b + k]]
    BY <1>3, <1>4
  <2>. QED
    BY <2>1, <2>2
<1>5. contains(low, bad) <=> \E b \in 0 .. L - n : SubSeq(low, b + 1, b + n) = bad
  BY <1>3 DEF contains
<1>6. ASSUME NEW b \in 0 .. L - n, SubSeq(low, b + 1, b + n) = bad
      PROVE  \E before \in 0 .. L : \E i \in before + 1 .. L :
                [k \in 1 .. i - before |-> Lower[w[before + k]]] = bad
  <2>1. PICK i : i = b + n
    OBVIOUS
  <2>2. b \in 0 .. L /\ i \in b + 1 .. L /\ i - b = n /\ n \in Nat \ {0} /\ b + n <= L
    BY <2>1, <1>1, <1>2
  <2>3. [k \in 1 .. n |-> Lower[w[b + k]]] = bad
    BY <2>2, <1>4, <1>6
  <2>. QED
    BY <2>2, <2>3
<1>7. ASSUME NEW b \in 0 .. L, NEW i \in b + 1 .. L,
             [k \in 1 .. i - b |-> Lower[w[b + k]]] = bad
      PROVE  \E before \in 0 .. L - n : SubSeq(low, before + 1, before + n) = bad
  <2>1. PICK m : m = i - b
    OBVIOUS
  <2>2. m \in Nat \ {0} /\ b + m <= L
    BY <2>1, <1>1
  <2>3. n = m
    <3>1. DOMAIN bad = 1 .. m
      BY <1>7, <2>1
    <3>2. DOMAIN bad = 1 .. n
      BY <1>2, LenProperties
    <3>3. n \in 1 .. n /\ m \in 1 .. m
      BY <1>2, <2>2
    <3>. QED
      BY <3>1, <3>2, <3>3, <1>2, <2>2
  <2>4. SubSeq(low, b + 1, b + n) = bad
    BY <2>1, <2>2, <2>3, <1>4, <1>7
  <2>5. b \in 0 .. L - n
    BY <2>2, <2>3, <1>1
  <2>. QED
    BY <2>4, <2>5
<1>. QED
  BY <1>5, <1>6, <1>7

\* passphrase.py: evaluate accepts what its messages allow, for words of any length.
THEOREM PolicyIs ==
    ASSUME NEW w \in Seq(Char)
    PROVE  is_strong(w) <=> Strong(w)
<1>1. Len(w) \in Nat /\ DOMAIN w = 1 .. Len(w)
  BY LenProperties
<1>2. MIN_LENGTH \in Nat \ {0}
  BY PassphraseAssumption
<1>3. is_strong(w) <=> /\ ~(Len(w) < MIN_LENGTH)
                       /\ ~padded(w)
                       /\ ~(Cardinality(classes(w)) < MIN_CHARACTER_CLASSES)
                       /\ ~has_long_run(w)
                       /\ \A bad \in FORBIDDEN_SUBSTRINGS : ~contains(lowered(w), bad)
  BY DEF is_strong, evaluate
<1>4. Len(w) >= MIN_LENGTH =>
        (~padded(w) <=> \A i \in DOMAIN w : w[i] \in Space => i \notin {1, Len(w)})
  BY <1>1, <1>2 DEF padded
<1>5. \A before \in 0 .. Len(w), bad \in FORBIDDEN_SUBSTRINGS :
        (\E i \in before + 1 .. Len(w) :
           [k \in 1 .. i - before |-> Lower[w[before + k]]] = bad)
        => contains(lowered(w), bad)
  BY ContainsIs
<1>6. \A bad \in FORBIDDEN_SUBSTRINGS :
        contains(lowered(w), bad) =>
           \E before \in 0 .. Len(w) : \E i \in before + 1 .. Len(w) :
              [k \in 1 .. i - before |-> Lower[w[before + k]]] = bad
  BY ContainsIs
<1>7. ~(Len(w) < MIN_LENGTH) <=> Len(w) >= MIN_LENGTH
  BY <1>1, <1>2
<1>. QED
  BY <1>3, <1>4, <1>5, <1>6, <1>7, LongRunIs, EnoughClasses, Zenon DEF Strong

\* passphrase.py: the two rulings agree on every word up to any bound.
LEMMA AcceptsStrongIs == AcceptsStrong
<1>1. BoundedSeq(Char, MaxWord) \subseteq Seq(Char)
  BY DEF BoundedSeq, SeqOf
<1>. QED
  BY <1>1, PolicyIs DEF AcceptsStrong

\* What the answer to a request says of its passphrase.
LEMMA RequestJudges ==
    ASSUME NEW p \in Process, NEW w \in Phrase, NEW enough \in BOOLEAN,
           \/ VaultInit(p, w, enough) \/ VaultUnlock(p, w, enough)
           \/ Register(p, w, enough)
           \/ LoginUnknown(p, w, enough) \/ Login(p, w, enough)
    PROVE  PolicyExact'
<1>1. w \in Seq(Char) /\ Len(w) \in Nat
  BY PhraseAssumption, LenProperties
<1>2. is_strong(w) <=> Strong(w)
  BY <1>1, PolicyIs
<1>3. MIN_LENGTH \in Nat /\ (Len(w) < MIN_LENGTH => ~is_strong(w))
  BY PassphraseAssumption DEF is_strong, evaluate
<1>4. Strong(w)' <=> Strong(w)
  BY DEF Strong
<1>5. AcceptsStrong'
  BY AcceptsStrongIs
<1>6. CASE VaultInit(p, w, enough)
  <2>1. answer' = [by |-> p, op |-> "init", said |-> w, enough |-> enough,
                   status |-> init_status(p, w, enough)]
    BY <1>6 DEF VaultInit, Replies
  <2>2. /\ init_status(p, w, enough) = 201 => is_strong(w)
        /\ init_status(p, w, enough) \in {400, 422} => ~is_strong(w)
    BY <1>1, <1>3 DEF init_status
  <2>. QED
    BY <2>1, <2>2, <1>2, <1>4, <1>5 DEF PolicyExact
<1>7. CASE Register(p, w, enough)
  <2>1. \E status : /\ answer' = [by |-> p, op |-> "register", said |-> w,
                                 enough |-> enough, status |-> status]
                    /\ status = 201 => is_strong(w)
                    /\ status \in {400, 422} => ~is_strong(w)
    BY <1>7 DEF Register, Replies
  <2>. QED
    BY <2>1, <1>2, <1>4, <1>5 DEF PolicyExact
<1>8. CASE \/ VaultUnlock(p, w, enough)
          \/ LoginUnknown(p, w, enough) \/ Login(p, w, enough)
  <2>1. answer'.op \in {"unlock", "login"}
    BY <1>8 DEF VaultUnlock, LoginUnknown, Login, Replies
  <2>. QED
    BY <2>1 DEF PolicyExact
<1>. QED
  BY <1>6, <1>7, <1>8

\* A vault or an account is made only with a passphrase that the messages of
\* passphrase.py allow, and only one they forbid is refused as weak, whatever its
\* length and the alphabet.
THEOREM PolicyIsExact == StartupSpec => []PolicyExact
<1>1. StartupInit => PolicyExact
  BY DEF StartupInit, PolicyExact
<1>2. PolicyExact /\ [StartupNext]_allVars => PolicyExact'
  <2>. SUFFICES ASSUME PolicyExact, [StartupNext]_allVars PROVE PolicyExact'
    OBVIOUS
  <2>1. CASE answer' = answer
    <3>1. AcceptsStrong'
      BY AcceptsStrongIs
    <3>. QED
      BY <2>1, <3>1 DEF PolicyExact
  <2>2. CASE answer' = None
    BY <2>2 DEF PolicyExact
  <2>3. ASSUME NEW p \in Process, NEW w \in Phrase, NEW enough \in BOOLEAN,
               \/ VaultInit(p, w, enough) \/ VaultUnlock(p, w, enough)
               \/ Register(p, w, enough)
               \/ LoginUnknown(p, w, enough) \/ Login(p, w, enough)
        PROVE  PolicyExact'
    BY <2>3, RequestJudges
  <2>. QED
    BY <2>1, <2>2, <2>3 DEF StartupNext, allVars, Launch, Boot, Ends
<1>. QED
  BY <1>1, <1>2, PTL DEF StartupSpec
=============================================================================
