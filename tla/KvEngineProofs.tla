--------------------------- MODULE KvEngineProofs ---------------------------
(***************************************************************************)
(* The safety of KvEngine, and that it implements KvStore, for any sets of *)
(* requests, users, paths and values and any bounds.                       *)
(***************************************************************************)
EXTENDS KvEngine, Sequences, TLAPS

-----------------------------------------------------------------------------
(* The inductive invariant                                                 *)

\* What is stored opens with the DEK and the associated data that read computes.
StoredOpens == \A p \in Path : \A v \in VersionsOf(p) :
    v.blob.key = Dek /\ v.blob.aad = <<PathOwner[p], p, v.version>>

\* AUTOINCREMENT is ahead of every id in use.
IdsBelow == \A p \in Path : kv_records[p] # None => kv_records[p].id < next_id

TableInv == VersionsNumbered /\ IdsDistinct /\ NoOrphans /\ StoredOpens /\ IdsBelow

\* Where request t is says what it holds.
Holds(t) ==
    /\ pc[t] = "idle" <=> req[t] = None
    /\ pc[t] # "idle" => req[t] \in Request
    /\ pc[t] \notin {"idle", "deny"} => PathOwner[req[t].path] = req[t].user
    /\ pc[t] \in {"get_dek", "begin", "allocate", "commit"} => req[t].op = "write"
    /\ pc[t] \in {"begin", "allocate", "commit"} => key[t] = Dek
    /\ pc[t] = "select" => req[t].op \in {"read", "versions"}
    /\ pc[t] = "decrypt" => req[t].op = "read"
    /\ pc[t] = "delete" => req[t].op = "delete"

\* From BEGIN IMMEDIATE to COMMIT it is the writer, and so the row it allocated
\* is still the next one.
Allocated(t) ==
    /\ pc[t] \in {"allocate", "commit"} <=> writer = t
    /\ pc[t] = "commit" => row[t] \in Record /\ row[t] = next_row(req[t].path)

\* What it has read opens as what is stored does.
FetchedOpens(t) == pc[t] = "decrypt" =>
    /\ row[t] \in Fetched
    /\ row[t].blob.key = Dek
    /\ row[t].blob.aad = <<req[t].user, req[t].path, row[t].version>>

\* A response on its way is one of the outcomes KvStore knows, and none is a
\* report of tampering.
Answers(t) ==
    /\ out[t] # Error("TAMPER_DETECTED")
    /\ pc[t] = "reply" =>
          /\ out[t] # None
          /\ out[t].result \in {"ok", "written", "history", "deleted", "NOT_FOUND"}

RequestInv(t) == Holds(t) /\ Allocated(t) /\ FetchedOpens(t) /\ Answers(t)

IndInv == TypeOK /\ TableInv /\ \A t \in Thread : RequestInv(t)

-----------------------------------------------------------------------------
(* Facts about rows and requests                                           *)

\* The fields a request has.
LEMMA RequestFields ==
  ASSUME NEW r \in Request
  PROVE  /\ r.op \in {"write", "read", "versions", "delete"}
         /\ r.user \in User /\ r.path \in Path
         /\ r.op = "write" => r.data \in Data
         /\ r.op = "read" => r.version \in 0 .. MaxVersion
  BY DEF Request

\* Who leaves the tables alone keeps what holds of them.
LEMMA TablesStay ==
  ASSUME TableInv, UNCHANGED tables
  PROVE  TableInv'
  BY DEF TableInv, VersionsNumbered, IdsDistinct, NoOrphans, StoredOpens, IdsBelow,
     VersionsOf, tables

\* A request is not disturbed by a step of another one, which may change the
\* tables only if it is not waiting for its own COMMIT.
LEMMA Bystander ==
  ASSUME NEW u \in Thread, RequestInv(u),
         pc'[u] = pc[u], req'[u] = req[u], key'[u] = key[u], row'[u] = row[u],
         out'[u] = out[u],
         writer = u <=> writer' = u,
         writer = u => UNCHANGED tables
  PROVE  RequestInv(u)'
  BY DEF RequestInv, Holds, Allocated, FetchedOpens, Answers, next_row, tables

\* Nothing is in progress and nothing stored.
LEMMA InitInd == Init => IndInv
  <1> SUFFICES ASSUME Init PROVE IndInv
    OBVIOUS
  <1>1. TypeOK
    BY KvAssumption DEF Init, TypeOK, Pc
  <1>2. TableInv
    BY DEF Init, TableInv, VersionsNumbered, IdsDistinct, NoOrphans, StoredOpens,
       IdsBelow, VersionsOf
  <1>3. \A t \in Thread : RequestInv(t)
    BY KvAssumption, NoneAssumption DEF Init, RequestInv, Holds, Allocated, FetchedOpens,
       Answers, Error, Out
  <1> QED
    BY <1>1, <1>2, <1>3 DEF IndInv

\* The actions that neither read nor write a table keep the types.
LEMMA PlainTypes ==
  ASSUME IndInv, NEW t \in Thread,
         \/ \E r \in Request : Start(t, r)
         \/ Deny(t) \/ RequireUnlocked(t) \/ GetDek(t) \/ Begin(t) \/ DbFails(t) \/ Reply(t)
  PROVE  TypeOK'
  <1> USE KvAssumption DEF IndInv, TypeOK, Pc, Database, Goto, Raise, Error, tables, RequestInv, Holds
  <1>1. ASSUME NEW r \in Request, Start(t, r) PROVE TypeOK'
    BY <1>1 DEF Start
  <1>2. CASE Deny(t)
    BY <1>2, RequestFields DEF Deny, Out
  <1>3. CASE RequireUnlocked(t)
    <2>1. CASE Raise(t, "VAULT_LOCKED")
      BY <1>3, <2>1 DEF RequireUnlocked, Out
    <2>2. CASE ~Raise(t, "VAULT_LOCKED")
      BY <1>3, <2>2 DEF RequireUnlocked
    <2> QED
      BY <2>1, <2>2
  <1>4. CASE GetDek(t)
    BY <1>4 DEF GetDek, Out, is_unlocked
  <1>5. CASE Begin(t)
    BY <1>5 DEF Begin
  <1>6. CASE DbFails(t)
    BY <1>6 DEF DbFails, rolled_back, failure, Out
  <1>7. CASE Reply(t)
    BY <1>7 DEF Reply
  <1> QED
    BY <1>1, <1>2, <1>3, <1>4, <1>5, <1>6, <1>7

LEMMA PlainInd ==
  ASSUME IndInv, NEW t \in Thread,
         \/ \E r \in Request : Start(t, r)
         \/ Deny(t) \/ RequireUnlocked(t) \/ GetDek(t) \/ Begin(t) \/ DbFails(t) \/ Reply(t)
  PROVE  IndInv'
  <1>1. TypeOK' /\ UNCHANGED tables
    BY PlainTypes DEF Start, Deny, RequireUnlocked, GetDek, Begin, DbFails, Reply
  <1>2. TableInv'
    BY <1>1, TablesStay DEF IndInv
  <1>3. ASSUME NEW u \in Thread, u # t PROVE RequestInv(u)'
    <2>1. /\ pc'[u] = pc[u] /\ req'[u] = req[u] /\ key'[u] = key[u] /\ row'[u] = row[u]
          /\ out'[u] = out[u]
      BY <1>3 DEF IndInv, TypeOK, Start, Deny, RequireUnlocked, GetDek, Begin, DbFails, Reply,
         Goto, Raise
    <2>2. writer = u <=> writer' = u
      BY <1>3, KvAssumption DEF IndInv, TypeOK, Start, Deny, RequireUnlocked, GetDek, Begin,
         DbFails, Reply, rolled_back
    <2> QED
      BY <1>1, <2>1, <2>2, Bystander DEF IndInv
  <1>4. RequestInv(t)'
    <2> USE KvAssumption, NoneAssumption, RequestFields DEF IndInv, TypeOK, RequestInv, Holds,
          Allocated, FetchedOpens, Answers, Goto, Raise, Error, Out
    <2>1. ASSUME NEW r \in Request, Start(t, r) PROVE RequestInv(t)'
      BY <2>1 DEF Start, authorized
    <2>2. CASE Deny(t)
      BY <2>2 DEF Deny
    <2>3. CASE RequireUnlocked(t)
      BY <2>3 DEF RequireUnlocked
    <2>4. CASE GetDek(t)
      BY <2>4 DEF GetDek, is_unlocked
    <2>5. CASE Begin(t)
      BY <2>5 DEF Begin
    <2>6. CASE DbFails(t)
      BY <2>6 DEF DbFails, rolled_back, failure
    <2>7. CASE Reply(t)
      BY <2>7 DEF Reply
    <2> QED
      BY <2>1, <2>2, <2>3, <2>4, <2>5, <2>6, <2>7
  <1> QED
    BY <1>1, <1>2, <1>3, <1>4 DEF IndInv

\* SELECTs and decryption: what is found is stored, hence opens.
LEMMA ReadInd ==
  ASSUME IndInv, NEW t \in Thread,
         Allocate(t) \/ SelectVersion(t) \/ Decrypt(t) \/ SelectHistory(t)
  PROVE  IndInv'
  <1>0. UNCHANGED tables /\ UNCHANGED <<dek, writer, denials>>
    BY DEF Allocate, SelectVersion, Decrypt, SelectHistory
  <1>1. TableInv'
    BY <1>0, TablesStay DEF IndInv
  <1>2. ASSUME NEW u \in Thread, u # t PROVE RequestInv(u)'
    <2>1. /\ pc'[u] = pc[u] /\ req'[u] = req[u] /\ key'[u] = key[u] /\ row'[u] = row[u]
          /\ out'[u] = out[u]
      BY <1>2 DEF IndInv, TypeOK, Allocate, SelectVersion, Decrypt, SelectHistory,
         Goto, Raise, Outcome
    <2> QED
      BY <1>0, <2>1, Bystander DEF IndInv
  <1>3. RequestInv(t) /\ TypeOK
    BY DEF IndInv
  <1>4. CASE Allocate(t)
    <2>1. TypeOK'
      BY <1>0, <1>3, <1>4 DEF TypeOK, Allocate, Goto, Pc, Database, tables
    <2>2. RequestInv(t)'
      BY <1>0, <1>3, <1>4 DEF TypeOK, Allocate, Goto, RequestInv, Holds, Allocated,
         FetchedOpens, Answers, next_row, tables
    <2> QED
      BY <1>1, <1>2, <2>1, <2>2 DEF IndInv
  <1>5. CASE SelectVersion(t)
    <2> DEFINE p == req[t].path
    <2>1. p \in Path /\ req[t].version \in 0 .. MaxVersion /\ PathOwner[p] = req[t].user
      BY <1>3, <1>5, RequestFields DEF SelectVersion, RequestInv, Holds
    <2>2. CASE Outcome(t, NotFound)
      <3>1. TypeOK'
        BY <1>0, <1>3, <1>5, <2>2 DEF TypeOK, SelectVersion, Outcome, Goto, Pc, Database,
           tables, NotFound, Error, Out
      <3>2. RequestInv(t)'
        BY <1>0, <1>3, <1>5, <2>2, NoneAssumption DEF TypeOK, SelectVersion, Outcome, Goto, NotFound,
           Error, RequestInv, Holds, Allocated, FetchedOpens, Answers, Out
      <3> QED
        BY <1>1, <1>2, <3>1, <3>2 DEF IndInv
    <2>3. ASSUME NEW v \in get_version(p, req[t].version),
                 /\ row' = [row EXCEPT ![t] =
                        [version |-> v.version, blob |-> v.blob,
                         latest |-> kv_records[p].latest_version]]
                 /\ Goto(t, "decrypt")
                 /\ UNCHANGED <<key, out>>
          PROVE  IndInv'
      <3>1. kv_records[p] # None /\ v \in VersionsOf(p) /\ v \in VersionRow
        BY <2>1, <1>3 DEF get_version, VersionsOf, TypeOK
      <3>2. kv_records[p] \in Record
        BY <2>1, <3>1, <1>3 DEF TypeOK
      <3>3. v.blob.key = Dek /\ v.blob.aad = <<req[t].user, p, v.version>>
        BY <2>1, <3>1 DEF IndInv, TableInv, StoredOpens
      <3>4. [version |-> v.version, blob |-> v.blob,
             latest |-> kv_records[p].latest_version] \in Fetched
        BY <3>1, <3>2 DEF VersionRow, Record, Fetched
      <3>5. TypeOK'
        BY <1>0, <1>3, <1>5, <2>3, <3>4 DEF TypeOK, SelectVersion, Goto, Pc, tables
      <3>6. RequestInv(t)'
        BY <1>0, <1>3, <1>5, <2>3, <3>3, <3>4 DEF TypeOK, SelectVersion, Goto, RequestInv,
           Holds, Allocated, FetchedOpens, Answers
      <3> QED
        BY <1>1, <1>2, <3>5, <3>6 DEF IndInv
    <2> QED
      BY <1>5, <2>2, <2>3 DEF SelectVersion
  <1>6. CASE Decrypt(t)
    <2>1. row[t] \in Fetched /\ (dek # None => opens(row[t].blob, dek, aad(req[t].user, req[t].path, row[t].version)))
      BY <1>3, <1>6 DEF Decrypt, RequestInv, FetchedOpens, opens, aad, TypeOK
    <2>2. CASE Raise(t, "VAULT_LOCKED")
      BY <1>0, <1>1, <1>2, <1>3, <1>6, <2>2, NoneAssumption DEF IndInv, TypeOK, Raise, Goto, Pc, tables, Error, Out,
         Decrypt, RequestInv, Holds, Allocated, FetchedOpens, Answers
    <2>3. CASE Outcome(t, [result |-> "ok", data |-> row[t].blob.plaintext,
                           version |-> row[t].version, latest |-> row[t].latest]) /\ UNCHANGED req
      <3> DEFINE o == [result |-> "ok", data |-> row[t].blob.plaintext,
                       version |-> row[t].version, latest |-> row[t].latest]
      <3>1. o \in Out /\ o # None /\ o # Error("TAMPER_DETECTED") /\ o.result = "ok"
        BY <2>1, NoneAssumption DEF Fetched, Blob, Out, Error
      <3> HIDE DEF o
      <3>2. TypeOK'
        BY <1>0, <1>3, <1>6, <2>3, <3>1 DEF TypeOK, Outcome, Goto, Pc, tables, o
      <3>3. RequestInv(t)'
        BY <1>0, <1>3, <1>6, <2>3, <3>1 DEF TypeOK, Outcome, Goto, Decrypt,
          RequestInv, Holds, Allocated, FetchedOpens, Answers, o
      <3> QED
        BY <1>1, <1>2, <3>2, <3>3 DEF IndInv
    <2> QED
      BY <1>6, <2>1, <2>2, <2>3 DEF Decrypt, is_unlocked
  <1>7. CASE SelectHistory(t)
    <2> DEFINE p == req[t].path
               o == IF VersionsOf(p) = {} THEN NotFound
                    ELSE [result |-> "history", latest |-> kv_records[p].latest_version,
                          versions |-> {v.version : v \in VersionsOf(p)}]
    <2>1. p \in Path
      BY <1>3, <1>7, RequestFields DEF SelectHistory, RequestInv, Holds
    <2>2. VersionsOf(p) # {} => kv_records[p] \in Record /\ VersionsOf(p) \subseteq VersionRow
      BY <2>1, <1>3 DEF VersionsOf, TypeOK
    <2>3. o \in Out /\ o # None /\ o # Error("TAMPER_DETECTED") /\ o.result \in {"history", "NOT_FOUND"}
      <3>1. CASE VersionsOf(p) = {}
        BY <3>1, NoneAssumption DEF Out, Error, NotFound
      <3>2. CASE VersionsOf(p) # {}
        <4>1. kv_records[p].latest_version \in Version
          BY <2>2, <3>2 DEF Record
        <4>2. {v.version : v \in VersionsOf(p)} \in SUBSET Version
          BY <2>2, <3>2 DEF VersionRow
        <4> QED
          BY <3>2, <4>1, <4>2, NoneAssumption DEF Out, Error
      <3> QED
        BY <3>1, <3>2
    <2> HIDE DEF o
    <2>4. Outcome(t, o) /\ UNCHANGED req
      BY <1>7 DEF SelectHistory, o
    <2>5. TypeOK'
      BY <1>0, <1>3, <2>3, <2>4 DEF TypeOK, Outcome, Goto, Pc, tables
    <2>6. RequestInv(t)'
      BY <1>0, <1>3, <1>7, <2>3, <2>4 DEF TypeOK, Outcome, Goto, SelectHistory,
         RequestInv, Holds, Allocated, FetchedOpens, Answers
    <2> QED
      BY <1>1, <1>2, <2>5, <2>6 DEF IndInv
  <1> QED
    BY <1>4, <1>5, <1>6, <1>7

\* lock, unlock and a crash.
LEMMA EnvironmentInd ==
  ASSUME IndInv, Unlock \/ Lock \/ Crash
  PROVE  IndInv'
  <1>1. TypeOK' /\ UNCHANGED tables
    BY KvAssumption DEF IndInv, TypeOK, Unlock, Lock, Crash, Pc, tables
  <1>2. TableInv'
    BY <1>1, TablesStay DEF IndInv
  <1>3. ASSUME NEW u \in Thread PROVE RequestInv(u)'
    <2>1. CASE Unlock \/ Lock
      BY <1>1, <2>1, Bystander DEF IndInv, Unlock, Lock
    <2>2. CASE Crash
      BY <2>2, KvAssumption, NoneAssumption DEF Crash, RequestInv, Holds, Allocated,
         FetchedOpens, Answers, Error, Out
    <2> QED
      BY <2>1, <2>2
  <1> QED
    BY <1>1, <1>2, <1>3 DEF IndInv

-----------------------------------------------------------------------------
(* COMMIT and DELETE                                                       *)

\* What a write adds to the versions of its path, and that nobody else's change.
LEMMA CommitVersions ==
  ASSUME IndInv, NEW t \in Thread, Commit(t),
         NEW p, p = req[t].path,
         NEW r, r = row[t],
         NEW new, new = [record_id |-> r.id, version |-> r.latest_version,
                         blob |-> encrypt_for(t, r.latest_version)]
  PROVE  /\ p \in Path /\ r \in Record /\ r # None /\ r = next_row(p)
         /\ new \in VersionRow /\ new.record_id = r.id /\ new.version = r.latest_version
         /\ new.blob.key = Dek /\ new.blob.aad = <<PathOwner[p], p, new.version>>
         /\ kv_records' = [kv_records EXCEPT ![p] = r]
         /\ kv_versions' = kv_versions \cup {new}
         /\ VersionsOf(p)' = VersionsOf(p) \cup {new}
         /\ \A q \in Path \ {p} : VersionsOf(q)' = VersionsOf(q)
         /\ \A q \in Path \ {p} : kv_records[q] # None => kv_records[q].id # r.id
         /\ r.id < next_id'
  <1>1. /\ p \in Path /\ req[t].user \in User /\ req[t].data \in Data
        /\ PathOwner[p] = req[t].user /\ key[t] = Dek
        /\ r \in Record /\ r = next_row(p)
    BY RequestFields DEF Commit, IndInv, RequestInv, Holds, Allocated
  <1>2. r # None /\ r.id \in 1 .. MaxId /\ r.latest_version \in Version
    BY <1>1, NoneAssumption DEF Record
  <1>3. new \in VersionRow
    BY <1>1, <1>2 DEF VersionRow, Blob, encrypt_for, aad
  <1>4. new.blob.key = Dek /\ new.blob.aad = <<PathOwner[p], p, new.version>>
    BY <1>1 DEF encrypt_for, aad
  <1>5. /\ kv_records' = [kv_records EXCEPT ![p] = r]
        /\ kv_versions' = kv_versions \cup {new}
        /\ next_id' = IF r.id = next_id THEN next_id + 1 ELSE next_id
    BY DEF Commit
  <1>6. new.record_id = r.id /\ new.version = r.latest_version
    OBVIOUS
  <1>7. kv_records' \in [Path -> Record \cup {None}] /\ kv_records \in [Path -> Record \cup {None}]
    BY <1>1, <1>5 DEF IndInv, TypeOK
  <1>8. \A v \in kv_versions : v.record_id < next_id
    BY <1>7 DEF IndInv, TableInv, NoOrphans, IdsBelow, VersionsOf
  <1>9. \A q \in Path \ {p} : kv_records[q] # None => kv_records[q].id # r.id
    <2>1. CASE kv_records[p] = None
      BY <1>1, <1>7, <2>1 DEF next_row, IndInv, TableInv, IdsBelow, Record, TypeOK
    <2>2. CASE kv_records[p] # None
      BY <1>1, <2>2 DEF next_row, IndInv, TableInv, IdsDistinct
    <2> QED
      BY <2>1, <2>2
  <1>10. VersionsOf(p)' = VersionsOf(p) \cup {new}
    <2>1. CASE kv_records[p] = None
      <3>1. \A v \in kv_versions : v.record_id # r.id
        BY <1>1, <1>8, <2>1 DEF next_row, IndInv, TypeOK, VersionRow
      <3>2. VersionsOf(p)' = {v \in kv_versions' : v.record_id = r.id}
        BY <1>1, <1>2, <1>5, <1>7 DEF VersionsOf
      <3> QED
        BY <1>5, <1>6, <2>1, <3>1, <3>2 DEF VersionsOf
    <2>2. CASE kv_records[p] # None
      <3>1. r.id = kv_records[p].id /\ kv_records'[p] = r
        BY <1>1, <1>5, <1>7, <2>2 DEF next_row
      <3>2. VersionsOf(p)' = {v \in kv_versions' : v.record_id = r.id}
        BY <1>2, <3>1 DEF VersionsOf
      <3>3. VersionsOf(p) = {v \in kv_versions : v.record_id = r.id}
        BY <2>2, <3>1 DEF VersionsOf
      <3> QED
        BY <1>5, <1>6, <3>2, <3>3
    <2> QED
      BY <2>1, <2>2
  <1>11. \A q \in Path \ {p} : VersionsOf(q)' = VersionsOf(q)
    <2> SUFFICES ASSUME NEW q \in Path \ {p} PROVE VersionsOf(q)' = VersionsOf(q)
      OBVIOUS
    <2>1. kv_records'[q] = kv_records[q]
      BY <1>1, <1>5, <1>7
    <2> QED
      BY <1>5, <1>6, <1>9, <2>1 DEF VersionsOf
  <1>12. r.id < next_id'
    BY <1>1, <1>2, <1>5 DEF next_row, IndInv, TypeOK, TableInv, IdsBelow
  <1> QED
    BY <1>1, <1>2, <1>3, <1>4, <1>5, <1>6, <1>9, <1>10, <1>11, <1>12

\* A write keeps the tables in agreement: its version is the next of its path.
LEMMA CommitInd ==
  ASSUME IndInv, NEW t \in Thread, Commit(t)
  PROVE  IndInv'
  <1>0. PICK p, r, new, o :
          /\ p = req[t].path
          /\ r = row[t]
          /\ new = [record_id |-> r.id, version |-> r.latest_version,
                    blob |-> encrypt_for(t, r.latest_version)]
          /\ o = [result |-> "written", version |-> r.latest_version]
    OBVIOUS
  <1>1. /\ p \in Path /\ r \in Record /\ r # None /\ r = next_row(p)
        /\ new \in VersionRow /\ new.record_id = r.id /\ new.version = r.latest_version
        /\ new.blob.key = Dek /\ new.blob.aad = <<PathOwner[p], p, new.version>>
        /\ kv_records' = [kv_records EXCEPT ![p] = r]
        /\ kv_versions' = kv_versions \cup {new}
        /\ VersionsOf(p)' = VersionsOf(p) \cup {new}
        /\ \A q \in Path \ {p} : VersionsOf(q)' = VersionsOf(q)
        /\ \A q \in Path \ {p} : kv_records[q] # None => kv_records[q].id # r.id
        /\ r.id < next_id'
    BY <1>0, CommitVersions
  <1>3. o \in Out /\ o # None /\ o # Error("TAMPER_DETECTED") /\ o.result = "written"
    BY <1>0, <1>1, NoneAssumption DEF Out, Error, Record
  <1>4. /\ Outcome(t, o) /\ UNCHANGED <<dek, denials, req>> /\ pc[t] = "commit"
        /\ writer' = None /\ next_id' = IF r.id = next_id THEN next_id + 1 ELSE next_id
    BY <1>0 DEF Commit
  <1>5. TypeOK'
    <2>1. kv_records' \in [Path -> Record \cup {None}] /\ kv_versions' \subseteq VersionRow
      BY <1>1 DEF IndInv, TypeOK
    <2>2. next_id' \in 1 .. MaxId + 1 /\ writer' \in Thread \cup {None}
      BY <1>1, <1>4, KvAssumption DEF IndInv, TypeOK, Record
    <2>3. /\ pc' \in [Thread -> Pc] /\ key' \in [Thread -> {Dek, None}]
          /\ row' \in [Thread -> Record \cup Fetched \cup {None}]
          /\ out' \in [Thread -> Out \cup {None}]
      BY <1>3, <1>4 DEF IndInv, TypeOK, Outcome, Goto, Pc
    <2> QED
      BY <1>4, <2>1, <2>2, <2>3 DEF IndInv, TypeOK
  <1>6. ASSUME NEW u \in Thread PROVE RequestInv(u)'
    <2>1. writer = t
      BY <1>4 DEF IndInv, RequestInv, Allocated
    <2>2. CASE u # t
      BY <1>4, <2>1, <2>2, Bystander, KvAssumption DEF Outcome, Goto, IndInv, TypeOK
    <2>3. CASE u = t
      BY <1>3, <1>4, <2>3, KvAssumption DEF Outcome, Goto, IndInv, TypeOK,
         RequestInv, Holds, Allocated, FetchedOpens, Answers
    <2> QED
      BY <2>2, <2>3
  <1>7. kv_records \in [Path -> Record \cup {None}]
    BY DEF IndInv, TypeOK
  <1>8. VersionsNumbered'
    <2> SUFFICES ASSUME NEW q \in Path, kv_records'[q] # None
                 PROVE  /\ {v.version : v \in VersionsOf(q)'} = 1 .. kv_records'[q].latest_version
                        /\ \A v, w \in VersionsOf(q)' : v.version = w.version => v = w
      BY DEF VersionsNumbered
    <2>1. CASE q # p
      BY <1>1, <1>7, <2>1 DEF IndInv, TableInv, VersionsNumbered
    <2>2. CASE q = p
      <3>0. kv_records'[p] = r
        BY <1>1, <1>7
      <3>1. CASE kv_records[p] = None
        <4>1. VersionsOf(p) = {} /\ r.latest_version = 1
          BY <1>1, <3>1 DEF VersionsOf, next_row
        <4> QED
          BY <1>1, <2>2, <3>0, <4>1
      <3>2. CASE kv_records[p] # None
        <4> DEFINE n == kv_records[p].latest_version
        <4>1. n \in Nat /\ r.latest_version = n + 1
          BY <1>1, <1>7, <3>2 DEF next_row, Record, Version
        <4>2. /\ {v.version : v \in VersionsOf(p)} = 1 .. n
              /\ \A v, w \in VersionsOf(p) : v.version = w.version => v = w
          BY <1>1, <3>2 DEF IndInv, TableInv, VersionsNumbered
        <4> HIDE DEF n
        <4>3. {v.version : v \in VersionsOf(p) \cup {new}} = (1 .. n) \cup {n + 1}
          BY <1>1, <4>1, <4>2
        <4>4. (1 .. n) \cup {n + 1} = 1 .. n + 1
          BY <4>1
        <4>5. \A v \in VersionsOf(p) : v.version # n + 1
          BY <4>1, <4>2
        <4>6. \A v, w \in VersionsOf(p) \cup {new} : v.version = w.version => v = w
          BY <1>1, <4>1, <4>2, <4>5
        <4> QED
          BY <1>1, <2>2, <3>0, <4>1, <4>3, <4>4, <4>6
      <3> QED
        BY <3>1, <3>2
    <2> QED
      BY <2>1, <2>2
  <1>9. IdsDistinct'
    BY <1>1, <1>7 DEF IndInv, TableInv, IdsDistinct
  <1>10. NoOrphans'
    <2> SUFFICES ASSUME NEW v \in kv_versions'
                 PROVE  \E q \in Path : v \in VersionsOf(q)'
      BY DEF NoOrphans
    <2>1. CASE v = new
      BY <1>1, <2>1
    <2>2. CASE v \in kv_versions
      BY <1>1, <2>2 DEF IndInv, TableInv, NoOrphans
    <2> QED
      BY <1>1, <2>1, <2>2
  <1>11. StoredOpens'
    <2> SUFFICES ASSUME NEW q \in Path, NEW v \in VersionsOf(q)'
                 PROVE  v.blob.key = Dek /\ v.blob.aad = <<PathOwner[q], q, v.version>>
      BY DEF StoredOpens
    <2>1. CASE v \in VersionsOf(q)
      BY <2>1 DEF IndInv, TableInv, StoredOpens
    <2>2. CASE v \notin VersionsOf(q)
      BY <1>1, <2>2
    <2> QED
      BY <2>1, <2>2
  <1>12. IdsBelow'
    BY <1>1, <1>4, <1>7 DEF IndInv, TypeOK, TableInv, IdsBelow, Record
  <1> QED
    BY <1>5, <1>6, <1>8, <1>9, <1>10, <1>11, <1>12 DEF IndInv, TableInv

\* DELETE takes a record and its versions; those of other paths have other ids.
LEMMA DeleteInd ==
  ASSUME IndInv, NEW t \in Thread, Delete(t)
  PROVE  IndInv'
  <1>0. PICK p, o : /\ p = req[t].path
                    /\ o = IF kv_records[p] = None THEN NotFound ELSE [result |-> "deleted"]
    OBVIOUS
  <1>1. p \in Path
    BY <1>0, RequestFields DEF Delete, IndInv, RequestInv, Holds
  <1>2. /\ Outcome(t, o) /\ UNCHANGED <<dek, next_id, writer, denials, req>>
        /\ pc[t] = "delete" /\ writer = None
        /\ kv_versions' = kv_versions \ VersionsOf(p)
        /\ kv_records' = [kv_records EXCEPT ![p] = None]
    BY <1>0 DEF Delete, cascade
  <1>3. o \in Out /\ o # None /\ o # Error("TAMPER_DETECTED") /\ o.result \in {"deleted", "NOT_FOUND"}
    BY <1>0, NoneAssumption DEF Out, Error, NotFound
  <1>4. TypeOK'
    BY <1>1, <1>2, <1>3 DEF IndInv, TypeOK, Outcome, Goto, Pc
  <1>5. ASSUME NEW u \in Thread PROVE RequestInv(u)'
    <2>1. CASE u # t
      BY <1>2, <2>1, Bystander, KvAssumption DEF Outcome, Goto, IndInv, TypeOK
    <2>2. CASE u = t
      BY <1>2, <1>3, <2>2, KvAssumption DEF Outcome, Goto, IndInv, TypeOK,
         RequestInv, Holds, Allocated, FetchedOpens, Answers
    <2> QED
      BY <2>1, <2>2
  <1>6. kv_records'[p] = None /\ \A q \in Path \ {p} : kv_records'[q] = kv_records[q]
    BY <1>1, <1>2 DEF IndInv, TypeOK
  <1>7. VersionsOf(p)' = {}
    BY <1>6 DEF VersionsOf
  <1>8. \A q \in Path \ {p} : VersionsOf(q)' = VersionsOf(q)
    BY <1>1, <1>2, <1>6 DEF VersionsOf, IndInv, TableInv, IdsDistinct
  <1>9. VersionsNumbered' /\ StoredOpens'
    BY <1>6, <1>7, <1>8 DEF IndInv, TableInv, VersionsNumbered, StoredOpens
  <1>10. IdsDistinct' /\ IdsBelow'
    BY <1>2, <1>6 DEF IndInv, TableInv, IdsDistinct, IdsBelow
  <1>11. NoOrphans'
    BY <1>2, <1>8 DEF IndInv, TableInv, NoOrphans
  <1> QED
    BY <1>4, <1>5, <1>9, <1>10, <1>11 DEF IndInv, TableInv

-----------------------------------------------------------------------------
(* Theorems                                                                *)

\* Every step preserves the inductive invariant.
LEMMA NextInd ==
  ASSUME IndInv, [Next]_vars
  PROVE  IndInv'
  <1>1. CASE UNCHANGED vars
    <2>1. TypeOK'
      BY <1>1 DEF vars, IndInv, TypeOK
    <2>2. TableInv'
      BY <1>1, TablesStay DEF vars, tables, IndInv
    <2>3. \A u \in Thread : RequestInv(u)'
      BY <1>1, Bystander DEF vars, tables, IndInv
    <2> QED
      BY <2>1, <2>2, <2>3 DEF IndInv
  <1>2. CASE Next
    BY <1>2, PlainInd, ReadInd, CommitInd, DeleteInd, EnvironmentInd DEF Next, Step
  <1> QED
    BY <1>1, <1>2

\* The inductive invariant holds throughout.
LEMMA IndAlways == Spec => []IndInv
  <1>1. IndInv /\ [Next]_vars => IndInv'
    BY NextInd
  <1> QED
    BY InitInd, <1>1, PTL DEF Spec

\* kv_records and kv_versions agree in every execution, for any number of
\* concurrent writes, deletes, rollbacks and crashes: append_version allocates the
\* version numbers of a path without gap or repetition, and the cascade of a delete
\* leaves nothing behind that a new record could inherit.
THEOREM TablesStayInAgreement == Spec => []TablesAgree
  <1>1. IndInv => TablesAgree
    BY DEF IndInv, TableInv, TablesAgree
  <1> QED
    BY IndAlways, <1>1, PTL

\* KvService.read never reports tampering without outside interference: what
\* encrypt_for bound the blob to is what read computes again.
THEOREM ReadsNeverTampered == Spec => []NoSpuriousTamper
  <1>1. IndInv => NoSpuriousTamper
    BY DEF IndInv, RequestInv, Answers, NoSpuriousTamper
  <1> QED
    BY IndAlways, <1>1, PTL

\* A PERMISSION_DENIED answer comes from Deny alone, which has committed the row of
\* log_denied_access by then; a database that fails is answered otherwise.
THEOREM DenialsAreAudited == Spec => DenialsAudited
  <1>1. IndInv /\ [Next]_vars =>
          [\A t \in Thread :
             out'[t] = Error("PERMISSION_DENIED") /\ out[t] # out'[t] =>
                <<req[t].user, req[t].path>> \in denials']_vars
    <2> SUFFICES ASSUME IndInv, Next, NEW t \in Thread,
                        out'[t] = Error("PERMISSION_DENIED"), out[t] # out'[t]
                 PROVE  <<req[t].user, req[t].path>> \in denials'
      BY DEF vars
    <2>1. ~Unlock /\ ~Lock /\ ~Crash
      BY NoneAssumption DEF Unlock, Lock, Crash, Out
    <2>2. PICK u \in Thread : (\E r \in Request : Start(u, r)) \/ Step(u)
      BY <2>1 DEF Next
    <2>3. u = t
      BY <2>2 DEF Step, Start, Deny, RequireUnlocked, GetDek, Begin, Allocate, Commit,
         SelectVersion, Decrypt, SelectHistory, Delete, DbFails, Reply, Goto, Outcome, Raise,
         IndInv, TypeOK
    <2>4. Deny(t)
      BY <2>2, <2>3, NoneAssumption DEF Step, Start, RequireUnlocked, GetDek, Begin, Allocate, Commit,
         SelectVersion, Decrypt, SelectHistory, Delete, DbFails, failure, Reply, Outcome, Raise,
         IndInv, TypeOK, Error, NotFound, Out
    <2> QED
      BY <2>4 DEF Deny
  <1> QED
    BY IndAlways, <1>1, PTL DEF Spec, DenialsAudited

-----------------------------------------------------------------------------
(* The engine implements KvStore                                           *)

\* A request as KvStore sees it.
Strip(r) == [f \in DOMAIN r \ {"user"} |-> r[f]]

LEMMA StripFields ==
  ASSUME NEW r \in Request
  PROVE  /\ Strip(r) \in Abstract!Call
         /\ Strip(r).op = r.op /\ Strip(r).path = r.path
         /\ r.op = "write" => Strip(r).data = r.data
         /\ r.op = "read" => Strip(r).version = r.version
  <1>1. CASE r \in [op : {"write"}, user : User, path : Path, data : Data]
    BY <1>1 DEF Strip, Abstract!Call
  <1>2. CASE r \in [op : {"read"}, user : User, path : Path, version : 0 .. MaxVersion]
    BY <1>2 DEF Strip, Abstract!Call
  <1>3. CASE r \in [op : {"versions", "delete"}, user : User, path : Path]
    BY <1>3 DEF Strip, Abstract!Call
  <1> QED
    BY <1>1, <1>2, <1>3 DEF Request

\* The history of a path has the plaintexts of its versions, each at its number.
HistoryInv == \A p \in Path :
    IF kv_records[p] = None THEN History(p) = <<>>
    ELSE /\ kv_records[p].latest_version \in Nat \ {0}
         /\ History(p) \in Seq(Data)
         /\ Len(History(p)) = kv_records[p].latest_version
         /\ \A k \in 1 .. kv_records[p].latest_version :
               \E v \in VersionsOf(p) : v.version = k
         /\ \A v \in VersionsOf(p) :
               /\ v.version \in 1 .. kv_records[p].latest_version
               /\ History(p)[v.version] = v.blob.plaintext

LEMMA HistoryFacts == IndInv => HistoryInv
  <1> SUFFICES ASSUME IndInv, NEW p \in Path, kv_records[p] # None
               PROVE  /\ kv_records[p].latest_version \in Nat \ {0}
                      /\ History(p) \in Seq(Data)
                      /\ Len(History(p)) = kv_records[p].latest_version
                      /\ \A k \in 1 .. kv_records[p].latest_version :
                            \E v \in VersionsOf(p) : v.version = k
                      /\ \A v \in VersionsOf(p) :
                            /\ v.version \in 1 .. kv_records[p].latest_version
                            /\ History(p)[v.version] = v.blob.plaintext
    BY DEF HistoryInv, History
  <1> DEFINE n == kv_records[p].latest_version
             Nth(k) == CHOOSE v \in VersionsOf(p) : v.version = k
  <1>1. n \in Nat \ {0} /\ VersionsOf(p) \subseteq VersionRow
    BY DEF IndInv, TypeOK, Record, Version, VersionsOf
  <1>2. /\ {v.version : v \in VersionsOf(p)} = 1 .. n
        /\ \A v, w \in VersionsOf(p) : v.version = w.version => v = w
    BY DEF IndInv, TableInv, VersionsNumbered
  <1>3. History(p) = [k \in 1 .. n |-> Nth(k).blob.plaintext]
    BY DEF History
  <1> HIDE DEF n
  <1>4. \A k \in 1 .. n : \E v \in VersionsOf(p) : v.version = k
    BY <1>2
  <1>5. \A k \in 1 .. n : Nth(k) \in VersionsOf(p) /\ Nth(k).version = k
    BY <1>4
  <1>6. \A v \in VersionsOf(p) : v.version \in 1 .. n
    BY <1>2
  <1>7. \A v \in VersionsOf(p) : Nth(v.version) = v
    BY <1>2, <1>5, <1>6
  <1> HIDE DEF Nth
  <1>8. \A k \in 1 .. n : Nth(k).blob.plaintext \in Data
    BY <1>1, <1>5 DEF VersionRow, Blob
  <1>9. History(p) \in Seq(Data) /\ Len(History(p)) = n
    BY <1>1, <1>3, <1>8
  <1>10. \A v \in VersionsOf(p) : History(p)[v.version] = v.blob.plaintext
    BY <1>3, <1>6, <1>7
  <1> QED
    BY <1>1, <1>4, <1>6, <1>9, <1>10 DEF n

LEMMA HistoryFactsNext == IndInv' => HistoryInv'
  BY HistoryFacts, PTL

\* A path whose record and versions stay keeps its history.
LEMMA SameHistory ==
  ASSUME NEW q \in Path, kv_records'[q] = kv_records[q], VersionsOf(q)' = VersionsOf(q)
  PROVE  History(q)' = History(q)
  <1>1. CASE kv_records[q] = None
    BY <1>1 DEF History
  <1>2. CASE kv_records[q] # None
    <2> DEFINE Nth(vs) == [n \in 1 .. kv_records[q].latest_version |->
                             (CHOOSE v \in vs : v.version = n).blob.plaintext]
    <2>1. History(q) = Nth(VersionsOf(q))
      BY <1>2 DEF History
    <2>2. History(q)' = Nth(VersionsOf(q)')
      BY <1>2 DEF History
    <2> HIDE DEF Nth
    <2> QED
      BY <2>1, <2>2
  <1> QED
    BY <1>1, <1>2

\* A write appends its value to the history of its path and of no other.
LEMMA CommitHistory ==
  ASSUME IndInv, IndInv', NEW t \in Thread, Commit(t),
         NEW p, p = req[t].path
  PROVE  /\ History(p)' = Append(History(p), req[t].data)
         /\ \A q \in Path \ {p} : History(q)' = History(q)
         /\ row[t].latest_version = Len(History(p)) + 1
  <1>0. PICK r, new : /\ r = row[t]
                      /\ new = [record_id |-> r.id, version |-> r.latest_version,
                                blob |-> encrypt_for(t, r.latest_version)]
    OBVIOUS
  <1>1. /\ p \in Path /\ r \in Record /\ r # None /\ r = next_row(p)
        /\ new.version = r.latest_version
        /\ kv_records' = [kv_records EXCEPT ![p] = r]
        /\ VersionsOf(p)' = VersionsOf(p) \cup {new}
        /\ \A q \in Path \ {p} : VersionsOf(q)' = VersionsOf(q)
    BY <1>0, CommitVersions
  <1>2. new.blob.plaintext = req[t].data
    BY <1>0 DEF encrypt_for
  <1>3. HistoryInv /\ HistoryInv'
    BY HistoryFacts, HistoryFactsNext
  <1>4. kv_records'[p] = r /\ \A q \in Path \ {p} : kv_records'[q] = kv_records[q]
    BY <1>1 DEF IndInv, TypeOK
  <1>5. \A q \in Path \ {p} : History(q)' = History(q)
    BY <1>1, <1>4, SameHistory
  <1>6. r.latest_version = Len(History(p)) + 1
    BY <1>1, <1>3 DEF HistoryInv, next_row
  <1>7. History(p) \in Seq(Data) /\ History(p)' \in Seq(Data)
    <2>1. History(p)' \in Seq(Data)
      BY <1>1, <1>3, <1>4 DEF HistoryInv
    <2>2. CASE kv_records[p] = None
      <3>1. History(p) = <<>>
        BY <2>2 DEF History
      <3> QED
        BY <2>1, <3>1
    <2>3. CASE kv_records[p] # None
      BY <1>1, <1>3, <2>1, <2>3 DEF HistoryInv
    <2> QED
      BY <2>2, <2>3
  <1>8. Len(History(p)') = Len(History(p)) + 1
    BY <1>1, <1>3, <1>4, <1>6 DEF HistoryInv
  <1>9. \A k \in 1 .. Len(History(p)) : History(p)'[k] = History(p)[k]
    <2> SUFFICES ASSUME NEW k \in 1 .. Len(History(p)) PROVE History(p)'[k] = History(p)[k]
      OBVIOUS
    <2>1. kv_records[p] # None
      BY <1>1, <1>3 DEF HistoryInv
    <2>2. PICK v \in VersionsOf(p) : v.version = k
      BY <1>1, <1>3, <2>1 DEF HistoryInv
    <2>3. History(p)[k] = v.blob.plaintext
      BY <1>1, <1>3, <2>1, <2>2 DEF HistoryInv
    <2>4. History(p)'[k] = v.blob.plaintext
      BY <1>1, <1>3, <1>4, <2>2 DEF HistoryInv
    <2> QED
      BY <2>3, <2>4
  <1>10. History(p)'[Len(History(p)) + 1] = req[t].data
    BY <1>1, <1>2, <1>3, <1>4, <1>6 DEF HistoryInv
  <1>11. req[t].data \in Data
    BY RequestFields DEF Commit, IndInv, RequestInv, Holds
  <1>12. History(p)' = Append(History(p), req[t].data)
    BY <1>7, <1>8, <1>9, <1>10, <1>11
  <1> QED
    BY <1>0, <1>5, <1>6, <1>12

\* The state of KvStore.
absHist   == [p \in Path |-> History(p)]
absCall   == [t \in Thread |-> CallOf(t)]
absSeen   == [t \in Thread |-> SeenBy(t)]
absAnswer == [t \in Thread |-> AnswerTo(t)]

\* Which of a request's locals KvStore knows of.
LEMMA OneMoves ==
  ASSUME NEW t \in Thread,
         \A u \in Thread \ {t} : pc'[u] = pc[u] /\ req'[u] = req[u] /\ row'[u] = row[u] /\ out'[u] = out[u]
  PROVE  /\ absCall' = [absCall EXCEPT ![t] = CallOf(t)']
         /\ absSeen' = [absSeen EXCEPT ![t] = SeenBy(t)']
         /\ absAnswer' = [absAnswer EXCEPT ![t] = AnswerTo(t)']
  <1>1. \A u \in Thread \ {t} : /\ CallOf(u)' = CallOf(u) /\ SeenBy(u)' = SeenBy(u)
                                /\ AnswerTo(u)' = AnswerTo(u)
    BY DEF CallOf, SeenBy, AnswerTo
  <1> QED
    BY <1>1 DEF absCall, absSeen, absAnswer

LEMMA HistoriesStay ==
  ASSUME UNCHANGED tables
  PROVE  absHist' = absHist
  <1>1. \A q \in Path : kv_records'[q] = kv_records[q] /\ VersionsOf(q)' = VersionsOf(q)
    BY DEF tables, VersionsOf
  <1> QED
    BY <1>1, SameHistory DEF absHist

\* A request that is refused had no effect, or was a read.
LEMMA Refuses ==
  ASSUME IndInv, NEW t \in Thread, pc[t] # "idle",
         pc[t] # "reply" /\ (pc[t] = "decrypt" => req[t].op = "read"),
         NEW code \in {"PERMISSION_DENIED", "VAULT_LOCKED", "INTERNAL_ERROR"},
         Raise(t, code), UNCHANGED tables
  PROVE  Abstract!Refuse(t)
  <1>1. /\ absCall' = [absCall EXCEPT ![t] = CallOf(t)']
        /\ absSeen' = [absSeen EXCEPT ![t] = SeenBy(t)']
        /\ absAnswer' = [absAnswer EXCEPT ![t] = AnswerTo(t)']
    BY OneMoves DEF Raise, Goto, IndInv, TypeOK
  <1>2. pc'[t] = "idle" /\ out'[t] = [result |-> code] /\ out'[t] # None
    BY NoneAssumption DEF Raise, Goto, IndInv, TypeOK, Error, Out
  <1>3. CallOf(t)' = None /\ SeenBy(t)' = None /\ AnswerTo(t)' = [result |-> "refused"]
    BY <1>2 DEF CallOf, SeenBy, AnswerTo
  <1>4. req[t] \in Request /\ CallOf(t) = Strip(req[t])
    BY DEF IndInv, RequestInv, Holds, CallOf, Strip
  <1>5. CallOf(t) # None /\ CallOf(t).op = req[t].op
    BY <1>4, StripFields, NoneAssumption
  <1>6. SeenBy(t) = None \/ req[t].op = "read"
    BY DEF SeenBy
  <1>7. absHist' = absHist
    BY HistoriesStay
  <1> QED
    BY <1>1, <1>3, <1>5, <1>6, <1>7
       DEF Abstract!Refuse, Abstract!Refused, absCall, absSeen, absAnswer, absHist

\* A step that only moves a request on shows nothing to KvStore.
LEMMA Hidden ==
  ASSUME IndInv, NEW t \in Thread,
         \A u \in Thread \ {t} : pc'[u] = pc[u] /\ req'[u] = req[u] /\ row'[u] = row[u] /\ out'[u] = out[u],
         pc[t] \notin {"idle", "reply", "decrypt"}, pc'[t] \notin {"idle", "reply", "decrypt"},
         req'[t] = req[t], UNCHANGED tables
  PROVE  UNCHANGED Abstract!vars
  <1>1. CallOf(t)' = CallOf(t) /\ SeenBy(t)' = SeenBy(t) /\ AnswerTo(t)' = AnswerTo(t)
    BY DEF CallOf, SeenBy, AnswerTo
  <1>2. absCall' = absCall /\ absSeen' = absSeen /\ absAnswer' = absAnswer
    BY <1>1, OneMoves DEF absCall, absSeen, absAnswer
  <1>3. absHist' = absHist
    BY HistoriesStay
  <1> QED
    BY <1>2, <1>3 DEF Abstract!vars, absCall, absSeen, absAnswer, absHist

LEMMA PlainRefines ==
  ASSUME IndInv, NEW t \in Thread,
         \/ \E r \in Request : Start(t, r)
         \/ Deny(t) \/ RequireUnlocked(t) \/ GetDek(t) \/ Begin(t) \/ Allocate(t)
         \/ DbFails(t) \/ Reply(t)
  PROVE  Abstract!Next \/ UNCHANGED Abstract!vars
  <1> USE DEF IndInv, TypeOK, Goto
  <1>1. ASSUME NEW r \in Request, Start(t, r) PROVE Abstract!Invoke(t)
    <2>1. /\ absCall' = [absCall EXCEPT ![t] = CallOf(t)']
          /\ absSeen' = [absSeen EXCEPT ![t] = SeenBy(t)']
          /\ absAnswer' = [absAnswer EXCEPT ![t] = AnswerTo(t)']
      BY <1>1, OneMoves DEF Start
    <2>2. pc[t] = "idle" /\ pc'[t] \in {"check", "deny"} /\ req'[t] = r
      BY <1>1 DEF Start
    <2>3. CallOf(t)' = Strip(r) /\ SeenBy(t)' = SeenBy(t) /\ AnswerTo(t)' = None /\ CallOf(t) = None
      BY <2>2 DEF CallOf, SeenBy, AnswerTo, Strip
    <2>4. Strip(r) \in Abstract!Call
      BY StripFields
    <2>5. absHist' = absHist
      BY <1>1, HistoriesStay DEF Start
    <2> QED
      BY <2>1, <2>3, <2>4, <2>5 DEF Abstract!Invoke, absCall, absSeen, absAnswer, absHist
  <1>2. CASE Deny(t)
    <2>1. Abstract!Refuse(t)
      BY <1>2, Refuses DEF Deny
    <2> QED
      BY <2>1 DEF Abstract!Next
  <1>3. CASE RequireUnlocked(t)
    <2>1. CASE Raise(t, "VAULT_LOCKED")
      <3>1. Abstract!Refuse(t)
        BY <1>3, <2>1, Refuses DEF RequireUnlocked
      <3> QED
        BY <3>1 DEF Abstract!Next
    <2>2. CASE ~Raise(t, "VAULT_LOCKED")
      BY <1>3, <2>2, Hidden DEF RequireUnlocked
    <2> QED
      BY <2>1, <2>2
  <1>4. CASE GetDek(t)
    <2>1. CASE Raise(t, "VAULT_LOCKED")
      <3>1. Abstract!Refuse(t)
        BY <1>4, <2>1, Refuses DEF GetDek
      <3> QED
        BY <3>1 DEF Abstract!Next
    <2>2. CASE ~Raise(t, "VAULT_LOCKED")
      BY <1>4, <2>2, Hidden DEF GetDek
    <2> QED
      BY <2>1, <2>2
  <1>5. CASE Begin(t) \/ Allocate(t)
    BY <1>5, Hidden DEF Begin, Allocate
  <1>6. CASE DbFails(t)
    <2>1. Abstract!Refuse(t)
      BY <1>6, Refuses DEF DbFails, Database, failure
    <2> QED
      BY <2>1 DEF Abstract!Next
  <1>7. CASE Reply(t)
    <2>1. /\ absCall' = [absCall EXCEPT ![t] = CallOf(t)']
          /\ absSeen' = [absSeen EXCEPT ![t] = SeenBy(t)']
          /\ absAnswer' = [absAnswer EXCEPT ![t] = AnswerTo(t)']
      BY <1>7, OneMoves DEF Reply
    <2>2. pc[t] = "reply" /\ pc'[t] = "idle" /\ out'[t] = out[t]
      BY <1>7 DEF Reply
    <2>3. out[t] # None /\ out[t].result \in {"ok", "written", "history", "deleted", "NOT_FOUND"}
      BY <2>2 DEF RequestInv, Answers
    <2>4. /\ CallOf(t)' = None /\ SeenBy(t)' = None /\ AnswerTo(t)' = out[t]
          /\ SeenBy(t) = out[t] /\ CallOf(t) = Strip(req[t])
      BY <2>2, <2>3 DEF CallOf, SeenBy, AnswerTo, Strip
    <2>5. CallOf(t) # None
      BY <2>2, <2>4, StripFields, NoneAssumption DEF RequestInv, Holds
    <2>6. absHist' = absHist
      BY <1>7, HistoriesStay DEF Reply
    <2>7. Abstract!Return(t)
      BY <2>1, <2>3, <2>4, <2>5, <2>6 DEF Abstract!Return, absCall, absSeen, absAnswer, absHist
    <2> QED
      BY <2>7 DEF Abstract!Next
  <1> QED
    BY <1>1, <1>2, <1>3, <1>4, <1>5, <1>6, <1>7 DEF Abstract!Next

\* The outcomes KvStore allows, in terms of the history before and after.
Outcomes(t, p, o) ==
    \/ /\ req[t].op = "write"
       /\ History(p)' = Append(History(p), req[t].data)
       /\ o = [result |-> "written", version |-> Len(History(p)) + 1]
    \/ /\ req[t].op = "read"
       /\ History(p)' = History(p)
       /\ o = Abstract!ReadAt(History(p), req[t].version)
    \/ /\ req[t].op = "versions"
       /\ History(p)' = History(p)
       /\ o = IF History(p) = <<>> THEN NotFound
              ELSE [result |-> "history", latest |-> Len(History(p)),
                    versions |-> 1 .. Len(History(p))]
    \/ /\ req[t].op = "delete"
       /\ History(p)' = <<>>
       /\ o = IF History(p) = <<>> THEN NotFound ELSE [result |-> "deleted"]

\* The step at which a request's outcome is fixed is where its call takes effect.
LEMMA TakesEffect ==
  ASSUME IndInv, NEW t \in Thread,
         \A u \in Thread \ {t} : pc'[u] = pc[u] /\ req'[u] = req[u] /\ row'[u] = row[u] /\ out'[u] = out[u],
         pc[t] \notin {"idle", "reply", "decrypt"}, pc'[t] \in {"reply", "decrypt"},
         req'[t] = req[t],
         NEW p, p = req[t].path, \A q \in Path \ {p} : History(q)' = History(q),
         NEW o, SeenBy(t)' = o, Outcomes(t, p, o)
  PROVE  Abstract!Effect(t)
  <1>1. /\ absCall' = [absCall EXCEPT ![t] = CallOf(t)']
        /\ absSeen' = [absSeen EXCEPT ![t] = o]
        /\ absAnswer' = [absAnswer EXCEPT ![t] = AnswerTo(t)']
    BY OneMoves
  <1>2. /\ CallOf(t)' = CallOf(t) /\ AnswerTo(t)' = AnswerTo(t) /\ SeenBy(t) = None
        /\ CallOf(t) = Strip(req[t])
    BY DEF CallOf, AnswerTo, SeenBy, Strip
  <1>3. UNCHANGED <<absCall, absAnswer>>
    BY <1>1, <1>2 DEF absCall, absAnswer
  <1>4. req[t] \in Request /\ p \in Path
    BY RequestFields DEF IndInv, RequestInv, Holds
  <1>5. PICK c : c = absCall[t]
    OBVIOUS
  <1>6. /\ c # None /\ c.op = req[t].op /\ c.path = p
        /\ c.op = "write" => c.data = req[t].data
        /\ c.op = "read" => c.version = req[t].version
    BY <1>2, <1>4, <1>5, StripFields, NoneAssumption DEF absCall
  <1>7. absHist' = [absHist EXCEPT ![p] = History(p)']
    BY <1>4 DEF absHist
  <1>8. absHist[p] = History(p) /\ absSeen[t] = None
    BY <1>2, <1>4 DEF absHist, absSeen
  <1>9. \/ /\ c.op = "write"
           /\ absHist' = [absHist EXCEPT ![p] = Append(absHist[p], c.data)]
           /\ o = [result |-> "written", version |-> Len(absHist[p]) + 1]
        \/ /\ c.op = "read"
           /\ absHist' = [absHist EXCEPT ![p] = absHist[p]]
           /\ o = Abstract!ReadAt(absHist[p], c.version)
        \/ /\ c.op = "versions"
           /\ absHist' = [absHist EXCEPT ![p] = absHist[p]]
           /\ o = IF absHist[p] = <<>> THEN NotFound
                  ELSE [result |-> "history", latest |-> Len(absHist[p]),
                        versions |-> 1 .. Len(absHist[p])]
        \/ /\ c.op = "delete"
           /\ absHist' = [absHist EXCEPT ![p] = <<>>]
           /\ o = IF absHist[p] = <<>> THEN NotFound ELSE [result |-> "deleted"]
    BY <1>6, <1>7, <1>8 DEF Outcomes
  <1> HIDE DEF absCall, absHist, absSeen, absAnswer
  <1> DEFINE h == absHist[absCall[t].path]
  <1>10. /\ absCall[t] # None /\ absSeen[t] = None
         /\ \/ /\ absCall[t].op = "write"
               /\ absHist' = [absHist EXCEPT ![absCall[t].path] = Append(h, absCall[t].data)]
               /\ absSeen' = [absSeen EXCEPT ![t] = [result |-> "written", version |-> Len(h) + 1]]
            \/ /\ absCall[t].op = "read"
               /\ absHist' = [absHist EXCEPT ![absCall[t].path] = h]
               /\ absSeen' = [absSeen EXCEPT ![t] = Abstract!ReadAt(h, absCall[t].version)]
            \/ /\ absCall[t].op = "versions"
               /\ absHist' = [absHist EXCEPT ![absCall[t].path] = h]
               /\ absSeen' = [absSeen EXCEPT ![t] = IF h = <<>> THEN NotFound
                  ELSE [result |-> "history", latest |-> Len(h),
                        versions |-> 1 .. Len(h)]]
            \/ /\ absCall[t].op = "delete"
               /\ absHist' = [absHist EXCEPT ![absCall[t].path] = <<>>]
               /\ absSeen' = [absSeen EXCEPT ![t] = IF h = <<>> THEN NotFound ELSE [result |-> "deleted"]]
    BY <1>1, <1>5, <1>6, <1>8, <1>9
  <1> QED
    BY <1>3, <1>10 DEF Abstract!Effect, Abstract!NotFound, NotFound, Error, absCall, absHist, absSeen, absAnswer

LEMMA CommitRefines ==
  ASSUME IndInv, IndInv', NEW t \in Thread, Commit(t)
  PROVE  Abstract!Effect(t)
  <1>0. PICK p, o : p = req[t].path /\ o = [result |-> "written", version |-> row[t].latest_version]
    OBVIOUS
  <1>1. /\ \A u \in Thread \ {t} :
              pc'[u] = pc[u] /\ req'[u] = req[u] /\ row'[u] = row[u] /\ out'[u] = out[u]
        /\ pc[t] = "commit" /\ pc'[t] = "reply" /\ req'[t] = req[t] /\ out'[t] = o
    BY <1>0 DEF Commit, Outcome, Goto, IndInv, TypeOK
  <1>2. req[t].op = "write"
    BY <1>1 DEF IndInv, RequestInv, Holds
  <1>3. SeenBy(t)' = o
    BY <1>1 DEF SeenBy
  <1>4. /\ History(p)' = Append(History(p), req[t].data)
        /\ \A q \in Path \ {p} : History(q)' = History(q)
        /\ row[t].latest_version = Len(History(p)) + 1
    BY <1>0, CommitHistory
  <1>5. Outcomes(t, p, o)
    BY <1>0, <1>2, <1>4 DEF Outcomes
  <1> QED
    BY <1>0, <1>1, <1>3, <1>4, <1>5, TakesEffect

\* A path has no history exactly when it has no record, or no versions.
LEMMA NoHistory ==
  ASSUME IndInv, NEW p \in Path
  PROVE  /\ History(p) = <<>> <=> kv_records[p] = None
         /\ VersionsOf(p) = {} <=> kv_records[p] = None
  <1>1. HistoryInv
    BY HistoryFacts
  <1>2. CASE kv_records[p] = None
    BY <1>2 DEF History, VersionsOf
  <1>3. CASE kv_records[p] # None
    <2>1. Len(History(p)) \in Nat \ {0}
      BY <1>1, <1>3 DEF HistoryInv
    <2>2. History(p) # <<>>
      BY <2>1
    <2>3. VersionsOf(p) # {}
      BY <1>1, <1>3 DEF HistoryInv
    <2> QED
      BY <1>3, <2>2, <2>3
  <1> QED
    BY <1>2, <1>3

\* The row a read finds is the entry of the history that it asks for.
LEMMA ReadFinds ==
  ASSUME IndInv, NEW p \in Path, NEW n \in 0 .. MaxVersion
  PROVE  /\ get_version(p, n) = {} => Abstract!ReadAt(History(p), n) = NotFound
         /\ \A v \in get_version(p, n) :
               Abstract!ReadAt(History(p), n) =
                  [result |-> "ok", data |-> v.blob.plaintext, version |-> v.version,
                   latest |-> kv_records[p].latest_version]
  <1>1. HistoryInv
    BY HistoryFacts
  <1>2. CASE kv_records[p] = None
    <2>1. History(p) = <<>> /\ get_version(p, n) = {}
      BY <1>2 DEF History, get_version, VersionsOf
    <2>2. Len(<<>>) = 0
      OBVIOUS
    <2> QED
      BY <2>1, <2>2 DEF Abstract!ReadAt, Abstract!NotFound, NotFound, Error
  <1>3. CASE kv_records[p] # None
    <2>1. PICK l, k : l = kv_records[p].latest_version /\ k = IF n = 0 THEN l ELSE n
      OBVIOUS
    <2>2. /\ l \in Nat \ {0} /\ Len(History(p)) = l
          /\ \A j \in 1 .. l : \E v \in VersionsOf(p) : v.version = j
          /\ \A v \in VersionsOf(p) :
                v.version \in 1 .. l /\ History(p)[v.version] = v.blob.plaintext
      BY <1>1, <1>3, <2>1 DEF HistoryInv
    <2>3. get_version(p, n) = {v \in VersionsOf(p) : v.version = k}
      BY <2>1 DEF get_version
    <2>4. Abstract!ReadAt(History(p), n) =
             IF k \in 1 .. l
             THEN [result |-> "ok", data |-> History(p)[k], version |-> k, latest |-> l]
             ELSE NotFound
      BY <2>1, <2>2 DEF Abstract!ReadAt, Abstract!NotFound, NotFound, Error
    <2>5. get_version(p, n) = {} => k \notin 1 .. l
      BY <2>2, <2>3
    <2>6. ASSUME NEW v \in get_version(p, n) PROVE k \in 1 .. l /\ History(p)[k] = v.blob.plaintext /\ v.version = k
      BY <2>2, <2>3
    <2> QED
      BY <2>1, <2>4, <2>5, <2>6
  <1> QED
    BY <1>2, <1>3

\* A read takes effect when its row is read: what it decrypts later is fixed then.
LEMMA SelectVersionRefines ==
  ASSUME IndInv, NEW t \in Thread, SelectVersion(t)
  PROVE  Abstract!Effect(t)
  <1>0. PICK p, n : p = req[t].path /\ n = req[t].version
    OBVIOUS
  <1>1. /\ \A u \in Thread \ {t} :
              pc'[u] = pc[u] /\ req'[u] = req[u] /\ row'[u] = row[u] /\ out'[u] = out[u]
        /\ pc[t] = "select" /\ pc'[t] \in {"reply", "decrypt"} /\ req'[t] = req[t]
        /\ req[t].op = "read" /\ UNCHANGED tables
    BY DEF SelectVersion, Outcome, Goto, IndInv, TypeOK
  <1>2. p \in Path /\ n \in 0 .. MaxVersion
    BY <1>0, <1>1, RequestFields DEF IndInv, RequestInv, Holds
  <1>3. \A q \in Path : History(q)' = History(q)
    BY <1>1, SameHistory DEF tables, VersionsOf
  <1>4. SeenBy(t)' = Abstract!ReadAt(History(p), n)
    <2>1. CASE get_version(p, n) = {}
      <3>1. pc'[t] = "reply" /\ out'[t] = NotFound
        BY <1>0, <2>1 DEF SelectVersion, Outcome, Goto, IndInv, TypeOK
      <3> QED
        BY <1>2, <2>1, <3>1, ReadFinds DEF SeenBy
    <2>2. CASE get_version(p, n) # {}
      <3>1. PICK v \in get_version(p, n) :
               /\ pc'[t] = "decrypt"
               /\ row'[t] = [version |-> v.version, blob |-> v.blob,
                             latest |-> kv_records[p].latest_version]
        BY <1>0, <2>2 DEF SelectVersion, Outcome, Goto, IndInv, TypeOK
      <3>2. SeenBy(t)' = [result |-> "ok", data |-> v.blob.plaintext, version |-> v.version,
                          latest |-> kv_records[p].latest_version]
        BY <3>1 DEF SeenBy
      <3> QED
        BY <1>2, <3>2, ReadFinds
    <2> QED
      BY <2>1, <2>2
  <1>5. Outcomes(t, p, SeenBy(t)')
    BY <1>0, <1>1, <1>2, <1>3, <1>4 DEF Outcomes
  <1> QED
    BY <1>0, <1>1, <1>3, <1>5, TakesEffect

LEMMA SelectHistoryRefines ==
  ASSUME IndInv, NEW t \in Thread, SelectHistory(t)
  PROVE  Abstract!Effect(t)
  <1>0. PICK p : p = req[t].path
    OBVIOUS
  <1>1. /\ \A u \in Thread \ {t} :
              pc'[u] = pc[u] /\ req'[u] = req[u] /\ row'[u] = row[u] /\ out'[u] = out[u]
        /\ pc[t] = "select" /\ pc'[t] = "reply" /\ req'[t] = req[t]
        /\ req[t].op = "versions" /\ UNCHANGED tables
        /\ out'[t] = IF VersionsOf(p) = {} THEN NotFound
                     ELSE [result |-> "history", latest |-> kv_records[p].latest_version,
                           versions |-> {v.version : v \in VersionsOf(p)}]
    BY <1>0 DEF SelectHistory, Outcome, Goto, IndInv, TypeOK
  <1>2. p \in Path
    BY <1>0, <1>1, RequestFields DEF IndInv, RequestInv, Holds
  <1>3. \A q \in Path : History(q)' = History(q)
    BY <1>1, SameHistory DEF tables, VersionsOf
  <1>4. History(p) = <<>> <=> VersionsOf(p) = {}
    BY <1>2, NoHistory
  <1>5. VersionsOf(p) # {} => /\ kv_records[p].latest_version = Len(History(p))
                              /\ {v.version : v \in VersionsOf(p)} = 1 .. Len(History(p))
    BY <1>2, NoHistory, HistoryFacts DEF HistoryInv, IndInv, TableInv, VersionsNumbered
  <1>6. SeenBy(t)' = out'[t]
    BY <1>1 DEF SeenBy
  <1>7. SeenBy(t)' = IF History(p) = <<>> THEN NotFound
                     ELSE [result |-> "history", latest |-> Len(History(p)),
                           versions |-> 1 .. Len(History(p))]
    BY <1>1, <1>4, <1>5, <1>6
  <1>8. Outcomes(t, p, SeenBy(t)')
    BY <1>1, <1>2, <1>3, <1>7 DEF Outcomes
  <1> QED
    BY <1>0, <1>1, <1>3, <1>8, TakesEffect

\* The versions of other paths have other record ids: the cascade spares them.
LEMMA DeleteRefines ==
  ASSUME IndInv, NEW t \in Thread, Delete(t)
  PROVE  Abstract!Effect(t)
  <1>0. PICK p : p = req[t].path
    OBVIOUS
  <1>1. /\ \A u \in Thread \ {t} :
              pc'[u] = pc[u] /\ req'[u] = req[u] /\ row'[u] = row[u] /\ out'[u] = out[u]
        /\ pc[t] = "delete" /\ pc'[t] = "reply" /\ req'[t] = req[t]
        /\ out'[t] = IF kv_records[p] = None THEN NotFound ELSE [result |-> "deleted"]
        /\ kv_records' = [kv_records EXCEPT ![p] = None]
        /\ kv_versions' = kv_versions \ VersionsOf(p)
    BY <1>0 DEF Delete, cascade, Outcome, Goto, IndInv, TypeOK
  <1>2. p \in Path /\ req[t].op = "delete"
    BY <1>0, <1>1, RequestFields DEF IndInv, RequestInv, Holds
  <1>3. kv_records'[p] = None /\ \A q \in Path \ {p} : kv_records'[q] = kv_records[q]
    BY <1>1, <1>2 DEF IndInv, TypeOK
  <1>4. ASSUME NEW q \in Path \ {p} PROVE VersionsOf(q)' = VersionsOf(q)
    <2>1. VersionsOf(q) \cap VersionsOf(p) = {}
      BY <1>2 DEF IndInv, TableInv, IdsDistinct, VersionsOf
    <2> QED
      BY <1>1, <1>3, <2>1 DEF VersionsOf
  <1>5. \A q \in Path \ {p} : History(q)' = History(q)
    BY <1>3, <1>4, SameHistory
  <1>6. History(p)' = <<>>
    BY <1>3 DEF History
  <1>7. SeenBy(t)' = IF History(p) = <<>> THEN NotFound ELSE [result |-> "deleted"]
    BY <1>1, <1>2, NoHistory DEF SeenBy
  <1>8. Outcomes(t, p, SeenBy(t)')
    BY <1>2, <1>6, <1>7 DEF Outcomes
  <1> QED
    BY <1>0, <1>1, <1>5, <1>8, TakesEffect

\* Decryption shows nothing new, or refuses the read.
LEMMA DecryptRefines ==
  ASSUME IndInv, NEW t \in Thread, Decrypt(t)
  PROVE  Abstract!Next \/ UNCHANGED Abstract!vars
  <1>1. pc[t] = "decrypt" /\ UNCHANGED tables
    BY DEF Decrypt
  <1>2. /\ req[t] \in Request /\ req[t].op = "read" /\ row[t] \in Fetched /\ row[t].blob.key = Dek
        /\ row[t].blob.aad = <<req[t].user, req[t].path, row[t].version>>
    BY <1>1 DEF IndInv, RequestInv, Holds, FetchedOpens
  <1>3. CASE ~is_unlocked
    <2>1. Raise(t, "VAULT_LOCKED")
      BY <1>3 DEF Decrypt
    <2>2. Abstract!Refuse(t)
      BY <1>1, <1>2, <2>1, Refuses
    <2> QED
      BY <2>2 DEF Abstract!Next
  <1>4. CASE is_unlocked
    <2>1. opens(row[t].blob, dek, aad(req[t].user, req[t].path, row[t].version))
      BY <1>2, <1>4 DEF opens, aad, is_unlocked, IndInv, TypeOK
    <2>2. /\ \A u \in Thread \ {t} :
                pc'[u] = pc[u] /\ req'[u] = req[u] /\ row'[u] = row[u] /\ out'[u] = out[u]
          /\ pc'[t] = "reply" /\ req'[t] = req[t]
          /\ out'[t] = [result |-> "ok", data |-> row[t].blob.plaintext,
                        version |-> row[t].version, latest |-> row[t].latest]
      BY <1>4, <2>1 DEF Decrypt, Outcome, Goto, IndInv, TypeOK
    <2>3. CallOf(t)' = CallOf(t) /\ SeenBy(t)' = SeenBy(t) /\ AnswerTo(t)' = AnswerTo(t)
      BY <1>1, <2>2 DEF CallOf, SeenBy, AnswerTo
    <2>4. absCall' = absCall /\ absSeen' = absSeen /\ absAnswer' = absAnswer
      BY <2>2, <2>3, OneMoves DEF absCall, absSeen, absAnswer
    <2>5. absHist' = absHist
      BY <1>1, HistoriesStay
    <2> QED
      BY <2>4, <2>5 DEF Abstract!vars, absCall, absSeen, absAnswer, absHist
  <1> QED
    BY <1>3, <1>4

\* Locking and unlocking are not seen by callers in the abstract; a crash is one.
LEMMA EnvironmentRefines ==
  ASSUME IndInv, Unlock \/ Lock \/ Crash \/ UNCHANGED vars
  PROVE  Abstract!Next \/ UNCHANGED Abstract!vars
  <1>1. absHist' = absHist
    BY HistoriesStay DEF Unlock, Lock, Crash, vars, tables
  <1>2. CASE Crash
    <2>1. \A t \in Thread : CallOf(t)' = None /\ SeenBy(t)' = None /\ AnswerTo(t)' = None
      BY <1>2 DEF Crash, CallOf, SeenBy, AnswerTo
    <2>2. Abstract!Crash
      BY <1>1, <2>1 DEF Abstract!Crash, absHist
    <2> QED
      BY <2>2 DEF Abstract!Next
  <1>3. CASE Unlock \/ Lock \/ UNCHANGED vars
    <2>1. \A t \in Thread : CallOf(t)' = CallOf(t) /\ SeenBy(t)' = SeenBy(t) /\ AnswerTo(t)' = AnswerTo(t)
      BY <1>3 DEF Unlock, Lock, vars, CallOf, SeenBy, AnswerTo
    <2> QED
      BY <1>1, <2>1 DEF Abstract!vars, absHist
  <1> QED
    BY <1>2, <1>3

LEMMA InitRefines == Init => Abstract!Init
  BY DEF Init, Abstract!Init, History, CallOf, SeenBy, AnswerTo

LEMMA NextRefines == IndInv /\ IndInv' /\ [Next]_vars => [Abstract!Next]_(Abstract!vars)
  <1> SUFFICES ASSUME IndInv, IndInv', [Next]_vars
               PROVE  Abstract!Next \/ UNCHANGED Abstract!vars
    OBVIOUS
  <1>1. CASE Unlock \/ Lock \/ Crash \/ UNCHANGED vars
    BY <1>1, EnvironmentRefines
  <1>2. ASSUME NEW t \in Thread, (\E r \in Request : Start(t, r)) \/ Step(t)
        PROVE  Abstract!Next \/ UNCHANGED Abstract!vars
    <2>1. CASE Commit(t) \/ SelectVersion(t) \/ SelectHistory(t) \/ Delete(t)
      <3>1. Abstract!Effect(t)
        BY <2>1, CommitRefines, SelectVersionRefines, SelectHistoryRefines, DeleteRefines
      <3> QED
        BY <3>1 DEF Abstract!Next
    <2>2. CASE Decrypt(t)
      BY <2>2, DecryptRefines
    <2>3. CASE ~(Commit(t) \/ SelectVersion(t) \/ SelectHistory(t) \/ Delete(t) \/ Decrypt(t))
      BY <1>2, <2>3, PlainRefines DEF Step
    <2> QED
      BY <2>1, <2>2, <2>3
  <1> QED
    BY <1>1, <1>2 DEF Next

\* The engine implements KvStore: each answered request took effect once,
\* atomically, between its arrival and its answer, and a refused one had none.
THEOREM EngineImplementsStore == Spec => Linearizable
  <1>1. Spec => []IndInv
    BY IndAlways
  <1> QED
    BY <1>1, InitRefines, NextRefines, PTL DEF Spec, Linearizable, Abstract!Spec
=============================================================================
