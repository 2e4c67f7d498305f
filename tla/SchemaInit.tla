----------------------------- MODULE SchemaInit -----------------------------
(***************************************************************************)
(* Database.initialize, run by lifespan at every start of a server         *)
(* process: the guard against a database of the previous schema, the       *)
(* CREATE TABLE IF NOT EXISTS statements of executescript, each of which   *)
(* commits on its own, and the INSERT of schema_version.  A process may    *)
(* stop between any two of them, and two processes may start together.     *)
(***************************************************************************)
EXTENDS Naturals, Sequences

CONSTANTS
    Process,   \* server processes on the same database file
    MaxStart   \* bound on the starts

ASSUME SchemaAssumption == MaxStart \in Nat

SCHEMA_VERSION == 2

\* DATABASE_SCHEMA, in its order.
Tables == <<"schema_metadata", "users", "sessions", "kv_records", "kv_versions",
            "named_keys", "named_key_versions", "audit_logs">>
TableName == {Tables[i] : i \in DOMAIN Tables}

\* Tables whose shape changed between schema 1 and 2.
VersionedTables == {"kv_records", "named_keys", "audit_logs"}

VARIABLES
    layout,          \* layout[n]: the schema table n was created with, 0 if absent
    schema_version,  \* the row of schema_metadata, 0 if absent
    predates,        \* whether the database is from before schema 2
    pc,              \* pc[p]: where process p is
    next,            \* next[p]: the statement of DATABASE_SCHEMA p runs next
    starts           \* number of starts so far

vars == <<layout, schema_version, predates, pc, next, starts>>

\* A new file, or one that schema 1 left behind, before or after its version row.
Init ==
    /\ \/ /\ predates = FALSE
          /\ layout = [n \in TableName |-> 0]
          /\ schema_version = 0
       \/ /\ predates = TRUE
          /\ layout = [n \in TableName |->
                         IF n \in {"kv_versions", "named_key_versions"} THEN 0 ELSE 1]
          /\ schema_version \in {0, 1}
    /\ pc = [p \in Process |-> "down"]
    /\ next = [p \in Process |-> 1]
    /\ starts = 0

Start(p) ==
    /\ pc[p] = "down"
    /\ starts < MaxStart
    /\ starts' = starts + 1
    /\ pc' = [pc EXCEPT ![p] = "guard"]
    /\ next' = [next EXCEPT ![p] = 1]
    /\ UNCHANGED <<layout, schema_version, predates>>

\* _guard_legacy_schema
existing == {n \in TableName : layout[n] # 0}

acceptable_AnyVersion ==
    existing \cap VersionedTables = {} \/ "schema_metadata" \in existing
acceptable ==
    \/ existing \cap VersionedTables = {}
    \/ "schema_metadata" \in existing /\ schema_version >= SCHEMA_VERSION

Guard_StampsFirst(p) ==
    /\ pc[p] = "guard"
    /\ pc' = [pc EXCEPT ![p] = IF acceptable THEN "stamp" ELSE "legacy_error"]
    /\ UNCHANGED <<layout, schema_version, predates, next, starts>>
Guard(p) ==
    /\ pc[p] = "guard"
    /\ pc' = [pc EXCEPT ![p] = IF acceptable THEN "create" ELSE "legacy_error"]
    /\ UNCHANGED <<layout, schema_version, predates, next, starts>>

\* One statement of executescript.
Create(p) ==
    LET n == Tables[next[p]] IN
    /\ pc[p] = "create"
    /\ layout' = [layout EXCEPT ![n] = IF @ = 0 THEN SCHEMA_VERSION ELSE @]
    /\ next' = [next EXCEPT ![p] = @ + 1]
    /\ pc' = [pc EXCEPT ![p] = IF next[p] = Len(Tables) THEN "stamp" ELSE "create"]
    /\ UNCHANGED <<schema_version, predates, starts>>

\* INSERT OR REPLACE of schema_version; the application starts to serve.
Stamp(p) ==
    /\ pc[p] = "stamp"
    /\ schema_version' = SCHEMA_VERSION
    /\ pc' = [pc EXCEPT ![p] = "serving"]
    /\ UNCHANGED <<layout, predates, next, starts>>

\* The process ends: stopped, crashed, or with the LegacySchemaError.
Stop(p) ==
    /\ pc[p] # "down"
    /\ pc' = [pc EXCEPT ![p] = "down"]
    /\ UNCHANGED <<layout, schema_version, predates, next, starts>>

Next == \E p \in Process : Start(p) \/ Guard(p) \/ Create(p) \/ Stamp(p) \/ Stop(p)

Spec == Init /\ [][Next]_vars

-----------------------------------------------------------------------------
(* Properties                                                              *)

\* The shape of the state.
TypeOK ==
    /\ layout \in [TableName -> 0 .. SCHEMA_VERSION]
    /\ schema_version \in 0 .. SCHEMA_VERSION
    /\ predates \in BOOLEAN
    /\ pc \in [Process -> {"down", "guard", "create", "stamp", "serving", "legacy_error"}]
    /\ next \in [Process -> 1 .. Len(Tables) + 1]
    /\ starts \in 0 .. MaxStart

\* Requests are served only over tables of the current layout, all of them there,
\* whatever earlier starts left half done.
ServesCurrent ==
    /\ TypeOK
    /\ (\E p \in Process : pc[p] = "serving") =>
          \A n \in TableName : layout[n] = SCHEMA_VERSION

\* The version row is written last: once it says 2, every table is of schema 2.
StampMeansComplete ==
    schema_version = SCHEMA_VERSION => \A n \in TableName : layout[n] = SCHEMA_VERSION

\* A database of the previous schema is refused and left exactly as it was.
LegacyUntouched ==
    [][predates => UNCHANGED <<layout, schema_version>>]_vars

-----------------------------------------------------------------------------
(* The inductive invariant behind the safety properties.                   *)

Complete == \A n \in TableName : layout[n] = SCHEMA_VERSION

\* An old database keeps a table that the guard looks for and no current version
\* row; a new one has no table of an old layout.
FileInv ==
    IF predates THEN schema_version < SCHEMA_VERSION /\ layout["kv_records"] # 0
    ELSE \A n \in TableName : layout[n] \in {0, SCHEMA_VERSION}

\* A process past the guard works on a new database, and the statements it has
\* run have left their tables behind.
ProcessInv == \A p \in Process :
    /\ pc[p] \in {"create", "stamp", "serving"} => ~predates
    /\ pc[p] = "guard" => next[p] = 1
    /\ pc[p] = "create" =>
          /\ next[p] \in DOMAIN Tables
          /\ \A i \in 1 .. next[p] - 1 : layout[Tables[i]] = SCHEMA_VERSION
    /\ pc[p] \in {"stamp", "serving"} => Complete

IndInv == TypeOK /\ FileInv /\ ProcessInv /\ StampMeansComplete
=============================================================================
