-------------------------- MODULE SchemaInitProofs --------------------------
(* Theorems about SchemaInit, for any number of processes and of starts.    *)
EXTENDS SchemaInit, TLAPS

\* What the provers need to know of DATABASE_SCHEMA: eight statements, one per
\* table, and kv_records among them.
LEMMA TableFacts ==
    /\ Len(Tables) = 8 /\ DOMAIN Tables = 1 .. 8
    /\ \A i \in 1 .. 8 : Tables[i] \in TableName
    /\ \A n \in TableName : \E i \in 1 .. 8 : Tables[i] = n
    /\ "kv_records" \in TableName /\ "kv_records" \in VersionedTables
    /\ SCHEMA_VERSION = 2
<1>1. Len(Tables) = 8 /\ DOMAIN Tables = 1 .. 8
  BY DEF Tables
<1>2. \A i \in 1 .. 8 : Tables[i] \in TableName
  BY <1>1 DEF TableName
<1>3. \A n \in TableName : \E i \in 1 .. 8 : Tables[i] = n
  BY <1>1 DEF TableName
<1>4. "kv_records" \in TableName /\ "kv_records" \in VersionedTables
  <2>1. Tables[4] = "kv_records"
    BY DEF Tables
  <2>. QED
    BY <2>1, <1>2 DEF VersionedTables
<1>. QED
  BY <1>1, <1>2, <1>3, <1>4 DEF SCHEMA_VERSION

LEMMA InitInd == Init => IndInv
<1>. SUFFICES ASSUME Init PROVE IndInv
  OBVIOUS
<1>1. TypeOK
  <2>1. layout \in [TableName -> 0 .. 2] /\ schema_version \in 0 .. 2
    BY DEF Init
  <2>2. predates \in BOOLEAN
    BY Zenon DEF Init
  <2>. QED
    BY <2>1, <2>2, TableFacts, SchemaAssumption DEF Init, TypeOK
<1>2. FileInv
  BY TableFacts DEF Init, FileInv
<1>3. ProcessInv
  BY DEF Init, ProcessInv
<1>4. StampMeansComplete
  BY TableFacts DEF Init, StampMeansComplete
<1>. QED
  BY <1>1, <1>2, <1>3, <1>4 DEF IndInv

\* A step of process p preserves the invariant.
LEMMA StepInd ==
    ASSUME IndInv, NEW p \in Process,
           Start(p) \/ Guard(p) \/ Create(p) \/ Stamp(p) \/ Stop(p)
    PROVE  IndInv'
<1>. USE TableFacts
<1>1. CASE Start(p)
  <2>1. TypeOK'
    BY <1>1, SchemaAssumption DEF IndInv, TypeOK, Start
  <2>2. FileInv' /\ StampMeansComplete'
    BY <1>1 DEF IndInv, FileInv, StampMeansComplete, Start
  <2>3. ProcessInv'
    BY <1>1 DEF IndInv, TypeOK, ProcessInv, Complete, Start
  <2>. QED
    BY <2>1, <2>2, <2>3 DEF IndInv
<1>2. CASE Guard(p)
  <2>1. TypeOK'
    BY <1>2 DEF IndInv, TypeOK, Guard
  <2>2. FileInv' /\ StampMeansComplete'
    BY <1>2 DEF IndInv, FileInv, StampMeansComplete, Guard
  <2>3. acceptable => ~predates
    BY DEF IndInv, TypeOK, FileInv, acceptable, existing
  <2>4. ProcessInv'
    BY <1>2, <2>3 DEF IndInv, TypeOK, ProcessInv, Complete, Guard
  <2>. QED
    BY <2>1, <2>2, <2>4 DEF IndInv
<1>3. CASE Create(p)
  <2>. DEFINE n == Tables[next[p]]
  <2>1. ~predates /\ next[p] \in 1 .. 8 /\ n \in TableName /\ layout[n] \in {0, 2}
    BY <1>3 DEF IndInv, ProcessInv, FileInv, Create
  <2>2. layout' = [layout EXCEPT ![n] = 2]
    BY <1>3, <2>1 DEF IndInv, TypeOK, Create
  <2>3. TypeOK'
    BY <1>3, <2>1, <2>2 DEF IndInv, TypeOK, Create
  <2>4. FileInv' /\ StampMeansComplete'
    BY <1>3, <2>1, <2>2 DEF IndInv, TypeOK, FileInv, StampMeansComplete, Create
  <2>5. \A m \in TableName : layout[m] = 2 => layout'[m] = 2
    BY <2>2 DEF IndInv, TypeOK
  <2>6. \A i \in 1 .. next[p] : layout'[Tables[i]] = 2
    <3>. SUFFICES ASSUME NEW i \in 1 .. next[p] PROVE layout'[Tables[i]] = 2
      OBVIOUS
    <3>1. CASE i = next[p]
      BY <3>1, <2>1, <2>2 DEF IndInv, TypeOK
    <3>2. CASE i \in 1 .. next[p] - 1
      BY <3>2, <1>3, <2>1, <2>5 DEF IndInv, ProcessInv, Create
    <3>. QED
      BY <3>1, <3>2, <2>1
  <2>7. next[p] = 8 => Complete'
    BY <2>6 DEF Complete
  <2>8. ProcessInv'
    <3>. SUFFICES ASSUME NEW q \in Process
         PROVE /\ pc'[q] \in {"create", "stamp", "serving"} => ~predates'
               /\ pc'[q] = "guard" => next'[q] = 1
               /\ pc'[q] = "create" =>
                     /\ next'[q] \in 1 .. 8
                     /\ \A i \in 1 .. next'[q] - 1 : layout'[Tables[i]] = 2
               /\ pc'[q] \in {"stamp", "serving"} => Complete'
      BY DEF ProcessInv, Complete
    <3>1. CASE q = p
      BY <3>1, <1>3, <2>1, <2>6, <2>7 DEF IndInv, TypeOK, Create
    <3>2. CASE q # p
      <4>1. pc'[q] = pc[q] /\ next'[q] = next[q] /\ predates' = predates
        BY <3>2, <1>3 DEF IndInv, TypeOK, Create
      <4>2. pc[q] = "create" =>
               next[q] \in 1 .. 8 /\ \A i \in 1 .. next[q] - 1 : layout'[Tables[i]] = 2
        BY <2>5 DEF IndInv, ProcessInv
      <4>3. pc[q] \in {"stamp", "serving"} => Complete'
        BY <2>5 DEF IndInv, ProcessInv, Complete
      <4>. QED
        BY <4>1, <4>2, <4>3 DEF IndInv, ProcessInv
    <3>. QED
      BY <3>1, <3>2
  <2>. QED
    BY <2>3, <2>4, <2>8 DEF IndInv
<1>4. CASE Stamp(p)
  <2>1. ~predates /\ Complete
    BY <1>4 DEF IndInv, ProcessInv, Stamp
  <2>2. TypeOK'
    BY <1>4 DEF IndInv, TypeOK, Stamp
  <2>3. FileInv' /\ StampMeansComplete'
    BY <1>4, <2>1 DEF IndInv, FileInv, StampMeansComplete, Complete, Stamp
  <2>4. ProcessInv'
    BY <1>4, <2>1 DEF IndInv, TypeOK, ProcessInv, Complete, Stamp
  <2>. QED
    BY <2>2, <2>3, <2>4 DEF IndInv
<1>5. CASE Stop(p)
  <2>1. TypeOK'
    BY <1>5 DEF IndInv, TypeOK, Stop
  <2>2. FileInv' /\ StampMeansComplete'
    BY <1>5 DEF IndInv, FileInv, StampMeansComplete, Stop
  <2>3. ProcessInv'
    BY <1>5 DEF IndInv, TypeOK, ProcessInv, Complete, Stop
  <2>. QED
    BY <2>1, <2>2, <2>3 DEF IndInv
<1>. QED
  BY <1>1, <1>2, <1>3, <1>4, <1>5

LEMMA StutterInd == IndInv /\ UNCHANGED vars => IndInv'
BY DEF IndInv, TypeOK, FileInv, ProcessInv, Complete, StampMeansComplete, vars

\* The inductive invariant holds in every execution of Database.initialize.
LEMMA IndAlways == Spec => []IndInv
<1>1. IndInv /\ [Next]_vars => IndInv'
  BY StepInd, StutterInd DEF Next
<1>. QED
  BY InitInd, <1>1, PTL DEF Spec

\* Database.initialize never stamps the version row before every table is there:
\* what the row says is true after any interruption.
THEOREM StampComplete == Spec => []StampMeansComplete
<1>1. IndInv => StampMeansComplete
  BY DEF IndInv
<1>. QED
  BY IndAlways, <1>1, PTL

\* A server that got through Database.initialize has all tables, in the current
\* layout, whatever other starts did before or do meanwhile; and the version row is
\* never from the future.
THEOREM ServesComplete == Spec => []ServesCurrent
<1>1. IndInv => ServesCurrent
  BY DEF IndInv, ProcessInv, Complete, ServesCurrent
<1>. QED
  BY IndAlways, <1>1, PTL

\* _guard_legacy_schema protects an old database: no step of any start changes a
\* table or the version row.
THEOREM LegacyStays == Spec => LegacyUntouched
<1>1. IndInv /\ [Next]_vars => [predates => UNCHANGED <<layout, schema_version>>]_vars
  <2>. SUFFICES ASSUME IndInv, Next, predates
       PROVE UNCHANGED <<layout, schema_version>>
    BY DEF vars
  <2>1. PICK p \in Process : Start(p) \/ Guard(p) \/ Create(p) \/ Stamp(p) \/ Stop(p)
    BY DEF Next
  <2>2. ~Create(p) /\ ~Stamp(p)
    BY DEF IndInv, ProcessInv, Create, Stamp
  <2>. QED
    BY <2>1, <2>2 DEF Start, Guard, Stop
<1>. QED
  BY IndAlways, <1>1, PTL DEF Spec, LegacyUntouched
=============================================================================
