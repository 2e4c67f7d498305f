----------------------------- MODULE AuditChain -----------------------------
(***************************************************************************)
(* AuditRepository and chain.py: concurrent log() calls that extend the    *)
(* hash chain inside BEGIN IMMEDIATE, verify() that reads the rows and the *)
(* stored head on two connections, and changes made to the table from      *)
(* outside, which verify() is there to find.                               *)
(***************************************************************************)
EXTENDS Naturals, FiniteSets

CONSTANTS
    Thread,  \* requests in progress at the same time
    Entry,   \* requester, action, target and result of an entry
    MaxLog,  \* bound on the entries logged
    MaxEdit, \* bound on the outside edits
    None

ASSUME AuditAssumption ==
    /\ None \notin Thread \cup Entry
    /\ MaxLog \in Nat /\ MaxEdit \in Nat

VARIABLES
    audit_logs,  \* the rows of the table
    head,        \* the values of audit_chain_head in schema_metadata: none or one
    writer,      \* the request that holds SQLite's write lock, or None
    pc,          \* pc[t]: where request t is
    new,         \* new[t]: the entry request t logs, then the row it inserts
    rows,        \* rows[t]: the rows verify has read
    out,         \* out[t]: the reason verify answered, "none" when valid
    logged,      \* history: the rows log() committed
    edits,       \* the number of outside edits so far
    covered      \* history: log() overwrote a head that the last row did not match

table   == <<audit_logs, head>>
history == <<logged, edits, covered>>
vars == <<table, writer, pc, new, rows, out, history>>

\* SHA-256 over the previous hash and the canonical encoding of sequence and
\* entry, free of collisions: the hash is what it was computed from.
GENESIS_HASH == <<>>
compute_entry_hash(prev_hash, sequence, entry) == <<prev_hash, sequence, entry>>

Init ==
    /\ audit_logs = {} /\ head = {}
    /\ writer = None
    /\ pc   = [t \in Thread |-> "idle"]
    /\ new  = [t \in Thread |-> None]
    /\ rows = [t \in Thread |-> {}]
    /\ out  = [t \in Thread |-> None]
    /\ logged = {}
    /\ edits = 0 /\ covered = FALSE

Goto(t, l) == pc' = [pc EXCEPT ![t] = l]

-----------------------------------------------------------------------------
(* verify_chain                                                            *)

\* The rows in the order of their sequence: At(tab, i) is the i-th.
At(tab, i) == CHOOSE r \in tab : Cardinality({s \in tab : s.sequence <= r.sequence}) = i

\* verify_chain.  While the loop goes on, prev_hash is the entry_hash of the row
\* before, which it has just recomputed.
prev_hash_at(tab, i) == IF i = 1 THEN GENESIS_HASH ELSE At(tab, i - 1).entry_hash

linked_Unchecked(tab, i) == TRUE
linked(tab, i) == At(tab, i).prev_hash = prev_hash_at(tab, i)

row_reason(tab, i) ==
    LET r == At(tab, i) IN
    IF r.sequence # i THEN "SEQUENCE_GAP"
    ELSE IF ~linked(tab, i) THEN "PREV_HASH_MISMATCH"
    ELSE IF compute_entry_hash(r.prev_hash, r.sequence, r.entry) # r.entry_hash
    THEN "ENTRY_HASH_MISMATCH"
    ELSE "none"

\* The first row that fails decides; then the head, unless there is none.
verify_chain(tab, expected_head) ==
    LET n   == Cardinality(tab)
        bad == {i \in 1 .. n : row_reason(tab, i) # "none"}
    IN  IF bad # {}
        THEN row_reason(tab, CHOOSE i \in bad : \A j \in bad : i <= j)
        ELSE IF \E h \in expected_head : h # prev_hash_at(tab, n + 1)
        THEN "HEAD_MISMATCH"
        ELSE "none"

-----------------------------------------------------------------------------
(* log                                                                     *)

LogStart(t, e) ==
    /\ pc[t] = "idle"
    /\ Cardinality(logged) < MaxLog
    /\ new' = [new EXCEPT ![t] = e]
    /\ out' = [out EXCEPT ![t] = None]
    /\ Goto(t, "begin")
    /\ UNCHANGED <<table, writer, rows, history>>

\* BEGIN IMMEDIATE
LogBegin(t) ==
    /\ pc[t] = "begin"
    /\ writer = None
    /\ writer' = t
    /\ Goto(t, "link")
    /\ UNCHANGED <<table, new, rows, out, history>>

\* The row that extends table tab with entry e, linked to its last row.
last_row(tab) == CHOOSE r \in tab : \A s \in tab : s.sequence <= r.sequence

next_row_Unlinked(tab, e) ==
    LET sequence == IF tab = {} THEN 1 ELSE last_row(tab).sequence + 1 IN
    [sequence |-> sequence, entry |-> e, prev_hash |-> GENESIS_HASH,
     entry_hash |-> compute_entry_hash(GENESIS_HASH, sequence, e)]
next_row(tab, e) ==
    LET sequence  == IF tab = {} THEN 1 ELSE last_row(tab).sequence + 1
        prev_hash == IF tab = {} THEN GENESIS_HASH ELSE last_row(tab).entry_hash
    IN  [sequence |-> sequence, entry |-> e, prev_hash |-> prev_hash,
         entry_hash |-> compute_entry_hash(prev_hash, sequence, e)]

LogLink(t) ==
    /\ pc[t] = "link"
    /\ new' = [new EXCEPT ![t] = next_row(audit_logs, new[t])]
    /\ Goto(t, "commit")
    /\ UNCHANGED <<table, writer, rows, out, history>>

\* The hash log() links to.  It never compares it with the stored head.
last_hash(tab) == IF tab = {} THEN {} ELSE {last_row(tab).entry_hash}

\* INSERT OR REPLACE of the head.
new_head_Forgotten(row) == head
new_head(row) == {row.entry_hash}

\* INSERT under the UNIQUE constraint on sequence, the head, and COMMIT.
LogCommit(t) ==
    /\ pc[t] = "commit"
    /\ \A r \in audit_logs : r.sequence # new[t].sequence
    /\ audit_logs' = audit_logs \cup {new[t]}
    /\ head' = new_head(new[t])
    /\ logged' = logged \cup {new[t]}
    /\ writer' = None
    /\ new' = [new EXCEPT ![t] = None]
    /\ Goto(t, "idle")
    /\ covered' = (covered \/ last_hash(audit_logs) # head)
    /\ UNCHANGED <<rows, out, edits>>

\* sqlite3.Error (busy timeout, full disk, failed COMMIT): ROLLBACK, answer 500.
LogFails(t) ==
    /\ pc[t] \in {"begin", "link", "commit"}
    /\ writer' = IF writer = t THEN None ELSE writer
    /\ new' = [new EXCEPT ![t] = None]
    /\ Goto(t, "idle")
    /\ UNCHANGED <<table, rows, out, history>>

-----------------------------------------------------------------------------
(* verify                                                                  *)

\* verify takes the stored head into account only for a log that has rows.
expected(tab, stored) == IF tab # {} THEN stored ELSE {}

VerifyRows(t) ==
    /\ pc[t] = "idle"
    /\ rows' = [rows EXCEPT ![t] = audit_logs]
    /\ out' = [out EXCEPT ![t] = None]
    /\ Goto(t, "verify")
    /\ UNCHANGED <<table, writer, new, history>>

VerifyHead(t) ==
    /\ pc[t] = "verify"
    /\ out' = [out EXCEPT ![t] = verify_chain(rows[t], expected(rows[t], head))]
    /\ rows' = [rows EXCEPT ![t] = {}]
    /\ Goto(t, "idle")
    /\ UNCHANGED <<table, writer, new, history>>

-----------------------------------------------------------------------------
(* Changes to the table from outside the service, between transactions: the *)
(* cases chain.py names.  The stored head is left alone.                   *)

Edited(tab) ==
    /\ edits < MaxEdit
    /\ writer = None
    /\ edits' = edits + 1
    /\ audit_logs' = tab
    /\ UNCHANGED <<head, writer, pc, new, rows, out, logged, covered>>

\* A field of a row is changed, with or without a matching entry_hash.
EditField ==
    \E r \in audit_logs, e \in Entry :
        \E h \in {r.entry_hash, compute_entry_hash(r.prev_hash, r.sequence, e)} :
            Edited((audit_logs \ {r}) \cup {[r EXCEPT !.entry = e, !.entry_hash = h]})

\* Rows are deleted: a middle one, the tail, or all of them.
EditDelete == \E gone \in SUBSET audit_logs : gone # {} /\ Edited(audit_logs \ gone)

\* Two rows change places.
EditReorder ==
    \E r, s \in audit_logs :
        /\ r # s
        /\ Edited((audit_logs \ {r, s}) \cup {[r EXCEPT !.sequence = s.sequence],
                                              [s EXCEPT !.sequence = r.sequence]})

-----------------------------------------------------------------------------
\* The process stops; SQLite rolls an open transaction back.
Crash ==
    /\ writer' = None
    /\ pc'   = [t \in Thread |-> "idle"]
    /\ new'  = [t \in Thread |-> None]
    /\ rows' = [t \in Thread |-> {}]
    /\ out'  = [t \in Thread |-> None]
    /\ UNCHANGED <<table, history>>

Step(t) ==
    \/ LogBegin(t)
    \/ LogLink(t)
    \/ LogCommit(t)
    \/ LogFails(t)
    \/ VerifyHead(t)

Next ==
    \/ \E t \in Thread : (\E e \in Entry : LogStart(t, e)) \/ VerifyRows(t) \/ Step(t)
    \/ EditField
    \/ EditDelete
    \/ EditReorder
    \/ Crash

Spec == Init /\ [][Next]_vars

-----------------------------------------------------------------------------
(* Properties                                                              *)

Reason == {"none", "SEQUENCE_GAP", "PREV_HASH_MISMATCH", "ENTRY_HASH_MISMATCH",
           "HEAD_MISMATCH"}

\* The shape of a row: hashes are whatever compute_entry_hash made of them.
IsRow(r) ==
    /\ r = [sequence |-> r.sequence, entry |-> r.entry, prev_hash |-> r.prev_hash,
            entry_hash |-> r.entry_hash]
    /\ r.sequence \in Nat \ {0}
    /\ r.entry \in Entry

\* The shape of the tables and of what requests hold: a thread about to commit
\* has a row, one about to link an entry.
TypeOK ==
    /\ \A r \in audit_logs \cup logged : IsRow(r)
    /\ IsFiniteSet(audit_logs) /\ IsFiniteSet(logged)
    /\ writer \in Thread \cup {None}
    /\ pc \in [Thread -> {"idle", "begin", "link", "commit", "verify"}]
    /\ DOMAIN new = Thread /\ DOMAIN rows = Thread
    /\ \A t \in Thread : /\ pc[t] \in {"begin", "link"} => new[t] \in Entry
                         /\ pc[t] = "commit" => IsRow(new[t])
                         /\ \A r \in rows[t] : IsRow(r)
    /\ out \in [Thread -> Reason \cup {None}]
    /\ edits \in 0 .. MaxEdit

\* A log that nobody edited is one unforked chain: every logged row is there, a
\* row's prev_hash is the entry_hash of the one before, sequence numbers have
\* neither gaps nor repetitions, and the stored head is the last hash.
ChainLinear ==
    /\ TypeOK
    /\ edits = 0 =>
          /\ audit_logs = logged
          /\ {r.sequence : r \in audit_logs} = 1 .. Cardinality(audit_logs)
          /\ \A r \in audit_logs :
                /\ r.entry_hash = compute_entry_hash(r.prev_hash, r.sequence, r.entry)
                /\ r.sequence = 1 => r.prev_hash = GENESIS_HASH
                /\ \A s \in audit_logs :
                      r.sequence = s.sequence + 1 => r.prev_hash = s.entry_hash
          /\ head = last_hash(audit_logs)

\* On a log that nobody edited, verify raises an alarm only when an entry was
\* committed between its two reads, and then only about the head.
AlarmOnlyWhenRaced ==
    [][\A t \in Thread :
          edits = 0 /\ pc[t] = "verify" /\ pc'[t] = "idle" /\ out'[t] \notin {"none", None}
             => out'[t] = "HEAD_MISMATCH" /\ rows[t] # audit_logs]_vars

\* chain.py: an edit "cannot" be made "without breaking the chain".  A log that
\* has rows and is not exactly what was logged does not pass verify: no change of a
\* field, deletion or reordering goes unnoticed, even with recomputed hashes and
\* however many edits and entries follow.  The exception: log() does not look at
\* the stored head, so an entry logged after the last row was changed or cut
\* overwrites the one trace of that.
EditsDetected ==
    ~covered /\ audit_logs \notin {{}, logged} =>
        verify_chain(audit_logs, expected(audit_logs, head)) # "none"
=============================================================================
