-------------------------- MODULE AuditChainProofs --------------------------
(* Theorems about AuditChain, for any number of requests, entries, logged   *)
(* rows and outside edits.                                                 *)
EXTENDS AuditChain, FiniteSetTheorems, NaturalsInduction, TLAPS

-----------------------------------------------------------------------------
(* Tables                                                                  *)

\* A table as SQLite can hold it: finitely many rows, sequence is UNIQUE.
Table(tab) ==
    /\ IsFiniteSet(tab)
    /\ \A r \in tab : IsRow(r)
    /\ \A r, s \in tab : r.sequence = s.sequence => r = s

\* One unforked chain from the genesis hash on.
Linear(tab) ==
    /\ Table(tab)
    /\ {r.sequence : r \in tab} = 1 .. Cardinality(tab)
    /\ \A r \in tab :
          /\ r.entry_hash = compute_entry_hash(r.prev_hash, r.sequence, r.entry)
          /\ r.sequence = 1 => r.prev_hash = GENESIS_HASH
          /\ \A s \in tab : r.sequence = s.sequence + 1 => r.prev_hash = s.entry_hash

\* A table that has rows has a last one.
LEMMA LastRow ==
    ASSUME NEW tab, Table(tab), tab # {}
    PROVE  last_row(tab) \in tab /\ \A s \in tab : s.sequence <= last_row(tab).sequence
<1>. DEFINE HasLast(T) == \E r \in T : \A s \in T : s.sequence <= r.sequence
            Bad == {T \in SUBSET tab : T # {} /\ ~HasLast(T)}
<1>. SUFFICES ASSUME ~HasLast(tab) PROVE FALSE
  BY DEF last_row
<1>1. IsWellFoundedOn(StrictSubsetOrdering(tab), SUBSET tab)
  BY FS_StrictSubsetOrderingWellFounded, FS_FiniteSubsetsOfFinite DEF Table
<1>2. tab \in Bad
  OBVIOUS
<1>3. Bad \subseteq SUBSET tab
  OBVIOUS
<1>. HIDE DEF Bad
<1>4. PICK T \in Bad : \A U \in Bad : <<U, T>> \notin StrictSubsetOrdering(tab)
  BY <1>1, <1>2, <1>3, WFMin
<1>. USE DEF Bad
<1>5. PICK x \in T : TRUE
  OBVIOUS
<1>6. \A s \in T : s.sequence \in Nat
  BY DEF Table, IsRow
<1>7. CASE T \ {x} = {}
  <2>1. T = {x}
    BY <1>5, <1>7
  <2>. QED
    BY <2>1, <1>6
<1>8. CASE T \ {x} # {}
  <2>1. HasLast(T \ {x})
    <3>1. T \ {x} \subseteq tab /\ T \subseteq tab /\ T \ {x} # T
      BY <1>5
    <3>2. <<T \ {x}, T>> \in StrictSubsetOrdering(tab)
      BY <3>1 DEF StrictSubsetOrdering
    <3>. QED
      BY <3>1, <3>2, <1>4, <1>8
  <2>2. PICK m \in T \ {x} : \A s \in T \ {x} : s.sequence <= m.sequence
    BY <2>1
  <2>3. CASE x.sequence <= m.sequence
    BY <2>2, <2>3
  <2>4. CASE m.sequence <= x.sequence
    BY <2>2, <2>4, <1>6
  <2>. QED
    BY <2>3, <2>4, <1>6
<1>. QED
  BY <1>7, <1>8

\* The row that log() makes: its sequence is larger than all others, and it links
\* to the last row.
LEMMA NextRow ==
    ASSUME NEW tab, Table(tab), NEW e \in Entry
    PROVE  LET new_row == next_row(tab, e) IN
           /\ IsRow(new_row) /\ new_row.entry = e
           /\ new_row.entry_hash
                 = compute_entry_hash(new_row.prev_hash, new_row.sequence, e)
           /\ tab = {} => new_row.sequence = 1 /\ new_row.prev_hash = GENESIS_HASH
           /\ tab # {} => /\ new_row.sequence = last_row(tab).sequence + 1
                          /\ new_row.prev_hash = last_row(tab).entry_hash
           /\ \A s \in tab : s.sequence < new_row.sequence
<1>1. CASE tab = {}
  BY <1>1 DEF next_row, IsRow
<1>2. CASE tab # {}
  <2>1. last_row(tab) \in tab /\ \A s \in tab : s.sequence <= last_row(tab).sequence
    BY <1>2, LastRow
  <2>2. \A s \in tab : s.sequence \in Nat \ {0}
    BY DEF Table, IsRow
  <2>3. \A s \in tab : s.sequence < last_row(tab).sequence + 1
    BY <2>1, <2>2
  <2>. QED
    BY <1>2, <2>1, <2>2, <2>3 DEF next_row, IsRow
<1>. QED
  BY <1>1, <1>2

LEMMA LinearLast ==
    ASSUME NEW tab, Linear(tab), tab # {}
    PROVE  /\ Cardinality(tab) \in Nat \ {0}
           /\ last_row(tab) \in tab
           /\ last_row(tab).sequence = Cardinality(tab)
           /\ \A r \in tab : r.sequence \in 1 .. Cardinality(tab)
<1>1. Cardinality(tab) \in Nat \ {0}
  BY FS_CardinalityType, FS_EmptySet DEF Linear, Table
<1>2. last_row(tab) \in tab /\ \A s \in tab : s.sequence <= last_row(tab).sequence
  BY LastRow DEF Linear
<1>3. \A r \in tab : r.sequence \in 1 .. Cardinality(tab)
  BY DEF Linear
<1>4. PICK r \in tab : r.sequence = Cardinality(tab)
  BY <1>1 DEF Linear
<1>5. last_row(tab).sequence = Cardinality(tab)
  BY <1>1, <1>2, <1>3, <1>4
<1>. QED
  BY <1>1, <1>2, <1>3, <1>5

\* log() makes a longer chain of a chain.
LEMMA LinearExtend ==
    ASSUME NEW tab, Linear(tab), NEW e \in Entry
    PROVE  LET longer == tab \cup {next_row(tab, e)} IN
           Linear(longer) /\ last_hash(longer) = {next_row(tab, e).entry_hash}
<1>. DEFINE longer == tab \cup {next_row(tab, e)}
<1>0. Table(tab)
  BY DEF Linear
<1>. PICK x, n : x = next_row(tab, e) /\ n = Cardinality(tab)
  OBVIOUS
<1>1. n \in Nat
  BY <1>0, FS_CardinalityType DEF Table
<1>2. IsRow(x) /\ \A s \in tab : s.sequence < x.sequence
  BY <1>0, NextRow
<1>3. \A s \in tab : s.sequence \in Nat
  BY <1>0 DEF Table, IsRow
<1>4. x.sequence = n + 1
  <2>1. CASE tab = {}
    BY <2>1, <1>0, NextRow, FS_EmptySet
  <2>2. CASE tab # {}
    BY <2>2, <1>0, NextRow, LinearLast
  <2>. QED
    BY <2>1, <2>2
<1>5. x \notin tab
  BY <1>2, <1>3
<1>6. IsFiniteSet(longer) /\ Cardinality(longer) = n + 1
  BY <1>0, <1>5, FS_AddElement DEF Table
<1>7. Table(longer)
  BY <1>0, <1>2, <1>3, <1>6 DEF Table
<1>8. {r.sequence : r \in longer} = 1 .. n + 1
  <2>1. {r.sequence : r \in longer} = {r.sequence : r \in tab} \cup {x.sequence}
    OBVIOUS
  <2>2. {r.sequence : r \in tab} = 1 .. n
    BY DEF Linear
  <2>3. 1 .. n + 1 = (1 .. n) \cup {n + 1}
    BY <1>1
  <2>. QED
    BY <2>1, <2>2, <2>3, <1>4
<1>9. x.entry_hash = compute_entry_hash(x.prev_hash, x.sequence, x.entry)
  BY <1>0, NextRow
<1>10. x.sequence = 1 => x.prev_hash = GENESIS_HASH
  BY <1>0, <1>1, <1>4, FS_EmptySet, NextRow DEF Table
<1>11. \A s \in tab : x.sequence = s.sequence + 1 => x.prev_hash = s.entry_hash
  <2>. SUFFICES ASSUME NEW s \in tab, x.sequence = s.sequence + 1
                PROVE  x.prev_hash = s.entry_hash
    OBVIOUS
  <2>1. last_row(tab) \in tab /\ last_row(tab).sequence = n
    BY LinearLast
  <2>2. s = last_row(tab)
    BY <2>1, <1>0, <1>1, <1>3, <1>4 DEF Table
  <2>. QED
    BY <2>2, <1>0, NextRow
<1>12. \A r \in tab : r.sequence # x.sequence + 1 /\ x.sequence # x.sequence + 1
  BY <1>2, <1>3 DEF IsRow
<1>13. Linear(longer)
  <2>1. \A r \in longer :
          /\ r.entry_hash = compute_entry_hash(r.prev_hash, r.sequence, r.entry)
          /\ r.sequence = 1 => r.prev_hash = GENESIS_HASH
          /\ \A s \in longer : r.sequence = s.sequence + 1 => r.prev_hash = s.entry_hash
    BY <1>9, <1>10, <1>11, <1>12, <1>2 DEF Linear, IsRow
  <2>. QED
    BY <2>1, <1>6, <1>7, <1>8 DEF Linear
<1>14. last_row(longer) = x
  <2>1. last_row(longer) \in longer /\ x.sequence <= last_row(longer).sequence
    BY <1>7, LastRow
  <2>. QED
    BY <2>1, <1>2, <1>3 DEF IsRow
<1>. QED
  BY <1>13, <1>14 DEF last_hash

\* A chain without its last row is a chain, and the hash it ends in is the one the
\* last row links to.
LEMMA LinearCut ==
    ASSUME NEW tab, Linear(tab), tab # {}
    PROVE  LET x == last_row(tab)
               shorter == tab \ {x}
           IN  /\ Linear(shorter)
               /\ x.sequence = 1 => shorter = {}
               /\ x.sequence # 1 => shorter # {} /\ last_hash(shorter) = {x.prev_hash}
<1>. PICK x, n : x = last_row(tab) /\ n = Cardinality(tab)
  OBVIOUS
<1>. DEFINE shorter == tab \ {x}
<1>0. Table(tab)
  BY DEF Linear
<1>1. n \in Nat \ {0} /\ x \in tab /\ x.sequence = n
  BY LinearLast
<1>2. \A r \in tab : r.sequence \in 1 .. n
  BY LinearLast
<1>3. IsFiniteSet(shorter) /\ Cardinality(shorter) = n - 1
  BY <1>0, <1>1, FS_RemoveElement DEF Table
<1>4. \A r \in shorter : r.sequence \in 1 .. n - 1
  BY <1>0, <1>1, <1>2 DEF Table
<1>5. {r.sequence : r \in shorter} = 1 .. n - 1
  <2>1. \A i \in 1 .. n - 1 : \E r \in shorter : r.sequence = i
    <3>. SUFFICES ASSUME NEW i \in 1 .. n - 1 PROVE \E r \in shorter : r.sequence = i
      OBVIOUS
    <3>1. i \in 1 .. n
      BY <1>1
    <3>2. PICK r \in tab : r.sequence = i
      BY <3>1 DEF Linear
    <3>. QED
      BY <3>2, <1>1
  <2>. QED
    BY <2>1, <1>4
<1>6. Linear(shorter)
  <2>1. Table(shorter)
    BY <1>0, <1>3 DEF Table
  <2>. QED
    BY <2>1, <1>3, <1>5 DEF Linear
<1>7. x.sequence = 1 => shorter = {}
  BY <1>1, <1>4
<1>8. ASSUME x.sequence # 1 PROVE shorter # {} /\ last_hash(shorter) = {x.prev_hash}
  <2>1. shorter # {}
    BY <1>1, <1>5, <1>8
  <2>2. last_row(shorter) \in shorter /\ last_row(shorter).sequence = n - 1
    BY <1>3, <1>6, <2>1, LinearLast
  <2>3. x.sequence = last_row(shorter).sequence + 1
    BY <1>1, <2>2
  <2>4. x.prev_hash = last_row(shorter).entry_hash
    BY <1>1, <2>2, <2>3 DEF Linear
  <2>. QED
    BY <2>1, <2>4 DEF last_hash
<1>. QED
  BY <1>6, <1>7, <1>8

\* In a chain, the row with sequence i is the i-th.
LEMMA LinearAt ==
    ASSUME NEW tab, Linear(tab), NEW i \in 1 .. Cardinality(tab)
    PROVE  At(tab, i) \in tab /\ At(tab, i).sequence = i
<1>. DEFINE Upto(k) == {s \in tab : s.sequence <= k}
<1>. PICK n : n = Cardinality(tab)
  OBVIOUS
<1>0. Table(tab) /\ n \in Nat
  BY FS_CardinalityType DEF Linear, Table
<1>1. ASSUME NEW k \in 1 .. n PROVE Cardinality(Upto(k)) = k
  <2>. DEFINE f == [s \in Upto(k) |-> s.sequence]
  <2>1. \A s \in tab : s.sequence \in 1 .. n
    BY DEF Linear
  <2>2. f \in [Upto(k) -> 1 .. k]
    BY <1>0, <1>1, <2>1
  <2>3. \A r, s \in Upto(k) : f[r] = f[s] => r = s
    BY <1>0 DEF Table
  <2>4. \A j \in 1 .. k : \E s \in Upto(k) : f[s] = j
    <3>. SUFFICES ASSUME NEW j \in 1 .. k PROVE \E s \in Upto(k) : f[s] = j
      OBVIOUS
    <3>1. j \in 1 .. n /\ j <= k
      BY <1>0, <1>1
    <3>2. PICK s \in tab : s.sequence = j
      BY <3>1 DEF Linear
    <3>. QED
      BY <3>1, <3>2
  <2>5. f \in Injection(Upto(k), 1 .. k) /\ f \in Surjection(Upto(k), 1 .. k)
    BY <2>2, <2>3, <2>4 DEF Injection, Surjection, IsInjective
  <2>6. IsFiniteSet(1 .. k) /\ Cardinality(1 .. k) = k
    BY <1>0, <1>1, FS_Interval
  <2>. HIDE DEF f
  <2>. QED
    BY <2>5, <2>6, FS_Injection
<1>2. \A r \in tab : r.sequence \in 1 .. n /\ Cardinality(Upto(r.sequence)) = r.sequence
  BY <1>1 DEF Linear
<1>3. PICK r \in tab : r.sequence = i
  BY DEF Linear
<1>4. At(tab, i) \in tab /\ Cardinality(Upto(At(tab, i).sequence)) = i
  BY <1>2, <1>3 DEF At
<1>. QED
  BY <1>2, <1>4

\* verify answers "none" or, if the stored head is another, "HEAD_MISMATCH" of a
\* chain.
LEMMA LinearVerifies ==
    ASSUME NEW tab, Linear(tab), NEW stored
    PROVE  LET reason == verify_chain(tab, expected(tab, stored)) IN
           /\ reason \in {"none", "HEAD_MISMATCH"}
           /\ stored = last_hash(tab) => reason = "none"
<1>. PICK n : n = Cardinality(tab)
  OBVIOUS
<1>0. Table(tab) /\ n \in Nat
  BY FS_CardinalityType DEF Linear, Table
<1>1. \A i \in 1 .. n : At(tab, i) \in tab /\ At(tab, i).sequence = i
  BY LinearAt
<1>2. ASSUME NEW i \in 1 .. n PROVE row_reason(tab, i) = "none"
  <2>1. At(tab, i) \in tab /\ At(tab, i).sequence = i
    BY <1>1
  <2>2. CASE i = 1
    BY <2>1, <2>2 DEF Linear, row_reason, linked, prev_hash_at
  <2>3. CASE i # 1
    <3>1. i - 1 \in 1 .. n /\ i = (i - 1) + 1
      BY <1>0, <2>3
    <3>2. At(tab, i - 1) \in tab /\ At(tab, i - 1).sequence = i - 1
      BY <3>1, <1>1
    <3>3. At(tab, i).prev_hash = At(tab, i - 1).entry_hash
      BY <2>1, <3>1, <3>2 DEF Linear
    <3>. QED
      BY <2>1, <2>3, <3>3 DEF Linear, row_reason, linked, prev_hash_at
  <2>. QED
    BY <2>2, <2>3
<1>3. {i \in 1 .. n : row_reason(tab, i) # "none"} = {}
  BY <1>2
<1>4. verify_chain(tab, expected(tab, stored))
        = IF \E h \in expected(tab, stored) : h # prev_hash_at(tab, n + 1)
          THEN "HEAD_MISMATCH" ELSE "none"
  BY <1>3 DEF verify_chain
<1>5. ASSUME tab # {}, stored = last_hash(tab)
      PROVE  \A h \in expected(tab, stored) : h = prev_hash_at(tab, n + 1)
  <2>1. n # 0 /\ last_row(tab) \in tab /\ last_row(tab).sequence = n
    BY <1>5, LinearLast
  <2>2. At(tab, n) = last_row(tab)
    BY <1>0, <1>1, <2>1 DEF Table
  <2>3. n + 1 # 1 /\ (n + 1) - 1 = n
    BY <1>0, <2>1
  <2>4. prev_hash_at(tab, n + 1) = last_row(tab).entry_hash
    BY <2>2, <2>3 DEF prev_hash_at
  <2>. QED
    BY <1>5, <2>4 DEF expected, last_hash
<1>6. tab = {} => expected(tab, stored) = {}
  BY DEF expected
<1>. QED
  BY <1>4, <1>5, <1>6

\* Only a chain passes verify, and only if it ends in the stored head.
LEMMA VerifiedIsLinear ==
    ASSUME NEW tab, Table(tab), tab # {}, NEW stored,
           verify_chain(tab, expected(tab, stored)) = "none"
    PROVE  Linear(tab) /\ \A h \in stored : {h} = last_hash(tab)
<1>. DEFINE Upto(k) == {s \in tab : s.sequence <= k}
<1>. PICK n : n = Cardinality(tab)
  OBVIOUS
<1>0. n \in Nat \ {0}
  BY FS_CardinalityType, FS_EmptySet DEF Table
<1>1. \A i \in 1 .. n : row_reason(tab, i) = "none"
  <2>. SUFFICES ASSUME {i \in 1 .. n : row_reason(tab, i) # "none"} # {} PROVE FALSE
    OBVIOUS
  <2>. DEFINE bad == {i \in 1 .. n : row_reason(tab, i) # "none"}
  <2>. PICK first : first = CHOOSE i \in bad : \A j \in bad : i <= j
    OBVIOUS
  <2>1. row_reason(tab, first) = "none"
    BY DEF verify_chain
  <2>2. \E i \in bad : \A j \in bad : i <= j
    <3>1. bad \subseteq Nat /\ bad # {}
      OBVIOUS
    <3>2. PICK less : less = {ss \in Nat \X Nat : ss[1] < ss[2]}
      OBVIOUS
    <3>3. IsWellFoundedOn(less, Nat)
      BY <3>2, NatLessThanWellFounded, Zenon DEF OpToRel
    <3>4. PICK i \in bad : \A j \in bad : <<j, i>> \notin less
      <4>. HIDE DEF bad
      <4>. QED
        BY <3>1, <3>3, WFMin
    <3>5. \A j \in bad : j \in Nat /\ i \in Nat /\ ~(j < i)
      BY <3>1, <3>2, <3>4
    <3>6. \A j \in bad : i <= j
      BY <3>5
    <3>. QED
      BY <3>4, <3>6
  <2>. QED
    BY <2>1, <2>2
<1>2. \A r \in tab : /\ r.sequence \in Nat
                      /\ Upto(r.sequence) \in SUBSET tab /\ r \in Upto(r.sequence)
  BY DEF Table, IsRow
<1>3. \A r \in tab : IsFiniteSet(Upto(r.sequence)) /\ Cardinality(Upto(r.sequence)) \in 1 .. n
  <2>. SUFFICES ASSUME NEW r \in tab
                PROVE  IsFiniteSet(Upto(r.sequence)) /\ Cardinality(Upto(r.sequence)) \in 1 .. n
    OBVIOUS
  <2>. PICK S : S = Upto(r.sequence)
    OBVIOUS
  <2>1. S \in SUBSET tab /\ S # {}
    BY <1>2
  <2>2. IsFiniteSet(S) /\ Cardinality(S) <= n
    BY <2>1, FS_Subset DEF Table
  <2>3. Cardinality(S) \in Nat /\ Cardinality(S) # 0
    BY <2>1, <2>2, FS_CardinalityType, FS_EmptySet
  <2>. QED
    BY <2>2, <2>3, <1>0
<1>4. ASSUME NEW r \in tab, NEW s \in tab,
             Cardinality(Upto(r.sequence)) = Cardinality(Upto(s.sequence))
      PROVE  r = s
  <2>1. CASE r.sequence <= s.sequence
    <3>1. Upto(r.sequence) \in SUBSET Upto(s.sequence)
      BY <1>2, <2>1
    <3>2. Upto(s.sequence) = Upto(r.sequence)
      BY <3>1, <1>3, <1>4, FS_Subset
    <3>. QED
      BY <3>2, <2>1, <1>2 DEF Table
  <2>2. CASE s.sequence <= r.sequence
    <3>1. Upto(s.sequence) \in SUBSET Upto(r.sequence)
      BY <1>2, <2>2
    <3>2. Upto(s.sequence) = Upto(r.sequence)
      BY <3>1, <1>3, <1>4, FS_Subset
    <3>. QED
      BY <3>2, <2>2, <1>2 DEF Table
  <2>. QED
    BY <2>1, <2>2, <1>2
<1>5. ASSUME NEW r \in tab
      PROVE  /\ r.sequence \in 1 .. n
             /\ At(tab, r.sequence) = r
             /\ r.prev_hash = prev_hash_at(tab, r.sequence)
             /\ r.entry_hash = compute_entry_hash(r.prev_hash, r.sequence, r.entry)
  <2>. PICK i \in 1 .. n : i = Cardinality(Upto(r.sequence))
    BY <1>3
  <2>1. At(tab, i) \in tab /\ Cardinality(Upto(At(tab, i).sequence)) = i
    BY DEF At
  <2>2. At(tab, i) = r
    BY <2>1, <1>4
  <2>. QED
    BY <2>2, <1>1 DEF row_reason, linked
<1>6. {r.sequence : r \in tab} = 1 .. n
  <2>. DEFINE f == [r \in tab |-> r.sequence]
  <2>1. f \in Injection(tab, 1 .. n)
    BY <1>5 DEF Injection, IsInjective, Table
  <2>2. IsFiniteSet(1 .. n) /\ Cardinality(1 .. n) = n
    BY <1>0, FS_Interval
  <2>3. f \in Surjection(tab, 1 .. n)
    <3>. HIDE DEF f
    <3>. QED
      BY <2>1, <2>2, FS_Injection
  <2>4. \A i \in 1 .. n : \E r \in tab : r.sequence = i
    BY <2>3 DEF Surjection
  <2>. QED
    BY <2>4, <1>5
<1>7. Linear(tab)
  <2>1. \A r \in tab : r.sequence = 1 => r.prev_hash = GENESIS_HASH
    BY <1>5 DEF prev_hash_at
  <2>2. ASSUME NEW r \in tab, NEW s \in tab, r.sequence = s.sequence + 1
        PROVE  r.prev_hash = s.entry_hash
    <3>1. r.sequence # 1 /\ r.sequence - 1 = s.sequence
      BY <1>5, <2>2
    <3>. QED
      BY <3>1, <1>5 DEF prev_hash_at
  <2>. QED
    BY <1>5, <1>6, <2>1, <2>2 DEF Linear
<1>8. prev_hash_at(tab, n + 1) = last_row(tab).entry_hash
  <2>1. n + 1 # 1 /\ (n + 1) - 1 = n
    BY <1>0
  <2>2. last_row(tab) \in tab /\ last_row(tab).sequence = n
    BY <1>7, LinearLast
  <2>3. At(tab, n) = last_row(tab)
    BY <2>2, <1>5
  <2>. QED
    BY <2>1, <2>3 DEF prev_hash_at
<1>9. \A h \in expected(tab, stored) : h = prev_hash_at(tab, n + 1)
  <2>1. {i \in 1 .. n : row_reason(tab, i) # "none"} = {}
    BY <1>1
  <2>. QED
    BY <2>1 DEF verify_chain
<1>. QED
  BY <1>7, <1>8, <1>9 DEF expected, last_hash

-----------------------------------------------------------------------------
(* The inductive invariant                                                 *)

\* BEGIN IMMEDIATE: one request at a time links and commits, and nothing changes
\* the table under the row it is about to insert.
Locked(t) ==
    /\ pc[t] \in {"link", "commit"} <=> writer = t
    /\ pc[t] = "commit" => /\ new[t].entry \in Entry
                           /\ new[t] = next_row(audit_logs, new[t].entry)

\* Before the first edit, the table and what verify has read of it are chains.
Unedited ==
    edits = 0 => /\ audit_logs = logged
                 /\ Linear(audit_logs)
                 /\ head = last_hash(audit_logs)
                 /\ \A t \in Thread : Linear(rows[t])

\* The stored head commits to all that was logged: no other chain ends in it.
Sealed == ~covered => \A tab : Linear(tab) /\ last_hash(tab) = head => tab = logged

IndInv ==
    /\ TypeOK
    /\ Table(audit_logs)
    /\ \A t \in Thread : Locked(t)
    /\ Unedited
    /\ Sealed
    /\ audit_logs # {} => \E h : head = {h}

LEMMA EmptyIsLinear == Linear({}) /\ last_hash({}) = {}
<1>1. IsFiniteSet({}) /\ Cardinality({}) = 0
  BY FS_EmptySet
<1>2. {r.sequence : r \in {}} = 1 .. 0
  OBVIOUS
<1>. QED
  BY <1>1, <1>2 DEF Linear, Table, last_hash

LEMMA InitInd == Init => IndInv
<1>. SUFFICES ASSUME Init PROVE IndInv
  OBVIOUS
<1>1. TypeOK
  BY AuditAssumption, FS_EmptySet DEF Init, TypeOK
<1>2. Table(audit_logs) /\ Unedited
  BY EmptyIsLinear DEF Init, Linear, Unedited
<1>3. \A t \in Thread : Locked(t)
  BY AuditAssumption DEF Init, Locked
<1>4. Sealed
  <2>. SUFFICES ASSUME NEW tab, Linear(tab), last_hash(tab) = {} PROVE tab = {}
    BY DEF Init, Sealed
  <2>. QED
    BY DEF last_hash
<1>. QED
  BY <1>1, <1>2, <1>3, <1>4 DEF Init, IndInv

LEMMA ReasonType == \A tab, stored : verify_chain(tab, stored) \in Reason
<1>1. \A tab, i : row_reason(tab, i) \in Reason
  BY DEF row_reason, Reason
<1>. QED
  BY <1>1 DEF verify_chain, Reason

\* The steps that leave the table, the head and the history alone.
LEMMA LocalStep ==
    ASSUME IndInv, NEW t \in Thread, UNCHANGED <<table, history>>,
           \/ \E e \in Entry : LogStart(t, e)
           \/ LogBegin(t) \/ LogLink(t) \/ LogFails(t)
           \/ VerifyRows(t) \/ VerifyHead(t)
    PROVE  IndInv'
<1>. USE DEF table, history
<1>0. TypeOK /\ Table(audit_logs) /\ Unedited
  BY DEF IndInv
<1>1. TypeOK'
  <2>1. CASE \E e \in Entry : LogStart(t, e)
    BY <2>1, <1>0 DEF TypeOK, LogStart, Goto
  <2>2. CASE LogBegin(t)
    BY <2>2, <1>0 DEF TypeOK, LogBegin, Goto
  <2>3. CASE LogLink(t)
    <3>1. IsRow(next_row(audit_logs, new[t]))
      BY <2>3, <1>0, NextRow DEF TypeOK, LogLink
    <3>. QED
      BY <2>3, <3>1, <1>0 DEF TypeOK, LogLink, Goto
  <2>4. CASE LogFails(t)
    BY <2>4, <1>0 DEF TypeOK, LogFails, Goto
  <2>5. CASE VerifyRows(t)
    BY <2>5, <1>0 DEF TypeOK, VerifyRows, Goto
  <2>6. CASE VerifyHead(t)
    BY <2>6, <1>0, ReasonType DEF TypeOK, VerifyHead, Goto
  <2>. QED
    BY <2>1, <2>2, <2>3, <2>4, <2>5, <2>6
<1>2. Table(audit_logs)' /\ (audit_logs # {} => \E h : head = {h})'
  BY DEF IndInv
<1>3. ASSUME NEW u \in Thread PROVE Locked(u)'
  <2>0. Locked(u) /\ Locked(t)
    BY DEF IndInv
  <2>1. CASE \E e \in Entry : LogStart(t, e)
    BY <2>0, <2>1, <1>0 DEF TypeOK, Locked, LogStart, Goto
  <2>2. CASE LogBegin(t)
    BY <2>0, <2>2, <1>0, AuditAssumption DEF TypeOK, Locked, LogBegin, Goto
  <2>3. CASE LogLink(t)
    <3>1. next_row(audit_logs, new[t]).entry = new[t] /\ new[t] \in Entry
      BY <2>3, <1>0, NextRow DEF TypeOK, LogLink
    <3>. QED
      BY <2>0, <2>3, <3>1, <1>0 DEF TypeOK, Locked, LogLink, Goto
  <2>4. CASE LogFails(t)
    BY <2>0, <2>4, <1>0, AuditAssumption DEF TypeOK, Locked, LogFails, Goto
  <2>5. CASE VerifyRows(t)
    BY <2>0, <2>5, <1>0 DEF TypeOK, Locked, VerifyRows, Goto
  <2>6. CASE VerifyHead(t)
    BY <2>0, <2>6, <1>0 DEF TypeOK, Locked, VerifyHead, Goto
  <2>. QED
    BY <2>1, <2>2, <2>3, <2>4, <2>5, <2>6
<1>4. Unedited'
  <2>1. CASE VerifyRows(t)
    BY <2>1, <1>0 DEF TypeOK, Unedited, VerifyRows, last_hash, last_row
  <2>2. CASE VerifyHead(t)
    BY <2>2, <1>0, EmptyIsLinear DEF TypeOK, Unedited, VerifyHead, last_hash, last_row
  <2>3. CASE UNCHANGED rows
    BY <2>3, <1>0 DEF Unedited
  <2>. QED
    BY <2>1, <2>2, <2>3 DEF LogStart, LogBegin, LogLink, LogFails
<1>5. Sealed'
  BY DEF IndInv, Sealed
<1>. QED
  BY <1>1, <1>2, <1>3, <1>4, <1>5 DEF IndInv

\* COMMIT extends the chain, and the new head commits to all of it unless the old
\* one did not match the table.
LEMMA CommitStep ==
    ASSUME IndInv, NEW t \in Thread, LogCommit(t)
    PROVE  IndInv'
<1>0. TypeOK /\ Table(audit_logs) /\ Unedited /\ Sealed /\ Locked(t)
  BY DEF IndInv
<1>. PICK x, e : x = new[t] /\ e = new[t].entry
  OBVIOUS
<1>1. e \in Entry /\ x = next_row(audit_logs, e) /\ writer = t
  BY <1>0 DEF LogCommit, Locked
<1>2. /\ audit_logs' = audit_logs \cup {x}
      /\ logged' = logged \cup {x}
      /\ head' = {x.entry_hash}
  BY DEF LogCommit, new_head
<1>3. IsRow(x) /\ x.entry = e
  BY <1>0, <1>1, NextRow
<1>4. Table(audit_logs')
  <2>1. IsFiniteSet(audit_logs')
    BY <1>0, <1>2, FS_AddElement DEF Table
  <2>2. \A r \in audit_logs : r.sequence # x.sequence
    BY DEF LogCommit
  <2>. QED
    BY <2>1, <2>2, <1>0, <1>2, <1>3 DEF Table
<1>5. TypeOK'
  <2>1. IsFiniteSet(logged')
    BY <1>0, <1>2, FS_AddElement DEF TypeOK
  <2>. QED
    BY <2>1, <1>0, <1>2, <1>3, <1>4 DEF TypeOK, Table, LogCommit, Goto
<1>6. \A u \in Thread : Locked(u)'
  <2>. SUFFICES ASSUME NEW u \in Thread PROVE Locked(u)'
    OBVIOUS
  <2>1. Locked(u)
    BY DEF IndInv
  <2>. QED
    BY <2>1, <1>0, <1>1, AuditAssumption DEF TypeOK, Locked, LogCommit, Goto
<1>7. Unedited'
  <2>. SUFFICES ASSUME edits = 0 PROVE Unedited'
    BY DEF Unedited, LogCommit
  <2>1. audit_logs = logged /\ Linear(audit_logs) /\ \A u \in Thread : Linear(rows[u])
    BY <1>0 DEF Unedited
  <2>2. Linear(audit_logs') /\ last_hash(audit_logs') = head'
    BY <2>1, <1>1, <1>2, LinearExtend
  <2>3. audit_logs' = logged' /\ rows' = rows
    BY <2>1, <1>2 DEF LogCommit
  <2>. QED
    BY <2>1, <2>2, <2>3 DEF Unedited, last_hash, last_row
<1>8. Sealed'
  <2>. SUFFICES ASSUME ~covered, last_hash(audit_logs) = head,
                       NEW tab, Linear(tab), last_hash(tab) = {x.entry_hash}
                PROVE  tab = logged \cup {x}
    <3>1. ~covered' => ~covered /\ last_hash(audit_logs) = head
      BY DEF LogCommit
    <3>. QED
      BY <3>1, <1>2 DEF Sealed, last_hash, last_row
  <2>0. tab # {}
    BY EmptyIsLinear
  <2>. PICK y : y = last_row(tab)
    OBVIOUS
  <2>. DEFINE shorter == tab \ {y}
  <2>1. y \in tab /\ y.entry_hash = x.entry_hash
    BY <2>0, LinearLast DEF last_hash
  <2>2. y = x
    <3>1. x.entry_hash = <<x.prev_hash, x.sequence, x.entry>>
      BY <1>0, <1>1, <1>3, NextRow DEF compute_entry_hash
    <3>2. y.entry_hash = <<y.prev_hash, y.sequence, y.entry>> /\ IsRow(y)
      BY <2>1 DEF Linear, Table, compute_entry_hash
    <3>3. y.prev_hash = x.prev_hash /\ y.sequence = x.sequence /\ y.entry = x.entry
      BY <2>1, <3>1, <3>2
    <3>. QED
      BY <2>1, <3>2, <3>3, <1>3 DEF IsRow
  <2>3. /\ Linear(shorter)
        /\ y.sequence = 1 => shorter = {}
        /\ y.sequence # 1 => last_hash(shorter) = {y.prev_hash}
    BY <2>0, LinearCut
  <2>4. last_hash(shorter) = last_hash(audit_logs)
    <3>1. CASE audit_logs = {}
      <4>1. x.sequence = 1
        BY <3>1, <1>0, <1>1, NextRow
      <4>. QED
        BY <3>1, <4>1, <2>2, <2>3
    <3>2. CASE audit_logs # {}
      <4>1. /\ x.sequence = last_row(audit_logs).sequence + 1
            /\ x.prev_hash = last_row(audit_logs).entry_hash
        BY <3>2, <1>0, <1>1, NextRow
      <4>2. last_row(audit_logs).sequence \in Nat \ {0}
        BY <3>2, <1>0, LastRow DEF Table, IsRow
      <4>3. y.sequence # 1
        BY <4>1, <4>2, <2>2
      <4>. QED
        BY <3>2, <4>1, <4>3, <2>2, <2>3 DEF last_hash
    <3>. QED
      BY <3>1, <3>2
  <2>5. shorter = logged
    <3>. HIDE DEF shorter
    <3>. QED
      BY <2>3, <2>4, <1>0 DEF Sealed
  <2>. QED
    BY <2>1, <2>2, <2>5
<1>. QED
  BY <1>2, <1>4, <1>5, <1>6, <1>7, <1>8 DEF IndInv

\* What an edit leaves is a table SQLite can hold, and no sealed chain.
LEMMA EditStep ==
    ASSUME IndInv, EditField \/ EditDelete \/ EditReorder
    PROVE  IndInv'
<1>0. TypeOK /\ Table(audit_logs) /\ Sealed
  BY DEF IndInv
<1>1. PICK tab : Edited(tab) /\ Table(tab) /\ (tab # {} => audit_logs # {})
  <2>1. CASE EditField
    <3>0. PICK h : \E r \in audit_logs, e \in Entry :
             Edited((audit_logs \ {r}) \cup {[r EXCEPT !.entry = e, !.entry_hash = h]})
      BY <2>1 DEF EditField
    <3>1. PICK r \in audit_logs, e \in Entry :
             Edited((audit_logs \ {r}) \cup {[r EXCEPT !.entry = e, !.entry_hash = h]})
      BY <3>0
    <3>. DEFINE x == [r EXCEPT !.entry = e, !.entry_hash = h]
                tab == (audit_logs \ {r}) \cup {x}
    <3>2. IsRow(r) /\ IsRow(x) /\ x.sequence = r.sequence
      <4>1. IsRow(r)
        BY <1>0 DEF Table
      <4>2. PICK a, b, c, d : r = [sequence |-> a, entry |-> b, prev_hash |-> c,
                                   entry_hash |-> d] /\ a \in Nat \ {0}
        BY <4>1 DEF IsRow
      <4>3. x = [sequence |-> a, entry |-> e, prev_hash |-> c, entry_hash |-> h]
        <5>1. [r EXCEPT !.entry = e] = [sequence |-> a, entry |-> e, prev_hash |-> c,
                                        entry_hash |-> d]
          BY <4>2
        <5>2. PICK q : q = [sequence |-> a, entry |-> e, prev_hash |-> c, entry_hash |-> d]
          OBVIOUS
        <5>3. x = [q EXCEPT !.entry_hash = h]
          BY <5>1, <5>2
        <5>. HIDE DEF x
        <5>. QED
          BY <5>2, <5>3
      <4>. QED
        BY <4>1, <4>2, <4>3 DEF IsRow
    <3>3. IsFiniteSet(tab)
      BY <1>0, FS_RemoveElement, FS_AddElement DEF Table
    <3>. HIDE DEF x
    <3>4. Table(tab)
      BY <1>0, <3>2, <3>3 DEF Table
    <3>. QED
      BY <3>1, <3>4 DEF x
  <2>2. CASE EditDelete
    <3>1. PICK gone \in SUBSET audit_logs : Edited(audit_logs \ gone)
      BY <2>2 DEF EditDelete
    <3>2. IsFiniteSet(audit_logs \ gone)
      BY <1>0, FS_Subset DEF Table
    <3>. QED
      BY <3>1, <3>2, <1>0 DEF Table
  <2>3. CASE EditReorder
    <3>1. PICK r \in audit_logs, s \in audit_logs :
             /\ r # s
             /\ Edited((audit_logs \ {r, s}) \cup {[r EXCEPT !.sequence = s.sequence],
                                                   [s EXCEPT !.sequence = r.sequence]})
      BY <2>3 DEF EditReorder
    <3>. DEFINE x == [r EXCEPT !.sequence = s.sequence]
                y == [s EXCEPT !.sequence = r.sequence]
                tab == (audit_logs \ {r, s}) \cup {x, y}
    <3>2. IsRow(x) /\ x.sequence = s.sequence /\ IsRow(y) /\ y.sequence = r.sequence
      <4>1. IsRow(r) /\ IsRow(s)
        BY <1>0 DEF Table
      <4>. QED
        BY <4>1 DEF IsRow
    <3>. HIDE DEF x, y
    <3>3. IsFiniteSet(tab)
      <4>1. IsFiniteSet(audit_logs \ {r, s})
        BY <1>0, FS_Subset DEF Table
      <4>2. IsFiniteSet((audit_logs \ {r, s}) \cup {x})
        BY <4>1, FS_AddElement
      <4>3. tab = ((audit_logs \ {r, s}) \cup {x}) \cup {y}
        OBVIOUS
      <4>. QED
        BY <4>2, <4>3, FS_AddElement
    <3>4. Table(tab)
      BY <1>0, <3>1, <3>2, <3>3 DEF Table
    <3>. QED
      BY <3>1, <3>4 DEF x, y
  <2>. QED
    BY <2>1, <2>2, <2>3
<1>2. TypeOK'
  BY <1>0, <1>1, AuditAssumption DEF TypeOK, Table, Edited
<1>3. Table(audit_logs')
  BY <1>1 DEF Edited
<1>4. ASSUME NEW u \in Thread PROVE Locked(u)'
  <2>1. Locked(u) /\ writer = None /\ writer' = None /\ pc' = pc
    BY <1>1 DEF IndInv, Edited
  <2>. QED
    BY <2>1, AuditAssumption DEF Locked
<1>5. Unedited'
  BY <1>0, <1>1 DEF TypeOK, Unedited, Edited
<1>6. Sealed'
  BY <1>0, <1>1 DEF Sealed, Edited
<1>7. (audit_logs # {} => \E h : head = {h})'
  BY <1>1 DEF IndInv, Edited
<1>. QED
  BY <1>2, <1>3, <1>4, <1>5, <1>6, <1>7 DEF IndInv

LEMMA CrashStep == IndInv /\ Crash => IndInv'
<1>. SUFFICES ASSUME IndInv, Crash PROVE IndInv'
  OBVIOUS
<1>1. TypeOK'
  BY DEF IndInv, TypeOK, Crash, table, history
<1>2. \A t \in Thread : Locked(t)'
  BY AuditAssumption DEF Locked, Crash
<1>3. Unedited'
  BY EmptyIsLinear DEF IndInv, Unedited, Crash, table, history
<1>4. Table(audit_logs)' /\ Sealed' /\ (audit_logs # {} => \E h : head = {h})'
  BY DEF IndInv, Sealed, Crash, table, history
<1>. QED
  BY <1>1, <1>2, <1>3, <1>4 DEF IndInv

LEMMA NextInd == IndInv /\ [Next]_vars => IndInv'
<1>. SUFFICES ASSUME IndInv, [Next]_vars PROVE IndInv'
  OBVIOUS
<1>1. CASE UNCHANGED vars
  BY <1>1 DEF IndInv, TypeOK, Locked, Unedited, Sealed, vars, table, history
<1>2. ASSUME NEW t \in Thread, (\E e \in Entry : LogStart(t, e)) \/ VerifyRows(t) \/ Step(t)
      PROVE  IndInv'
  <2>1. CASE LogCommit(t)
    BY <2>1, CommitStep
  <2>2. CASE ~LogCommit(t)
    <3>1. \/ \E e \in Entry : LogStart(t, e)
          \/ LogBegin(t) \/ LogLink(t) \/ LogFails(t)
          \/ VerifyRows(t) \/ VerifyHead(t)
      BY <1>2, <2>2 DEF Step
    <3>2. UNCHANGED <<table, history>>
      BY <3>1 DEF LogStart, LogBegin, LogLink, LogFails, VerifyRows, VerifyHead
    <3>. QED
      BY <3>1, <3>2, LocalStep
  <2>. QED
    BY <2>1, <2>2
<1>. QED
  BY <1>1, <1>2, EditStep, CrashStep DEF Next

LEMMA Inductive == Spec => []IndInv
BY InitInd, NextInd, PTL DEF Spec

-----------------------------------------------------------------------------
(* Theorems                                                                *)

\* log(): concurrent requests never fork the chain, leave a gap or repeat a
\* sequence number, and the stored head is the hash of the last row.
THEOREM ChainNeverForks == Spec => []ChainLinear
<1>1. IndInv => ChainLinear
  BY DEF IndInv, Unedited, Linear, ChainLinear
<1>. QED
  BY <1>1, Inductive, PTL

\* verify_chain: no edit of a field, deletion or reordering of rows passes verify,
\* after any number of edits and of further entries, as long as log() never went on
\* from a table that did not end in the stored head.
THEOREM EditsAreDetected == Spec => []EditsDetected
<1>1. IndInv => EditsDetected
  <2>. SUFFICES ASSUME IndInv, ~covered, audit_logs # {},
                       verify_chain(audit_logs, expected(audit_logs, head)) = "none"
                PROVE  audit_logs = logged
    BY DEF EditsDetected
  <2>1. PICK h : head = {h}
    BY DEF IndInv
  <2>2. Linear(audit_logs) /\ last_hash(audit_logs) = head
    BY <2>1, VerifiedIsLinear DEF IndInv
  <2>. QED
    BY <2>2 DEF IndInv, Sealed
<1>. QED
  BY <1>1, Inductive, PTL

\* verify: on a log that nobody edited it raises no alarm but "HEAD_MISMATCH", and
\* that only if an entry was committed between its two reads.
THEOREM AlarmsOnlyWhenRaced == Spec => AlarmOnlyWhenRaced
<1>. DEFINE Quiet(t) ==
       edits = 0 /\ pc[t] = "verify" /\ pc'[t] = "idle" /\ out'[t] \notin {"none", None}
          => out'[t] = "HEAD_MISMATCH" /\ rows[t] # audit_logs
<1>1. ASSUME IndInv, [Next]_vars, NEW t \in Thread PROVE Quiet(t)
  <2>. SUFFICES ASSUME edits = 0, pc[t] = "verify", pc'[t] = "idle",
                       out'[t] \notin {"none", None}
                PROVE  out'[t] = "HEAD_MISMATCH" /\ rows[t] # audit_logs
    OBVIOUS
  <2>0. TypeOK /\ Linear(rows[t]) /\ head = last_hash(audit_logs)
    BY <1>1 DEF IndInv, Unedited
  <2>1. VerifyHead(t)
    <3>1. UNCHANGED vars \/ Next
      BY <1>1
    <3>2. CASE UNCHANGED vars
      BY <3>2 DEF vars
    <3>3. CASE Crash
      BY <3>3 DEF Crash
    <3>4. CASE EditField \/ EditDelete \/ EditReorder
      BY <3>4 DEF EditField, EditDelete, EditReorder, Edited
    <3>5. ASSUME NEW u \in Thread,
                 (\E e \in Entry : LogStart(u, e)) \/ VerifyRows(u) \/ Step(u)
          PROVE  VerifyHead(t)
      <4>1. CASE u # t
        <5>1. \E l : pc' = [pc EXCEPT ![u] = l]
          BY <3>5 DEF Step, LogStart, VerifyRows, LogBegin, LogLink, LogCommit,
                      LogFails, VerifyHead, Goto
        <5>2. pc'[t] = pc[t]
          BY <4>1, <5>1, <2>0 DEF TypeOK
        <5>. QED
          BY <5>2
      <4>2. CASE u = t
        BY <3>5, <4>2, <2>0 DEF TypeOK, Step, LogStart, VerifyRows, LogBegin, LogLink,
                               LogCommit, LogFails
      <4>. QED
        BY <4>1, <4>2
    <3>. QED
      BY <3>1, <3>2, <3>3, <3>4, <3>5 DEF Next
  <2>2. out'[t] = verify_chain(rows[t], expected(rows[t], head))
    BY <2>0, <2>1 DEF TypeOK, VerifyHead
  <2>. QED
    BY <2>0, <2>2, LinearVerifies
<1>2. IndInv /\ [Next]_vars => [\A t \in Thread : Quiet(t)]_vars
  BY <1>1
<1>. QED
  BY <1>2, Inductive, PTL DEF Spec, AlarmOnlyWhenRaced
=============================================================================
