---------------------------- MODULE MCKvEngine ----------------------------
(* KvEngine with model values: alice owns one or two paths, bob none of    *)
(* them, so that he is denied.                                             *)
EXTENDS KvEngine, TLC

CONSTANTS t1, t2, alice, bob, pa, pb, x, y

Owned == [p \in Path |-> alice]

\* Requests, paths of the same owner and values are interchangeable.
Interchangeable ==
    Permutations(Thread) \cup Permutations(Data) \cup Permutations(Path)
=============================================================================
