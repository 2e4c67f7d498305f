---------------------------- MODULE MCAuditChain ----------------------------
(* AuditChain with model values for requests and entries.                  *)
EXTENDS AuditChain, TLC

CONSTANTS t1, t2, e1, e2

\* Requests are interchangeable, and so are entries.
Interchangeable == Permutations(Thread) \cup Permutations(Entry)
=============================================================================
