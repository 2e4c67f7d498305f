------------------------------ MODULE MCTransit ------------------------------
(* Transit with model values.  A name that has been revoked may be created   *)
(* again for the other usage.                                                *)
EXTENDS Transit, TLC

CONSTANTS t1, t2, alice, m1, m2, m3

\* The encryption key is named like a version.
Numerals == <<"v1", "v2", "v3">>
KeyWords == {"vault", "signing"} \cup Range(Numerals)
Words == KeyWords \cup {"not a name"}

AnyUsage == Name \X Usage

Interchangeable == Permutations(Thread) \cup Permutations(Material)
=============================================================================
