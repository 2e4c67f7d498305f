------------------------------- MODULE MCAuth -------------------------------
(* Auth with model values: logins of two accounts, or two of the same one. *)
EXTENDS Auth, TLC

CONSTANTS t1, t2, alice, bob

Apart    == t1 :> alice @@ t2 :> bob
Together == t1 :> alice @@ t2 :> alice
=============================================================================
