---------------------------- MODULE MCMiniVault ----------------------------
(* MiniVault with model values: alice owns the path, bob does not.         *)
EXTENDS MiniVault, TLC

CONSTANTS t1, t2, alice, bob, ka, kb, pa, na

Issued == ka :> alice @@ kb :> bob
Owned  == [p \in Path |-> alice]

Interchangeable == Permutations(Thread)
=============================================================================
