---------------------------- MODULE MCVaultCore ----------------------------
(* VaultCore with model values for its constants.                          *)
EXTENDS VaultCore, TLC

CONSTANTS t1, t2, t3, s1, s2, w1, d1, d2, d3, i1, i2

\* Keys, files and strong passphrases are interchangeable, and so are the
\* threads that do not initialize.
Interchangeable ==
    Permutations(Dek) \cup Permutations(Inode) \cup Permutations(Strong)
        \cup Permutations(Thread \ Initializer)
=============================================================================
