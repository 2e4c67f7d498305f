------------------------------ MODULE MCStartup ------------------------------
(* Startup with four environments and a small alphabet: a lower and an upper *)
(* case letter, another letter, a digit and a space, which counts as a symbol. *)
EXTENDS Startup

CONSTANTS p1, p2

Chars    == {"a", "A", "b", "1", " "}
Patterns == {{"a", "b"}, {"A"}, {"1"}, {" "}}
LowerOf  == [c \in Chars |-> IF c = "A" THEN "a" ELSE c]
Common   == {<<"a", "b">>}

Phrases == {<<"a", "A", "1", "b">>, <<"A", "1", "b", "1">>, <<"a", "b", "1", "A">>, <<"a">>}

\* Nothing set; higher costs, among values that the minima and int() reject; less
\* than 8 KiB for each lane; a key that is no AES-256 key, a time beyond Argon2's and
\* the last date.
Environments ==
    {<<>>,
     [KDF_TIME_COST |-> 6, KDF_MEMORY_COST |-> 131072, KDF_HASH_LENGTH |-> 16,
      KDF_PARALLELISM |-> NotANumber, PASSWORD_MEMORY_COST |-> 4,
      PASSWORD_PARALLELISM |-> 2],
     [KDF_MEMORY_COST |-> 8],
     [KDF_HASH_LENGTH |-> 64, PASSWORD_TIME_COST |-> 2147483647,
      SESSION_TTL_MINUTES |-> 2147483647]}

Interchangeable == Permutations(Process)
=============================================================================
