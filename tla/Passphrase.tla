----------------------------- MODULE Passphrase -----------------------------
(***************************************************************************)
(* passphrase.py: the strength policy for the master passphrase and for    *)
(* the passphrases of users.  A passphrase is a sequence of characters.    *)
(***************************************************************************)
EXTENDS Naturals, SequencesExt

CONSTANTS
    Char,                   \* the characters
    ClassPattern,           \* _CLASS_PATTERNS: the sets of characters they find
    Space,                  \* the characters str.strip removes
    Lower,                  \* Lower[c]: c in lower case
    MIN_LENGTH,
    MIN_CHARACTER_CLASSES,
    MAX_REPEATED_RUN,
    FORBIDDEN_SUBSTRINGS,   \* in lower case
    MaxWord                 \* bound on the passphrases that AcceptsStrong tries

ASSUME PassphraseAssumption ==
    /\ \A class \in ClassPattern : class \subseteq Char
    /\ Space \subseteq Char /\ Lower \in [Char -> Char]
    /\ MIN_LENGTH \in Nat \ {0} /\ MAX_REPEATED_RUN \in Nat \ {0, 1}
    /\ MIN_CHARACTER_CLASSES \in Nat /\ MaxWord \in Nat
    /\ IsFiniteSet(ClassPattern)
    /\ \A bad \in FORBIDDEN_SUBSTRINGS : bad \in Seq(Char) /\ bad # <<>>

\* _has_long_run: the length of the run that ends at each character.
first_run_Zero == 0
first_run == 1

has_long_run(w) ==
    LET run[i \in 1 .. Len(w)] ==
          IF i = 1 THEN first_run ELSE IF w[i] = w[i - 1] THEN run[i - 1] + 1 ELSE 1
    IN  \E i \in 2 .. Len(w) : run[i] >= MAX_REPEATED_RUN

\* strip() != itself; what is not empty and only blank is padded too.
padded(w) == w[1] \in Space \/ w[Len(w)] \in Space

classes(w) == {class \in ClassPattern : \E i \in DOMAIN w : w[i] \in class}

lowered(w) == [i \in DOMAIN w |-> Lower[w[i]]]
contains(w, bad) ==
    \E i \in 0 .. Len(w) - Len(bad) : SubSeq(w, i + 1, i + Len(bad)) = bad

\* The first violation, "none" when the passphrase passes.
evaluate(w) ==
    IF Len(w) < MIN_LENGTH THEN "TOO_SHORT"
    ELSE IF padded(w) THEN "SURROUNDING_WHITESPACE"
    ELSE IF Cardinality(classes(w)) < MIN_CHARACTER_CLASSES THEN "TOO_FEW_CHARACTER_CLASSES"
    ELSE IF has_long_run(w) THEN "REPEATED_CHARACTERS"
    ELSE IF \E bad \in FORBIDDEN_SUBSTRINGS : contains(lowered(w), bad) THEN "COMMON_PATTERN"
    ELSE "none"

is_strong(w) == evaluate(w) = "none"

-----------------------------------------------------------------------------
\* What the policy says of a passphrase, as its messages put it.
Strong(w) ==
    /\ Len(w) >= MIN_LENGTH
    /\ \A i \in DOMAIN w : w[i] \in Space => i \notin {1, Len(w)}
    /\ \E good \in SUBSET ClassPattern :
          /\ Cardinality(good) = MIN_CHARACTER_CLASSES
          /\ \A class \in good : class \cap ToSet(w) # {}
    /\ ~\E i \in DOMAIN w :
          /\ i + MAX_REPEATED_RUN - 1 <= Len(w)
          /\ \A j \in i .. i + MAX_REPEATED_RUN - 1 : w[j] = w[i]
    /\ \A before \in 0 .. Len(w), bad \in FORBIDDEN_SUBSTRINGS :
          ~\E i \in before + 1 .. Len(w) :
              [k \in 1 .. i - before |-> Lower[w[before + k]]] = bad

\* passphrase.py: a passphrase is rejected for being short, padded, of too few
\* character classes, repetitive or common, and for nothing else; a run is found
\* wherever it stands and a common word in whatever case.
AcceptsStrong == \A w \in BoundedSeq(Char, MaxWord) : is_strong(w) <=> Strong(w)
=============================================================================
