----------------------------- MODULE Ciphertext -----------------------------
(***************************************************************************)
(* ciphertext.py: the text format of a Transit ciphertext.  A text is what *)
(* its colons separate: the words before the last one and a payload, which *)
(* is None when it is not Base64 and the decoded bytes otherwise.          *)
(***************************************************************************)
EXTENDS Integers, SequencesExt

CONSTANTS
    Word,         \* what may stand between two colons
    KeyWord,      \* the words KEY_NAME_PATTERN matches
    Numeral,      \* Numeral[n]: the word "v" and n in decimal
    MaxNumeral,   \* the largest n whose word VERSION_PATTERN still matches
    Byte,
    GCM_NONCE_LENGTH,
    GCM_TAG_LENGTH,
    MaxPayload,   \* bound on the payloads that the framing properties try
    Malformed     \* MalformedCiphertextError

CIPHERTEXT_PREFIX == "vault"
DEFAULT_KEY_VERSION == 1

\* A numeral is a well-formed key name too, and so is the prefix.
ASSUME CiphertextAssumption ==
    /\ CIPHERTEXT_PREFIX \in KeyWord /\ KeyWord \subseteq Word
    /\ MaxNumeral \in Nat \ {0} /\ MaxPayload \in Nat
    /\ DOMAIN Numeral = 1 .. MaxNumeral + 1
    /\ \A n \in DOMAIN Numeral : Numeral[n] \in KeyWord
    /\ \A n, k \in DOMAIN Numeral : Numeral[n] = Numeral[k] => n = k
    /\ GCM_NONCE_LENGTH \in Nat \ {0} /\ GCM_TAG_LENGTH \in Nat \ {0}

-----------------------------------------------------------------------------
(* format_ciphertext and parse_ciphertext                                  *)

header_Never(key_name, version) == <<CIPHERTEXT_PREFIX, key_name>>
header(key_name, version) ==
    IF version = DEFAULT_KEY_VERSION THEN <<CIPHERTEXT_PREFIX, key_name>>
    ELSE <<CIPHERTEXT_PREFIX, Numeral[version], key_name>>

format_ciphertext(key_name, version, blob) ==
    [words |-> header(key_name, version), payload |-> blob.nonce \o blob.ciphertext \o blob.tag]

\* VERSION_PATTERN and int of its group.
version_of(word) == {n \in 1 .. MaxNumeral : Numeral[n] = word}

\* split(":", 3) leaves further colons to the payload, which is then not Base64.
parse_header_BySegment(words) ==
    IF Len(words) < 2 \/ words[1] # CIPHERTEXT_PREFIX \/ words[Len(words)] \notin KeyWord
    THEN Malformed
    ELSE [key_name |-> words[Len(words)],
          key_version |-> IF version_of(words[2]) = {} THEN DEFAULT_KEY_VERSION
                          ELSE CHOOSE n \in version_of(words[2]) : TRUE]
parse_header(words) ==
    LET key_name == words[Len(words)]
        versions == IF Len(words) = 2 THEN {DEFAULT_KEY_VERSION} ELSE version_of(words[2])
    IN  IF /\ Len(words) \in {2, 3} /\ versions # {}
           /\ words[1] = CIPHERTEXT_PREFIX /\ key_name \in KeyWord
        THEN [key_name |-> key_name, key_version |-> CHOOSE n \in versions : TRUE]
        ELSE Malformed

\* The slices of the payload.
blob_of(payload) ==
    LET cut == Max({0, Len(payload) - GCM_TAG_LENGTH}) IN
    [nonce      |-> SubSeq(payload, 1, GCM_NONCE_LENGTH),
     ciphertext |-> SubSeq(payload, GCM_NONCE_LENGTH + 1, cut),
     tag        |-> SubSeq(payload, cut + 1, Len(payload))]

too_short(payload) == Len(payload) < GCM_NONCE_LENGTH + GCM_TAG_LENGTH

parse_ciphertext(text) ==
    LET head == parse_header(text.words) IN
    CASE head = Malformed                               -> Malformed
      [] head # Malformed /\ text.payload = Malformed   -> Malformed
      [] OTHER -> IF too_short(text.payload) THEN Malformed
                  ELSE [key_name |-> head.key_name, key_version |-> head.key_version,
                        blob |-> blob_of(text.payload)]

-----------------------------------------------------------------------------
(* Properties                                                              *)

Payload == BoundedSeq(Byte, MaxPayload)
Text == [words : BoundedSeq(Word, 4), payload : Payload \cup {Malformed}]

Blob == {b \in [nonce : Payload, ciphertext : Payload, tag : Payload] :
            /\ Len(b.nonce) = GCM_NONCE_LENGTH /\ Len(b.tag) = GCM_TAG_LENGTH
            /\ Len(b.ciphertext) <= MaxPayload - GCM_NONCE_LENGTH - GCM_TAG_LENGTH}

\* An error is none of the results.
ASSUME MalformedAssumption ==
    /\ Malformed \notin [key_name : KeyWord, key_version : 1 .. MaxNumeral]
    /\ Malformed \notin [key_name : KeyWord, key_version : 1 .. MaxNumeral, blob : Blob]
    /\ Malformed \notin Payload

\* What encrypt hands out is read back as the same key, version and blob, also for
\* a key whose name looks like a version; only a version with more digits than
\* VERSION_PATTERN allows is not.
RoundTrip ==
    \A key_name \in KeyWord, version \in DOMAIN Numeral, blob \in Blob :
        parse_ciphertext(format_ciphertext(key_name, version, blob)) =
            IF version > MaxNumeral THEN Malformed
            ELSE [key_name |-> key_name, key_version |-> version, blob |-> blob]

\* The two shapes of ciphertext.py's header comment.
Shapes == {<<"vault", n>> : n \in KeyWord}
            \cup {<<"vault", Numeral[v], n>> : v \in 1 .. MaxNumeral, n \in KeyWord}

\* These, and nothing else, are accepted; the blob always has a full nonce and tag
\* and keeps every byte.
AcceptsShapes ==
    \A text \in Text :
        LET parsed == parse_ciphertext(text) IN
        /\ parsed # Malformed <=>
              /\ text.words \in Shapes
              /\ text.payload # Malformed
              /\ Len(text.payload) >= GCM_NONCE_LENGTH + GCM_TAG_LENGTH
        /\ parsed # Malformed =>
              /\ parsed.blob \in Blob
              /\ parsed.blob.nonce \o parsed.blob.ciphertext \o parsed.blob.tag = text.payload
=============================================================================
