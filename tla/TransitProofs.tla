--------------------------- MODULE TransitProofs ---------------------------
(* Theorems about Transit, for any requests, owners, names, usages, keys     *)
(* and versions.                                                           *)
EXTENDS Transit, SequenceTheorems, TLAPS

-----------------------------------------------------------------------------
(* Formatting and parsing ciphertexts                                      *)

\* BoundedSeq holds the sequences up to the bound.
LEMMA BoundedSeqIs ==
    ASSUME NEW S, NEW n \in Nat
    PROVE  \A s : s \in BoundedSeq(S, n) <=> s \in Seq(S) /\ Len(s) <= n
<1>1. ASSUME NEW s \in Seq(S), Len(s) <= n PROVE s \in BoundedSeq(S, n)
  <2>1. Len(s) \in 0 .. n /\ s \in [1 .. Len(s) -> S]
    BY <1>1
  <2>. QED
    BY <2>1 DEF BoundedSeq, SeqOf
<1>2. ASSUME NEW s \in BoundedSeq(S, n) PROVE s \in Seq(S) /\ Len(s) <= n
  <2>1. PICK m \in 0 .. n : s \in [1 .. m -> S]
    BY DEF BoundedSeq, SeqOf
  <2>. QED
    BY <2>1
<1>. QED
  BY <1>1, <1>2

LEMMA MaxOfTwo ==
    ASSUME NEW a \in Int, NEW b \in Int, a <= b
    PROVE  Max({a, b}) = b
BY DEF Max

\* The payload of a blob.
Whole(b) == b.nonce \o b.ciphertext \o b.tag

\* Membership in Blob, part by part.
LEMMA BlobIs ==
    ASSUME NEW n, NEW c, NEW t
    PROVE  [nonce |-> n, ciphertext |-> c, tag |-> t] \in Blob <=>
              /\ n \in Payload /\ c \in Payload /\ t \in Payload
              /\ Len(n) = GCM_NONCE_LENGTH /\ Len(t) = GCM_TAG_LENGTH
              /\ Len(c) <= MaxPayload - GCM_NONCE_LENGTH - GCM_TAG_LENGTH
<1>. PICK b : b = [nonce |-> n, ciphertext |-> c, tag |-> t]
  OBVIOUS
<1>1. b.nonce = n /\ b.ciphertext = c /\ b.tag = t
  OBVIOUS
<1>2. b \in [nonce : Payload, ciphertext : Payload, tag : Payload]
        <=> n \in Payload /\ c \in Payload /\ t \in Payload
  OBVIOUS
<1>3. b \in Blob <=> /\ b \in [nonce : Payload, ciphertext : Payload, tag : Payload]
                     /\ Len(b.nonce) = GCM_NONCE_LENGTH /\ Len(b.tag) = GCM_TAG_LENGTH
                     /\ Len(b.ciphertext) <= MaxPayload - GCM_NONCE_LENGTH - GCM_TAG_LENGTH
  BY Zenon DEF Blob
<1>4. b \in Blob <=>
              /\ n \in Payload /\ c \in Payload /\ t \in Payload
              /\ Len(n) = GCM_NONCE_LENGTH /\ Len(t) = GCM_TAG_LENGTH
              /\ Len(c) <= MaxPayload - GCM_NONCE_LENGTH - GCM_TAG_LENGTH
  BY <1>1, <1>2, <1>3, Zenon
<1>. QED
  BY <1>4

\* What a slice of a sequence holds.
LEMMA Slice ==
    ASSUME NEW S, NEW p \in Seq(S), NEW a \in Int, NEW d \in Int, NEW k \in Nat,
           1 <= a, d <= Len(p), k = d - a + 1
    PROVE  /\ SubSeq(p, a, d) \in Seq(S) /\ Len(SubSeq(p, a, d)) = k
           /\ \A i \in 1 .. k : SubSeq(p, a, d)[i] = p[a + i - 1]
<1>. PICK L \in Nat : L = Len(p)
  BY LenProperties
<1>1. \A i \in 1 .. L : p[i] \in S
  BY ElementOfSeq
<1>2. \A i \in a .. d : p[i] \in S
  BY <1>1
<1>3. /\ SubSeq(p, a, d) \in Seq(S)
      /\ Len(SubSeq(p, a, d)) = IF a <= d THEN d - a + 1 ELSE 0
      /\ \A i \in 1 .. d - a + 1 : SubSeq(p, a, d)[i] = p[a + i - 1]
  BY <1>2, SubSeqProperties
<1>4. k = IF a <= d THEN d - a + 1 ELSE 0
  OBVIOUS
<1>. QED
  BY <1>3, <1>4

\* The slices of a payload that is long enough make a blob and lose no byte.
LEMMA BlobOfPayload ==
    ASSUME NEW p \in Payload, ~too_short(p)
    PROVE  blob_of(p) \in Blob /\ Whole(blob_of(p)) = p
<1>1. PICK L, N, T, C, d : /\ L = Len(p) /\ N = GCM_NONCE_LENGTH /\ T = GCM_TAG_LENGTH
                           /\ C = L - T - N /\ d = L - T
  OBVIOUS
<1>2. p \in Seq(Byte) /\ L <= MaxPayload /\ L >= N + T /\ L \in Nat
  BY <1>1, BoundedSeqIs, CiphertextAssumption, LenProperties DEF Payload, too_short
<1>3. N \in Nat \ {0} /\ T \in Nat \ {0} /\ MaxPayload \in Nat
  BY <1>1, CiphertextAssumption
<1>4. C \in Nat /\ d \in Int /\ 0 <= d
  BY <1>1, <1>2, <1>3
<1>5. Max({0, L - T}) = d
  BY <1>1, <1>4, MaxOfTwo
<1>6. PICK a, e : a = N + 1 /\ e = d + 1
  OBVIOUS
<1>7. PICK b, x, y, z : /\ x = SubSeq(p, 1, N) /\ y = SubSeq(p, a, d) /\ z = SubSeq(p, e, L)
                        /\ b = blob_of(p)
  OBVIOUS
<1>8. b = [nonce |-> x, ciphertext |-> y, tag |-> z]
  BY <1>1, <1>5, <1>6, <1>7 DEF blob_of
<1>9. x \in Seq(Byte) /\ Len(x) = N
  <2>1. N \in Nat /\ N \in Int /\ 1 \in Int /\ 1 <= 1 /\ N <= Len(p) /\ N = N - 1 + 1
    BY <1>1, <1>2, <1>3
  <2>. QED
    BY <2>1, <1>2, <1>7, Slice
<1>10. y \in Seq(Byte) /\ Len(y) = C
  <2>1. a \in Int /\ d \in Int /\ C \in Nat /\ 1 <= a /\ d <= Len(p) /\ C = d - a + 1
    BY <1>1, <1>2, <1>3, <1>4, <1>6
  <2>. QED
    BY <2>1, <1>2, <1>7, Slice
<1>11. z \in Seq(Byte) /\ Len(z) = T
  <2>1. e \in Int /\ L \in Int /\ 1 <= e /\ L <= Len(p) /\ T = L - e + 1 /\ T \in Nat
    BY <1>1, <1>2, <1>3, <1>4, <1>6
  <2>. QED
    BY <2>1, <1>2, <1>7, Slice
<1>12. b \in Blob
  <2>1. \A s : s \in Payload <=> s \in Seq(Byte) /\ Len(s) <= MaxPayload
    BY <1>3, BoundedSeqIs DEF Payload
  <2>2. N <= MaxPayload /\ T <= MaxPayload /\ C <= MaxPayload - N - T /\ C <= MaxPayload
    BY <1>1, <1>2, <1>3
  <2>3. x \in Payload /\ y \in Payload /\ z \in Payload
    BY <2>1, <2>2, <1>9, <1>10, <1>11
  <2>. QED
    BY <2>2, <2>3, <1>1, <1>8, <1>9, <1>10, <1>11, BlobIs
<1>13. Whole(b) = p
  <2>1. x \o y = SubSeq(p, 1, d)
    <3>1. 1 \in 1 .. Len(p) + 1 /\ N \in 1 - 1 .. Len(p) /\ d \in N .. Len(p)
      BY <1>1, <1>2, <1>3
    <3>. QED
      BY <3>1, <1>2, <1>6, <1>7, ConcatAdjacentSubSeq
  <2>2. SubSeq(p, 1, d) \o z = SubSeq(p, 1, L)
    <3>1. 1 \in 1 .. Len(p) + 1 /\ d \in 1 - 1 .. Len(p) /\ L \in d .. Len(p)
      BY <1>1, <1>2, <1>3, <1>4
    <3>. QED
      BY <3>1, <1>2, <1>6, <1>7, ConcatAdjacentSubSeq
  <2>3. SubSeq(p, 1, L) = p
    BY <1>1, <1>2, SubSeqFull
  <2>4. (x \o y) \o z = p
    BY <2>1, <2>2, <2>3
  <2>5. b.nonce = x /\ b.ciphertext = y /\ b.tag = z
    BY <1>8
  <2>. QED
    BY <2>4, <2>5 DEF Whole
<1>. QED
  BY <1>7, <1>12, <1>13

\* The slices of the payload of a blob are its parts again.
LEMMA PayloadOfBlob ==
    ASSUME NEW b \in Blob
    PROVE  Whole(b) \in Payload /\ ~too_short(Whole(b)) /\ blob_of(Whole(b)) = b
<1>0. PICK n, c, t, N, T, C :
        /\ n = b.nonce /\ c = b.ciphertext /\ t = b.tag
        /\ N = GCM_NONCE_LENGTH /\ T = GCM_TAG_LENGTH /\ C = Len(c)
  OBVIOUS
<1>1. \A s : s \in Payload <=> s \in Seq(Byte) /\ Len(s) <= MaxPayload
  BY CiphertextAssumption, BoundedSeqIs DEF Payload
<1>2. b = [nonce |-> n, ciphertext |-> c, tag |-> t]
  BY <1>0 DEF Blob
<1>3. /\ n \in Seq(Byte) /\ c \in Seq(Byte) /\ t \in Seq(Byte)
      /\ Len(n) = N /\ Len(t) = T /\ Len(c) = C /\ C <= MaxPayload - N - T
  <2>1. [nonce |-> n, ciphertext |-> c, tag |-> t] \in Blob
    BY <1>2
  <2>. QED
    BY <2>1, <1>0, <1>1, BlobIs
<1>4. N \in Nat \ {0} /\ T \in Nat \ {0} /\ MaxPayload \in Nat /\ C \in Nat
  BY <1>0, <1>3, CiphertextAssumption, LenProperties
<1>5. PICK d, a, e, L : d = N + C /\ a = N + 1 /\ e = d + 1 /\ L = d + T
  OBVIOUS
<1>6. PICK nc : nc = n \o c
  OBVIOUS
<1>7. PICK w : w = nc \o t
  OBVIOUS
<1>8. /\ nc \in Seq(Byte) /\ Len(nc) = d
      /\ \A i \in 1 .. d : nc[i] = IF i <= N THEN n[i] ELSE c[i - N]
  <2>1. /\ nc \in Seq(Byte) /\ Len(nc) = Len(n) + Len(c)
        /\ \A i \in 1 .. Len(n) + Len(c) : nc[i] = IF i <= Len(n) THEN n[i] ELSE c[i - Len(n)]
    BY <1>3, <1>6, ConcatProperties, Zenon
  <2>. QED
    BY <2>1, <1>3, <1>5
<1>9. /\ w \in Seq(Byte) /\ Len(w) = L
      /\ \A i \in 1 .. L : w[i] = IF i <= d THEN nc[i] ELSE t[i - d]
  <2>1. /\ w \in Seq(Byte) /\ Len(w) = Len(nc) + Len(t)
        /\ \A i \in 1 .. Len(nc) + Len(t) : w[i] = IF i <= Len(nc) THEN nc[i] ELSE t[i - Len(nc)]
    BY <1>3, <1>7, <1>8, ConcatProperties, Zenon
  <2>. QED
    BY <2>1, <1>3, <1>5, <1>8
<1>10. w \in Payload /\ ~too_short(w)
  <2>1. L <= MaxPayload /\ ~(L < N + T)
    BY <1>3, <1>4, <1>5
  <2>. QED
    BY <2>1, <1>0, <1>1, <1>9 DEF too_short
<1>11. Max({0, Len(w) - T}) = d
  <2>1. Len(w) - T = d /\ d \in Int /\ 0 <= d
    BY <1>4, <1>5, <1>9
  <2>. QED
    BY <2>1, MaxOfTwo
<1>12. SubSeq(w, 1, N) = n
  <2>1. N \in Nat /\ N \in Int /\ 1 \in Int /\ 1 <= 1 /\ N <= Len(w) /\ N = N - 1 + 1
    BY <1>4, <1>5, <1>9
  <2>2. PICK s : s = SubSeq(w, 1, N)
    OBVIOUS
  <2>3. s \in Seq(Byte) /\ Len(s) = N /\ \A i \in 1 .. N : s[i] = w[1 + i - 1]
    BY <2>1, <2>2, <1>9, Slice
  <2>4. \A i \in 1 .. N : w[1 + i - 1] = n[i]
    BY <1>4, <1>5, <1>8, <1>9
  <2>5. \A i \in 1 .. N : s[i] = n[i]
    BY <2>3, <2>4
  <2>6. s = n
    BY <2>3, <2>5, <1>3, SeqEqual
  <2>. QED
    BY <2>2, <2>6
<1>13. SubSeq(w, a, d) = c
  <2>1. a \in Int /\ d \in Int /\ 1 <= a /\ d <= Len(w) /\ C = d - a + 1
    BY <1>4, <1>5, <1>9
  <2>2. PICK s : s = SubSeq(w, a, d)
    OBVIOUS
  <2>3. s \in Seq(Byte) /\ Len(s) = C /\ \A i \in 1 .. C : s[i] = w[a + i - 1]
    BY <2>1, <2>2, <1>4, <1>9, Slice
  <2>4. \A i \in 1 .. C : w[a + i - 1] = c[i]
    BY <1>4, <1>5, <1>8, <1>9
  <2>5. \A i \in 1 .. C : s[i] = c[i]
    BY <2>3, <2>4
  <2>6. s = c
    BY <2>3, <2>5, <1>3, SeqEqual
  <2>. QED
    BY <2>2, <2>6
<1>14. SubSeq(w, e, L) = t
  <2>1. e \in Int /\ L \in Int /\ 1 <= e /\ L <= Len(w) /\ T = L - e + 1 /\ T \in Nat
    BY <1>4, <1>5, <1>9
  <2>2. PICK s : s = SubSeq(w, e, L)
    OBVIOUS
  <2>3. s \in Seq(Byte) /\ Len(s) = T /\ \A i \in 1 .. T : s[i] = w[e + i - 1]
    BY <2>1, <2>2, <1>9, Slice
  <2>4. \A i \in 1 .. T : w[e + i - 1] = t[i]
    BY <1>4, <1>5, <1>9
  <2>5. \A i \in 1 .. T : s[i] = t[i]
    BY <2>3, <2>4
  <2>6. s = t
    BY <2>3, <2>5, <1>3, SeqEqual
  <2>. QED
    BY <2>2, <2>6
<1>15. blob_of(w) = [nonce |-> SubSeq(w, 1, N), ciphertext |-> SubSeq(w, a, d),
                     tag |-> SubSeq(w, e, L)]
  BY <1>0, <1>5, <1>9, <1>11 DEF blob_of
<1>16. blob_of(w) = b
  BY <1>2, <1>12, <1>13, <1>14, <1>15
<1>17. Whole(b) = w
  BY <1>0, <1>6, <1>7 DEF Whole
<1>. QED
  BY <1>10, <1>16, <1>17

\* parse_header reads the key and version that header wrote.
LEMMA HeaderParses ==
    ASSUME NEW n \in KeyWord, NEW v \in 1 .. MaxNumeral
    PROVE  parse_header(header(n, v)) = [key_name |-> n, key_version |-> v]
<1>0. v \in 1 .. MaxNumeral /\ v \in DOMAIN Numeral
  BY CiphertextAssumption
<1>1. CASE v = 1
  <2>1. header(n, v) = <<CIPHERTEXT_PREFIX, n>>
    BY <1>1 DEF header, DEFAULT_KEY_VERSION
  <2>2. (CHOOSE k \in {DEFAULT_KEY_VERSION} : TRUE) = v
    BY <1>1 DEF DEFAULT_KEY_VERSION
  <2>. QED
    BY <1>0, <2>1, <2>2 DEF parse_header
<1>2. CASE v # 1
  <2>1. header(n, v) = <<CIPHERTEXT_PREFIX, Numeral[v], n>>
    BY <1>2 DEF header, DEFAULT_KEY_VERSION
  <2>2. version_of(Numeral[v]) = {v}
    BY <1>0, CiphertextAssumption DEF version_of
  <2>3. (CHOOSE k \in version_of(Numeral[v]) : TRUE) = v
    BY <2>2
  <2>. QED
    BY <1>0, <2>1, <2>2, <2>3 DEF parse_header
<1>. QED
  BY <1>1, <1>2

\* Beyond VERSION_PATTERN it reads nothing.
LEMMA TooManyDigits ==
    ASSUME NEW n \in KeyWord, NEW v \in DOMAIN Numeral, v > MaxNumeral
    PROVE  parse_header(header(n, v)) = Malformed
<1>1. v = MaxNumeral + 1 /\ v # 1 /\ MaxNumeral \in Nat
  BY CiphertextAssumption
<1>2. header(n, v) = <<CIPHERTEXT_PREFIX, Numeral[v], n>>
  BY <1>1 DEF header, DEFAULT_KEY_VERSION
<1>3. version_of(Numeral[v]) = {}
  BY <1>1, CiphertextAssumption DEF version_of
<1>. QED
  BY <1>2, <1>3 DEF parse_header

\* What parse_header may answer.
Heads == [key_name : KeyWord, key_version : 1 .. MaxNumeral]

\* parse_header accepts the two shapes and nothing else.
LEMMA HeaderShapes ==
    ASSUME NEW words \in Seq(Word)
    PROVE  /\ words \in Shapes <=> parse_header(words) # Malformed
           /\ parse_header(words) \in Heads \cup {Malformed}
<1>. PICK l \in Nat : l = Len(words)
  OBVIOUS
<1>1. PICK vs, k : /\ vs = IF l = 2 THEN {DEFAULT_KEY_VERSION} ELSE version_of(words[2])
                   /\ k = CHOOSE n \in vs : TRUE
  OBVIOUS
<1>2. parse_header(words) =
        IF l \in {2, 3} /\ vs # {} /\ words[1] = "vault" /\ words[l] \in KeyWord
        THEN [key_name |-> words[l], key_version |-> k] ELSE Malformed
  BY <1>1 DEF parse_header, CIPHERTEXT_PREFIX
<1>3. vs \subseteq 1 .. MaxNumeral /\ (vs # {} => k \in vs)
  BY <1>1, CiphertextAssumption DEF version_of, DEFAULT_KEY_VERSION
<1>4. parse_header(words) \in Heads \cup {Malformed}
  <2>1. ASSUME vs # {}, words[l] \in KeyWord
        PROVE  [key_name |-> words[l], key_version |-> k] \in Heads
    BY <2>1, <1>3 DEF Heads
  <2>. QED
    BY <2>1, <1>2
<1>5. \A h \in Heads : h # Malformed
  BY MalformedAssumption DEF Heads
<1>6. parse_header(words) # Malformed
        <=> l \in {2, 3} /\ vs # {} /\ words[1] = "vault" /\ words[l] \in KeyWord
  <2>1. ASSUME l \in {2, 3}, vs # {}, words[1] = "vault", words[l] \in KeyWord
        PROVE  [key_name |-> words[l], key_version |-> k] \in Heads
    BY <2>1, <1>3 DEF Heads
  <2>. QED
    BY <2>1, <1>2, <1>5
<1>7. ASSUME l = 2 PROVE words \in Shapes <=> words[1] = "vault" /\ words[2] \in KeyWord
  <2>1. words = <<words[1], words[2]>>
    <3>0. 1 \in 1 .. Len(words) /\ 2 \in 1 .. Len(words)
      BY <1>7
    <3>1. words[1] \in Word /\ words[2] \in Word
      BY <3>0, ElementOfSeq
    <3>2. PICK s : s = <<words[1], words[2]>>
      OBVIOUS
    <3>3. s \in Seq(Word) /\ Len(s) = 2 /\ s[1] = words[1] /\ s[2] = words[2]
      BY <3>1, <3>2
    <3>4. \A i \in 1 .. 2 : i = 1 \/ i = 2
      OBVIOUS
    <3>5. s = words
      BY <3>3, <3>4, <1>7, SeqEqual
    <3>. QED
      BY <3>2, <3>5
  <2>. QED
    BY <2>1, <1>7 DEF Shapes
<1>8. ASSUME l = 3
      PROVE  words \in Shapes <=>
                words[1] = "vault" /\ version_of(words[2]) # {} /\ words[3] \in KeyWord
  <2>1. words = <<words[1], words[2], words[3]>>
    <3>0. 1 \in 1 .. Len(words) /\ 2 \in 1 .. Len(words) /\ 3 \in 1 .. Len(words)
      BY <1>8
    <3>1. words[1] \in Word /\ words[2] \in Word /\ words[3] \in Word
      BY <3>0, ElementOfSeq
    <3>2. PICK s : s = <<words[1], words[2], words[3]>>
      OBVIOUS
    <3>3. /\ s \in Seq(Word) /\ Len(s) = 3
          /\ s[1] = words[1] /\ s[2] = words[2] /\ s[3] = words[3]
      BY <3>1, <3>2
    <3>4. \A i \in 1 .. 3 : i = 1 \/ i = 2 \/ i = 3
      OBVIOUS
    <3>5. s = words
      BY <3>3, <3>4, <1>8, SeqEqual
    <3>. QED
      BY <3>2, <3>5
  <2>2. version_of(words[2]) # {} <=> \E v \in 1 .. MaxNumeral : words[2] = Numeral[v]
    BY DEF version_of
  <2>. QED
    BY <2>1, <2>2, <1>8 DEF Shapes
<1>9. words \in Shapes => l \in {2, 3}
  BY DEF Shapes
<1>. QED
  BY <1>1, <1>4, <1>6, <1>7, <1>8, <1>9

\* What parse_ciphertext makes of a text.
LEMMA Parsed ==
    ASSUME NEW text
    PROVE  parse_ciphertext(text) =
             IF \/ parse_header(text.words) = Malformed \/ text.payload = Malformed
                \/ too_short(text.payload)
             THEN Malformed
             ELSE [key_name |-> parse_header(text.words).key_name,
                   key_version |-> parse_header(text.words).key_version,
                   blob |-> blob_of(text.payload)]
BY DEF parse_ciphertext

\* For any names, lengths, bytes and payloads, what is formatted parses as it was.
LEMMA RoundTrips == RoundTrip
<1>. SUFFICES ASSUME NEW n \in KeyWord, NEW v \in DOMAIN Numeral, NEW b \in Blob
              PROVE  parse_ciphertext(format_ciphertext(n, v, b)) =
                        IF v > MaxNumeral THEN Malformed
                        ELSE [key_name |-> n, key_version |-> v, blob |-> b]
  BY DEF RoundTrip
<1>1. PICK text : text = format_ciphertext(n, v, b)
  OBVIOUS
<1>2. text.words = header(n, v) /\ text.payload = Whole(b)
  BY <1>1 DEF format_ciphertext, Whole
<1>3. text.payload # Malformed /\ ~too_short(text.payload) /\ blob_of(text.payload) = b
  BY <1>2, PayloadOfBlob, MalformedAssumption
<1>4. v \in 1 .. MaxNumeral + 1 /\ MaxNumeral \in Nat
  BY CiphertextAssumption
<1>5. CASE v > MaxNumeral
  <2>1. parse_header(text.words) = Malformed
    BY <1>2, <1>5, TooManyDigits
  <2>. QED
    BY <2>1, <1>1, <1>5, Parsed
<1>6. CASE ~(v > MaxNumeral)
  <2>1. v \in 1 .. MaxNumeral
    BY <1>4, <1>6
  <2>2. PICK head : head = parse_header(text.words) /\ head = [key_name |-> n, key_version |-> v]
    BY <2>1, <1>2, HeaderParses
  <2>3. head # Malformed
    BY <2>1, <2>2, MalformedAssumption
  <2>4. parse_ciphertext(text) = [key_name |-> head.key_name, key_version |-> head.key_version,
                                  blob |-> b]
    BY <2>2, <2>3, <1>3, Parsed
  <2>. QED
    BY <2>2, <2>4, <1>1, <1>6
<1>. QED
  BY <1>5, <1>6

\* What parses has one of the two shapes, and its blob every byte of the payload.
LEMMA ShapesAccepted == AcceptsShapes
<1>. SUFFICES ASSUME NEW text \in Text
              PROVE  LET parsed == parse_ciphertext(text) IN
                     /\ parsed # Malformed <=>
                           /\ text.words \in Shapes
                           /\ text.payload # Malformed
                           /\ Len(text.payload) >= GCM_NONCE_LENGTH + GCM_TAG_LENGTH
                     /\ parsed # Malformed =>
                           /\ parsed.blob \in Blob
                           /\ Whole(parsed.blob) = text.payload
  BY DEF AcceptsShapes, Whole
<1>0. PICK parsed : parsed = parse_ciphertext(text)
  OBVIOUS
<1>1. PICK words, payload, head :
         words = text.words /\ payload = text.payload /\ head = parse_header(words)
  OBVIOUS
<1>2. words \in Seq(Word) /\ payload \in Payload \cup {Malformed}
  <2>1. words \in BoundedSeq(Word, 4) /\ payload \in Payload \cup {Malformed}
    BY <1>1 DEF Text
  <2>. QED
    BY <2>1, BoundedSeqIs
<1>3. (words \in Shapes <=> head # Malformed) /\ head \in Heads \cup {Malformed}
  BY <1>1, <1>2, HeaderShapes
<1>4. payload # Malformed =>
        (too_short(payload) <=> ~(Len(payload) >= GCM_NONCE_LENGTH + GCM_TAG_LENGTH))
  <2>1. payload # Malformed => Len(payload) \in Nat
    BY <1>2, BoundedSeqIs, CiphertextAssumption, LenProperties DEF Payload
  <2>. QED
    BY <2>1, CiphertextAssumption DEF too_short
<1>5. parsed = IF head = Malformed \/ payload = Malformed \/ too_short(payload) THEN Malformed
               ELSE [key_name |-> head.key_name, key_version |-> head.key_version,
                     blob |-> blob_of(payload)]
  BY <1>0, <1>1, Parsed
<1>6. ASSUME head # Malformed, payload # Malformed, ~too_short(payload)
      PROVE  parsed # Malformed /\ parsed.blob \in Blob /\ Whole(parsed.blob) = payload
  <2>1. PICK b : b = blob_of(payload) /\ b \in Blob /\ Whole(b) = payload
    BY <1>2, <1>6, BlobOfPayload
  <2>2. parsed = [key_name |-> head.key_name, key_version |-> head.key_version, blob |-> b]
    BY <2>1, <1>5, <1>6
  <2>3. head.key_name \in KeyWord /\ head.key_version \in 1 .. MaxNumeral
    BY <1>3, <1>6 DEF Heads
  <2>4. parsed # Malformed
    BY <2>1, <2>2, <2>3, MalformedAssumption
  <2>. QED
    BY <2>1, <2>2, <2>4
<1>7. ASSUME head = Malformed \/ payload = Malformed \/ too_short(payload)
      PROVE  parsed = Malformed
  BY <1>5, <1>7
<1>. QED
  BY <1>0, <1>1, <1>3, <1>4, <1>6, <1>7

-----------------------------------------------------------------------------
(* The inductive invariant                                                 *)

Slots == User \X Name

\* What AES-GCM binds the material of a row to: a slot, a usage the name may have
\* and the version of the row itself.
RowInv(v) ==
    /\ v.key_id < next_id
    /\ v.aad = key_aad(v.aad[1], v.aad[2], v.aad[3], v.version)
    /\ <<v.aad[2], v.aad[3]>> \in Creatable
    /\ v.public = IF v.aad[3] = "SIGN_VERIFY" THEN v.material ELSE None

\* Ids are not used twice, nor is material.
MintedInv ==
    /\ \A v \in minted : RowInv(v)
    /\ \A v, w \in minted :
          v.material = w.material \/ (v.key_id = w.key_id /\ v.version = w.version) => v = w

\* Key id was made at slot s for a usage: its first version says so for ever, and
\* all of its versions are bound to that slot.
KeyOf(id, usage, s) ==
    /\ \E v \in minted : /\ v.key_id = id /\ v.version = 1
                         /\ v.aad = key_aad(s[1], s[2], usage, 1)
    /\ \A v \in minted : v.key_id = id => v.aad[1] = s[1] /\ v.aad[2] = s[2]

\* The keys that exist have the rows that were made for them, and no others are left.
SlotInv(s) ==
    named_keys[s] # None =>
        /\ KeyOf(named_keys[s].id, named_keys[s].usage, s)
        /\ \A v \in minted : v.key_id = named_keys[s].id => v \in named_key_versions
        /\ {v.version : v \in versions_of(named_keys[s].id)}
              = 1 .. named_keys[s].latest_version

StoredInv ==
    /\ named_key_versions \subseteq minted
    /\ \A v \in named_key_versions :
          /\ v.material \notin revoked
          /\ \E s \in Slots : named_keys[s] # None /\ named_keys[s].id = v.key_id

\* A ciphertext or signature was made with a version of its key.
IssuedInv(i) ==
    /\ i.words = header(i.name, i.version)
    /\ KeyOf(i.key_id, i.usage, <<i.owner, i.name>>)
    /\ \E v \in minted : /\ v.key_id = i.key_id /\ v.version = i.version
                         /\ v.material = i.material
                         /\ v.aad = key_aad(i.owner, i.name, i.usage, i.version)

\* What a request asks for, and how far it may get.
Asks(t) ==
    /\ req[t].op \in {"create", "rotate", "revoke", "encrypt", "decrypt", "sign", "verify"}
    /\ Slot(t) \in Slots
    /\ req[t].op = "create" => <<req[t].name, req[t].usage>> \in Creatable
    /\ req[t].op \in {"decrypt", "verify"} =>
          req[t].token \in issued /\ req[t].name = req[t].token.name
    /\ req[t].op = "verify" =>
          req[t].token.usage = "SIGN_VERIFY" /\ req[t].pinned \in 0 .. MaxVersion
    /\ pc[t] \in {"begin", "wrap", "commit", "reread"} => req[t].op \in {"create", "rotate"}
    /\ pc[t] = "delete" => req[t].op = "revoke"
    /\ pc[t] \in {"version", "unwrap"} => req[t].op \in {"encrypt", "decrypt", "sign"}
    /\ pc[t] \in {"list", "candidates"} => req[t].op = "verify"

\* The key row it has read is that of a key made at its slot; the key may be gone.
Holds(t) ==
    pc[t] # "deny" /\ req[t].op # "create" =>
        row[t] # None /\ KeyOf(row[t].id, row[t].usage, Slot(t))

\* The version rows it has read belong to that key and were not revoked when it began.
Reads(t) ==
    /\ pc[t] \notin {"unwrap", "candidates"} => rows[t] = {}
    /\ \A v \in rows[t] : /\ v \in minted /\ v.key_id = row[t].id
                          /\ v.material \notin dead[t]
    /\ pc[t] = "unwrap" => \E v \in rows[t] : rows[t] = {v} /\ v.version = version_wanted(t)

\* verify has read the version of the signature or is going to.
Pending(t) ==
    /\ pc[t] = "candidates"
    /\ named_keys[Slot(t)] # None /\ named_keys[Slot(t)].id = row[t].id
    /\ req[t].token.key_id = row[t].id
    /\ req[t].pinned \in {0, req[t].token.version}
    => \/ req[t].token.version \in todo[t]
       \/ \E v \in rows[t] : v.version = req[t].token.version

ThreadInv(t) ==
    /\ pc[t] \in {"wrap", "commit"} <=> writer = t
    /\ pc[t] = "commit" => (req[t].op = "create") = (named_keys[Slot(t)] = None)
    /\ pc[t] # "idle" => out[t] = None /\ Asks(t) /\ Holds(t)
    /\ Reads(t)
    /\ Pending(t)

TableInv ==
    /\ MintedInv
    /\ \A s \in Slots : SlotInv(s)
    /\ StoredInv
    /\ \A i \in issued : IssuedInv(i)

IndInv == TypeOK /\ TableInv /\ \A t \in Thread : ThreadInv(t)

-----------------------------------------------------------------------------
(* Lemmas                                                                  *)

\* A key is made once: an id determines its slot and usage.
LEMMA SameKey ==
    ASSUME MintedInv, NEW id, NEW u1, NEW u2, NEW s1 \in Slots, NEW s2 \in Slots,
           KeyOf(id, u1, s1), KeyOf(id, u2, s2)
    PROVE  u1 = u2 /\ s1 = s2
<1>1. PICK v \in minted : v.key_id = id /\ v.version = 1 /\ v.aad = <<s1[1], s1[2], u1, 1>>
  BY DEF KeyOf, key_aad
<1>2. PICK w \in minted : w.key_id = id /\ w.version = 1 /\ w.aad = <<s2[1], s2[2], u2, 1>>
  BY DEF KeyOf, key_aad
<1>3. v = w
  BY <1>1, <1>2 DEF MintedInv
<1>4. s1[1] = s2[1] /\ s1[2] = s2[2] /\ u1 = u2
  BY <1>1, <1>2, <1>3
<1>. QED
  BY <1>4 DEF Slots

LEMMA KnownId ==
    ASSUME MintedInv, NEW id, NEW u, NEW s, KeyOf(id, u, s)
    PROVE  id < next_id
BY DEF MintedInv, KeyOf, RowInv

LEMMA InitInd == Init => IndInv
<1>. SUFFICES ASSUME Init PROVE IndInv
  OBVIOUS
<1>1. TypeOK
  BY TransitAssumption DEF Init, TypeOK, Pc
<1>2. TableInv
  BY DEF Init, TableInv, MintedInv, SlotInv, StoredInv, Slots
<1>3. \A t \in Thread : ThreadInv(t)
  BY TransitAssumption DEF Init, ThreadInv, Reads, Pending
<1>. QED
  BY <1>1, <1>2, <1>3 DEF IndInv

\* Steps of other requests leave a request's own state alone, and if they leave the
\* table and the lock alone too, all that is said of it.
Bystander(t) ==
    /\ pc'[t] = pc[t] /\ req'[t] = req[t] /\ row'[t] = row[t] /\ rows'[t] = rows[t]
    /\ todo'[t] = todo[t] /\ dead'[t] = dead[t] /\ out'[t] = out[t]

LEMMA BystanderInv ==
    ASSUME NEW t \in Thread, ThreadInv(t), Bystander(t),
           issued \subseteq issued', UNCHANGED tables,
           writer' = t <=> writer = t
    PROVE  ThreadInv(t)'
<1>1. Slot(t)' = Slot(t) /\ version_wanted(t)' = version_wanted(t)
  BY DEF Bystander, Slot, version_wanted
<1>2. Asks(t) => Asks(t)'
  BY <1>1 DEF Asks, Bystander
<1>3. Holds(t) => Holds(t)'
  BY <1>1 DEF Holds, KeyOf, Bystander, tables
<1>4. Reads(t)'
  BY <1>1 DEF ThreadInv, Reads, Bystander, tables
<1>5. Pending(t)'
  BY <1>1 DEF ThreadInv, Pending, Bystander, tables
<1>. QED
  BY <1>1, <1>2, <1>3, <1>4, <1>5 DEF ThreadInv, Bystander, tables

\* The invariant of the tables, when only issued may change.
LEMMA TablesKept ==
    ASSUME TableInv, UNCHANGED <<tables, issued>>
    PROVE  TableInv'
BY DEF TableInv, MintedInv, RowInv, SlotInv, KeyOf, StoredInv, IssuedInv, versions_of, tables

\* TypeOK in two parts: the tables, and what the requests hold.
TableOK ==
    /\ dek \in {Dek, None}
    /\ named_keys \in [Slots -> Key \cup {None}]
    /\ named_key_versions \subseteq VersionRow
    /\ next_id \in 1 .. MaxId + 1
    /\ writer \in Thread \cup {None}
    /\ minted \subseteq VersionRow /\ revoked \subseteq {v.material : v \in minted}
    /\ issued \subseteq Token

LocalOK ==
    /\ pc \in [Thread -> Pc]
    /\ row \in [Thread -> Key \cup {None}]
    /\ rows \in [Thread -> SUBSET VersionRow]
    /\ todo \in [Thread -> SUBSET Version]
    /\ dead \in [Thread -> SUBSET Material]
    /\ DOMAIN req = Thread /\ DOMAIN out = Thread
    /\ \A t \in Thread : dead[t] \subseteq revoked

LEMMA TypeParts ==
    ASSUME \A t \in Thread : ThreadInv(t)
    PROVE  TypeOK <=> TableOK /\ LocalOK
BY DEF TypeOK, TableOK, LocalOK, Slots, ThreadInv, Holds

LEMMA TypePartsPrime ==
    (\A t \in Thread : ThreadInv(t))' => (TypeOK' <=> TableOK' /\ LocalOK')
BY TypeParts, PTL

\* What an answer leaves of the request.
LEMMA AnswerInv ==
    ASSUME LocalOK, NEW t \in Thread, NEW o, Answer(t, o), writer' # t, revoked \subseteq revoked'
    PROVE  LocalOK' /\ ThreadInv(t)' /\ \A u \in Thread \ {t} : Bystander(u)
<1>1. LocalOK'
  BY DEF LocalOK, Answer, Goto, Pc
<1>2. pc'[t] = "idle" /\ rows'[t] = {}
  BY DEF LocalOK, Answer, Goto
<1>3. ThreadInv(t)'
  BY <1>2 DEF ThreadInv, Reads, Pending
<1>4. \A u \in Thread \ {t} : Bystander(u)
  BY DEF LocalOK, Answer, Goto, Bystander
<1>. QED
  BY <1>1, <1>3, <1>4

\* Steps of request t that leave the tables alone.
LEMMA Quiet ==
    ASSUME IndInv, NEW t \in Thread, UNCHANGED <<dek, tables, issued>>,
           LocalOK', ThreadInv(t)', \A u \in Thread \ {t} : Bystander(u),
           writer' \in {writer, t, None}, writer' # writer => writer \in {t, None}
    PROVE  IndInv'
<1>1. TableInv'
  BY TablesKept DEF IndInv
<1>2. \A u \in Thread : ThreadInv(u)'
  <2>. SUFFICES ASSUME NEW u \in Thread \ {t} PROVE ThreadInv(u)'
    OBVIOUS
  <2>1. writer' = u <=> writer = u
    BY TransitAssumption
  <2>. QED
    BY <2>1, BystanderInv DEF IndInv
<1>3. TableOK'
  <2>1. TableOK
    BY TypeParts DEF IndInv
  <2>. QED
    BY <2>1 DEF TableOK, tables
<1>. QED
  BY <1>1, <1>2, <1>3, TypePartsPrime DEF IndInv

LEMMA QuietAnswer ==
    ASSUME IndInv, NEW t \in Thread, NEW o, Answer(t, o), UNCHANGED <<dek, tables, issued>>,
           writer' = IF writer = t THEN None ELSE writer
    PROVE  IndInv'
<1>1. LocalOK
  BY TypeParts DEF IndInv
<1>2. writer' # t
  BY TransitAssumption
<1>. QED
  BY <1>1, <1>2, AnswerInv, Quiet DEF tables

\* What a ciphertext or signature shows is its key's name and version.
LEMMA IssuedParses ==
    ASSUME TableOK, NEW i \in issued, IssuedInv(i)
    PROVE  /\ i.name \in Name /\ i.owner \in User /\ i.version \in Version
           /\ parse_header(i.words) = [key_name |-> i.name, key_version |-> i.version]
<1>1. i \in Token
  BY DEF TableOK
<1>2. i.name \in Name /\ i.owner \in User /\ i.version \in Version
  BY <1>1 DEF Token
<1>3. i.name \in KeyWord /\ i.version \in 1 .. MaxNumeral
  BY <1>2, TransitAssumption, CiphertextAssumption DEF Version
<1>. QED
  BY <1>2, <1>3, HeaderParses DEF IssuedInv

\* What a request of Request asks for, with the token it comes with.
Shape(r) ==
    /\ r.op \in {"create", "rotate", "revoke", "encrypt", "decrypt", "sign", "verify"}
    /\ r.user \in User /\ r.name \in Name
    /\ r.op = "create" => <<r.name, r.usage>> \in Creatable
    /\ r.op \in {"decrypt", "verify"} => r.token \in issued /\ r.name = r.token.name
    /\ r.op = "verify" => r.token.usage = "SIGN_VERIFY" /\ r.pinned \in 0 .. MaxVersion

LEMMA RequestShape ==
    ASSUME TableOK, \A i \in issued : IssuedInv(i), NEW r \in Request
    PROVE  Shape(r)
<1>. USE DEF Shape
<1>1. CASE r \in {q \in [op : {"create"}, user : User, name : Name, usage : Usage] :
                    <<q.name, q.usage>> \in Creatable}
  BY <1>1
<1>2. CASE r \in [op : {"rotate", "revoke", "encrypt", "sign"}, user : User, name : Name]
  BY <1>2
<1>3. ASSUME NEW u \in User, NEW c \in issued,
             r = [op |-> "decrypt", user |-> u, name |-> parse_header(c.words).key_name,
                  token |-> c]
      PROVE  Shape(r)
  <2>1. parse_header(c.words).key_name = c.name /\ c.name \in Name
    <3>1. IssuedInv(c)
      OBVIOUS
    <3>2. /\ c.name \in Name
          /\ parse_header(c.words) = [key_name |-> c.name, key_version |-> c.version]
      BY <3>1, IssuedParses
    <3>. QED
      BY <3>2
  <2>. QED
    BY <1>3, <2>1
<1>4. ASSUME NEW u \in User, NEW c \in issued, c.usage = "SIGN_VERIFY",
             NEW v \in 0 .. MaxVersion,
             r = [op |-> "verify", user |-> u, name |-> c.name, token |-> c, pinned |-> v]
      PROVE  Shape(r)
  <2>1. c.name \in Name
    BY IssuedParses
  <2>. QED
    BY <1>4, <2>1
<1>. QED
  <2>1. CASE r \in {[op |-> "decrypt", user |-> u, name |-> parse_header(c.words).key_name,
                    token |-> c] :
                     u \in User, c \in {i \in issued : i.usage = "ENCRYPT_DECRYPT"}}
    <3>. HIDE DEF Shape
    <3>. QED
      BY <2>1, <1>3
  <2>2. CASE r \in {[op |-> "verify", user |-> u, name |-> c.name, token |-> c, pinned |-> v] :
                     u \in User, c \in {i \in issued : i.usage = "SIGN_VERIFY"},
                     v \in 0 .. MaxVersion}
    <3>. HIDE DEF Shape
    <3>. QED
      BY <2>2, <1>4
  <2>3. CASE r \in [op : {"rotate", "revoke", "encrypt", "sign"}, user : User, name : Name]
    BY <2>3, <1>2
  <2>4. CASE r \in {q \in [op : {"create"}, user : User, name : Name, usage : Usage] :
                     <<q.name, q.usage>> \in Creatable}
    BY <2>4, <1>1
  <2>. HIDE DEF Shape
  <2>. QED
    BY <2>1, <2>2, <2>3, <2>4 DEF Request

-----------------------------------------------------------------------------
(* Steps that leave the tables alone                                       *)

LEMMA StartInd ==
    ASSUME IndInv, NEW t \in Thread, NEW r \in Request, Start(t, r)
    PROVE  IndInv'
<1>0. TableOK /\ LocalOK /\ ThreadInv(t) /\ TableInv
  BY TypeParts DEF IndInv
<1>. PICK key : key = IF r.op = "create" THEN None ELSE named_keys[<<r.user, r.name>>]
  OBVIOUS
<1>1. Shape(r)
  BY <1>0, RequestShape DEF TableInv
<1>2. <<r.user, r.name>> \in Slots /\ key \in Key \cup {None}
  BY <1>0, <1>1 DEF Shape, Slots, TableOK
<1>3. /\ pc[t] = "idle"
      /\ req' = [req EXCEPT ![t] = r] /\ row' = [row EXCEPT ![t] = key]
      /\ dead' = [dead EXCEPT ![t] = revoked] /\ out' = [out EXCEPT ![t] = None]
      /\ pc' = [pc EXCEPT ![t] = IF owned(r.op, key) THEN "check" ELSE "deny"]
      /\ rows' = rows /\ todo' = todo
      /\ UNCHANGED <<dek, tables, writer, issued>>
  BY DEF Start, Goto
<1>4. LocalOK'
  <2>1. revoked \subseteq Material
    BY <1>0 DEF TableOK, VersionRow
  <2>2. pc' \in [Thread -> Pc]
    BY <1>0, <1>3 DEF LocalOK, Pc, Database
  <2>3. row' \in [Thread -> Key \cup {None}]
    BY <1>0, <1>2, <1>3 DEF LocalOK
  <2>4. dead' \in [Thread -> SUBSET Material]
    BY <2>1, <1>0, <1>3 DEF LocalOK
  <2>5. DOMAIN req' = Thread /\ DOMAIN out' = Thread
    BY <1>0, <1>3 DEF LocalOK
  <2>6. \A u \in Thread : dead'[u] \subseteq revoked'
    BY <1>0, <1>3 DEF LocalOK, tables
  <2>. QED
    BY <2>2, <2>3, <2>4, <2>5, <2>6, <1>0, <1>3 DEF LocalOK
<1>5. /\ pc'[t] \in {"check", "deny"} /\ (pc'[t] = "check" => owned(r.op, key))
      /\ req'[t] = r /\ row'[t] = key /\ out'[t] = None /\ rows'[t] = rows[t]
  BY <1>0, <1>3 DEF LocalOK
<1>6. ThreadInv(t)'
  <2>1. Asks(t)'
    BY <1>1, <1>2, <1>3, <1>5 DEF Asks, Slot, Shape
  <2>2. Holds(t)'
    <3>. SUFFICES ASSUME pc'[t] = "check", r.op # "create"
                  PROVE  key # None /\ KeyOf(key.id, key.usage, <<r.user, r.name>>)
      BY <1>3, <1>5 DEF Holds, Slot, KeyOf, tables
    <3>1. key # None /\ key = named_keys[<<r.user, r.name>>]
      BY <1>5 DEF owned
    <3>. QED
      BY <3>1, <1>0, <1>2 DEF TableInv, SlotInv
  <2>3. Reads(t)' /\ Pending(t)'
    BY <1>0, <1>3, <1>5 DEF ThreadInv, Reads, Pending
  <2>. QED
    BY <2>1, <2>2, <2>3, <1>0, <1>3, <1>5 DEF ThreadInv
<1>7. \A u \in Thread \ {t} : Bystander(u)
  BY <1>0, <1>3 DEF LocalOK, Bystander
<1>. QED
  BY <1>3, <1>4, <1>6, <1>7, Quiet

\* Steps that only go to another place, or end with an answer.
LEMMA GotoInd ==
    ASSUME IndInv, NEW t \in Thread, NEW l \in Pc, Goto(t, l),
           UNCHANGED <<dek, tables, issued, req, row, rows, dead, out>>,
           pc[t] \notin {"idle", "deny", "unwrap", "candidates"},
           l \notin {"idle", "deny", "unwrap"},
           todo' = todo \/ \E s \in SUBSET Version : todo' = [todo EXCEPT ![t] = s],
           writer' = IF l \in {"wrap", "commit"} THEN t ELSE writer,
           writer = t => l \in {"wrap", "commit"},
           l \in {"wrap", "commit"} => writer \in {t, None},
           l = "commit" => (req[t].op = "create") = (named_keys[Slot(t)] = None),
           l \in {"begin", "wrap", "commit", "reread"} => req[t].op \in {"create", "rotate"},
           l = "delete" => req[t].op = "revoke",
           l = "version" => req[t].op \in {"encrypt", "decrypt", "sign"},
           l \in {"list", "candidates"} => req[t].op = "verify",
           Pending(t)'
    PROVE  IndInv'
<1>0. TableOK /\ LocalOK /\ ThreadInv(t)
  BY TypeParts DEF IndInv
<1>1. pc' = [pc EXCEPT ![t] = l] /\ pc'[t] = l
  BY <1>0 DEF Goto, LocalOK
<1>2. LocalOK'
  <2>1. todo' \in [Thread -> SUBSET Version]
    BY <1>0 DEF LocalOK
  <2>. QED
    BY <2>1, <1>0, <1>1 DEF LocalOK, tables
<1>3. ThreadInv(t)'
  <2>1. Slot(t)' = Slot(t) /\ Asks(t) /\ Holds(t) /\ out[t] = None
    BY <1>0 DEF Slot, ThreadInv
  <2>2. Asks(t)'
    BY <2>1, <1>1 DEF Asks
  <2>3. Holds(t)'
    BY <2>1, <1>1 DEF Holds, KeyOf, tables
  <2>4. Reads(t)'
    BY <1>0, <1>1 DEF ThreadInv, Reads
  <2>5. writer' = t <=> l \in {"wrap", "commit"}
    OBVIOUS
  <2>. QED
    BY <2>1, <2>2, <2>3, <2>4, <2>5, <1>1 DEF ThreadInv, tables
<1>4. \A u \in Thread \ {t} : Bystander(u)
  BY <1>0, <1>1 DEF LocalOK, Bystander
<1>. QED
  BY <1>2, <1>3, <1>4, Quiet DEF tables

LEMMA CheckInd ==
    ASSUME IndInv, NEW t \in Thread, Check(t)
    PROVE  IndInv'
<1>0. LocalOK /\ ThreadInv(t) /\ Asks(t)
  BY TypeParts DEF IndInv, ThreadInv, Check
<1>1. writer # t
  BY <1>0 DEF ThreadInv, Check
<1>2. ASSUME NEW code, Raise(t, code) PROVE IndInv'
  BY <1>1, <1>2, QuietAnswer DEF Raise, Check
<1>3. ASSUME NEW l, usable(t), Goto(t, l), UNCHANGED <<locals, out>>,
             l = CASE req[t].op \in {"create", "rotate"} -> "begin"
                   [] req[t].op = "revoke" -> "delete"
                   [] req[t].op = "verify" -> "list"
                   [] OTHER                -> "version"
      PROVE  IndInv'
  <2>1. /\ l \in {"begin", "delete", "list", "version"}
        /\ l = "begin" => req[t].op \in {"create", "rotate"}
        /\ l = "delete" => req[t].op = "revoke"
        /\ l = "list" => req[t].op = "verify"
        /\ l = "version" => req[t].op \in {"encrypt", "decrypt", "sign"}
    BY <1>0, <1>3 DEF Asks
  <2>2. pc' = [pc EXCEPT ![t] = l] /\ pc'[t] = l
    BY <1>0, <1>3 DEF Goto, LocalOK
  <2>3. Pending(t)'
    BY <2>1, <2>2 DEF Pending
  <2>. QED
    BY <2>1, <2>3, <1>1, <1>3, GotoInd DEF Check, locals, Pc, Database
<1>. QED
  BY <1>2, <1>3 DEF Check

LEMMA BeginWrapInd ==
    ASSUME IndInv, NEW t \in Thread, Begin(t) \/ Wrap(t)
    PROVE  IndInv'
<1>0. LocalOK /\ ThreadInv(t) /\ Asks(t)
  BY TypeParts DEF IndInv, ThreadInv, Begin, Wrap
<1>1. ASSUME NEW l, Goto(t, l), l # "candidates" PROVE Pending(t)'
  <2>1. pc'[t] = l
    BY <1>0, <1>1 DEF Goto, LocalOK
  <2>. QED
    BY <2>1, <1>1 DEF Pending
<1>2. CASE Begin(t)
  <2>1. writer = None /\ writer' = t /\ pc[t] = "begin" /\ Goto(t, "wrap")
    BY <1>2 DEF Begin
  <2>2. req[t].op \in {"create", "rotate"} /\ writer # t
    BY <2>1, <1>0, TransitAssumption DEF Asks
  <2>. QED
    BY <2>1, <2>2, <1>1, <1>2, GotoInd DEF Begin, locals, Pc, Database
<1>3. CASE Wrap(t)
  <2>1. writer = t /\ pc[t] = "wrap" /\ req[t].op \in {"create", "rotate"}
    BY <1>0, <1>3 DEF ThreadInv, Asks, Wrap
  <2>2. ASSUME NEW code, Raise(t, code), writer' = None PROVE IndInv'
    BY <2>1, <2>2, <1>3, QuietAnswer DEF Raise, Wrap
  <2>3. ASSUME Goto(t, "commit"), UNCHANGED <<writer, locals, out>>,
               (req[t].op = "create") = (named_keys[Slot(t)] = None)
        PROVE  IndInv'
    BY <2>1, <2>3, <1>1, <1>3, GotoInd DEF Wrap, locals, Pc, Database
  <2>. QED
    BY <2>2, <2>3, <1>3 DEF Wrap
<1>. QED
  BY <1>2, <1>3

LEMMA AnswersInd ==
    ASSUME IndInv, NEW t \in Thread, Deny(t) \/ Reread(t) \/ DbFails(t)
    PROVE  IndInv'
<1>0. ThreadInv(t)
  BY DEF IndInv
<1>1. CASE Deny(t)
  <2>1. writer # t
    BY <1>0, <1>1 DEF ThreadInv, Deny
  <2>. QED
    BY <2>1, <1>1, QuietAnswer DEF Deny, Raise
<1>2. CASE Reread(t)
  <2>1. writer # t /\ UNCHANGED <<dek, tables, writer, issued>>
    BY <1>0, <1>2 DEF ThreadInv, Reread
  <2>2. \E o : Answer(t, o)
    BY <1>2 DEF Reread, Raise
  <2>. QED
    BY <2>1, <2>2, QuietAnswer
<1>3. CASE DbFails(t)
  BY <1>3, QuietAnswer DEF DbFails, Raise
<1>. QED
  BY <1>1, <1>2, <1>3

\* get_version finds a row of the key that was made, and that was not revoked before.
LEMMA FoundRow ==
    ASSUME TableInv, TableOK, NEW id, NEW version, NEW v \in get_version(id, version)
    PROVE  /\ v \in VersionRow /\ v \in minted /\ v.key_id = id /\ v.version = version
           /\ v.material \notin revoked
BY DEF TableInv, TableOK, StoredInv, get_version, versions_of

LEMMA SelectInd ==
    ASSUME IndInv, NEW t \in Thread, SelectVersion(t)
    PROVE  IndInv'
<1>0. TableInv /\ TableOK /\ LocalOK /\ ThreadInv(t) /\ pc[t] = "version"
  BY TypeParts DEF IndInv, SelectVersion
<1>1. writer # t /\ UNCHANGED <<dek, tables, writer, issued>>
  BY <1>0 DEF ThreadInv, SelectVersion
<1>2. CASE Raise(t, "KEY_VERSION_NOT_FOUND")
  BY <1>1, <1>2, QuietAnswer DEF Raise
<1>3. ASSUME NEW v \in get_version(row[t].id, version_wanted(t)),
             rows' = [rows EXCEPT ![t] = {v}], Goto(t, "unwrap"),
             UNCHANGED <<req, row, todo, dead, out>>
      PROVE  IndInv'
  <2>1. /\ v \in VersionRow /\ v \in minted /\ v.key_id = row[t].id
        /\ v.version = version_wanted(t) /\ v.material \notin revoked
    BY <1>0, FoundRow
  <2>2. pc'[t] = "unwrap" /\ rows'[t] = {v} /\ v.material \notin dead[t]
    BY <2>1, <1>0, <1>3 DEF LocalOK, Goto
  <2>3. LocalOK'
    BY <2>1, <1>0, <1>1, <1>3 DEF LocalOK, Goto, Pc, tables
  <2>4. ThreadInv(t)'
    <3>0. Slot(t)' = Slot(t) /\ Asks(t) /\ Holds(t) /\ out[t] = None
      BY <1>0, <1>3 DEF Slot, ThreadInv
    <3>1. Asks(t)'
      BY <3>0, <2>2, <1>0, <1>1, <1>3 DEF Asks
    <3>2. Holds(t)'
      BY <3>0, <2>2, <1>0, <1>1, <1>3 DEF Holds, KeyOf, tables
    <3>3. Reads(t)'
      <4>1. version_wanted(t)' = version_wanted(t)
        BY <1>3 DEF version_wanted
      <4>. QED
        BY <4>1, <2>1, <2>2, <1>1, <1>3 DEF Reads, tables
    <3>. QED
      BY <3>0, <3>1, <3>2, <3>3, <2>2, <1>1, <1>3 DEF ThreadInv, Pending
  <2>5. \A u \in Thread \ {t} : Bystander(u)
    BY <1>0, <1>3 DEF LocalOK, Bystander, Goto
  <2>. QED
    BY <1>1, <2>3, <2>4, <2>5, Quiet
<1>. QED
  BY <1>2, <1>3 DEF SelectVersion

\* The version of a signature is among those verify is going to read, unless the
\* caller has pinned another or the key is gone.
LEMMA ListFinds ==
    ASSUME IndInv, NEW t \in Thread, List(t),
           named_keys[Slot(t)] # None, named_keys[Slot(t)].id = row[t].id,
           req[t].token.key_id = row[t].id, req[t].pinned \in {0, req[t].token.version}
    PROVE  req[t].token.version \in candidates(t)
<1>0. TableInv /\ TableOK /\ Asks(t) /\ req[t].op = "verify"
  BY TypeParts DEF IndInv, ThreadInv, Asks, List
<1>1. PICK i \in issued : i = req[t].token /\ IssuedInv(i) /\ i.version \in Version
  BY <1>0, IssuedParses DEF TableInv, Asks
<1>2. CASE req[t].pinned # 0
  BY <1>1, <1>2 DEF candidates
<1>3. CASE req[t].pinned = 0
  <2>1. PICK v \in minted : v.key_id = i.key_id /\ v.version = i.version
    BY <1>1 DEF IssuedInv
  <2>2. v \in named_key_versions
    BY <2>1, <1>0, <1>1 DEF TableInv, SlotInv, Asks
  <2>. QED
    BY <2>1, <2>2, <1>1, <1>3 DEF candidates, versions_of
<1>. QED
  BY <1>2, <1>3

LEMMA ListInd ==
    ASSUME IndInv, NEW t \in Thread, List(t)
    PROVE  IndInv'
<1>0. TableOK /\ LocalOK /\ ThreadInv(t) /\ Asks(t) /\ req[t].op = "verify"
  BY TypeParts DEF IndInv, ThreadInv, Asks, List
<1>1. writer # t /\ UNCHANGED <<dek, tables, writer, issued>>
  BY <1>0 DEF ThreadInv, List
<1>2. CASE \E o : Answer(t, o)
  BY <1>1, <1>2, QuietAnswer
<1>3. ASSUME todo' = [todo EXCEPT ![t] = candidates(t)], Goto(t, "candidates"),
             UNCHANGED <<req, row, rows, dead, out>>
      PROVE  IndInv'
  <2>1. candidates(t) \in SUBSET Version
    <3>1. req[t].pinned # 0 => req[t].pinned \in Version
      BY <1>0, TransitAssumption DEF Asks, Version
    <3>2. \A v \in named_key_versions : v.version \in Version
      BY <1>0 DEF TableOK, VersionRow
    <3>. QED
      BY <3>1, <3>2 DEF candidates, versions_of
  <2>2. Pending(t)'
    <3>1. todo'[t] = candidates(t) /\ Slot(t)' = Slot(t)
      BY <1>0, <1>3 DEF LocalOK, Slot
    <3>. QED
      BY <3>1, <1>1, <1>3, ListFinds DEF Pending, tables
  <2>. QED
    BY <2>1, <2>2, <1>0, <1>1, <1>3, GotoInd DEF List, Pc, Database
<1>. QED
  BY <1>2, <1>3 DEF List

LEMMA CandidateInd ==
    ASSUME IndInv, NEW t \in Thread, Candidate(t)
    PROVE  IndInv'
<1>0. TableInv /\ TableOK /\ LocalOK /\ ThreadInv(t) /\ pc[t] = "candidates"
  BY TypeParts DEF IndInv, Candidate
<1>1. writer # t /\ UNCHANGED <<dek, tables, writer, issued>>
  BY <1>0 DEF ThreadInv, Candidate
<1>2. CASE \E o : Answer(t, o)
  BY <1>1, <1>2, QuietAnswer
<1>3. ASSUME NEW newest, NEW found, found = get_version(row[t].id, newest), found # {},
             rows' = [rows EXCEPT ![t] = @ \cup found],
             todo' = [todo EXCEPT ![t] = @ \ {newest}],
             UNCHANGED <<pc, req, row, dead, out>>
      PROVE  IndInv'
  <2>1. \A v \in found : /\ v \in VersionRow /\ v \in minted /\ v.key_id = row[t].id
                         /\ v.version = newest /\ v.material \notin revoked
    BY <1>0, <1>3, FoundRow
  <2>2. rows'[t] = rows[t] \cup found /\ todo'[t] = todo[t] \ {newest}
    BY <1>0, <1>3 DEF LocalOK
  <2>3. LocalOK'
    <3>1. rows' \in [Thread -> SUBSET VersionRow]
      BY <2>1, <1>0, <1>3 DEF LocalOK
    <3>2. todo' \in [Thread -> SUBSET Version]
      BY <1>0, <1>3 DEF LocalOK
    <3>. QED
      BY <3>1, <3>2, <1>0, <1>1, <1>3 DEF LocalOK, tables
  <2>4. ThreadInv(t)'
    <3>0. Slot(t)' = Slot(t) /\ Asks(t) /\ Holds(t) /\ out[t] = None
      BY <1>0, <1>3 DEF Slot, ThreadInv
    <3>1. Asks(t)'
      BY <3>0, <1>0, <1>1, <1>3 DEF Asks
    <3>2. Holds(t)'
      BY <3>0, <1>0, <1>1, <1>3 DEF Holds, KeyOf, tables
    <3>3. Reads(t)'
      BY <2>1, <2>2, <1>0, <1>1, <1>3 DEF Reads, ThreadInv, LocalOK, tables
    <3>4. Pending(t)'
      <4>1. Pending(t)
        BY <1>0 DEF ThreadInv
      <4>. QED
        BY <4>1, <3>0, <2>1, <2>2, <1>1, <1>3 DEF Pending, tables
    <3>. QED
      BY <3>0, <3>1, <3>2, <3>3, <3>4, <1>0, <1>1, <1>3 DEF ThreadInv
  <2>5. \A u \in Thread \ {t} : Bystander(u)
    BY <1>0, <1>3 DEF LocalOK, Bystander
  <2>. QED
    BY <1>1, <2>3, <2>4, <2>5, Quiet
<1>. QED
  <2>. DEFINE newest == Max(todo[t])
              found == get_version(row[t].id, newest)
  <2>1. \/ found = {} /\ Raise(t, "KEY_VERSION_NOT_FOUND")
        \/ /\ found # {}
           /\ rows' = [rows EXCEPT ![t] = @ \cup found]
           /\ todo' = [todo EXCEPT ![t] = @ \ {newest}]
           /\ UNCHANGED <<pc, req, row, dead, out>>
        \/ Answer(t, verdict(rows[t] \cup found, req[t].token))
    BY DEF Candidate
  <2>. HIDE DEF newest, found
  <2>2. found = get_version(row[t].id, newest)
    BY DEF newest, found
  <2>. QED
    BY <2>1, <2>2, <1>2, <1>3 DEF Raise

-----------------------------------------------------------------------------
(* Unwrap                                                                  *)

\* The version row that Unwrap works with.
LEMMA UnwrapRow ==
    ASSUME IndInv, NEW t \in Thread, pc[t] = "unwrap"
    PROVE  LET v == CHOOSE v \in rows[t] : TRUE IN
           /\ v \in rows[t] /\ v \in minted /\ v \in VersionRow /\ v.key_id = row[t].id
           /\ v.version = version_wanted(t) /\ v.material \notin dead[t]
<1>1. Reads(t) /\ minted \subseteq VersionRow
  BY DEF IndInv, ThreadInv, TypeOK
<1>2. PICK v \in rows[t] : rows[t] = {v} /\ v.version = version_wanted(t)
  BY <1>1 DEF Reads
<1>3. (CHOOSE w \in rows[t] : TRUE) = v
  BY <1>2
<1>. QED
  BY <1>1, <1>2, <1>3 DEF Reads

LEMMA UnwrapInd ==
    ASSUME IndInv, NEW t \in Thread, Unwrap(t)
    PROVE  IndInv'
<1>0. TableInv /\ TableOK /\ LocalOK /\ ThreadInv(t) /\ Asks(t) /\ Holds(t) /\ pc[t] = "unwrap"
  BY TypeParts DEF IndInv, ThreadInv, Unwrap
<1>1. writer # t /\ UNCHANGED <<dek, tables, writer>>
  BY <1>0 DEF ThreadInv, Unwrap
<1>. PICK v : v = CHOOSE w \in rows[t] : TRUE
  OBVIOUS
<1>2. CASE (\E o : Answer(t, o)) /\ UNCHANGED issued
  BY <1>1, <1>2, QuietAnswer
<1>3. ASSUME NEW o, Answer(t, o), unwraps(t, v), req[t].op \in {"encrypt", "sign"},
             issued' = issued \cup {token_of(t, v)}
      PROVE  IndInv'
  <2>. PICK i : i = token_of(t, v)
    OBVIOUS
  <2>1. /\ v \in minted /\ v \in VersionRow /\ v.key_id = row[t].id
    BY <1>0, UnwrapRow DEF IndInv
  <2>2. row[t] \in Key /\ KeyOf(row[t].id, row[t].usage, Slot(t))
    BY <1>0, <1>3 DEF Holds, LocalOK
  <2>3. req[t].user \in User /\ req[t].name \in Name
    BY <1>0 DEF Asks, Slot, Slots
  <2>4. i = [usage |-> row[t].usage, owner |-> req[t].user, name |-> req[t].name,
             version |-> v.version, words |-> header(req[t].name, v.version),
             material |-> v.material, key_id |-> row[t].id]
    BY DEF token_of
  <2>5. v.version \in Version /\ v.material \in Material
    BY <2>1 DEF VersionRow
  <2>6. row[t].usage \in Usage /\ row[t].id \in 1 .. MaxId
    BY <2>2 DEF Key
  <2>7. i \in Token
    <3>1. \A n \in Name, k \in Version : header(n, k) \in Header
      BY DEF Header
    <3>2. header(req[t].name, v.version) \in Header
      BY <3>1, <2>3, <2>5
    <3>. QED
      BY <3>2, <2>3, <2>4, <2>5, <2>6 DEF Token
  <2>8. IssuedInv(i)
    <3>1. i.words = header(i.name, i.version)
      BY <2>4
    <3>2. KeyOf(i.key_id, i.usage, <<i.owner, i.name>>)
      BY <2>2, <2>4 DEF Slot
    <3>3. v.aad = key_aad(i.owner, i.name, i.usage, i.version)
      BY <1>3, <2>4 DEF unwraps
    <3>4. v.key_id = i.key_id /\ v.version = i.version /\ v.material = i.material
      BY <2>1, <2>4
    <3>. QED
      BY <3>1, <3>2, <3>3, <3>4, <2>1 DEF IssuedInv
  <2>9. TableInv'
    <3>1. \A j \in issued \cup {i} : IssuedInv(j)
      BY <1>0, <2>8 DEF TableInv
    <3>2. (\A j \in issued : IssuedInv(j))'
      BY <3>1, <1>1, <1>3 DEF IssuedInv, KeyOf, tables
    <3>. QED
      BY <3>2, <1>0, <1>1 DEF TableInv, MintedInv, RowInv, SlotInv, KeyOf, StoredInv,
                              versions_of, tables
  <2>10. LocalOK' /\ ThreadInv(t)' /\ \A u \in Thread \ {t} : Bystander(u)
    BY <1>0, <1>1, <1>3, AnswerInv DEF tables
  <2>11. \A u \in Thread : ThreadInv(u)'
    <3>. SUFFICES ASSUME NEW u \in Thread \ {t} PROVE ThreadInv(u)'
      BY <2>10
    <3>. QED
      BY <2>10, <1>1, <1>3, BystanderInv DEF IndInv
  <2>12. TableOK'
    BY <2>7, <1>0, <1>1, <1>3 DEF TableOK, tables
  <2>. QED
    BY <2>9, <2>10, <2>11, <2>12, TypePartsPrime DEF IndInv
<1>. QED
  BY <1>2, <1>3 DEF Unwrap, Raise

-----------------------------------------------------------------------------
(* Delete                                                                  *)

LEMMA DeleteInd ==
    ASSUME IndInv, NEW t \in Thread, Delete(t)
    PROVE  IndInv'
<1>0. TableInv /\ TableOK /\ LocalOK /\ ThreadInv(t) /\ Asks(t)
  BY TypeParts DEF IndInv, ThreadInv, Delete
<1>. PICK s, key, gone :
        /\ s = Slot(t) /\ key = named_keys[s]
        /\ gone = IF key = None THEN {} ELSE versions_of(key.id)
  OBVIOUS
<1>1. /\ writer = None /\ writer' = None
      /\ named_keys' = [named_keys EXCEPT ![s] = None]
      /\ named_key_versions' = named_key_versions \ gone
      /\ revoked' = revoked \cup {v.material : v \in gone}
      /\ UNCHANGED <<dek, next_id, minted, issued>>
      /\ \E o : Answer(t, o)
  BY DEF Delete, Raise
<1>2. s \in Slots /\ gone \subseteq named_key_versions
  BY <1>0 DEF Asks, versions_of
<1>3. \A s2 \in Slots : named_keys'[s2] = IF s2 = s THEN None ELSE named_keys[s2]
  BY <1>0, <1>1 DEF TableOK
<1>4. \A id, u, s2 : KeyOf(id, u, s2)' <=> KeyOf(id, u, s2)
  BY <1>1 DEF KeyOf
<1>5. ASSUME NEW s2 \in Slots, named_keys'[s2] # None
      PROVE  \A v \in gone : v.key_id # named_keys[s2].id
  <2>1. s2 # s /\ named_keys[s2] # None
    BY <1>3, <1>5
  <2>2. ASSUME key # None PROVE key.id # named_keys[s2].id
    BY <2>1, <2>2, <1>0, <1>2, SameKey DEF TableInv, SlotInv
  <2>. QED
    BY <2>2 DEF versions_of
<1>6. MintedInv'
  BY <1>0, <1>1 DEF TableInv, MintedInv, RowInv
<1>7. ASSUME NEW s2 \in Slots PROVE SlotInv(s2)'
  <2>. SUFFICES ASSUME named_keys'[s2] # None PROVE SlotInv(s2)'
    BY DEF SlotInv
  <2>1. named_keys'[s2] = named_keys[s2] /\ SlotInv(s2) /\ named_keys[s2] # None
    BY <1>0, <1>3 DEF TableInv
  <2>2. \A v \in gone : v.key_id # named_keys[s2].id
    BY <1>5
  <2>3. versions_of(named_keys[s2].id)' = versions_of(named_keys[s2].id)
    BY <1>1, <2>1, <2>2 DEF versions_of
  <2>4. \A v \in minted' : v.key_id = named_keys'[s2].id => v \in named_key_versions'
    BY <1>1, <2>1, <2>2 DEF SlotInv
  <2>. PICK own, k2 : own = versions_of(named_keys[s2].id) /\ k2 = named_keys[s2]
    OBVIOUS
  <2>5. KeyOf(k2.id, k2.usage, s2) /\ {v.version : v \in own} = 1 .. k2.latest_version
    BY <2>1 DEF SlotInv
  <2>6. named_keys'[s2] = k2 /\ {v \in named_key_versions' : v.key_id = k2.id} = own
    BY <2>1, <2>3 DEF versions_of
  <2>. QED
    BY <2>4, <2>5, <2>6, <1>1 DEF SlotInv, KeyOf, versions_of
<1>8. StoredInv'
  <2>1. ASSUME NEW v \in named_key_versions' PROVE v.material \notin revoked'
    <3>1. v \in named_key_versions /\ v \notin gone /\ v.material \notin revoked
      BY <1>0, <1>1, <2>1 DEF TableInv, StoredInv
    <3>2. \A w \in gone : w \in minted /\ v \in minted
      BY <1>0, <1>2, <3>1 DEF TableInv, StoredInv
    <3>3. \A w \in gone : w.material # v.material
      BY <3>1, <3>2, <1>0 DEF TableInv, MintedInv
    <3>. QED
      BY <3>1, <3>3, <1>1
  <2>2. ASSUME NEW v \in named_key_versions'
        PROVE  \E s2 \in Slots : named_keys'[s2] # None /\ named_keys'[s2].id = v.key_id
    <3>1. v \in named_key_versions /\ v \notin gone
      BY <1>1, <2>2
    <3>2. PICK s2 \in Slots : named_keys[s2] # None /\ named_keys[s2].id = v.key_id
      BY <3>1, <1>0 DEF TableInv, StoredInv
    <3>3. s2 # s
      BY <3>1, <3>2 DEF versions_of
    <3>. QED
      BY <3>2, <3>3, <1>3
  <2>. QED
    BY <2>1, <2>2, <1>0, <1>1 DEF TableInv, StoredInv
<1>9. TableInv'
  <2>1. (\A i \in issued : IssuedInv(i))'
    BY <1>0, <1>1 DEF TableInv, IssuedInv, KeyOf
  <2>. QED
    BY <2>1, <1>6, <1>7, <1>8 DEF TableInv
<1>10. TableOK'
  <2>1. named_keys' \in [Slots -> Key \cup {None}]
    BY <1>0, <1>1 DEF TableOK
  <2>2. gone \subseteq minted
    BY <1>0, <1>2 DEF TableInv, StoredInv
  <2>. QED
    BY <2>1, <2>2, <1>0, <1>1 DEF TableOK
<1>11. LocalOK' /\ ThreadInv(t)' /\ \A u \in Thread \ {t} : Bystander(u)
  <2>1. writer' # t /\ revoked \subseteq revoked'
    BY <1>1, TransitAssumption
  <2>. QED
    BY <2>1, <1>0, <1>1, AnswerInv
<1>12. ASSUME NEW u \in Thread \ {t} PROVE ThreadInv(u)'
  <2>1. Bystander(u) /\ ThreadInv(u) /\ Slot(u)' = Slot(u)
        /\ version_wanted(u)' = version_wanted(u)
    BY <1>11 DEF IndInv, Bystander, Slot, version_wanted
  <2>2. pc[u] \notin {"wrap", "commit"} /\ writer' # u
    BY <2>1, <1>1, TransitAssumption DEF ThreadInv
  <2>3. pc[u] # "idle" => Asks(u)' /\ Holds(u)' /\ Slot(u) \in Slots
    BY <2>1, <1>1 DEF ThreadInv, Asks, Holds, KeyOf, Bystander
  <2>4. Reads(u)'
    BY <2>1, <1>1 DEF ThreadInv, Reads, Bystander
  <2>5. Pending(u)'
    <3>1. pc[u] = "candidates" => named_keys'[Slot(u)] \in {None, named_keys[Slot(u)]}
      BY <2>3, <1>3
    <3>. QED
      BY <3>1, <2>1 DEF ThreadInv, Pending, Bystander
  <2>. QED
    BY <2>1, <2>2, <2>3, <2>4, <2>5 DEF ThreadInv, Bystander
<1>. QED
  BY <1>9, <1>10, <1>11, <1>12, TypePartsPrime DEF IndInv

-----------------------------------------------------------------------------
(* Commit                                                                  *)

\* A transaction stores row v for version n of key k at slot s: the first of a new
\* key, or the next of the key that is there.
Stores(t, s, k, u, n, m, v) ==
    /\ s = Slot(t) /\ k.latest_version = n /\ <<s[2], u>> \in Creatable
    /\ v = [key_id |-> k.id, version |-> n, material |-> m, aad |-> key_aad(s[1], s[2], u, n),
            public |-> IF u = "SIGN_VERIFY" THEN m ELSE None]
    /\ \A w \in minted : w.material # m
    /\ \/ /\ named_keys[s] = None /\ k.id = next_id /\ k.usage = u /\ n = 1
          /\ next_id' = next_id + 1
       \/ /\ named_keys[s] # None /\ k.id = named_keys[s].id /\ k.usage = named_keys[s].usage
          /\ n = named_keys[s].latest_version + 1
          /\ next_id' = next_id
    /\ named_keys' = [named_keys EXCEPT ![s] = k]
    /\ named_key_versions' = named_key_versions \cup {v}
    /\ minted' = minted \cup {v}
    /\ writer = t /\ writer' = None
    /\ UNCHANGED <<dek, revoked, issued, locals, out>>

\* The usage a slot's key is bound to is one that its name may have.
LEMMA BoundUsage ==
    ASSUME MintedInv, NEW id, NEW u, NEW s \in Slots, KeyOf(id, u, s)
    PROVE  <<s[2], u>> \in Creatable
<1>1. PICK v \in minted : v.aad = <<s[1], s[2], u, 1>>
  BY DEF KeyOf, key_aad
<1>. QED
  BY <1>1 DEF MintedInv, RowInv

LEMMA CommitStores ==
    ASSUME IndInv, NEW t \in Thread, Commit(t)
    PROVE  \E v : \E s \in Slots, k \in Key, u \in Usage, n \in Version, m \in Material :
              Stores(t, s, k, u, n, m, v)
<1>0. TableInv /\ TableOK /\ LocalOK /\ ThreadInv(t) /\ Asks(t) /\ pc[t] = "commit"
  BY TypeParts DEF IndInv, ThreadInv, Commit
<1>1. /\ writer = t /\ req[t].op \in {"create", "rotate"}
      /\ (req[t].op = "create") = (named_keys[Slot(t)] = None)
  BY <1>0 DEF ThreadInv, Asks
<1>. PICK s \in Slots : s = Slot(t)
  BY <1>0 DEF Asks
<1>2. s[1] = req[t].user /\ s[2] = req[t].name
  BY DEF Slot
<1>. PICK k, u, n :
        /\ k = new_key(t) /\ u = wrap_usage(t)
        /\ n = IF req[t].op = "create" THEN 1 ELSE named_keys[s].latest_version + 1
  OBVIOUS
<1>3. /\ k \in Key /\ n \in Version
      /\ named_keys' = [named_keys EXCEPT ![s] = k]
      /\ next_id' = IF k.id = next_id THEN next_id + 1 ELSE next_id
      /\ writer' = None
      /\ UNCHANGED <<dek, revoked, issued, locals, out>>
  BY DEF Commit
<1>4. PICK m, v :
         /\ m \in Material \ {w.material : w \in minted}
         /\ v = [key_id |-> k.id, version |-> n, material |-> m,
                 aad |-> key_aad(s[1], s[2], u, n),
                 public |-> IF u = "SIGN_VERIFY" THEN m ELSE None]
         /\ named_key_versions' = named_key_versions \cup {v}
         /\ minted' = minted \cup {v}
  BY <1>2 DEF Commit, wrap
<1>5. \A w \in minted : w.material # m
  BY <1>4
<1>6. CASE req[t].op = "create"
  <2>1. named_keys[s] = None /\ n = 1 /\ k.id = next_id /\ k.usage = u /\ k.latest_version = n
    BY <1>1, <1>6 DEF new_key, wrap_usage
  <2>2. <<s[2], u>> \in Creatable
    BY <1>0, <1>2, <1>6 DEF Asks, wrap_usage
  <2>3. u \in Usage
    BY <2>1, <1>3 DEF Key
  <2>4. Stores(t, s, k, u, n, m, v)
    BY <2>1, <2>2, <1>1, <1>3, <1>4, <1>5 DEF Stores
  <2>. QED
    BY <2>3, <2>4, <1>3, <1>4
<1>7. CASE req[t].op = "rotate"
  <2>1. named_keys[s] # None /\ named_keys[s] \in Key
    BY <1>0, <1>1, <1>7 DEF TableOK
  <2>2. /\ n = named_keys[s].latest_version + 1
        /\ k.id = named_keys[s].id /\ k.usage = named_keys[s].usage /\ k.latest_version = n
    BY <2>1, <1>7 DEF new_key, Key
  <2>3. next_id' = next_id
    <3>1. KeyOf(k.id, k.usage, s)
      BY <2>1, <2>2, <1>0 DEF TableInv, SlotInv
    <3>2. k.id < next_id
      BY <3>1, <1>0, KnownId DEF TableInv
    <3>. QED
      BY <3>2, <1>0, <1>3 DEF TableOK
  <2>4. u = row[t].usage /\ row[t] \in Key /\ KeyOf(row[t].id, row[t].usage, s)
    BY <1>0, <1>7 DEF wrap_usage, LocalOK, ThreadInv, Holds
  <2>5. <<s[2], u>> \in Creatable /\ u \in Usage
    BY <2>4, <1>0, BoundUsage DEF TableInv, Key
  <2>6. Stores(t, s, k, u, n, m, v)
    BY <2>1, <2>2, <2>3, <2>5, <1>1, <1>3, <1>4, <1>5 DEF Stores
  <2>. QED
    BY <2>5, <2>6, <1>3, <1>4
<1>. QED
  BY <1>1, <1>6, <1>7

\* What holds of the tables after the new row is stored.
LEMMA StoresTables ==
    ASSUME TableInv, TableOK,
           NEW t, NEW s \in Slots, NEW k \in Key, NEW u \in Usage, NEW n \in Version,
           NEW m \in Material, NEW v, Stores(t, s, k, u, n, m, v)
    PROVE  /\ TableInv' /\ TableOK'
           /\ \A id, u2 : \A s2 \in Slots : KeyOf(id, u2, s2) => KeyOf(id, u2, s2)' /\ id < next_id
           /\ k.id \in {next_id, named_keys[s].id}
<1>0. /\ v.key_id = k.id /\ v.version = n /\ v.material = m
      /\ v.aad = <<s[1], s[2], u, n>> /\ v.public = IF u = "SIGN_VERIFY" THEN m ELSE None
      /\ s[1] \in User /\ s[2] \in Name
  BY DEF Stores, key_aad, Slots
<1>1. /\ named_keys' = [named_keys EXCEPT ![s] = k]
      /\ named_key_versions' = named_key_versions \cup {v} /\ minted' = minted \cup {v}
      /\ writer' = None /\ UNCHANGED <<dek, revoked, issued>>
      /\ k.latest_version = n /\ <<s[2], u>> \in Creatable
      /\ \A w \in minted : w.material # m
  BY DEF Stores
<1>2. \/ /\ named_keys[s] = None /\ k.id = next_id /\ k.usage = u /\ n = 1
         /\ next_id' = next_id + 1
      \/ /\ named_keys[s] # None /\ k.id = named_keys[s].id /\ k.usage = named_keys[s].usage
         /\ n = named_keys[s].latest_version + 1
         /\ next_id' = next_id
  BY DEF Stores
<1>3. \A s2 \in Slots : named_keys'[s2] = IF s2 = s THEN k ELSE named_keys[s2]
  BY <1>1 DEF TableOK
<1>4. MintedInv /\ SlotInv(s) /\ next_id \in Nat /\ k.id \in Nat /\ next_id <= next_id'
  BY <1>2 DEF TableInv, TableOK, Key
<1>5. ASSUME NEW id, NEW u2, NEW s2 \in Slots, KeyOf(id, u2, s2)
      PROVE  KeyOf(id, u2, s2)' /\ id < next_id
  <2>1. id < next_id
    BY <1>4, <1>5, KnownId
  <2>2. k.id = id => s2 = s
    BY <1>2, <1>4, <1>5, <2>1, SameKey DEF SlotInv
  <2>3. \E w \in minted' : /\ w.key_id = id /\ w.version = 1
                           /\ w.aad = key_aad(s2[1], s2[2], u2, 1)
    BY <1>1, <1>5 DEF KeyOf
  <2>4. \A w \in minted' : w.key_id = id => w.aad[1] = s2[1] /\ w.aad[2] = s2[2]
    BY <2>2, <1>0, <1>1, <1>5 DEF KeyOf
  <2>. QED
    BY <2>1, <2>3, <2>4 DEF KeyOf
<1>6. \A w \in minted : w.key_id < next_id
  BY <1>4 DEF MintedInv, RowInv
\* No other row is version n of the key.
<1>7. \A w \in minted : w.key_id = k.id => w.version # n
  <2>1. CASE named_keys[s] # None /\ n = named_keys[s].latest_version + 1
             /\ k.id = named_keys[s].id
    <3>1. named_keys[s] \in Key
      BY <2>1 DEF TableOK
    <3>2. named_keys[s].latest_version \in Nat
      BY <3>1 DEF Key, Version
    <3>3. \A w \in minted : w.key_id = k.id => w.version \in 1 .. named_keys[s].latest_version
      BY <2>1, <1>4 DEF SlotInv, versions_of
    <3>. QED
      BY <2>1, <3>2, <3>3
  <2>2. CASE k.id = next_id
    BY <2>2, <1>4, <1>6
  <2>. QED
    BY <2>1, <2>2, <1>2
<1>8. MintedInv'
  <2>1. ASSUME NEW w \in minted PROVE RowInv(w)'
    <3>1. w.key_id \in Nat /\ w.key_id < next_id /\ next_id' \in Nat
      BY <1>2, <1>4, <1>6 DEF TableOK, VersionRow
    <3>2. w.key_id < next_id'
      BY <3>1, <1>4
    <3>. QED
      BY <3>2, <1>4 DEF MintedInv, RowInv
  <2>2. RowInv(v)'
    <3>1. v.key_id < next_id'
      BY <1>0, <1>2, <1>4, <1>5 DEF SlotInv
    <3>. QED
      BY <3>1, <1>0, <1>1 DEF RowInv, key_aad
  <2>3. \A w \in minted : w.material # v.material
                          /\ ~(w.key_id = v.key_id /\ w.version = v.version)
    BY <1>0, <1>1, <1>7
  <2>. QED
    BY <2>1, <2>2, <2>3, <1>1, <1>4 DEF MintedInv
<1>9. KeyOf(k.id, k.usage, s)'
  <2>1. CASE named_keys[s] # None
    BY <2>1, <1>2, <1>4, <1>5 DEF SlotInv
  <2>2. CASE named_keys[s] = None
    <3>1. k.id = next_id /\ k.usage = u /\ n = 1
      BY <2>2, <1>2
    <3>2. \A w \in minted : w.key_id # k.id
      BY <3>1, <1>4, <1>6
    <3>3. v.aad = key_aad(s[1], s[2], k.usage, 1)
      BY <3>1, <1>0 DEF key_aad
    <3>. QED
      BY <3>1, <3>2, <3>3, <1>0, <1>1 DEF KeyOf
  <2>. QED
    BY <2>1, <2>2
<1>10. SlotInv(s)'
  <2>1. \A w \in minted' : w.key_id = k.id => w \in named_key_versions'
    BY <1>1, <1>2, <1>4, <1>6 DEF SlotInv
  <2>2. {w.version : w \in {x \in named_key_versions' : x.key_id = k.id}} = 1 .. k.latest_version
    <3>. PICK own : own = versions_of(k.id)
      OBVIOUS
    <3>1. {x \in named_key_versions' : x.key_id = k.id} = own \cup {v}
      BY <1>0, <1>1 DEF versions_of
    <3>2. {w.version : w \in own} = 1 .. (n - 1)
      <4>1. CASE named_keys[s] # None
        <5>1. named_keys[s] \in Key
          BY <4>1 DEF TableOK
        <5>2. named_keys[s].latest_version \in Nat
          BY <5>1 DEF Key, Version
        <5>. QED
          BY <4>1, <5>2, <1>2, <1>4 DEF SlotInv
      <4>2. CASE named_keys[s] = None
        <5>1. \A w \in own : FALSE
          BY <4>2, <1>2, <1>4, <1>6 DEF versions_of, TableInv, StoredInv
        <5>. QED
          BY <4>2, <5>1, <1>2
      <4>. QED
        BY <4>1, <4>2
    <3>3. 1 .. n = (1 .. (n - 1)) \cup {n}
      BY DEF Version
    <3>4. {w.version : w \in own \cup {v}} = {w.version : w \in own} \cup {v.version}
      OBVIOUS
    <3>. QED
      BY <3>1, <3>2, <3>3, <3>4, <1>0, <1>1
  <2>3. named_keys'[s] = k
    BY <1>3
  <2>. QED
    BY <2>1, <2>2, <2>3, <1>9 DEF SlotInv, KeyOf, versions_of
<1>11. ASSUME NEW s2 \in Slots, s2 # s PROVE SlotInv(s2)'
  <2>. SUFFICES ASSUME named_keys[s2] # None PROVE SlotInv(s2)'
    BY <1>3, <1>11 DEF SlotInv
  <2>. PICK own, k2 : own = versions_of(k2.id) /\ k2 = named_keys[s2]
    OBVIOUS
  <2>1. /\ KeyOf(k2.id, k2.usage, s2) /\ {w.version : w \in own} = 1 .. k2.latest_version
        /\ \A w \in minted : w.key_id = k2.id => w \in named_key_versions
    BY DEF TableInv, SlotInv
  <2>2. KeyOf(k2.id, k2.usage, s2)' /\ k2.id < next_id
    BY <2>1, <1>5
  <2>3. k.id # k2.id
    BY <2>1, <2>2, <1>2, <1>4, <1>11, SameKey DEF SlotInv
  <2>4. {w \in named_key_versions' : w.key_id = k2.id} = own
    BY <2>3, <1>0, <1>1 DEF versions_of
  <2>5. \A w \in minted' : w.key_id = k2.id => w \in named_key_versions'
    BY <2>1, <2>3, <1>0, <1>1
  <2>6. named_keys'[s2] = k2
    BY <1>3, <1>11
  <2>. QED
    BY <2>1, <2>2, <2>4, <2>5, <2>6 DEF SlotInv, KeyOf, versions_of
<1>12. StoredInv'
  <2>1. named_key_versions' \subseteq minted'
    BY <1>1 DEF TableInv, StoredInv
  <2>2. ASSUME NEW w \in named_key_versions' PROVE w.material \notin revoked'
    <3>1. m \notin revoked
      BY <1>1 DEF TableOK
    <3>. QED
      BY <3>1, <1>0, <1>1, <2>2 DEF TableInv, StoredInv
  <2>3. ASSUME NEW w \in named_key_versions'
        PROVE  \E s2 \in Slots : named_keys'[s2] # None /\ named_keys'[s2].id = w.key_id
    <3>0. k # None
      BY NoneAssumption
    <3>1. CASE w = v
      BY <3>0, <3>1, <1>0, <1>3
    <3>2. CASE w \in named_key_versions
      <4>1. PICK s2 \in Slots : named_keys[s2] # None /\ named_keys[s2].id = w.key_id
        BY <3>2 DEF TableInv, StoredInv
      <4>2. s2 = s => k.id = w.key_id
        BY <4>1, <1>2
      <4>. QED
        BY <3>0, <4>1, <4>2, <1>3
    <3>. QED
      BY <2>3, <3>1, <3>2, <1>1
  <2>. QED
    BY <2>1, <2>2, <2>3 DEF StoredInv
<1>13. (\A i \in issued : IssuedInv(i))'
  <2>. SUFFICES ASSUME NEW i \in issued PROVE IssuedInv(i)'
    BY <1>1
  <2>1. IssuedInv(i) /\ <<i.owner, i.name>> \in Slots
    BY DEF TableInv, TableOK, Token, Slots
  <2>2. KeyOf(i.key_id, i.usage, <<i.owner, i.name>>)'
    BY <2>1, <1>5 DEF IssuedInv
  <2>3. \E w \in minted' : /\ w.key_id = i.key_id /\ w.version = i.version
                           /\ w.material = i.material
                           /\ w.aad = key_aad(i.owner, i.name, i.usage, i.version)
    BY <2>1, <1>1 DEF IssuedInv
  <2>. QED
    BY <2>1, <2>2, <2>3 DEF IssuedInv
<1>14. TableInv'
  <2>1. (\A s2 \in Slots : SlotInv(s2))'
    BY <1>10, <1>11
  <2>. QED
    BY <2>1, <1>8, <1>12, <1>13 DEF TableInv
<1>15. TableOK'
  <2>1. named_keys' \in [Slots -> Key \cup {None}]
    BY <1>1 DEF TableOK
  <2>2. v \in VersionRow
    <3>1. v = [key_id |-> k.id, version |-> n, material |-> m,
               aad |-> <<s[1], s[2], u, n>>, public |-> IF u = "SIGN_VERIFY" THEN m ELSE None]
      BY DEF Stores, key_aad
    <3>2. <<s[1], s[2], u, n>> \in User \X Name \X Usage \X Version
      BY <1>0
    <3>3. k.id \in 1 .. MaxId
      BY DEF Key
    <3>. QED
      BY <3>1, <3>2, <3>3 DEF VersionRow
  <2>3. next_id' \in 1 .. MaxId + 1
    <3>1. k.id \in 1 .. MaxId
      BY DEF Key
    <3>. QED
      BY <3>1, <1>2, TransitAssumption DEF TableOK
  <2>. QED
    BY <2>1, <2>2, <2>3, <1>1 DEF TableOK
<1>16. k.id \in {next_id, named_keys[s].id}
  BY <1>2
<1>. QED
  BY <1>5, <1>14, <1>15, <1>16

LEMMA CommitInd ==
    ASSUME IndInv, NEW t \in Thread, Commit(t)
    PROVE  IndInv'
<1>0. TableInv /\ TableOK /\ LocalOK /\ ThreadInv(t) /\ Asks(t) /\ Holds(t) /\ Reads(t)
  BY TypeParts DEF IndInv, ThreadInv, Commit
<1>0a. PICK v :
        \E s \in Slots, k \in Key, u \in Usage, n \in Version, m \in Material :
            Stores(t, s, k, u, n, m, v)
  BY CommitStores
<1>. PICK s \in Slots, k \in Key, u \in Usage, n \in Version, m \in Material :
        Stores(t, s, k, u, n, m, v)
  BY <1>0a
<1>1. /\ TableInv' /\ TableOK'
      /\ \A id, u2 : \A s2 \in Slots : KeyOf(id, u2, s2) => KeyOf(id, u2, s2)' /\ id < next_id
      /\ k.id \in {next_id, named_keys[s].id}
  BY <1>0, StoresTables
<1>2. /\ named_keys' = [named_keys EXCEPT ![s] = k] /\ minted \subseteq minted'
      /\ writer = t /\ writer' = None /\ UNCHANGED <<dek, revoked, issued, locals, out>>
      /\ named_keys[s] = None => k.id = next_id
      /\ named_keys[s] # None => k.id = named_keys[s].id
  BY DEF Stores
<1>3. pc' = [pc EXCEPT ![t] = "reread"] /\ pc[t] = "commit" /\ pc'[t] = "reread"
  BY <1>0 DEF Commit, Goto, LocalOK
<1>4. \A s2 \in Slots : named_keys'[s2] = IF s2 = s THEN k ELSE named_keys[s2]
  BY <1>0, <1>2 DEF TableOK
<1>5. LocalOK'
  BY <1>0, <1>2, <1>3 DEF LocalOK, locals, Pc, Database
<1>6. ThreadInv(t)'
  <2>1. Slot(t)' = Slot(t) /\ Slot(t) \in Slots /\ out[t] = None
    BY <1>0, <1>2, <1>3 DEF Slot, Asks, locals, ThreadInv
  <2>2. Asks(t)'
    BY <2>1, <1>0, <1>2, <1>3 DEF Asks, locals
  <2>3. Holds(t)'
    <3>1. req[t].op # "create" => row[t] # None /\ KeyOf(row[t].id, row[t].usage, Slot(t))
      BY <1>0, <1>3 DEF Holds
    <3>. PICK id, w : id = row[t].id /\ w = row[t].usage
      OBVIOUS
    <3>2. KeyOf(id, w, Slot(t)) => KeyOf(id, w, Slot(t))'
      BY <1>1, <2>1
    <3>. QED
      BY <3>1, <3>2, <2>1, <1>2 DEF Holds, KeyOf, locals
  <2>4. Reads(t)' /\ Pending(t)'
    BY <1>0, <1>2, <1>3 DEF Reads, Pending, locals
  <2>5. writer' # t
    BY <1>2, TransitAssumption
  <2>. QED
    BY <2>1, <2>2, <2>3, <2>4, <2>5, <1>2, <1>3 DEF ThreadInv
<1>7. ASSUME NEW x \in Thread \ {t} PROVE ThreadInv(x)'
  <2>1. Bystander(x) /\ ThreadInv(x) /\ Slot(x)' = Slot(x)
        /\ version_wanted(x)' = version_wanted(x)
    BY <1>0, <1>2, <1>3 DEF IndInv, Bystander, Slot, version_wanted, locals, LocalOK
  <2>2. pc[x] \notin {"wrap", "commit"} /\ writer' # x
    BY <2>1, <1>2, TransitAssumption DEF ThreadInv
  <2>3. pc[x] # "idle" => Asks(x)' /\ Slot(x) \in Slots
    BY <2>1, <1>2 DEF ThreadInv, Asks, Bystander
  <2>4. pc[x] # "idle" => Holds(x)'
    <3>1. pc[x] # "idle" /\ pc[x] # "deny" /\ req[x].op # "create"
             => row[x] # None /\ KeyOf(row[x].id, row[x].usage, Slot(x))
      BY <2>1 DEF ThreadInv, Holds
    <3>. PICK id, w, sx : id = row[x].id /\ w = row[x].usage /\ sx = Slot(x)
      OBVIOUS
    <3>2. pc[x] # "idle" /\ KeyOf(id, w, sx) => KeyOf(id, w, sx)'
      BY <1>1, <2>3
    <3>. QED
      BY <3>1, <3>2, <2>1 DEF Holds, KeyOf, Bystander
  <2>5. Reads(x)'
    BY <2>1, <1>2 DEF ThreadInv, Reads, Bystander
  <2>6. Pending(x)'
    <3>. SUFFICES ASSUME pc[x] = "candidates", named_keys'[Slot(x)] # None,
                         named_keys'[Slot(x)].id = row[x].id,
                         req[x].token.key_id = row[x].id,
                         req[x].pinned \in {0, req[x].token.version}
                  PROVE  \/ req[x].token.version \in todo[x]
                         \/ \E w \in rows[x] : w.version = req[x].token.version
      BY <2>1 DEF Pending, Bystander
    <3>1. KeyOf(row[x].id, row[x].usage, Slot(x)) /\ Slot(x) \in Slots
      BY <2>1, <2>3 DEF ThreadInv, Holds, Asks
    <3>2. row[x].id < next_id
      BY <3>1, <1>1
    <3>3. named_keys[Slot(x)] # None /\ named_keys[Slot(x)].id = row[x].id
      <4>1. CASE Slot(x) = s
        <5>1. k.id = row[x].id /\ k.id \in Nat
          BY <4>1, <3>1, <1>4 DEF Key
        <5>2. k.id # next_id
          BY <5>1, <3>2
        <5>. QED
          BY <5>1, <5>2, <4>1, <1>2
      <4>2. CASE Slot(x) # s
        BY <4>2, <3>1, <1>4
      <4>. QED
        BY <4>1, <4>2
    <3>. QED
      BY <3>3, <2>1 DEF ThreadInv, Pending
  <2>. QED
    BY <2>1, <2>2, <2>3, <2>4, <2>5, <2>6 DEF ThreadInv, Bystander
<1>. QED
  BY <1>1, <1>5, <1>6, <1>7, TypePartsPrime DEF IndInv

-----------------------------------------------------------------------------
(* The invariant of the specification                                      *)

LEMMA VaultInd ==
    ASSUME IndInv, Unlock \/ Lock
    PROVE  IndInv'
<1>1. UNCHANGED <<tables, writer, issued, pc, locals, out>> /\ dek' \in {Dek, None}
  BY DEF Unlock, Lock
<1>2. TableOK /\ LocalOK
  BY TypeParts DEF IndInv
<1>3. TableOK' /\ LocalOK'
  BY <1>1, <1>2 DEF TableOK, LocalOK, tables, locals
<1>4. TableInv'
  BY <1>1, TablesKept DEF IndInv
<1>5. \A u \in Thread : ThreadInv(u)'
  BY <1>1, BystanderInv DEF IndInv, Bystander, locals
<1>. QED
  BY <1>3, <1>4, <1>5, TypePartsPrime DEF IndInv

LEMMA CrashInd ==
    ASSUME IndInv, Crash
    PROVE  IndInv'
<1>1. TableOK
  BY TypeParts DEF IndInv
<1>2. TableOK' /\ LocalOK'
  BY <1>1 DEF Crash, TableOK, LocalOK, tables, Pc
<1>3. TableInv'
  BY TablesKept DEF IndInv, Crash
<1>4. \A u \in Thread : ThreadInv(u)'
  BY TransitAssumption DEF Crash, ThreadInv, Reads, Pending
<1>. QED
  BY <1>2, <1>3, <1>4, TypePartsPrime DEF IndInv

LEMMA StutterInd ==
    ASSUME IndInv, UNCHANGED vars
    PROVE  IndInv'
<1>1. UNCHANGED <<dek, tables, writer, issued, pc, locals, out>>
  BY DEF vars
<1>2. TableOK /\ LocalOK
  BY TypeParts DEF IndInv
<1>3. TableOK' /\ LocalOK'
  BY <1>1, <1>2 DEF TableOK, LocalOK, tables, locals
<1>4. TableInv'
  BY <1>1, TablesKept DEF IndInv
<1>5. \A u \in Thread : ThreadInv(u)'
  BY <1>1, BystanderInv DEF IndInv, Bystander, locals
<1>. QED
  BY <1>3, <1>4, <1>5, TypePartsPrime DEF IndInv

LEMMA NextInd == IndInv /\ [Next]_vars => IndInv'
<1>. SUFFICES ASSUME IndInv, [Next]_vars PROVE IndInv'
  OBVIOUS
<1>1. ASSUME NEW t \in Thread, NEW r \in Request, Start(t, r) PROVE IndInv'
  BY <1>1, StartInd
<1>2. ASSUME NEW t \in Thread, Step(t) PROVE IndInv'
  BY <1>2, CheckInd, BeginWrapInd, CommitInd, AnswersInd, DeleteInd, SelectInd,
     UnwrapInd, ListInd, CandidateInd DEF Step
<1>. QED
  BY <1>1, <1>2, VaultInd, CrashInd, StutterInd DEF Next

LEMMA Inductive == Spec => []IndInv
BY InitInd, NextInd, PTL DEF Spec

-----------------------------------------------------------------------------
(* Theorems                                                                *)

\* The tables agree at every moment, however creates, rotations, revocations and
\* crashes interleave: the rows of a key are its versions 1 to latest_version, and
\* no wrapped material outlives its key.
THEOREM TablesStayInAgreement == Spec => []KeysAgree
<1>1. IndInv => KeysAgree
  <2>. SUFFICES ASSUME IndInv PROVE KeysAgree
    OBVIOUS
  <2>1. TypeOK /\ MintedInv /\ StoredInv /\ \A s \in Slots : SlotInv(s)
    BY DEF IndInv, TableInv
  <2>2. ASSUME NEW s \in User \X Name, named_keys[s] # None,
               NEW v \in versions_of(named_keys[s].id), NEW w \in versions_of(named_keys[s].id),
               v.version = w.version
        PROVE  v = w
    BY <2>1, <2>2 DEF MintedInv, StoredInv, versions_of
  <2>. QED
    BY <2>1, <2>2 DEF KeysAgree, SlotInv, StoredInv, Slots
<1>. QED
  BY <1>1, Inductive, PTL

\* What encrypt and sign handed out stays usable as long as the key exists: its
\* version is stored, unwraps and is the one that made it, after any rotations.
THEOREM IssuedStaysUsable == Spec => []IssuedUsable
<1>1. IndInv => IssuedUsable
  <2>. SUFFICES ASSUME IndInv, NEW i \in issued,
                       named_keys[<<i.owner, i.name>>] # None,
                       named_keys[<<i.owner, i.name>>].id = i.key_id
                PROVE  \E v \in get_version(i.key_id, parse_header(i.words).key_version) :
                          /\ v.material = i.material
                          /\ v.aad = key_aad(i.owner, i.name,
                                             named_keys[<<i.owner, i.name>>].usage, i.version)
    BY DEF IssuedUsable
  <2>1. TableInv /\ TableOK /\ IssuedInv(i)
    BY TypeParts DEF IndInv, TableInv
  <2>. PICK s : s = <<i.owner, i.name>>
    OBVIOUS
  <2>2. s \in Slots /\ parse_header(i.words).key_version = i.version
    <3>1. /\ i.name \in Name /\ i.owner \in User
          /\ parse_header(i.words) = [key_name |-> i.name, key_version |-> i.version]
      BY <2>1, IssuedParses
    <3>. QED
      BY <3>1 DEF Slots
  <2>3. SlotInv(s) /\ named_keys[s].usage = i.usage
    BY <2>1, <2>2, SameKey DEF TableInv, SlotInv, IssuedInv
  <2>4. PICK v \in minted : /\ v.key_id = i.key_id /\ v.version = i.version
                            /\ v.material = i.material
                            /\ v.aad = key_aad(i.owner, i.name, i.usage, i.version)
    BY <2>1 DEF IssuedInv
  <2>5. v \in named_key_versions
    BY <2>3, <2>4 DEF SlotInv
  <2>. QED
    BY <2>2, <2>3, <2>4, <2>5 DEF get_version, versions_of
<1>. QED
  BY <1>1, Inductive, PTL

\* A key answered as deleted is gone: no request that began after the answer uses
\* any of its material, be it to encrypt, decrypt, sign or verify.
THEOREM RevokedStaysGone == Spec => RevokedIsGone
<1>. DEFINE A == \A t \in Thread :
                    pc[t] # "idle" /\ out'[t] # None /\ "material" \in DOMAIN out'[t] =>
                        out'[t].material \notin dead[t]
<1>1. IndInv /\ [Next]_vars => [A]_vars
  <2>. SUFFICES ASSUME IndInv, [Next]_vars, NEW t \in Thread, pc[t] # "idle",
                       out'[t] # None, "material" \in DOMAIN out'[t]
                PROVE  out'[t].material \notin dead[t]
    OBVIOUS
  <2>0. /\ TableInv /\ TableOK /\ LocalOK /\ ThreadInv(t) /\ out[t] = None
        /\ Reads(t) /\ Asks(t) /\ Holds(t)
    BY TypeParts DEF IndInv, ThreadInv
  <2>1. ~UNCHANGED out
    BY <2>0
  <2>2. ~(Unlock \/ Lock \/ Crash \/ UNCHANGED vars)
    BY <2>0, <2>1 DEF Unlock, Lock, Crash, vars
  <2>3. PICK u \in Thread : (\E r \in Request : Start(u, r)) \/ Step(u)
    BY <2>2 DEF Next
  <2>4. ASSUME NEW o, Answer(u, o) PROVE u = t /\ out'[t] = o
    BY <2>0, <2>4 DEF Answer, LocalOK
  <2>5. ASSUME NEW r \in Request, Start(u, r) PROVE FALSE
    BY <2>0, <2>5 DEF Start, LocalOK
  <2>6. ASSUME NEW code, Raise(u, code) PROVE FALSE
    <3>1. out'[t] \in {[result |-> code], [result |-> "refused"]}
      BY <2>4, <2>6 DEF Raise, Refused
    <3>2. "material" \notin DOMAIN out'[t]
      BY <3>1
    <3>. QED
      BY <3>2
  <2>7. ASSUME Answer(u, Done) PROVE FALSE
    <3>1. out'[t] = [result |-> "done"]
      BY <2>4, <2>7 DEF Done
    <3>. QED
      BY <3>1
  <2>8. CASE Unwrap(u)
    <3>. PICK v : v = CHOOSE w \in rows[u] : TRUE
      OBVIOUS
    <3>1. ~\E code : Raise(u, code)
      BY <2>6
    <3>2. \/ Answer(u, [result |-> "plaintext", material |-> v.material])
          \/ Answer(u, [result |-> "issued", material |-> v.material])
      BY <2>8, <3>1 DEF Unwrap
    <3>3. u = t /\ out'[t].material = v.material
      BY <3>2, <2>4
    <3>4. v.material \notin dead[t]
      BY <2>8, <3>3, UnwrapRow DEF Unwrap
    <3>. QED
      BY <3>3, <3>4
  \* verify answers with the material of a row it has read.
  <2>9. ASSUME NEW found, Answer(u, verdict(found, req[u].token)),
               \A v \in found : v \in minted /\ v.material \notin dead[u],
               req[u].op = "verify", u = t
        PROVE  out'[t].material \notin dead[t]
    <3>1. out'[t] = verdict(found, req[t].token)
      BY <2>4, <2>9
    <3>2. PICK v \in found : v.public = req[t].token.material
                             /\ out'[t].material = req[t].token.material
      BY <3>1 DEF verdict
    <3>3. req[t].token.material # None
      <4>1. req[t].token \in Token
        BY <2>0, <2>9 DEF Asks, TableOK
      <4>. QED
        BY <4>1, TransitAssumption DEF Token
    <3>4. v.public \in {v.material, None}
      BY <2>0, <2>9 DEF TableInv, MintedInv, RowInv
    <3>. QED
      BY <2>9, <3>2, <3>3, <3>4
  <2>10. CASE List(u)
    <3>1. Answer(u, verdict({}, req[u].token))
      BY <2>10, <2>0 DEF List
    <3>. QED
      BY <3>1, <2>9, <2>10, <2>4, <2>0 DEF List, Asks
  <2>11. CASE Candidate(u)
    <3>. PICK newest, found : newest = Max(todo[u]) /\ found = get_version(row[u].id, newest)
      OBVIOUS
    <3>1. ~\E code : Raise(u, code)
      BY <2>6
    <3>2. Answer(u, verdict(rows[u] \cup found, req[u].token))
      BY <3>1, <2>0, <2>11 DEF Candidate
    <3>3. u = t
      BY <3>2, <2>4
    <3>4. \A v \in found : v \in minted /\ v.material \notin dead[u]
      BY <2>0, <3>3, FoundRow DEF LocalOK
    <3>5. \A v \in rows[u] : v \in minted /\ v.material \notin dead[u]
      BY <2>0, <3>3 DEF Reads
    <3>. QED
      BY <3>2, <3>3, <3>4, <3>5, <2>0, <2>9, <2>11 DEF Candidate, Asks
  <2>. QED
    <3>1. ~(\E code : Raise(u, code)) /\ ~Answer(u, Done)
      BY <2>6, <2>7
    <3>2. CASE Deny(u) \/ Check(u) \/ Begin(u) \/ Wrap(u) \/ Commit(u)
               \/ Reread(u) \/ Delete(u) \/ SelectVersion(u) \/ DbFails(u)
      BY <3>1, <3>2, <2>1 DEF Deny, Check, Begin, Wrap, Commit, Reread, Delete,
                              SelectVersion, DbFails
    <3>. QED
      BY <3>2, <2>3, <2>5, <2>8, <2>10, <2>11 DEF Step
<1>. QED
  BY <1>1, Inductive, PTL DEF Spec, RevokedIsGone

\* An answer comes from the step of the request itself, with the tables still as
\* the request found them.
LEMMA Answered ==
    ASSUME IndInv, [Next]_vars, NEW t \in Thread, out'[t] # out[t], out'[t] # None
    PROVE  Step(t) /\ ~Begin(t) /\ ~Commit(t) /\ \A o : Answer(t, o) => out'[t] = o
<1>0. LocalOK
  BY TypeParts DEF IndInv
<1>1. ~(Unlock \/ Lock \/ Crash \/ UNCHANGED vars)
  BY <1>0 DEF Unlock, Lock, Crash, vars
<1>2. PICK u \in Thread : (\E r \in Request : Start(u, r)) \/ Step(u)
  BY <1>1 DEF Next
<1>3. ASSUME NEW r \in Request, Start(u, r) PROVE FALSE
  BY <1>0, <1>3 DEF Start, LocalOK
<1>4. Step(u) /\ out' # out
  BY <1>2, <1>3
<1>5. \E o : Answer(u, o)
  BY <1>4 DEF Step, Deny, Check, Begin, Wrap, Commit, Reread, Delete, SelectVersion,
              Unwrap, List, Candidate, DbFails, Raise
<1>6. u = t
  BY <1>0, <1>5 DEF Answer, LocalOK
<1>7. \A o : Answer(t, o) => out'[t] = o
  BY <1>0 DEF Answer, LocalOK
<1>. QED
  BY <1>4, <1>6, <1>7 DEF Begin, Commit

\* A row of the signing key's version is the one the signature was made with.
LEMMA MadeWith ==
    ASSUME TableInv, NEW c \in issued, NEW v \in minted,
           v.key_id = c.key_id, v.version = c.version
    PROVE  /\ v.material = c.material
           /\ v.public = IF c.usage = "SIGN_VERIFY" THEN c.material ELSE None
<1>1. IssuedInv(c) /\ MintedInv
  BY DEF TableInv
<1>2. PICK w \in minted : /\ w.key_id = c.key_id /\ w.version = c.version
                          /\ w.material = c.material
                          /\ w.aad = <<c.owner, c.name, c.usage, c.version>>
  BY <1>1 DEF IssuedInv, key_aad
<1>3. v = w
  BY <1>1, <1>2 DEF MintedInv
<1>4. v.public = IF v.aad[3] = "SIGN_VERIFY" THEN v.material ELSE None
  BY <1>1 DEF MintedInv, RowInv
<1>. QED
  BY <1>2, <1>3, <1>4

\* verify rejects a signature of the key only if another version is pinned or the
\* key was revoked meanwhile.
LEMMA RejectsForeign ==
    ASSUME IndInv, [Next]_vars, NEW t \in Thread,
           out'[t] = [result |-> "invalid"], out[t] # out'[t],
           req[t].token.key_id = row[t].id, req[t].pinned \in {0, req[t].token.version}
    PROVE  named_keys[Slot(t)] = None \/ named_keys[Slot(t)].id # row[t].id
<1>. SUFFICES ASSUME named_keys[Slot(t)] # None, named_keys[Slot(t)].id = row[t].id
              PROVE  FALSE
  OBVIOUS
<1>0. TableInv /\ TableOK /\ LocalOK /\ ThreadInv(t) /\ Reads(t)
  BY TypeParts DEF IndInv, ThreadInv
<1>1. out'[t] # None
  BY NoneAssumption
<1>2. Step(t) /\ ~Begin(t) /\ ~Commit(t) /\ \A o : Answer(t, o) => out'[t] = o
  BY <1>1, Answered
<1>3. \A code : ~Raise(t, code)
  <2>1. ASSUME NEW code, Raise(t, code) PROVE FALSE
    <3>1. out'[t] \in {[result |-> "TAMPER_DETECTED"], [result |-> "refused"]}
      BY <1>2, <2>1 DEF Raise, Refused
    <3>. QED
      BY <3>1
  <2>. QED
    BY <2>1
<1>4. ~Answer(t, Done)
  <2>1. Done # [result |-> "invalid"]
    BY DEF Done
  <2>. QED
    BY <2>1, <1>2
<1>5. ASSUME Unwrap(t) PROVE FALSE
  <2>. PICK v : v = CHOOSE w \in rows[t] : TRUE
    OBVIOUS
  <2>1. \/ Answer(t, [result |-> "plaintext", material |-> v.material])
        \/ Answer(t, [result |-> "issued", material |-> v.material])
    BY <1>3, <1>5 DEF Unwrap
  <2>2. out'[t] \in {[result |-> "plaintext", material |-> v.material],
                     [result |-> "issued", material |-> v.material]}
    BY <1>2, <2>1
  <2>. QED
    BY <2>2
<1>6. ASSUME List(t) PROVE FALSE
  BY <1>2, <1>6, <1>0, ListFinds DEF List
<1>7. ASSUME Candidate(t) PROVE FALSE
  <2>. PICK newest, found : newest = Max(todo[t]) /\ found = get_version(row[t].id, newest)
    OBVIOUS
  <2>1. /\ Answer(t, verdict(rows[t] \cup found, req[t].token))
        /\ found # {} /\ todo[t] = {newest} /\ pc[t] = "candidates"
    BY <1>2, <1>3, <1>7 DEF Candidate
  <2>2. PICK c \in issued : c = req[t].token /\ c.usage = "SIGN_VERIFY"
    BY <1>0, <2>1 DEF ThreadInv, Asks
  <2>3. \A v \in found : v \in minted /\ v.key_id = row[t].id /\ v.version = newest
    BY <1>0, FoundRow
  <2>4. \E v \in rows[t] \cup found : v \in minted /\ v.key_id = row[t].id
                                       /\ v.version = c.version
    BY <1>0, <2>1, <2>2, <2>3 DEF ThreadInv, Pending, Reads
  <2>5. PICK v \in rows[t] \cup found : v.public = c.material
    BY <1>0, <2>2, <2>4, MadeWith
  <2>6. verdict(rows[t] \cup found, c) = [result |-> "valid", material |-> c.material]
    BY <2>5 DEF verdict
  <2>7. out'[t] = [result |-> "valid", material |-> c.material]
    BY <1>2, <2>1, <2>2, <2>6
  <2>. QED
    BY <2>7
<1>. QED
  BY <1>2, <1>3, <1>4, <1>5, <1>6, <1>7
     DEF Step, Deny, Check, Wrap, Reread, Delete, SelectVersion, DbFails

\* A signature that its key has made is accepted, however rotations interleave with
\* the reading of the versions, unless the key is gone when the answer is given.
THEOREM VerifyIsHonest == Spec => VerifyHonest
<1>. DEFINE A == \A t \in Thread :
                    /\ out'[t] = [result |-> "invalid"] /\ out[t] # out'[t]
                    /\ req[t].token.key_id = row[t].id
                    /\ req[t].pinned \in {0, req[t].token.version}
                    => named_keys[Slot(t)] = None \/ named_keys[Slot(t)].id # row[t].id
<1>1. IndInv /\ [Next]_vars => [A]_vars
  BY RejectsForeign
<1>. QED
  BY <1>1, Inductive, PTL DEF Spec, VerifyHonest

\* What is reported as tampered: a ciphertext of another key, or a version bound to
\* another usage than the key that was read.
LEMMA TamperedBy ==
    ASSUME IndInv, [Next]_vars, NEW t \in Thread,
           out'[t] = [result |-> "TAMPER_DETECTED"], out[t] # out'[t]
    PROVE  /\ pc[t] = "unwrap"
           /\ \/ req[t].op = "decrypt" /\ req[t].token.key_id # row[t].id
              \/ \E v \in rows[t] : v.aad[3] # row[t].usage
<1>0. TableInv /\ TableOK /\ LocalOK /\ ThreadInv(t)
  BY TypeParts DEF IndInv
<1>1. Step(t) /\ ~Begin(t) /\ ~Commit(t) /\ \A o : Answer(t, o) => out'[t] = o
  BY NoneAssumption, Answered
<1>2. \A o : Answer(t, o) => o = [result |-> "TAMPER_DETECTED"]
  BY <1>1
<1>3. ~Answer(t, Done) /\ ~Answer(t, Refused)
  <2>1. Done # [result |-> "TAMPER_DETECTED"] /\ Refused # [result |-> "TAMPER_DETECTED"]
    BY DEF Done, Refused
  <2>. QED
    BY <2>1, <1>2
<1>4. \A code : Raise(t, code) => code = "TAMPER_DETECTED"
  BY <1>3 DEF Raise
<1>5. \A found, c : ~Answer(t, verdict(found, c))
  <2>1. ASSUME NEW found, NEW c PROVE verdict(found, c) # [result |-> "TAMPER_DETECTED"]
    BY DEF verdict
  <2>. QED
    BY <2>1, <1>2
<1>6. Unwrap(t)
  BY <1>1, <1>3, <1>4, <1>5
     DEF Step, Deny, Check, Wrap, Reread, Delete, SelectVersion, DbFails, List, Candidate
<1>. PICK v : v = CHOOSE w \in rows[t] : TRUE
  OBVIOUS
<1>7. ~unwraps(t, v) \/ (req[t].op = "decrypt" /\ ~decrypts(t, v))
  <2>1. ASSUME NEW m, NEW r \in {"plaintext", "issued"}
        PROVE  [result |-> r, material |-> m] # [result |-> "TAMPER_DETECTED"]
    OBVIOUS
  <2>2. ~Answer(t, [result |-> "plaintext", material |-> v.material])
    BY <2>1, <1>2
  <2>3. ~Answer(t, [result |-> "issued", material |-> v.material])
    BY <2>1, <1>2
  <2>. QED
    BY <1>4, <1>6, <2>2, <2>3 DEF Unwrap
<1>8. v \in rows[t] /\ v \in minted /\ v.key_id = row[t].id /\ v.version = version_wanted(t)
  BY <1>6, UnwrapRow DEF Unwrap
<1>9. Asks(t) /\ KeyOf(row[t].id, row[t].usage, Slot(t)) /\ Slot(t) \in Slots /\ MintedInv
  BY <1>0, <1>6 DEF Unwrap, ThreadInv, Asks, Holds, TableInv
<1>. PICK s, k : s = Slot(t) /\ k = row[t]
  OBVIOUS
<1>10. ASSUME v.aad[3] = row[t].usage PROVE unwraps(t, v)
  <2>1. v.aad = <<v.aad[1], v.aad[2], v.aad[3], v.version>>
    BY <1>8, <1>9 DEF MintedInv, RowInv, key_aad
  <2>2. v.aad[1] = s[1] /\ v.aad[2] = s[2]
    BY <1>8, <1>9 DEF KeyOf
  <2>3. s[1] = req[t].user /\ s[2] = req[t].name
    BY DEF Slot
  <2>. QED
    BY <1>10, <2>1, <2>2, <2>3 DEF unwraps, key_aad
<1>11. ASSUME req[t].op = "decrypt", req[t].token.key_id = row[t].id PROVE decrypts(t, v)
  <2>. PICK c \in issued : c = req[t].token
    BY <1>9, <1>11 DEF Asks
  <2>1. /\ IssuedInv(c) /\ c.name \in Name /\ c.owner \in User
        /\ parse_header(c.words) = [key_name |-> c.name, key_version |-> c.version]
    BY <1>0, IssuedParses DEF TableInv
  <2>2. version_wanted(t) = c.version
    BY <2>1, <1>11 DEF version_wanted
  <2>3. v.material = c.material
    BY <1>0, <1>8, <1>11, <2>2, MadeWith
  <2>4. <<c.owner, c.name>> = s
    <3>1. KeyOf(k.id, c.usage, <<c.owner, c.name>>) /\ <<c.owner, c.name>> \in Slots
      BY <2>1, <1>11 DEF IssuedInv, Slots
    <3>. QED
      BY <3>1, <1>9, SameKey
  <2>5. c.owner = req[t].user /\ c.name = req[t].name
    BY <2>4 DEF Slot
  <2>. QED
    BY <2>2, <2>3, <2>5 DEF decrypts
<1>. QED
  BY <1>6, <1>7, <1>8, <1>10, <1>11 DEF Unwrap

\* Whatever usages a name has had, encrypt, sign and decrypt fail to unwrap only over
\* a ciphertext of another key, or a version that a rotation, begun before the name
\* was revoked and created again, has bound to the usage the name had then.
THEOREM TamperIsExplained == Spec => TamperExplained
<1>. DEFINE A == \A t \in Thread :
                    out'[t] = [result |-> "TAMPER_DETECTED"] /\ out[t] # out'[t] =>
                        \/ req[t].op = "decrypt" /\ req[t].token.key_id # row[t].id
                        \/ \E v \in rows[t] : v.aad[3] # row[t].usage
<1>1. IndInv /\ [Next]_vars => [A]_vars
  BY TamperedBy
<1>. QED
  BY <1>1, Inductive, PTL DEF Spec, TamperExplained

\* No name is asked for with two usages.  Without it rotate may wrap for the usage
\* of a key of that name revoked meanwhile: the row it read before BEGIN.
OneUsagePerName == \A c, d \in Creatable : c[1] = d[1] => c[2] = d[2]

\* Then only a foreign ciphertext is reported as tampered: what the key itself has
\* made unwraps and decrypts, whatever was rotated, revoked or locked meanwhile.
THEOREM TamperMeansForeign ==
    ASSUME OneUsagePerName
    PROVE  Spec => NoSpuriousTamper
<1>. DEFINE A == \A t \in Thread :
                    out'[t] = [result |-> "TAMPER_DETECTED"] /\ out[t] # out'[t] =>
                        req[t].op = "decrypt" /\ req[t].token.key_id # row[t].id
<1>1. IndInv /\ [Next]_vars => [A]_vars
  <2>. SUFFICES ASSUME IndInv, [Next]_vars, NEW t \in Thread,
                       out'[t] = [result |-> "TAMPER_DETECTED"], out[t] # out'[t],
                       NEW v \in rows[t], pc[t] = "unwrap", v.aad[3] # row[t].usage
                PROVE  FALSE
    BY TamperedBy
  <2>1. /\ MintedInv /\ v \in minted /\ v.key_id = row[t].id
        /\ Slot(t) \in Slots /\ KeyOf(row[t].id, row[t].usage, Slot(t))
    BY DEF IndInv, TableInv, ThreadInv, Reads, Asks, Holds
  <2>. PICK s, k : s = Slot(t) /\ k = row[t]
    OBVIOUS
  <2>2. v.aad[1] = s[1] /\ v.aad[2] = s[2] /\ <<v.aad[2], v.aad[3]>> \in Creatable
    BY <2>1 DEF KeyOf, MintedInv, RowInv
  <2>3. <<s[2], k.usage>> \in Creatable
    BY <2>1, BoundUsage
  <2>. PICK c, d : c = <<v.aad[2], v.aad[3]>> /\ d = <<s[2], k.usage>>
    OBVIOUS
  <2>. QED
    BY <2>2, <2>3 DEF OneUsagePerName
<1>. QED
  BY <1>1, Inductive, PTL DEF Spec, NoSpuriousTamper

\* Formatting and parsing agree on every ciphertext handed out and on all others,
\* for any key names, GCM lengths and payloads.
THEOREM FramingIsExact == Spec => []FramingExact
<1>1. IndInv => FramingExact
  <2>. SUFFICES ASSUME IndInv PROVE FramingExact
    OBVIOUS
  <2>1. TableOK /\ \A i \in issued : IssuedInv(i)
    BY TypeParts DEF IndInv, TableInv
  <2>2. \A c \in issued :
           parse_header(c.words) = [key_name |-> c.name, key_version |-> c.version]
    BY <2>1, IssuedParses
  <2>. QED
    BY <2>2, RoundTrips, ShapesAccepted DEF FramingExact
<1>. QED
  BY <1>1, Inductive, PTL

-----------------------------------------------------------------------------
(* What requests know of their keys                                        *)

\* A key had all of its versions when its row was read, and what decrypt and verify
\* are given was made by then.
Arrived(t) ==
    pc[t] # "idle" /\ row[t] # None =>
        /\ \A n \in 1 .. row[t].latest_version :
              \E v \in minted : v.key_id = row[t].id /\ v.version = n
        /\ req[t].op \in {"decrypt", "verify"} /\ req[t].token.key_id = row[t].id =>
              req[t].token.version \in 1 .. row[t].latest_version

\* A verify that pins a version reads no other.
Pins(t) ==
    pc[t] = "candidates" =>
        /\ todo[t] # {}
        /\ req[t].pinned # 0 => todo[t] = {req[t].pinned} /\ rows[t] = {}

Known == \A t \in Thread : Arrived(t) /\ Pins(t)

\* What a request asks for and its key row do not change until it is answered.
LEMMA RequestKept ==
    ASSUME IndInv, [Next]_vars, NEW t \in Thread
    PROVE  /\ minted \subseteq minted'
           /\ \/ pc'[t] = "idle"
              \/ pc[t] # "idle" /\ req'[t] = req[t] /\ row'[t] = row[t]
              \/ \E r \in Request : Start(t, r)
<1>0. LocalOK
  BY TypeParts DEF IndInv
<1>1. minted \subseteq minted'
  <2>1. ASSUME NEW u \in Thread, Commit(u) PROVE minted \subseteq minted'
    BY <2>1 DEF Commit
  <2>2. ASSUME NEW u \in Thread, Step(u), ~Commit(u) PROVE minted \subseteq minted'
    BY <2>2 DEF Step, Deny, Check, Begin, Wrap, Reread, Delete, SelectVersion, Unwrap, List,
                Candidate, DbFails, tables
  <2>3. ASSUME NEW u \in Thread, NEW r \in Request, Start(u, r) PROVE minted \subseteq minted'
    BY <2>3 DEF Start, tables
  <2>4. CASE Unlock \/ Lock \/ Crash \/ UNCHANGED vars
    BY <2>4 DEF Unlock, Lock, Crash, tables, vars
  <2>. QED
    BY <2>1, <2>2, <2>3, <2>4 DEF Next
<1>2. CASE Unlock \/ Lock \/ Crash \/ UNCHANGED vars
  BY <1>1, <1>2 DEF Unlock, Lock, Crash, locals, vars
<1>3. ASSUME NEW u \in Thread, Step(u)
      PROVE  \/ pc'[t] = "idle"
             \/ pc[t] # "idle" /\ req'[t] = req[t] /\ row'[t] = row[t]
  <2>1. pc[u] # "idle"
    BY <1>3 DEF Step, Deny, Check, Begin, Wrap, Commit, Reread, Delete, SelectVersion,
                Unwrap, List, Candidate, DbFails, Database
  <2>2. \/ \E o : Answer(u, o)
        \/ UNCHANGED <<req, row>> /\ (pc' = pc \/ \E l : Goto(u, l))
    BY <1>3 DEF Step, Deny, Check, Begin, Wrap, Commit, Reread, Delete, SelectVersion,
                Unwrap, List, Candidate, DbFails, Raise, locals
  <2>. QED
    BY <2>1, <2>2, <1>0 DEF Answer, Goto, LocalOK
<1>4. ASSUME NEW u \in Thread, NEW r \in Request, Start(u, r), u # t
      PROVE  pc'[t] = pc[t] /\ req'[t] = req[t] /\ row'[t] = row[t]
  BY <1>0, <1>4 DEF Start, Goto, LocalOK
<1>. QED
  BY <1>1, <1>2, <1>3, <1>4 DEF Next

LEMMA ArrivedInd ==
    ASSUME IndInv, [Next]_vars, NEW t \in Thread, Arrived(t)
    PROVE  Arrived(t)'
<1>0. TableInv /\ TableOK /\ LocalOK
  BY TypeParts DEF IndInv
<1>1. minted \subseteq minted'
  BY RequestKept
<1>2. CASE pc'[t] = "idle"
  BY <1>2 DEF Arrived
<1>3. CASE pc[t] # "idle" /\ req'[t] = req[t] /\ row'[t] = row[t]
  BY <1>1, <1>3 DEF Arrived
<1>4. ASSUME NEW r \in Request, Start(t, r) PROVE Arrived(t)'
  <2>. PICK s, k : s = <<r.user, r.name>> /\ k = IF r.op = "create" THEN None ELSE named_keys[s]
    OBVIOUS
  <2>1. req'[t] = r /\ row'[t] = k
    BY <1>0, <1>4 DEF Start, LocalOK
  <2>2. Shape(r)
    BY <1>0, RequestShape DEF TableInv
  <2>. SUFFICES ASSUME k # None PROVE Arrived(t)'
    BY <2>1 DEF Arrived
  <2>3. s \in Slots /\ k = named_keys[s] /\ SlotInv(s) /\ r.op # "create"
    BY <2>2, <1>0 DEF Shape, Slots, TableInv
  <2>4. {v.version : v \in versions_of(k.id)} = 1 .. k.latest_version
    BY <2>3 DEF SlotInv
  <2>5. \A n \in 1 .. k.latest_version : \E v \in minted : v.key_id = k.id /\ v.version = n
    BY <2>4, <1>0 DEF versions_of, TableInv, StoredInv
  <2>6. ASSUME r.op \in {"decrypt", "verify"}, r.token.key_id = k.id
        PROVE  r.token.version \in 1 .. k.latest_version
    <3>. PICK c \in issued : c = r.token /\ IssuedInv(c)
      BY <2>2, <2>6, <1>0 DEF Shape, TableInv
    <3>1. PICK v \in minted : v.key_id = k.id /\ v.version = c.version
      BY <2>6 DEF IssuedInv
    <3>2. v \in versions_of(k.id)
      BY <3>1, <2>3 DEF SlotInv, versions_of
    <3>. QED
      BY <3>1, <3>2, <2>4
  <2>. QED
    BY <2>1, <2>5, <2>6, <1>1 DEF Arrived
<1>. QED
  BY <1>2, <1>3, <1>4, RequestKept

LEMMA MaxOfOne ==
    ASSUME NEW a \in Int
    PROVE  Max({a}) = a
BY DEF Max

LEMMA PinsInd ==
    ASSUME IndInv, [Next]_vars, NEW t \in Thread, Pins(t)
    PROVE  Pins(t)'
<1>0. TableInv /\ TableOK /\ LocalOK /\ ThreadInv(t)
  BY TypeParts DEF IndInv
<1>. SUFFICES ASSUME pc'[t] = "candidates" PROVE Pins(t)'
  BY DEF Pins
<1>1. CASE UNCHANGED <<pc[t], req[t], todo[t], rows[t]>>
  BY <1>1 DEF Pins
<1>2. CASE Unlock \/ Lock \/ Crash \/ UNCHANGED vars
  BY <1>1, <1>2 DEF Unlock, Lock, Crash, locals, vars
<1>3. ASSUME NEW u \in Thread, NEW r \in Request, Start(u, r)
      PROVE  UNCHANGED <<pc[t], req[t], todo[t], rows[t]>>
  BY <1>0, <1>3 DEF Start, Goto, LocalOK
<1>4. ASSUME NEW u \in Thread, NEW o, Answer(u, o)
      PROVE  UNCHANGED <<pc[t], req[t], todo[t], rows[t]>>
  BY <1>0, <1>4 DEF Answer, Goto, LocalOK
<1>5. ASSUME NEW u \in Thread, Step(u), \A o : ~Answer(u, o), ~List(u), ~Candidate(u)
      PROVE  UNCHANGED <<pc[t], req[t], todo[t], rows[t]>>
  <2>1. PICK l : /\ Goto(u, l) /\ l # "candidates" /\ UNCHANGED <<req, todo>>
                 /\ rows' = rows \/ \E x : rows' = [rows EXCEPT ![u] = x]
    BY <1>5 DEF Step, Deny, Check, Begin, Wrap, Commit, Reread, Delete, SelectVersion, Unwrap,
                DbFails, Raise, locals
  <2>. QED
    BY <2>1, <1>0 DEF Goto, LocalOK
<1>6. ASSUME NEW u \in Thread, List(u), \A o : ~Answer(u, o)
      PROVE  Pins(t)'
  <2>1. /\ pc[u] = "list" /\ Goto(u, "candidates") /\ UNCHANGED <<req, rows>>
        /\ todo' = [todo EXCEPT ![u] = candidates(u)] /\ candidates(u) # {}
    BY <1>6 DEF List
  <2>2. CASE u = t
    <3>1. rows[t] = {} /\ todo'[t] = candidates(t) /\ candidates(t) # {}
      BY <2>1, <2>2, <1>0 DEF ThreadInv, Reads, LocalOK
    <3>2. req[t].pinned # 0 => candidates(t) = {req[t].pinned}
      BY DEF candidates
    <3>. QED
      BY <3>1, <3>2, <2>1 DEF Pins
  <2>3. CASE u # t
    BY <2>1, <2>3, <1>0, <1>1 DEF Goto, LocalOK
  <2>. QED
    BY <2>2, <2>3
<1>7. ASSUME NEW u \in Thread, Candidate(u), \A o : ~Answer(u, o)
      PROVE  Pins(t)'
  <2>. PICK newest, found : newest = Max(todo[u]) /\ found = get_version(row[u].id, newest)
    OBVIOUS
  <2>1. /\ pc[u] = "candidates" /\ todo[u] # {newest} /\ UNCHANGED <<pc, req>>
        /\ rows' = [rows EXCEPT ![u] = @ \cup found]
        /\ todo' = [todo EXCEPT ![u] = @ \ {newest}]
    BY <1>7 DEF Candidate, Raise
  <2>2. CASE u = t
    <3>1. todo'[t] = todo[t] \ {newest} /\ todo[t] # {} /\ todo[t] # {newest}
      BY <2>1, <2>2, <1>0 DEF LocalOK, Pins
    <3>2. req[t].pinned = 0
      <4>1. ASSUME todo[t] = {req[t].pinned} PROVE FALSE
        <5>1. newest = req[t].pinned
          <6>1. req[t].pinned \in 0 .. MaxVersion
            BY <2>1, <2>2, <1>0 DEF ThreadInv, Asks
          <6>2. req[t].pinned \in Int
            BY <6>1
          <6>. QED
            BY <6>2, <4>1, <2>2, MaxOfOne
        <5>. QED
          BY <5>1, <4>1, <3>1
      <4>. QED
        BY <4>1, <2>1, <2>2 DEF Pins
    <3>. QED
      BY <3>1, <3>2, <2>1 DEF Pins
  <2>3. CASE u # t
    BY <2>1, <2>3, <1>0, <1>1 DEF LocalOK
  <2>. QED
    BY <2>2, <2>3
<1>. QED
  BY <1>1, <1>2, <1>3, <1>4, <1>5, <1>6, <1>7 DEF Next

LEMMA KnownAlways == Spec => [](IndInv /\ Known)
<1>1. Init => Known
  BY DEF Init, Known, Arrived, Pins
<1>2. IndInv /\ Known /\ [Next]_vars => Known'
  BY ArrivedInd, PinsInd DEF Known
<1>. QED
  BY <1>1, <1>2, InitInd, NextInd, PTL DEF Spec

-----------------------------------------------------------------------------
(* The materials of a key                                                  *)

\* At most one of the rows has a given key and version.
Distinct(versions) ==
    \A v, w \in versions : v.key_id = w.key_id /\ v.version = w.version => v = w

\* All versions of the key are among the rows.
AllOf(versions, key) ==
    \A n \in 1 .. key.latest_version : \E v \in versions : v.key_id = key.id /\ v.version = n

LEMMA MaterialOf ==
    ASSUME NEW versions, NEW key, key # None, NEW v \in versions, Distinct(versions),
           v.key_id = key.id, v.version \in 1 .. key.latest_version
    PROVE  Materials(versions, key)[v.version] = v.material
<1>1. (CHOOSE w \in versions : w.key_id = key.id /\ w.version = v.version) = v
  BY DEF Distinct
<1>. QED
  BY <1>1 DEF Materials

\* Rows of other keys, and copies of rows, do not change the materials of a key.
LEMMA MaterialsKept ==
    ASSUME NEW V, NEW W, NEW key, key # None => AllOf(V, key), V \subseteq W, Distinct(W)
    PROVE  Materials(V, key) = Materials(W, key)
<1>. SUFFICES ASSUME key # None PROVE Materials(V, key) = Materials(W, key)
  BY DEF Materials
<1>1. ASSUME NEW n \in 1 .. key.latest_version
      PROVE  (CHOOSE v \in V : v.key_id = key.id /\ v.version = n)
                = (CHOOSE v \in W : v.key_id = key.id /\ v.version = n)
  <2>1. PICK v \in V : v.key_id = key.id /\ v.version = n
    BY DEF AllOf
  <2>. QED
    BY <2>1 DEF Distinct
<1>. DEFINE at(X, n) == (CHOOSE v \in X : v.key_id = key.id /\ v.version = n).material
<1>2. \A n \in 1 .. key.latest_version : at(V, n) = at(W, n)
  BY <1>1
<1>3. /\ Materials(V, key) = [n \in 1 .. key.latest_version |-> at(V, n)]
      /\ Materials(W, key) = [n \in 1 .. key.latest_version |-> at(W, n)]
  BY DEF Materials
<1>. HIDE DEF at
<1>. QED
  BY <1>2, <1>3

LEMMA MaterialsType ==
    ASSUME NEW V \in SUBSET VersionRow, NEW key \in Key \cup {None}, key # None => AllOf(V, key)
    PROVE  /\ Materials(V, key) \in Seq(Material)
           /\ key = None => Materials(V, key) = <<>>
           /\ key # None => Len(Materials(V, key)) = key.latest_version
           /\ key # None => DOMAIN Materials(V, key) = 1 .. key.latest_version
           /\ key # None => key.latest_version \in Nat \ {0}
<1>1. CASE key = None
  BY <1>1 DEF Materials
<1>2. CASE key # None
  <2>. PICK L : L = key.latest_version
    OBVIOUS
  <2>1. L \in Nat \ {0}
    BY <1>2 DEF Key, Version
  <2>. DEFINE at(n) == (CHOOSE v \in V : v.key_id = key.id /\ v.version = n).material
  <2>2. ASSUME NEW n \in 1 .. L PROVE at(n) \in Material
    <3>1. \E v \in V : v.key_id = key.id /\ v.version = n
      BY <1>2 DEF AllOf
    <3>2. (CHOOSE v \in V : v.key_id = key.id /\ v.version = n) \in VersionRow
      BY <3>1
    <3>. QED
      BY <3>2 DEF VersionRow
  <2>3. Materials(V, key) = [n \in 1 .. L |-> at(n)]
    BY <1>2 DEF Materials
  <2>. HIDE DEF at
  <2>4. [n \in 1 .. L |-> at(n)] \in [1 .. L -> Material]
    BY <2>2
  <2>. QED
    BY <2>1, <2>3, <2>4, <1>2, LenProperties
<1>. QED
  BY <1>1, <1>2

\* What is stored for a key is all that was ever made for it.
LEMMA StoredAll ==
    ASSUME TableInv, NEW s \in Slots
    PROVE  /\ Distinct(minted) /\ Distinct(named_key_versions)
           /\ named_keys[s] # None => AllOf(named_key_versions, named_keys[s])
           /\ named_key_versions \subseteq minted
           /\ KeyAt(s) = Materials(minted, named_keys[s])
<1>1. Distinct(minted) /\ named_key_versions \subseteq minted /\ Distinct(named_key_versions)
  BY DEF TableInv, MintedInv, StoredInv, Distinct
<1>2. ASSUME named_keys[s] # None PROVE AllOf(named_key_versions, named_keys[s])
  <2>1. {v.version : v \in versions_of(named_keys[s].id)} = 1 .. named_keys[s].latest_version
    BY <1>2 DEF TableInv, SlotInv
  <2>. QED
    BY <2>1 DEF AllOf, versions_of
<1>. QED
  BY <1>1, <1>2, MaterialsKept DEF KeyAt

-----------------------------------------------------------------------------
(* The engine implements KeyStore                                          *)

\* The state of KeyStore.
absKeys    == [s \in User \X Name |-> KeyAt(s)]
absDrawn   == {v.material : v \in minted}
absCall    == [t \in Thread |-> CallOf(t)]
absSeen    == [t \in Thread |-> SeenBy(t)]
absChanged == [t \in Thread |-> pc[t] = "reread"]
absAnswer  == [t \in Thread |-> AnswerTo(t)]

\* What a request asks for is a call of KeyStore.
CallRight(t) ==
    /\ CallOf(t) \in Store!Call /\ CallOf(t) # None
    /\ CallOf(t).op = req[t].op /\ CallOf(t).slot = Slot(t)
    /\ req[t].op \in {"decrypt", "verify"} => CallOf(t).made = req[t].token.material
    /\ req[t].op = "verify" => CallOf(t).pinned = req[t].pinned

LEMMA CallIs == IndInv => \A t \in Thread : pc[t] # "idle" => CallRight(t)
<1>. SUFFICES ASSUME IndInv, NEW t \in Thread, pc[t] # "idle" PROVE CallRight(t)
  OBVIOUS
<1>0. TableOK /\ Asks(t)
  BY TypeParts DEF IndInv, ThreadInv
<1>. PICK r, s, c, m : r = req[t] /\ s = Slot(t) /\ c = CallOf(t) /\ m = r.token.material
  OBVIOUS
<1>1. s \in User \X Name
  BY <1>0 DEF Asks, Slots
<1>2. r.op \in {"decrypt", "verify"} => m \in Material
  <2>1. r.op \in {"decrypt", "verify"} => r.token \in Token
    BY <1>0 DEF Asks, TableOK
  <2>. QED
    BY <2>1 DEF Token
<1>3. CASE r.op \in {"create", "rotate", "revoke", "encrypt", "sign"}
  <2>1. c = [op |-> r.op, slot |-> s]
    BY <1>3 DEF CallOf
  <2>2. c \in Store!Call
    BY <2>1, <1>1, <1>3 DEF Store!Call, Store!Changing
  <2>. QED
    BY <2>1, <2>2, <1>3, CallAssumption DEF CallRight
<1>4. CASE r.op = "decrypt"
  <2>1. c = [op |-> r.op, slot |-> s, made |-> m]
    BY <1>4 DEF CallOf
  <2>2. c \in Store!Call
    BY <2>1, <1>1, <1>2, <1>4 DEF Store!Call
  <2>. QED
    BY <2>1, <2>2, <1>4, CallAssumption DEF CallRight
<1>5. CASE r.op = "verify"
  <2>1. c = [op |-> r.op, slot |-> s, made |-> m, pinned |-> r.pinned]
    BY <1>5 DEF CallOf
  <2>2. r.pinned \in 0 .. MaxVersion
    BY <1>0, <1>5 DEF Asks
  <2>3. c \in Store!Call
    BY <2>1, <2>2, <1>1, <1>2, <1>5 DEF Store!Call
  <2>. QED
    BY <2>1, <2>3, <1>5, CallAssumption DEF CallRight
<1>. QED
  BY <1>0, <1>3, <1>4, <1>5 DEF Asks

LEMMA CallIsNext == IndInv' => (\A t \in Thread : pc[t] # "idle" => CallRight(t))'
BY CallIs, PTL

\* Which of a request's locals KeyStore knows of; the rows read and the versions yet
\* to read are not among them.
Alike(t) == pc'[t] = pc[t] /\ req'[t] = req[t] /\ row'[t] = row[t] /\ out'[t] = out[t]

\* The materials of a key that has all its versions never change.
LEMMA SeenKept ==
    ASSUME NEW t \in Thread, Arrived(t), minted \subseteq minted', Distinct(minted'),
           req'[t] = req[t], row'[t] = row[t], pc[t] # "idle" <=> pc'[t] # "idle"
    PROVE  SeenBy(t)' = SeenBy(t)
<1>1. Materials(minted', row[t]) = Materials(minted, row[t])
        \/ pc[t] = "idle"
  BY MaterialsKept DEF Arrived, AllOf
<1>2. SeenBy(t)' = IF pc'[t] = "idle" \/ req'[t].op \in {"create", "rotate", "revoke"} THEN <<>>
                   ELSE Materials(minted', row'[t])
  BY DEF SeenBy, Materials
<1>. QED
  BY <1>1, <1>2 DEF SeenBy

LEMMA OneMoves ==
    ASSUME IndInv, IndInv', Known, minted \subseteq minted',
           NEW t \in Thread, \A u \in Thread \ {t} : Alike(u)
    PROVE  /\ absCall' = [absCall EXCEPT ![t] = CallOf(t)']
           /\ absSeen' = [absSeen EXCEPT ![t] = SeenBy(t)']
           /\ absChanged' = [absChanged EXCEPT ![t] = (pc'[t] = "reread")]
           /\ absAnswer' = [absAnswer EXCEPT ![t] = AnswerTo(t)']
<1>1. Distinct(minted')
  BY DEF IndInv, TableInv, MintedInv, Distinct
<1>2. \A u \in Thread \ {t} : /\ CallOf(u)' = CallOf(u) /\ AnswerTo(u)' = AnswerTo(u)
                              /\ (pc'[u] = "reread") = (pc[u] = "reread")
  BY DEF CallOf, AnswerTo, Slot, Alike
<1>3. \A u \in Thread \ {t} : SeenBy(u)' = SeenBy(u)
  BY <1>1, SeenKept DEF Alike, Known
<1>. QED
  BY <1>2, <1>3 DEF absCall, absSeen, absChanged, absAnswer

LEMMA KeysKept ==
    ASSUME UNCHANGED <<named_keys, named_key_versions, minted>>
    PROVE  absKeys' = absKeys /\ absDrawn' = absDrawn
BY DEF absKeys, absDrawn, KeyAt, Materials

\* With the answer a call is over.
LEMMA Ends ==
    ASSUME IndInv, IndInv', Known, minted \subseteq minted',
           NEW t \in Thread, pc[t] # "idle", NEW o, Answer(t, o)
    PROVE  /\ absCall[t] # None
           /\ absCall' = [absCall EXCEPT ![t] = None]
           /\ absSeen' = [absSeen EXCEPT ![t] = <<>>]
           /\ absChanged' = [absChanged EXCEPT ![t] = FALSE]
           /\ absAnswer' = [absAnswer EXCEPT ![t] =
                               IF o = [result |-> "TAMPER_DETECTED"] THEN Refused ELSE o]
<1>0. LocalOK
  BY TypeParts DEF IndInv
<1>1. /\ pc'[t] = "idle" /\ out'[t] = o
      /\ \A u \in Thread \ {t} : Alike(u)
  BY <1>0 DEF Answer, Goto, LocalOK, Alike
<1>2. /\ CallOf(t)' = None /\ SeenBy(t)' = <<>>
      /\ AnswerTo(t)' = IF o = [result |-> "TAMPER_DETECTED"] THEN Refused ELSE o
  BY <1>1 DEF CallOf, SeenBy, AnswerTo
<1>3. absCall[t] # None
  BY CallIs DEF absCall, CallRight
<1>4. (pc'[t] = "reread") = FALSE
  BY <1>1
<1>. QED
  BY <1>1, <1>2, <1>3, <1>4, OneMoves

\* All errors are refusals.
LEMMA Refuses ==
    ASSUME IndInv, IndInv', Known, NEW t \in Thread, pc[t] # "idle",
           NEW code, Raise(t, code), UNCHANGED <<named_keys, named_key_versions, minted>>
    PROVE  Store!Next
<1>1. PICK o : /\ Answer(t, o)
               /\ (IF o = [result |-> "TAMPER_DETECTED"] THEN Refused ELSE o) = Refused
  BY DEF Raise
<1>2. /\ absCall[t] # None
      /\ absCall' = [absCall EXCEPT ![t] = None]
      /\ absSeen' = [absSeen EXCEPT ![t] = <<>>]
      /\ absChanged' = [absChanged EXCEPT ![t] = FALSE]
      /\ absAnswer' = [absAnswer EXCEPT ![t] = Refused]
  BY <1>1, Ends
<1>3. absKeys' = absKeys /\ absDrawn' = absDrawn
  BY KeysKept
<1>4. Store!Told(t, Refused)
  BY <1>2 DEF Store!Told, absAnswer
<1>5. Store!Refuse(t)
  BY <1>3, <1>4 DEF Store!Refuse, Store!Refused, Refused, absKeys, absDrawn
<1>6. Store!Finish(t)
  BY <1>2, <1>5 DEF Store!Finish, absCall, absSeen, absChanged
<1>. QED
  BY <1>6 DEF Store!Next

\* A step that moves a request on, or reads for it, shows nothing to KeyStore.
LEMMA Hidden ==
    ASSUME IndInv, IndInv', Known, NEW t \in Thread, \A u \in Thread \ {t} : Alike(u),
           pc[t] \notin {"idle", "reread"}, pc'[t] \notin {"idle", "reread"},
           req'[t] = req[t], row'[t] = row[t], out'[t] = out[t],
           UNCHANGED <<named_keys, named_key_versions, minted>>
    PROVE  UNCHANGED Store!vars
<1>1. CallOf(t)' = CallOf(t) /\ AnswerTo(t)' = AnswerTo(t)
  BY DEF CallOf, AnswerTo, Slot
<1>2. SeenBy(t)' = SeenBy(t)
  BY DEF SeenBy, Materials
<1>3. (pc'[t] = "reread") = (pc[t] = "reread")
  OBVIOUS
<1>4. absCall' = absCall /\ absSeen' = absSeen /\ absChanged' = absChanged
      /\ absAnswer' = absAnswer
  BY <1>1, <1>2, <1>3, OneMoves DEF absCall, absSeen, absChanged, absAnswer
<1>5. absKeys' = absKeys /\ absDrawn' = absDrawn
  BY KeysKept
<1>. QED
  BY <1>4, <1>5
     DEF Store!vars, absCall, absSeen, absChanged, absAnswer, absKeys, absDrawn

\* An answer that is right for what the request found, or for what a verify finds now.
LEMMA Returns ==
    ASSUME IndInv, IndInv', Known, NEW t \in Thread, pc[t] # "idle",
           UNCHANGED <<named_keys, named_key_versions, minted>>,
           NEW o, Answer(t, o), o # [result |-> "TAMPER_DETECTED"],
           \/ req[t].op \in {"create", "rotate"} /\ pc[t] = "reread" /\ o = Done
           \/ /\ req[t].op \in {"encrypt", "sign", "decrypt", "verify"}
              /\ o \in Store!Outcomes(CallOf(t), SeenBy(t))
           \/ req[t].op = "verify" /\ o \in Store!Outcomes(CallOf(t), KeyAt(Slot(t)))
    PROVE  Store!Next
<1>2. /\ absCall[t] # None
      /\ absCall' = [absCall EXCEPT ![t] = None]
      /\ absSeen' = [absSeen EXCEPT ![t] = <<>>]
      /\ absChanged' = [absChanged EXCEPT ![t] = FALSE]
      /\ absAnswer' = [absAnswer EXCEPT ![t] = o]
  BY Ends
<1>3. absKeys' = absKeys /\ absDrawn' = absDrawn
  BY KeysKept
<1>4. Store!Told(t, o)
  BY <1>2 DEF Store!Told, absAnswer
<1>5. CallRight(t) /\ Slot(t) \in User \X Name
  BY CallIs DEF IndInv, ThreadInv, Asks, Slots
<1>6. /\ absCall[t].op = req[t].op /\ absCall[t] = CallOf(t) /\ absSeen[t] = SeenBy(t)
      /\ absKeys[absCall[t].slot] = KeyAt(Slot(t))
      /\ absChanged[t] = (pc[t] = "reread")
  BY <1>5 DEF CallRight, absCall, absSeen, absKeys, absChanged
<1>7. \/ absCall[t].op \in Store!Changing /\ absChanged[t] /\ Store!Told(t, Store!Done)
      \/ /\ absCall[t].op \notin Store!Changing
         /\ \E a \in Store!Outcomes(absCall[t], absSeen[t]) : Store!Told(t, a)
      \/ /\ absCall[t].op = "verify"
         /\ \E a \in Store!Outcomes(absCall[t], absKeys[absCall[t].slot]) : Store!Told(t, a)
  BY <1>4, <1>6 DEF Store!Changing, Store!Done, Done
<1>8. Store!Return(t)
  BY <1>3, <1>7 DEF Store!Return, absCall, absSeen, absKeys, absChanged, absDrawn
<1>9. Store!Finish(t)
  BY <1>2, <1>8 DEF Store!Finish, absCall, absSeen, absChanged
<1>. QED
  BY <1>9 DEF Store!Next

\* A request arrives with the materials of its key.
LEMMA StartRefines ==
    ASSUME IndInv, IndInv', Known, NEW t \in Thread, NEW r \in Request, Start(t, r)
    PROVE  Store!Next
<1>0. TableInv /\ TableOK /\ LocalOK
  BY TypeParts DEF IndInv
<1>1. /\ pc[t] = "idle" /\ pc'[t] \in {"check", "deny"} /\ req'[t] = r /\ out'[t] = None
      /\ row'[t] = IF r.op = "create" THEN None ELSE named_keys[<<r.user, r.name>>]
      /\ \A u \in Thread \ {t} : Alike(u)
      /\ UNCHANGED <<named_keys, named_key_versions, minted>>
  BY <1>0 DEF Start, Goto, LocalOK, Alike, tables
<1>2. CallRight(t)' /\ Slot(t)' = <<r.user, r.name>> /\ Slot(t)' \in Slots
  BY <1>1, CallIsNext DEF Slot, IndInv, ThreadInv, Asks, Slots
<1>. PICK s, c : s = <<r.user, r.name>> /\ c = CallOf(t)'
  OBVIOUS
<1>3. c \in Store!Call /\ c.op = r.op /\ c.slot = s /\ s \in Slots
  BY <1>1, <1>2 DEF CallRight, Store!Call, Store!Changing
<1>4. SeenBy(t)' = IF r.op \in {"create", "rotate", "revoke"} THEN <<>> ELSE KeyAt(s)
  <2>1. r.op # "create" => row'[t] = named_keys[s]
    BY <1>1
  <2>2. SeenBy(t)' = IF r.op \in {"create", "rotate", "revoke"} THEN <<>>
                     ELSE Materials(minted, row'[t])
    BY <1>1 DEF SeenBy, Materials
  <2>. QED
    BY <2>1, <2>2, <1>0, <1>3, StoredAll
<1>5. CallOf(t) = None /\ AnswerTo(t)' = None
  BY <1>1, NoneAssumption DEF CallOf, AnswerTo
<1>6. /\ absCall[t] = None /\ absCall' = [absCall EXCEPT ![t] = c] /\ absCall'[t] = c
      /\ absSeen' = [absSeen EXCEPT ![t] =
                        IF c.op \in Store!Changing THEN <<>> ELSE absKeys[c.slot]]
      /\ absAnswer' = [absAnswer EXCEPT ![t] = None]
  <2>1. absKeys[s] = KeyAt(s)
    BY <1>3 DEF absKeys, Slots
  <2>. QED
    BY <2>1, <1>1, <1>3, <1>4, <1>5, OneMoves DEF absCall, Store!Changing
<1>7. absChanged' = absChanged
  BY <1>1, <1>0 DEF absChanged, Alike
<1>8. absKeys' = absKeys /\ absDrawn' = absDrawn
  BY <1>1, KeysKept
<1>9. Store!Arrive(t)
  BY <1>3, <1>6, <1>7, <1>8
     DEF Store!Arrive, absCall, absSeen, absAnswer, absChanged, absKeys, absDrawn
<1>. QED
  BY <1>9 DEF Store!Next

LEMMA PlainRefines ==
    ASSUME IndInv, IndInv', Known, NEW t \in Thread,
           Deny(t) \/ Check(t) \/ Begin(t) \/ Wrap(t) \/ SelectVersion(t) \/ DbFails(t)
    PROVE  Store!Next \/ UNCHANGED Store!vars
<1>0. LocalOK /\ pc[t] # "idle" /\ UNCHANGED <<named_keys, named_key_versions, minted>>
  BY TypeParts DEF IndInv, Deny, Check, Begin, Wrap, SelectVersion, DbFails, Database, tables
<1>1. ASSUME NEW code, Raise(t, code) PROVE Store!Next
  BY <1>0, <1>1, Refuses
<1>2. ASSUME NEW l, Goto(t, l), l \notin {"idle", "reread"}, pc[t] # "reread",
             UNCHANGED <<req, row, out>>
      PROVE  UNCHANGED Store!vars
  <2>1. pc'[t] = l /\ \A u \in Thread \ {t} : Alike(u)
    BY <1>0, <1>2 DEF Goto, LocalOK, Alike
  <2>. QED
    BY <2>1, <1>0, <1>2, Hidden
<1>3. CASE Deny(t) \/ DbFails(t)
  BY <1>1, <1>3 DEF Deny, DbFails
<1>4. CASE Check(t)
  <2>1. \/ \E code : Raise(t, code)
        \/ \E l : Goto(t, l) /\ l \in {"begin", "delete", "list", "version"}
                  /\ UNCHANGED <<locals, out>>
    BY <1>4 DEF Check
  <2>. QED
    BY <2>1, <1>1, <1>2, <1>4 DEF Check, locals
<1>5. CASE Begin(t)
  BY <1>2, <1>5 DEF Begin, locals
<1>6. CASE Wrap(t)
  <2>1. \/ \E code : Raise(t, code)
        \/ Goto(t, "commit") /\ UNCHANGED <<locals, out>>
    BY <1>6 DEF Wrap
  <2>. QED
    BY <2>1, <1>1, <1>2, <1>6 DEF Wrap, locals
<1>7. CASE SelectVersion(t)
  <2>1. \/ \E code : Raise(t, code)
        \/ Goto(t, "unwrap") /\ UNCHANGED <<req, row, out>>
    BY <1>7 DEF SelectVersion
  <2>. QED
    BY <2>1, <1>1, <1>2, <1>7 DEF SelectVersion
<1>. QED
  BY <1>3, <1>4, <1>5, <1>6, <1>7

LEMMA RereadRefines ==
    ASSUME IndInv, IndInv', Known, NEW t \in Thread, Reread(t)
    PROVE  Store!Next
<1>1. pc[t] = "reread" /\ UNCHANGED <<named_keys, named_key_versions, minted>>
  BY DEF Reread, tables
<1>2. CASE \E code : Raise(t, code)
  BY <1>1, <1>2, Refuses
<1>3. CASE Answer(t, Done)
  <2>1. req[t].op \in {"create", "rotate"}
    BY <1>1 DEF IndInv, ThreadInv, Asks
  <2>2. Done # [result |-> "TAMPER_DETECTED"]
    BY DEF Done
  <2>. QED
    BY <2>1, <2>2, <1>1, <1>3, Returns
<1>. QED
  BY <1>2, <1>3 DEF Reread

\* The materials of a key, from all rows ever made.
LEMMA KeyAtIs ==
    TableInv => \A s \in Slots : KeyAt(s) = Materials(minted, named_keys[s]) /\ Distinct(minted)
BY StoredAll

LEMMA KeyAtIsNext ==
    TableInv' => (\A s \in Slots : KeyAt(s) = Materials(minted, named_keys[s]) /\ Distinct(minted))'
BY KeyAtIs, PTL

\* The materials of a slot, and whether it has a key.
LEMMA KeyAtType ==
    ASSUME TableInv, TableOK, NEW s \in Slots
    PROVE  /\ KeyAt(s) \in Seq(Material)
           /\ named_keys[s] = None => KeyAt(s) = <<>>
           /\ named_keys[s] # None =>
                 /\ named_keys[s] \in Key
                 /\ Len(KeyAt(s)) = named_keys[s].latest_version
                 /\ named_keys[s].latest_version \in Nat \ {0}
                 /\ KeyAt(s) # <<>>
<1>. PICK k : k = named_keys[s] /\ k \in Key \cup {None}
  BY DEF TableOK
<1>1. named_key_versions \subseteq VersionRow /\ (k # None => AllOf(named_key_versions, k))
  BY StoredAll DEF TableOK
<1>2. /\ KeyAt(s) \in Seq(Material) /\ (k = None => KeyAt(s) = <<>>)
      /\ k # None => Len(KeyAt(s)) = k.latest_version /\ k.latest_version \in Nat \ {0}
  BY <1>1, MaterialsType DEF KeyAt
<1>3. k # None => KeyAt(s) # <<>>
  BY <1>2
<1>. QED
  BY <1>2, <1>3

LEMMA DeleteRefines ==
    ASSUME IndInv, IndInv', Known, NEW t \in Thread, Delete(t)
    PROVE  Store!Next
<1>0. TableInv /\ TableOK /\ LocalOK /\ Asks(t) /\ pc[t] = "delete" /\ req[t].op = "revoke"
  BY TypeParts DEF IndInv, ThreadInv, Asks, Delete
<1>. PICK s \in Slots : s = Slot(t)
  BY <1>0 DEF Asks
<1>1. /\ named_keys' = [named_keys EXCEPT ![s] = None] /\ minted' = minted
      /\ named_keys[s] = None => named_key_versions' = named_key_versions
  BY DEF Delete
<1>2. CASE named_keys[s] = None
  <2>1. UNCHANGED <<named_keys, named_key_versions, minted>>
    BY <1>0, <1>1, <1>2 DEF TableOK
  <2>2. \E code : Raise(t, code)
    BY <1>2 DEF Delete
  <2>. QED
    BY <2>1, <2>2, <1>0, Refuses
<1>3. CASE named_keys[s] # None
  <2>1. Answer(t, Done) /\ Done # [result |-> "TAMPER_DETECTED"]
    BY <1>3 DEF Delete, Done
  <2>2. /\ absCall[t] # None
        /\ absCall' = [absCall EXCEPT ![t] = None]
        /\ absSeen' = [absSeen EXCEPT ![t] = <<>>]
        /\ absChanged' = [absChanged EXCEPT ![t] = FALSE]
        /\ absAnswer' = [absAnswer EXCEPT ![t] = Done]
    BY <2>1, <1>0, <1>1, Ends
  <2>3. \A r \in Slots : KeyAt(r)' = IF r = s THEN <<>> ELSE KeyAt(r)
    <3>1. TableInv'
      BY DEF IndInv
    <3>2. \A r \in Slots : KeyAt(r)' = Materials(minted, named_keys'[r])
      BY <3>1, <1>1, KeyAtIsNext
    <3>3. \A r \in Slots : KeyAt(r) = Materials(minted, named_keys[r])
      BY <1>0, KeyAtIs
    <3>4. \A r \in Slots : named_keys'[r] = IF r = s THEN None ELSE named_keys[r]
      BY <1>0, <1>1 DEF TableOK
    <3>5. Materials(minted, None) = <<>>
      BY DEF Materials
    <3>. QED
      BY <3>2, <3>3, <3>4, <3>5
  <2>4. /\ absKeys' = [absKeys EXCEPT ![s] = <<>>] /\ absDrawn' = absDrawn
        /\ absKeys[s] # <<>>
    BY <2>3, <1>0, <1>1, <1>3, KeyAtType DEF absKeys, absDrawn, Slots
  <2>5. absCall[t].op = "revoke" /\ absCall[t].slot = s
    BY <1>0, CallIs DEF CallRight, absCall
  <2>6. Store!Told(t, Done)
    BY <2>2 DEF Store!Told, absAnswer
  <2>7. Store!Revoke(t)
    BY <2>4, <2>5, <2>6 DEF Store!Revoke, Store!Done, Done, absCall, absKeys, absDrawn
  <2>8. Store!Finish(t)
    BY <2>2, <2>7 DEF Store!Finish, absCall, absSeen, absChanged
  <2>. QED
    BY <2>8 DEF Store!Next
<1>. QED
  BY <1>2, <1>3

\* A transaction adds its material to the slot, and no other slot changes.
LEMMA StoresKeys ==
    ASSUME IndInv, IndInv',
           NEW t, NEW s \in Slots, NEW k \in Key, NEW u \in Usage, NEW n \in Version,
           NEW m \in Material, NEW v, Stores(t, s, k, u, n, m, v)
    PROVE  /\ KeyAt(s)' = Append(KeyAt(s), m)
           /\ \A r \in Slots \ {s} : KeyAt(r)' = KeyAt(r)
<1>0. TableInv /\ TableOK /\ TableInv' /\ TableOK'
  BY TypeParts, TypePartsPrime DEF IndInv
<1>1. /\ minted' = minted \cup {v} /\ k.latest_version = n
      /\ v.key_id = k.id /\ v.version = n /\ v.material = m
      /\ \A r \in Slots : named_keys'[r] = IF r = s THEN k ELSE named_keys[r]
  BY <1>0 DEF Stores, TableOK
<1>2. \A r \in Slots : KeyAt(r)' = Materials(minted', named_keys'[r]) /\ Distinct(minted')
  <2>1. (\A r \in Slots : KeyAt(r) = Materials(minted, named_keys[r]) /\ Distinct(minted))'
    BY <1>0, KeyAtIsNext
  <2>. QED
    BY <2>1 DEF Distinct
<1>3. \A r \in Slots : /\ KeyAt(r) = Materials(minted, named_keys[r]) /\ Distinct(minted)
                       /\ named_keys[r] # None => AllOf(minted, named_keys[r])
  BY <1>0, StoredAll DEF AllOf
<1>4. ASSUME NEW r \in Slots \ {s} PROVE KeyAt(r)' = KeyAt(r)
  BY <1>1, <1>2, <1>3, MaterialsKept
<1>5. KeyAt(s) \in Seq(Material) /\ Len(KeyAt(s)) = n - 1
  <2>1. CASE named_keys[s] = None
    BY <2>1, <1>0, KeyAtType DEF Stores
  <2>2. CASE named_keys[s] # None
    BY <2>2, <1>0, KeyAtType DEF Stores
  <2>. QED
    BY <2>1, <2>2
<1>6. KeyAt(s)' \in Seq(Material) /\ Len(KeyAt(s)') = n
  <2>1. k # None /\ k \in Key \cup {None}
    BY NoneAssumption
  <2>2. AllOf(minted', k)
    <3>1. ASSUME NEW i \in 1 .. k.latest_version
          PROVE  \E w \in minted' : w.key_id = k.id /\ w.version = i
      <4>1. CASE i = n
        BY <4>1, <1>1
      <4>2. CASE i # n
        <5>1. named_keys[s] # None /\ k.id = named_keys[s].id /\ n = named_keys[s].latest_version + 1
          BY <4>2, <1>1 DEF Stores
        <5>2. i \in 1 .. named_keys[s].latest_version
          BY <5>1, <4>2, <1>0, <1>1, KeyAtType
        <5>. QED
          BY <5>1, <5>2, <1>1, <1>3 DEF AllOf
      <4>. QED
        BY <4>1, <4>2
    <3>. QED
      BY <3>1 DEF AllOf
  <2>3. Materials(minted', k) \in Seq(Material) /\ Len(Materials(minted', k)) = n
    BY <2>1, <2>2, <1>0, <1>1, MaterialsType DEF TableOK
  <2>. QED
    BY <2>3, <1>1, <1>2
<1>7. KeyAt(s)' = Materials(minted', k) /\ k # None
  BY <1>1, <1>2, NoneAssumption
<1>8. Materials(minted', k)[n] = m
  <2>1. v \in minted' /\ v.version \in 1 .. k.latest_version
    BY <1>1 DEF Version
  <2>. QED
    BY <2>1, <1>1, <1>2, <1>7, MaterialOf
<1>9. ASSUME NEW i \in 1 .. (n - 1) PROVE Materials(minted', k)[i] = KeyAt(s)[i]
  <2>. PICK k0 : k0 = named_keys[s]
    OBVIOUS
  <2>1. k0 # None /\ k.id = k0.id /\ n = k0.latest_version + 1
    BY DEF Stores
  <2>2. i \in 1 .. k0.latest_version /\ i \in 1 .. k.latest_version
    BY <2>1, <1>0, <1>1, KeyAtType
  <2>3. PICK w \in minted : w.key_id = k0.id /\ w.version = i
    BY <2>1, <2>2, <1>3 DEF AllOf
  <2>4. Materials(minted, k0)[i] = w.material
    BY <2>1, <2>2, <2>3, <1>3, MaterialOf
  <2>5. Materials(minted', k)[i] = w.material
    BY <2>1, <2>2, <2>3, <1>1, <1>2, <1>7, MaterialOf
  <2>. QED
    BY <2>4, <2>5, <1>3
<1>10. KeyAt(s)' = Append(KeyAt(s), m)
  <2>. PICK a, b, c : a = KeyAt(s) /\ b = KeyAt(s)' /\ c = Append(a, m)
    OBVIOUS
  <2>1. /\ c \in Seq(Material) /\ Len(c) = Len(a) + 1
        /\ \A i \in 1 .. Len(a) : c[i] = a[i]
        /\ c[Len(a) + 1] = m
    BY <1>5, AppendProperties
  <2>2. Len(c) = n /\ Len(b) = n /\ b \in Seq(Material) /\ n \in Nat
    BY <2>1, <1>5, <1>6 DEF Version
  <2>3. \A i \in 1 .. n : b[i] = c[i]
    <3>1. \A i \in 1 .. n : i = n \/ i \in 1 .. (n - 1)
      BY <2>2
    <3>2. c[n] = m /\ \A i \in 1 .. (n - 1) : c[i] = a[i]
      BY <2>1, <2>2, <1>5
    <3>. QED
      BY <3>1, <3>2, <1>7, <1>8, <1>9
  <2>4. b = c
    BY <2>1, <2>2, <2>3, SeqEqual
  <2>. QED
    BY <2>4
<1>. QED
  BY <1>4, <1>10

LEMMA CommitRefines ==
    ASSUME IndInv, IndInv', Known, NEW t \in Thread, Commit(t)
    PROVE  Store!Next
<1>0. TableInv /\ TableOK /\ LocalOK /\ ThreadInv(t) /\ Asks(t) /\ pc[t] = "commit"
  BY TypeParts DEF IndInv, ThreadInv, Commit
<1>0a. PICK v :
        \E s \in Slots, k \in Key, u \in Usage, n \in Version, m \in Material :
            Stores(t, s, k, u, n, m, v)
  BY CommitStores
<1>. PICK s \in Slots, k \in Key, u \in Usage, n \in Version, m \in Material :
        Stores(t, s, k, u, n, m, v)
  BY <1>0a
<1>1. /\ s = Slot(t) /\ minted' = minted \cup {v} /\ v.material = m
      /\ \A w \in minted : w.material # m
      /\ UNCHANGED <<req, row, out>>
  BY DEF Stores, locals
<1>2. /\ req[t].op \in {"create", "rotate"}
      /\ (req[t].op = "create") = (named_keys[s] = None)
  BY <1>0, <1>1 DEF ThreadInv, Asks
<1>3. pc'[t] = "reread" /\ \A x \in Thread \ {t} : Alike(x)
  BY <1>0, <1>1 DEF Commit, Goto, LocalOK, Alike
<1>4. CallOf(t)' = CallOf(t) /\ SeenBy(t)' = SeenBy(t) /\ AnswerTo(t)' = AnswerTo(t)
  BY <1>0, <1>1, <1>2, <1>3 DEF CallOf, SeenBy, AnswerTo, Slot
<1>5. /\ absCall' = absCall /\ absSeen' = absSeen /\ absAnswer' = absAnswer
      /\ absChanged' = [absChanged EXCEPT ![t] = TRUE]
  <2>1. /\ absCall' = [absCall EXCEPT ![t] = CallOf(t)']
        /\ absSeen' = [absSeen EXCEPT ![t] = SeenBy(t)']
        /\ absChanged' = [absChanged EXCEPT ![t] = (pc'[t] = "reread")]
        /\ absAnswer' = [absAnswer EXCEPT ![t] = AnswerTo(t)']
    BY <1>1, <1>3, OneMoves
  <2>2. (pc'[t] = "reread") = TRUE
    BY <1>3
  <2>. QED
    BY <2>1, <2>2, <1>4 DEF absCall, absSeen, absAnswer
<1>6. absKeys' = [absKeys EXCEPT ![s] = Append(absKeys[s], m)]
  <2>1. /\ KeyAt(s)' = Append(KeyAt(s), m)
        /\ \A r \in Slots \ {s} : KeyAt(r)' = KeyAt(r)
    BY StoresKeys
  <2>. QED
    BY <2>1 DEF absKeys, Slots
<1>7. m \in Material \ absDrawn /\ absDrawn' = absDrawn \cup {m}
  BY <1>1 DEF absDrawn
<1>8. /\ absCall[t] # None /\ absCall[t].op = req[t].op /\ absCall[t].slot = s
      /\ ~absChanged[t]
  BY <1>0, <1>1, CallIs DEF CallRight, absCall, absChanged
<1>9. \/ absCall[t].op = "create" /\ absKeys[s] = <<>>
      \/ absCall[t].op = "rotate" /\ absKeys[s] # <<>>
  <2>1. absKeys[s] = KeyAt(s)
    BY DEF absKeys, Slots
  <2>. QED
    BY <2>1, <1>0, <1>2, <1>8, KeyAtType
<1>10. Store!Extend(t)
  BY <1>5, <1>6, <1>7, <1>8, <1>9
     DEF Store!Extend, absKeys, absDrawn, absCall, absSeen, absChanged, absAnswer
<1>. QED
  BY <1>10 DEF Store!Next

\* What a request has seen: the materials of the key it holds.
LEMMA SeenAt ==
    ASSUME IndInv, Known, NEW t \in Thread, pc[t] \notin {"idle", "deny"},
           req[t].op \in {"encrypt", "sign", "decrypt", "verify"}
    PROVE  /\ row[t] \in Key /\ row[t] # None /\ row[t].latest_version \in Nat \ {0}
           /\ Len(SeenBy(t)) = row[t].latest_version
           /\ DOMAIN SeenBy(t) = 1 .. row[t].latest_version
           /\ \A v \in minted : v.key_id = row[t].id /\ v.version \in 1 .. row[t].latest_version
                 => SeenBy(t)[v.version] = v.material
           /\ \A n \in 1 .. row[t].latest_version :
                 \E v \in minted : /\ v.key_id = row[t].id /\ v.version = n
                                   /\ SeenBy(t)[n] = v.material
<1>. PICK k : k = row[t]
  OBVIOUS
<1>1. k \in Key /\ k # None /\ minted \subseteq VersionRow /\ Distinct(minted)
  BY TypeParts DEF IndInv, LocalOK, TableOK, ThreadInv, Holds, TableInv, MintedInv, Distinct
<1>2. SeenBy(t) = Materials(minted, k) /\ AllOf(minted, k)
  BY <1>1 DEF SeenBy, Known, Arrived, AllOf
<1>3. /\ Len(SeenBy(t)) = k.latest_version /\ DOMAIN SeenBy(t) = 1 .. k.latest_version
      /\ k.latest_version \in Nat \ {0}
  BY <1>1, <1>2, MaterialsType
<1>4. \A v \in minted : v.key_id = k.id /\ v.version \in 1 .. k.latest_version
         => SeenBy(t)[v.version] = v.material
  BY <1>1, <1>2, MaterialOf
<1>5. \A n \in 1 .. k.latest_version :
         \E v \in minted : v.key_id = k.id /\ v.version = n /\ SeenBy(t)[n] = v.material
  BY <1>2, <1>4 DEF AllOf
<1>. QED
  BY <1>1, <1>3, <1>4, <1>5

\* The row of the material that made a ciphertext or signature is that of its version.
LEMMA TokenRow ==
    ASSUME TableInv, NEW c \in issued, NEW v \in minted, v.material = c.material
    PROVE  v.key_id = c.key_id /\ v.version = c.version
<1>1. PICK w \in minted : w.key_id = c.key_id /\ w.version = c.version /\ w.material = c.material
  BY DEF TableInv, IssuedInv
<1>. QED
  BY <1>1 DEF TableInv, MintedInv

LEMMA UnwrapRefines ==
    ASSUME IndInv, IndInv', Known, NEW t \in Thread, Unwrap(t)
    PROVE  Store!Next
<1>0. /\ TableInv /\ Asks(t) /\ pc[t] = "unwrap" /\ req[t].op \in {"encrypt", "decrypt", "sign"}
      /\ UNCHANGED <<named_keys, named_key_versions, minted>>
  BY DEF IndInv, ThreadInv, Asks, Unwrap, tables
<1>. PICK v : v = CHOOSE w \in rows[t] : TRUE
  OBVIOUS
<1>1. /\ v \in rows[t] /\ v \in minted /\ v.key_id = row[t].id
      /\ v.version = version_wanted(t)
  BY <1>0, UnwrapRow
<1>2. /\ row[t].latest_version \in Nat \ {0}
      /\ Len(SeenBy(t)) = row[t].latest_version
      /\ DOMAIN SeenBy(t) = 1 .. row[t].latest_version
      /\ v.version \in 1 .. row[t].latest_version => SeenBy(t)[v.version] = v.material
  BY <1>0, <1>1, SeenAt
<1>3. CallRight(t)
  BY <1>0, CallIs
<1>. PICK h, L : h = SeenBy(t) /\ L = row[t].latest_version
  OBVIOUS
<1>4. CASE \E code : Raise(t, code)
  BY <1>0, <1>4, Refuses
<1>5. ASSUME Answer(t, [result |-> "plaintext", material |-> v.material]),
             req[t].op = "decrypt", decrypts(t, v)
      PROVE  Store!Next
  <2>. PICK c \in issued : c = req[t].token
    BY <1>0, <1>5 DEF Asks
  <2>1. v.material = c.material
    BY <1>5 DEF decrypts
  <2>2. c.key_id = row[t].id /\ v.version = c.version
    BY <2>1, <1>0, <1>1, TokenRow
  <2>3. v.version \in 1 .. L
    BY <2>2, <1>0, <1>2, <1>5, SeenAt DEF Known, Arrived
  <2>4. v.material \in {h[i] : i \in DOMAIN h} \cap {CallOf(t).made}
    BY <2>1, <2>3, <1>2, <1>3, <1>5 DEF CallRight
  <2>5. [result |-> "plaintext", material |-> v.material] \in Store!Outcomes(CallOf(t), h)
    <3>. PICK q : q = CallOf(t)
      OBVIOUS
    <3>1. q.op = "decrypt"
      BY <1>3, <1>5 DEF CallRight
    <3>2. Store!Outcomes(q, h) =
            {[result |-> "plaintext", material |-> m] : m \in {h[i] : i \in DOMAIN h} \cap {q.made}}
      BY <3>1 DEF Store!Outcomes
    <3>. QED
      BY <2>4, <3>2
  <2>6. [result |-> "plaintext", material |-> v.material] # [result |-> "TAMPER_DETECTED"]
    OBVIOUS
  <2>. QED
    BY <2>5, <2>6, <1>0, <1>5, Returns
<1>6. ASSUME Answer(t, [result |-> "issued", material |-> v.material]),
             req[t].op \in {"encrypt", "sign"}
      PROVE  Store!Next
  <2>1. v.version = L /\ L \in 1 .. L
    BY <1>1, <1>2, <1>6 DEF version_wanted
  <2>2. h[L] = v.material /\ L \in DOMAIN h \cap {Len(h)}
    BY <2>1, <1>2
  <2>3. [result |-> "issued", material |-> v.material] \in Store!Outcomes(CallOf(t), h)
    <3>. PICK q : q = CallOf(t)
      OBVIOUS
    <3>1. q.op \in {"encrypt", "sign"}
      BY <1>3, <1>6 DEF CallRight
    <3>2. Store!Outcomes(q, h) =
            {[result |-> "issued", material |-> h[i]] : i \in DOMAIN h \cap {Len(h)}}
      BY <3>1 DEF Store!Outcomes
    <3>. QED
      BY <2>2, <3>2
  <2>4. [result |-> "issued", material |-> v.material] # [result |-> "TAMPER_DETECTED"]
    OBVIOUS
  <2>. QED
    BY <2>3, <2>4, <1>0, <1>6, Returns
<1>. QED
  BY <1>4, <1>5, <1>6 DEF Unwrap

\* What verify answers, by the materials h.
LEMMA VerifyOutcomes ==
    ASSUME NEW q, NEW h, q.op = "verify"
    PROVE  /\ (\E i \in DOMAIN h : h[i] = q.made /\ q.pinned \in {0, i})
                 => [result |-> "valid", material |-> q.made] \in Store!Outcomes(q, h)
           /\ ~(\E i \in DOMAIN h : h[i] = q.made /\ q.pinned \in {0, i})
                 => [result |-> "invalid"] \in Store!Outcomes(q, h)
BY DEF Store!Outcomes

\* A signature that verify rejects was not made by the key the request found, or not
\* with the pinned version, or not by the key that is there now.
LEMMA RejectRefines ==
    ASSUME IndInv, IndInv', Known, [Next]_vars, NEW t \in Thread,
           pc[t] \in {"list", "candidates"}, Answer(t, [result |-> "invalid"]),
           UNCHANGED <<named_keys, named_key_versions, minted>>
    PROVE  Store!Next
<1>0. TableInv /\ TableOK /\ LocalOK /\ Asks(t) /\ req[t].op = "verify" /\ out[t] = None
  BY TypeParts DEF IndInv, ThreadInv, Asks
<1>. PICK q, c : q = CallOf(t) /\ c = req[t].token /\ c \in issued
  BY <1>0 DEF Asks
<1>1. q.op = "verify" /\ q.made = c.material /\ q.pinned = req[t].pinned
  BY <1>0, CallIs DEF CallRight
<1>2. [result |-> "invalid"] # [result |-> "TAMPER_DETECTED"] /\ [result |-> "invalid"] # None
  BY NoneAssumption
<1>3. CASE [result |-> "invalid"] \in Store!Outcomes(q, SeenBy(t))
  BY <1>0, <1>2, <1>3, Returns
<1>4. CASE [result |-> "invalid"] \notin Store!Outcomes(q, SeenBy(t))
  <2>1. PICK i \in DOMAIN SeenBy(t) : SeenBy(t)[i] = c.material /\ req[t].pinned \in {0, i}
    BY <1>1, <1>4, VerifyOutcomes
  <2>2. PICK v \in minted : v.key_id = row[t].id /\ v.version = i /\ v.material = c.material
    BY <2>1, <1>0, SeenAt
  <2>3. c.key_id = row[t].id /\ i = c.version
    BY <2>2, <1>0, TokenRow
  <2>4. named_keys[Slot(t)] = None \/ named_keys[Slot(t)].id # row[t].id
    <3>1. out'[t] = [result |-> "invalid"]
      BY <1>0 DEF Answer, LocalOK
    <3>. QED
      BY <3>1, <2>1, <2>3, <1>0, <1>2, RejectsForeign
  <2>. PICK s, k : s = Slot(t) /\ k = named_keys[s]
    OBVIOUS
  <2>5. \A j \in DOMAIN KeyAt(s) : KeyAt(s)[j] # c.material
    <3>. SUFFICES ASSUME NEW j \in DOMAIN KeyAt(s), KeyAt(s)[j] = c.material PROVE FALSE
      OBVIOUS
    <3>1. s \in Slots
      BY <1>0 DEF Asks
    <3>2. k # None /\ k \in Key /\ j \in 1 .. k.latest_version
      <4>1. k # None => DOMAIN KeyAt(s) = 1 .. k.latest_version
        BY DEF KeyAt, Materials
      <4>2. k = None => KeyAt(s) = <<>>
        BY DEF KeyAt, Materials
      <4>3. DOMAIN <<>> = {}
        OBVIOUS
      <4>. QED
        BY <4>1, <4>2, <4>3, <3>1, <1>0 DEF TableOK
    <3>3. /\ AllOf(named_key_versions, k) /\ named_key_versions \subseteq minted
          /\ Distinct(named_key_versions)
      BY <3>1, <3>2, <1>0, StoredAll
    <3>4. PICK w \in named_key_versions : w.key_id = k.id /\ w.version = j
      BY <3>2, <3>3 DEF AllOf
    <3>5. w.material = c.material /\ w \in minted
      BY <3>2, <3>3, <3>4, MaterialOf DEF KeyAt
    <3>6. w.key_id = c.key_id
      BY <3>5, <1>0, TokenRow
    <3>. QED
      BY <3>2, <3>4, <3>6, <2>3, <2>4
  <2>6. [result |-> "invalid"] \in Store!Outcomes(q, KeyAt(s))
    BY <2>5, <1>1, VerifyOutcomes
  <2>. QED
    BY <2>6, <1>0, <1>2, Returns
<1>. QED
  BY <1>3, <1>4

LEMMA VerifyRefines ==
    ASSUME IndInv, IndInv', Known, [Next]_vars, NEW t \in Thread, List(t) \/ Candidate(t)
    PROVE  Store!Next \/ UNCHANGED Store!vars
<1>0. /\ TableInv /\ LocalOK /\ Asks(t) /\ req[t].op = "verify"
      /\ pc[t] \in {"list", "candidates"}
      /\ UNCHANGED <<named_keys, named_key_versions, minted>>
  BY TypeParts DEF IndInv, ThreadInv, Asks, List, Candidate, tables
<1>. PICK c \in issued : c = req[t].token
  BY <1>0 DEF Asks
<1>1. CASE \E code : Raise(t, code)
  BY <1>0, <1>1, Refuses
<1>2. ASSUME Answer(t, [result |-> "invalid"]) PROVE Store!Next
  BY <1>0, <1>2, RejectRefines
<1>3. ASSUME pc'[t] = "candidates", UNCHANGED <<req, row, out>>,
             \A u \in Thread \ {t} : pc'[u] = pc[u]
      PROVE  UNCHANGED Store!vars
  BY <1>0, <1>3, Hidden DEF Alike
<1>4. CASE List(t)
  <2>1. \/ Answer(t, verdict({}, c))
        \/ Goto(t, "candidates") /\ UNCHANGED <<req, row, out>>
    BY <1>4 DEF List
  <2>2. verdict({}, c) = [result |-> "invalid"]
    BY DEF verdict
  <2>. QED
    BY <2>1, <2>2, <1>0, <1>2, <1>3 DEF Goto, LocalOK
<1>5. CASE Candidate(t)
  <2>. PICK newest, found : newest = Max(todo[t]) /\ found = get_version(row[t].id, newest)
    OBVIOUS
  <2>1. pc[t] = "candidates" /\ ThreadInv(t) /\ Reads(t) /\ Pins(t)
    BY <1>5 DEF Candidate, IndInv, ThreadInv, Known
  <2>2. CASE UNCHANGED <<pc, req, row, out>>
    BY <2>1, <2>2, <1>3
  <2>3. ASSUME Answer(t, verdict(rows[t] \cup found, c)), todo[t] = {newest} PROVE Store!Next
    <3>. PICK F : F = rows[t] \cup found
      OBVIOUS
    <3>1. CASE \A v \in F : v.public # c.material
      <4>1. verdict(F, c) = [result |-> "invalid"]
        BY <3>1 DEF verdict
      <4>. QED
        BY <4>1, <2>3, <1>2
    <3>2. ASSUME NEW v \in F, v.public = c.material PROVE Store!Next
      <4>1. v \in minted /\ v.key_id = row[t].id
        <5>1. \A w \in found : w \in minted /\ w.key_id = row[t].id
          BY <1>0, FoundRow, TypeParts DEF IndInv
        <5>. QED
          BY <5>1, <2>1 DEF Reads
      <4>2. v.material = c.material
        <5>1. v.public \in {v.material, None}
          BY <4>1, <1>0 DEF TableInv, MintedInv, RowInv
        <5>2. c.material \in Material
          BY DEF IndInv, TypeOK, Token
        <5>. QED
          BY <5>1, <5>2, <3>2, TransitAssumption
      <4>3. v.key_id = c.key_id /\ v.version = c.version
        BY <4>1, <4>2, <1>0, TokenRow
      <4>4. /\ v.version \in 1 .. row[t].latest_version /\ v.version \in DOMAIN SeenBy(t)
            /\ SeenBy(t)[v.version] = c.material
        <5>1. v.version \in 1 .. row[t].latest_version
          BY <4>1, <4>3, <1>0, <2>1, SeenAt DEF Known, Arrived
        <5>. QED
          BY <5>1, <4>1, <4>2, <1>0, <2>1, SeenAt
      <4>5. req[t].pinned \in {0, v.version}
        <5>1. ASSUME req[t].pinned # 0 PROVE v.version = req[t].pinned
          <6>1. rows[t] = {} /\ newest = req[t].pinned
            BY <5>1, <2>1, <2>3 DEF Pins
          <6>2. \A w \in found : w.version = newest
            BY DEF get_version
          <6>. QED
            BY <6>1, <6>2
        <5>. QED
          BY <5>1
      <4>. PICK q, o : q = CallOf(t) /\ o = [result |-> "valid", material |-> c.material]
        OBVIOUS
      <4>6. q.op = "verify" /\ q.made = c.material /\ q.pinned = req[t].pinned
        BY <1>0, CallIs DEF CallRight
      <4>7. o \in Store!Outcomes(q, SeenBy(t))
        BY <4>4, <4>5, <4>6, VerifyOutcomes
      <4>8. verdict(F, c) = o
        BY <3>2 DEF verdict
      <4>9. o # [result |-> "TAMPER_DETECTED"]
        OBVIOUS
      <4>. QED
        BY <4>7, <4>8, <4>9, <2>3, <1>0, Returns
    <3>. QED
      BY <3>1, <3>2
  <2>. QED
    BY <2>2, <2>3, <1>1, <1>5 DEF Candidate
<1>. QED
  BY <1>4, <1>5

\* Locking and unlocking show nothing to KeyStore; a crash is one of KeyStore.
LEMMA EnvironmentRefines ==
    ASSUME Unlock \/ Lock \/ Crash \/ UNCHANGED vars
    PROVE  Store!Next \/ UNCHANGED Store!vars
<1>1. absKeys' = absKeys /\ absDrawn' = absDrawn
  BY KeysKept DEF Unlock, Lock, Crash, vars, tables
<1>2. CASE Crash
  <2>1. \A t \in Thread : /\ CallOf(t)' = None /\ SeenBy(t)' = <<>>
                          /\ (pc'[t] = "reread") = FALSE
    BY <1>2 DEF Crash, CallOf, SeenBy
  <2>2. \A t \in Thread : AnswerTo(t)' = None
    BY <1>2, NoneAssumption DEF Crash, AnswerTo
  <2>3. /\ absCall' = [t \in Thread |-> None] /\ absSeen' = [t \in Thread |-> <<>>]
        /\ absChanged' = [t \in Thread |-> FALSE] /\ absAnswer' = [t \in Thread |-> None]
    BY <2>1, <2>2 DEF absCall, absSeen, absChanged, absAnswer
  <2>4. Store!Crash
    BY <2>3, <1>1 DEF Store!Crash, absCall, absSeen, absChanged, absAnswer, absKeys, absDrawn
  <2>. QED
    BY <2>4 DEF Store!Next
<1>3. CASE Unlock \/ Lock \/ UNCHANGED vars
  <2>1. UNCHANGED <<pc, req, row, out, minted>>
    BY <1>3 DEF Unlock, Lock, vars, locals, tables
  <2>2. \A t \in Thread : CallOf(t)' = CallOf(t) /\ SeenBy(t)' = SeenBy(t)
                          /\ AnswerTo(t)' = AnswerTo(t)
    BY <2>1 DEF CallOf, SeenBy, AnswerTo, Slot, Materials
  <2>3. /\ absCall' = absCall /\ absSeen' = absSeen /\ absChanged' = absChanged
        /\ absAnswer' = absAnswer
    BY <2>1, <2>2 DEF absCall, absSeen, absChanged, absAnswer
  <2>. QED
    BY <2>3, <1>1 DEF Store!vars, absCall, absSeen, absChanged, absAnswer, absKeys, absDrawn
<1>. QED
  BY <1>2, <1>3

LEMMA InitRefines == Init => Store!Init
<1>. SUFFICES ASSUME Init PROVE Store!Init
  OBVIOUS
<1>1. \A s \in User \X Name : KeyAt(s) = <<>>
  BY DEF Init, KeyAt, Materials
<1>2. \A t \in Thread : CallOf(t) = None /\ SeenBy(t) = <<>> /\ (pc[t] = "reread") = FALSE
  BY DEF Init, CallOf, SeenBy
<1>3. \A t \in Thread : AnswerTo(t) = None
  BY NoneAssumption DEF Init, AnswerTo
<1>. QED
  BY <1>1, <1>2, <1>3 DEF Init, Store!Init

LEMMA NextRefines ==
    IndInv /\ Known /\ IndInv' /\ [Next]_vars => [Store!Next]_(Store!vars)
<1>. SUFFICES ASSUME IndInv, Known, IndInv', [Next]_vars
              PROVE  Store!Next \/ UNCHANGED Store!vars
  OBVIOUS
<1>1. CASE Unlock \/ Lock \/ Crash \/ UNCHANGED vars
  BY <1>1, EnvironmentRefines
<1>2. ASSUME NEW t \in Thread, NEW r \in Request, Start(t, r) PROVE Store!Next
  BY <1>2, StartRefines
<1>3. ASSUME NEW t \in Thread, Step(t) PROVE Store!Next \/ UNCHANGED Store!vars
  BY <1>3, PlainRefines, CommitRefines, RereadRefines, DeleteRefines, UnwrapRefines,
     VerifyRefines DEF Step
<1>. QED
  BY <1>1, <1>2, <1>3 DEF Next

\* The engine implements KeyStore: every answer is right for the key as the request
\* found it, or for a verify as it is when it answers; creates, rotations and
\* revocations are atomic, and no material serves two versions.
THEOREM TransitImplementsKeyStore == Spec => ImplementsKeyStore
<1>. QED
  BY KnownAlways, InitRefines, NextRefines, PTL DEF Spec, ImplementsKeyStore, Store!Spec
=============================================================================
