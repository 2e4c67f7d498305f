SPECIFICATION Spec
CONSTANTS
    None = None
    t1 = t1  t2 = t2
    alice = alice
    m1 = m1  m2 = m2  m3 = m3
    Dek = dek
    KeyWord <- KeyWords
    Word <- Words
    Numeral <- Numerals
    MaxNumeral = 2
    Byte = {0, 1}
    GCM_NONCE_LENGTH = 1
    GCM_TAG_LENGTH = 2
    MaxPayload = 4
    Malformed = Malformed
    Thread = {t1, t2}
    User = {alice}
    Name = {"v2"}
    Creatable <- AnyUsage
    Material = {m1, m2, m3}
    MaxVersion = 2
    MaxId = 2
SYMMETRY Interchangeable
INVARIANTS KeysAgree IssuedUsable FramingExact
PROPERTIES TamperExplained RevokedIsGone VerifyHonest ImplementsKeyStore
