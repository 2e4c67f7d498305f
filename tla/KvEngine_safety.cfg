SPECIFICATION Spec
CONSTANTS
    None = None
    t1 = t1  t2 = t2
    alice = alice  bob = bob
    pa = pa  pb = pb
    x = x  y = y
    Dek = dek
    Thread = {t1, t2}
    User = {alice, bob}
    Path = {pa, pb}
    PathOwner <- Owned
    Data = {x}
    MaxVersion = 2
    MaxId = 3
SYMMETRY Interchangeable
INVARIANTS TablesAgree NoSpuriousTamper
PROPERTIES DenialsAudited
