SPECIFICATION FairSpec
CONSTANTS
    None = None
    t1 = t1  t2 = t2
    alice = alice  bob = bob
    pa = pa  pb = pb
    x = x  y = y
    Dek = dek
    Thread = {t1, t2}
    User = {alice}
    Path = {pa}
    PathOwner <- Owned
    Data = {x, y}
    MaxVersion = 2
    MaxId = 2
PROPERTIES Linearizable RequestsReturn WriteLockReleased
