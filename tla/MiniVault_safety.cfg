SPECIFICATION Spec
CONSTANTS
    None = None
    t1 = t1  t2 = t2
    alice = alice  bob = bob
    ka = ka  kb = kb
    pa = pa  na = na
    Thread = {t1, t2}
    User = {alice, bob}
    Token = {ka, kb}
    Holder <- Issued
    Path = {pa}
    PathOwner <- Owned
    Name = {na}
SYMMETRY Interchangeable
INVARIANTS NoOracle DenialsLogged RefusedMeansUndone NoNestedTransaction
    OnlyAdmittedFinish
PROPERTIES OnlyOwnerChanges
