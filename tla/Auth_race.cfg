SPECIFICATION Spec
CONSTANTS
    None = None
    t1 = t1  t2 = t2
    alice = alice  bob = bob
    Thread = {t1, t2}
    User = {alice}
    LoginAs <- Together
    MaxFailed = 2
    Lockout = 1
    Ttl = 1
    MaxTime = 2
    MaxToken = 1
INVARIANTS LockoutEnforced
