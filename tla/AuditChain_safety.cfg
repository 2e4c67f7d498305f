SPECIFICATION Spec
CONSTANTS
    None = None
    t1 = t1  t2 = t2
    e1 = e1  e2 = e2
    Thread = {t1, t2}
    Entry = {e1, e2}
    MaxLog = 3
    MaxEdit = 2
SYMMETRY Interchangeable
INVARIANTS ChainLinear EditsDetected
PROPERTIES AlarmOnlyWhenRaced
