SPECIFICATION FairSpec
CONSTANTS
    None = None
    t1 = t1  t2 = t2  t3 = t3
    s1 = s1  s2 = s2  w1 = w1
    d1 = d1  d2 = d2  d3 = d3
    i1 = i1  i2 = i2
    Thread = {t1, t2}
    Initializer = {t1, t2}
    Strong = {s1}
    Weak = {}
    Dek = {d1, d2}
    Inode = {i1, i2}
PROPERTIES RequestsReturn
