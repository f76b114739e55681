SPECIFICATION Spec
CONSTANTS
    Tabs = {t1, t2}
    Logins = {l1, l2}
    Legal = {l2}
    Ids = {i1, i2}
    None = None
SYMMETRY Sym
INVARIANTS TypeOK CodeOnce LegalServed
PROPERTY NewestOnly
