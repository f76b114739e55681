SPECIFICATION Spec
CONSTANTS
    Settings = {s1}
    Idps = {i1, i2}
    Uncached = {i2}
    Cies = {k1}
    Clients = {c1}
    None = None
    Handlers = {h1}
    Faults = TRUE
INVARIANTS TypeOK Settles UpWhenQuiet
