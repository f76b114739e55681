SPECIFICATION Spec
CONSTANTS
    Settings = {s1}
    Idps = {i1}
    Uncached = {i1}
    Cies = {k1}
    Clients = {c1}
    None = None
    Handlers = {h1}
    Faults = FALSE
PROPERTY StaysUp
