SPECIFICATION Spec
CONSTANTS
    Certs = {c1, c2, c3}
    None = None
    Handlers = {h1, h2}
SYMMETRY Sym
INVARIANTS TypeOK OneActive FilesFollow RegenerateSigns
PROPERTIES ActiveKept Mends
