SPECIFICATION Spec
CONSTANTS
    Handlers = {h1, h2}
    Secrets = {s1, s2, s3}
    Horizon = 3
    NoCode = NoCode
    Modes <- OneOrTheOther
SYMMETRY Sym
INVARIANTS TypeOK NotLockedOut
PROPERTIES CodeOnce StepForward
