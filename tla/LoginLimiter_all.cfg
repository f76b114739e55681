SPECIFICATION FairSpec
CONSTANTS
    Handlers = {h1, h2}
    Ids = {i1, i2, i3, i4}
    Max = 2
    Window = 2
    Ban = 3
    Keep = 3
INVARIANTS TypeOK FailuresBounded
PROPERTY BanEnds
