SPECIFICATION Spec
CONSTANTS
    Settings = {c1, c2}
    Uploads = {u1}
    None = None
    Handlers = {h1, h2}
    Scenarios <- MCScenarios
    MaxRows = 3
    MaxCrowded = 2
SYMMETRY Sym
INVARIANTS TypeOK BadgeHonest
PROPERTIES ExposedNotDeleted BadgeKept TogglesHonest
CHECK_DEADLOCK FALSE
