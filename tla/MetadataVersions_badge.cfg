SPECIFICATION Spec
CONSTANTS
    Settings = {c1, c2}
    Uploads = {u1}
    None = None
    Handlers = {h1}
    Scenarios <- BadgeScenarios
    MaxRows = 4
    MaxCrowded = 2
SYMMETRY Sym
INVARIANT BadgeNeverLies
CHECK_DEADLOCK FALSE
