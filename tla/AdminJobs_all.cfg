SPECIFICATION Spec
CONSTANTS
    EidasRequests = {e1, e2}
    Idps = {i1}
    IdpRequests = {r1, r2}
    AggRequests = {q1}
    Editions = 2
    Mishaps = 2
    Groups = {g1, g2}
    NullGroups = {g2}
    Retained = 1
    PerHalf = 1
    LastHalf = 5
INVARIANTS JobsTypeOK EidasAgree OneTestProvider HashHonest AggregateLoaded StatsAddUp
PROPERTIES AdminDecides RotationReachesSatosa
CHECK_DEADLOCK FALSE
