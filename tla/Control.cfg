SPECIFICATION Spec
CONSTANTS
    c1 = c1
    c2 = c2
    p1 = p1
    Client = {c1, c2}
    Poster = {p1}
CHECK_DEADLOCK FALSE
INVARIANTS
    CodesAreHonest
    MissesAtMostOne
PROPERTIES
    ShutdownEnds
