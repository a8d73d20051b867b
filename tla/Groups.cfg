SPECIFICATION Spec
CONSTANTS
    g1 = g1
    g2 = g2
    whole = whole
    prefix = prefix
    unset = unset
    None = None
    Group = {g1, g2}
    Setting = {whole, prefix, unset}
    Matches <- Begins
    Whole = {whole}
    OptIns = {TRUE, FALSE}
    Retention = 2
    MaxFaults = 1
    MaxCrashes = 2
INVARIANTS
    NothingLeftWaiting
    JoinsOnlyWanted
    CompletedIsHeld
PROPERTIES
    ForgetsOnlyStale
    AnsweredUnlessFailed
