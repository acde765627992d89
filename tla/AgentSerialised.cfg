SPECIFICATION FairSpec
CONSTANTS
    Requests = {r1, r2, r3}
    Trees <- TwoTrees
    Versions <- TwoVersions
    Version <- TreeVersion
    Code <- TreeCode
    Workers = {w1, w2}
    MaxPanics = 1
    MaxCrashes = 1
    None = None
INVARIANTS
    TypeOK
    ToldIsListed
    SiteShowsAnswered
PROPERTIES
    TriggerIsServed
CHECK_DEADLOCK FALSE
