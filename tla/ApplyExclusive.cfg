\* Two requests of one host.
SPECIFICATION FairSpec
CONSTANTS
    None = None
    Requests = {r1, r2}
    MaxHosts = 2
    MaxCrashes = 1
INVARIANTS ApplyIsExclusive
PROPERTIES HostMayStart
CHECK_DEADLOCK FALSE
