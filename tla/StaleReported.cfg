\* Two mirrors; the directory may be set to name one of them only.
SPECIFICATION CheckSpec
CONSTANTS
    None = None
    Backends = {a, b}
    ServiceLists = {{a, b}, {b}}
    MaxJobs = 3
INVARIANTS
    StaleIsNoError
CHECK_DEADLOCK FALSE
