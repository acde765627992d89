SPECIFICATION Spec
CONSTANTS
    None = None
    p = p
    q = q
    s1 = s1
    s2 = s2
    a = a
    b = b
    u1 = u1
    u2 = u2
    u3 = u3
    Products = {p, q}
    Sinks = {s1, s2}
    Shelf = {p}
    MaxDocs = 1
    Backends = {a, b}
    ServiceLists <- MCServiceLists
    MaxJobs = 3
    Codes = {0, 1, 2, 3, 4}
    MaxVersions = 3
    Mirrors = {u1, u2, u3}
    Honest = {u1}
    Ranged = {u1, u2}
    Size = 3
    Retries = 3
    Workers = 2
    MaxErrors = 2
    MaxCrashes = 2
    MaxDefects = 2
    MaxChanges = 2
    Names = {p, q}
    Pages = {a, b}
    MaxBearers = 2
    MaxPanelFaults = 1
SYMMETRY Symmetry
INVARIANTS
    CheckAnswers
    VerdictIsExact
    EndsWithArtifact
    VerdictHolds
    ActsAsShown
PROPERTIES
    ShelfKeeps
CHECK_DEADLOCK FALSE
