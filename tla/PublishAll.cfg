SPECIFICATION Spec
CONSTANTS
    b1 = b1
    b2 = b2
    None = None
    Backends = {b1, b2}
    Builds <- LineBuilds
    Versions <- LineVersions
    Channels <- OneChannel
    Blobs <- LineBlobs
    Version <- LineVersion
    Code <- LineCode
    MaxCode = 3
    MinFrom <- LineMinFrom
    Channel <- LineChannel
    Blob <- SameBlob
    Bundled = {"x1", "x2", "x3"}
    TargetSets <- AllTargets
    DefaultChannel = "stable"
    RetainVersions = 2
    AllowBackfill = FALSE
    GCBackends = {}
    OtherProducts = FALSE
    ReadsMayFail = TRUE
    MaxJobs = 3
INVARIANTS
    EveryMirrorServes
    WebNeverAhead
    SequenceNamesOneIndex
    AnswerIsTrue
PROPERTIES
    ReleaseLeavesOnPurpose
CHECK_DEADLOCK FALSE
SYMMETRY BackendSymmetry
