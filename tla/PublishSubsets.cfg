SPECIFICATION Spec
CONSTANTS
    b1 = b1
    b2 = b2
    None = None
    Backends = {b1, b2}
    Builds <- PairBuilds
    Versions <- LineVersions
    Channels <- OneChannel
    Blobs <- LineBlobs
    Version <- LineVersion
    Code <- LineCode
    MaxCode = 3
    MinFrom <- LineMinFrom
    Channel <- LineChannel
    Blob <- LineBlob
    Bundled = {"x1", "x2"}
    TargetSets <- AnyTargets
    DefaultChannel = "stable"
    RetainVersions = 0
    AllowBackfill = FALSE
    GCBackends = {}
    OtherProducts = FALSE
    ReadsMayFail = FALSE
    MaxJobs = 3
INVARIANTS
    ListedIsServed
PROPERTIES
    SequenceGrows
CHECK_DEADLOCK FALSE
SYMMETRY BackendSymmetry
