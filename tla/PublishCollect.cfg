SPECIFICATION Spec
CONSTANTS
    b1 = b1
    b2 = b2
    None = None
    Backends = {b1}
    Builds <- LineBuilds
    Versions <- LineVersions
    Channels <- TwoChannels
    Blobs <- LineBlobs
    Version <- LineVersion
    Code <- LineCode
    MaxCode = 3
    MinFrom <- LineMinFrom
    Channel <- SharedChannel
    Blob <- SharedBlob
    Bundled = {}
    TargetSets <- AllTargets
    DefaultChannel = "stable"
    RetainVersions = 1
    AllowBackfill = TRUE
    GCBackends = {b1}
    OtherProducts = TRUE
    ReadsMayFail = FALSE
    MaxJobs = 3
PROPERTIES
    SweepKeepsNamed
    CollectorKeepsSettled
CHECK_DEADLOCK FALSE
