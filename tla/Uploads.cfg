SPECIFICATION FairSpec
CONSTANTS
    c1 = c1  c2 = c2  u1 = u1  u2 = u2  u3 = u3  a1 = a1
    v1 = v1  t1 = t1  t2 = t2
    p1 = p1  p2 = p2  large = large  small = small
    Clients = {c1, c2}
    Archive <- OneArchive
    Archives = {a1}
    Parts = {p1, p2}
    Ids = {u1, u2, u3}
    TTL = 1
    MaxNow = 2
    LastFault = 0
    MaxFaults = 1
    Totals <- Sizes
    MinPartSize = 2
    MaxPartSize = 4
    MaxParts = 3
    None = None
    VersionOf <- OneVersion
    Targets = {t1, t2}
    MaxCode = 2
    MaxBuilds = 2
    Strict = {c1, c2}
    Backfill = {c2}
    Contents <- Packed
    Selectors <- Systems
    Partial = Partial
    Blobs = {large, small}
    Large = {large}
    Needs <- BlobsOf
    Workers = 2
    Attempts = 2
INVARIANTS UploadIsWhole JobLeavesBlobs
PROPERTIES RetriesSucceed
CHECK_DEADLOCK FALSE
