SPECIFICATION FairSpec
CONSTANTS
    i1 = i1  i2 = i2  b1 = b1  b2 = b2  w1 = w1  w2 = w2
    Indexes = {i1, i2}
    Blobs = {b1, b2}
    Published <- OneIsOut
    Uploaded = {b1, b2}
    Documents <- Publishing
    SharedKinds = {"cas"}
    WrongBodies = TRUE
    Writers = {w1, w2}
    TicketTTL = 2
    Grace = 1
    MaxNow = 1
    MaxRequests = 2
    MaxCrashes = 1
    None = None
INVARIANTS ServedIsWhole
PROPERTIES KeepsListed OrphansGo
CHECK_DEADLOCK FALSE
