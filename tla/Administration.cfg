SPECIFICATION Spec
CONSTANTS
    r1 = r1  r2 = r2  b1 = b1  b2 = b2
    c1 = c1  c2 = c2  t1 = t1  t2 = t2
    q1 = q1  old = old  new = new
    None = None
    Torn = Torn
    Requests = {r1, r2}
    Tokens = {t1, t2}
    Backends = {b1, b2}
    Channels = {c1, c2}
    MaxCode = 2
    MaxTroubles = 1
    Names = {t1, t2}
    Passwords = {q1}
    Products = {q1}
    MaxAccounts = 3
    MaxMints = 2
    MaxFaults = 1
    Versions = {t1, t2}
    Tools = {c1, c2}
    Bodies = {b1, b2}
    Pipelines = {r1, r2}
    Upgrades <- MCUpgrades
    Keep = 1
    MaxApplies = 2
    MaxCuts = 1
    Publishers = {old}
    Issued = {new}
    KeyIds = {b1, b2}
    Paths = {c1, c2, q1}
    Hands = {r1, r2}
    MaxSeeds = 2
    MaxKeyFaults = 1
    Operator = q1
    StoreProducts = {c1, c2}
    MaxFamilies = 2
    MaxIssued = 4
    MaxCutShort = 1
    MaxMigrationCuts = 3
INVARIANTS
    WithdrawnOpensNothing
    AccountsHold
    HostGetsTool
    OutcomeIsTrue
    TokensSurvive
    KeysHold
PROPERTIES
    RegistrationHolds
CHECK_DEADLOCK FALSE
SYMMETRY AdministrationSymmetry
