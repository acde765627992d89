SPECIFICATION Spec
CONSTANTS
    a = a  b = b  c = c
    r1 = r1  r2 = r2  r3 = r3  x1 = x1  x2 = x2
    p1 = p1  p2 = p2  p3 = p3  p4 = p4
    None = None
    Mine = Mine
    Torn = Torn
    Paths <- MCPaths
    Releases <- MCReleases
    Contents = {x1, x2}
    Table <- MCTable
    Preserved = {c}
    Bundles = {r1, r2, r3}
    Plans <- MCPlans
    Ids = {a, b, c}
    Id <- MCId
    Code <- MCCode
    Retain = 2
    Reserved = {}
PROPERTIES TreeHolds ReplacedAtOnce LibraryHolds
