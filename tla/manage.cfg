SPECIFICATION Spec
CONSTANTS
    u1 = u1 u2 = u2 u3 = u3 o1 = o1 o2 = o2 w0 = w0 w1 = w1 w2 = w2
    p1 = p1 p2 = p2 k1 = k1 k2 = k2 h1 = h1 h2 = h2
    SuperUser = SuperUser NoOrg = NoOrg Missing = Missing
    Handlers = {h1, h2}
    Users = {u1, u2, u3}
    Orgs = {o1, o2}
    Workspaces = {w0, w1, w2}
    Projects = {p1, p2}
    Keys = {k1, k2}
    Models = {"m1"}
    OpeningRows <- Seeded
    OpeningParent <- SeededParent
    OpeningRole <- SeededRole
    MaxRequests = 3
    MaxFaults = 1
SYMMETRY Symmetry
INVARIANTS TypeOK ChangesAuthorised ActivityTruthful AuditGapExplained OrgsAreOwned
PROPERTIES RolesNeverChange RowsStayInPlace
CHECK_DEADLOCK FALSE
