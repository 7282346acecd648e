SPECIFICATION Spec
CONSTANTS
    r1 = r1 r2 = r2 r3 = r3
    k1 = k1 k2 = k2 p1 = p1 p2 = p2 w1 = w1 w2 = w2 m1 = m1
    NoKey = NoKey
    Requests = {r1, r2}
    Keys = {k1, k2}
    Projects = {p1, p2}
    Workspaces = {w1, w2}
    Models = {m1}
    KeyProject <- TwoKeyProject
    ProjectWorkspace <- TwoWorkspaces
    Kinds = {"json"}
    OpeningCredit <- CreditFirst
    OpeningBudget <- NoBudget
    MaxCost = 1
    TopUps = {1}
    MaxTopUps = 1
    Budgets = {}
    MaxRetries = 0
    Faults = TRUE
    NoWorkspace = NoWorkspace
SYMMETRY Symmetry
PROPERTIES ImplementsAccount
INVARIANTS LedgerBalances OverdraftBounded
