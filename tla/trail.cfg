SPECIFICATION FairSpec
CONSTANTS
    r1 = r1 r2 = r2 r3 = r3
    k1 = k1 k2 = k2 p1 = p1 p2 = p2 w1 = w1 w2 = w2 m1 = m1
    NoKey = NoKey
    Requests = {r1, r2}
    Keys = {k1}
    Projects = {p1}
    Workspaces = {w1}
    Models = {m1}
    KeyProject <- OneKeyProject
    ProjectWorkspace <- OneWorkspace
    Kinds = {"json", "translated", "stream"}
    OpeningCredit <- CreditOne
    OpeningBudget <- NoBudget
    MaxCost = 1
    TopUps = {}
    MaxTopUps = 0
    Budgets = {}
    MaxRetries = 1
    Faults = TRUE
INVARIANTS TypeOK ChargeMatchesAnswer TrailFollowsCharge RevokedKeyStaysOut
PROPERTIES CallsFinish
