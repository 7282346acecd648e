SPECIFICATION Spec
CONSTANTS
    a = a b = b c = c w1 = w1 w2 = w2 h1 = h1 h2 = h2
    NoPayment = NoPayment NoWorkspace = NoWorkspace
    Payments = {a}
    Workspaces = {w1, w2}
    Handlers = {h1, h2}
    Stripe <- AllStripe
    Amount <- AmountByPayment
    MaxFaults = 0
INVARIANTS CreditedAtMostOnce
CHECK_DEADLOCK FALSE
