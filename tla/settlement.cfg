SPECIFICATION FairSpec
CONSTANTS
    a = a b = b c = c w1 = w1 w2 = w2 h1 = h1 h2 = h2
    NoPayment = NoPayment NoWorkspace = NoWorkspace
    Payments = {a, b, c}
    Workspaces = {w1, w2}
    Handlers = {h1, h2}
    Stripe <- AllButC
    Amount <- AmountByPayment
    MaxFaults = 2
INVARIANTS TypeOK NoCreditBeforePayment AckedIsSettled OverCreditBounded CreditMatchesRows MockCreditedAtMostOnce
CHECK_DEADLOCK FALSE
PROPERTIES CompletedEventuallyPaid ImplementsAccount
