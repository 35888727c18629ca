\* A trial with two renewals and a refused one, opened by two accounts; one
\* transaction may be rolled back.
SPECIFICATION Spec
SYMMETRY Symmetry
CONSTANTS
    c1 = c1
    c2 = c2
    t1 = t1
    None = None
    Foreign = Foreign
    Users = {u1, u2}
    Checkouts = {c1}
    Handlers = {h1, h2}
    Events <- TrialEvents
    Tokens = {t1}
    Price = 2
    TrialPrice = 1
    BillingMonths = 2
    TrialMonths = 1
    CheckoutTTL = 0
    Grace = 0
    InOrder = TRUE
    MaxTime = 1
    MaxCrashes = 1
INVARIANTS
    DeferredAreApplied
    PaidThroughIsWhatWasPaid
    ReferralsAreEarned
PROPERTIES
    OrdersStand
    KeepsTheBooks
CHECK_DEADLOCK FALSE
