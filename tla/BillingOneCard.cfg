\* Two tariffs paid with one card, a renewal that may come before its claim and is
\* then left for the claim or the operator, a wrong payment and a sale made elsewhere.
SPECIFICATION Spec
SYMMETRY Symmetry
CONSTANTS
    c1 = c1
    c2 = c2
    t1 = t1
    None = None
    Foreign = Foreign
    Users = {u1}
    Checkouts = {c1, c2}
    Handlers = {h1}
    Events <- OneCardEvents
    Tokens = {t1}
    Price = 2
    TrialPrice = 2
    BillingMonths = 2
    TrialMonths = 1
    CheckoutTTL = 1
    Grace = 1
    InOrder = FALSE
    MaxTime = 0
    MaxCrashes = 0
INVARIANTS
    SubscriptionsArePaidFor
    AppliedAtMostOnce
    PaidThroughIsWhatWasPaid
    Inv
PROPERTIES
    RenewalsStayOnTheCard
CHECK_DEADLOCK FALSE
