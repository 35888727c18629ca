\* Liveness of a trial with one renewal, with repeated deliveries and a crash.
SPECIFICATION FairSpec
CONSTANTS
    c1 = c1
    c2 = c2
    t1 = t1
    None = None
    Foreign = Foreign
    Users = {u1}
    Checkouts = {c1}
    Handlers = {h1, h2}
    Events <- LiveEvents
    Tokens = {t1}
    Price = 2
    TrialPrice = 1
    BillingMonths = 2
    TrialMonths = 1
    CheckoutTTL = 1
    Grace = 1
    InOrder = TRUE
    MaxTime = 1
    MaxCrashes = 1
PROPERTIES
    ConfirmationActivates
    RenewalIsApplied
CHECK_DEADLOCK FALSE
