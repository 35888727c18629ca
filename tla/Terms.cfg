\* One order over the ends of the months, the tariff edited at any time.
SPECIFICATION Spec
CONSTANTS
    Prices       = {1, 2}
    Periods      = {1, 2}
    StartDates   <- MonthEnds
    Grace        = 1
    RegularCount = 3
    None         = None
    MaxMonth     = 17
INVARIANTS
    AgreedTermsStand
    TrialIsADiscount
    MonthsAreExact
    ChargesComeInTime
    PaidMembersStay
CHECK_DEADLOCK FALSE
