\* Violated: two subscriptions of one member, one of them renewed meanwhile.
SPECIFICATION Spec
CONSTANTS
  Subs          = {s1, s2}
  Handlers      = {h1}
  Worker        = Worker
  Members       = {m1}
  Operators     = {}
  None          = None
  InitialRules  = {"active"}
  Legacy        = {}
  Mismatched    = FALSE
  FirstPeriods  = {1, 2}
  BillingMonths = 2
  Grace         = 1
  MaxTime       = 0
  MaxCharges    = 1
  MaxFailures   = 0
  MaxCrashes    = 0
INVARIANTS
  CancelledIsNotCharged
CHECK_DEADLOCK FALSE
