\* Liveness: a call may fail, no process dies, an amount may be wrong.
SPECIFICATION FairSpec
CONSTANTS
  Subs          = {s1}
  Handlers      = {h1, h2}
  Worker        = Worker
  Members       = {}
  Operators     = {}
  None          = None
  InitialRules  = {"active"}
  Legacy        = {}
  Mismatched    = TRUE
  FirstPeriods  = {2}
  BillingMonths = 2
  Grace         = 1
  MaxTime       = 3
  MaxCharges    = 1
  MaxFailures   = 1
  MaxCrashes    = 0
PROPERTIES
  OverdueIsResolved
  StoppedRuleIsNoticed
CHECK_DEADLOCK FALSE
