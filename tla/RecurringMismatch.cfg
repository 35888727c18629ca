\* Violated: an approval of a wrong amount for a member who was removed.
SPECIFICATION Spec
CONSTANTS
  Subs          = {s1}
  Handlers      = {h1}
  Worker        = Worker
  Members       = {}
  Operators     = {}
  None          = None
  InitialRules  = {"active"}
  Legacy        = {}
  Mismatched    = TRUE
  FirstPeriods  = {2}
  BillingMonths = 2
  Grace         = 1
  MaxTime       = 4
  MaxCharges    = 1
  MaxFailures   = 0
  MaxCrashes    = 0
INVARIANTS
  NoOrphanedRule
CHECK_DEADLOCK FALSE
