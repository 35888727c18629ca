\* A member, the worker, one renewal and the operator's repair, among calls that
\* fail and tasks that are lost; an older release may have expired the
\* subscription, the rule may never have existed.
SPECIFICATION Spec
CONSTANTS
  Subs          = {s1}
  Handlers      = {h1}
  Worker        = Worker
  Members       = {m1}
  Operators     = {o1}
  None          = None
  InitialRules  = {"active", "created", "missing"}
  Legacy        = {s1}
  Mismatched    = FALSE
  FirstPeriods  = {2}
  BillingMonths = 2
  Grace         = 1
  MaxTime       = 3
  MaxCharges    = 1
  MaxFailures   = 1
  MaxCrashes    = 1
INVARIANTS
  Inv
  NoOrphanedRule
  CleanCancellationHolds
  AutoRenewIsHonest
PROPERTIES
  PaidMembersKeepAccess
CHECK_DEADLOCK FALSE
