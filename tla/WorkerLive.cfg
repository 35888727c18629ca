\* One event, one failure and one lost process: everything is told and every broadcast
\* is finished in the end.
SPECIFICATION FairSpec
CONSTANTS
  member   = member
  stranger = stranger
  Subs     = {s1}
  Users    <- TwoUsers
  Owner    <- OwnedByMember
  Requests = {h1}
  Admins   = {a1, a2}
  Worker   = Worker
  None     = None
  Answers  = {"active", "suspended"}
  BillingMonths = 1
  Grace    = 1
  ReminderLead = 1
  BatchSize = 1
  MaxAttempts = 2
  MaxTime  = 2
  MaxEvents   = 1
  MaxFailures = 1
  MaxCrashes  = 1
INVARIANTS
  BroadcastsAddUp
PROPERTIES
  EveryoneIsTold
  ResolutionsReachTheTold
  BroadcastsFinish
  ServedAreLeftAlone
CHECK_DEADLOCK FALSE
