\* A member, his subscription and what is told about them, across three events and a
\* failing delivery; also broadcasts to him, who is given up at the first error.
SPECIFICATION Spec
CONSTANTS
  member   = member
  stranger = stranger
  Subs     = {s1}
  Users    <- OneMember
  Owner    <- OwnedByMember
  Requests = {h1}
  Admins   = {a1}
  Worker   = Worker
  None     = None
  Answers  = {"active", "suspended"}
  BillingMonths = 1
  Grace    = 1
  ReminderLead = 1
  BatchSize = 1
  MaxAttempts = 1
  MaxTime  = 2
  MaxEvents   = 3
  MaxFailures = 1
  MaxCrashes  = 0
INVARIANTS
  TypeOK
  NoticesAreTold
  BroadcastsAddUp
CHECK_DEADLOCK FALSE
