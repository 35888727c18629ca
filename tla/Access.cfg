\* A member with two subscriptions that share a channel, the owner of the group
\* of one of them, and a stranger with a leaked invitation.
SPECIFICATION Spec
CONSTANTS
  member   = member
  stranger = stranger
  basic    = basic
  extra    = extra
  channel  = channel
  group    = group
  Users       = {member, stranger}
  Subs        = {basic, extra}
  Owner       <- OwnerOf
  Covers      <- PlanOf
  Order       <- SortOrder
  ChatOwners  <- OwnsGroup
  Worker      = Worker
  None        = None
  AdminsWait  = TRUE
  Grace       = 0
  InviteTTL   = 1
  MaxTime     = 1
  MaxPayments = 1
  MaxLinks    = 2
  MaxMishaps  = 1
INVARIANTS
  TypeOK
  MembersAreCovered
  RecordsAreTrue
PROPERTIES
  CoveredStays
  ManualBansStand
CHECK_DEADLOCK FALSE
