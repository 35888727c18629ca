-------------------------- MODULE SubscriptionState --------------------------
(***************************************************************************)
(* The subscription row of the club database and the functions of          *)
(* services/subscriptions.py that rewrite it inside one transaction.       *)
(* Every module that changes a subscription changes it through these       *)
(* operators, so the paid-through date, the dunning fields and the         *)
(* recurring-rule fields are reset together exactly where the code resets  *)
(* them together.                                                          *)
(*                                                                         *)
(* Time is a natural number of ticks.  A timestamp the code only compares  *)
(* with NULL is the Boolean "is set"; the two it computes with,            *)
(* current_period_start and current_period_end, keep their value.  The     *)
(* fields provider_expiration_shutdown_at, _error and _alerted_at are      *)
(* shutdown_at, shutdown_error and shutdown_alerted_at here.  The repay    *)
(* URL, the card token and the reasons are left out: no rule of the        *)
(* entitlement reads them (Billing keeps the card token, which a lookup    *)
(* uses).                                                                  *)
(***************************************************************************)
EXTENDS Integers

\* SubscriptionStatus, with "none" for a row that does not exist.
SubscriptionStatus == {"none", "active", "past_due", "expired"}

\* The statuses that carry an entitlement.
Entitled == {"active", "past_due"}

\* RecurringStatus: what the database believes of the provider's rule.
RecurringStatus ==
    {"pending", "active", "created", "missing", "suspended", "removed",
     "check_failed", "not_applicable"}

\* What STATUS may answer: a rule that can still charge, and one that cannot.
Chargeable == {"active", "created"}
TerminalStatus == {"suspended", "removed", "missing"}

SubscriptionRow ==
    [status                           : SubscriptionStatus,
     current_period_start             : Nat,
     current_period_end               : Nat,
     cancel_at_period_end             : BOOLEAN,
     payment_failed_at                : BOOLEAN,
     payment_failed_user_notified_at  : BOOLEAN,
     grace_reminder_notified_at       : BOOLEAN,
     access_revoked_at                : BOOLEAN,
     access_revoked_notified_at       : BOOLEAN,
     provider_recurring_status        : RecurringStatus,
     provider_recurring_alerted_at    : BOOLEAN,
     shutdown_at                      : BOOLEAN,
     shutdown_error                   : BOOLEAN,
     shutdown_alerted_at              : BOOLEAN]

\* A freshly inserted row: entitled from the moment of payment.
NewSubscription(paidAt, months, recurring) ==
    [status                           |-> "active",
     current_period_start             |-> paidAt,
     current_period_end               |-> paidAt + months,
     cancel_at_period_end             |-> FALSE,
     payment_failed_at                |-> FALSE,
     payment_failed_user_notified_at  |-> FALSE,
     grace_reminder_notified_at       |-> FALSE,
     access_revoked_at                |-> FALSE,
     access_revoked_notified_at       |-> FALSE,
     provider_recurring_status        |-> recurring,
     provider_recurring_alerted_at    |-> FALSE,
     shutdown_at                      |-> FALSE,
     shutdown_error                   |-> FALSE,
     shutdown_alerted_at              |-> FALSE]

NoSubscription == [NewSubscription(0, 0, "pending") EXCEPT !.status = "none"]

\* Faulty variant: the alert of the old incident stays in the row.
ExtendSubscriptionAlerted(s, months, effective) ==
    LET base == IF s.current_period_end < effective
                THEN effective ELSE s.current_period_end
    IN  [s EXCEPT !.current_period_start            = base,
                  !.current_period_end              = base + months,
                  !.status                          = "active",
                  !.cancel_at_period_end            = FALSE,
                  !.payment_failed_at               = FALSE,
                  !.payment_failed_user_notified_at = FALSE,
                  !.grace_reminder_notified_at      = FALSE,
                  !.access_revoked_at               = FALSE,
                  !.access_revoked_notified_at      = FALSE,
                  !.shutdown_at                     = FALSE,
                  !.shutdown_error                  = FALSE]

\* An approved payment: the next period starts where the paid one ends, or at
\* the payment when that is later, and all dunning state is cleared.
ExtendSubscription(s, months, effective) ==
    LET base == IF s.current_period_end < effective
                THEN effective ELSE s.current_period_end
    IN  [s EXCEPT !.current_period_start            = base,
                  !.current_period_end              = base + months,
                  !.status                          = "active",
                  !.cancel_at_period_end            = FALSE,
                  !.payment_failed_at               = FALSE,
                  !.payment_failed_user_notified_at = FALSE,
                  !.grace_reminder_notified_at      = FALSE,
                  !.access_revoked_at               = FALSE,
                  !.access_revoked_notified_at      = FALSE,
                  !.shutdown_at                     = FALSE,
                  !.shutdown_error                  = FALSE,
                  !.shutdown_alerted_at             = FALSE]

\* A declined payment.  The notification marks are kept when the subscription
\* was past due already, so a second refusal is not announced again.
ApplyFailedPayment(s) ==
    LET reset == [s EXCEPT !.payment_failed_user_notified_at = FALSE,
                           !.grace_reminder_notified_at      = FALSE,
                           !.access_revoked_at               = FALSE,
                           !.access_revoked_notified_at      = FALSE]
        row   == IF s.status = "active" THEN reset ELSE s
    IN  [row EXCEPT !.status = "past_due", !.payment_failed_at = TRUE]

IsDueForExpiration(s, cutoff) ==
    s.status \in Entitled /\ s.current_period_end <= cutoff

\* The worker proved that the rule cannot charge any more.
RecordShutdown(s, recurring) ==
    [s EXCEPT !.provider_recurring_status = recurring,
              !.shutdown_at               = TRUE,
              !.shutdown_error            = FALSE,
              !.shutdown_alerted_at       = FALSE]

\* The worker could not prove it: access stays and the error is recorded.
RecordShutdownFailure(s, recurring) ==
    [s EXCEPT !.provider_recurring_status = recurring,
              !.shutdown_at               = FALSE,
              !.shutdown_error            = TRUE]

\* The rule was resumed after a renewal had overtaken its shutdown.
RecordResumed(s) ==
    [s EXCEPT !.provider_recurring_status = "active",
              !.shutdown_at               = FALSE,
              !.shutdown_error            = FALSE,
              !.shutdown_alerted_at       = FALSE]

\* The member cancelled: entitled to the end of the period, no renewal.
CancelAtPeriodEnd(s, recurring) ==
    [RecordShutdown(s, recurring) EXCEPT !.cancel_at_period_end = TRUE]

\* A STATUS answer is stored as it is; a healthy rule may be alerted about anew.
RecordVerified(s, recurring) ==
    [s EXCEPT !.provider_recurring_status     = recurring,
              !.provider_recurring_alerted_at = @ /\ recurring # "active"]

\* Access has been removed; the row records it unless the member could not be
\* removed (the owner of a chat).
ExpireSubscription(s, fullyRevoked) ==
    [s EXCEPT !.status            = "expired",
              !.access_revoked_at = fullyRevoked]

=============================================================================
